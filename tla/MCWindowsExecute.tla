--------------------------- MODULE MCWindowsExecute ---------------------------
(***************************************************************************)
(* Calls of execute() on Windows for TLC, built from the default one.      *)
(***************************************************************************)
EXTENDS WindowsExecute

Own == [v \in Variable |-> IF v = "LANG" THEN Unset ELSE "own"]

Plain == [input |-> NoInput, stderr |-> "null", timeout |-> FALSE, throwExit |-> FALSE,
          callbacks |-> FALSE, job |-> TRUE, detached |-> FALSE, crowded |-> FALSE,
          writesNothing |-> FALSE, merge |-> TRUE, inherit |-> FALSE, given |-> <<>>, before |-> Own]

\* Both pipes, with a timeout and callbacks; with and without a job object.
OutputCalls ==
  {[Plain EXCEPT !.stderr = e, !.timeout = TRUE, !.callbacks = TRUE, !.job = j] :
     e \in {"pipe", "stdout"}, j \in BOOLEAN}

\* A program that writes no bytes at times.
EmptyCalls == {[Plain EXCEPT !.stderr = "pipe", !.writesNothing = TRUE]}

\* Input that the pipe takes, and more of it; a thread that creates processes.
InputCalls ==
  {[Plain EXCEPT !.input = n, !.timeout = t, !.crowded = t] :
     n \in {0, 1, 3}, t \in BOOLEAN}

Gives(v, u, x) == [var |-> v, usual |-> u, value |-> x]

\* Maps of variables, under their usual names and in other letters.
Maps == {<<>>, <<Gives("PATH", TRUE, "a")>>, <<Gives("LC_ALL", TRUE, "a")>>,
         <<Gives("LANG", TRUE, "a"), Gives("PATH", TRUE, "b")>>,
         <<Gives("LC_ALL", FALSE, "a")>>,
         <<Gives("LC_ALL", TRUE, "a"), Gives("LC_ALL", FALSE, "b")>>}

EnvironmentCalls ==
  {[Plain EXCEPT !.merge = m, !.inherit = i, !.given = g, !.detached = TRUE,
                 !.throwExit = m] :
     m \in BOOLEAN, i \in BOOLEAN, g \in Maps}

Calls == OutputCalls \cup EmptyCalls \cup InputCalls \cup EnvironmentCalls
=============================================================================

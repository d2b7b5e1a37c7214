------------------------------ MODULE MCExecute ------------------------------
(***************************************************************************)
(* Calls of execute() for TLC, built from the default one.                 *)
(***************************************************************************)
EXTENDS Execute

Plain == [input |-> NoInput, stderr |-> "pipe", timeout |-> FALSE, threadSafe |-> FALSE,
          allowUnread |-> FALSE, throwExit |-> FALSE, throwSignal |-> FALSE,
          callbacks |-> FALSE, merge |-> FALSE, inherit |-> FALSE, given |-> {},
          before |-> Variable, sigpipeIgnored |-> FALSE, sigchldIgnored |-> FALSE,
          program |-> "any"]

\* No input; every redirection, both ways to create the child, callbacks that
\* stop or throw.
OutputCalls ==
  {[Plain EXCEPT !.stderr = e, !.timeout = t, !.threadSafe = f, !.callbacks = TRUE,
                 !.throwExit = x, !.throwSignal = x] :
     e \in {"pipe", "stdout", "null"}, t \in BOOLEAN, f \in BOOLEAN, x \in BOOLEAN}

\* With input; both dispositions of SIGPIPE.
InputCalls ==
  {[Plain EXCEPT !.input = n, !.stderr = "stdout", !.timeout = t, !.allowUnread = u,
                 !.sigpipeIgnored = p] :
     n \in {0, 2}, t \in BOOLEAN, u \in BOOLEAN, p \in BOOLEAN}

\* A timeout, and input that fits into the pipe; both ways to create the child.
TimeoutCalls ==
  {[Plain EXCEPT !.timeout = TRUE, !.stderr = "stdout", !.callbacks = c, !.input = n,
                 !.threadSafe = f] :
     c \in BOOLEAN, n \in {NoInput, 1}, f \in BOOLEAN}

\* A timeout, in a process whose children the system waits for.
IgnoringSigchldCalls == {[Plain EXCEPT !.timeout = TRUE, !.sigchldIgnored = TRUE]}

\* A filter fed with as much as the two pipes and the filter hold between them.
FilterCalls(n) ==
  {[Plain EXCEPT !.program = "filter", !.input = n, !.stderr = e, !.threadSafe = f] :
     e \in {"pipe", "stdout", "null"}, f \in BOOLEAN}

SmallFilterCalls == UNION {FilterCalls(n) : n \in {0, 1, 3}}

\* Every combination of the options that decide what is reported.
ReportCalls ==
  {[Plain EXCEPT !.stderr = "stdout", !.timeout = t, !.throwExit = x, !.throwSignal = s,
                 !.threadSafe = f, !.callbacks = TRUE] :
     t \in BOOLEAN, x \in BOOLEAN, s \in BOOLEAN, f \in BOOLEAN}

\* Every environment, with a program that does one thing after another.
EnvironmentCalls ==
  {[Plain EXCEPT !.program = "filter", !.input = 0, !.stderr = "stdout",
                 !.merge = m, !.inherit = i, !.given = g, !.before = b] :
     m \in BOOLEAN, i \in BOOLEAN, g \in SUBSET Variable, b \in SUBSET Variable}

SafetyCalls == OutputCalls \cup InputCalls \cup ReportCalls \cup EnvironmentCalls
LiveCalls == TimeoutCalls \cup SmallFilterCalls \cup IgnoringSigchldCalls
=============================================================================

----------------------------- MODULE SharedTimer -----------------------------
(***************************************************************************)
(* The timeouts of several calls of execute() in one process               *)
(* (execution/src/posix/execution.cc).  Each call is Execute's, reduced to *)
(* what concerns the timeout: ITIMER_REAL and command_timedout exist once  *)
(* per process, and the handler runs on a thread that the system chooses.  *)
(***************************************************************************)
EXTENDS Integers, FiniteSets

CONSTANTS
  Calls,         \* the calls of execute() that the process makes
  Timed,         \* those with a timeout
  Hung,          \* those whose program never ends by itself
  Thread,        \* the thread that makes each call
  SignalThread   \* the thread that gets the process's signals

ASSUME CallsAssumption == Timed \subseteq Calls /\ Hung \subseteq Calls

VARIABLES
  pc,        \* where each call is
  timer,     \* ITIMER_REAL: "off" or "armed"
  pending,   \* SIGALRM was sent and its handler has not run
  flag,      \* command_timedout
  outcome    \* what each call returned or threw

vars == <<pc, timer, pending, flag, outcome>>

Init ==
  /\ pc = [c \in Calls |-> "idle"]
  /\ timer = "off" /\ pending = FALSE /\ flag = FALSE
  /\ outcome = [c \in Calls |-> "none"]

Active(c) == pc[c] \notin {"idle", "done"}

\* A thread handles its signals before it does anything else.
CanRun(c) == ~(pending /\ Thread[c] = SignalThread)

Goto(c, point) == pc' = [pc EXCEPT ![c] = point]

\* A thread makes one call at a time.
Start(c) ==
  /\ CanRun(c)
  /\ pc[c] = "idle"
  /\ \A d \in Calls : Thread[d] = Thread[c] => ~Active(d)
  /\ Goto(c, IF c \in Timed THEN "set" ELSE "check")
  /\ UNCHANGED <<timer, pending, flag, outcome>>

\* setitimer, which replaces what was set before.
SetTimer(c) ==
  /\ CanRun(c)
  /\ pc[c] = "set"
  /\ timer' = "armed"
  /\ Goto(c, "check")
  /\ UNCHANGED <<pending, flag, outcome>>

Leaves(c, result) ==
  /\ outcome' = [outcome EXCEPT ![c] = result]
  /\ Goto(c, IF c \in Timed THEN "disarm" ELSE "done")

CheckInterruptedOnly(c) ==
  /\ CanRun(c)
  /\ pc[c] = "check"
  /\ Goto(c, "body")
  /\ UNCHANGED <<timer, pending, flag, outcome>>
\* while (!command_timedout)
Check(c) ==
  /\ CanRun(c)
  /\ pc[c] = "check"
  /\ IF flag THEN Leaves(c, "timeout") ELSE Goto(c, "body") /\ UNCHANGED outcome
  /\ UNCHANGED <<timer, pending, flag>>

\* select gives up after 500 ms if the call has a timeout.
Again(c) ==
  /\ CanRun(c)
  /\ pc[c] = "body"
  /\ c \in Timed
  /\ Goto(c, "check")
  /\ UNCHANGED <<timer, pending, flag, outcome>>

\* The child's streams are closed, or a callback ends the call.
Finish(c) ==
  /\ CanRun(c)
  /\ pc[c] = "body"
  /\ c \notin Hung
  /\ Leaves(c, "result")
  /\ UNCHANGED <<timer, pending, flag>>

DisarmNothing(c) ==
  /\ CanRun(c)
  /\ pc[c] = "disarm"
  /\ Goto(c, "clear")
  /\ UNCHANGED <<timer, pending, flag, outcome>>
\* timer_reset
Disarm(c) ==
  /\ CanRun(c)
  /\ pc[c] = "disarm"
  /\ timer' = "off"
  /\ Goto(c, "clear")
  /\ UNCHANGED <<pending, flag, outcome>>

ClearNothing(c) ==
  /\ CanRun(c)
  /\ pc[c] = "clear"
  /\ Goto(c, "done")
  /\ UNCHANGED <<timer, pending, flag, outcome>>
Clear(c) ==
  /\ CanRun(c)
  /\ pc[c] = "clear"
  /\ flag' = FALSE
  /\ Goto(c, "done")
  /\ UNCHANGED <<timer, pending, outcome>>

\* The timer expires.
Expire ==
  /\ timer = "armed"
  /\ timer' = "off"
  /\ pending' = TRUE
  /\ UNCHANGED <<pc, flag, outcome>>

\* timer_handler
Handle ==
  /\ pending
  /\ pending' = FALSE
  /\ flag' = TRUE
  /\ UNCHANGED <<pc, timer, outcome>>

Over == (\A c \in Calls : pc[c] = "done" \/ (pc[c] = "body" /\ c \in Hung)) /\ UNCHANGED vars

Step(c) ==
  Start(c) \/ SetTimer(c) \/ Check(c) \/ Again(c) \/ Finish(c) \/ Disarm(c) \/ Clear(c)

Next == Expire \/ Handle \/ Over \/ \E c \in Calls : Step(c)

Spec == Init /\ [][Next]_vars

\* Every thread is scheduled, time passes, signals are handled.
FairSpec ==
  /\ Spec
  /\ WF_vars(Expire) /\ WF_vars(Handle)
  /\ \A c \in Calls : WF_vars(Step(c))

-----------------------------------------------------------------------------
(* Properties.                                                             *)

\* In a single-threaded process all of this happens on the one thread there is.
SingleThreaded == \A c \in Calls : Thread[c] = SignalThread

TypeOK ==
  /\ pc \in [Calls -> {"idle", "set", "check", "body", "disarm", "clear", "done"}]
  /\ timer \in {"off", "armed"} /\ pending \in BOOLEAN /\ flag \in BOOLEAN
  /\ outcome \in [Calls -> {"none", "timeout", "result"}]

\* Where a call that set the timer is until it resets it.
Within(c) == c \in Timed /\ pc[c] \in {"check", "body", "disarm"}

\* A timer that is armed, a signal under way and a flag that is set each belong
\* to a call that will still reset them: none is left over for a later call.
NothingLeftOver ==
  /\ timer = "armed" \/ pending => \E c \in Calls : Within(c)
  /\ flag => \E c \in Calls : Within(c) \/ (c \in Timed /\ pc[c] = "clear")

\* Only a call with a timeout times out ("Defaults to no timeout").
OnlyTimedTimeOut == \A c \in Calls : outcome[c] = "timeout" => c \in Timed

\* A call with a timeout does not wait for a program that never ends.
TimedCallsEnd == \A c \in Timed : pc[c] = "set" ~> pc[c] = "done"
=============================================================================

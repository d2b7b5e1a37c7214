------------------------------- MODULE Command -------------------------------
(***************************************************************************)
(* What a caller of execute() is promised (execution.hpp), whatever the    *)
(* platform: at most one child is created, the caller hears how it ended   *)
(* only when there is no child to look after any more, and what it hears   *)
(* is true.  Where a child can be ended from outside, no exception leaves  *)
(* one behind either.                                                      *)
(***************************************************************************)
EXTENDS Integers

CONSTANTS
  Fates,      \* the ways a child can end, [kind, code] records
  Failures,   \* the kinds of exception that say nothing of the child's end
  MayAbandon  \* such an exception may leave the child to itself

VARIABLES
  child,      \* "none", "alive", "ended" or "collected"
  fate,       \* how it ended
  outcome     \* what the caller got

vars == <<child, fate, outcome>>

NoFate == [kind |-> "none", code |-> 0]
Pending == [kind |-> "pending", ok |-> FALSE, code |-> 0]

Init == child = "none" /\ fate = NoFate /\ outcome = Pending

\* The true reports of fate f: a result, or the exception for that fate.
Reports(f) ==
  {[kind |-> "result", ok |-> f = [kind |-> "exit", code |-> 0], code |-> f.code]} \cup
  {o \in {[kind |-> "child_exit", ok |-> FALSE, code |-> f.code]} :
     f.kind = "exit" /\ f.code # 0} \cup
  {o \in {[kind |-> "child_signal", ok |-> FALSE, code |-> f.code]} : f.kind = "signal"}

\* A program that is not found counts as one that exited with 127.
NotFound == Reports([kind |-> "exit", code |-> 127])

Create ==
  /\ child = "none" /\ outcome = Pending
  /\ child' = "alive"
  /\ UNCHANGED <<fate, outcome>>

End ==
  /\ child = "alive"
  /\ child' = "ended"
  /\ fate' \in Fates
  /\ UNCHANGED outcome

Collect ==
  /\ child = "ended" /\ outcome = Pending
  /\ child' = "collected"
  /\ UNCHANGED <<fate, outcome>>

Report ==
  /\ outcome = Pending
  /\ \/ child = "collected" /\ outcome' \in Reports(fate)
     \/ child = "none" /\ outcome' \in NotFound
  /\ UNCHANGED <<child, fate>>

Fail ==
  /\ outcome = Pending
  /\ MayAbandon \/ child \in {"none", "collected"}
  /\ outcome' \in {[kind |-> k, ok |-> FALSE, code |-> 0] : k \in Failures}
  /\ UNCHANGED <<child, fate>>

Next == Create \/ End \/ Collect \/ Report \/ Fail

Spec == Init /\ [][Next]_vars
=============================================================================

-------------------------- MODULE SharedTimerProofs --------------------------
(***************************************************************************)
(* In a single-threaded process the timeouts of successive calls do not    *)
(* disturb one another, however many calls there are.                      *)
(***************************************************************************)
EXTENDS SharedTimer, TLAPS

\* The type invariant.
THEOREM TypeCorrect == Spec => []TypeOK
<1>1. Init => TypeOK
  BY DEF Init, TypeOK
<1>2. TypeOK /\ [Next]_vars => TypeOK'
  <2> SUFFICES ASSUME TypeOK, [Next]_vars PROVE TypeOK'
    OBVIOUS
  <2>1. CASE Expire \/ Handle \/ Over \/ UNCHANGED vars
    BY <2>1 DEF TypeOK, Expire, Handle, Over, vars
  <2>2. ASSUME NEW c \in Calls, Step(c) PROVE TypeOK'
    BY <2>2 DEF TypeOK, Step, Start, SetTimer, Check, Again, Finish, Disarm, Clear, Leaves, Goto
  <2>3. QED
    BY <2>1, <2>2 DEF Next
<1>3. QED
  BY <1>1, <1>2, PTL DEF Spec

\* One thread has one call under way, and that call owns whatever is set.
OneAtATime == \A c, d \in Calls : Active(c) /\ Active(d) => c = d

\* Only a call with a timeout gets to set the timer.
SetIfTimed == \A c \in Calls : pc[c] = "set" => c \in Timed

SharedInv == TypeOK /\ OneAtATime /\ SetIfTimed /\ NothingLeftOver /\ OnlyTimedTimeOut

\* No call starts while another is under way.
LEMMA OneAtATimeStep ==
  ASSUME SingleThreaded, TypeOK, OneAtATime, [Next]_vars
  PROVE  OneAtATime'
<1> USE DEF OneAtATime, Active, TypeOK
<1>1. CASE Expire \/ Handle \/ Over \/ UNCHANGED vars
  BY <1>1 DEF Expire, Handle, Over, vars
<1>2. ASSUME NEW c \in Calls, Start(c) PROVE OneAtATime'
  <2>1. \A d \in Calls : pc[d] \in {"idle", "done"}
    BY <1>2 DEF Start, SingleThreaded
  <2>2. \A d \in Calls : d # c => pc'[d] = pc[d]
    BY <1>2 DEF Start, Goto
  <2>3. QED
    BY <2>1, <2>2
<1>3. ASSUME NEW c \in Calls,
             SetTimer(c) \/ Check(c) \/ Again(c) \/ Finish(c) \/ Disarm(c) \/ Clear(c)
      PROVE  OneAtATime'
  <2>1. Active(c) /\ \A d \in Calls : d # c => pc'[d] = pc[d]
    BY <1>3 DEF SetTimer, Check, Again, Finish, Disarm, Clear, Leaves, Goto
  <2>2. QED
    BY <2>1
<1>4. QED
  BY <1>1, <1>2, <1>3 DEF Next, Step

\* The handler runs before the call that set the timer can go on, so that the
\* call still clears the flag; nobody else resets anything in between.
LEMMA NothingLeftOverStep ==
  ASSUME SingleThreaded, TypeOK, OneAtATime, SetIfTimed, NothingLeftOver, [Next]_vars
  PROVE  NothingLeftOver'
<1> USE DEF NothingLeftOver, Within, TypeOK
<1>1. CASE Expire \/ Handle \/ Over \/ UNCHANGED vars
  BY <1>1 DEF Expire, Handle, Over, vars
<1>2. ASSUME NEW c \in Calls, Step(c) PROVE NothingLeftOver'
  <2>1. ~pending /\ pending' = pending
    BY <1>2 DEF Step, CanRun, SingleThreaded, Start, SetTimer, Check, Again, Finish, Disarm, Clear
  <2>2. CASE Start(c)
    BY <2>1, <2>2 DEF Start, Goto
  <2>3. CASE SetTimer(c)
    <3>1. c \in Timed
      BY <2>3 DEF SetTimer, SetIfTimed
    <3>2. QED
      BY <2>1, <2>3, <3>1 DEF SetTimer, Goto
  <2>4. CASE Check(c)
    BY <2>1, <2>4 DEF Check, Leaves, Goto
  <2>5. CASE Again(c)
    BY <2>1, <2>5 DEF Again, Goto
  <2>6. CASE Finish(c)
    BY <2>1, <2>6 DEF Finish, Leaves, Goto
  <2>7. CASE Disarm(c)
    BY <2>1, <2>7 DEF Disarm, Goto
  <2>8. CASE Clear(c)
    BY <2>1, <2>8 DEF Clear, Goto, OneAtATime, Active
  <2>9. QED
    BY <1>2, <2>2, <2>3, <2>4, <2>5, <2>6, <2>7, <2>8 DEF Step
<1>3. QED
  BY <1>1, <1>2 DEF Next

\* A call that sees the flag set is the one the flag belongs to.
LEMMA OnlyTimedStep ==
  ASSUME TypeOK, OneAtATime, SetIfTimed, NothingLeftOver, OnlyTimedTimeOut, [Next]_vars
  PROVE  OnlyTimedTimeOut' /\ SetIfTimed'
<1> USE DEF OnlyTimedTimeOut, SetIfTimed, TypeOK
<1>1. CASE Expire \/ Handle \/ Over \/ UNCHANGED vars
  BY <1>1 DEF Expire, Handle, Over, vars
<1>2. ASSUME NEW c \in Calls, Check(c) PROVE OnlyTimedTimeOut' /\ SetIfTimed'
  <2>1. flag => c \in Timed
    BY <1>2 DEF Check, NothingLeftOver, Within, OneAtATime, Active
  <2>2. QED
    BY <1>2, <2>1 DEF Check, Leaves, Goto
<1>3. ASSUME NEW c \in Calls,
             Start(c) \/ SetTimer(c) \/ Again(c) \/ Finish(c) \/ Disarm(c) \/ Clear(c)
      PROVE  OnlyTimedTimeOut' /\ SetIfTimed'
  BY <1>3 DEF Start, SetTimer, Again, Finish, Disarm, Clear, Leaves, Goto
<1>4. QED
  BY <1>1, <1>2, <1>3 DEF Next, Step

\* The inductive invariant of a single-threaded process.
THEOREM SharedInvariant == ASSUME SingleThreaded PROVE Spec => []SharedInv
<1>1. Init => SharedInv
  BY DEF Init, SharedInv, TypeOK, OneAtATime, Active, SetIfTimed, NothingLeftOver, OnlyTimedTimeOut
<1>2. TypeOK /\ [Next]_vars /\ TypeOK' /\ SharedInv => SharedInv'
  BY OneAtATimeStep, NothingLeftOverStep, OnlyTimedStep DEF SharedInv
<1>3. QED
  BY <1>1, <1>2, TypeCorrect, PTL DEF Spec

\* Once the calls under way are over neither timer nor flag is left set.
THEOREM NothingIsLeftOver == ASSUME SingleThreaded PROVE Spec => []NothingLeftOver
<1>1. SharedInv => NothingLeftOver
  BY DEF SharedInv
<1>2. QED
  BY <1>1, SharedInvariant, PTL

\* A call without a timeout never times out.
THEOREM OthersDoNotTimeOut == ASSUME SingleThreaded PROVE Spec => []OnlyTimedTimeOut
<1>1. SharedInv => OnlyTimedTimeOut
  BY DEF SharedInv
<1>2. QED
  BY <1>1, SharedInvariant, PTL
=============================================================================

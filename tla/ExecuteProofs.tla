---------------------------- MODULE ExecuteProofs ----------------------------
(***************************************************************************)
(* Theorems about one call of execute(), for every set of calls, every     *)
(* pipe capacity and every bound on what the program writes.               *)
(***************************************************************************)
EXTENDS Execute, SequenceTheorems, TLAPS

-----------------------------------------------------------------------------
(* The type invariant, part by part.                                       *)

\* Control never leaves the listed points.
LEMMA ControlType == ControlOK /\ [Next]_vars => ControlOK'
<1> SUFFICES ASSUME ControlOK, [Next]_vars PROVE ControlOK'
  OBVIOUS
<1> USE DEF ControlOK, Point, Unwind, FailBeforeFork, ThrowFromStreams,
      ReturnFromStreams, Served, parentVars, AfterPipe, Stream
<1>1. CASE Which
  BY <1>1 DEF Which
<1>2. ASSUME NEW s \in Stream, OpenPipe(s) PROVE ControlOK'
  BY <1>2 DEF OpenPipe
<1>3. CASE RedirectStderr
  BY <1>3 DEF RedirectStderr
<1>4. CASE CreateChild
  BY <1>4 DEF CreateChild
<1>5. CASE ReleaseUnused
  BY <1>5 DEF ReleaseUnused
<1>6. CASE SetTimer
  BY <1>6 DEF SetTimer
<1>7. CASE PidCallback
  BY <1>7 DEF PidCallback
<1>8. CASE Poll
  BY <1>8 DEF Poll
<1>9. CASE SelectReady
  BY <1>9 DEF SelectReady
<1>10. CASE SelectExpires
  BY <1>10 DEF SelectExpires
<1>11. CASE SelectFails
  BY <1>11 DEF SelectFails
<1>12. ASSUME NEW s \in Output, ReadEof(s) PROVE ControlOK'
  BY <1>12 DEF ReadEof
<1>13. ASSUME NEW s \in Output, ReadData(s) PROVE ControlOK'
  BY <1>13 DEF ReadData
<1>14. CASE BeginWrite
  BY <1>14 DEF BeginWrite
<1>15. CASE WriteSome
  BY <1>15 DEF WriteSome
<1>16. CASE WriteBroken
  BY <1>16 DEF WriteBroken
<1>17. CASE Flush
  BY <1>17 DEF Flush
<1>18. CASE WaitChild
  BY <1>18 DEF WaitChild
<1>19. CASE DisarmTimer
  BY <1>19 DEF DisarmTimer
<1>20. CASE ClearFlag
  BY <1>20 DEF ClearFlag
<1>21. CASE KillGroup
  BY <1>21 DEF KillGroup
<1>22. CASE CloseRest
  BY <1>22 DEF CloseRest
<1>23. CASE Alarm
  BY <1>23 DEF Alarm
<1>24. CASE ExecFails
  BY <1>24 DEF ExecFails
<1>25. CASE SetGroup
  BY <1>25 DEF SetGroup
<1>26. CASE Exec
  BY <1>26 DEF Exec
<1>27. CASE ProgramEnds
  BY <1>27 DEF ProgramEnds
<1>28. CASE Spawn
  BY <1>28 DEF Spawn
<1>29. CASE HeirEnds
  BY <1>29 DEF HeirEnds
<1>30. ASSUME NEW p \in Descendant, ProgramReads(p) PROVE ControlOK'
  BY <1>30 DEF ProgramReads
<1>31. ASSUME NEW p \in Descendant, ProgramCloses(p) PROVE ControlOK'
  BY <1>31 DEF ProgramCloses
<1>32. ASSUME NEW p \in Descendant, NEW s \in Output, ProgramWrites(p, s) PROVE ControlOK'
  BY <1>32 DEF ProgramWrites
<1>33. CASE Over \/ UNCHANGED vars
  BY <1>33 DEF Over, vars
<1> QED
  BY <1>1, <1>2, <1>3, <1>4, <1>5, <1>6, <1>7, <1>8, <1>9, <1>10, <1>11, <1>12, <1>13,
  <1>14, <1>15, <1>16, <1>17, <1>18, <1>19, <1>20, <1>21, <1>22, <1>23, <1>24, <1>25,
  <1>26, <1>27, <1>28, <1>29, <1>30, <1>31, <1>32, <1>33 DEF Next, Parent, Child,
  Program

\* The call's own variables.
LEMMA CallType == CallOK /\ [Next]_vars => CallOK'
<1> SUFFICES ASSUME CallOK, [Next]_vars PROVE CallOK'
  OBVIOUS
<1> USE DEF CallOK, parentVars, timerVars, LeaveStreams, ThrowFromStreams,
      ReturnFromStreams, Served
<1>1. CASE Which
  BY <1>1 DEF Which
<1>2. ASSUME NEW s \in Stream, OpenPipe(s) PROVE CallOK'
  BY <1>2 DEF OpenPipe
<1>3. CASE RedirectStderr
  BY <1>3 DEF RedirectStderr
<1>4. CASE CreateChild
  BY <1>4 DEF CreateChild
<1>5. CASE ReleaseUnused
  BY <1>5 DEF ReleaseUnused
<1>6. CASE SetTimer
  BY <1>6 DEF SetTimer
<1>7. CASE PidCallback
  BY <1>7 DEF PidCallback
<1>8. CASE Poll
  BY <1>8 DEF Poll
<1>9. CASE SelectReady
  BY <1>9 DEF SelectReady, Ready, Watched
<1>10. CASE SelectExpires
  BY <1>10 DEF SelectExpires
<1>11. CASE SelectFails
  BY <1>11 DEF SelectFails
<1>12. ASSUME NEW s \in Output, ReadEof(s) PROVE CallOK'
  BY <1>12 DEF ReadEof
<1>13. ASSUME NEW s \in Output, ReadData(s) PROVE CallOK'
  BY <1>13 DEF ReadData
<1>14. CASE BeginWrite
  BY <1>14 DEF BeginWrite
<1>15. CASE WriteSome
  BY <1>15 DEF WriteSome
<1>16. CASE WriteBroken
  BY <1>16 DEF WriteBroken
<1>17. CASE Flush
  BY <1>17 DEF Flush
<1>18. CASE WaitChild
  BY <1>18 DEF WaitChild
<1>19. CASE DisarmTimer
  BY <1>19 DEF DisarmTimer
<1>20. CASE ClearFlag
  BY <1>20 DEF ClearFlag
<1>21. CASE KillGroup
  BY <1>21 DEF KillGroup
<1>22. CASE CloseRest
  BY <1>22 DEF CloseRest
<1>23. CASE Alarm
  BY <1>23 DEF Alarm
<1>24. CASE ExecFails
  BY <1>24 DEF ExecFails
<1>25. CASE SetGroup
  BY <1>25 DEF SetGroup
<1>26. CASE Exec
  BY <1>26 DEF Exec
<1>27. CASE ProgramEnds
  BY <1>27 DEF ProgramEnds
<1>28. CASE Spawn
  BY <1>28 DEF Spawn
<1>29. CASE HeirEnds
  BY <1>29 DEF HeirEnds
<1>30. ASSUME NEW p \in Descendant, ProgramReads(p) PROVE CallOK'
  BY <1>30 DEF ProgramReads
<1>31. ASSUME NEW p \in Descendant, ProgramCloses(p) PROVE CallOK'
  BY <1>31 DEF ProgramCloses
<1>32. ASSUME NEW p \in Descendant, NEW s \in Output, ProgramWrites(p, s) PROVE CallOK'
  BY <1>32 DEF ProgramWrites
<1>33. CASE Over \/ UNCHANGED vars
  BY <1>33 DEF Over, vars
<1> QED
  BY <1>1, <1>2, <1>3, <1>4, <1>5, <1>6, <1>7, <1>8, <1>9, <1>10, <1>11, <1>12, <1>13,
  <1>14, <1>15, <1>16, <1>17, <1>18, <1>19, <1>20, <1>21, <1>22, <1>23, <1>24, <1>25,
  <1>26, <1>27, <1>28, <1>29, <1>30, <1>31, <1>32, <1>33 DEF Next, Parent, Child,
  Program

\* The steps that change the processes, and the others.
LEMMA ProcessSteps ==
  [Next]_vars =>
    \/ UNCHANGED childVars
    \/ CreateChild \/ WaitChild \/ KillGroup \/ Child \/ ProgramEnds \/ Spawn \/ HeirEnds
  BY DEF Next, Parent, Program, vars, childVars, Which, OpenPipe, RedirectStderr,
     ReleaseUnused, SetTimer, PidCallback, Poll, SelectReady, SelectExpires, SelectFails,
     ReadEof, ReadData, BeginWrite, WriteSome, WriteBroken, Flush, DisarmTimer, ClearFlag,
     CloseRest, Alarm, ProgramReads, ProgramCloses, ProgramWrites, Over

\* The states of the child and of its descendant, and how the child ended.
LEMMA ProcessType == ProcessOK /\ [Next]_vars => ProcessOK'
<1> SUFFICES ASSUME ProcessOK, [Next]_vars PROVE ProcessOK'
  OBVIOUS
<1> USE ExitAssumption DEF ProcessOK, Descendant, childVars, Dies, Exited, Signaled
<1>1. CASE UNCHANGED childVars
  BY <1>1
<1>2. CASE CreateChild
  BY <1>2 DEF CreateChild
<1>3. CASE WaitChild
  BY <1>3 DEF WaitChild
<1>4. CASE KillGroup
  BY <1>4 DEF KillGroup, Group, SIGKILL
<1>5. CASE ExecFails
  BY <1>5 DEF ExecFails
<1>6. CASE SetGroup \/ Exec
  BY <1>6 DEF SetGroup, Exec
<1>7. CASE ProgramEnds
  BY <1>7 DEF ProgramEnds, SIGTERM
<1>8. CASE Spawn \/ HeirEnds
  BY <1>8 DEF Spawn, HeirEnds
<1>9. QED
  BY <1>1, <1>2, <1>3, <1>4, <1>5, <1>6, <1>7, <1>8, ProcessSteps DEF Child

\* The steps that move data, and the others.
LEMMA DataSteps ==
  [Next]_vars =>
    \/ UNCHANGED dataVars
    \/ \E s \in Output : ReadData(s)
    \/ WriteSome
    \/ \E p \in Descendant : ProgramReads(p)
    \/ \E p \in Descendant, s \in Output : ProgramWrites(p, s)
  BY DEF Next, Parent, Child, Program, vars, dataVars, Which, OpenPipe, RedirectStderr,
     CreateChild, ReleaseUnused, SetTimer, PidCallback, Poll, SelectReady, SelectExpires,
     SelectFails, ReadEof, BeginWrite, WriteBroken, Flush, WaitChild, DisarmTimer,
     ClearFlag, KillGroup, CloseRest, Alarm, ExecFails, SetGroup, Exec, ProgramEnds, Spawn,
     HeirEnds, ProgramCloses, Over

\* Pipes keep to their capacity and give out what was put in.
LEMMA DataType == DataOK /\ [Next]_vars => DataOK'
<1> SUFFICES ASSUME DataOK, [Next]_vars PROVE DataOK'
  OBVIOUS
<1> USE BoundAssumption DEF DataOK, InPipe, Stream, Output
<1>1. CASE UNCHANGED dataVars
  BY <1>1 DEF dataVars
<1>2. ASSUME NEW s \in Output, ReadData(s) PROVE DataOK'
  BY <1>2 DEF ReadData
<1>3. CASE WriteSome
  BY <1>3 DEF WriteSome, Room
<1>4. ASSUME NEW p \in Descendant, ProgramReads(p) PROVE DataOK'
  BY <1>4 DEF ProgramReads
<1>5. ASSUME NEW p \in Descendant, NEW s \in Output, ProgramWrites(p, s) PROVE DataOK'
  BY <1>5 DEF ProgramWrites, Room
<1>6. QED
  BY <1>1, <1>2, <1>3, <1>4, <1>5, DataSteps

\* The call stays the same.
LEMMA CfgStep == [Next]_vars => cfg' = cfg
BY DEF Next, Parent, Child, Program, Which, OpenPipe, RedirectStderr, CreateChild, ReleaseUnused,
       SetTimer, PidCallback, Poll, SelectReady, SelectExpires, SelectFails, ReadEof, ReadData,
       BeginWrite, WriteSome, WriteBroken, Flush, WaitChild, DisarmTimer, ClearFlag, KillGroup,
       CloseRest, Alarm, ExecFails, SetGroup, Exec, ProgramEnds, Spawn, HeirEnds, ProgramReads,
       ProgramCloses, ProgramWrites, Over, vars

\* What has been written of the input is taken out of the buffer.
LEMMA WrittenOnceKept ==
  ASSUME TypeOK, [Next]_vars
  PROVE  WrittenOnce'
<1>1. sent["stdin"] \in Nat /\ cfg.input \in Nat \cup {NoInput} /\ cfg' = cfg
  <2>1. cfg \in Config  BY ConfigAssumption DEF TypeOK, CallOK
  <2>2. cfg' = cfg  BY CfgStep
  <2> QED  BY <2>1, <2>2 DEF TypeOK, DataOK, Stream, Config
<1>2. CASE sent'["stdin"] = sent["stdin"]
  BY <1>1, <1>2 DEF TypeOK, WrittenOnce
<1>3. CASE WriteSome
  <2>1. PICK n \in 1..Room("stdin") :
          n <= Unwritten /\ sent' = [sent EXCEPT !["stdin"] = @ + n]
    BY <1>3 DEF WriteSome
  <2>2. sent'["stdin"] = sent["stdin"] + n  BY <2>1 DEF TypeOK, DataOK, Stream
  <2>3. n \in Int /\ n > 0  BY <1>1, BoundAssumption, <2>1
  <2> QED  BY <1>1, <2>1, <2>2, <2>3 DEF WrittenOnce, Unwritten, NoInput
<1>4. sent'["stdin"] = sent["stdin"] \/ WriteSome
  <2>1. CASE UNCHANGED dataVars  BY <2>1 DEF dataVars
  <2>2. ASSUME NEW s \in Output, ReadData(s) PROVE sent' = sent  BY <2>2 DEF ReadData
  <2>3. ASSUME NEW p \in Descendant, ProgramReads(p) PROVE sent' = sent
    BY <2>3 DEF ProgramReads
  <2>4. ASSUME NEW p \in Descendant, NEW s \in Output, ProgramWrites(p, s)
        PROVE  sent'["stdin"] = sent["stdin"]
    BY <2>4 DEF ProgramWrites, Output, TypeOK, DataOK, Stream
  <2> QED  BY <2>1, <2>2, <2>3, <2>4, DataSteps
<1> QED  BY <1>2, <1>3, <1>4

\* Each process holds descriptors only.
LEMMA HeldType ==
  ASSUME held \in [Proc -> SUBSET Descriptor], [Next]_vars
  PROVE  held' \in [Proc -> SUBSET Descriptor]
<1> DEFINE HeldOK == held \in [Proc -> SUBSET Descriptor]
<1> SUFFICES ASSUME HeldOK PROVE HeldOK'
  OBVIOUS
<1> USE DEF Proc, Descendant, Descriptor, ParentEnds, ChildEnds, FailBeforeFork,
      ParentCloses, LeaveStreams, ThrowFromStreams, ReturnFromStreams, Dies, Stream,
      Output, ReadEnd, WriteEnd, ParentEnd
<1>1. CASE Which
  BY <1>1 DEF Which
<1>2. ASSUME NEW s \in Stream, OpenPipe(s) PROVE HeldOK'
  BY <1>2 DEF OpenPipe
<1>3. CASE RedirectStderr
  BY <1>3 DEF RedirectStderr
<1>4. CASE CreateChild
  BY <1>4 DEF CreateChild
<1>5. CASE ReleaseUnused
  BY <1>5 DEF ReleaseUnused
<1>6. CASE SetTimer
  BY <1>6 DEF SetTimer
<1>7. CASE PidCallback
  BY <1>7 DEF PidCallback
<1>8. CASE Poll
  BY <1>8 DEF Poll
<1>9. CASE SelectReady
  BY <1>9 DEF SelectReady
<1>10. CASE SelectExpires
  BY <1>10 DEF SelectExpires
<1>11. CASE SelectFails
  BY <1>11 DEF SelectFails
<1>12. ASSUME NEW s \in Output, ReadEof(s) PROVE HeldOK'
  BY <1>12 DEF ReadEof
<1>13. ASSUME NEW s \in Output, ReadData(s) PROVE HeldOK'
  BY <1>13 DEF ReadData
<1>14. CASE BeginWrite
  BY <1>14 DEF BeginWrite
<1>15. CASE WriteSome
  BY <1>15 DEF WriteSome
<1>16. CASE WriteBroken
  BY <1>16 DEF WriteBroken
<1>17. CASE Flush
  BY <1>17 DEF Flush
<1>18. CASE WaitChild
  BY <1>18 DEF WaitChild
<1>19. CASE DisarmTimer
  BY <1>19 DEF DisarmTimer
<1>20. CASE ClearFlag
  BY <1>20 DEF ClearFlag
<1>21. CASE KillGroup
  BY <1>21 DEF KillGroup, Group
<1>22. CASE CloseRest
  BY <1>22 DEF CloseRest
<1>23. CASE Alarm
  BY <1>23 DEF Alarm
<1>24. CASE ExecFails
  BY <1>24 DEF ExecFails
<1>25. CASE SetGroup
  BY <1>25 DEF SetGroup
<1>26. CASE Exec
  BY <1>26 DEF Exec, Kept, ChildStderr
<1>27. CASE ProgramEnds
  BY <1>27 DEF ProgramEnds
<1>28. CASE Spawn
  BY <1>28 DEF Spawn
<1>29. CASE HeirEnds
  BY <1>29 DEF HeirEnds
<1>30. ASSUME NEW p \in Descendant, ProgramReads(p) PROVE HeldOK'
  BY <1>30 DEF ProgramReads
<1>31. ASSUME NEW p \in Descendant, ProgramCloses(p) PROVE HeldOK'
  BY <1>31 DEF ProgramCloses
<1>32. ASSUME NEW p \in Descendant, NEW s \in Output, ProgramWrites(p, s) PROVE HeldOK'
  BY <1>32 DEF ProgramWrites
<1>33. CASE Over \/ UNCHANGED vars
  BY <1>33 DEF Over, vars
<1> QED
  BY <1>1, <1>2, <1>3, <1>4, <1>5, <1>6, <1>7, <1>8, <1>9, <1>10, <1>11, <1>12, <1>13,
  <1>14, <1>15, <1>16, <1>17, <1>18, <1>19, <1>20, <1>21, <1>22, <1>23, <1>24, <1>25,
  <1>26, <1>27, <1>28, <1>29, <1>30, <1>31, <1>32, <1>33 DEF Next, Parent, Child,
  Program

\* An exception of one of the known kinds is an outcome.
LEMMA ThrownOutcome ==
  ASSUME NEW k \in {"child_exit", "child_signal", "execution", "timeout", "callback", "sigpipe"},
         NEW c \in Int
  PROVE  Thrown(k, c) \in Outcome
  BY DEF Thrown, Outcome

\* A result is an outcome.
LEMMA ReturnedOutcome ==
  ASSUME NEW ok \in BOOLEAN, NEW c \in Int
  PROVE  Returned(ok, c) \in Outcome
  BY DEF Returned, Outcome

\* So is what the reaper makes of the child's status.
LEMMA VerdictOutcome == ProcessOK => Verdict \in Outcome
<1> SUFFICES ASSUME ProcessOK PROVE Verdict \in Outcome
  OBVIOUS
<1> DEFINE code == AsChar(fate.code)
<1>1. code \in Int
  BY DEF ProcessOK, AsChar
<1>2. Thrown("child_exit", code) \in Outcome /\ Thrown("child_signal", code) \in Outcome
  BY <1>1, ThrownOutcome
<1>3. Returned(FALSE, 0) \in Outcome
  BY DEF Returned, Outcome
<1>4. (fate = Exited(0)) \in BOOLEAN
  OBVIOUS
<1>5. Returned(fate = Exited(0), code) \in Outcome
  BY <1>1, <1>4, ReturnedOutcome, Zenon
<1>6. Verdict \in {Returned(FALSE, 0), Thrown("child_exit", code), Thrown("child_signal", code),
                   Returned(fate = Exited(0), code)}
  BY DEF Verdict
<1>7. QED
  BY <1>2, <1>3, <1>5, <1>6

\* Every step leaves the outcome alone or makes it one of these.
LEMMA OutcomeType ==
  ASSUME outcome \in Outcome, ProcessOK, [Next]_vars PROVE outcome' \in Outcome
<1> DEFINE Known == {Thrown("execution", 0), Thrown("timeout", 0), Thrown("callback", 0),
                     Thrown("sigpipe", 0), Thrown("child_exit", 127), Returned(FALSE, 127), Verdict}
<1>a. Known \subseteq Outcome
  <2>1. \A k \in {"child_exit", "execution", "timeout", "callback", "sigpipe"}, c \in {0, 127} :
          Thrown(k, c) \in Outcome
    BY ThrownOutcome
  <2>2. Returned(FALSE, 127) \in Outcome
    BY DEF Returned, Outcome
  <2>3. /\ Thrown("execution", 0) \in Outcome /\ Thrown("timeout", 0) \in Outcome
        /\ Thrown("callback", 0) \in Outcome /\ Thrown("sigpipe", 0) \in Outcome
        /\ Thrown("child_exit", 127) \in Outcome
    BY <2>1
  <2>4. QED
    BY <2>2, <2>3, VerdictOutcome
<1>b. outcome' \in Known \cup {outcome}
  <2> USE DEF parentVars, Unwind, FailBeforeFork, ThrowFromStreams, ReturnFromStreams, Served
  <2>1. CASE Which
    BY <2>1 DEF Which
  <2>2. ASSUME NEW s \in Stream, OpenPipe(s) PROVE outcome' \in Known \cup {outcome}
    BY <2>2 DEF OpenPipe
  <2>3. CASE RedirectStderr
    BY <2>3 DEF RedirectStderr
  <2>4. CASE CreateChild
    BY <2>4 DEF CreateChild
  <2>5. CASE ReleaseUnused
    BY <2>5 DEF ReleaseUnused
  <2>6. CASE SetTimer
    BY <2>6 DEF SetTimer
  <2>7. CASE PidCallback
    BY <2>7 DEF PidCallback
  <2>8. CASE Poll
    BY <2>8 DEF Poll
  <2>9. CASE SelectReady
    BY <2>9 DEF SelectReady
  <2>10. CASE SelectExpires
    BY <2>10 DEF SelectExpires
  <2>11. CASE SelectFails
    BY <2>11 DEF SelectFails
  <2>12. ASSUME NEW s \in Output, ReadEof(s) PROVE outcome' \in Known \cup {outcome}
    BY <2>12 DEF ReadEof
  <2>13. ASSUME NEW s \in Output, ReadData(s) PROVE outcome' \in Known \cup {outcome}
    BY <2>13 DEF ReadData
  <2>14. CASE BeginWrite
    BY <2>14 DEF BeginWrite
  <2>15. CASE WriteSome
    BY <2>15 DEF WriteSome
  <2>16. CASE WriteBroken
    BY <2>16 DEF WriteBroken
  <2>17. CASE Flush
    BY <2>17 DEF Flush
  <2>18. CASE WaitChild
    BY <2>18 DEF WaitChild
  <2>19. CASE DisarmTimer
    BY <2>19 DEF DisarmTimer
  <2>20. CASE ClearFlag
    BY <2>20 DEF ClearFlag
  <2>21. CASE KillGroup
    BY <2>21 DEF KillGroup
  <2>22. CASE CloseRest
    BY <2>22 DEF CloseRest
  <2>23. CASE Alarm
    BY <2>23 DEF Alarm
  <2>24. CASE ExecFails
    BY <2>24 DEF ExecFails
  <2>25. CASE SetGroup
    BY <2>25 DEF SetGroup
  <2>26. CASE Exec
    BY <2>26 DEF Exec
  <2>27. CASE ProgramEnds
    BY <2>27 DEF ProgramEnds
  <2>28. CASE Spawn
    BY <2>28 DEF Spawn
  <2>29. CASE HeirEnds
    BY <2>29 DEF HeirEnds
  <2>30. ASSUME NEW p \in Descendant, ProgramReads(p) PROVE outcome' \in Known \cup {outcome}
    BY <2>30 DEF ProgramReads
  <2>31. ASSUME NEW p \in Descendant, ProgramCloses(p) PROVE outcome' \in Known \cup {outcome}
    BY <2>31 DEF ProgramCloses
  <2>32. ASSUME NEW p \in Descendant, NEW s \in Output, ProgramWrites(p, s) PROVE outcome' \in Known \cup {outcome}
    BY <2>32 DEF ProgramWrites
  <2>33. CASE Over \/ UNCHANGED vars
    BY <2>33 DEF Over, vars
  <2> QED
    BY <2>1, <2>2, <2>3, <2>4, <2>5, <2>6, <2>7, <2>8, <2>9, <2>10, <2>11, <2>12, <2>13,
    <2>14, <2>15, <2>16, <2>17, <2>18, <2>19, <2>20, <2>21, <2>22, <2>23, <2>24, <2>25,
    <2>26, <2>27, <2>28, <2>29, <2>30, <2>31, <2>32, <2>33 DEF Next, Parent, Child,
    Program
<1>c. QED
  BY <1>a, <1>b

\* TypeOK is inductive as it stands.
LEMMA TypeStep == TypeOK /\ [Next]_vars => TypeOK'
  BY ControlType, CallType, ProcessType, DataType, WrittenOnceKept, HeldType, OutcomeType
  DEF TypeOK

\* A call starts in a state of the right type.
LEMMA InitType == Init => TypeOK
<1> SUFFICES ASSUME Init PROVE TypeOK
  OBVIOUS
<1> USE DEF Init
<1>1. ControlOK
  BY DEF ControlOK, Point
<1>2. CallOK
  BY DEF CallOK
<1>3. ProcessOK
  BY DEF ProcessOK, NoFate
<1>4. DataOK
  BY BoundAssumption DEF DataOK, InPipe
<1>5. outcome \in Outcome
  BY DEF Outcome, Pending
<1>6. held \in [Proc -> SUBSET Descriptor]
  OBVIOUS
<1>7. WrittenOnce
  BY ConfigAssumption DEF WrittenOnce, Config, Stream, NoInput
<1>8. QED
  BY <1>1, <1>2, <1>3, <1>4, <1>5, <1>6, <1>7 DEF TypeOK

\* The type invariant: in particular no pipe holds more than its capacity and
\* nothing is read that was not written.
THEOREM TypeCorrect == Spec => []TypeOK
  BY InitType, TypeStep, PTL DEF Spec

-----------------------------------------------------------------------------

Before == pc \in {"which", "pipe_stdin", "pipe_stdout", "pipe_stderr", "fork"}

\* Where the reaper stands at each point, and what it says of the child.
ReaperInv ==
  /\ Before \/ pc = "release" => reaper = "none"
  /\ Streaming \/ pc \in {"timer", "pid_callback", "flush", "kill", "reap"} => reaper = "kill"
  /\ pc = "wait" => reaper = "wait"
  /\ pc \in {"disarm", "clear"} => reaper \in {"kill", "spent"}
  /\ pc \in {"close", "done"} => reaper \in {"none", "spent"}
  /\ pc \in {"kill", "reap"} => Failed
  /\ pc \in {"disarm", "clear"} => (Failed <=> reaper = "kill")
  /\ proc["child"] = "none" <=> reaper = "none" /\ pc # "release"
  /\ proc["child"] = "reaped" <=> reaper = "spent"

\* A timer is set only if asked for and is off again before the child is killed.
TimerInv ==
  /\ pc = "timer" => cfg.timeout
  /\ ~cfg.timeout => timer = "off" /\ ~flag
  /\ Before \/ pc \in {"release", "timer", "kill", "reap", "close", "done"}
       => timer = "off" /\ ~flag
  /\ pc = "clear" => timer = "off"

\* The parent's descriptors: none before and after, and only its own ends
\* once it has released the others.
ParentInv ==
  /\ pc \in {"which", "done"} => held["parent"] = {}
  /\ Streaming \/ pc \in {"timer", "pid_callback", "flush", "wait"}
       => held["parent"] \cap ChildEnds = {}

\* All of stream s was read and nobody can write to it any more.
Drained(s) == got[s] = sent[s] /\ ~HasWriter(s)

\* An output stream the parent does not hold is drained, a stream that select
\* reported has data or is drained, and only a callback ends the reading early.
OutputInv ==
  /\ Before \/ Streaming \/ pc \in {"release", "timer", "pid_callback"}
       => /\ ~stopped
          /\ \A s \in Output : ParentEnd[s] \in held["parent"] \/ Drained(s)
  /\ pc \in {"serve", "write"} => \A s \in ready \cap Output : InPipe(s) > 0 \/ Drained(s)
  /\ pc \in {"flush", "wait"} \/ Normal => stopped \/ \A s \in Output : Drained(s)

ExecuteInv == TypeOK /\ ReaperInv /\ TimerInv /\ ParentInv /\ OutputInv

\* With vfork the child has its group before the parent can decide to kill,
\* so that the kill leaves nobody who could start another process.
GroupInv ==
  /\ proc["heir"] \in {"none", "running", "dead"}
  /\ proc["child"] \in {"none", "forked", "grouped"} => proc["heir"] = "none"
  /\ proc["child"] \in {"forked", "grouped"} => pc = "release" \/ cfg.threadSafe
  /\ ~cfg.threadSafe /\ Failed /\ pc \in {"reap", "close", "done"}
       => \A p \in Descendant : proc[p] \in {"none", "dead", "reaped"}

\* Reaper, timer and parent's descriptors depend on one another only.
LEMMA ControlStep ==
  TypeOK /\ ReaperInv /\ TimerInv /\ ParentInv /\ [Next]_vars
    => (ReaperInv /\ TimerInv /\ ParentInv)'
<1> DEFINE I == ReaperInv /\ TimerInv /\ ParentInv
<1> SUFFICES ASSUME TypeOK, I, [Next]_vars PROVE I'
  OBVIOUS
<1> USE DEF TypeOK, ControlOK, ProcessOK, ReaperInv, TimerInv, ParentInv, Before,
      Streaming, Failed, Thrown, Returned, Proc, Descendant, Unwind, FailBeforeFork,
      ParentCloses, LeaveStreams, ThrowFromStreams, ReturnFromStreams, Served, Dies,
      parentVars, timerVars, childVars, ParentEnds, ChildEnds, Stream, Output
<1>1. CASE Which
  BY <1>1 DEF Which
<1>2. ASSUME NEW s \in Stream, OpenPipe(s) PROVE I'
  BY <1>2 DEF OpenPipe, PipeStep, AfterPipe
<1>3. CASE RedirectStderr
  BY <1>3 DEF RedirectStderr
<1>4. CASE CreateChild
  BY <1>4 DEF CreateChild
<1>5. CASE ReleaseUnused
  BY <1>5 DEF ReleaseUnused
<1>6. CASE SetTimer
  BY <1>6 DEF SetTimer
<1>7. CASE PidCallback
  BY <1>7 DEF PidCallback
<1>8. CASE Poll
  BY <1>8 DEF Poll
<1>9. CASE SelectReady
  BY <1>9 DEF SelectReady
<1>10. CASE SelectExpires
  BY <1>10 DEF SelectExpires
<1>11. CASE SelectFails
  BY <1>11 DEF SelectFails
<1>12. ASSUME NEW s \in Output, ReadEof(s) PROVE I'
  BY <1>12 DEF ReadEof, ParentEnd
<1>13. ASSUME NEW s \in Output, ReadData(s) PROVE I'
  BY <1>13 DEF ReadData
<1>14. CASE BeginWrite
  BY <1>14 DEF BeginWrite
<1>15. CASE WriteSome
  BY <1>15 DEF WriteSome
<1>16. CASE WriteBroken
  BY <1>16 DEF WriteBroken
<1>17. CASE Flush
  BY <1>17 DEF Flush
<1>18. CASE WaitChild
  BY <1>18 DEF WaitChild, Verdict
<1>19. CASE DisarmTimer
  BY <1>19 DEF DisarmTimer
<1>20. CASE ClearFlag
  BY <1>20 DEF ClearFlag, ReaperPending
<1>21. CASE KillGroup
  BY <1>21 DEF KillGroup, Group
<1>22. CASE CloseRest
  BY <1>22 DEF CloseRest, Descriptor
<1>23. CASE Alarm
  BY <1>23 DEF Alarm
<1>24. CASE ExecFails
  BY <1>24 DEF ExecFails
<1>25. CASE SetGroup
  BY <1>25 DEF SetGroup
<1>26. CASE Exec
  BY <1>26 DEF Exec, Kept, ChildStderr
<1>27. CASE ProgramEnds
  BY <1>27 DEF ProgramEnds
<1>28. CASE Spawn
  BY <1>28 DEF Spawn
<1>29. CASE HeirEnds
  BY <1>29 DEF HeirEnds
<1>30. ASSUME NEW p \in Descendant, ProgramReads(p) PROVE I'
  BY <1>30 DEF ProgramReads
<1>31. ASSUME NEW p \in Descendant, ProgramCloses(p) PROVE I'
  BY <1>31 DEF ProgramCloses
<1>32. ASSUME NEW p \in Descendant, NEW s \in Output, ProgramWrites(p, s) PROVE I'
  BY <1>32 DEF ProgramWrites
<1>33. CASE Over \/ UNCHANGED vars
  BY <1>33 DEF Over, vars
<1> HIDE DEF TypeOK, ControlOK, ProcessOK, ReaperInv, TimerInv, ParentInv, Before,
      Streaming, Failed, Thrown, Returned, Proc, Descendant, Unwind, FailBeforeFork,
      ParentCloses, LeaveStreams, ThrowFromStreams, ReturnFromStreams, Served, Dies,
      parentVars, timerVars, childVars, ParentEnds, ChildEnds, Stream, Output, I
<1> QED
  BY <1>1, <1>2, <1>3, <1>4, <1>5, <1>6, <1>7, <1>8, <1>9, <1>10, <1>11, <1>12, <1>13,
  <1>14, <1>15, <1>16, <1>17, <1>18, <1>19, <1>20, <1>21, <1>22, <1>23, <1>24, <1>25,
  <1>26, <1>27, <1>28, <1>29, <1>30, <1>31, <1>32, <1>33 DEF Next, Parent, Child,
  Program

\* A drained stream stays drained, and select tells a drained stream from one
\* that is only empty.
LEMMA OutputStep ==
  TypeOK /\ ReaperInv /\ ParentInv /\ OutputInv /\ [Next]_vars => OutputInv'
<1> SUFFICES ASSUME TypeOK, ReaperInv, ParentInv, OutputInv, [Next]_vars PROVE OutputInv'
  OBVIOUS
<1> USE DEF TypeOK, DataOK, ReaperInv, ParentInv, OutputInv, Failed, Normal, Drained,
      HasWriter, InPipe, Before, Streaming, Proc, Descendant, Unwind, FailBeforeFork,
      ParentCloses, LeaveStreams, ThrowFromStreams, ReturnFromStreams, Served, Dies,
      parentVars, timerVars, childVars, dataVars, ParentEnds, ChildEnds, Stream, Output,
      ParentEnd, WriteEnd
<1>1. CASE Which
  BY <1>1 DEF Which, Thrown, Returned
<1>2. ASSUME NEW s \in Stream, OpenPipe(s) PROVE OutputInv'
  BY <1>2 DEF OpenPipe, PipeStep, AfterPipe, ReadEnd
<1>3. CASE RedirectStderr
  BY <1>3 DEF RedirectStderr
<1>4. CASE CreateChild
  BY <1>4 DEF CreateChild
<1>5. CASE ReleaseUnused
  BY <1>5 DEF ReleaseUnused
<1>6. CASE SetTimer
  BY <1>6 DEF SetTimer
<1>7. CASE PidCallback
  BY <1>7 DEF PidCallback, Thrown
<1>8. CASE Poll
  BY <1>8 DEF Poll, Watched, Thrown
<1>9. CASE SelectReady
  BY <1>9 DEF SelectReady, Ready, Watched
<1>10. CASE SelectExpires
  BY <1>10 DEF SelectExpires
<1>11. CASE SelectFails
  BY <1>11 DEF SelectFails
<1>12. ASSUME NEW s \in Output, ReadEof(s) PROVE OutputInv'
  BY <1>12 DEF ReadEof, Turn
<1>13. ASSUME NEW s \in Output, ReadData(s) PROVE OutputInv'
  BY <1>13 DEF ReadData, Turn
<1>14. CASE BeginWrite
  BY <1>14 DEF BeginWrite
<1>15. CASE WriteSome
  BY <1>15 DEF WriteSome
<1>16. CASE WriteBroken
  BY <1>16 DEF WriteBroken
<1>17. CASE Flush
  BY <1>17 DEF Flush
<1>18. CASE WaitChild
  BY <1>18 DEF WaitChild, Verdict
<1>19. CASE DisarmTimer
  BY <1>19 DEF DisarmTimer
<1>20. CASE ClearFlag
  BY <1>20 DEF ClearFlag, ReaperPending
<1>21. CASE KillGroup
  BY <1>21 DEF KillGroup, Group
<1>22. CASE CloseRest
  BY <1>22 DEF CloseRest, Descriptor
<1>23. CASE Alarm
  BY <1>23 DEF Alarm
<1>24. CASE ExecFails
  BY <1>24 DEF ExecFails
<1>25. CASE SetGroup
  BY <1>25 DEF SetGroup
<1>26. CASE Exec
  <2>1. /\ Kept \subseteq held["child"]
        /\ held' = [held EXCEPT !["child"] = Kept]
        /\ UNCHANGED <<cfg, pc, parentVars, timerVars, fate, dataVars>>
    BY <1>26 DEF Exec
  <2>2. held'["parent"] = held["parent"] /\ \A p \in Proc : held'[p] \subseteq held[p]
    BY <2>1
  <2>3. \A s \in Output : Drained(s) => Drained(s)'
    BY <2>1, <2>2
  <2>4. QED
    BY <2>1, <2>2, <2>3
<1>27. CASE ProgramEnds
  BY <1>27 DEF ProgramEnds
<1>28. CASE Spawn
  BY <1>28 DEF Spawn
<1>29. CASE HeirEnds
  BY <1>29 DEF HeirEnds
<1>30. ASSUME NEW p \in Descendant, ProgramReads(p) PROVE OutputInv'
  BY <1>30 DEF ProgramReads
<1>31. ASSUME NEW p \in Descendant, ProgramCloses(p) PROVE OutputInv'
  BY <1>31 DEF ProgramCloses
<1>32. ASSUME NEW p \in Descendant, NEW s \in Output, ProgramWrites(p, s) PROVE OutputInv'
  BY <1>32 DEF ProgramWrites
<1>33. CASE Over \/ UNCHANGED vars
  BY <1>33 DEF Over, vars
<1> QED
  BY <1>1, <1>2, <1>3, <1>4, <1>5, <1>6, <1>7, <1>8, <1>9, <1>10, <1>11, <1>12, <1>13,
  <1>14, <1>15, <1>16, <1>17, <1>18, <1>19, <1>20, <1>21, <1>22, <1>23, <1>24, <1>25,
  <1>26, <1>27, <1>28, <1>29, <1>30, <1>31, <1>32, <1>33 DEF Next, Parent, Child,
  Program

\* The group, with vfork.
LEMMA GroupStep == TypeOK /\ ReaperInv /\ GroupInv /\ [Next]_vars => GroupInv'
<1> SUFFICES ASSUME TypeOK, ReaperInv, GroupInv, [Next]_vars PROVE GroupInv'
  OBVIOUS
<1> USE DEF TypeOK, ProcessOK, Stream, ReaperInv, GroupInv, Failed, Before, Streaming,
      Proc, Descendant, Unwind, FailBeforeFork, ThrowFromStreams, ReturnFromStreams,
      Served, Dies, parentVars, childVars
<1>1. CASE Which
  BY <1>1 DEF Which, Thrown, Returned
<1>2. ASSUME NEW s \in Stream, OpenPipe(s) PROVE GroupInv'
  BY <1>2 DEF OpenPipe, PipeStep, AfterPipe, ReadEnd
<1>3. CASE RedirectStderr
  BY <1>3 DEF RedirectStderr
<1>4. CASE CreateChild
  BY <1>4 DEF CreateChild
<1>5. CASE ReleaseUnused
  BY <1>5 DEF ReleaseUnused
<1>6. CASE SetTimer
  BY <1>6 DEF SetTimer
<1>7. CASE PidCallback
  BY <1>7 DEF PidCallback, Thrown
<1>8. CASE Poll
  BY <1>8 DEF Poll, Thrown
<1>9. CASE SelectReady
  BY <1>9 DEF SelectReady
<1>10. CASE SelectExpires
  BY <1>10 DEF SelectExpires
<1>11. CASE SelectFails
  BY <1>11 DEF SelectFails
<1>12. ASSUME NEW s \in Output, ReadEof(s) PROVE GroupInv'
  BY <1>12 DEF ReadEof
<1>13. ASSUME NEW s \in Output, ReadData(s) PROVE GroupInv'
  BY <1>13 DEF ReadData
<1>14. CASE BeginWrite
  BY <1>14 DEF BeginWrite
<1>15. CASE WriteSome
  BY <1>15 DEF WriteSome
<1>16. CASE WriteBroken
  BY <1>16 DEF WriteBroken
<1>17. CASE Flush
  BY <1>17 DEF Flush
<1>18. CASE WaitChild
  BY <1>18 DEF WaitChild, Verdict, Thrown, Returned
<1>19. CASE DisarmTimer
  BY <1>19 DEF DisarmTimer
<1>20. CASE ClearFlag
  BY <1>20 DEF ClearFlag, ReaperPending
<1>21. CASE KillGroup
  BY <1>21 DEF KillGroup, Group
<1>22. CASE CloseRest
  BY <1>22 DEF CloseRest
<1>23. CASE Alarm
  BY <1>23 DEF Alarm
<1>24. CASE ExecFails
  BY <1>24 DEF ExecFails
<1>25. CASE SetGroup
  BY <1>25 DEF SetGroup
<1>26. CASE Exec
  BY <1>26 DEF Exec
<1>27. CASE ProgramEnds
  BY <1>27 DEF ProgramEnds
<1>28. CASE Spawn
  BY <1>28 DEF Spawn
<1>29. CASE HeirEnds
  BY <1>29 DEF HeirEnds
<1>30. ASSUME NEW p \in Descendant, ProgramReads(p) PROVE GroupInv'
  BY <1>30 DEF ProgramReads
<1>31. ASSUME NEW p \in Descendant, ProgramCloses(p) PROVE GroupInv'
  BY <1>31 DEF ProgramCloses
<1>32. ASSUME NEW p \in Descendant, NEW s \in Output, ProgramWrites(p, s) PROVE GroupInv'
  BY <1>32 DEF ProgramWrites
<1>33. CASE Over \/ UNCHANGED vars
  BY <1>33 DEF Over, vars
<1> QED
  BY <1>1, <1>2, <1>3, <1>4, <1>5, <1>6, <1>7, <1>8, <1>9, <1>10, <1>11, <1>12, <1>13,
  <1>14, <1>15, <1>16, <1>17, <1>18, <1>19, <1>20, <1>21, <1>22, <1>23, <1>24, <1>25,
  <1>26, <1>27, <1>28, <1>29, <1>30, <1>31, <1>32, <1>33 DEF Next, Parent, Child,
  Program

\* The inductive invariant.
THEOREM ExecuteInvariant == Spec => [](ExecuteInv /\ GroupInv)
<1>1. Init => ReaperInv /\ TimerInv /\ ParentInv
  BY DEF Init, ReaperInv, TimerInv, ParentInv, Before, Streaming, Proc, Descendant
<1>2. Init => OutputInv
  BY DEF Init, OutputInv, Drained, HasWriter, Normal, Pending, Before, Streaming, Proc, Stream,
         Output
<1>3. Init => GroupInv
  BY DEF Init, GroupInv, Descendant
<1> QED
  BY <1>1, <1>2, <1>3, InitType, TypeStep, ControlStep, OutputStep, GroupStep, PTL
     DEF Spec, ExecuteInv

\* However execute() leaves, it leaves nothing behind.
THEOREM LeavesNothingHolds == Spec => []LeavesNothing
<1>1. ExecuteInv => LeavesNothing
  BY DEF ExecuteInv, TypeOK, ProcessOK, ReaperInv, TimerInv, ParentInv, LeavesNothing
<1>2. QED
  BY <1>1, ExecuteInvariant, PTL

\* A call that reports how the child ended has all of the child's output.
THEOREM OutputIsComplete == Spec => []OutputComplete
<1>1. ExecuteInv => OutputComplete
  BY DEF ExecuteInv, OutputInv, OutputComplete, Drained
<1>2. QED
  BY <1>1, ExecuteInvariant, PTL

\* With vfork an exception leaves no process of the child's group running.
THEOREM GroupIsGone == Spec => []GroupGoneAfterVfork
<1>1. GroupInv => GroupGoneAfterVfork
  BY DEF GroupInv, GroupGoneAfterVfork, GroupGone
<1>2. QED
  BY <1>1, ExecuteInvariant, PTL

\* kill is sent for exceptions only and never to a child already waited for.
THEOREM KillIsSafe == Spec => KillsOwnChild
<1>1. ExecuteInv => (pc = "kill" => proc["child"] \notin {"none", "reaped"} /\ Failed)
  BY DEF ExecuteInv, ReaperInv, Streaming
<1>2. QED
  BY <1>1, ExecuteInvariant, PTL DEF KillsOwnChild, vars

-----------------------------------------------------------------------------
(* The input.                                                              *)

\* All of the input was written, where the caller wants the child to read it.
Written == cfg.input # NoInput /\ ~cfg.allowUnread => Unwritten = 0

\* The parent lets go of stdin only when the input is written.
InputInv ==
  /\ pc \in {"pipe_stdout", "pipe_stderr", "fork", "release"} => "stdin_write" \in held["parent"]
  /\ Streaming \/ pc \in {"timer", "pid_callback"}
       => "stdin_write" \in held["parent"] \/ Written
  /\ pc \in {"flush", "wait"} \/ Normal => stopped \/ Written

\* A step writes input only where some is left, and closes stdin only where
\* none is or the caller said that the child need not read it.
LEMMA InputStep ==
  TypeOK /\ ReaperInv /\ InputInv /\ [Next]_vars => InputInv'
<1> SUFFICES ASSUME TypeOK, ReaperInv, InputInv, [Next]_vars PROVE InputInv'
  OBVIOUS
<1> USE DEF TypeOK, DataOK, ReaperInv, InputInv, Written, Unwritten, Failed, Normal,
      Before, Streaming, Proc, Descendant, Unwind, FailBeforeFork, ParentCloses,
      LeaveStreams, ThrowFromStreams, ReturnFromStreams, Served, Dies, parentVars,
      timerVars, childVars, dataVars, ParentEnds, ChildEnds, Stream, Output
<1>1. CASE Which
  BY <1>1 DEF Which, Thrown, Returned
<1>2. ASSUME NEW s \in Stream, OpenPipe(s) PROVE InputInv'
  BY <1>2 DEF OpenPipe, PipeStep, AfterPipe, ReadEnd, WriteEnd
<1>3. CASE RedirectStderr
  BY <1>3 DEF RedirectStderr
<1>4. CASE CreateChild
  BY <1>4 DEF CreateChild
<1>5. CASE ReleaseUnused
  BY <1>5 DEF ReleaseUnused
<1>6. CASE SetTimer
  BY <1>6 DEF SetTimer
<1>7. CASE PidCallback
  BY <1>7 DEF PidCallback, Thrown
<1>8. CASE Poll
  BY <1>8 DEF Poll, Watched, ParentEnd, Thrown
<1>9. CASE SelectReady
  BY <1>9 DEF SelectReady
<1>10. CASE SelectExpires
  BY <1>10 DEF SelectExpires
<1>11. CASE SelectFails
  BY <1>11 DEF SelectFails, Thrown
<1>12. ASSUME NEW s \in Output, ReadEof(s) PROVE InputInv'
  BY <1>12 DEF ReadEof, ParentEnd
<1>13. ASSUME NEW s \in Output, ReadData(s) PROVE InputInv'
  BY <1>13 DEF ReadData, Thrown
<1>14. CASE BeginWrite
  BY <1>14 DEF BeginWrite
<1>15. CASE WriteSome
  BY <1>15 DEF WriteSome
<1>16. CASE WriteBroken
  BY <1>16 DEF WriteBroken, EpipeIsFine, Thrown
<1>17. CASE Flush
  BY <1>17 DEF Flush
<1>18. CASE WaitChild
  BY <1>18 DEF WaitChild, Verdict
<1>19. CASE DisarmTimer
  BY <1>19 DEF DisarmTimer
<1>20. CASE ClearFlag
  BY <1>20 DEF ClearFlag, ReaperPending
<1>21. CASE KillGroup
  BY <1>21 DEF KillGroup, Group
<1>22. CASE CloseRest
  BY <1>22 DEF CloseRest
<1>23. CASE Alarm
  BY <1>23 DEF Alarm
<1>24. CASE ExecFails
  BY <1>24 DEF ExecFails
<1>25. CASE SetGroup
  BY <1>25 DEF SetGroup
<1>26. CASE Exec
  BY <1>26 DEF Exec
<1>27. CASE ProgramEnds
  BY <1>27 DEF ProgramEnds
<1>28. CASE Spawn
  BY <1>28 DEF Spawn
<1>29. CASE HeirEnds
  BY <1>29 DEF HeirEnds
<1>30. ASSUME NEW p \in Descendant, ProgramReads(p) PROVE InputInv'
  BY <1>30 DEF ProgramReads
<1>31. ASSUME NEW p \in Descendant, ProgramCloses(p) PROVE InputInv'
  BY <1>31 DEF ProgramCloses
<1>32. ASSUME NEW p \in Descendant, NEW s \in Output, ProgramWrites(p, s) PROVE InputInv'
  BY <1>32 DEF ProgramWrites
<1>33. CASE Over \/ UNCHANGED vars
  BY <1>33 DEF Over, vars
<1> QED
  BY <1>1, <1>2, <1>3, <1>4, <1>5, <1>6, <1>7, <1>8, <1>9, <1>10, <1>11, <1>12, <1>13,
  <1>14, <1>15, <1>16, <1>17, <1>18, <1>19, <1>20, <1>21, <1>22, <1>23, <1>24, <1>25,
  <1>26, <1>27, <1>28, <1>29, <1>30, <1>31, <1>32, <1>33 DEF Next, Parent, Child,
  Program

\* A call that reports how the child ended has written all of the input.
THEOREM InputIsWritten == Spec => []InputWritten
<1>1. Init => InputInv
  BY DEF Init, InputInv, Normal, Pending, Streaming
<1>2. InputInv => InputWritten
  BY DEF InputInv, InputWritten, Written
<1>3. ExecuteInv => TypeOK /\ ReaperInv
  BY DEF ExecuteInv
<1>4. QED
  BY <1>1, <1>2, <1>3, InputStep, ExecuteInvariant, PTL DEF Spec

-----------------------------------------------------------------------------
(* What the caller is told: for any status, and then as Command promises   *)
(* it.  The latter takes that SIGCHLD is not ignored and the program's     *)
(* status is below 128, so that what waitpid says and what                 *)
(* static_cast<char> makes of it are the child's fate.                     *)

NoEchild == \A c \in Configs : ~c.sigchldIgnored
SmallCodes == ExitCodes \subseteq 0..127

\* What the caller is told of a program that is not found.
NoProgram == IF cfg.throwExit THEN Thrown("child_exit", 127) ELSE Returned(FALSE, 127)

\* The outcome is open while the call may still succeed; then it is an
\* exception that says nothing of the child's end, or what the reaper made of it.
OutcomeInv ==
  /\ Before \/ Streaming \/ pc \in {"release", "timer", "pid_callback", "flush", "wait"}
       => outcome = Pending
  /\ pc \in {"disarm", "clear", "kill", "reap", "close"}
       => IF Failed THEN outcome = Thrown(outcome.kind, 0)
          ELSE reaper = "spent" /\ outcome = Verdict
  /\ pc = "done" /\ ~Failed => outcome = IF reaper = "none" THEN NoProgram ELSE Verdict

SmallFate == fate.code \in 0..127

\* What the caller is told is true.
LEMMA VerdictIsTrue ==
  ASSUME ~cfg.sigchldIgnored, ProcessOK, SmallFate
  PROVE  Verdict \in Promise!Reports(fate)
<1>1. AsChar(fate.code) = fate.code
  BY DEF AsChar, SmallFate
<1>2. CASE fate.kind = "exit" /\ fate.code # 0 /\ cfg.throwExit
  BY <1>1, <1>2 DEF Verdict, Promise!Reports, Thrown
<1>3. CASE ~(fate.kind = "exit" /\ fate.code # 0 /\ cfg.throwExit)
           /\ fate.kind = "signal" /\ cfg.throwSignal
  BY <1>1, <1>3 DEF Verdict, Promise!Reports, Thrown
<1>4. CASE ~(fate.kind = "exit" /\ fate.code # 0 /\ cfg.throwExit)
           /\ ~(fate.kind = "signal" /\ cfg.throwSignal)
  <2>1. Verdict = Returned(fate = Exited(0), fate.code)
    BY <1>1, <1>4 DEF Verdict
  <2>2. QED
    BY <2>1 DEF Promise!Reports, Returned, Exited
<1>5. QED
  BY <1>2, <1>3, <1>4

\* The fate is set once, when the child ends.
LEMMA FateStep ==
  ASSUME ProcessOK, [Next]_vars
  PROVE  /\ SmallCodes /\ SmallFate => SmallFate'
         /\ proc["child"] \in {"dead", "reaped"} \/ proc'["child"] \notin {"dead", "reaped"} => fate' = fate
<1> USE ExitAssumption DEF ProcessOK, Descendant, Dies, Exited, Signaled, SmallCodes, SmallFate
<1>1. CASE UNCHANGED childVars
  BY <1>1 DEF childVars
<1>2. CASE CreateChild
  BY <1>2 DEF CreateChild
<1>3. CASE WaitChild
  BY <1>3 DEF WaitChild
<1>4. CASE KillGroup
  BY <1>4 DEF KillGroup, Group, SIGKILL
<1>5. CASE ExecFails
  BY <1>5 DEF ExecFails
<1>6. CASE SetGroup \/ Exec
  BY <1>6 DEF SetGroup, Exec
<1>7. CASE ProgramEnds
  BY <1>7 DEF ProgramEnds, SIGTERM
<1>8. CASE Spawn \/ HeirEnds
  BY <1>8 DEF Spawn, HeirEnds
<1>9. QED
  BY <1>1, <1>2, <1>3, <1>4, <1>5, <1>6, <1>7, <1>8, ProcessSteps DEF Child

\* The outcome is decided once, on the way out.
LEMMA OutcomeStep ==
  ASSUME TypeOK, ReaperInv, OutcomeInv, [Next]_vars
  PROVE  OutcomeInv'
<1>a. proc["child"] \in {"dead", "reaped"} => Verdict' = Verdict
  <2>1. proc["child"] \in {"dead", "reaped"} => fate' = fate
    BY FateStep DEF TypeOK
  <2>2. QED
    BY <2>1, CfgStep DEF Verdict
<1>b. Verdict.kind \notin {"timeout", "callback", "execution"}
  BY DEF Verdict, Thrown, Returned
<1>c. NoProgram' = NoProgram
  BY CfgStep DEF NoProgram
<1> USE <1>a, <1>b, <1>c DEF TypeOK, ReaperInv, OutcomeInv, Failed, Thrown,
      Before, Streaming, Unwind, FailBeforeFork, ThrowFromStreams, ReturnFromStreams, Served,
      parentVars, childVars, Stream, Output
<1>1. CASE Which
  BY <1>1 DEF Which, NoProgram
<1>2. ASSUME NEW s \in Stream, OpenPipe(s) PROVE OutcomeInv'
  BY <1>2 DEF OpenPipe, PipeStep, AfterPipe
<1>3. CASE RedirectStderr
  BY <1>3 DEF RedirectStderr
<1>4. CASE CreateChild
  BY <1>4 DEF CreateChild
<1>5. CASE ReleaseUnused
  BY <1>5 DEF ReleaseUnused
<1>6. CASE SetTimer
  BY <1>6 DEF SetTimer
<1>7. CASE PidCallback
  BY <1>7 DEF PidCallback
<1>8. CASE Poll
  BY <1>8 DEF Poll
<1>9. CASE SelectReady
  BY <1>9 DEF SelectReady
<1>10. CASE SelectExpires
  BY <1>10 DEF SelectExpires
<1>11. CASE SelectFails
  BY <1>11 DEF SelectFails
<1>12. ASSUME NEW s \in Output, ReadEof(s) PROVE OutcomeInv'
  BY <1>12 DEF ReadEof
<1>13. ASSUME NEW s \in Output, ReadData(s) PROVE OutcomeInv'
  BY <1>13 DEF ReadData
<1>14. CASE BeginWrite
  BY <1>14 DEF BeginWrite
<1>15. CASE WriteSome
  BY <1>15 DEF WriteSome
<1>16. CASE WriteBroken
  BY <1>16 DEF WriteBroken
<1>17. CASE Flush
  BY <1>17 DEF Flush
<1>18. CASE WaitChild
  BY <1>18 DEF WaitChild
<1>19. CASE DisarmTimer
  BY <1>19 DEF DisarmTimer
<1>20. CASE ClearFlag
  BY <1>20 DEF ClearFlag, ReaperPending
<1>21. CASE KillGroup
  BY <1>21 DEF KillGroup
<1>22. CASE CloseRest
  BY <1>22 DEF CloseRest
<1>23. CASE Alarm
  BY <1>23 DEF Alarm
<1>24. CASE ExecFails
  BY <1>24 DEF ExecFails
<1>25. CASE SetGroup
  BY <1>25 DEF SetGroup
<1>26. CASE Exec
  BY <1>26 DEF Exec
<1>27. CASE ProgramEnds
  BY <1>27 DEF ProgramEnds
<1>28. CASE Spawn
  BY <1>28 DEF Spawn
<1>29. CASE HeirEnds
  BY <1>29 DEF HeirEnds
<1>30. ASSUME NEW p \in Descendant, ProgramReads(p) PROVE OutcomeInv'
  BY <1>30 DEF ProgramReads
<1>31. ASSUME NEW p \in Descendant, ProgramCloses(p) PROVE OutcomeInv'
  BY <1>31 DEF ProgramCloses
<1>32. ASSUME NEW p \in Descendant, NEW s \in Output, ProgramWrites(p, s) PROVE OutcomeInv'
  BY <1>32 DEF ProgramWrites
<1>33. CASE Over \/ UNCHANGED vars
  BY <1>33 DEF Over, vars
<1> QED
  BY <1>1, <1>2, <1>3, <1>4, <1>5, <1>6, <1>7, <1>8, <1>9, <1>10, <1>11, <1>12, <1>13,
  <1>14, <1>15, <1>16, <1>17, <1>18, <1>19, <1>20, <1>21, <1>22, <1>23, <1>24, <1>25,
  <1>26, <1>27, <1>28, <1>29, <1>30, <1>31, <1>32, <1>33 DEF Next, Parent, Child,
  Program

LEMMA OutcomeInvariant == Spec => []OutcomeInv
<1>1. Init => OutcomeInv
  BY DEF Init, OutcomeInv, Before, Streaming
<1>2. ExecuteInv => TypeOK /\ ReaperInv
  BY DEF ExecuteInv
<1>3. QED
  BY <1>1, <1>2, OutcomeStep, ExecuteInvariant, PTL DEF Spec

\* Whatever the status of the child, of all the 256, and whatever the caller does
\* with SIGCHLD: a failure is never reported as a success.  Unless SIGCHLD is
\* ignored a success is not reported as a failure either, the exceptions are
\* thrown for the ends they are for and no others, and the code is the status, of
\* which static_cast<char> makes a negative number from 128 on.
ReportFitsFate ==
  pc = "done" /\ ~Failed /\ proc["child"] # "none" =>
    /\ outcome.ok => fate = Exited(0)
    /\ ~cfg.sigchldIgnored =>
         /\ outcome.ok <=> fate = Exited(0)
         /\ outcome.code = AsChar(fate.code)
         /\ outcome.kind = "child_exit"
              <=> cfg.throwExit /\ fate.kind = "exit" /\ fate.code # 0
         /\ outcome.kind = "child_signal" <=> cfg.throwSignal /\ fate.kind = "signal"

THEOREM StatusIsReported == Spec => []ReportFitsFate
<1>1. ExecuteInv /\ OutcomeInv => ReportFitsFate
  <2> SUFFICES ASSUME ExecuteInv, OutcomeInv, pc = "done", ~Failed, proc["child"] # "none"
               PROVE  ReportFitsFate
    BY DEF ReportFitsFate
  <2> DEFINE code == AsChar(fate.code)
  <2>1. outcome = Verdict
    BY DEF ExecuteInv, ReaperInv, OutcomeInv, Before
  <2>2. fate \in [kind : {"none", "exit", "signal"}, code : 0..255]
    BY DEF ExecuteInv, TypeOK, ProcessOK
  <2>3. code = 0 <=> fate.code = 0
    BY <2>2 DEF AsChar
  <2> HIDE DEF code
  <2>4. CASE cfg.sigchldIgnored
    <3>1. ~outcome.ok
      BY <2>1, <2>4 DEF Verdict, Returned
    <3>2. QED
      BY <2>4, <3>1 DEF ReportFitsFate
  <2>5. CASE ~cfg.sigchldIgnored /\ fate.kind = "exit" /\ code # 0 /\ cfg.throwExit
    <3>1. outcome = Thrown("child_exit", code)
      BY <2>1, <2>5 DEF Verdict, code
    <3>2. fate # Exited(0)
      BY <2>3, <2>5 DEF Exited
    <3>3. QED
      BY <2>3, <2>5, <3>1, <3>2 DEF ReportFitsFate, Thrown, code
  <2>6. CASE ~cfg.sigchldIgnored /\ fate.kind = "signal" /\ cfg.throwSignal
    <3>1. outcome = Thrown("child_signal", code)
      BY <2>1, <2>6 DEF Verdict, code
    <3>2. fate # Exited(0)
      BY <2>6 DEF Exited
    <3>3. QED
      BY <2>6, <3>1, <3>2 DEF ReportFitsFate, Thrown, code
  <2>7. CASE /\ ~cfg.sigchldIgnored
             /\ ~(fate.kind = "exit" /\ code # 0 /\ cfg.throwExit)
             /\ ~(fate.kind = "signal" /\ cfg.throwSignal)
    <3>1. outcome = Returned(fate = Exited(0), code)
      BY <2>1, <2>7 DEF Verdict, code
    <3>2. outcome.ok <=> fate = Exited(0)
      BY <3>1, Zenon DEF Returned
    <3>3. outcome.kind = "result" /\ outcome.code = code
      BY <3>1 DEF Returned
    <3>4. QED
      BY <2>3, <2>7, <3>2, <3>3 DEF ReportFitsFate, code
  <2>8. QED
    BY <2>4, <2>5, <2>6, <2>7
<1>2. QED
  BY <1>1, ExecuteInvariant, OutcomeInvariant, PTL

\* The caller learns something when the program is not found and at the end.
LEMMA ShownStep ==
  ASSUME [Next]_vars PROVE Which \/ CloseRest \/ Shown' = Shown
<1> DEFINE Goal == Which \/ CloseRest \/ Shown' = Shown
<1> SUFFICES Goal
  OBVIOUS
<1> USE DEF Shown, Unwind, FailBeforeFork, ThrowFromStreams, ReturnFromStreams, Served,
      parentVars, Stream, Output
<1>1. CASE Which
  BY <1>1 DEF Which
<1>2. ASSUME NEW s \in Stream, OpenPipe(s) PROVE Goal
  BY <1>2 DEF OpenPipe, PipeStep, AfterPipe
<1>3. CASE RedirectStderr
  BY <1>3 DEF RedirectStderr
<1>4. CASE CreateChild
  BY <1>4 DEF CreateChild
<1>5. CASE ReleaseUnused
  BY <1>5 DEF ReleaseUnused
<1>6. CASE SetTimer
  BY <1>6 DEF SetTimer
<1>7. CASE PidCallback
  BY <1>7 DEF PidCallback
<1>8. CASE Poll
  BY <1>8 DEF Poll
<1>9. CASE SelectReady
  BY <1>9 DEF SelectReady
<1>10. CASE SelectExpires
  BY <1>10 DEF SelectExpires
<1>11. CASE SelectFails
  BY <1>11 DEF SelectFails
<1>12. ASSUME NEW s \in Output, ReadEof(s) PROVE Goal
  BY <1>12 DEF ReadEof
<1>13. ASSUME NEW s \in Output, ReadData(s) PROVE Goal
  BY <1>13 DEF ReadData
<1>14. CASE BeginWrite
  BY <1>14 DEF BeginWrite
<1>15. CASE WriteSome
  BY <1>15 DEF WriteSome
<1>16. CASE WriteBroken
  BY <1>16 DEF WriteBroken
<1>17. CASE Flush
  BY <1>17 DEF Flush
<1>18. CASE WaitChild
  BY <1>18 DEF WaitChild
<1>19. CASE DisarmTimer
  BY <1>19 DEF DisarmTimer
<1>20. CASE ClearFlag
  BY <1>20 DEF ClearFlag, ReaperPending
<1>21. CASE KillGroup
  BY <1>21 DEF KillGroup
<1>22. CASE CloseRest
  BY <1>22 DEF CloseRest
<1>23. CASE Alarm
  BY <1>23 DEF Alarm
<1>24. CASE ExecFails
  BY <1>24 DEF ExecFails
<1>25. CASE SetGroup
  BY <1>25 DEF SetGroup
<1>26. CASE Exec
  BY <1>26 DEF Exec
<1>27. CASE ProgramEnds
  BY <1>27 DEF ProgramEnds
<1>28. CASE Spawn
  BY <1>28 DEF Spawn
<1>29. CASE HeirEnds
  BY <1>29 DEF HeirEnds
<1>30. ASSUME NEW p \in Descendant, ProgramReads(p) PROVE Goal
  BY <1>30 DEF ProgramReads
<1>31. ASSUME NEW p \in Descendant, ProgramCloses(p) PROVE Goal
  BY <1>31 DEF ProgramCloses
<1>32. ASSUME NEW p \in Descendant, NEW s \in Output, ProgramWrites(p, s) PROVE Goal
  BY <1>32 DEF ProgramWrites
<1>33. CASE Over \/ UNCHANGED vars
  BY <1>33 DEF Over, vars
<1> QED
  BY <1>1, <1>2, <1>3, <1>4, <1>5, <1>6, <1>7, <1>8, <1>9, <1>10, <1>11, <1>12, <1>13,
  <1>14, <1>15, <1>16, <1>17, <1>18, <1>19, <1>20, <1>21, <1>22, <1>23, <1>24, <1>25,
  <1>26, <1>27, <1>28, <1>29, <1>30, <1>31, <1>32, <1>33 DEF Next, Parent, Child,
  Program

\* The ways a child can end.
Endings == {Exited(c) : c \in ExitCodes \cup {0}} \cup {Signaled(SIGKILL), Signaled(SIGTERM)}

\* The child goes through the states the promise gives it, in their order.
LEMMA ChildStep ==
  ASSUME TypeOK, ReaperInv, [Next]_vars
  PROVE  \/ ChildState' = ChildState /\ fate' = fate
         \/ ChildState = "none" /\ pc = "fork" /\ ChildState' = "alive" /\ fate' = fate
         \/ ChildState = "alive" /\ ChildState' = "ended" /\ fate' \in Endings
         \/ ChildState = "ended" /\ pc # "done" /\ ChildState' = "collected" /\ fate' = fate
<1> DEFINE Goal ==
      \/ ChildState' = ChildState /\ fate' = fate
      \/ ChildState = "none" /\ pc = "fork" /\ ChildState' = "alive" /\ fate' = fate
      \/ ChildState = "alive" /\ ChildState' = "ended" /\ fate' \in Endings
      \/ ChildState = "ended" /\ pc # "done" /\ ChildState' = "collected" /\ fate' = fate
<1> SUFFICES Goal
  OBVIOUS
<1> USE DEF TypeOK, ProcessOK, ChildState, Descendant
<1>1. CASE UNCHANGED childVars
  BY <1>1 DEF childVars
<1>2. CASE CreateChild
  BY <1>2 DEF CreateChild, FailBeforeFork, ReaperInv, Before
<1>3. CASE WaitChild
  BY <1>3 DEF WaitChild
<1>4. CASE KillGroup
  BY <1>4 DEF KillGroup, Group, Endings
<1>5. CASE ExecFails
  BY <1>5 DEF ExecFails, Dies, Endings
<1>6. CASE SetGroup \/ Exec
  BY <1>6 DEF SetGroup, Exec
<1>7. CASE ProgramEnds
  BY <1>7 DEF ProgramEnds, Dies, Endings
<1>8. CASE Spawn \/ HeirEnds
  BY <1>8 DEF Spawn, HeirEnds
<1>9. QED
  BY <1>1, <1>2, <1>3, <1>4, <1>5, <1>6, <1>7, <1>8, ProcessSteps DEF Child

\* Every step of a call is one of the promise, or changes nothing the caller
\* is promised anything about.
LEMMA PromiseStep ==
  ASSUME NoEchild, SmallFate, TypeOK, ReaperInv, OutcomeInv, [Next]_vars
  PROVE  [Promise!Next]_(Promise!vars)
<1> USE DEF Promise!Next, Promise!vars, Promise!Pending, Pending
<1>1. CASE Which
  <2>1. ChildState = "none" /\ ChildState' = "none" /\ fate' = fate
    BY <1>1 DEF Which, ChildState, childVars, ReaperInv, Before
  <2>2. Shown = Pending
    BY <1>1 DEF Which, Shown
  <2>3. Shown' = Pending \/ Shown' \in Promise!NotFound
    <3>1. [kind |-> "exit", code |-> 127] # [kind |-> "exit", code |-> 0]
      OBVIOUS
    <3>2. Returned(FALSE, 127) \in Promise!NotFound
      BY <3>1 DEF Returned, Promise!NotFound, Promise!Reports
    <3>3. Thrown("child_exit", 127) \in Promise!NotFound
      BY DEF Thrown, Promise!NotFound, Promise!Reports
    <3>4. QED
      BY <1>1, <3>2, <3>3 DEF Which, Shown
  <2>4. QED
    BY <2>1, <2>2, <2>3 DEF Promise!Report
<1>2. CASE CloseRest
  <2>1. ChildState' = ChildState /\ fate' = fate
    BY <1>2 DEF CloseRest, ChildState, childVars
  <2>2. Shown = Pending /\ Shown' = outcome
    BY <1>2 DEF CloseRest, Shown, parentVars
  <2>3. CASE Failed
    <3>1. ChildState \in {"none", "collected"}
      BY <1>2 DEF CloseRest, ReaperInv, ChildState
    <3>2. outcome = Thrown(outcome.kind, 0) /\ outcome.kind \in {"execution", "timeout", "callback"}
      BY <1>2, <2>3 DEF CloseRest, OutcomeInv, Failed
    <3>3. QED
      BY <2>1, <2>2, <3>1, <3>2 DEF Promise!Fail, Thrown
  <2>4. CASE ~Failed
    <3>1. ChildState = "collected" /\ outcome \in Promise!Reports(fate)
      BY <1>2, <2>4, VerdictIsTrue
         DEF CloseRest, ReaperInv, OutcomeInv, ChildState, NoEchild, TypeOK, CallOK
    <3>2. QED
      BY <2>1, <2>2, <3>1 DEF Promise!Report
  <2>5. QED
    BY <2>3, <2>4
<1>3. CASE Shown' = Shown
  <2>1. pc = "fork" => Shown = Pending
    BY DEF Shown
  <2>2. pc # "done" => Shown = Pending
    BY DEF Shown
  <2>3. QED
    BY <1>3, <2>1, <2>2, ChildStep DEF Promise!Create, Promise!End, Promise!Collect, Endings
<1>4. QED
  BY <1>1, <1>2, <1>3, ShownStep

\* The refinement of Command.
THEOREM PromiseIsKept ==
  ASSUME NoEchild, SmallCodes PROVE Spec => KeepsPromise
<1>1. Init => SmallFate
  BY DEF Init, NoFate, SmallFate
<1>2. Init => Promise!Init
  BY DEF Init, Promise!Init, ChildState, Shown, Descendant, NoFate, Promise!NoFate, Pending,
         Promise!Pending
<1>3. ExecuteInv => TypeOK /\ ReaperInv
  BY DEF ExecuteInv
<1>4. SmallFate /\ TypeOK /\ [Next]_vars => SmallFate'
  BY FateStep DEF TypeOK
<1>5. QED
  BY <1>1, <1>2, <1>3, <1>4, OutcomeInvariant, PromiseStep, ExecuteInvariant, PTL
     DEF Spec, KeepsPromise, Promise!Spec
-----------------------------------------------------------------------------
(* The child's environment.                                                *)

\* One entry after another.
LEMMA TwoEntries ==
  ASSUME NEW x \in {"caller", "map"}, NEW y \in {"caller", "map"}
  PROVE  <<x>> \o <<y>> = <<x, y>>
<1> DEFINE P == {"caller", "map"}
           s == <<x>>
           t == <<y>>
           u == <<x, y>>
<1>1. s \in Seq(P) /\ t \in Seq(P) /\ u \in Seq(P) /\ Len(s) = 1 /\ Len(t) = 1 /\ Len(u) = 2
  OBVIOUS
<1>2. s[1] = x /\ t[1] = y /\ u[1] = x /\ u[2] = y
  OBVIOUS
<1> HIDE DEF s, t, u, P
<1>3. /\ s \o t \in Seq(P) /\ Len(s \o t) = 2
      /\ \A i \in 1..2 : (s \o t)[i] = IF i <= 1 THEN s[i] ELSE t[i - 1]
  <2>1. /\ s \o t \in Seq(P) /\ Len(s \o t) = Len(s) + Len(t)
        /\ \A i \in 1..Len(s) + Len(t) :
             (s \o t)[i] = IF i <= Len(s) THEN s[i] ELSE t[i - Len(s)]
    BY <1>1, ConcatProperties, Zenon
  <2>2. Len(s) + Len(t) = 2
    BY <1>1
  <2>3. \A i \in 1..2 : (s \o t)[i] = IF i <= Len(s) THEN s[i] ELSE t[i - Len(s)]
    BY <2>1, <2>2, Zenon
  <2>4. QED
    BY <1>1, <2>1, <2>2, <2>3, Zenon
<1>4. (s \o t)[1] = u[1] /\ (s \o t)[2] = u[2]
  BY <1>2, <1>3
<1>5. s \o t = u
  BY <1>1, <1>3, <1>4, SeqEqual
<1>6. QED
  BY <1>5 DEF s, t, u

\* The entries for a variable, written out.
LEMMA EntriesListed ==
  ASSUME NEW v \in Variable, cfg.merge \in BOOLEAN, cfg.inherit \in BOOLEAN
  PROVE  Entries(v) =
           IF v \in cfg.given THEN IF v \in Inherited THEN <<"caller", "map">> ELSE <<"map">>
           ELSE IF v \in LocaleVariable /\ ~cfg.inherit THEN <<"C">>
           ELSE IF v \in LocaleVariable /\ v \in cfg.before
                THEN IF v \in Inherited THEN <<"caller", "caller">> ELSE <<"caller">>
           ELSE IF v \in Inherited THEN <<"caller">> ELSE <<>>
<1>1. \A x \in {"caller", "map", "C"} : <<x>> \o <<>> = <<x>> /\ <<>> \o <<x>> = <<x>>
  OBVIOUS
<1>2. /\ <<"caller">> \o <<"map">> = <<"caller", "map">>
      /\ <<"caller">> \o <<"caller">> = <<"caller", "caller">>
      /\ <<"caller", "map">> \o <<>> = <<"caller", "map">>
      /\ <<"caller", "caller">> \o <<>> = <<"caller", "caller">>
  <2>1. <<"caller">> \o <<"map">> = <<"caller", "map">>
    BY TwoEntries
  <2>2. <<"caller">> \o <<"caller">> = <<"caller", "caller">>
    BY TwoEntries
  <2>3. \A x, y \in {"caller", "map"} : <<x, y>> \in Seq({"caller", "map"})
    OBVIOUS
  <2>4. <<"caller", "map">> \o <<>> = <<"caller", "map">>
    BY <2>3, ConcatEmptySeq
  <2>5. <<"caller", "caller">> \o <<>> = <<"caller", "caller">>
    BY <2>3, ConcatEmptySeq
  <2>6. QED
    BY <2>1, <2>2, <2>4, <2>5
<1>3. (<<>> \o <<>>) = <<>>
  OBVIOUS
<1>4. v \in Inherited /\ v \in LocaleVariable => cfg.inherit
  BY DEF Inherited
<1>5. CASE v \in cfg.given /\ v \in Inherited
  BY <1>1, <1>2, <1>3, <1>5 DEF Entries
<1>6. CASE v \in cfg.given /\ v \notin Inherited
  BY <1>1, <1>2, <1>3, <1>6 DEF Entries
<1>7. CASE v \notin cfg.given /\ v \in LocaleVariable /\ ~cfg.inherit
  BY <1>1, <1>2, <1>3, <1>4, <1>7 DEF Entries
<1>8. CASE v \notin cfg.given /\ v \in LocaleVariable /\ cfg.inherit
  BY <1>1, <1>2, <1>3, <1>8 DEF Entries, Inherited
<1>9. CASE v \notin cfg.given /\ v \notin LocaleVariable
  BY <1>1, <1>2, <1>3, <1>9 DEF Entries
<1>10. QED
  BY <1>5, <1>6, <1>7, <1>8, <1>9

\* The values in those entries.
LEMMA ValuesPromised ==
  ASSUME NEW v \in Variable, cfg.merge \in BOOLEAN, cfg.inherit \in BOOLEAN,
         v \notin Inherited \cap cfg.given
  PROVE  {Entries(v)[i] : i \in DOMAIN Entries(v)} = Promised(v)
<1> DEFINE Values(s) == {s[i] : i \in DOMAIN s}
<1>1. \A x \in {"caller", "map", "C"} : Values(<<x>>) = {x}
  OBVIOUS
<1>2. Values(<<"caller", "caller">>) = {"caller"} /\ Values(<<>>) = {}
  OBVIOUS
<1> HIDE DEF Values
<1>3. Values(Entries(v)) = Promised(v)
  <2>1. CASE v \in cfg.given
    BY <1>1, <2>1, EntriesListed DEF Promised
  <2>2. CASE v \notin cfg.given /\ v \in LocaleVariable /\ ~cfg.inherit
    BY <1>1, <2>2, EntriesListed DEF Promised
  <2>3. CASE v \notin cfg.given /\ v \in LocaleVariable /\ cfg.inherit
    BY <1>1, <1>2, <2>3, EntriesListed DEF Promised, Inherited
  <2>4. CASE v \notin cfg.given /\ v \notin LocaleVariable
    BY <1>1, <1>2, <2>4, EntriesListed DEF Promised, Inherited
  <2>5. QED
    BY <2>1, <2>2, <2>3, <2>4
<1>4. QED
  BY <1>3 DEF Values

\* The child finds the values it is promised, and no others, of every variable
\* that is not both inherited and given.
THEOREM EnvironmentIsPromised == Spec => []ChildEnvironment
<1>1. CallOK => ChildEnvironment
  <2> SUFFICES ASSUME CallOK, NEW v \in Variable,
                      v \notin Inherited \cap cfg.given
               PROVE  {Entries(v)[i] : i \in DOMAIN Entries(v)} = Promised(v)
    BY DEF ChildEnvironment
  <2>1. cfg.merge \in BOOLEAN /\ cfg.inherit \in BOOLEAN
    BY ConfigAssumption DEF CallOK, Config
  <2>2. QED
    BY <2>1, EntriesListed, ValuesPromised
<1>2. TypeOK => CallOK
  BY DEF TypeOK
<1>3. QED
  BY <1>1, <1>2, TypeCorrect, PTL
=============================================================================

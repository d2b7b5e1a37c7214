------------------------- MODULE WindowsExecuteProofs -------------------------
(***************************************************************************)
(* Proofs about WindowsExecute, for any calls, exit codes and sizes of the *)
(* pipes.                                                                  *)
(*                                                                         *)
(* The points of a call fall into what comes before the child is there     *)
(* (Early), what starts the exchange (Starting), the loop over the pipes   *)
(* (Streaming) and the way out (Ending).  The invariant has eight parts,   *)
(* each kept by every action:                                              *)
(*   TypeInv, ProcInv   types                                              *)
(*   SeqInv             what a point of the call says of the reaper, the   *)
(*                      reads under way and the outcome                    *)
(*   JobInv, ChildInv   the job object; how the child ended and what the   *)
(*                      caller is told of it                               *)
(*   ScanInv            the pipes a round of the loop has passed are       *)
(*                      closed or have a read under way                    *)
(*   DrainInv           a pipe that was closed is empty, for good, or      *)
(*                      somebody wrote no bytes to it                      *)
(*   EnvInv             the environment is that of before or the merged    *)
(*                      one, with all that is needed to put it back        *)
(* World and Over are treated as one action where they leave the call      *)
(* alone (WorldSteps, OverSteps).                                          *)
(***************************************************************************)
EXTENDS WindowsExecute, FiniteSetTheorems, SequenceTheorems, WellFoundedInduction, TLAPS

-----------------------------------------------------------------------------
(* The parts of a call, and the order in which it takes them.              *)

Early == {"job_query", "which", "environment", "stdin", "keep_stdin", "stdout", "keep_stdout",
          "stderr", "keep_stderr", "create"}
Starting == {"timer", "pid_callback", "events"}
Streaming == {"scan", "write", "wait_io"}
Ending == {"leave", "close", "restore", "done"}

Failures == {Thrown("execution", 0), Thrown("timeout", 0), Thrown("callback", 0)}

TypeInv ==
  /\ cfg \in Configs /\ pc \in Point /\ at \in Stream \cup {"end"}
  /\ pending \subseteq Output /\ left \in Nat
  /\ reaper \in {"none", "armed", "off", "failed"} /\ stopped \in BOOLEAN
  /\ timer \in {"none", "set", "signalled"}
  /\ pc = "write" => at = "stdin"
  /\ empties \subseteq Output

SeqInv ==
  /\ pc \notin Ending => outcome = Pending
  /\ pc \notin Streaming => pending = {}
  /\ pc \in Early \cup {"release", "assign"} => reaper = "none"
  /\ pc \in Starting \cup Streaming \cup {"flush", "wait"} => reaper = "armed"
  /\ pc = "exit_code" => reaper = "off"
  /\ pc \in Ending /\ reaper \in {"armed", "failed"} => outcome \in Failures

\* The world does nothing to the call.
LEMMA WorldSteps ==
  ASSUME World
  PROVE  /\ cfg' = cfg /\ pc' = pc /\ outcome' = outcome /\ timer' = timer
         /\ at' = at /\ pending' = pending /\ left' = left /\ reaper' = reaper
         /\ stopped' = stopped /\ env' = env /\ saved' = saved /\ childEnv' = childEnv
         /\ empties' = empties \/ \E s \in Output : empties' = empties \cup {s}
BY DEF World, Spawn, StrangerStarts, ProcessEnds, ProgramReads, ProgramCloses, ProgramWrites,
       ProgramWritesNothing, Transfers, callVars, envVars

LEMMA OverSteps ==
  ASSUME Over \/ UNCHANGED vars
  PROVE  /\ cfg' = cfg /\ pc' = pc /\ outcome' = outcome /\ timer' = timer
         /\ at' = at /\ pending' = pending /\ left' = left /\ reaper' = reaper
         /\ stopped' = stopped /\ env' = env /\ saved' = saved /\ childEnv' = childEnv
         /\ proc' = proc /\ fate' = fate /\ job' = job /\ held' = held /\ full' = full
         /\ empties' = empties
BY DEF Over, vars, callVars, envVars, procVars

\* A reaper that fails changes nothing but itself.
LEMMA TerminationSteps ==
  ASSUME TerminationFails
  PROVE  /\ cfg' = cfg /\ pc = "leave" /\ pc' = "close" /\ outcome' = outcome /\ timer' = timer
         /\ at' = at /\ pending' = pending /\ left' = left
         /\ reaper = "armed" /\ reaper' = "failed"
         /\ stopped' = stopped /\ env' = env /\ saved' = saved /\ childEnv' = childEnv
         /\ proc' = proc /\ fate' = fate /\ job' = job /\ held' = held /\ full' = full
         /\ empties' = empties
BY DEF TerminationFails, Terminates, Goes, envVars, procVars

\* What was once written to a pipe is not forgotten.
LEMMA EmptiesStay == [Next]_vars => empties \subseteq empties'
<1> SUFFICES ASSUME [Next]_vars PROVE empties \subseteq empties'
  OBVIOUS
<1>1. CASE Parent
  <2>1. empties' = empties
    BY <1>1
    DEF Parent, SetEnvironment, RestoreEnvironment, QueryJob, Which, CreatePipe, KeepEnd,
        RedirectStderr, CreateProcess, ReleaseUnused, AssignToJob, SetTimer, PidCallback,
        CreateEvents, Skip, ScanTimesOut, ReadNow, ReadPends, ReadClosed, BeginWrite, WriteSome,
        WriteBroken, ScanEnds, Complete, WaitTimesOut, Flush, ProcessEnded, ProcessTimesOut,
        ExitCode, Leave, CloseHandles
  <2> QED  BY <2>1
<1>2. CASE IoFails \/ WaitFails \/ TimerExpires
  BY <1>2 DEF IoFails, WaitFails, TimerExpires
<1>3. CASE World
  BY <1>3, WorldSteps
<1> QED  BY <1>1, <1>2, <1>3, TerminationSteps, OverSteps DEF Next

LEMMA TypeStep == TypeInv /\ [Next]_vars => TypeInv'
<1> SUFFICES ASSUME TypeInv, [Next]_vars PROVE TypeInv'
  OBVIOUS
<1>1. CASE SetEnvironment
  BY <1>1 DEF SetEnvironment, TypeInv, Point, Goes, GoesOrFails, Throw, callVars
<1>2. CASE RestoreEnvironment
  BY <1>2 DEF RestoreEnvironment, TypeInv, Point, Goes, GoesOrFails, Throw, callVars
<1>3. CASE QueryJob
  BY <1>3 DEF QueryJob, TypeInv, Point, Goes, GoesOrFails, Throw, callVars
<1>4. CASE Which
  BY <1>4 DEF Which, TypeInv, Point, Goes, GoesOrFails, Throw, callVars
<1>5. ASSUME NEW s \in Stream, CreatePipe(s) PROVE TypeInv'
  BY <1>5 DEF CreatePipe, TypeInv, Point, Goes, GoesOrFails, Throw, callVars, Stream, KeepStep
<1>6. ASSUME NEW s \in Stream, KeepEnd(s) PROVE TypeInv'
  BY <1>6 DEF KeepEnd, TypeInv, Point, Goes, GoesOrFails, Throw, callVars, Stream, KeepStep,
     AfterPipe
<1>7. CASE RedirectStderr
  BY <1>7 DEF RedirectStderr, TypeInv, Point, Goes, GoesOrFails, Throw, callVars
<1>8. CASE CreateProcess
  BY <1>8 DEF CreateProcess, TypeInv, Point, Goes, GoesOrFails, Throw, callVars
<1>9. CASE ReleaseUnused
  BY <1>9 DEF ReleaseUnused, TypeInv, Point, Goes, GoesOrFails, Throw, callVars
<1>10. CASE AssignToJob
  BY <1>10 DEF AssignToJob, TypeInv, Point, Goes, GoesOrFails, Throw, callVars
<1>11. CASE SetTimer
  BY <1>11 DEF SetTimer, TypeInv, Point, Goes, GoesOrFails, Throw, callVars
<1>12. CASE PidCallback
  BY <1>12 DEF PidCallback, TypeInv, Point, Goes, GoesOrFails, Throw, callVars
<1>13. CASE CreateEvents
  BY <1>13 DEF CreateEvents, TypeInv, Point, Goes, GoesOrFails, Throw, callVars, Stream
<1>14. CASE Skip
  BY <1>14 DEF Skip, TypeInv, Point, Goes, GoesOrFails, Throw, callVars, Due, Acting,
     LeaveStreams, ThrowFromStreams, CloseAndAdvance, Advance, After, Stream, Output
<1>15. CASE ScanTimesOut
  BY <1>15 DEF ScanTimesOut, TypeInv, Point, Goes, GoesOrFails, Throw, callVars, Due, Acting,
     LeaveStreams, ThrowFromStreams, CloseAndAdvance, Advance, After, Stream, Output
<1>16. CASE ReadNow
  BY <1>16 DEF ReadNow, TypeInv, Point, Goes, GoesOrFails, Throw, callVars, Due, Acting,
     LeaveStreams, ThrowFromStreams, CloseAndAdvance, Advance, After, Stream, Output, Process
<1>17. CASE ReadPends
  BY <1>17 DEF ReadPends, TypeInv, Point, Goes, GoesOrFails, Throw, callVars, Due, Acting,
     LeaveStreams, ThrowFromStreams, CloseAndAdvance, Advance, After, Stream, Output
<1>18. CASE ReadClosed
  BY <1>18 DEF ReadClosed, TypeInv, Point, Goes, GoesOrFails, Throw, callVars, Due, Acting,
     LeaveStreams, ThrowFromStreams, CloseAndAdvance, Advance, After, Stream, Output
<1>19. CASE BeginWrite
  BY <1>19 DEF BeginWrite, TypeInv, Point, Goes, GoesOrFails, Throw, callVars, Due, Acting,
     LeaveStreams, ThrowFromStreams, CloseAndAdvance, Advance, After, Stream, Output
<1>20. CASE WriteSome
  <2>1. PICK n \in 1..Room("stdin") : n <= left /\ left' = left - n
        /\ pc' = IF n = left THEN "scan" ELSE "write"
    BY <1>20 DEF WriteSome, Goes
  <2>2. n \in Nat  OBVIOUS
  <2>3. left' \in Nat  BY <2>1, <2>2 DEF TypeInv
  <2>4. pc' \in Point  BY <2>1 DEF Point
  <2>5. at' = at /\ at = "stdin"  BY <1>20 DEF WriteSome, TypeInv
  <2> QED  BY <1>20, <2>3, <2>4, <2>5 DEF WriteSome, TypeInv
<1>21. CASE WriteBroken
  <2>1. at = "stdin" /\ pc = "write"  BY <1>21 DEF WriteBroken, TypeInv
  <2>2. /\ pc' \in {"scan", "leave"} /\ at' \in {After[at], "end"} /\ pending' \in {pending, {}}
        /\ cfg' = cfg /\ left' = left /\ reaper' = reaper /\ stopped' = stopped /\ timer' = timer
        /\ empties' = empties
    BY <1>21 DEF WriteBroken, Goes, Throw, ThrowFromStreams, LeaveStreams
  <2>3. After[at] = "stdout"  BY <2>1 DEF After
  <2> QED  BY <2>1, <2>2, <2>3 DEF TypeInv, Point, Stream
<1>22. CASE ScanEnds
  BY <1>22 DEF ScanEnds, TypeInv, Point, Goes, GoesOrFails, Throw, callVars, Due, Acting,
     LeaveStreams, ThrowFromStreams, CloseAndAdvance, Advance, After, Stream, Output
<1>23. ASSUME NEW s \in Output, Complete(s) PROVE TypeInv'
  BY <1>23 DEF Complete, TypeInv, Point, Goes, GoesOrFails, Throw, callVars, Due, Acting,
     LeaveStreams, ThrowFromStreams, CloseAndAdvance, Advance, Process, Rescan, Stream, Output
<1>24. CASE WaitTimesOut
  BY <1>24 DEF WaitTimesOut, TypeInv, Point, Goes, GoesOrFails, Throw, callVars, Due, Acting,
     LeaveStreams, ThrowFromStreams, CloseAndAdvance, Advance, After, Stream, Output
<1>25. CASE IoFails
  BY <1>25 DEF IoFails, TypeInv, Point, Goes, GoesOrFails, Throw, callVars, Due, Acting,
     LeaveStreams, ThrowFromStreams, CloseAndAdvance, Advance, After, Stream, Output
<1>26. CASE Flush
  BY <1>26 DEF Flush, TypeInv, Point, Goes, GoesOrFails, Throw, callVars
<1>27. CASE ProcessEnded
  BY <1>27 DEF ProcessEnded, TypeInv, Point, Goes, GoesOrFails, Throw, callVars
<1>28. CASE ProcessTimesOut
  BY <1>28 DEF ProcessTimesOut, TypeInv, Point, Goes, GoesOrFails, Throw, callVars
<1>29. CASE WaitFails
  BY <1>29 DEF WaitFails, TypeInv, Point, Goes, GoesOrFails, Throw, callVars
<1>30. CASE ExitCode
  BY <1>30 DEF ExitCode, TypeInv, Point, Goes, GoesOrFails, Throw, callVars
<1>31. CASE Leave
  BY <1>31 DEF Leave, TypeInv, Point, Goes, GoesOrFails, Throw, callVars
<1>32. CASE CloseHandles
  BY <1>32 DEF CloseHandles, TypeInv, Point, Goes, GoesOrFails, Throw, callVars
<1>33. CASE TimerExpires
  BY <1>33 DEF TimerExpires, TypeInv, callVars
<1>34. CASE World
  BY <1>34, WorldSteps DEF TypeInv
<1>35. CASE Over \/ UNCHANGED vars
  BY <1>35, OverSteps DEF TypeInv
<1>36. CASE TerminationFails
  BY <1>36, TerminationSteps DEF TypeInv, Point
<1> QED
  BY <1>1, <1>2, <1>3, <1>4, <1>5, <1>6, <1>7, <1>8, <1>9, <1>10, <1>11, <1>12, <1>13,
  <1>14, <1>15, <1>16, <1>17, <1>18, <1>19, <1>20, <1>21, <1>22, <1>23, <1>24, <1>25,
  <1>26, <1>27, <1>28, <1>29, <1>30, <1>31, <1>32, <1>33, <1>34, <1>35, <1>36
  DEF Next, Parent

LEMMA SeqStep == TypeInv /\ SeqInv /\ [Next]_vars => SeqInv'
<1> SUFFICES ASSUME TypeInv, SeqInv, [Next]_vars PROVE SeqInv'
  OBVIOUS
<1>1. CASE SetEnvironment
  BY <1>1 DEF SetEnvironment, SeqInv, Failures, Early, Starting, Streaming, Ending, Goes,
     GoesOrFails, Throw, callVars
<1>2. CASE RestoreEnvironment
  BY <1>2 DEF RestoreEnvironment, SeqInv, Failures, Early, Starting, Streaming, Ending, Goes,
     GoesOrFails, Throw, callVars
<1>3. CASE QueryJob
  BY <1>3 DEF QueryJob, SeqInv, Failures, Early, Starting, Streaming, Ending, Goes, GoesOrFails,
     Throw, callVars
<1>4. CASE Which
  BY <1>4 DEF Which, SeqInv, Failures, Early, Starting, Streaming, Ending, Goes, GoesOrFails,
     Throw, callVars
<1>5. ASSUME NEW s \in Stream, CreatePipe(s) PROVE SeqInv'
  BY <1>5 DEF CreatePipe, SeqInv, Failures, Early, Starting, Streaming, Ending, Goes, GoesOrFails,
     Throw, callVars, Stream, KeepStep
<1>6. ASSUME NEW s \in Stream, KeepEnd(s) PROVE SeqInv'
  BY <1>6 DEF KeepEnd, SeqInv, Failures, Early, Starting, Streaming, Ending, Goes, GoesOrFails,
     Throw, callVars, Stream, KeepStep, AfterPipe
<1>7. CASE RedirectStderr
  BY <1>7 DEF RedirectStderr, SeqInv, Failures, Early, Starting, Streaming, Ending, Goes,
     GoesOrFails, Throw, callVars
<1>8. CASE CreateProcess
  BY <1>8 DEF CreateProcess, SeqInv, Failures, Early, Starting, Streaming, Ending, Goes,
     GoesOrFails, Throw, callVars
<1>9. CASE ReleaseUnused
  BY <1>9 DEF ReleaseUnused, SeqInv, Failures, Early, Starting, Streaming, Ending, Goes,
     GoesOrFails, Throw, callVars
<1>10. CASE AssignToJob
  BY <1>10 DEF AssignToJob, SeqInv, Failures, Early, Starting, Streaming, Ending, Goes,
     GoesOrFails, Throw, callVars
<1>11. CASE SetTimer
  BY <1>11 DEF SetTimer, SeqInv, Failures, Early, Starting, Streaming, Ending, Goes, GoesOrFails,
     Throw, callVars
<1>12. CASE PidCallback
  BY <1>12 DEF PidCallback, SeqInv, Failures, Early, Starting, Streaming, Ending, Goes,
     GoesOrFails, Throw, callVars
<1>13. CASE CreateEvents
  BY <1>13 DEF CreateEvents, SeqInv, Failures, Early, Starting, Streaming, Ending, Goes,
     GoesOrFails, Throw, callVars
<1>14. CASE Skip
  BY <1>14 DEF Skip, SeqInv, Failures, Early, Starting, Streaming, Ending, Goes, GoesOrFails,
     Throw, callVars, Due, Acting, LeaveStreams, ThrowFromStreams, CloseAndAdvance, Advance
<1>15. CASE ScanTimesOut
  BY <1>15 DEF ScanTimesOut, SeqInv, Failures, Early, Starting, Streaming, Ending, Goes,
     GoesOrFails, Throw, callVars, Due, Acting, LeaveStreams, ThrowFromStreams, CloseAndAdvance,
             Advance
<1>16. CASE ReadNow
  BY <1>16 DEF ReadNow, SeqInv, Failures, Early, Starting, Streaming, Ending, Goes, GoesOrFails,
     Throw, callVars, Due, Acting, LeaveStreams, ThrowFromStreams, CloseAndAdvance, Advance, Process
<1>17. CASE ReadPends
  BY <1>17 DEF ReadPends, SeqInv, Failures, Early, Starting, Streaming, Ending, Goes, GoesOrFails,
     Throw, callVars, Due, Acting, LeaveStreams, ThrowFromStreams, CloseAndAdvance, Advance
<1>18. CASE ReadClosed
  BY <1>18 DEF ReadClosed, SeqInv, Failures, Early, Starting, Streaming, Ending, Goes,
     GoesOrFails, Throw, callVars, Due, Acting, LeaveStreams, ThrowFromStreams, CloseAndAdvance,
             Advance
<1>19. CASE BeginWrite
  BY <1>19 DEF BeginWrite, SeqInv, Failures, Early, Starting, Streaming, Ending, Goes,
     GoesOrFails, Throw, callVars, Due, Acting, LeaveStreams, ThrowFromStreams, CloseAndAdvance,
             Advance
<1>20. CASE WriteSome
  BY <1>20 DEF WriteSome, SeqInv, Failures, Early, Starting, Streaming, Ending, Goes, GoesOrFails,
     Throw, callVars, Due, Acting, LeaveStreams, ThrowFromStreams, CloseAndAdvance, Advance
<1>21. CASE WriteBroken
  BY <1>21 DEF WriteBroken, SeqInv, Failures, Early, Starting, Streaming, Ending, Goes,
     GoesOrFails, Throw, callVars, Due, Acting, LeaveStreams, ThrowFromStreams, CloseAndAdvance,
             Advance
<1>22. CASE ScanEnds
  BY <1>22 DEF ScanEnds, SeqInv, Failures, Early, Starting, Streaming, Ending, Goes, GoesOrFails,
     Throw, callVars, Due, Acting, LeaveStreams, ThrowFromStreams, CloseAndAdvance, Advance
<1>23. ASSUME NEW s \in Output, Complete(s) PROVE SeqInv'
  BY <1>23 DEF Complete, SeqInv, Failures, Early, Starting, Streaming, Ending, Goes, GoesOrFails,
     Throw, callVars, Due, Acting, LeaveStreams, ThrowFromStreams, CloseAndAdvance, Advance,
             Process, Rescan
<1>24. CASE WaitTimesOut
  BY <1>24 DEF WaitTimesOut, SeqInv, Failures, Early, Starting, Streaming, Ending, Goes,
     GoesOrFails, Throw, callVars, Due, Acting, LeaveStreams, ThrowFromStreams, CloseAndAdvance,
             Advance
<1>25. CASE IoFails
  BY <1>25 DEF IoFails, SeqInv, Failures, Early, Starting, Streaming, Ending, Goes, GoesOrFails,
     Throw, callVars, Due, Acting, LeaveStreams, ThrowFromStreams, CloseAndAdvance, Advance
<1>26. CASE Flush
  BY <1>26 DEF Flush, SeqInv, Failures, Early, Starting, Streaming, Ending, Goes, GoesOrFails,
     Throw, callVars
<1>27. CASE ProcessEnded
  BY <1>27 DEF ProcessEnded, SeqInv, Failures, Early, Starting, Streaming, Ending, Goes,
     GoesOrFails, Throw, callVars
<1>28. CASE ProcessTimesOut
  BY <1>28 DEF ProcessTimesOut, SeqInv, Failures, Early, Starting, Streaming, Ending, Goes,
     GoesOrFails, Throw, callVars
<1>29. CASE WaitFails
  BY <1>29 DEF WaitFails, SeqInv, Failures, Early, Starting, Streaming, Ending, Goes, GoesOrFails,
     Throw, callVars
<1>30. CASE ExitCode
  BY <1>30 DEF ExitCode, SeqInv, Failures, Early, Starting, Streaming, Ending, Goes, GoesOrFails,
     Throw, callVars
<1>31. CASE Leave
  BY <1>31 DEF Leave, SeqInv, Failures, Early, Starting, Streaming, Ending, Goes, GoesOrFails,
     Throw, callVars
<1>32. CASE CloseHandles
  BY <1>32 DEF CloseHandles, SeqInv, Failures, Early, Starting, Streaming, Ending, Goes,
     GoesOrFails, Throw, callVars
<1>33. CASE TimerExpires
  BY <1>33 DEF TimerExpires, SeqInv, callVars
<1>34. CASE World
  BY <1>34, WorldSteps DEF SeqInv
<1>35. CASE Over \/ UNCHANGED vars
  BY <1>35, OverSteps DEF SeqInv
<1>36. CASE TerminationFails
  BY <1>36, TerminationSteps DEF SeqInv, Early, Starting, Streaming, Ending
<1> QED
  BY <1>1, <1>2, <1>3, <1>4, <1>5, <1>6, <1>7, <1>8, <1>9, <1>10, <1>11, <1>12, <1>13,
  <1>14, <1>15, <1>16, <1>17, <1>18, <1>19, <1>20, <1>21, <1>22, <1>23, <1>24, <1>25,
  <1>26, <1>27, <1>28, <1>29, <1>30, <1>31, <1>32, <1>33, <1>34, <1>35, <1>36
  DEF Next, Parent

-----------------------------------------------------------------------------
(* The processes, what they hold open and what is in the pipes.            *)

ProcInv ==
  /\ proc \in [Other -> {"none", "running", "dead"}] /\ job \subseteq Descendant
  /\ held \in [Proc -> SUBSET Handle]
  /\ full \in [Stream -> 0..PipeCap]

LEMMA ProcNames ==
  /\ Proc = {"parent", "child", "heir", "stranger"} /\ Other = {"child", "heir", "stranger"}
  /\ Descendant = {"child", "heir"} /\ Output \subseteq Stream
  /\ Stream = {"stdin", "stdout", "stderr"}
BY DEF Proc, Other, Descendant, Output, Stream

LEMMA HandleNames ==
  /\ \A s \in Stream : ReadEnd[s] \in Handle /\ WriteEnd[s] \in Handle /\ ParentEnd[s] \in Handle
  /\ {"process", "job", "timer", "nul", "stdin_write"} \subseteq Handle
  /\ ParentEnds \subseteq Handle /\ ChildEnds \subseteq Handle
BY DEF Handle, ParentEnds, ChildEnds, ReadEnd, WriteEnd, ParentEnd, Stream

LEMMA InheritableHandles == Inheritable \subseteq Handle
BY HandleNames DEF Inheritable

\* What the parent opens and closes leaves the other processes alone.
LEMMA ParentHeld ==
  ASSUME ProcInv, NEW h \in SUBSET Handle, ParentOpens(h) \/ ParentCloses(h)
  PROVE  /\ held' \in [Proc -> SUBSET Handle]
         /\ \A p \in Other : held'[p] = held[p]
BY ProcNames DEF ParentOpens, ParentCloses, ProcInv

LEMMA ProcStep == TypeInv /\ ProcInv /\ [Next]_vars => ProcInv'
<1> SUFFICES ASSUME TypeInv, ProcInv, [Next]_vars PROVE ProcInv'
  OBVIOUS
<1>p. ASSUME NEW h \in SUBSET Handle, ParentOpens(h) \/ ParentCloses(h)
      PROVE  held' \in [Proc -> SUBSET Handle]
  BY <1>p, ParentHeld
<1>u. ASSUME proc' = proc, job' = job, held' = held, full' = full
      PROVE  ProcInv'
  BY <1>u DEF ProcInv
<1>h. ASSUME proc' = proc, job' = job, full' = full, held' \in [Proc -> SUBSET Handle]
      PROVE  ProcInv'
  BY <1>h DEF ProcInv
<1>1. CASE SetEnvironment
  <2>1. proc' = proc /\ job' = job /\ held' = held /\ full' = full
    BY <1>1 DEF SetEnvironment, procVars
  <2> QED  BY <2>1, <1>u
<1>2. CASE RestoreEnvironment
  <2>1. proc' = proc /\ job' = job /\ held' = held /\ full' = full
    BY <1>2 DEF RestoreEnvironment, procVars
  <2> QED  BY <2>1, <1>u
<1>3. CASE QueryJob
  <2>1. proc' = proc /\ job' = job /\ held' = held /\ full' = full  BY <1>3 DEF QueryJob, procVars
  <2> QED  BY <2>1, <1>u
<1>4. CASE Which
  <2>1. proc' = proc /\ job' = job /\ held' = held /\ full' = full  BY <1>4 DEF Which, procVars
  <2> QED  BY <2>1, <1>u
<1>5. ASSUME NEW s \in Stream, CreatePipe(s) PROVE ProcInv'
  <2>1. proc' = proc /\ job' = job /\ full' = full  BY <1>5 DEF CreatePipe, procVars
  <2>2. held' = held \/ \E h \in SUBSET Handle : ParentOpens(h)
    BY <1>5, HandleNames DEF CreatePipe
  <2>3. held' \in [Proc -> SUBSET Handle]  BY <2>2, <1>p DEF ProcInv
  <2> QED  BY <2>1, <2>3, <1>h
<1>6. ASSUME NEW s \in Stream, KeepEnd(s) PROVE ProcInv'
  <2>1. proc' = proc /\ job' = job /\ held' = held /\ full' = full  BY <1>6 DEF KeepEnd, procVars
  <2> QED  BY <2>1, <1>u
<1>7. CASE RedirectStderr
  <2>1. proc' = proc /\ job' = job /\ full' = full  BY <1>7 DEF RedirectStderr, procVars
  <2>2. held' = held \/ \E h \in SUBSET Handle : ParentOpens(h)
    BY <1>7, HandleNames DEF RedirectStderr
  <2>3. held' \in [Proc -> SUBSET Handle]  BY <2>2, <1>p DEF ProcInv
  <2> QED  BY <2>1, <2>3, <1>h
<1>8. CASE CreateProcess
  <2>1. job' = job /\ full' = full  BY <1>8 DEF CreateProcess
  <2>2. proc' \in [Other -> {"none", "running", "dead"}]  BY <1>8 DEF CreateProcess, ProcInv
  <2>3. held' \in [Proc -> SUBSET Handle]
    BY <1>8, InheritableHandles, HandleNames DEF CreateProcess, ProcInv
  <2> QED  BY <2>1, <2>2, <2>3 DEF ProcInv
<1>9. CASE ReleaseUnused
  <2>1. proc' = proc /\ job' = job /\ full' = full  BY <1>9 DEF ReleaseUnused, procVars
  <2>2. \E h \in SUBSET Handle : ParentCloses(h)
    BY <1>9, HandleNames DEF ReleaseUnused
  <2>3. held' \in [Proc -> SUBSET Handle]  BY <2>2, <1>p DEF ProcInv
  <2> QED  BY <2>1, <2>3, <1>h
<1>10. CASE AssignToJob
  <2>1. proc' = proc /\ full' = full  BY <1>10 DEF AssignToJob
  <2>2. job' \subseteq Descendant  BY <1>10 DEF AssignToJob, ProcInv, Descendant
  <2>3. held' = held \/ ParentOpens({"job"})  BY <1>10 DEF AssignToJob
  <2>4. held' \in [Proc -> SUBSET Handle]  BY <2>3, <1>p, HandleNames DEF ProcInv
  <2> QED  BY <2>1, <2>2, <2>4 DEF ProcInv
<1>11. CASE SetTimer
  <2>1. proc' = proc /\ job' = job /\ full' = full  BY <1>11 DEF SetTimer, procVars
  <2>2. held' = held \/ \E h \in SUBSET Handle : ParentOpens(h)
    BY <1>11, HandleNames DEF SetTimer
  <2>3. held' \in [Proc -> SUBSET Handle]  BY <2>2, <1>p DEF ProcInv
  <2> QED  BY <2>1, <2>3, <1>h
<1>12. CASE PidCallback
  <2>1. proc' = proc /\ job' = job /\ held' = held /\ full' = full
    BY <1>12 DEF PidCallback, procVars
  <2> QED  BY <2>1, <1>u
<1>13. CASE CreateEvents
  <2>1. proc' = proc /\ job' = job /\ held' = held /\ full' = full
    BY <1>13 DEF CreateEvents, procVars
  <2> QED  BY <2>1, <1>u
<1>14. CASE Skip
  <2>1. proc' = proc /\ job' = job /\ held' = held /\ full' = full  BY <1>14 DEF Skip, procVars
  <2> QED  BY <2>1, <1>u
<1>15. CASE ScanTimesOut
  <2>1. proc' = proc /\ job' = job /\ full' = full  BY <1>15 DEF ScanTimesOut, procVars
  <2>2. \E h \in SUBSET Handle : ParentCloses(h)
    BY <1>15, HandleNames DEF ScanTimesOut, ThrowFromStreams, LeaveStreams
  <2>3. held' \in [Proc -> SUBSET Handle]  BY <2>2, <1>p DEF ProcInv
  <2> QED  BY <2>1, <2>3, <1>h
<1>16. CASE ReadNow
  <2>1. proc' = proc /\ job' = job  BY <1>16 DEF ReadNow, procVars
  <2>2. PICK n \in 1..full[at] : full' = [full EXCEPT ![at] = @ - n]  BY <1>16 DEF ReadNow, Process
  <2>3. at \in Stream /\ full[at] \in 0..PipeCap  BY <1>16, ProcNames DEF ReadNow, ProcInv
  <2>4. full[at] - n \in 0..PipeCap  BY <2>3, BoundAssumption
  <2>5. full' \in [Stream -> 0..PipeCap]  BY <2>2, <2>3, <2>4 DEF ProcInv
  <2>6. held' = held \/ ParentCloses(ParentEnds)
    BY <1>16 DEF ReadNow, Process, ThrowFromStreams, LeaveStreams
  <2>7. held' \in [Proc -> SUBSET Handle]  BY <2>6, <1>p, HandleNames DEF ProcInv
  <2> QED  BY <2>1, <2>5, <2>7 DEF ProcInv
<1>17. CASE ReadPends
  <2>1. proc' = proc /\ job' = job /\ held' = held /\ full' = full  BY <1>17 DEF ReadPends, procVars
  <2> QED  BY <2>1, <1>u
<1>18. CASE ReadClosed
  <2>1. proc' = proc /\ job' = job /\ full' = full  BY <1>18 DEF ReadClosed, procVars
  <2>2. \E h \in SUBSET Handle : ParentCloses(h)
    BY <1>18, HandleNames DEF ReadClosed, CloseAndAdvance, Acting, Due, Output, Stream
  <2>3. held' \in [Proc -> SUBSET Handle]  BY <2>2, <1>p DEF ProcInv
  <2> QED  BY <2>1, <2>3, <1>h
<1>19. CASE BeginWrite
  <2>1. proc' = proc /\ job' = job /\ full' = full  BY <1>19 DEF BeginWrite, procVars
  <2>2. held' = held \/ \E h \in SUBSET Handle : ParentCloses(h)
    BY <1>19, HandleNames DEF BeginWrite, CloseAndAdvance, Acting, Due, Stream
  <2>3. held' \in [Proc -> SUBSET Handle]  BY <2>2, <1>p DEF ProcInv
  <2> QED  BY <2>1, <2>3, <1>h
<1>20. CASE WriteSome
  <2>1. proc' = proc /\ job' = job /\ held' = held  BY <1>20 DEF WriteSome, procVars
  <2>2. PICK n \in 1..Room("stdin") : full' = [full EXCEPT !["stdin"] = @ + n]
    BY <1>20 DEF WriteSome
  <2>3. full["stdin"] \in 0..PipeCap /\ full["stdin"] + n \in 0..PipeCap
    BY BoundAssumption, ProcNames DEF Room, ProcInv
  <2>4. full' \in [Stream -> 0..PipeCap]  BY <2>2, <2>3 DEF ProcInv
  <2> QED  BY <2>1, <2>4 DEF ProcInv
<1>21. CASE WriteBroken
  <2>1. proc' = proc /\ job' = job /\ full' = full  BY <1>21 DEF WriteBroken, procVars
  <2>2. \E h \in SUBSET Handle : ParentCloses(h)
    BY <1>21, HandleNames DEF WriteBroken, ThrowFromStreams, LeaveStreams
  <2>3. held' \in [Proc -> SUBSET Handle]  BY <2>2, <1>p DEF ProcInv
  <2> QED  BY <2>1, <2>3, <1>h
<1>22. CASE ScanEnds
  <2>1. proc' = proc /\ job' = job /\ full' = full  BY <1>22 DEF ScanEnds, procVars
  <2>2. held' = held \/ \E h \in SUBSET Handle : ParentCloses(h)
    BY <1>22, HandleNames DEF ScanEnds, LeaveStreams
  <2>3. held' \in [Proc -> SUBSET Handle]  BY <2>2, <1>p DEF ProcInv
  <2> QED  BY <2>1, <2>3, <1>h
<1>23. ASSUME NEW s \in Output, Complete(s) PROVE ProcInv'
  <2>1. proc' = proc /\ job' = job  BY <1>23 DEF Complete, procVars
  <2>2. s \in Stream /\ full[s] \in 0..PipeCap  BY ProcNames DEF ProcInv
  <2>3. full' \in [Stream -> 0..PipeCap]
    <3>1. CASE full' = full  BY <3>1 DEF ProcInv
    <3>2. CASE \E n \in 1..full[s] : full' = [full EXCEPT ![s] = @ - n]
      <4>1. PICK n \in 1..full[s] : full' = [full EXCEPT ![s] = @ - n]  BY <3>2
      <4>2. full[s] - n \in 0..PipeCap  BY <2>2, BoundAssumption
      <4> QED  BY <2>2, <4>1, <4>2 DEF ProcInv
    <3> QED  BY <1>23, <3>1, <3>2 DEF Complete, Process
  <2>4. held' = held \/ ParentCloses(ParentEnds) \/ ParentCloses({ParentEnd[s]})
    BY <1>23 DEF Complete, Process, ThrowFromStreams, LeaveStreams
  <2>5. held' \in [Proc -> SUBSET Handle]  BY <2>2, <2>4, <1>p, HandleNames DEF ProcInv
  <2> QED  BY <2>1, <2>3, <2>5 DEF ProcInv
<1>24. CASE WaitTimesOut
  <2>1. proc' = proc /\ job' = job /\ full' = full  BY <1>24 DEF WaitTimesOut, procVars
  <2>2. \E h \in SUBSET Handle : ParentCloses(h)
    BY <1>24, HandleNames DEF WaitTimesOut, ThrowFromStreams, LeaveStreams
  <2>3. held' \in [Proc -> SUBSET Handle]  BY <2>2, <1>p DEF ProcInv
  <2> QED  BY <2>1, <2>3, <1>h
<1>25. CASE IoFails
  <2>1. proc' = proc /\ job' = job /\ full' = full  BY <1>25 DEF IoFails, procVars
  <2>2. \E h \in SUBSET Handle : ParentCloses(h)
    BY <1>25, HandleNames DEF IoFails, ThrowFromStreams, LeaveStreams
  <2>3. held' \in [Proc -> SUBSET Handle]  BY <2>2, <1>p DEF ProcInv
  <2> QED  BY <2>1, <2>3, <1>h
<1>26. CASE Flush
  <2>1. proc' = proc /\ job' = job /\ held' = held /\ full' = full  BY <1>26 DEF Flush, procVars
  <2> QED  BY <2>1, <1>u
<1>27. CASE ProcessEnded
  <2>1. proc' = proc /\ job' = job /\ held' = held /\ full' = full
    BY <1>27 DEF ProcessEnded, procVars
  <2> QED  BY <2>1, <1>u
<1>28. CASE ProcessTimesOut
  <2>1. proc' = proc /\ job' = job /\ held' = held /\ full' = full
    BY <1>28 DEF ProcessTimesOut, procVars
  <2> QED  BY <2>1, <1>u
<1>29. CASE WaitFails
  <2>1. proc' = proc /\ job' = job /\ held' = held /\ full' = full  BY <1>29 DEF WaitFails, procVars
  <2> QED  BY <2>1, <1>u
<1>30. CASE ExitCode
  <2>1. proc' = proc /\ job' = job /\ held' = held /\ full' = full  BY <1>30 DEF ExitCode, procVars
  <2> QED  BY <2>1, <1>u
<1>31. CASE Leave
  <2>1. job' = job /\ full' = full  BY <1>31 DEF Leave
  <2> DEFINE procs == IF Terminates THEN job ELSE {}
  <2>2. End(procs)  BY <1>31 DEF Leave
  <2>3. proc' = [p \in Other |-> IF p \in procs THEN "dead" ELSE proc[p]]
        /\ held' = [p \in Proc |-> IF p \in procs THEN {} ELSE held[p]]
    BY <2>2 DEF End
  <2> HIDE DEF procs
  <2> QED  BY <2>1, <2>3 DEF ProcInv
<1>32. CASE CloseHandles
  <2>1. proc' = proc /\ job' = job /\ full' = full  BY <1>32 DEF CloseHandles, procVars
  <2>2. \E h \in SUBSET Handle : ParentCloses(h)
    BY <1>32, HandleNames DEF CloseHandles
  <2>3. held' \in [Proc -> SUBSET Handle]  BY <2>2, <1>p DEF ProcInv
  <2> QED  BY <2>1, <2>3, <1>h
<1>33. CASE TimerExpires
  <2>1. proc' = proc /\ job' = job /\ held' = held /\ full' = full
    BY <1>33 DEF TimerExpires, procVars
  <2> QED  BY <2>1, <1>u
<1>34. CASE World
  <2>1. CASE Spawn
    <3>1. full' = full  BY <2>1 DEF Spawn
    <3>2. proc' \in [Other -> {"none", "running", "dead"}]  BY <2>1 DEF Spawn, ProcInv
    <3>3. job' \subseteq Descendant  BY <2>1, ProcNames DEF Spawn, ProcInv
    <3>4. held' \in [Proc -> SUBSET Handle]  BY <2>1, ProcNames DEF Spawn, ProcInv
    <3> QED  BY <3>1, <3>2, <3>3, <3>4 DEF ProcInv
  <2>2. CASE StrangerStarts
    <3>1. full' = full /\ job' = job  BY <2>2 DEF StrangerStarts
    <3>2. proc' \in [Other -> {"none", "running", "dead"}]  BY <2>2 DEF StrangerStarts, ProcInv
    <3>3. held' \in [Proc -> SUBSET Handle]
      BY <2>2, InheritableHandles DEF StrangerStarts, ProcInv
    <3> QED  BY <3>1, <3>2, <3>3 DEF ProcInv
  <2>3. ASSUME NEW p \in Other, ProcessEnds(p) PROVE ProcInv'
    BY <2>3 DEF ProcessEnds, ProcInv
  <2>4. ASSUME NEW p \in Descendant, ProgramReads(p) PROVE ProcInv'
    <3>1. proc' = proc /\ job' = job /\ held' = held
      BY <2>4 DEF ProgramReads, Transfers, procVars
    <3>2. full["stdin"] > 0 /\ full' = [full EXCEPT !["stdin"] = @ + (-1)]
      BY <2>4 DEF ProgramReads, Transfers
    <3>3. full["stdin"] \in 0..PipeCap  BY ProcNames DEF ProcInv
    <3>4. full["stdin"] + (-1) \in 0..PipeCap  BY <3>2, <3>3, BoundAssumption
    <3> QED  BY <3>1, <3>2, <3>4 DEF ProcInv
  <2>5. ASSUME NEW p \in Descendant, ProgramCloses(p) PROVE ProcInv'
    BY <2>5 DEF ProgramCloses, ProcInv, procVars
  <2>6. ASSUME NEW p \in Descendant, NEW s \in Output, ProgramWrites(p, s) PROVE ProcInv'
    <3>1. proc' = proc /\ job' = job /\ held' = held
      BY <2>6 DEF ProgramWrites, Transfers, procVars
    <3>2. Room(s) > 0 /\ full' = [full EXCEPT ![s] = @ + 1]
      BY <2>6 DEF ProgramWrites, Transfers
    <3>3. full[s] \in 0..PipeCap  BY ProcNames DEF ProcInv
    <3>4. full[s] + 1 \in 0..PipeCap  BY <3>2, <3>3, BoundAssumption DEF Room
    <3> QED  BY <3>1, <3>2, <3>4 DEF ProcInv
  <2>7. ASSUME NEW p \in Descendant, NEW s \in Output, ProgramWritesNothing(p, s) PROVE ProcInv'
    <3>1. proc' = proc /\ job' = job /\ held' = held /\ full' = full
      BY <2>7 DEF ProgramWritesNothing, procVars
    <3> QED  BY <3>1, <1>u
  <2> QED  BY <1>34, <2>1, <2>2, <2>3, <2>4, <2>5, <2>6, <2>7 DEF World
<1>35. CASE Over \/ UNCHANGED vars
  BY <1>35, OverSteps, <1>u
<1>36. CASE TerminationFails
  BY <1>36, TerminationSteps, <1>u
<1> QED
  BY <1>1, <1>2, <1>3, <1>4, <1>5, <1>6, <1>7, <1>8, <1>9, <1>10, <1>11, <1>12, <1>13,
  <1>14, <1>15, <1>16, <1>17, <1>18, <1>19, <1>20, <1>21, <1>22, <1>23, <1>24, <1>25,
  <1>26, <1>27, <1>28, <1>29, <1>30, <1>31, <1>32, <1>33, <1>34, <1>35, <1>36
  DEF Next, Parent

-----------------------------------------------------------------------------
(* How the child ends, and what the caller is told.                        *)

Fates == {Exited(c) : c \in ExitCodes} \cup {Terminated}

\* The end of a call is a true report, that there was no program, or a failure.
Told == \/ outcome \in Promise!Reports(fate) /\ reaper = "off"
        \/ outcome \in Promise!NotFound /\ proc["child"] = "none"
        \/ outcome \in Failures

ChildInv ==
  /\ pc \in Early => proc["child"] = "none"
  /\ pc \notin Early \cup Ending => proc["child"] # "none"
  /\ reaper = "off" => proc["child"] = "dead"
  /\ proc["child"] = "dead" => fate \in Fates
  /\ proc["child"] # "dead" => fate = NoFate
  /\ pc \in Ending => Told

LEMMA FateFields ==
  ASSUME NEW f \in Fates
  PROVE  f.kind = "exit" /\ f.code \in Int /\ f = Exited(f.code)
BY ExitAssumption DEF Fates, Exited, Terminated

\* What the exit code means is a true report.
LEMMA VerdictIsTrue ==
  ASSUME fate \in Fates
  PROVE  Verdict \in Promise!Reports(fate)
<1>1. fate.kind = "exit" /\ fate.code \in Int /\ fate = [kind |-> "exit", code |-> fate.code]
  BY FateFields DEF Exited
<1>2. (fate.code = 0) = (fate = [kind |-> "exit", code |-> 0])
  <2>1. CASE fate.code = 0
    <3>1. fate = [kind |-> "exit", code |-> 0]  BY <1>1, <2>1
    <3> QED  BY <2>1, <3>1
  <2>2. CASE fate.code # 0
    <3>1. fate # [kind |-> "exit", code |-> 0]  BY <2>2
    <3> QED  BY <2>2, <3>1
  <2> QED  BY <2>1, <2>2
<1>3. CASE fate.code # 0 /\ cfg.throwExit
  <2>1. Verdict = [kind |-> "child_exit", ok |-> FALSE, code |-> fate.code]
    BY <1>3 DEF Verdict, Thrown
  <2> QED  BY <1>1, <1>3, <2>1 DEF Promise!Reports
<1>4. CASE ~(fate.code # 0 /\ cfg.throwExit)
  <2>1. Verdict = [kind |-> "result", ok |-> fate.code = 0, code |-> fate.code]
    BY <1>4 DEF Verdict, Returned
  <2>2. Verdict = [kind |-> "result", ok |-> fate = [kind |-> "exit", code |-> 0],
                   code |-> fate.code]
    BY <1>2, <2>1, Zenon
  <2> QED  BY <2>2 DEF Promise!Reports
<1> QED  BY <1>3, <1>4

LEMMA NotFoundIsTrue ==
  Thrown("child_exit", 127) \in Promise!NotFound /\ Returned(FALSE, 127) \in Promise!NotFound
<1>1. ([kind |-> "exit", code |-> 127] = [kind |-> "exit", code |-> 0]) = FALSE  OBVIOUS
<1>2. Thrown("child_exit", 127) \in Promise!NotFound
  BY DEF Thrown, Promise!NotFound, Promise!Reports
<1>3. Returned(FALSE, 127) \in Promise!NotFound
  <2> DEFINE f == [kind |-> "exit", code |-> 127]
  <2>1. [kind |-> "result", ok |-> f = [kind |-> "exit", code |-> 0], code |-> f.code]
          \in Promise!Reports(f)
    BY DEF Promise!Reports
  <2>2. (f = [kind |-> "exit", code |-> 0]) = FALSE  BY <1>1
  <2>3. f.code = 127  OBVIOUS
  <2> HIDE DEF f
  <2>4. [kind |-> "result", ok |-> FALSE, code |-> 127] \in Promise!Reports(f)
    BY <2>1, <2>2, <2>3, Zenon
  <2> QED  BY <2>4 DEF Returned, Promise!NotFound, f
<1> QED  BY <1>2, <1>3

\* A job holds the child, and nothing of it runs once it is terminated.
JobInv ==
  /\ job = {} \/ "child" \in job
  /\ job # {} => proc["child"] # "none" /\ pc \notin Early
  /\ pc \in {"close", "restore", "done"} /\ reaper = "armed" => Running(job) = {}

\* What becomes of the child: the processes, and how it ended.
LEMMA ChildKept ==
  ASSUME ChildInv, proc'["child"] = proc["child"], fate' = fate, outcome' = outcome,
          reaper' = reaper,
         pc' \in Early => pc \in Early,
         pc' \notin Early \cup Ending => pc \notin Early \cup Ending,
         pc' \in Ending => pc \in Ending
  PROVE  ChildInv'
BY DEF ChildInv, Told

LEMMA ChildFails ==
  ASSUME ChildInv, proc'["child"] = proc["child"], fate' = fate, reaper' \in {reaper, "none",
          "armed"},
         pc' = "leave", outcome' \in Failures
  PROVE  ChildInv'
BY DEF ChildInv, Told, Early, Ending

LEMMA ChildStep == TypeInv /\ SeqInv /\ ProcInv /\ JobInv /\ ChildInv /\ [Next]_vars => ChildInv'
<1> SUFFICES ASSUME TypeInv, SeqInv, ProcInv, JobInv, ChildInv, [Next]_vars PROVE ChildInv'
  OBVIOUS
<1>1. CASE SetEnvironment
  <2>1. proc' = proc /\ fate' = fate /\ reaper' = reaper
    BY <1>1 DEF SetEnvironment, procVars, callVars
  <2>2. \/ outcome' = outcome /\ (pc' \in Early => pc \in Early)
           /\ (pc' \notin Early \cup Ending => pc \notin Early \cup Ending)
           /\ (pc' \in Ending => pc \in Ending)
        \/ pc' = "leave" /\ outcome' \in Failures
    BY <1>1 DEF SetEnvironment, Early, Ending, Failures, Goes, GoesOrFails, Throw, procVars,
       callVars
  <2> QED  BY <2>1, <2>2, ChildKept, ChildFails
<1>2. CASE RestoreEnvironment
  <2>1. proc' = proc /\ fate' = fate /\ reaper' = reaper
    BY <1>2 DEF RestoreEnvironment, procVars, callVars
  <2>2. \/ outcome' = outcome /\ (pc' \in Early => pc \in Early)
           /\ (pc' \notin Early \cup Ending => pc \notin Early \cup Ending)
           /\ (pc' \in Ending => pc \in Ending)
        \/ pc' = "leave" /\ outcome' \in Failures
    BY <1>2 DEF RestoreEnvironment, Early, Ending, Failures, Goes, GoesOrFails, Throw, procVars,
       callVars
  <2> QED  BY <2>1, <2>2, ChildKept, ChildFails
<1>3. CASE QueryJob
  <2>1. proc' = proc /\ fate' = fate /\ reaper' = reaper  BY <1>3 DEF QueryJob, procVars, callVars
  <2>2. \/ outcome' = outcome /\ (pc' \in Early => pc \in Early)
           /\ (pc' \notin Early \cup Ending => pc \notin Early \cup Ending)
           /\ (pc' \in Ending => pc \in Ending)
        \/ pc' = "leave" /\ outcome' \in Failures
    BY <1>3 DEF QueryJob, Early, Ending, Failures, Goes, GoesOrFails, Throw, procVars, callVars
  <2> QED  BY <2>1, <2>2, ChildKept, ChildFails
<1>4. CASE Which
  <2>1. proc' = proc /\ fate' = fate /\ reaper' = reaper  BY <1>4 DEF Which, procVars, callVars
  <2>2. proc["child"] = "none"  BY <1>4 DEF Which, ChildInv, Early
  <2>3. CASE pc' = "environment" /\ outcome' = outcome
    BY <1>4, <2>1, <2>3, ChildKept DEF Which, Early, Ending
  <2>4. CASE pc' = "leave" /\ outcome' \in {Thrown("child_exit", 127), Returned(FALSE, 127)}
    <3>1. outcome' \in Promise!NotFound  BY <2>4, NotFoundIsTrue
    <3>2. Told'  BY <2>1, <2>2, <3>1 DEF Told, Promise!NotFound, Promise!Reports
    <3> QED  BY <2>1, <2>4, <3>2 DEF ChildInv, Early, Ending
  <2> QED  BY <1>4, <2>3, <2>4 DEF Which, Goes
<1>5. ASSUME NEW s \in Stream, CreatePipe(s) PROVE ChildInv'
  <2>1. proc' = proc /\ fate' = fate /\ reaper' = reaper  BY <1>5 DEF CreatePipe, procVars, callVars
  <2>2. \/ outcome' = outcome /\ (pc' \in Early => pc \in Early)
           /\ (pc' \notin Early \cup Ending => pc \notin Early \cup Ending)
           /\ (pc' \in Ending => pc \in Ending)
        \/ pc' = "leave" /\ outcome' \in Failures
    BY <1>5 DEF CreatePipe, Early, Ending, Failures, Goes, GoesOrFails, Throw, procVars, callVars,
       Stream, KeepStep
  <2> QED  BY <2>1, <2>2, ChildKept, ChildFails
<1>6. ASSUME NEW s \in Stream, KeepEnd(s) PROVE ChildInv'
  <2>1. proc' = proc /\ fate' = fate /\ reaper' = reaper  BY <1>6 DEF KeepEnd, procVars, callVars
  <2>2. \/ outcome' = outcome /\ (pc' \in Early => pc \in Early)
           /\ (pc' \notin Early \cup Ending => pc \notin Early \cup Ending)
           /\ (pc' \in Ending => pc \in Ending)
        \/ pc' = "leave" /\ outcome' \in Failures
    BY <1>6 DEF KeepEnd, Early, Ending, Failures, Goes, GoesOrFails, Throw, procVars, callVars,
       Stream, KeepStep, AfterPipe
  <2> QED  BY <2>1, <2>2, ChildKept, ChildFails
<1>7. CASE RedirectStderr
  <2>1. proc' = proc /\ fate' = fate /\ reaper' = reaper
    BY <1>7 DEF RedirectStderr, procVars, callVars
  <2>2. \/ outcome' = outcome /\ (pc' \in Early => pc \in Early)
           /\ (pc' \notin Early \cup Ending => pc \notin Early \cup Ending)
           /\ (pc' \in Ending => pc \in Ending)
        \/ pc' = "leave" /\ outcome' \in Failures
    BY <1>7 DEF RedirectStderr, Early, Ending, Failures, Goes, GoesOrFails, Throw, procVars,
       callVars
  <2> QED  BY <2>1, <2>2, ChildKept, ChildFails
<1>8. CASE CreateProcess
  <2>1. fate' = fate /\ reaper' = reaper  BY <1>8 DEF CreateProcess, callVars
  <2>2. CASE pc' = "release" /\ outcome' = outcome /\ proc' = [proc EXCEPT !["child"] = "running"]
    <3>1. proc'["child"] = "running"  BY <2>2, ProcNames DEF ProcInv
    <3>2. pc = "create" /\ reaper = "none"  BY <1>8 DEF CreateProcess, SeqInv, Early
    <3>3. proc["child"] = "none"  BY <3>2 DEF ChildInv, Early
    <3> QED  BY <2>1, <2>2, <3>1, <3>2, <3>3 DEF ChildInv, Early, Ending
  <2>3. CASE pc' = "leave" /\ outcome' \in Failures /\ proc' = proc
    BY <2>1, <2>3, ChildFails
  <2> QED  BY <1>8, <2>2, <2>3 DEF CreateProcess, Goes, Throw, Failures
<1>9. CASE ReleaseUnused
  <2>1. proc' = proc /\ fate' = fate /\ reaper' = reaper
    BY <1>9 DEF ReleaseUnused, procVars, callVars
  <2>2. \/ outcome' = outcome /\ (pc' \in Early => pc \in Early)
           /\ (pc' \notin Early \cup Ending => pc \notin Early \cup Ending)
           /\ (pc' \in Ending => pc \in Ending)
        \/ pc' = "leave" /\ outcome' \in Failures
    BY <1>9 DEF ReleaseUnused, Early, Ending, Failures, Goes, GoesOrFails, Throw, procVars, callVars
  <2> QED  BY <2>1, <2>2, ChildKept, ChildFails
<1>10. CASE AssignToJob
  <2>1. proc' = proc /\ fate' = fate  BY <1>10 DEF AssignToJob
  <2>2. pc = "assign" /\ reaper = "none"  BY <1>10 DEF AssignToJob, SeqInv
  <2>3. CASE reaper' = "armed" /\ pc' = "timer" /\ outcome' = outcome
    BY <2>1, <2>2, <2>3 DEF ChildInv, Early, Ending
  <2>4. CASE reaper' = reaper /\ pc' = "leave" /\ outcome' \in Failures
    BY <2>1, <2>4, ChildFails
  <2> QED  BY <1>10, <2>3, <2>4 DEF AssignToJob, Goes, Throw, Failures
<1>11. CASE SetTimer
  <2>1. proc' = proc /\ fate' = fate /\ reaper' = reaper  BY <1>11 DEF SetTimer, procVars, callVars
  <2>2. \/ outcome' = outcome /\ (pc' \in Early => pc \in Early)
           /\ (pc' \notin Early \cup Ending => pc \notin Early \cup Ending)
           /\ (pc' \in Ending => pc \in Ending)
        \/ pc' = "leave" /\ outcome' \in Failures
    BY <1>11 DEF SetTimer, Early, Ending, Failures, Goes, GoesOrFails, Throw, procVars, callVars
  <2> QED  BY <2>1, <2>2, ChildKept, ChildFails
<1>12. CASE PidCallback
  <2>1. proc' = proc /\ fate' = fate /\ reaper' = reaper
    BY <1>12 DEF PidCallback, procVars, callVars
  <2>2. \/ outcome' = outcome /\ (pc' \in Early => pc \in Early)
           /\ (pc' \notin Early \cup Ending => pc \notin Early \cup Ending)
           /\ (pc' \in Ending => pc \in Ending)
        \/ pc' = "leave" /\ outcome' \in Failures
    BY <1>12 DEF PidCallback, Early, Ending, Failures, Goes, GoesOrFails, Throw, procVars, callVars
  <2> QED  BY <2>1, <2>2, ChildKept, ChildFails
<1>13. CASE CreateEvents
  <2>1. proc' = proc /\ fate' = fate /\ reaper' = reaper
    BY <1>13 DEF CreateEvents, procVars, callVars
  <2>2. \/ outcome' = outcome /\ (pc' \in Early => pc \in Early)
           /\ (pc' \notin Early \cup Ending => pc \notin Early \cup Ending)
           /\ (pc' \in Ending => pc \in Ending)
        \/ pc' = "leave" /\ outcome' \in Failures
    BY <1>13 DEF CreateEvents, Early, Ending, Failures, Goes, GoesOrFails, Throw, procVars, callVars
  <2> QED  BY <2>1, <2>2, ChildKept, ChildFails
<1>14. CASE Skip
  <2>1. proc' = proc /\ fate' = fate /\ reaper' = reaper  BY <1>14 DEF Skip, procVars, callVars
  <2>2. \/ outcome' = outcome /\ (pc' \in Early => pc \in Early)
           /\ (pc' \notin Early \cup Ending => pc \notin Early \cup Ending)
           /\ (pc' \in Ending => pc \in Ending)
        \/ pc' = "leave" /\ outcome' \in Failures
    BY <1>14 DEF Skip, Early, Ending, Failures, Goes, GoesOrFails, Throw, procVars, callVars, Due,
       Acting, LeaveStreams, ThrowFromStreams, CloseAndAdvance, Advance, Process, Rescan
  <2> QED  BY <2>1, <2>2, ChildKept, ChildFails
<1>15. CASE ScanTimesOut
  <2>1. proc' = proc /\ fate' = fate /\ reaper' = reaper
    BY <1>15 DEF ScanTimesOut, procVars, callVars
  <2>2. \/ outcome' = outcome /\ (pc' \in Early => pc \in Early)
           /\ (pc' \notin Early \cup Ending => pc \notin Early \cup Ending)
           /\ (pc' \in Ending => pc \in Ending)
        \/ pc' = "leave" /\ outcome' \in Failures
    BY <1>15 DEF ScanTimesOut, Early, Ending, Failures, Goes, GoesOrFails, Throw, procVars,
       callVars, Due, Acting, LeaveStreams, ThrowFromStreams, CloseAndAdvance, Advance, Process,
               Rescan
  <2> QED  BY <2>1, <2>2, ChildKept, ChildFails
<1>16. CASE ReadNow
  <2>1. proc' = proc /\ fate' = fate /\ reaper' = reaper  BY <1>16 DEF ReadNow, procVars, callVars
  <2>2. \/ outcome' = outcome /\ (pc' \in Early => pc \in Early)
           /\ (pc' \notin Early \cup Ending => pc \notin Early \cup Ending)
           /\ (pc' \in Ending => pc \in Ending)
        \/ pc' = "leave" /\ outcome' \in Failures
    BY <1>16 DEF ReadNow, Early, Ending, Failures, Goes, GoesOrFails, Throw, procVars, callVars,
       Due, Acting, LeaveStreams, ThrowFromStreams, CloseAndAdvance, Advance, Process, Rescan
  <2> QED  BY <2>1, <2>2, ChildKept, ChildFails
<1>17. CASE ReadPends
  <2>1. proc' = proc /\ fate' = fate /\ reaper' = reaper  BY <1>17 DEF ReadPends, procVars, callVars
  <2>2. \/ outcome' = outcome /\ (pc' \in Early => pc \in Early)
           /\ (pc' \notin Early \cup Ending => pc \notin Early \cup Ending)
           /\ (pc' \in Ending => pc \in Ending)
        \/ pc' = "leave" /\ outcome' \in Failures
    BY <1>17 DEF ReadPends, Early, Ending, Failures, Goes, GoesOrFails, Throw, procVars, callVars,
       Due, Acting, LeaveStreams, ThrowFromStreams, CloseAndAdvance, Advance, Process, Rescan
  <2> QED  BY <2>1, <2>2, ChildKept, ChildFails
<1>18. CASE ReadClosed
  <2>1. proc' = proc /\ fate' = fate /\ reaper' = reaper
    BY <1>18 DEF ReadClosed, procVars, callVars
  <2>2. \/ outcome' = outcome /\ (pc' \in Early => pc \in Early)
           /\ (pc' \notin Early \cup Ending => pc \notin Early \cup Ending)
           /\ (pc' \in Ending => pc \in Ending)
        \/ pc' = "leave" /\ outcome' \in Failures
    BY <1>18 DEF ReadClosed, Early, Ending, Failures, Goes, GoesOrFails, Throw, procVars,
       callVars, Due, Acting, LeaveStreams, ThrowFromStreams, CloseAndAdvance, Advance, Process,
               Rescan
  <2> QED  BY <2>1, <2>2, ChildKept, ChildFails
<1>19. CASE BeginWrite
  <2>1. proc' = proc /\ fate' = fate /\ reaper' = reaper
    BY <1>19 DEF BeginWrite, procVars, callVars
  <2>2. \/ outcome' = outcome /\ (pc' \in Early => pc \in Early)
           /\ (pc' \notin Early \cup Ending => pc \notin Early \cup Ending)
           /\ (pc' \in Ending => pc \in Ending)
        \/ pc' = "leave" /\ outcome' \in Failures
    BY <1>19 DEF BeginWrite, Early, Ending, Failures, Goes, GoesOrFails, Throw, procVars,
       callVars, Due, Acting, LeaveStreams, ThrowFromStreams, CloseAndAdvance, Advance, Process,
               Rescan
  <2> QED  BY <2>1, <2>2, ChildKept, ChildFails
<1>20. CASE WriteSome
  <2>1. proc' = proc /\ fate' = fate /\ reaper' = reaper  BY <1>20 DEF WriteSome, procVars, callVars
  <2>2. \/ outcome' = outcome /\ (pc' \in Early => pc \in Early)
           /\ (pc' \notin Early \cup Ending => pc \notin Early \cup Ending)
           /\ (pc' \in Ending => pc \in Ending)
        \/ pc' = "leave" /\ outcome' \in Failures
    BY <1>20 DEF WriteSome, Early, Ending, Failures, Goes, GoesOrFails, Throw, procVars, callVars,
       Due, Acting, LeaveStreams, ThrowFromStreams, CloseAndAdvance, Advance, Process, Rescan
  <2> QED  BY <2>1, <2>2, ChildKept, ChildFails
<1>21. CASE WriteBroken
  <2>1. proc' = proc /\ fate' = fate /\ reaper' = reaper
    BY <1>21 DEF WriteBroken, procVars, callVars
  <2>2. \/ outcome' = outcome /\ (pc' \in Early => pc \in Early)
           /\ (pc' \notin Early \cup Ending => pc \notin Early \cup Ending)
           /\ (pc' \in Ending => pc \in Ending)
        \/ pc' = "leave" /\ outcome' \in Failures
    BY <1>21 DEF WriteBroken, Early, Ending, Failures, Goes, GoesOrFails, Throw, procVars,
       callVars, Due, Acting, LeaveStreams, ThrowFromStreams, CloseAndAdvance, Advance, Process,
               Rescan
  <2> QED  BY <2>1, <2>2, ChildKept, ChildFails
<1>22. CASE ScanEnds
  <2>1. proc' = proc /\ fate' = fate /\ reaper' = reaper  BY <1>22 DEF ScanEnds, procVars, callVars
  <2>2. \/ outcome' = outcome /\ (pc' \in Early => pc \in Early)
           /\ (pc' \notin Early \cup Ending => pc \notin Early \cup Ending)
           /\ (pc' \in Ending => pc \in Ending)
        \/ pc' = "leave" /\ outcome' \in Failures
    BY <1>22 DEF ScanEnds, Early, Ending, Failures, Goes, GoesOrFails, Throw, procVars, callVars,
       Due, Acting, LeaveStreams, ThrowFromStreams, CloseAndAdvance, Advance, Process, Rescan
  <2> QED  BY <2>1, <2>2, ChildKept, ChildFails
<1>23. ASSUME NEW s \in Output, Complete(s) PROVE ChildInv'
  <2>1. proc' = proc /\ fate' = fate /\ reaper' = reaper  BY <1>23 DEF Complete, procVars, callVars
  <2>2. \/ outcome' = outcome /\ (pc' \in Early => pc \in Early)
           /\ (pc' \notin Early \cup Ending => pc \notin Early \cup Ending)
           /\ (pc' \in Ending => pc \in Ending)
        \/ pc' = "leave" /\ outcome' \in Failures
    BY <1>23 DEF Complete, Early, Ending, Failures, Goes, GoesOrFails, Throw, procVars, callVars,
       Due, Acting, LeaveStreams, ThrowFromStreams, CloseAndAdvance, Advance, Process, Rescan
  <2> QED  BY <2>1, <2>2, ChildKept, ChildFails
<1>24. CASE WaitTimesOut
  <2>1. proc' = proc /\ fate' = fate /\ reaper' = reaper
    BY <1>24 DEF WaitTimesOut, procVars, callVars
  <2>2. \/ outcome' = outcome /\ (pc' \in Early => pc \in Early)
           /\ (pc' \notin Early \cup Ending => pc \notin Early \cup Ending)
           /\ (pc' \in Ending => pc \in Ending)
        \/ pc' = "leave" /\ outcome' \in Failures
    BY <1>24 DEF WaitTimesOut, Early, Ending, Failures, Goes, GoesOrFails, Throw, procVars,
       callVars, Due, Acting, LeaveStreams, ThrowFromStreams, CloseAndAdvance, Advance, Process,
               Rescan
  <2> QED  BY <2>1, <2>2, ChildKept, ChildFails
<1>25. CASE IoFails
  <2>1. proc' = proc /\ fate' = fate /\ reaper' = reaper  BY <1>25 DEF IoFails, procVars, callVars
  <2>2. \/ outcome' = outcome /\ (pc' \in Early => pc \in Early)
           /\ (pc' \notin Early \cup Ending => pc \notin Early \cup Ending)
           /\ (pc' \in Ending => pc \in Ending)
        \/ pc' = "leave" /\ outcome' \in Failures
    BY <1>25 DEF IoFails, Early, Ending, Failures, Goes, GoesOrFails, Throw, procVars, callVars,
       Due, Acting, LeaveStreams, ThrowFromStreams, CloseAndAdvance, Advance, Process, Rescan
  <2> QED  BY <2>1, <2>2, ChildKept, ChildFails
<1>26. CASE Flush
  <2>1. proc' = proc /\ fate' = fate /\ reaper' = reaper  BY <1>26 DEF Flush, procVars, callVars
  <2>2. \/ outcome' = outcome /\ (pc' \in Early => pc \in Early)
           /\ (pc' \notin Early \cup Ending => pc \notin Early \cup Ending)
           /\ (pc' \in Ending => pc \in Ending)
        \/ pc' = "leave" /\ outcome' \in Failures
    BY <1>26 DEF Flush, Early, Ending, Failures, Goes, GoesOrFails, Throw, procVars, callVars
  <2> QED  BY <2>1, <2>2, ChildKept, ChildFails
<1>27. CASE ProcessEnded
  <2>1. proc' = proc /\ fate' = fate /\ outcome' = outcome /\ reaper' = "off" /\ pc' = "exit_code"
        /\ proc["child"] = "dead" /\ pc = "wait"
    BY <1>27 DEF ProcessEnded, procVars, Goes
  <2> QED  BY <2>1 DEF ChildInv, Early, Ending
<1>28. CASE ProcessTimesOut
  <2>1. proc' = proc /\ fate' = fate /\ reaper' = reaper
    BY <1>28 DEF ProcessTimesOut, procVars, callVars
  <2>2. \/ outcome' = outcome /\ (pc' \in Early => pc \in Early)
           /\ (pc' \notin Early \cup Ending => pc \notin Early \cup Ending)
           /\ (pc' \in Ending => pc \in Ending)
        \/ pc' = "leave" /\ outcome' \in Failures
    BY <1>28 DEF ProcessTimesOut, Early, Ending, Failures, Goes, GoesOrFails, Throw, procVars,
       callVars
  <2> QED  BY <2>1, <2>2, ChildKept, ChildFails
<1>29. CASE WaitFails
  <2>1. proc' = proc /\ fate' = fate /\ reaper' = reaper  BY <1>29 DEF WaitFails, procVars, callVars
  <2>2. \/ outcome' = outcome /\ (pc' \in Early => pc \in Early)
           /\ (pc' \notin Early \cup Ending => pc \notin Early \cup Ending)
           /\ (pc' \in Ending => pc \in Ending)
        \/ pc' = "leave" /\ outcome' \in Failures
    BY <1>29 DEF WaitFails, Early, Ending, Failures, Goes, GoesOrFails, Throw, procVars, callVars
  <2> QED  BY <2>1, <2>2, ChildKept, ChildFails
<1>30. CASE ExitCode
  <2>1. proc' = proc /\ fate' = fate /\ reaper' = reaper /\ pc' = "leave" /\ pc = "exit_code"
    BY <1>30 DEF ExitCode, procVars, callVars
  <2>2. reaper = "off" /\ proc["child"] = "dead" /\ fate \in Fates  BY <2>1 DEF SeqInv, ChildInv
  <2>3. CASE outcome' = Verdict
    <3>1. outcome' \in Promise!Reports(fate)  BY <2>2, <2>3, VerdictIsTrue
    <3>2. outcome' \in Promise!Reports(fate')  BY <2>1, <3>1
    <3>3. Told'  BY <2>1, <2>2, <3>2 DEF Told, Promise!Reports
    <3> QED  BY <2>1, <2>2, <3>3 DEF ChildInv, Early, Ending
  <2>4. CASE outcome' = Thrown("execution", 0)
    BY <2>1, <2>4, ChildFails DEF Failures
  <2> QED  BY <1>30, <2>3, <2>4 DEF ExitCode
<1>31. CASE Leave
  <2> DEFINE procs == IF Terminates THEN job ELSE {}
  <2>1. End(procs) /\ outcome' = outcome /\ reaper' = reaper /\ pc' = "close" /\ pc = "leave"
    BY <1>31 DEF Leave, Goes, callVars
  <2>2. /\ proc' = [p \in Other |-> IF p \in procs THEN "dead" ELSE proc[p]]
        /\ fate' = IF "child" \in procs /\ proc["child"] = "running" THEN Terminated ELSE fate
    BY <2>1 DEF End
  <2>3. "child" \in procs => reaper = "armed" /\ "child" \in job  BY DEF Terminates
  <2>4. reaper = "armed" => outcome \in Failures  BY <2>1 DEF SeqInv, Ending
  <2> HIDE DEF procs
  <2>5. CASE "child" \in procs
    <3>1. proc'["child"] = "dead"  BY <2>2, <2>5, ProcNames
    <3>2. proc["child"] # "none" => fate' \in Fates
      BY <2>2, <2>5, ProcNames DEF ChildInv, ProcInv, Fates
    <3>3. proc["child"] # "none"  BY <2>3, <2>5 DEF JobInv
    <3> QED  BY <2>1, <2>3, <2>4, <2>5, <3>1, <3>2, <3>3 DEF ChildInv, Told, Early, Ending
  <2>6. CASE "child" \notin procs
    <3>1. proc'["child"] = proc["child"] /\ fate' = fate  BY <2>2, <2>6, ProcNames
    <3> QED  BY <2>1, <3>1, ChildKept DEF Early, Ending
  <2> QED  BY <2>5, <2>6
<1>32. CASE CloseHandles
  <2>1. proc' = proc /\ fate' = fate /\ reaper' = reaper
    BY <1>32 DEF CloseHandles, procVars, callVars
  <2>2. \/ outcome' = outcome /\ (pc' \in Early => pc \in Early)
           /\ (pc' \notin Early \cup Ending => pc \notin Early \cup Ending)
           /\ (pc' \in Ending => pc \in Ending)
        \/ pc' = "leave" /\ outcome' \in Failures
    BY <1>32 DEF CloseHandles, Early, Ending, Failures, Goes, GoesOrFails, Throw, procVars, callVars
  <2> QED  BY <2>1, <2>2, ChildKept, ChildFails
<1>33. CASE TimerExpires
  <2>1. proc' = proc /\ fate' = fate /\ reaper' = reaper /\ pc' = pc /\ outcome' = outcome
    BY <1>33 DEF TimerExpires, procVars, callVars
  <2> QED  BY <2>1, ChildKept
<1>34. CASE World
  <2>1. pc' = pc /\ outcome' = outcome /\ reaper' = reaper  BY <1>34, WorldSteps
  <2>2. CASE ProcessEnds("child")
    <3>1. proc'["child"] = "dead" /\ proc["child"] = "running"
      BY <2>2, ProcNames DEF ProcessEnds, ProcInv
    <3>2. fate' \in Fates  BY <2>2 DEF ProcessEnds, Fates
    <3>3. reaper # "off" /\ fate = NoFate  BY <3>1 DEF ChildInv
    <3>4. pc \in Ending => outcome \in Failures  BY <3>1, <3>3 DEF ChildInv, Told
    <3> QED  BY <2>1, <3>1, <3>2, <3>3, <3>4 DEF ChildInv, Told
  <2>3. CASE \A p \in Other : ProcessEnds(p) => p # "child"
    <3>1. proc'["child"] = proc["child"] /\ fate' = fate
      <4>1. CASE Spawn  BY <4>1, ProcNames DEF Spawn, ProcInv
      <4>2. CASE StrangerStarts  BY <4>2, ProcNames DEF StrangerStarts, ProcInv
      <4>3. ASSUME NEW p \in Other, ProcessEnds(p)
            PROVE  proc'["child"] = proc["child"] /\ fate' = fate
        <5>1. p # "child"  BY <2>3, <4>3
        <5> QED  BY <4>3, <5>1, ProcNames DEF ProcessEnds, ProcInv
      <4>4. CASE proc' = proc /\ fate' = fate  BY <4>4
      <4> QED
        BY <1>34, <4>1, <4>2, <4>3, <4>4
        DEF World, ProgramReads, ProgramCloses, ProgramWrites,
            ProgramWritesNothing, Transfers, procVars
    <3> QED  BY <2>1, <3>1, ChildKept
  <2> QED  BY <2>2, <2>3
<1>35. CASE Over \/ UNCHANGED vars
  <2>1. proc' = proc /\ fate' = fate /\ reaper' = reaper /\ pc' = pc /\ outcome' = outcome
    BY <1>35, OverSteps
  <2> QED  BY <2>1, ChildKept
<1>36. CASE TerminationFails
  <2>1. Told /\ outcome \in Failures
    BY <1>36, TerminationSteps DEF ChildInv, SeqInv, Ending
  <2> QED  BY <1>36, <2>1, TerminationSteps DEF ChildInv, Told, Early, Ending
<1> QED
  BY <1>1, <1>2, <1>3, <1>4, <1>5, <1>6, <1>7, <1>8, <1>9, <1>10, <1>11, <1>12, <1>13,
  <1>14, <1>15, <1>16, <1>17, <1>18, <1>19, <1>20, <1>21, <1>22, <1>23, <1>24, <1>25,
  <1>26, <1>27, <1>28, <1>29, <1>30, <1>31, <1>32, <1>33, <1>34, <1>35, <1>36
  DEF Next, Parent

LEMMA JobKept ==
  ASSUME JobInv, proc' = proc, job' = job, reaper' = reaper, pc' \in Early => pc \in Early,
         pc' \in {"close", "restore", "done"} => pc \in {"close", "restore", "done"}
  PROVE  JobInv'
BY DEF JobInv, Running

LEMMA JobStep == SeqInv /\ ProcInv /\ ChildInv /\ JobInv /\ [Next]_vars => JobInv'
<1> SUFFICES ASSUME SeqInv, ProcInv, ChildInv, JobInv, [Next]_vars PROVE JobInv'
  OBVIOUS
<1>1. CASE SetEnvironment
  <2>1. proc' = proc /\ job' = job /\ reaper' = reaper
    BY <1>1 DEF SetEnvironment, procVars, callVars
  <2>2. /\ pc' \in Early => pc \in Early
        /\ pc' \in {"close", "restore", "done"} => pc \in {"close", "restore", "done"}
    BY <1>1 DEF SetEnvironment, Early, Goes, GoesOrFails, Throw
  <2> QED  BY <2>1, <2>2, JobKept
<1>2. CASE RestoreEnvironment
  <2>1. proc' = proc /\ job' = job /\ reaper' = reaper
    BY <1>2 DEF RestoreEnvironment, procVars, callVars
  <2>2. /\ pc' \in Early => pc \in Early
        /\ pc' \in {"close", "restore", "done"} => pc \in {"close", "restore", "done"}
    BY <1>2 DEF RestoreEnvironment, Early, Goes, GoesOrFails, Throw
  <2> QED  BY <2>1, <2>2, JobKept
<1>3. CASE QueryJob
  <2>1. proc' = proc /\ job' = job /\ reaper' = reaper  BY <1>3 DEF QueryJob, procVars, callVars
  <2>2. /\ pc' \in Early => pc \in Early
        /\ pc' \in {"close", "restore", "done"} => pc \in {"close", "restore", "done"}
    BY <1>3 DEF QueryJob, Early, Goes, GoesOrFails, Throw
  <2> QED  BY <2>1, <2>2, JobKept
<1>4. CASE Which
  <2>1. proc' = proc /\ job' = job /\ reaper' = reaper  BY <1>4 DEF Which, procVars, callVars
  <2>2. /\ pc' \in Early => pc \in Early
        /\ pc' \in {"close", "restore", "done"} => pc \in {"close", "restore", "done"}
    BY <1>4 DEF Which, Early, Goes, GoesOrFails, Throw
  <2> QED  BY <2>1, <2>2, JobKept
<1>5. ASSUME NEW s \in Stream, CreatePipe(s) PROVE JobInv'
  <2>1. proc' = proc /\ job' = job /\ reaper' = reaper  BY <1>5 DEF CreatePipe, procVars, callVars
  <2>2. /\ pc' \in Early => pc \in Early
        /\ pc' \in {"close", "restore", "done"} => pc \in {"close", "restore", "done"}
    BY <1>5 DEF CreatePipe, Early, Goes, GoesOrFails, Throw, Stream, KeepStep
  <2> QED  BY <2>1, <2>2, JobKept
<1>6. ASSUME NEW s \in Stream, KeepEnd(s) PROVE JobInv'
  <2>1. proc' = proc /\ job' = job /\ reaper' = reaper  BY <1>6 DEF KeepEnd, procVars, callVars
  <2>2. /\ pc' \in Early => pc \in Early
        /\ pc' \in {"close", "restore", "done"} => pc \in {"close", "restore", "done"}
    BY <1>6 DEF KeepEnd, Early, Goes, GoesOrFails, Throw, Stream, KeepStep, AfterPipe
  <2> QED  BY <2>1, <2>2, JobKept
<1>7. CASE RedirectStderr
  <2>1. proc' = proc /\ job' = job /\ reaper' = reaper
    BY <1>7 DEF RedirectStderr, procVars, callVars
  <2>2. /\ pc' \in Early => pc \in Early
        /\ pc' \in {"close", "restore", "done"} => pc \in {"close", "restore", "done"}
    BY <1>7 DEF RedirectStderr, Early, Goes, GoesOrFails, Throw
  <2> QED  BY <2>1, <2>2, JobKept
<1>8. CASE CreateProcess
  <2>1. job' = job /\ reaper' = reaper /\ pc' \in {"release", "leave"} /\ pc = "create"
    BY <1>8 DEF CreateProcess, callVars, Goes, Throw
  <2>2. job = {}  BY <2>1 DEF JobInv, Early
  <2> QED  BY <2>1, <2>2 DEF JobInv, Early
<1>9. CASE ReleaseUnused
  <2>1. proc' = proc /\ job' = job /\ reaper' = reaper
    BY <1>9 DEF ReleaseUnused, procVars, callVars
  <2>2. /\ pc' \in Early => pc \in Early
        /\ pc' \in {"close", "restore", "done"} => pc \in {"close", "restore", "done"}
    BY <1>9 DEF ReleaseUnused, Early, Goes, GoesOrFails, Throw
  <2> QED  BY <2>1, <2>2, JobKept
<1>10. CASE AssignToJob
  <2>1. proc' = proc /\ pc' \in {"timer", "leave"} /\ pc = "assign"
    BY <1>10 DEF AssignToJob, Goes, Throw
  <2>2. job' = job \/ (job' = {"child"} /\ proc["child"] = "running")  BY <1>10 DEF AssignToJob
  <2> QED  BY <2>1, <2>2 DEF JobInv, Early
<1>11. CASE SetTimer
  <2>1. proc' = proc /\ job' = job /\ reaper' = reaper  BY <1>11 DEF SetTimer, procVars, callVars
  <2>2. /\ pc' \in Early => pc \in Early
        /\ pc' \in {"close", "restore", "done"} => pc \in {"close", "restore", "done"}
    BY <1>11 DEF SetTimer, Early, Goes, GoesOrFails, Throw
  <2> QED  BY <2>1, <2>2, JobKept
<1>12. CASE PidCallback
  <2>1. proc' = proc /\ job' = job /\ reaper' = reaper  BY <1>12 DEF PidCallback, procVars, callVars
  <2>2. /\ pc' \in Early => pc \in Early
        /\ pc' \in {"close", "restore", "done"} => pc \in {"close", "restore", "done"}
    BY <1>12 DEF PidCallback, Early, Goes, GoesOrFails, Throw
  <2> QED  BY <2>1, <2>2, JobKept
<1>13. CASE CreateEvents
  <2>1. proc' = proc /\ job' = job /\ reaper' = reaper
    BY <1>13 DEF CreateEvents, procVars, callVars
  <2>2. /\ pc' \in Early => pc \in Early
        /\ pc' \in {"close", "restore", "done"} => pc \in {"close", "restore", "done"}
    BY <1>13 DEF CreateEvents, Early, Goes, GoesOrFails, Throw
  <2> QED  BY <2>1, <2>2, JobKept
<1>14. CASE Skip
  <2>1. proc' = proc /\ job' = job /\ reaper' = reaper  BY <1>14 DEF Skip, procVars, callVars
  <2>2. /\ pc' \in Early => pc \in Early
        /\ pc' \in {"close", "restore", "done"} => pc \in {"close", "restore", "done"}
    BY <1>14 DEF Skip, Early, Goes, GoesOrFails, Throw, Due, Acting, LeaveStreams,
       ThrowFromStreams, CloseAndAdvance, Advance, Process, Rescan
  <2> QED  BY <2>1, <2>2, JobKept
<1>15. CASE ScanTimesOut
  <2>1. proc' = proc /\ job' = job /\ reaper' = reaper
    BY <1>15 DEF ScanTimesOut, procVars, callVars
  <2>2. /\ pc' \in Early => pc \in Early
        /\ pc' \in {"close", "restore", "done"} => pc \in {"close", "restore", "done"}
    BY <1>15 DEF ScanTimesOut, Early, Goes, GoesOrFails, Throw, Due, Acting, LeaveStreams,
       ThrowFromStreams, CloseAndAdvance, Advance, Process, Rescan
  <2> QED  BY <2>1, <2>2, JobKept
<1>16. CASE ReadNow
  <2>1. proc' = proc /\ job' = job /\ reaper' = reaper  BY <1>16 DEF ReadNow, procVars, callVars
  <2>2. /\ pc' \in Early => pc \in Early
        /\ pc' \in {"close", "restore", "done"} => pc \in {"close", "restore", "done"}
    BY <1>16 DEF ReadNow, Early, Goes, GoesOrFails, Throw, Due, Acting, LeaveStreams,
       ThrowFromStreams, CloseAndAdvance, Advance, Process, Rescan
  <2> QED  BY <2>1, <2>2, JobKept
<1>17. CASE ReadPends
  <2>1. proc' = proc /\ job' = job /\ reaper' = reaper  BY <1>17 DEF ReadPends, procVars, callVars
  <2>2. /\ pc' \in Early => pc \in Early
        /\ pc' \in {"close", "restore", "done"} => pc \in {"close", "restore", "done"}
    BY <1>17 DEF ReadPends, Early, Goes, GoesOrFails, Throw, Due, Acting, LeaveStreams,
       ThrowFromStreams, CloseAndAdvance, Advance, Process, Rescan
  <2> QED  BY <2>1, <2>2, JobKept
<1>18. CASE ReadClosed
  <2>1. proc' = proc /\ job' = job /\ reaper' = reaper  BY <1>18 DEF ReadClosed, procVars, callVars
  <2>2. /\ pc' \in Early => pc \in Early
        /\ pc' \in {"close", "restore", "done"} => pc \in {"close", "restore", "done"}
    BY <1>18 DEF ReadClosed, Early, Goes, GoesOrFails, Throw, Due, Acting, LeaveStreams,
       ThrowFromStreams, CloseAndAdvance, Advance, Process, Rescan
  <2> QED  BY <2>1, <2>2, JobKept
<1>19. CASE BeginWrite
  <2>1. proc' = proc /\ job' = job /\ reaper' = reaper  BY <1>19 DEF BeginWrite, procVars, callVars
  <2>2. /\ pc' \in Early => pc \in Early
        /\ pc' \in {"close", "restore", "done"} => pc \in {"close", "restore", "done"}
    BY <1>19 DEF BeginWrite, Early, Goes, GoesOrFails, Throw, Due, Acting, LeaveStreams,
       ThrowFromStreams, CloseAndAdvance, Advance, Process, Rescan
  <2> QED  BY <2>1, <2>2, JobKept
<1>20. CASE WriteSome
  <2>1. proc' = proc /\ job' = job /\ reaper' = reaper  BY <1>20 DEF WriteSome, procVars, callVars
  <2>2. /\ pc' \in Early => pc \in Early
        /\ pc' \in {"close", "restore", "done"} => pc \in {"close", "restore", "done"}
    BY <1>20 DEF WriteSome, Early, Goes, GoesOrFails, Throw, Due, Acting, LeaveStreams,
       ThrowFromStreams, CloseAndAdvance, Advance, Process, Rescan
  <2> QED  BY <2>1, <2>2, JobKept
<1>21. CASE WriteBroken
  <2>1. proc' = proc /\ job' = job /\ reaper' = reaper  BY <1>21 DEF WriteBroken, procVars, callVars
  <2>2. /\ pc' \in Early => pc \in Early
        /\ pc' \in {"close", "restore", "done"} => pc \in {"close", "restore", "done"}
    BY <1>21 DEF WriteBroken, Early, Goes, GoesOrFails, Throw, Due, Acting, LeaveStreams,
       ThrowFromStreams, CloseAndAdvance, Advance, Process, Rescan
  <2> QED  BY <2>1, <2>2, JobKept
<1>22. CASE ScanEnds
  <2>1. proc' = proc /\ job' = job /\ reaper' = reaper  BY <1>22 DEF ScanEnds, procVars, callVars
  <2>2. /\ pc' \in Early => pc \in Early
        /\ pc' \in {"close", "restore", "done"} => pc \in {"close", "restore", "done"}
    BY <1>22 DEF ScanEnds, Early, Goes, GoesOrFails, Throw, Due, Acting, LeaveStreams,
       ThrowFromStreams, CloseAndAdvance, Advance, Process, Rescan
  <2> QED  BY <2>1, <2>2, JobKept
<1>23. ASSUME NEW s \in Output, Complete(s) PROVE JobInv'
  <2>1. proc' = proc /\ job' = job /\ reaper' = reaper  BY <1>23 DEF Complete, procVars, callVars
  <2>2. /\ pc' \in Early => pc \in Early
        /\ pc' \in {"close", "restore", "done"} => pc \in {"close", "restore", "done"}
    BY <1>23 DEF Complete, Early, Goes, GoesOrFails, Throw, Due, Acting, LeaveStreams,
       ThrowFromStreams, CloseAndAdvance, Advance, Process, Rescan
  <2> QED  BY <2>1, <2>2, JobKept
<1>24. CASE WaitTimesOut
  <2>1. proc' = proc /\ job' = job /\ reaper' = reaper
    BY <1>24 DEF WaitTimesOut, procVars, callVars
  <2>2. /\ pc' \in Early => pc \in Early
        /\ pc' \in {"close", "restore", "done"} => pc \in {"close", "restore", "done"}
    BY <1>24 DEF WaitTimesOut, Early, Goes, GoesOrFails, Throw, Due, Acting, LeaveStreams,
       ThrowFromStreams, CloseAndAdvance, Advance, Process, Rescan
  <2> QED  BY <2>1, <2>2, JobKept
<1>25. CASE IoFails
  <2>1. proc' = proc /\ job' = job /\ reaper' = reaper  BY <1>25 DEF IoFails, procVars, callVars
  <2>2. /\ pc' \in Early => pc \in Early
        /\ pc' \in {"close", "restore", "done"} => pc \in {"close", "restore", "done"}
    BY <1>25 DEF IoFails, Early, Goes, GoesOrFails, Throw, Due, Acting, LeaveStreams,
       ThrowFromStreams, CloseAndAdvance, Advance, Process, Rescan
  <2> QED  BY <2>1, <2>2, JobKept
<1>26. CASE Flush
  <2>1. proc' = proc /\ job' = job /\ reaper' = reaper  BY <1>26 DEF Flush, procVars, callVars
  <2>2. /\ pc' \in Early => pc \in Early
        /\ pc' \in {"close", "restore", "done"} => pc \in {"close", "restore", "done"}
    BY <1>26 DEF Flush, Early, Goes, GoesOrFails, Throw
  <2> QED  BY <2>1, <2>2, JobKept
<1>27. CASE ProcessEnded
  <2>1. proc' = proc /\ job' = job /\ pc' = "exit_code" /\ pc = "wait"
    BY <1>27 DEF ProcessEnded, procVars, Goes
  <2> QED  BY <2>1 DEF JobInv, Early
<1>28. CASE ProcessTimesOut
  <2>1. proc' = proc /\ job' = job /\ reaper' = reaper
    BY <1>28 DEF ProcessTimesOut, procVars, callVars
  <2>2. /\ pc' \in Early => pc \in Early
        /\ pc' \in {"close", "restore", "done"} => pc \in {"close", "restore", "done"}
    BY <1>28 DEF ProcessTimesOut, Early, Goes, GoesOrFails, Throw
  <2> QED  BY <2>1, <2>2, JobKept
<1>29. CASE WaitFails
  <2>1. proc' = proc /\ job' = job /\ reaper' = reaper  BY <1>29 DEF WaitFails, procVars, callVars
  <2>2. /\ pc' \in Early => pc \in Early
        /\ pc' \in {"close", "restore", "done"} => pc \in {"close", "restore", "done"}
    BY <1>29 DEF WaitFails, Early, Goes, GoesOrFails, Throw
  <2> QED  BY <2>1, <2>2, JobKept
<1>30. CASE ExitCode
  <2>1. proc' = proc /\ job' = job /\ reaper' = reaper  BY <1>30 DEF ExitCode, procVars, callVars
  <2>2. /\ pc' \in Early => pc \in Early
        /\ pc' \in {"close", "restore", "done"} => pc \in {"close", "restore", "done"}
    BY <1>30 DEF ExitCode, Early, Goes, GoesOrFails, Throw
  <2> QED  BY <2>1, <2>2, JobKept
<1>31. CASE Leave
  <2> DEFINE procs == IF Terminates THEN job ELSE {}
  <2>1. End(procs) /\ reaper' = reaper /\ pc' = "close" /\ pc = "leave" /\ job' = job
    BY <1>31 DEF Leave, Goes, callVars
  <2>2. proc' = [p \in Other |-> IF p \in procs THEN "dead" ELSE proc[p]]
    BY <2>1 DEF End
  <2>3. reaper = "armed" => procs = job  BY DEF Terminates
  <2> HIDE DEF procs
  <2>4. reaper = "armed" => Running(job)' = {}
    BY <2>1, <2>2, <2>3, ProcNames DEF Running, ProcInv
  <2>5. job # {} => proc'["child"] # "none"
    BY <2>2, ProcNames DEF JobInv
  <2> QED  BY <2>1, <2>4, <2>5 DEF JobInv, Early
<1>32. CASE CloseHandles
  <2>1. proc' = proc /\ job' = job /\ reaper' = reaper
    BY <1>32 DEF CloseHandles, procVars, callVars
  <2>2. /\ pc' \in Early => pc \in Early
        /\ pc' \in {"close", "restore", "done"} => pc \in {"close", "restore", "done"}
    BY <1>32 DEF CloseHandles, Early, Goes, GoesOrFails, Throw
  <2> QED  BY <2>1, <2>2, JobKept
<1>33. CASE TimerExpires
  <2>1. proc' = proc /\ job' = job /\ reaper' = reaper /\ pc' = pc
    BY <1>33 DEF TimerExpires, procVars, callVars
  <2> QED  BY <2>1, JobKept
<1>34. CASE World
  <2>1. pc' = pc /\ reaper' = reaper  BY <1>34, WorldSteps
  <2>2. CASE Spawn
    <3>1. /\ proc["child"] = "running" /\ proc["heir"] = "none"
          /\ proc' = [proc EXCEPT !["heir"] = "running"]
          /\ job' = IF "child" \in job THEN job \cup {"heir"} ELSE job
      BY <2>2 DEF Spawn
    <3>2. proc'["child"] = "running"  BY <3>1, ProcNames DEF ProcInv
    <3>3. CASE "child" \in job
      <4>1. pc \notin Early  BY <3>3 DEF JobInv
      <4>2. ~(pc \in {"close", "restore", "done"} /\ reaper = "armed")
        BY <3>1, <3>3 DEF JobInv, Running
      <4> QED  BY <2>1, <3>1, <3>2, <3>3, <4>1, <4>2 DEF JobInv
    <3>4. CASE "child" \notin job
      <4>1. job = {} /\ job' = {}  BY <3>1, <3>4 DEF JobInv
      <4> QED  BY <4>1 DEF JobInv, Running
    <3> QED  BY <3>3, <3>4
  <2>3. CASE StrangerStarts
    <3>1. proc' = [proc EXCEPT !["stranger"] = "running"] /\ job' = job  BY <2>3 DEF StrangerStarts
    <3>2. \A p \in Descendant : proc'[p] = proc[p]  BY <3>1, ProcNames DEF ProcInv
    <3> QED  BY <2>1, <3>1, <3>2, ProcNames DEF JobInv, Running, ProcInv
  <2>4. ASSUME NEW p \in Other, ProcessEnds(p) PROVE JobInv'
    <3>1. proc' = [proc EXCEPT ![p] = "dead"] /\ job' = job /\ proc[p] = "running"
      BY <2>4 DEF ProcessEnds
    <3>2. \A q \in Other : proc'[q] = proc[q] \/ proc'[q] = "dead"  BY <3>1 DEF ProcInv
    <3> QED  BY <2>1, <3>1, <3>2, ProcNames DEF JobInv, Running, ProcInv
  <2>5. CASE proc' = proc /\ job' = job  BY <2>1, <2>5, JobKept
  <2> QED
    BY <1>34, <2>2, <2>3, <2>4, <2>5
    DEF World, ProgramReads, ProgramCloses, ProgramWrites,
            ProgramWritesNothing, Transfers, procVars
<1>35. CASE Over \/ UNCHANGED vars
  <2>1. proc' = proc /\ job' = job /\ reaper' = reaper /\ pc' = pc
    BY <1>35, OverSteps
  <2> QED  BY <2>1, JobKept
<1>36. CASE TerminationFails
  BY <1>36, TerminationSteps DEF JobInv, Early
<1> QED
  BY <1>1, <1>2, <1>3, <1>4, <1>5, <1>6, <1>7, <1>8, <1>9, <1>10, <1>11, <1>12, <1>13,
  <1>14, <1>15, <1>16, <1>17, <1>18, <1>19, <1>20, <1>21, <1>22, <1>23, <1>24, <1>25,
  <1>26, <1>27, <1>28, <1>29, <1>30, <1>31, <1>32, <1>33, <1>34, <1>35, <1>36
  DEF Next, Parent

-----------------------------------------------------------------------------
(* The pipes: what is read, and what is left in them.                      *)

\* The pipes that a round of the loop has passed when it comes to one.
Passed == [stdin |-> {}, stdout |-> {"stdin"}, stderr |-> {"stdin", "stdout"}, end |-> Stream]

ScanInv ==
  /\ pc \in Streaming => \A s \in pending : IsOpen(s)
  /\ pc \in {"scan", "write"} => \A s \in Passed[at] : IsOpen(s) => s \in pending
  /\ pc = "wait_io" => pending # {} /\ \A s \in Stream : IsOpen(s) => s \in pending

Drained(s) == SeemsClosed(s)

DrainInv ==
  /\ pc \in Early \cup {"release", "assign"} \cup Starting \cup Streaming
       => \A s \in Output : IsOpen(s) \/ Drained(s)
  /\ pc \in {"flush", "wait", "exit_code"} /\ ~stopped => \A s \in Output : Drained(s)
  /\ Normal /\ ~stopped => \A s \in Output : Drained(s)

LEMMA EndNames ==
  /\ ParentEnd["stdin"] = "stdin_write" /\ ParentEnd["stdout"] = "stdout_read"
  /\ ParentEnd["stderr"] = "stderr_read"
  /\ WriteEnd["stdin"] = "stdin_write" /\ WriteEnd["stdout"] = "stdout_write"
  /\ WriteEnd["stderr"] = "stderr_write"
  /\ ReadEnd["stdin"] = "stdin_read" /\ ReadEnd["stdout"] = "stdout_read"
  /\ ReadEnd["stderr"] = "stderr_read"
BY DEF ParentEnd, WriteEnd, ReadEnd

LEMMA EndsDiffer ==
  \A s, t \in Stream : ParentEnd[s] = ParentEnd[t] => s = t
BY EndNames, ProcNames

LEMMA PassedPipes ==
  /\ Passed["stdin"] = {} /\ Passed["stdout"] = {"stdin"}
  /\ Passed["stderr"] = {"stdin", "stdout"} /\ Passed["end"] = Stream
  /\ \A s \in Stream : Passed[After[s]] = Passed[s] \cup {s}
  /\ \A s \in Stream : After[s] \in Stream \cup {"end"}
BY ProcNames DEF Passed, After

\* What is open after the parent has closed some of its handles.
LEMMA ClosedPipes ==
  ASSUME ProcInv, NEW h, ParentCloses(h), NEW s \in Stream
  PROVE  IsOpen(s)' <=> IsOpen(s) /\ ParentEnd[s] \notin h
BY ProcNames DEF ParentCloses, IsOpen, ProcInv

LEMMA ScanKept ==
  ASSUME ScanInv, pc' = pc, at' = at, pending' = pending, held'["parent"] = held["parent"]
  PROVE  ScanInv'
BY DEF ScanInv, IsOpen

\* A step of the loop to the next pipe: this one is closed, or pending.
LEMMA ScanAdvances ==
  ASSUME TypeInv, ScanInv, pc \in {"scan", "write"}, pc' = "scan",
         at \in Stream, at' = After[at], ParentEnd[at] \in held'["parent"] => at \in pending',
         pending \subseteq pending', pending' \subseteq Output,
         \A s \in Stream : IsOpen(s)' => IsOpen(s),
         \A s \in pending' : IsOpen(s)'
  PROVE  ScanInv'
<1>1. Passed[at'] = Passed[at] \cup {at}  BY PassedPipes
<1>2. Passed[at] \subseteq Stream  BY ProcNames, PassedPipes
<1>3. \A s \in Passed[at] : IsOpen(s) => s \in pending  BY DEF ScanInv
<1>4. \A s \in Passed[at'] : IsOpen(s)' => s \in pending'  BY <1>1, <1>2, <1>3 DEF IsOpen
<1>5. pc' \notin {"write", "wait_io"}  OBVIOUS
<1> QED  BY <1>4, <1>5 DEF ScanInv, Streaming

LEMMA WorldParent ==
  ASSUME ProcInv, World
  PROVE  held'["parent"] = held["parent"]
BY ProcNames
   DEF World, Spawn, StrangerStarts, ProcessEnds, ProgramReads, ProgramCloses, ProgramWrites,
       ProgramWritesNothing, Transfers, ProcInv

LEMMA ScanStep == TypeInv /\ SeqInv /\ ProcInv /\ ScanInv /\ [Next]_vars => ScanInv'
<1> SUFFICES ASSUME TypeInv, SeqInv, ProcInv, ScanInv, [Next]_vars PROVE ScanInv'
  OBVIOUS
<1>o. ASSUME pc' \notin Streaming PROVE ScanInv'
  BY <1>o DEF ScanInv, Streaming
<1>1. CASE SetEnvironment
  <2>1. pc' \notin Streaming  BY <1>1 DEF SetEnvironment, Streaming, Goes, GoesOrFails, Throw
  <2> QED  BY <2>1, <1>o
<1>2. CASE RestoreEnvironment
  <2>1. pc' \notin Streaming  BY <1>2 DEF RestoreEnvironment, Streaming, Goes, GoesOrFails, Throw
  <2> QED  BY <2>1, <1>o
<1>3. CASE QueryJob
  <2>1. pc' \notin Streaming  BY <1>3 DEF QueryJob, Streaming, Goes, GoesOrFails, Throw
  <2> QED  BY <2>1, <1>o
<1>4. CASE Which
  <2>1. pc' \notin Streaming  BY <1>4 DEF Which, Streaming, Goes, GoesOrFails, Throw
  <2> QED  BY <2>1, <1>o
<1>5. ASSUME NEW s \in Stream, CreatePipe(s) PROVE ScanInv'
  <2>1. pc' \notin Streaming
    BY <1>5 DEF CreatePipe, Streaming, Goes, GoesOrFails, Throw, Stream, KeepStep
  <2> QED  BY <2>1, <1>o
<1>6. ASSUME NEW s \in Stream, KeepEnd(s) PROVE ScanInv'
  <2>1. pc' \notin Streaming
    BY <1>6 DEF KeepEnd, Streaming, Goes, GoesOrFails, Throw, Stream, KeepStep, AfterPipe
  <2> QED  BY <2>1, <1>o
<1>7. CASE RedirectStderr
  <2>1. pc' \notin Streaming  BY <1>7 DEF RedirectStderr, Streaming, Goes, GoesOrFails, Throw
  <2> QED  BY <2>1, <1>o
<1>8. CASE CreateProcess
  <2>1. pc' \notin Streaming  BY <1>8 DEF CreateProcess, Streaming, Goes, GoesOrFails, Throw
  <2> QED  BY <2>1, <1>o
<1>9. CASE ReleaseUnused
  <2>1. pc' \notin Streaming  BY <1>9 DEF ReleaseUnused, Streaming, Goes, GoesOrFails, Throw
  <2> QED  BY <2>1, <1>o
<1>10. CASE AssignToJob
  <2>1. pc' \notin Streaming  BY <1>10 DEF AssignToJob, Streaming, Goes, GoesOrFails, Throw
  <2> QED  BY <2>1, <1>o
<1>11. CASE SetTimer
  <2>1. pc' \notin Streaming  BY <1>11 DEF SetTimer, Streaming, Goes, GoesOrFails, Throw
  <2> QED  BY <2>1, <1>o
<1>12. CASE PidCallback
  <2>1. pc' \notin Streaming  BY <1>12 DEF PidCallback, Streaming, Goes, GoesOrFails, Throw
  <2> QED  BY <2>1, <1>o
<1>13. CASE CreateEvents
  <2>1. pc = "events" /\ pending' = pending /\ at' = "stdin" /\ pc' \in {"scan", "leave"}
    BY <1>13 DEF CreateEvents, Goes, GoesOrFails, Throw
  <2>2. pending = {}  BY <2>1 DEF SeqInv, Streaming
  <2> QED  BY <2>1, <2>2, PassedPipes DEF ScanInv, Streaming
<1>14. CASE Skip
  <2>1. /\ pc = "scan" /\ at \in Stream /\ (IsOpen(at) => at \in pending)
        /\ pc' = pc /\ at' = After[at] /\ pending' = pending /\ held' = held
    BY <1>14 DEF Skip, Due, Advance, TypeInv
  <2>2. \A s \in Stream : IsOpen(s)' <=> IsOpen(s)  BY <2>1 DEF IsOpen
  <2>3. \A s \in pending : IsOpen(s) /\ s \in Stream
    BY <2>1, ProcNames DEF ScanInv, Streaming, TypeInv
  <2>4. pending \subseteq Output  BY DEF TypeInv
  <2> QED  BY <2>1, <2>2, <2>3, <2>4, ScanAdvances DEF IsOpen
<1>15. CASE ScanTimesOut
  <2>1. pc' \notin Streaming
    BY <1>15 DEF ScanTimesOut, Streaming, Goes, GoesOrFails, Throw, ThrowFromStreams
  <2> QED  BY <2>1, <1>o
<1>16. CASE ReadNow
  <2>1. CASE pc' = pc /\ at' = at /\ pending' = pending /\ held' = held
    BY <2>1, ScanKept
  <2>2. CASE pc' \in {"flush", "leave"}
    BY <2>2, <1>o DEF Streaming
  <2> QED  BY <1>16, <2>1, <2>2 DEF ReadNow, Process, Goes, ThrowFromStreams, Throw
<1>17. CASE ReadPends
  <2>1. /\ pc = "scan" /\ at \in Output /\ IsOpen(at)
        /\ pc' = pc /\ at' = After[at] /\ pending' = pending \cup {at} /\ held' = held
    BY <1>17 DEF ReadPends, Acting, Due, Advance
  <2> QED  BY <2>1, ScanAdvances, ProcNames DEF ScanInv, IsOpen, Streaming, TypeInv
<1>18. CASE ReadClosed
  <2>1. /\ pc = "scan" /\ at \in Stream /\ at \notin pending
        /\ pc' = pc /\ at' = After[at] /\ pending' = pending /\ ParentCloses({ParentEnd[at]})
    BY <1>18, ProcNames DEF ReadClosed, Acting, Due, Advance, CloseAndAdvance, Output
  <2>2. \A s \in pending : IsOpen(s) /\ s \in Stream
    BY <2>1, ProcNames DEF ScanInv, Streaming, TypeInv
  <2>3. \A s \in Stream : IsOpen(s)' <=> IsOpen(s) /\ ParentEnd[s] # ParentEnd[at]
    BY <2>1, ClosedPipes
  <2>4. ParentEnd[at] \notin held'["parent"]
    BY <2>1, <2>3, ProcNames DEF ParentCloses, ProcInv
  <2>5. \A s \in pending' : IsOpen(s)'
    BY <2>1, <2>2, <2>3, EndsDiffer
  <2>6. pending \subseteq Output  BY DEF TypeInv
  <2> QED  BY <2>1, <2>3, <2>4, <2>5, <2>6, ScanAdvances
<1>19. CASE BeginWrite
  <2>1. CASE CloseAndAdvance
    <3>1. /\ pc = "scan" /\ at \in Stream /\ at \notin pending
          /\ pc' = pc /\ at' = After[at] /\ pending' = pending /\ ParentCloses({ParentEnd[at]})
      BY <1>19, <2>1, ProcNames DEF BeginWrite, Acting, Due, Advance, CloseAndAdvance
    <3>2. \A s \in pending : IsOpen(s) /\ s \in Stream
      BY <3>1, ProcNames DEF ScanInv, Streaming, TypeInv
    <3>3. \A s \in Stream : IsOpen(s)' <=> IsOpen(s) /\ ParentEnd[s] # ParentEnd[at]
      BY <3>1, ClosedPipes
    <3>4. ParentEnd[at] \notin held'["parent"]
      BY <3>1, <3>3, ProcNames DEF ParentCloses, ProcInv
    <3>5. \A s \in pending' : IsOpen(s)'
      BY <3>1, <3>2, <3>3, EndsDiffer
    <3>6. pending \subseteq Output  BY DEF TypeInv
    <3> QED  BY <3>1, <3>3, <3>4, <3>5, <3>6, ScanAdvances
  <2>2. CASE pc' = "write" /\ at' = at /\ pending' = pending /\ held' = held
    <3>1. pc = "scan"  BY <1>19 DEF BeginWrite, Acting, Due
    <3> QED  BY <2>2, <3>1 DEF ScanInv, IsOpen, Streaming
  <2> QED  BY <1>19, <2>1, <2>2 DEF BeginWrite, Goes
<1>20. CASE WriteSome
  <2>1. /\ pc = "write" /\ pc' \in {"scan", "write"}
        /\ at' = at /\ pending' = pending /\ held' = held
    BY <1>20 DEF WriteSome, Goes
  <2> QED  BY <2>1 DEF ScanInv, IsOpen, Streaming
<1>21. CASE WriteBroken
  <2>1. CASE pc' = "leave"
    BY <2>1, <1>o DEF Streaming
  <2>2. CASE /\ ParentCloses({"stdin_write"}) /\ at' = After[at]
             /\ pc' = "scan" /\ pending' = pending
    <3>1. pc = "write" /\ at = "stdin" /\ at \notin pending
      BY <1>21 DEF WriteBroken, TypeInv, Output
    <3>2. at \in Stream /\ ParentEnd[at] = "stdin_write"  BY <3>1, ProcNames, EndNames
    <3>3. \A s \in pending : IsOpen(s) /\ s \in Stream
      BY <2>2, <3>1, <3>2, ProcNames DEF ScanInv, Streaming, TypeInv
    <3>4. \A s \in Stream : IsOpen(s)' <=> IsOpen(s) /\ ParentEnd[s] # ParentEnd[at]
      BY <2>2, <3>1, <3>2, ClosedPipes
    <3>5. ParentEnd[at] \notin held'["parent"]
      BY <2>2, <3>1, <3>2, <3>4, ProcNames DEF ParentCloses, ProcInv
    <3>6. \A s \in pending' : IsOpen(s)'
      BY <2>2, <3>1, <3>2, <3>3, <3>4, EndsDiffer
    <3>7. pending \subseteq Output  BY DEF TypeInv
    <3> QED  BY <2>2, <3>1, <3>2, <3>4, <3>5, <3>6, <3>7, ScanAdvances
  <2> QED  BY <1>21, <2>1, <2>2 DEF WriteBroken, Goes, ThrowFromStreams, Throw
<1>22. CASE ScanEnds
  <2>1. CASE pc' = "flush"
    BY <2>1, <1>o DEF Streaming
  <2>2. CASE /\ pending # {} /\ pc' = "wait_io" /\ held' = held
             /\ pending' = pending /\ at' = at
    <3>1. pc = "scan" /\ at = "end"  BY <1>22 DEF ScanEnds
    <3>2. \A s \in Stream : IsOpen(s) => s \in pending  BY <3>1, PassedPipes DEF ScanInv
    <3> QED  BY <2>2, <3>1, <3>2 DEF ScanInv, IsOpen, Streaming
  <2> QED  BY <1>22, <2>1, <2>2 DEF ScanEnds, Goes
<1>23. ASSUME NEW s \in Output, Complete(s) PROVE ScanInv'
  <2>1. CASE pc' \in {"flush", "leave"}
    BY <2>1, <1>o DEF Streaming
  <2>2. CASE /\ held' = held \/ ParentCloses({ParentEnd[s]})
             /\ pc' = "scan" /\ pending' = pending \ {s} /\ at' = "stdin"
    <3>1. pc = "wait_io" /\ s \in Stream  BY <1>23, ProcNames DEF Complete
    <3>2. \A t \in pending' : IsOpen(t)'
      <4>1. CASE held' = held  BY <2>2, <3>1, <4>1 DEF ScanInv, IsOpen, Streaming
      <4>2. CASE ParentCloses({ParentEnd[s]})
        BY <2>2, <3>1, <4>2, ClosedPipes, EndsDiffer, ProcNames DEF ScanInv, Streaming, TypeInv
      <4> QED  BY <2>2, <4>1, <4>2
    <3> QED  BY <2>2, <3>2, PassedPipes DEF ScanInv, Streaming
  <2> QED  BY <1>23, <2>1, <2>2 DEF Complete, Process, Goes, Rescan, ThrowFromStreams, Throw
<1>24. CASE WaitTimesOut
  <2>1. pc' \notin Streaming
    BY <1>24 DEF WaitTimesOut, Streaming, Goes, GoesOrFails, Throw, ThrowFromStreams
  <2> QED  BY <2>1, <1>o
<1>25. CASE IoFails
  <2>1. pc' \notin Streaming
    BY <1>25 DEF IoFails, Streaming, Goes, GoesOrFails, Throw, ThrowFromStreams
  <2> QED  BY <2>1, <1>o
<1>26. CASE Flush
  <2>1. pc' \notin Streaming  BY <1>26 DEF Flush, Streaming, Goes, GoesOrFails, Throw
  <2> QED  BY <2>1, <1>o
<1>27. CASE ProcessEnded
  <2>1. pc' \notin Streaming  BY <1>27 DEF ProcessEnded, Streaming, Goes, GoesOrFails, Throw
  <2> QED  BY <2>1, <1>o
<1>28. CASE ProcessTimesOut
  <2>1. pc' \notin Streaming  BY <1>28 DEF ProcessTimesOut, Streaming, Goes, GoesOrFails, Throw
  <2> QED  BY <2>1, <1>o
<1>29. CASE WaitFails
  <2>1. pc' \notin Streaming  BY <1>29 DEF WaitFails, Streaming, Goes, GoesOrFails, Throw
  <2> QED  BY <2>1, <1>o
<1>30. CASE ExitCode
  <2>1. pc' \notin Streaming  BY <1>30 DEF ExitCode, Streaming, Goes, GoesOrFails, Throw
  <2> QED  BY <2>1, <1>o
<1>31. CASE Leave
  <2>1. pc' = "close"  BY <1>31 DEF Leave, Goes
  <2> QED  BY <2>1, <1>o DEF Streaming
<1>32. CASE CloseHandles
  <2>1. pc' \notin Streaming  BY <1>32 DEF CloseHandles, Streaming, Goes, GoesOrFails, Throw
  <2> QED  BY <2>1, <1>o
<1>33. CASE TimerExpires
  <2>1. pc' = pc /\ at' = at /\ pending' = pending /\ held' = held
    BY <1>33 DEF TimerExpires, callVars
  <2> QED  BY <2>1, ScanKept
<1>34. CASE World
  <2>1. pc' = pc /\ at' = at /\ pending' = pending
    BY <1>34, WorldSteps
  <2> QED  BY <1>34, <2>1, WorldParent, ScanKept
<1>35. CASE Over \/ UNCHANGED vars
  <2>1. pc' = pc /\ at' = at /\ pending' = pending /\ held' = held
    BY <1>35, OverSteps
  <2> QED  BY <2>1, ScanKept
<1>36. CASE TerminationFails
  BY <1>36, TerminationSteps, <1>o DEF Streaming
<1> QED
  BY <1>1, <1>2, <1>3, <1>4, <1>5, <1>6, <1>7, <1>8, <1>9, <1>10, <1>11, <1>12, <1>13,
  <1>14, <1>15, <1>16, <1>17, <1>18, <1>19, <1>20, <1>21, <1>22, <1>23, <1>24, <1>25,
  <1>26, <1>27, <1>28, <1>29, <1>30, <1>31, <1>32, <1>33, <1>34, <1>35, <1>36
  DEF Next, Parent

\* Nothing is in a pipe and nobody can write to it, or somebody wrote no bytes
\* to it: that stays, whatever is closed, inherited or read.
LEMMA DrainedKept ==
  ASSUME NEW s \in Stream, s \notin empties, Drained(s), full'[s] = full[s],
         \A p \in Proc : WriteEnd[s] \in held'[p] => HasWriter(s)
  PROVE  Drained(s)'
BY DEF Drained, SeemsClosed, HasWriter

LEMMA OutputEnds ==
  ASSUME NEW s \in Output
  PROVE  /\ WriteEnd[s] \in ChildEnds /\ WriteEnd[s] \notin ParentEnds
         /\ WriteEnd[s] \notin {"stdin_read", "nul", "process", "job", "timer"}
BY EndNames DEF Output, ChildEnds, ParentEnds

\* Only what the parent has open for its child is inherited.
LEMMA InheritsWriteEnds ==
  ASSUME NEW s \in Output, WriteEnd[s] \in Inheritable
  PROVE  HasWriter(s)
<1>1. \A t \in Stream : ParentEnd[t] \in ParentEnds
  BY EndNames, ProcNames DEF ParentEnds
<1> QED  BY <1>1, OutputEnds, ProcNames DEF Inheritable, HasWriter

LEMMA DrainedStep ==
  ASSUME TypeInv, ProcInv, [Next]_vars, NEW s \in Output, Drained(s), ~CreatePipe(s)
  PROVE  Drained(s)'
<1>t. s \in Stream  BY ProcNames
<1> SUFFICES ASSUME s \notin empties PROVE Drained(s)'
  BY EmptiesStay DEF Drained, SeemsClosed
<1>f. full[s] = 0 /\ ~HasWriter(s)  BY DEF Drained, SeemsClosed
<1>k. ASSUME full' = full, held' = held PROVE Drained(s)'
  BY <1>k, <1>t, DrainedKept DEF HasWriter
<1>o. ASSUME full' = full, NEW h, ParentOpens(h), WriteEnd[s] \notin h PROVE Drained(s)'
  BY <1>o, <1>t, DrainedKept DEF HasWriter, ParentOpens, ProcInv
<1>c. ASSUME full'[s] = full[s], NEW h, ParentCloses(h) PROVE Drained(s)'
  BY <1>c, <1>t, DrainedKept DEF HasWriter, ParentCloses, ProcInv
<1>1. CASE SetEnvironment
  <2>1. full' = full /\ held' = held  BY <1>1 DEF SetEnvironment
  <2> QED  BY <2>1, <1>k
<1>2. CASE RestoreEnvironment
  <2>1. full' = full /\ held' = held  BY <1>2 DEF RestoreEnvironment
  <2> QED  BY <2>1, <1>k
<1>3. CASE QueryJob
  <2>1. full' = full /\ held' = held  BY <1>3 DEF QueryJob
  <2> QED  BY <2>1, <1>k
<1>4. CASE Which
  <2>1. full' = full /\ held' = held  BY <1>4 DEF Which
  <2> QED  BY <2>1, <1>k
<1>5. ASSUME NEW t \in Stream, CreatePipe(t) PROVE Drained(s)'
  <2>1. CASE held' = held
    <3>1. full' = full  BY <1>5 DEF CreatePipe
    <3> QED  BY <2>1, <3>1, <1>k
  <2>2. CASE ParentOpens({ReadEnd[t], WriteEnd[t]})
    <3>1. full' = full  BY <1>5 DEF CreatePipe
    <3>2. t # s  BY <1>5
    <3>3. WriteEnd[s] \notin {ReadEnd[t], WriteEnd[t]}
      BY <3>2, EndNames, ProcNames DEF Output
    <3> QED  BY <2>2, <3>1, <3>3, <1>o
  <2> QED  BY <1>5, <2>1, <2>2 DEF CreatePipe
<1>6. ASSUME NEW t \in Stream, KeepEnd(t) PROVE Drained(s)'
  <2>1. full' = full /\ held' = held  BY <1>6 DEF KeepEnd
  <2> QED  BY <2>1, <1>k
<1>7. CASE RedirectStderr
  <2>1. full' = full /\ (held' = held \/ ParentOpens({"nul"}))  BY <1>7 DEF RedirectStderr
  <2> QED  BY <2>1, <1>k, <1>o, OutputEnds
<1>8. CASE CreateProcess
  <2>1. full' = full  BY <1>8 DEF CreateProcess
  <2>2. \/ held' = held
        \/ held' = [held EXCEPT !["parent"] = @ \cup {"process"}, !["child"] = Inheritable]
    BY <1>8 DEF CreateProcess
  <2>3. ASSUME NEW p \in Proc, WriteEnd[s] \in held'[p] PROVE HasWriter(s)
    BY <2>2, <2>3, InheritsWriteEnds, OutputEnds, ProcNames DEF HasWriter, ProcInv
  <2> QED  BY <2>1, <2>3, <1>t, DrainedKept
<1>9. CASE ReleaseUnused
  <2>1. full' = full /\ \E h : ParentCloses(h)  BY <1>9 DEF ReleaseUnused
  <2> QED  BY <2>1, <1>c
<1>10. CASE AssignToJob
  <2>1. full' = full /\ (held' = held \/ ParentOpens({"job"}))  BY <1>10 DEF AssignToJob
  <2> QED  BY <2>1, <1>k, <1>o, OutputEnds
<1>11. CASE SetTimer
  <2>1. full' = full /\ (held' = held \/ ParentOpens({"timer"}))  BY <1>11 DEF SetTimer
  <2> QED  BY <2>1, <1>k, <1>o, OutputEnds
<1>12. CASE PidCallback
  <2>1. full' = full /\ held' = held  BY <1>12 DEF PidCallback
  <2> QED  BY <2>1, <1>k
<1>13. CASE CreateEvents
  <2>1. full' = full /\ held' = held  BY <1>13 DEF CreateEvents
  <2> QED  BY <2>1, <1>k
<1>14. CASE Skip
  <2>1. full' = full /\ held' = held  BY <1>14 DEF Skip
  <2> QED  BY <2>1, <1>k
<1>15. CASE ScanTimesOut
  <2>1. full' = full /\ (held' = held \/ ParentCloses(ParentEnds))
    BY <1>15 DEF ScanTimesOut, ThrowFromStreams, LeaveStreams
  <2> QED  BY <2>1, <1>k, <1>c
<1>16. CASE ReadNow
  <2>1. at # s  BY <1>16, <1>f DEF ReadNow
  <2>2. full'[s] = full[s]  BY <1>16, <2>1, <1>t DEF ReadNow, Process, ProcInv
  <2>3. held' = held \/ ParentCloses(ParentEnds)
    BY <1>16 DEF ReadNow, Process, ThrowFromStreams, LeaveStreams
  <2>4. CASE held' = held  BY <2>2, <2>4, <1>t, DrainedKept DEF HasWriter
  <2> QED  BY <2>2, <2>3, <2>4, <1>c
<1>17. CASE ReadPends
  <2>1. full' = full /\ held' = held  BY <1>17 DEF ReadPends
  <2> QED  BY <2>1, <1>k
<1>18. CASE ReadClosed
  <2>1. full' = full /\ (held' = held \/ ParentCloses({ParentEnd[at]}))
    BY <1>18 DEF ReadClosed, CloseAndAdvance
  <2> QED  BY <2>1, <1>k, <1>c
<1>19. CASE BeginWrite
  <2>1. full' = full /\ (held' = held \/ ParentCloses({ParentEnd[at]}))
    BY <1>19 DEF BeginWrite, CloseAndAdvance
  <2> QED  BY <2>1, <1>k, <1>c
<1>20. CASE WriteSome
  <2>1. full'["stdout"] = full["stdout"] /\ full'["stderr"] = full["stderr"] /\ held' = held
    BY <1>20, ProcNames DEF WriteSome, ProcInv
  <2>2. full'[s] = full[s]  BY <2>1 DEF Output
  <2> QED  BY <2>1, <2>2, <1>t, DrainedKept DEF HasWriter
<1>21. CASE WriteBroken
  <2>1. full' = full /\ (held' = held \/ ParentCloses(ParentEnds) \/ ParentCloses({"stdin_write"}))
    BY <1>21 DEF WriteBroken, ThrowFromStreams, LeaveStreams
  <2> QED  BY <2>1, <1>k, <1>c
<1>22. CASE ScanEnds
  <2>1. full' = full /\ (held' = held \/ ParentCloses(ParentEnds))
    BY <1>22 DEF ScanEnds, ThrowFromStreams, LeaveStreams
  <2> QED  BY <2>1, <1>k, <1>c
<1>23. ASSUME NEW t \in Output, Complete(t) PROVE Drained(s)'
  <2>1. t \in Stream  BY ProcNames
  <2>2. full'[s] = full[s]
    <3>1. CASE full' = full  BY <3>1
    <3>2. CASE full[t] > 0 /\ \E n \in 1..full[t] : full' = [full EXCEPT ![t] = @ - n]
      <4>1. t # s  BY <3>2, <1>f
      <4> QED  BY <3>2, <4>1, <1>t DEF ProcInv
    <3> QED  BY <1>23, <3>1, <3>2 DEF Complete, Process
  <2>3. held' = held \/ ParentCloses(ParentEnds) \/ ParentCloses({ParentEnd[t]})
    BY <1>23 DEF Complete, Process, ThrowFromStreams, LeaveStreams
  <2>4. CASE held' = held  BY <2>2, <2>4, <1>t, DrainedKept DEF HasWriter
  <2> QED  BY <2>2, <2>3, <2>4, <1>c
<1>24. CASE WaitTimesOut
  <2>1. full' = full /\ (held' = held \/ ParentCloses(ParentEnds))
    BY <1>24 DEF WaitTimesOut, ThrowFromStreams, LeaveStreams
  <2> QED  BY <2>1, <1>k, <1>c
<1>25. CASE IoFails
  <2>1. full' = full /\ (held' = held \/ ParentCloses(ParentEnds))
    BY <1>25 DEF IoFails, ThrowFromStreams, LeaveStreams
  <2> QED  BY <2>1, <1>k, <1>c
<1>26. CASE Flush
  <2>1. full' = full /\ held' = held  BY <1>26 DEF Flush
  <2> QED  BY <2>1, <1>k
<1>27. CASE ProcessEnded
  <2>1. full' = full /\ held' = held  BY <1>27 DEF ProcessEnded
  <2> QED  BY <2>1, <1>k
<1>28. CASE ProcessTimesOut
  <2>1. full' = full /\ held' = held  BY <1>28 DEF ProcessTimesOut
  <2> QED  BY <2>1, <1>k
<1>29. CASE WaitFails
  <2>1. full' = full /\ held' = held  BY <1>29 DEF WaitFails
  <2> QED  BY <2>1, <1>k
<1>30. CASE ExitCode
  <2>1. full' = full /\ held' = held  BY <1>30 DEF ExitCode
  <2> QED  BY <2>1, <1>k
<1>31. CASE Leave
  <2>1. full' = full  BY <1>31 DEF Leave
  <2>2. \A p \in Proc : held'[p] \subseteq held[p]  BY <1>31 DEF Leave, End
  <2> QED  BY <2>1, <2>2, <1>t, DrainedKept DEF HasWriter
<1>32. CASE CloseHandles
  <2>1. full' = full /\ (held' = held \/ ParentCloses(Handle))
    BY <1>32 DEF CloseHandles
  <2> QED  BY <2>1, <1>k, <1>c
<1>33. CASE TimerExpires
  <2>1. full' = full /\ held' = held  BY <1>33 DEF TimerExpires
  <2> QED  BY <2>1, <1>k
<1>34. CASE World
  <2>1. CASE Spawn
    <3>1. full' = full /\ held' = [held EXCEPT !["heir"] = held["child"]]  BY <2>1 DEF Spawn
    <3> QED  BY <3>1, <1>t, DrainedKept, ProcNames DEF HasWriter, ProcInv
  <2>2. CASE StrangerStarts
    <3>1. full' = full /\ held' = [held EXCEPT !["stranger"] = Inheritable]
      BY <2>2 DEF StrangerStarts
    <3>2. ASSUME NEW p \in Proc, WriteEnd[s] \in held'[p] PROVE HasWriter(s)
      BY <3>1, <3>2, InheritsWriteEnds DEF HasWriter, ProcInv
    <3> QED  BY <3>1, <3>2, <1>t, DrainedKept
  <2>3. ASSUME NEW p \in Other, ProcessEnds(p) PROVE Drained(s)'
    <3>1. full' = full /\ held' = [held EXCEPT ![p] = {}]  BY <2>3 DEF ProcessEnds
    <3> QED  BY <3>1, <1>t, DrainedKept DEF HasWriter, ProcInv
  <2>4. ASSUME NEW p \in Descendant, ProgramReads(p) PROVE Drained(s)'
    <3>1. held' = held /\ full' = [full EXCEPT !["stdin"] = @ + (-1)]
      BY <2>4 DEF ProgramReads, Transfers
    <3>2. full'[s] = full[s]  BY <3>1 DEF Output, Stream, ProcInv
    <3> QED  BY <3>1, <3>2, <1>t, DrainedKept DEF HasWriter
  <2>5. ASSUME NEW p \in Descendant, ProgramCloses(p) PROVE Drained(s)'
    <3>1. full' = full /\ \A q \in Proc : held'[q] \subseteq held[q]
      BY <2>5 DEF ProgramCloses, ProcInv
    <3> QED  BY <3>1, <1>t, DrainedKept DEF HasWriter
  <2>6. ASSUME NEW p \in Descendant, NEW t \in Output, ProgramWrites(p, t) PROVE Drained(s)'
    <3>1. held' = held /\ full' = [full EXCEPT ![t] = @ + 1] /\ HasWriter(t)
      BY <2>6, ProcNames DEF ProgramWrites, Transfers, HasWriter
    <3>2. t # s  BY <3>1, <1>f
    <3>3. full'[s] = full[s]  BY <3>1, <3>2, <1>t DEF ProcInv
    <3> QED  BY <3>1, <3>3, <1>t, DrainedKept DEF HasWriter
  <2>7. ASSUME NEW p \in Descendant, NEW t \in Output, ProgramWritesNothing(p, t)
        PROVE  Drained(s)'
    <3>1. held' = held /\ full' = full  BY <2>7 DEF ProgramWritesNothing
    <3> QED  BY <3>1, <1>k
  <2> QED  BY <1>34, <2>1, <2>2, <2>3, <2>4, <2>5, <2>6, <2>7 DEF World
<1>35. CASE Over \/ UNCHANGED vars
  <2>1. full' = full /\ held' = held  BY <1>35, OverSteps
  <2> QED  BY <2>1, <1>k
<1>36. CASE TerminationFails
  BY <1>36, TerminationSteps, <1>k
<1> QED
  BY <1>1, <1>2, <1>3, <1>4, <1>5, <1>6, <1>7, <1>8, <1>9, <1>10, <1>11, <1>12, <1>13,
  <1>14, <1>15, <1>16, <1>17, <1>18, <1>19, <1>20, <1>21, <1>22, <1>23, <1>24, <1>25,
  <1>26, <1>27, <1>28, <1>29, <1>30, <1>31, <1>32, <1>33, <1>34, <1>35, <1>36
  DEF Next, Parent

Reading == Early \cup {"release", "assign"} \cup Starting \cup Streaming
Finishing == {"flush", "wait", "exit_code"}

LEMMA DrainKept ==
  ASSUME DrainInv, \A s \in Output : Drained(s) => Drained(s)',
         pc' \in Reading => /\ pc \in Reading
                            /\ \A s \in Output : IsOpen(s) => IsOpen(s)' \/ Drained(s)',
         pc' \in Finishing => pc \in Finishing /\ stopped' = stopped,
         Normal' /\ ~stopped' => (Normal \/ pc \in Finishing) /\ ~stopped
  PROVE  DrainInv'
BY DEF DrainInv, Reading, Finishing

\* The opening of other handles closes no pipe.
LEMMA StillOpen ==
  ASSUME ProcInv, NEW s \in Stream,
         \/ held'["parent"] = held["parent"]
         \/ \E h : ParentOpens(h)
         \/ \E h : ParentCloses(h) /\ ParentEnd[s] \notin h
  PROVE  IsOpen(s) => IsOpen(s)'
BY ProcNames DEF IsOpen, ParentOpens, ParentCloses, ProcInv

LEMMA DrainStep ==
  TypeInv /\ SeqInv /\ ProcInv /\ ScanInv /\ DrainInv /\ [Next]_vars => DrainInv'
<1> SUFFICES ASSUME TypeInv, SeqInv, ProcInv, ScanInv, DrainInv, [Next]_vars PROVE DrainInv'
  OBVIOUS
<1>s. SeqInv'  BY SeqStep
<1>d. \A s \in Output : ~CreatePipe(s) => (Drained(s) => Drained(s)')
  BY DrainedStep
<1>n. pc' \notin Ending \/ reaper' # "off" => ~Normal'
  BY <1>s DEF SeqInv, Normal, Pending
<1>1. CASE SetEnvironment
  <2>1. pc \in Reading /\ reaper' # "off" /\ pc' \notin Finishing
    BY <1>1 DEF SetEnvironment, SeqInv, Reading, Finishing, Early, Starting, Streaming, Goes,
       GoesOrFails, Throw,
      callVars
  <2>2. \A s \in Output : ~CreatePipe(s)
    BY <1>1 DEF SetEnvironment, CreatePipe, Output
  <2>3. \A s \in Output : IsOpen(s) => IsOpen(s)'
    <3>1. held' = held  BY <1>1 DEF SetEnvironment
    <3> QED  BY <3>1 DEF IsOpen
  <2> QED  BY <2>1, <2>2, <2>3, <1>d, <1>n, DrainKept
<1>2. CASE RestoreEnvironment
  <2>1. pc \in Ending /\ pc' \in Ending /\ stopped' = stopped /\ reaper' = reaper
          /\ outcome' = outcome
    BY <1>2 DEF RestoreEnvironment, Ending, Goes, callVars
  <2>2. \A s \in Output : ~CreatePipe(s)  BY <2>1 DEF CreatePipe, Output, Ending
  <2>3. Normal' = Normal  BY <2>1 DEF Normal
  <2> QED
    BY <2>1, <2>2, <2>3, <1>d, DrainKept DEF Reading, Early, Starting, Streaming, Finishing, Ending
<1>3. CASE QueryJob
  <2>1. pc \in Reading /\ reaper' # "off" /\ pc' \notin Finishing
    BY <1>3 DEF QueryJob, SeqInv, Reading, Finishing, Early, Starting, Streaming, Goes,
       GoesOrFails, Throw,
      callVars
  <2>2. \A s \in Output : ~CreatePipe(s)
    BY <1>3 DEF QueryJob, CreatePipe, Output
  <2>3. \A s \in Output : IsOpen(s) => IsOpen(s)'
    <3>1. held' = held  BY <1>3 DEF QueryJob
    <3> QED  BY <3>1 DEF IsOpen
  <2> QED  BY <2>1, <2>2, <2>3, <1>d, <1>n, DrainKept
<1>4. CASE Which
  <2>1. pc \in Reading /\ reaper' # "off" /\ pc' \notin Finishing
    BY <1>4 DEF Which, SeqInv, Reading, Finishing, Early, Starting, Streaming, Goes, GoesOrFails,
       Throw,
      callVars
  <2>2. \A s \in Output : ~CreatePipe(s)
    BY <1>4 DEF Which, CreatePipe, Output
  <2>3. \A s \in Output : IsOpen(s) => IsOpen(s)'
    <3>1. held' = held  BY <1>4 DEF Which
    <3> QED  BY <3>1 DEF IsOpen
  <2> QED  BY <2>1, <2>2, <2>3, <1>d, <1>n, DrainKept
<1>5. ASSUME NEW s \in Stream, CreatePipe(s) PROVE DrainInv'
  <2>1. pc \in Reading /\ reaper' # "off" /\ pc' \notin Finishing
    BY <1>5 DEF CreatePipe, SeqInv, Reading, Finishing, Early, Starting, Streaming, Goes,
       GoesOrFails, Throw,
      callVars, Stream, KeepStep
  <2>2. \A t \in Output : t # s => ~CreatePipe(t)
    BY <1>5 DEF CreatePipe, CreatePipe
  <2>3. CASE held' = held
    <3>1. full' = full  BY <1>5 DEF CreatePipe
    <3>2. \A t \in Output : Drained(t) => Drained(t)'
      BY <1>5, <2>3, <3>1 DEF CreatePipe, Drained, SeemsClosed, HasWriter
    <3>3. \A t \in Output : IsOpen(t) => IsOpen(t)'  BY <2>3 DEF IsOpen
    <3> QED  BY <2>1, <3>2, <3>3, <1>n, DrainKept
  <2>4. CASE ParentOpens({ReadEnd[s], WriteEnd[s]}) /\ Goes(KeepStep[s])
    <3>1. \A t \in Output : t # s => (Drained(t) => Drained(t)')
      BY <2>2, <1>d
    <3>2. \A t \in Output : IsOpen(t) => IsOpen(t)'  BY <2>4, StillOpen, ProcNames
    <3>3. s \in Output => IsOpen(s)'
      BY <2>4, EndNames, ProcNames DEF IsOpen, ParentOpens, ProcInv, Output
    <3>4. DrainInv => \A t \in Output : IsOpen(t)' \/ Drained(t)'
      BY <2>1, <3>1, <3>2, <3>3 DEF DrainInv, Reading
    <3> QED  BY <2>1, <3>4, <1>n DEF DrainInv, Finishing
  <2> QED  BY <1>5, <2>3, <2>4 DEF CreatePipe
<1>6. ASSUME NEW s \in Stream, KeepEnd(s) PROVE DrainInv'
  <2>1. pc \in Reading /\ reaper' # "off" /\ pc' \notin Finishing
    BY <1>6 DEF KeepEnd, SeqInv, Reading, Finishing, Early, Starting, Streaming, Goes,
       GoesOrFails, Throw,
      callVars, Stream, KeepStep, AfterPipe
  <2>2. \A t \in Output : ~CreatePipe(t)
    BY <1>6, ProcNames DEF KeepEnd, CreatePipe, Output, Stream, KeepStep
  <2>3. \A t \in Output : IsOpen(t) => IsOpen(t)'
    <3>1. held' = held  BY <1>6 DEF KeepEnd
    <3> QED  BY <3>1 DEF IsOpen
  <2> QED  BY <2>1, <2>2, <2>3, <1>d, <1>n, DrainKept
<1>7. CASE RedirectStderr
  <2>1. pc \in Reading /\ reaper' # "off" /\ pc' \notin Finishing
    BY <1>7 DEF RedirectStderr, SeqInv, Reading, Finishing, Early, Starting, Streaming, Goes,
       GoesOrFails, Throw,
      callVars
  <2>2. \A s \in Output : ~CreatePipe(s)
    BY <1>7 DEF RedirectStderr, CreatePipe, Output
  <2>3. \A s \in Output : IsOpen(s) => IsOpen(s)'
    <3>1. held' = held \/ ParentOpens({"nul"})  BY <1>7 DEF RedirectStderr
    <3> QED  BY <3>1, StillOpen, ProcNames
  <2> QED  BY <2>1, <2>2, <2>3, <1>d, <1>n, DrainKept
<1>8. CASE CreateProcess
  <2>1. pc \in Reading /\ reaper' # "off" /\ pc' \notin Finishing
    BY <1>8 DEF CreateProcess, SeqInv, Reading, Finishing, Early, Starting, Streaming, Goes,
       GoesOrFails, Throw,
      callVars
  <2>2. \A s \in Output : ~CreatePipe(s)
    BY <1>8 DEF CreateProcess, CreatePipe, Output
  <2>3. \A s \in Output : IsOpen(s) => IsOpen(s)'
    BY <1>8, ProcNames DEF CreateProcess, IsOpen, ProcInv
  <2> QED  BY <2>1, <2>2, <2>3, <1>d, <1>n, DrainKept
<1>9. CASE ReleaseUnused
  <2>1. pc \in Reading /\ reaper' # "off" /\ pc' \notin Finishing
    BY <1>9 DEF ReleaseUnused, SeqInv, Reading, Finishing, Early, Starting, Streaming, Goes,
       GoesOrFails, Throw,
      callVars
  <2>2. \A s \in Output : ~CreatePipe(s)
    BY <1>9 DEF ReleaseUnused, CreatePipe, Output
  <2>3. \A s \in Output : IsOpen(s) => IsOpen(s)'
    <3>1. PICK h \in SUBSET (ChildEnds \cup {"stdin_write"}) : ParentCloses(h)
      BY <1>9 DEF ReleaseUnused
    <3>2. \A s \in Output : ParentEnd[s] \notin h
      BY <3>1, EndNames DEF ChildEnds, Output
    <3> QED  BY <3>1, <3>2, StillOpen, ProcNames
  <2> QED  BY <2>1, <2>2, <2>3, <1>d, <1>n, DrainKept
<1>10. CASE AssignToJob
  <2>1. pc \in Reading /\ reaper' # "off" /\ pc' \notin Finishing
    BY <1>10 DEF AssignToJob, SeqInv, Reading, Finishing, Early, Starting, Streaming, Goes,
       GoesOrFails, Throw,
      callVars
  <2>2. \A s \in Output : ~CreatePipe(s)
    BY <1>10 DEF AssignToJob, CreatePipe, Output
  <2>3. \A s \in Output : IsOpen(s) => IsOpen(s)'
    <3>1. held' = held \/ ParentOpens({"job"})  BY <1>10 DEF AssignToJob
    <3> QED  BY <3>1, StillOpen, ProcNames
  <2> QED  BY <2>1, <2>2, <2>3, <1>d, <1>n, DrainKept
<1>11. CASE SetTimer
  <2>1. pc \in Reading /\ reaper' # "off" /\ pc' \notin Finishing
    BY <1>11 DEF SetTimer, SeqInv, Reading, Finishing, Early, Starting, Streaming, Goes,
       GoesOrFails, Throw,
      callVars
  <2>2. \A s \in Output : ~CreatePipe(s)
    BY <1>11 DEF SetTimer, CreatePipe, Output
  <2>3. \A s \in Output : IsOpen(s) => IsOpen(s)'
    <3>1. held' = held \/ ParentOpens({"timer"})  BY <1>11 DEF SetTimer
    <3> QED  BY <3>1, StillOpen, ProcNames
  <2> QED  BY <2>1, <2>2, <2>3, <1>d, <1>n, DrainKept
<1>12. CASE PidCallback
  <2>1. pc \in Reading /\ reaper' # "off" /\ pc' \notin Finishing
    BY <1>12 DEF PidCallback, SeqInv, Reading, Finishing, Early, Starting, Streaming, Goes,
       GoesOrFails, Throw,
      callVars
  <2>2. \A s \in Output : ~CreatePipe(s)
    BY <1>12 DEF PidCallback, CreatePipe, Output
  <2>3. \A s \in Output : IsOpen(s) => IsOpen(s)'
    <3>1. held' = held  BY <1>12 DEF PidCallback
    <3> QED  BY <3>1 DEF IsOpen
  <2> QED  BY <2>1, <2>2, <2>3, <1>d, <1>n, DrainKept
<1>13. CASE CreateEvents
  <2>1. pc \in Reading /\ reaper' # "off" /\ pc' \notin Finishing
    BY <1>13 DEF CreateEvents, SeqInv, Reading, Finishing, Early, Starting, Streaming, Goes,
       GoesOrFails, Throw,
      callVars
  <2>2. \A s \in Output : ~CreatePipe(s)
    BY <1>13 DEF CreateEvents, CreatePipe, Output
  <2>3. \A s \in Output : IsOpen(s) => IsOpen(s)'
    <3>1. held' = held  BY <1>13 DEF CreateEvents
    <3> QED  BY <3>1 DEF IsOpen
  <2> QED  BY <2>1, <2>2, <2>3, <1>d, <1>n, DrainKept
<1>14. CASE Skip
  <2>1. pc \in Reading /\ reaper' # "off" /\ pc' \notin Finishing
    BY <1>14 DEF Skip, SeqInv, Reading, Finishing, Early, Starting, Streaming, Goes, GoesOrFails,
       Throw,
      callVars, Due, Acting, ThrowFromStreams, CloseAndAdvance, Advance
  <2>2. \A s \in Output : ~CreatePipe(s)
    BY <1>14 DEF Skip, CreatePipe, Output, Due, Acting
  <2>3. \A s \in Output : IsOpen(s) => IsOpen(s)'
    <3>1. held' = held  BY <1>14 DEF Skip
    <3> QED  BY <3>1 DEF IsOpen
  <2> QED  BY <2>1, <2>2, <2>3, <1>d, <1>n, DrainKept
<1>15. CASE ScanTimesOut
  <2>1. pc' = "leave" /\ reaper' = reaper /\ reaper # "off"
    BY <1>15 DEF ScanTimesOut, ThrowFromStreams, Throw, Acting, Due, SeqInv, Streaming, callVars
  <2>2. \A s \in Output : ~CreatePipe(s)
    BY <1>15 DEF ScanTimesOut, CreatePipe, Output, Acting, Due
  <2> QED
    BY <2>1, <2>2, <1>d, <1>n, DrainKept DEF Reading, Finishing, Early, Starting, Streaming
<1>16. CASE ReadNow
  <2>1. pc = "scan" /\ reaper' = reaper /\ reaper # "off"
    BY <1>16 DEF ReadNow, Acting, Due, SeqInv, Streaming
  <2>2. \A s \in Output : ~CreatePipe(s)  BY <2>1 DEF CreatePipe, Output
  <2>3. CASE pc' = pc /\ held' = held
    <3>1. \A s \in Output : IsOpen(s) => IsOpen(s)'  BY <2>3 DEF IsOpen
    <3> QED
      BY <2>1, <2>2, <2>3, <3>1, <1>d, <1>n, DrainKept DEF Reading, Streaming, Finishing
  <2>4. CASE stopped' /\ pc' = "flush"
    BY <2>1, <2>2, <2>4, <1>d, <1>n
    DEF DrainInv, Early, Starting, Streaming
  <2>5. CASE pc' = "leave"
    BY <2>1, <2>2, <2>5, <1>d, <1>n, DrainKept DEF Reading, Early, Starting, Streaming, Finishing
  <2> QED  BY <1>16, <2>3, <2>4, <2>5 DEF ReadNow, Process, Goes, ThrowFromStreams, Throw
<1>17. CASE ReadPends
  <2>1. pc \in Reading /\ reaper' # "off" /\ pc' \notin Finishing
    BY <1>17 DEF ReadPends, SeqInv, Reading, Finishing, Early, Starting, Streaming, Goes,
       GoesOrFails, Throw,
      callVars, Due, Acting, ThrowFromStreams, CloseAndAdvance, Advance
  <2>2. \A s \in Output : ~CreatePipe(s)
    BY <1>17 DEF ReadPends, CreatePipe, Output, Due, Acting
  <2>3. \A s \in Output : IsOpen(s) => IsOpen(s)'
    <3>1. held' = held  BY <1>17 DEF ReadPends
    <3> QED  BY <3>1 DEF IsOpen
  <2> QED  BY <2>1, <2>2, <2>3, <1>d, <1>n, DrainKept
<1>18. CASE ReadClosed
  <2>1. pc = "scan" /\ pc' = pc /\ reaper' = reaper /\ reaper # "off" /\ at \in Output
        /\ SeemsClosed(at) /\ ParentCloses({ParentEnd[at]})
    BY <1>18 DEF ReadClosed, Acting, Due, SeqInv, Streaming, CloseAndAdvance, Advance
  <2>2. \A t \in Output : ~CreatePipe(t)  BY <2>1 DEF CreatePipe, Output
  <2>3. PICK s \in Output : s = at  BY <2>1
  <2>4. Drained(s)'  BY <2>1, <2>2, <2>3, <1>d DEF Drained
  <2>5. \A t \in Output : t # s => ParentEnd[t] \notin {ParentEnd[at]}
    BY <2>3, EndsDiffer, ProcNames
  <2>6. \A t \in Output : IsOpen(t) => IsOpen(t)' \/ Drained(t)'
    BY <2>1, <2>4, <2>5, StillOpen, ProcNames
  <2> QED
    BY <2>1, <2>2, <2>6, <1>d, <1>n, DrainKept DEF Reading, Streaming, Finishing
<1>19. CASE BeginWrite
  <2>1. pc = "scan" /\ pc' \in {"scan", "write"} /\ reaper' = reaper /\ reaper # "off"
        /\ (held' = held \/ ParentCloses({"stdin_write"}))
    BY <1>19, EndNames DEF BeginWrite, Acting, Due, SeqInv, Streaming, CloseAndAdvance, Advance,
       Goes
  <2>2. \A t \in Output : ~CreatePipe(t)  BY <2>1 DEF CreatePipe, Output
  <2>3. \A t \in Output : ParentEnd[t] \notin {"stdin_write"}  BY EndNames DEF Output
  <2>4. \A t \in Output : IsOpen(t) => IsOpen(t)'  BY <2>1, <2>3, StillOpen, ProcNames
  <2> QED
    BY <2>1, <2>2, <2>4, <1>d, <1>n, DrainKept DEF Reading, Streaming, Finishing
<1>20. CASE WriteSome
  <2>1. pc \in Reading /\ reaper' # "off" /\ pc' \notin Finishing
    BY <1>20 DEF WriteSome, SeqInv, Reading, Finishing, Early, Starting, Streaming, Goes,
       GoesOrFails, Throw,
      callVars, Due, Acting, ThrowFromStreams, CloseAndAdvance, Advance
  <2>2. \A s \in Output : ~CreatePipe(s)
    BY <1>20 DEF WriteSome, CreatePipe, Output
  <2>3. \A s \in Output : IsOpen(s) => IsOpen(s)'
    <3>1. held' = held  BY <1>20 DEF WriteSome
    <3> QED  BY <3>1 DEF IsOpen
  <2> QED  BY <2>1, <2>2, <2>3, <1>d, <1>n, DrainKept
<1>21. CASE WriteBroken
  <2>1. /\ pc = "write" /\ reaper' = reaper /\ reaper # "off"
        /\ (pc' = "scan" /\ ParentCloses({"stdin_write"})) \/ pc' = "leave"
    BY <1>21 DEF WriteBroken, SeqInv, Streaming, Goes, ThrowFromStreams, Throw
  <2>2. \A t \in Output : ~CreatePipe(t)  BY <2>1 DEF CreatePipe, Output
  <2>3. \A t \in Output : ParentEnd[t] \notin {"stdin_write"}  BY EndNames DEF Output
  <2>4. pc' = "scan" => \A t \in Output : IsOpen(t) => IsOpen(t)'
    BY <2>1, <2>3, StillOpen, ProcNames
  <2> QED
    BY <2>1, <2>2, <2>4, <1>d, <1>n, DrainKept
    DEF Reading, Early, Starting, Streaming, Finishing
<1>22. CASE ScanEnds
  <2>1. pc = "scan" /\ at = "end" /\ reaper' = reaper /\ reaper # "off"
    BY <1>22 DEF ScanEnds, SeqInv, Streaming
  <2>2. \A s \in Output : ~CreatePipe(s)  BY <2>1 DEF CreatePipe, Output
  <2>3. CASE pending = {} /\ pc' = "flush"
    <3>1. \A s \in Output : ~IsOpen(s)  BY <2>1, <2>3, PassedPipes, ProcNames DEF ScanInv
    <3>2. \A s \in Output : Drained(s)'
      BY <2>1, <2>2, <3>1, <1>d DEF DrainInv, Streaming
    <3> QED  BY <2>3, <3>2 DEF DrainInv
  <2>4. CASE pc' = "wait_io" /\ held' = held
    <3>1. \A s \in Output : IsOpen(s) => IsOpen(s)'  BY <2>4 DEF IsOpen
    <3> QED
      BY <2>1, <2>2, <2>4, <3>1, <1>d, <1>n, DrainKept DEF Reading, Streaming, Finishing
  <2> QED  BY <1>22, <2>3, <2>4 DEF ScanEnds, Goes
<1>23. ASSUME NEW s \in Output, Complete(s) PROVE DrainInv'
  <2>1. pc = "wait_io" /\ reaper' = reaper /\ reaper # "off"
    BY <1>23 DEF Complete, SeqInv, Streaming
  <2>2. \A t \in Output : ~CreatePipe(t)  BY <2>1 DEF CreatePipe, Output
  <2>3. CASE pc' = "scan" /\ held' = held
    <3>1. \A t \in Output : IsOpen(t) => IsOpen(t)'  BY <2>3 DEF IsOpen
    <3> QED
      BY <2>1, <2>2, <2>3, <3>1, <1>d, <1>n, DrainKept DEF Reading, Streaming, Finishing
  <2>4. CASE stopped' /\ pc' = "flush"
    BY <2>1, <2>2, <2>4, <1>d, <1>n
    DEF DrainInv, Early, Starting, Streaming
  <2>5. CASE pc' = "leave"
    BY <2>1, <2>2, <2>5, <1>d, <1>n, DrainKept DEF Reading, Early, Starting, Streaming, Finishing
  <2>6. CASE pc' = "scan" /\ SeemsClosed(s) /\ ParentCloses({ParentEnd[s]})
    <3>1. Drained(s)'  BY <2>2, <2>6, <1>d DEF Drained
    <3>2. \A t \in Output : t # s => ParentEnd[t] \notin {ParentEnd[s]}
      BY EndsDiffer, ProcNames
    <3>3. \A t \in Output : IsOpen(t) => IsOpen(t)' \/ Drained(t)'
      BY <2>6, <3>1, <3>2, StillOpen, ProcNames
    <3> QED
      BY <2>1, <2>2, <2>6, <3>3, <1>d, <1>n, DrainKept DEF Reading, Streaming, Finishing
  <2> QED
    BY <1>23, <2>3, <2>4, <2>5, <2>6 DEF Complete, Process, Goes, Rescan, ThrowFromStreams, Throw
<1>24. CASE WaitTimesOut
  <2>1. pc' = "leave" /\ reaper' = reaper /\ reaper # "off"
    BY <1>24 DEF WaitTimesOut, ThrowFromStreams, Throw, Acting, Due, SeqInv, Streaming, callVars
  <2>2. \A s \in Output : ~CreatePipe(s)
    BY <1>24 DEF WaitTimesOut, CreatePipe, Output, Acting, Due
  <2> QED
    BY <2>1, <2>2, <1>d, <1>n, DrainKept DEF Reading, Finishing, Early, Starting, Streaming
<1>25. CASE IoFails
  <2>1. pc' = "leave" /\ reaper' = reaper /\ reaper # "off"
    BY <1>25 DEF IoFails, ThrowFromStreams, Throw, Acting, Due, SeqInv, Streaming, callVars
  <2>2. \A s \in Output : ~CreatePipe(s)
    BY <1>25 DEF IoFails, CreatePipe, Output, Acting, Due
  <2> QED
    BY <2>1, <2>2, <1>d, <1>n, DrainKept DEF Reading, Finishing, Early, Starting, Streaming
<1>26. CASE Flush
  <2>1. pc \in Finishing /\ pc' \in {"wait", "exit_code", "leave"} /\ stopped' = stopped
    BY <1>26 DEF Flush, Finishing, Goes, Throw, callVars
  <2>2. \A s \in Output : ~CreatePipe(s)  BY <2>1 DEF CreatePipe, Output, Finishing
  <2> QED
    BY <2>1, <2>2, <1>d, DrainKept DEF Reading, Early, Starting, Streaming, Finishing
<1>27. CASE ProcessEnded
  <2>1. pc \in Finishing /\ pc' \in {"wait", "exit_code", "leave"} /\ stopped' = stopped
    BY <1>27 DEF ProcessEnded, Finishing, Goes, Throw, callVars
  <2>2. \A s \in Output : ~CreatePipe(s)  BY <2>1 DEF CreatePipe, Output, Finishing
  <2> QED
    BY <2>1, <2>2, <1>d, DrainKept DEF Reading, Early, Starting, Streaming, Finishing
<1>28. CASE ProcessTimesOut
  <2>1. pc \in Finishing /\ pc' \in {"wait", "exit_code", "leave"} /\ stopped' = stopped
    BY <1>28 DEF ProcessTimesOut, Finishing, Goes, Throw, callVars
  <2>2. \A s \in Output : ~CreatePipe(s)  BY <2>1 DEF CreatePipe, Output, Finishing
  <2> QED
    BY <2>1, <2>2, <1>d, DrainKept DEF Reading, Early, Starting, Streaming, Finishing
<1>29. CASE WaitFails
  <2>1. pc \in Finishing /\ pc' \in {"wait", "exit_code", "leave"} /\ stopped' = stopped
    BY <1>29 DEF WaitFails, Finishing, Goes, Throw, callVars
  <2>2. \A s \in Output : ~CreatePipe(s)  BY <2>1 DEF CreatePipe, Output, Finishing
  <2> QED
    BY <2>1, <2>2, <1>d, DrainKept DEF Reading, Early, Starting, Streaming, Finishing
<1>30. CASE ExitCode
  <2>1. pc \in Finishing /\ pc' \in {"wait", "exit_code", "leave"} /\ stopped' = stopped
    BY <1>30 DEF ExitCode, Finishing, Goes, Throw, callVars
  <2>2. \A s \in Output : ~CreatePipe(s)  BY <2>1 DEF CreatePipe, Output, Finishing
  <2> QED
    BY <2>1, <2>2, <1>d, DrainKept DEF Reading, Early, Starting, Streaming, Finishing
<1>31. CASE Leave
  <2>1. pc \in Ending /\ pc' \in Ending /\ stopped' = stopped /\ reaper' = reaper
          /\ outcome' = outcome
    BY <1>31 DEF Leave, Ending, Goes, callVars
  <2>2. \A s \in Output : ~CreatePipe(s)  BY <2>1 DEF CreatePipe, Output, Ending
  <2>3. Normal' = Normal  BY <2>1 DEF Normal
  <2> QED
    BY <2>1, <2>2, <2>3, <1>d, DrainKept DEF Reading, Early, Starting, Streaming, Finishing, Ending
<1>32. CASE CloseHandles
  <2>1. pc \in Ending /\ pc' \in Ending /\ stopped' = stopped /\ reaper' = reaper
          /\ outcome' = outcome
    BY <1>32 DEF CloseHandles, Ending, Goes, callVars
  <2>2. \A s \in Output : ~CreatePipe(s)  BY <2>1 DEF CreatePipe, Output, Ending
  <2>3. Normal' = Normal  BY <2>1 DEF Normal
  <2> QED
    BY <2>1, <2>2, <2>3, <1>d, DrainKept DEF Reading, Early, Starting, Streaming, Finishing, Ending
<1>33. CASE TimerExpires
  <2>1. /\ pc' = pc /\ stopped' = stopped /\ reaper' = reaper /\ outcome' = outcome
        /\ held'["parent"] = held["parent"]
    BY <1>33 DEF TimerExpires, callVars
  <2>2. \A s \in Output : ~CreatePipe(s)
    BY <2>1 DEF CreatePipe, Output, Stream, KeepStep, Goes, Throw
  <2>3. (Normal' <=> Normal) /\ \A s \in Output : IsOpen(s) => IsOpen(s)'
    BY <2>1 DEF Normal, IsOpen
  <2> QED  BY <2>1, <2>2, <2>3, <1>d, DrainKept
<1>34. CASE World
  <2>1. /\ pc' = pc /\ stopped' = stopped /\ reaper' = reaper /\ outcome' = outcome
        /\ held'["parent"] = held["parent"]
    BY <1>34, WorldSteps, WorldParent
  <2>2. \A s \in Output : ~CreatePipe(s)
    BY <2>1 DEF CreatePipe, Output, Stream, KeepStep, Goes, Throw
  <2>3. (Normal' <=> Normal) /\ \A s \in Output : IsOpen(s) => IsOpen(s)'
    BY <2>1 DEF Normal, IsOpen
  <2> QED  BY <2>1, <2>2, <2>3, <1>d, DrainKept
<1>35. CASE Over \/ UNCHANGED vars
  <2>1. /\ pc' = pc /\ stopped' = stopped /\ reaper' = reaper /\ outcome' = outcome
        /\ held'["parent"] = held["parent"]
    BY <1>35, OverSteps
  <2>2. \A s \in Output : ~CreatePipe(s)
    BY <2>1 DEF CreatePipe, Output, Stream, KeepStep, Goes, Throw
  <2>3. (Normal' <=> Normal) /\ \A s \in Output : IsOpen(s) => IsOpen(s)'
    BY <2>1 DEF Normal, IsOpen
  <2> QED  BY <2>1, <2>2, <2>3, <1>d, DrainKept
<1>36. CASE TerminationFails
  <2>1. \A s \in Output : ~CreatePipe(s)
    BY <1>36, TerminationSteps DEF CreatePipe, Output
  <2>2. ~Normal'  BY <1>36, TerminationSteps, <1>n
  <2> QED
    BY <1>36, <2>1, <2>2, <1>d, TerminationSteps, DrainKept
    DEF Reading, Early, Starting, Streaming, Finishing
<1> QED
  BY <1>1, <1>2, <1>3, <1>4, <1>5, <1>6, <1>7, <1>8, <1>9, <1>10, <1>11, <1>12, <1>13,
  <1>14, <1>15, <1>16, <1>17, <1>18, <1>19, <1>20, <1>21, <1>22, <1>23, <1>24, <1>25,
  <1>26, <1>27, <1>28, <1>29, <1>30, <1>31, <1>32, <1>33, <1>34, <1>35, <1>36
  DEF Next, Parent

-----------------------------------------------------------------------------
(* The environment of the caller, and that of the child.                   *)

LEMMA LeastOf ==
  ASSUME NEW s \in SUBSET Nat, s # {}
  PROVE  Min(s) \in s /\ \A o \in s : Min(s) <= o
<1> DEFINE Less == {p \in Nat \X Nat : p[1] < p[2]}
<1>1. IsWellFoundedOn(Less, Nat)  BY NatLessThanWellFounded, Zenon DEF OpToRel
<1>2. PICK m \in s : \A o \in s : ~(<<o, m>> \in Less)  BY <1>1, WFMin, Zenon
<1>3. \A o \in s : m <= o
  <2> TAKE o \in s
  <2>1. ~(<<o, m>>[1] < <<o, m>>[2])  BY <1>2, <<o, m>> \in Nat \X Nat, Zenon
  <2>2. m \in Nat /\ o \in Nat /\ ~(o < m)  BY <2>1
  <2> QED  BY <2>2
<1> QED  BY <1>3 DEF Min

LEMMA GreatestOf ==
  ASSUME NEW n \in Nat, NEW s \in SUBSET (1..n), s # {}
  PROVE  Max(s) \in s /\ \A o \in s : o <= Max(s)
<1> DEFINE t == {x \in 0..n : n - x \in s}
<1>1. PICK x \in s : TRUE  OBVIOUS
<1>2. n - x \in 0..n /\ n - (n - x) = x  BY <1>1
<1>3. Min(t) \in t /\ \A o \in t : Min(t) <= o
  <2>1. n - x \in t  BY <1>1, <1>2
  <2>2. \A y \in t : y \in Nat  OBVIOUS
  <2> HIDE DEF t
  <2>3. t \in SUBSET Nat /\ t # {}  BY <2>1, <2>2
  <2> QED  BY <2>3, LeastOf
<1>4. n - Min(t) \in s /\ Min(t) \in 0..n  BY <1>3
<1>5. \A o \in s : o <= n - Min(t)
  <2> TAKE o \in s
  <2>1. o \in 1..n /\ n - o \in t  OBVIOUS
  <2>2. Min(t) <= n - o  BY <1>3, <2>1
  <2> QED  BY <1>4, <2>1, <2>2
<1>6. \A o \in s : n - Min(t) >= o  BY <1>4, <1>5
<1>7. \E y \in s : \A o \in s : y >= o  BY <1>4, <1>6
<1>8. Max(s) \in s /\ \A o \in s : Max(s) >= o  BY <1>7 DEF Max
<1> QED  BY <1>8

\* A call is one of those explored: its map is a sequence of variables.
LEMMA ConfigFields ==
  ASSUME cfg \in Configs
  PROVE  /\ cfg.given \in Seq([var : Variable, usual : BOOLEAN, value : STRING])
         /\ Len(cfg.given) \in Nat
         /\ \A i \in 1..Len(cfg.given) : cfg.given[i].var \in Variable
         /\ cfg.before \in [Variable -> STRING]
         /\ cfg.merge \in BOOLEAN /\ cfg.inherit \in BOOLEAN
<1>1. cfg \in Config  BY ConfigAssumption
<1> DEFINE g == cfg.given
<1>2. /\ g \in Seq([var : Variable, usual : BOOLEAN, value : STRING])
      /\ cfg.before \in [Variable -> STRING]
      /\ cfg.merge \in BOOLEAN /\ cfg.inherit \in BOOLEAN
  BY <1>1 DEF Config
<1> HIDE DEF g
<1>3. Len(g) \in Nat /\ \A i \in 1..Len(g) : g[i] \in [var : Variable, usual : BOOLEAN,
        value : STRING]
  BY <1>2, LenProperties, ElementOfSeq
<1> QED  BY <1>2, <1>3 DEF g

Pair == [var : Variable, value : STRING \cup {"C"}]

\* The locale that execute() adds: C, once, for what the caller has not given.
LEMMA AddedLocale ==
  /\ LocalePairs \in Seq(Pair)
  /\ \A i \in 1..Len(LocalePairs) :
       /\ LocalePairs[i].value = "C" /\ LocalePairs[i].var \in {"LC_ALL", "LANG"}
       /\ ~cfg.inherit /\ NotGiven(LocalePairs[i].var)
  /\ \A i, j \in 1..Len(LocalePairs) : LocalePairs[i].var = LocalePairs[j].var => i = j
  /\ \A v \in {"LC_ALL", "LANG"} :
       ~cfg.inherit /\ NotGiven(v) => \E i \in 1..Len(LocalePairs) : LocalePairs[i].var = v
<1> DEFINE a == ~cfg.inherit /\ NotGiven("LC_ALL")
           b == ~cfg.inherit /\ NotGiven("LANG")
<1>1. LocalePairs = (IF a THEN <<Locale("LC_ALL")>> ELSE <<>>) \o (IF b THEN <<Locale("LANG")>> ELSE <<>>)
  BY DEF LocalePairs
<1>2. /\ Locale("LC_ALL") = [var |-> "LC_ALL", value |-> "C"]
      /\ Locale("LANG") = [var |-> "LANG", value |-> "C"]
  BY DEF Locale
<1>p. Locale("LC_ALL") \in Pair /\ Locale("LANG") \in Pair
  <2>1. "LC_ALL" \in Variable /\ "LANG" \in Variable  BY DEF Variable
  <2> QED  BY <1>2, <2>1 DEF Pair
<1> DEFINE s == IF a THEN <<Locale("LC_ALL")>> ELSE <<>>
           t == IF b THEN <<Locale("LANG")>> ELSE <<>>
<1>s. s \in Seq(Pair) /\ Len(s) = (IF a THEN 1 ELSE 0) /\ (a => s[1] = Locale("LC_ALL"))
  BY <1>p
<1>t. t \in Seq(Pair) /\ Len(t) = (IF b THEN 1 ELSE 0) /\ (b => t[1] = Locale("LANG"))
  BY <1>p
<1>l. LocalePairs = s \o t  BY <1>1
<1> HIDE DEF a, b, s, t
<1>c. /\ LocalePairs \in Seq(Pair) /\ Len(LocalePairs) = Len(s) + Len(t)
      /\ \A i \in 1..Len(s) + Len(t) : LocalePairs[i] = IF i <= Len(s) THEN s[i] ELSE t[i - Len(s)]
  BY <1>s, <1>t, <1>l, ConcatProperties
<1>3. CASE a /\ b
  <2>1. /\ LocalePairs \in Seq(Pair) /\ Len(LocalePairs) = 2
        /\ LocalePairs[1] = Locale("LC_ALL") /\ LocalePairs[2] = Locale("LANG")
    BY <1>3, <1>s, <1>t, <1>c
  <2> QED  BY <1>2, <1>3, <2>1 DEF a, b
<1>4. CASE a /\ ~b
  <2>1. LocalePairs \in Seq(Pair) /\ Len(LocalePairs) = 1 /\ LocalePairs[1] = Locale("LC_ALL")
    BY <1>4, <1>s, <1>t, <1>c
  <2> QED  BY <1>2, <1>4, <2>1 DEF a, b
<1>5. CASE ~a /\ b
  <2>1. LocalePairs \in Seq(Pair) /\ Len(LocalePairs) = 1 /\ LocalePairs[1] = Locale("LANG")
    BY <1>5, <1>s, <1>t, <1>c
  <2> QED  BY <1>2, <1>5, <2>1 DEF a, b
<1>6. CASE ~a /\ ~b
  <2>1. LocalePairs \in Seq(Pair) /\ Len(LocalePairs) = 0  BY <1>6, <1>s, <1>t, <1>c
  <2> QED  BY <1>6, <2>1 DEF a, b
<1> QED  BY <1>3, <1>4, <1>5, <1>6

LEMMA OverrideParts ==
  ASSUME cfg \in Configs
  PROVE  /\ Len(LocalePairs) \in Nat /\ Len(cfg.given) \in Nat
         /\ Len(Overrides) = Len(LocalePairs) + Len(cfg.given)
         /\ \A i \in 1..Len(Overrides) : Overrides[i].var \in Variable
         /\ \A i \in 1..Len(LocalePairs) : Overrides[i] = LocalePairs[i]
         /\ \A i \in 1..Len(cfg.given) :
              /\ Overrides[Len(LocalePairs) + i].var = cfg.given[i].var
              /\ Overrides[Len(LocalePairs) + i].value = cfg.given[i].value
<1>1. GivenPairs \in Seq(Pair) /\ Len(GivenPairs) = Len(cfg.given)
      /\ \A i \in 1..Len(cfg.given) :
           GivenPairs[i] = [var |-> cfg.given[i].var, value |-> cfg.given[i].value]
  <2> DEFINE n == Len(cfg.given)
             e(i) == [var |-> cfg.given[i].var, value |-> cfg.given[i].value]
  <2>1. n \in Nat  BY ConfigFields
  <2>2. \A i \in 1..n : e(i) \in Pair
    <3> TAKE i \in 1..n
    <3>1. cfg.given[i] \in [var : Variable, usual : BOOLEAN, value : STRING]
      BY ConfigFields, ElementOfSeq
    <3> QED  BY <3>1 DEF Pair
  <2>3. GivenPairs = [i \in 1..n |-> e(i)]  BY DEF GivenPairs
  <2> HIDE DEF n, e
  <2>4. GivenPairs \in Seq(Pair) /\ Len(GivenPairs) = n /\ \A i \in 1..n : GivenPairs[i] = e(i)
    BY <2>1, <2>2, <2>3
  <2> QED  BY <2>4 DEF n, e
<1>2. LocalePairs \in Seq(Pair)  BY AddedLocale
<1>3. Len(LocalePairs) \in Nat /\ Len(cfg.given) \in Nat  BY <1>2, ConfigFields, LenProperties
<1>4. /\ Overrides \in Seq(Pair) /\ Len(Overrides) = Len(LocalePairs) + Len(cfg.given)
      /\ \A i \in 1..Len(LocalePairs) + Len(cfg.given) :
           Overrides[i] = IF i <= Len(LocalePairs) THEN LocalePairs[i]
                          ELSE GivenPairs[i - Len(LocalePairs)]
  <2> DEFINE l == LocalePairs
             g == GivenPairs
  <2>1. Overrides = l \o g  BY DEF Overrides
  <2>2. l \in Seq(Pair) /\ g \in Seq(Pair) /\ Len(g) = Len(cfg.given)  BY <1>1, <1>2
  <2> HIDE DEF l, g
  <2>3. /\ Overrides \in Seq(Pair) /\ Len(Overrides) = Len(l) + Len(g)
        /\ \A i \in 1..Len(l) + Len(g) : Overrides[i] = IF i <= Len(l) THEN l[i] ELSE g[i - Len(l)]
    BY <2>1, <2>2, ConcatProperties
  <2> QED  BY <2>2, <2>3 DEF l, g
<1>5. \A i \in 1..Len(Overrides) : Overrides[i].var \in Variable
  <2> TAKE i \in 1..Len(Overrides)
  <2>1. Overrides[i] \in Pair  BY <1>4, ElementOfSeq
  <2> QED  BY <2>1 DEF Pair
<1>6. \A i \in 1..Len(LocalePairs) : Overrides[i] = LocalePairs[i]  BY <1>3, <1>4
<1>7. \A i \in 1..Len(cfg.given) : Overrides[Len(LocalePairs) + i] = GivenPairs[i]
  <2> TAKE i \in 1..Len(cfg.given)
  <2>1. /\ Len(LocalePairs) + i \in 1..Len(LocalePairs) + Len(cfg.given)
        /\ ~(Len(LocalePairs) + i <= Len(LocalePairs))
        /\ (Len(LocalePairs) + i) - Len(LocalePairs) = i
    BY <1>3
  <2> QED  BY <1>4, <2>1
<1>8. \A i \in 1..Len(cfg.given) :
        /\ Overrides[Len(LocalePairs) + i].var = cfg.given[i].var
        /\ Overrides[Len(LocalePairs) + i].value = cfg.given[i].value
  <2> TAKE i \in 1..Len(cfg.given)
  <2>1. Overrides[Len(LocalePairs) + i] = [var |-> cfg.given[i].var, value |-> cfg.given[i].value]
    BY <1>1, <1>7
  <2> QED  BY <2>1
<1> QED  BY <1>3, <1>4, <1>5, <1>6, <1>8

\* Each variable is set once, if the caller gives all under their usual names.
LEMMA DistinctOverrides ==
  ASSUME cfg \in Configs, \A i \in 1..Len(cfg.given) : cfg.given[i].usual,
         NEW i \in 1..Len(Overrides), NEW j \in 1..Len(Overrides),
         Overrides[i].var = Overrides[j].var
  PROVE  i = j
<1> DEFINE n == Len(LocalePairs)
           m == Len(cfg.given)
<1>1. /\ n \in Nat /\ m \in Nat /\ Len(Overrides) = n + m
      /\ \A k \in 1..n : Overrides[k] = LocalePairs[k]
      /\ \A k \in 1..m : Overrides[n + k].var = cfg.given[k].var
  BY OverrideParts
<1>2. \A k, l \in 1..n : LocalePairs[k].var = LocalePairs[l].var => k = l
  BY AddedLocale
<1>3. \A k, l \in 1..m : cfg.given[k].var = cfg.given[l].var => k = l
  BY GivenAssumption
<1>4. \A k \in 1..n, l \in 1..m : LocalePairs[k].var # cfg.given[l].var
  BY AddedLocale DEF NotGiven, Given
<1> HIDE DEF n, m
<1>5. ASSUME NEW k \in 1..n, NEW l \in (n + 1)..(n + m) PROVE Overrides[k].var # Overrides[l].var
  <2>1. l - n \in 1..m /\ n + (l - n) = l  BY <1>1, <1>5
  <2> QED  BY <1>1, <1>4, <2>1
<1>6. CASE i <= n /\ j <= n
  <2>1. i \in 1..n /\ j \in 1..n  BY <1>1, <1>6
  <2> QED  BY <1>1, <1>2, <2>1
<1>7. CASE i > n /\ j > n
  <2>1. i - n \in 1..m /\ j - n \in 1..m /\ n + (i - n) = i /\ n + (j - n) = j  BY <1>1, <1>7
  <2>2. Overrides[n + (i - n)].var = cfg.given[i - n].var  BY <1>1, <2>1
  <2>3. Overrides[n + (j - n)].var = cfg.given[j - n].var  BY <1>1, <2>1
  <2>4. cfg.given[i - n].var = cfg.given[j - n].var  BY <2>1, <2>2, <2>3
  <2>5. i - n = j - n  BY <1>3, <2>1, <2>4
  <2> QED  BY <1>1, <2>5
<1>8. CASE i <= n /\ j > n
  <2>1. i \in 1..n /\ j \in (n + 1)..(n + m)  BY <1>1, <1>8
  <2> QED  BY <1>5, <2>1
<1>9. CASE j <= n /\ i > n
  <2>1. j \in 1..n /\ i \in (n + 1)..(n + m)  BY <1>1, <1>9
  <2> QED  BY <1>5, <2>1
<1> QED  BY <1>1, <1>6, <1>7, <1>8, <1>9

\* The environment of the caller while the child is made with merge_environment,
\* and what the scoped_env objects have to put back.
Merged == [v \in Variable |-> AfterOverrides(Len(Overrides), v)]
Former == [i \in 1..Len(Overrides) |->
             [var |-> Overrides[i].var, old |-> AfterOverrides(i - 1, Overrides[i].var)]]

SameCall == /\ Merged' = Merged /\ Former' = Former /\ Block' = Block

LEMMA CallStays ==
  ASSUME cfg' = cfg
  PROVE  SameCall
BY DEF SameCall, Merged, Former, Block, AfterOverrides, Overrides, LocalePairs, GivenPairs,
       NotGiven, Given, Locale

\* The values that are put back are those from before the call.
LEMMA FormerIsRestored ==
  ASSUME cfg \in Configs, env = Merged, saved = Former,
         \A i \in 1..Len(cfg.given) : cfg.given[i].usual
  PROVE  [v \in Variable |-> IF SavedFor(v) = {} THEN env[v] ELSE saved[Max(SavedFor(v))].old]
           = cfg.before
<1> DEFINE n == Len(Overrides)
<1>1. n \in Nat  BY OverrideParts
<1>2. Len(saved) = n /\ \A i \in 1..n : /\ saved[i].var = Overrides[i].var
                                        /\ saved[i].old = AfterOverrides(i - 1, Overrides[i].var)
  <2> DEFINE e(i) == [var |-> Overrides[i].var, old |-> AfterOverrides(i - 1, Overrides[i].var)]
  <2>1. saved = [i \in 1..n |-> e(i)]  BY DEF Former
  <2> HIDE DEF e, n
  <2>2. Len(saved) = n /\ \A i \in 1..n : saved[i] = e(i)  BY <1>1, <2>1
  <2> QED  BY <2>2 DEF e
<1>3. cfg.before \in [Variable -> STRING]  BY ConfigFields
<1>4. ASSUME NEW v \in Variable
      PROVE  (IF SavedFor(v) = {} THEN env[v] ELSE saved[Max(SavedFor(v))].old) = cfg.before[v]
  <2>1. SavedFor(v) = {i \in 1..n : Overrides[i].var = v}  BY <1>2 DEF SavedFor
  <2>2. CASE SavedFor(v) = {}
    <3>1. env[v] = AfterOverrides(n, v)  BY DEF Merged
    <3>2. AfterOverrides(n, v) = cfg.before[v]  BY <2>1, <2>2 DEF AfterOverrides
    <3> QED  BY <2>2, <3>1, <3>2
  <2>3. CASE SavedFor(v) # {}
    <3> DEFINE m == Max(SavedFor(v))
    <3>1. SavedFor(v) \in SUBSET (1..n)  BY <2>1
    <3>2. m \in SavedFor(v)  BY <1>1, <2>3, <3>1, GreatestOf
    <3> HIDE DEF m
    <3>3. m \in 1..n /\ Overrides[m].var = v  BY <2>1, <3>2
    <3>4. saved[m].old = AfterOverrides(m - 1, v)  BY <1>2, <3>3
    <3>5. {i \in 1..(m - 1) : Overrides[i].var = v} = {}
      <4> SUFFICES ASSUME NEW i \in 1..(m - 1), Overrides[i].var = v PROVE FALSE  OBVIOUS
      <4>1. i \in 1..n /\ i # m  BY <1>1, <3>3
      <4> QED  BY <3>3, <4>1, DistinctOverrides
    <3>6. AfterOverrides(m - 1, v) = cfg.before[v]  BY <3>5 DEF AfterOverrides
    <3> QED  BY <2>3, <3>4, <3>6 DEF m
  <2> QED  BY <2>2, <2>3
<1> QED  BY <1>3, <1>4

\* What the child finds is what it was promised.
LEMMA MergedIsPromised ==
  ASSUME cfg \in Configs, cfg.merge, NEW v \in Variable
  PROVE  Merged[v] \in Promised(v)
<1> DEFINE n == Len(LocalePairs)
           m == Len(cfg.given)
           on == {i \in 1..Len(Overrides) : Overrides[i].var = v}
<1>1. /\ n \in Nat /\ m \in Nat /\ Len(Overrides) = n + m
      /\ \A k \in 1..n : Overrides[k] = LocalePairs[k]
      /\ \A k \in 1..m : /\ Overrides[n + k].var = cfg.given[k].var
                         /\ Overrides[n + k].value = cfg.given[k].value
  BY OverrideParts
<1>2. Merged[v] = IF on = {} THEN cfg.before[v] ELSE Overrides[Max(on)].value
  BY DEF Merged, AfterOverrides
<1>3. \A k \in Given(v) : n + k \in on /\ k \in 1..m
  BY <1>1 DEF Given
<1>4. CASE on = {}
  <2>1. Given(v) = {}  BY <1>3, <1>4
  <2>2. v # "PATH" => cfg.inherit
    <3> SUFFICES ASSUME v # "PATH", ~cfg.inherit PROVE FALSE  OBVIOUS
    <3>1. v \in {"LC_ALL", "LANG"} /\ NotGiven(v)  BY <2>1 DEF Variable, NotGiven
    <3>2. PICK k \in 1..n : LocalePairs[k].var = v  BY <3>1, AddedLocale
    <3>3. k \in 1..(n + m)  BY <1>1
    <3> QED  BY <1>1, <1>4, <3>2, <3>3
  <2> QED  BY <1>2, <1>4, <2>1, <2>2 DEF Promised
<1>5. CASE on # {}
  <2> DEFINE x == Max(on)
  <2>1. x \in on /\ \A o \in on : o <= x
    <3>1. on \in SUBSET (1..(n + m)) /\ n + m \in Nat  BY <1>1
    <3> HIDE DEF on, n, m
    <3> QED  BY <1>5, <3>1, GreatestOf
  <2>2. Merged[v] = Overrides[x].value  BY <1>2, <1>5
  <2>3. x \in 1..(n + m) /\ Overrides[x].var = v  BY <1>1, <2>1
  <2> HIDE DEF x
  <2>4. CASE x > n
    <3>1. x - n \in 1..m /\ n + (x - n) = x  BY <1>1, <2>3, <2>4
    <3>2. x - n \in Given(v) /\ Overrides[x].value = cfg.given[x - n].value
      BY <1>1, <2>3, <3>1 DEF Given
    <3> QED  BY <2>2, <3>2 DEF Promised
  <2>5. CASE x <= n
    <3>1. x \in 1..n  BY <1>1, <2>3, <2>5
    <3>2. Given(v) = {}
      <4> SUFFICES ASSUME NEW k \in Given(v) PROVE FALSE  OBVIOUS
      <4>1. n + k \in on /\ k \in 1..m  BY <1>3
      <4>2. n + k <= x  BY <2>1, <4>1
      <4> QED  BY <1>1, <2>5, <3>1, <4>1, <4>2
    <3>3. v # "PATH" /\ ~cfg.inherit /\ Overrides[x].value = "C"
      BY <1>1, <2>3, <3>1, AddedLocale
    <3> QED  BY <2>2, <3>2, <3>3 DEF Promised
  <2> QED  BY <1>1, <2>3, <2>4, <2>5
<1> QED  BY <1>4, <1>5

LEMMA BlockIsPromised ==
  ASSUME cfg \in Configs, ~cfg.merge, NEW v \in Variable
  PROVE  Block[v] \in Promised(v)
<1>1. Block[v] = IF Given(v) # {} THEN cfg.given[Min(Given(v))].value
                 ELSE IF v = "PATH" THEN Unset
                 ELSE IF cfg.inherit THEN cfg.before[v] ELSE "C"
  BY DEF Block
<1>2. CASE Given(v) # {}
  <2>1. Given(v) \in SUBSET Nat  BY DEF Given
  <2>2. Min(Given(v)) \in Given(v)  BY <1>2, <2>1, LeastOf
  <2> QED  BY <1>1, <1>2, <2>2 DEF Promised
<1>3. CASE Given(v) = {}
  BY <1>1, <1>3 DEF Promised
<1> QED  BY <1>2, <1>3

EnvInv ==
  /\ pc \in {"job_query", "which", "environment"} => env = cfg.before /\ saved = <<>>
  /\ pc # "done" => \/ env = cfg.before /\ saved = <<>>
                    \/ env = Merged /\ saved = Former
  /\ pc \in Early \ {"job_query", "which", "environment"} /\ cfg.merge => env = Merged
  /\ proc["child"] # "none" => childEnv = IF cfg.merge THEN Merged ELSE Block
  /\ pc \in {"restore", "done"} => held["parent"] = {}
  /\ pc = "done" /\ (\A i \in 1..Len(cfg.given) : cfg.given[i].usual) => env = cfg.before

LEMMA EnvKept ==
  ASSUME EnvInv, cfg' = cfg, SameCall, env' = env, saved' = saved, childEnv' = childEnv,
         proc'["child"] # "none" => proc["child"] # "none",
         pc' \in {"job_query", "which", "environment"} => pc \in {"job_query", "which",
                 "environment"},
         pc' \in Early \ {"job_query", "which", "environment"} =>
           pc \in Early \ {"job_query", "which", "environment"},
         pc' \in {"restore", "done"} => pc = pc' /\ held'["parent"] = held["parent"],
         pc = "done" => pc' = "done"
  PROVE  EnvInv'
BY DEF EnvInv, SameCall

LEMMA EnvStep == TypeInv /\ SeqInv /\ ProcInv /\ JobInv /\ ChildInv /\ EnvInv
        /\ [Next]_vars => EnvInv'
<1> SUFFICES ASSUME TypeInv, SeqInv, ProcInv, JobInv, ChildInv, EnvInv, [Next]_vars PROVE EnvInv'
  OBVIOUS
<1>k. cfg' = cfg => SameCall
  BY CallStays
<1>1. CASE SetEnvironment
  <2>1. /\ pc = "environment" /\ pc' = "stdin" /\ cfg' = cfg /\ proc' = proc
        /\ childEnv' = childEnv
        /\ IF cfg.merge THEN env' = Merged /\ saved' = Former ELSE env' = env /\ saved' = saved
    BY <1>1 DEF SetEnvironment, Goes, envVars, procVars, Merged, Former
  <2>2. proc["child"] = "none"  BY <2>1 DEF ChildInv, Early
  <2> QED  BY <2>1, <2>2, <1>k DEF EnvInv, SameCall
<1>2. CASE RestoreEnvironment
  <2>1. /\ pc = "restore" /\ pc' = "done" /\ cfg' = cfg /\ proc' = proc /\ held' = held
        /\ childEnv' = childEnv
        /\ env' = [v \in Variable |-> IF SavedFor(v) = {} THEN env[v]
                                      ELSE saved[Max(SavedFor(v))].old]
    BY <1>2 DEF RestoreEnvironment, Goes, envVars, procVars
  <2>2. cfg \in Configs  BY DEF TypeInv
  <2>3. CASE env = cfg.before /\ saved = <<>>
    <3>1. \A v \in Variable : SavedFor(v) = {}  BY <2>3 DEF SavedFor
    <3>2. cfg.before \in [Variable -> STRING]  BY <2>2, ConfigFields
    <3>3. env' = cfg.before  BY <2>1, <2>3, <3>1, <3>2
    <3> QED  BY <2>1, <3>3, <1>k DEF EnvInv, SameCall, Early
  <2>4. CASE env = Merged /\ saved = Former
    <3>1. (\A i \in 1..Len(cfg.given) : cfg.given[i].usual) => env' = cfg.before
      BY <2>1, <2>2, <2>4, FormerIsRestored
    <3> QED  BY <2>1, <3>1, <1>k DEF EnvInv, SameCall, Early
  <2> QED  BY <2>1, <2>3, <2>4 DEF EnvInv
<1>3. CASE QueryJob
  <2>1. cfg' = cfg /\ env' = env /\ saved' = saved /\ childEnv' = childEnv /\ proc' = proc
    BY <1>3 DEF QueryJob, envVars, procVars
  <2>2. /\ pc' \notin {"job_query", "environment", "restore", "done"} /\ pc # "done"
        /\ pc' = "which" => pc = "job_query"
        /\ pc' \in Early \ {"job_query", "which", "environment"} =>
             pc \in Early \ {"job_query", "which", "environment"}
    BY <1>3 DEF QueryJob, Early, Goes, GoesOrFails, Throw
  <2> QED  BY <2>1, <2>2, <1>k, EnvKept
<1>4. CASE Which
  <2>1. cfg' = cfg /\ env' = env /\ saved' = saved /\ childEnv' = childEnv /\ proc' = proc
    BY <1>4 DEF Which, envVars, procVars
  <2>2. /\ pc' \notin {"job_query", "which", "restore", "done"} /\ pc # "done"
        /\ pc' = "environment" => pc = "which"
        /\ pc' \in Early \ {"job_query", "which", "environment"} =>
             pc \in Early \ {"job_query", "which", "environment"}
    BY <1>4 DEF Which, Early, Goes, GoesOrFails, Throw
  <2> QED  BY <2>1, <2>2, <1>k, EnvKept
<1>5. ASSUME NEW s \in Stream, CreatePipe(s) PROVE EnvInv'
  <2>1. cfg' = cfg /\ env' = env /\ saved' = saved /\ childEnv' = childEnv /\ proc' = proc
    BY <1>5 DEF CreatePipe, envVars, procVars
  <2>2. /\ pc' \notin {"job_query", "environment", "restore", "done"} /\ pc # "done"
        /\ pc' = "which" => pc = "job_query"
        /\ pc' \in Early \ {"job_query", "which", "environment"} =>
             pc \in Early \ {"job_query", "which", "environment"}
    BY <1>5 DEF CreatePipe, Early, Goes, GoesOrFails, Throw, Stream, KeepStep
  <2> QED  BY <2>1, <2>2, <1>k, EnvKept
<1>6. ASSUME NEW s \in Stream, KeepEnd(s) PROVE EnvInv'
  <2>1. cfg' = cfg /\ env' = env /\ saved' = saved /\ childEnv' = childEnv /\ proc' = proc
    BY <1>6 DEF KeepEnd, envVars, procVars
  <2>2. /\ pc' \notin {"job_query", "environment", "restore", "done"} /\ pc # "done"
        /\ pc' = "which" => pc = "job_query"
        /\ pc' \in Early \ {"job_query", "which", "environment"} =>
             pc \in Early \ {"job_query", "which", "environment"}
    BY <1>6 DEF KeepEnd, Early, Goes, GoesOrFails, Throw, Stream, KeepStep, AfterPipe
  <2> QED  BY <2>1, <2>2, <1>k, EnvKept
<1>7. CASE RedirectStderr
  <2>1. cfg' = cfg /\ env' = env /\ saved' = saved /\ childEnv' = childEnv /\ proc' = proc
    BY <1>7 DEF RedirectStderr, envVars, procVars
  <2>2. /\ pc' \notin {"job_query", "environment", "restore", "done"} /\ pc # "done"
        /\ pc' = "which" => pc = "job_query"
        /\ pc' \in Early \ {"job_query", "which", "environment"} =>
             pc \in Early \ {"job_query", "which", "environment"}
    BY <1>7 DEF RedirectStderr, Early, Goes, GoesOrFails, Throw
  <2> QED  BY <2>1, <2>2, <1>k, EnvKept
<1>8. CASE CreateProcess
  <2>1. cfg' = cfg /\ env' = env /\ saved' = saved /\ pc = "create" /\ pc' \in {"release", "leave"}
    BY <1>8 DEF CreateProcess, Goes, Throw
  <2>2. \/ proc' = proc /\ childEnv' = childEnv
        \/ childEnv' = IF cfg.merge THEN env ELSE Block
    BY <1>8 DEF CreateProcess
  <2>3. cfg.merge => env = Merged  BY <2>1 DEF EnvInv, Early
  <2> QED  BY <2>1, <2>2, <2>3, <1>k DEF EnvInv, SameCall, Early
<1>9. CASE ReleaseUnused
  <2>1. cfg' = cfg /\ env' = env /\ saved' = saved /\ childEnv' = childEnv /\ proc' = proc
    BY <1>9 DEF ReleaseUnused, envVars, procVars
  <2>2. /\ pc' \notin {"job_query", "environment", "restore", "done"} /\ pc # "done"
        /\ pc' = "which" => pc = "job_query"
        /\ pc' \in Early \ {"job_query", "which", "environment"} =>
             pc \in Early \ {"job_query", "which", "environment"}
    BY <1>9 DEF ReleaseUnused, Early, Goes, GoesOrFails, Throw
  <2> QED  BY <2>1, <2>2, <1>k, EnvKept
<1>10. CASE AssignToJob
  <2>1. cfg' = cfg /\ env' = env /\ saved' = saved /\ childEnv' = childEnv /\ proc' = proc
    BY <1>10 DEF AssignToJob, envVars, procVars
  <2>2. /\ pc' \notin {"job_query", "environment", "restore", "done"} /\ pc # "done"
        /\ pc' = "which" => pc = "job_query"
        /\ pc' \in Early \ {"job_query", "which", "environment"} =>
             pc \in Early \ {"job_query", "which", "environment"}
    BY <1>10 DEF AssignToJob, Early, Goes, GoesOrFails, Throw
  <2> QED  BY <2>1, <2>2, <1>k, EnvKept
<1>11. CASE SetTimer
  <2>1. cfg' = cfg /\ env' = env /\ saved' = saved /\ childEnv' = childEnv /\ proc' = proc
    BY <1>11 DEF SetTimer, envVars, procVars
  <2>2. /\ pc' \notin {"job_query", "environment", "restore", "done"} /\ pc # "done"
        /\ pc' = "which" => pc = "job_query"
        /\ pc' \in Early \ {"job_query", "which", "environment"} =>
             pc \in Early \ {"job_query", "which", "environment"}
    BY <1>11 DEF SetTimer, Early, Goes, GoesOrFails, Throw
  <2> QED  BY <2>1, <2>2, <1>k, EnvKept
<1>12. CASE PidCallback
  <2>1. cfg' = cfg /\ env' = env /\ saved' = saved /\ childEnv' = childEnv /\ proc' = proc
    BY <1>12 DEF PidCallback, envVars, procVars
  <2>2. /\ pc' \notin {"job_query", "environment", "restore", "done"} /\ pc # "done"
        /\ pc' = "which" => pc = "job_query"
        /\ pc' \in Early \ {"job_query", "which", "environment"} =>
             pc \in Early \ {"job_query", "which", "environment"}
    BY <1>12 DEF PidCallback, Early, Goes, GoesOrFails, Throw
  <2> QED  BY <2>1, <2>2, <1>k, EnvKept
<1>13. CASE CreateEvents
  <2>1. cfg' = cfg /\ env' = env /\ saved' = saved /\ childEnv' = childEnv /\ proc' = proc
    BY <1>13 DEF CreateEvents, envVars, procVars
  <2>2. /\ pc' \notin {"job_query", "environment", "restore", "done"} /\ pc # "done"
        /\ pc' = "which" => pc = "job_query"
        /\ pc' \in Early \ {"job_query", "which", "environment"} =>
             pc \in Early \ {"job_query", "which", "environment"}
    BY <1>13 DEF CreateEvents, Early, Goes, GoesOrFails, Throw
  <2> QED  BY <2>1, <2>2, <1>k, EnvKept
<1>14. CASE Skip
  <2>1. cfg' = cfg /\ env' = env /\ saved' = saved /\ childEnv' = childEnv /\ proc' = proc
    BY <1>14 DEF Skip, envVars, procVars
  <2>2. /\ pc' \notin {"job_query", "environment", "restore", "done"} /\ pc # "done"
        /\ pc' = "which" => pc = "job_query"
        /\ pc' \in Early \ {"job_query", "which", "environment"} =>
             pc \in Early \ {"job_query", "which", "environment"}
    BY <1>14 DEF Skip, Early, Goes, GoesOrFails, Throw, Due, Acting, LeaveStreams,
       ThrowFromStreams, CloseAndAdvance, Advance, Process, Rescan
  <2> QED  BY <2>1, <2>2, <1>k, EnvKept
<1>15. CASE ScanTimesOut
  <2>1. cfg' = cfg /\ env' = env /\ saved' = saved /\ childEnv' = childEnv /\ proc' = proc
    BY <1>15 DEF ScanTimesOut, envVars, procVars
  <2>2. /\ pc' \notin {"job_query", "environment", "restore", "done"} /\ pc # "done"
        /\ pc' = "which" => pc = "job_query"
        /\ pc' \in Early \ {"job_query", "which", "environment"} =>
             pc \in Early \ {"job_query", "which", "environment"}
    BY <1>15 DEF ScanTimesOut, Early, Goes, GoesOrFails, Throw, Due, Acting, LeaveStreams,
       ThrowFromStreams, CloseAndAdvance, Advance, Process, Rescan
  <2> QED  BY <2>1, <2>2, <1>k, EnvKept
<1>16. CASE ReadNow
  <2>1. cfg' = cfg /\ env' = env /\ saved' = saved /\ childEnv' = childEnv /\ proc' = proc
    BY <1>16 DEF ReadNow, envVars, procVars
  <2>2. /\ pc' \notin {"job_query", "environment", "restore", "done"} /\ pc # "done"
        /\ pc' = "which" => pc = "job_query"
        /\ pc' \in Early \ {"job_query", "which", "environment"} =>
             pc \in Early \ {"job_query", "which", "environment"}
    BY <1>16 DEF ReadNow, Early, Goes, GoesOrFails, Throw, Due, Acting, LeaveStreams,
       ThrowFromStreams, CloseAndAdvance, Advance, Process, Rescan
  <2> QED  BY <2>1, <2>2, <1>k, EnvKept
<1>17. CASE ReadPends
  <2>1. cfg' = cfg /\ env' = env /\ saved' = saved /\ childEnv' = childEnv /\ proc' = proc
    BY <1>17 DEF ReadPends, envVars, procVars
  <2>2. /\ pc' \notin {"job_query", "environment", "restore", "done"} /\ pc # "done"
        /\ pc' = "which" => pc = "job_query"
        /\ pc' \in Early \ {"job_query", "which", "environment"} =>
             pc \in Early \ {"job_query", "which", "environment"}
    BY <1>17 DEF ReadPends, Early, Goes, GoesOrFails, Throw, Due, Acting, LeaveStreams,
       ThrowFromStreams, CloseAndAdvance, Advance, Process, Rescan
  <2> QED  BY <2>1, <2>2, <1>k, EnvKept
<1>18. CASE ReadClosed
  <2>1. cfg' = cfg /\ env' = env /\ saved' = saved /\ childEnv' = childEnv /\ proc' = proc
    BY <1>18 DEF ReadClosed, envVars, procVars
  <2>2. /\ pc' \notin {"job_query", "environment", "restore", "done"} /\ pc # "done"
        /\ pc' = "which" => pc = "job_query"
        /\ pc' \in Early \ {"job_query", "which", "environment"} =>
             pc \in Early \ {"job_query", "which", "environment"}
    BY <1>18 DEF ReadClosed, Early, Goes, GoesOrFails, Throw, Due, Acting, LeaveStreams,
       ThrowFromStreams, CloseAndAdvance, Advance, Process, Rescan
  <2> QED  BY <2>1, <2>2, <1>k, EnvKept
<1>19. CASE BeginWrite
  <2>1. cfg' = cfg /\ env' = env /\ saved' = saved /\ childEnv' = childEnv /\ proc' = proc
    BY <1>19 DEF BeginWrite, envVars, procVars
  <2>2. /\ pc' \notin {"job_query", "environment", "restore", "done"} /\ pc # "done"
        /\ pc' = "which" => pc = "job_query"
        /\ pc' \in Early \ {"job_query", "which", "environment"} =>
             pc \in Early \ {"job_query", "which", "environment"}
    BY <1>19 DEF BeginWrite, Early, Goes, GoesOrFails, Throw, Due, Acting, LeaveStreams,
       ThrowFromStreams, CloseAndAdvance, Advance, Process, Rescan
  <2> QED  BY <2>1, <2>2, <1>k, EnvKept
<1>20. CASE WriteSome
  <2>1. cfg' = cfg /\ env' = env /\ saved' = saved /\ childEnv' = childEnv /\ proc' = proc
    BY <1>20 DEF WriteSome, envVars, procVars
  <2>2. /\ pc' \notin {"job_query", "environment", "restore", "done"} /\ pc # "done"
        /\ pc' = "which" => pc = "job_query"
        /\ pc' \in Early \ {"job_query", "which", "environment"} =>
             pc \in Early \ {"job_query", "which", "environment"}
    BY <1>20 DEF WriteSome, Early, Goes, GoesOrFails, Throw, Due, Acting, LeaveStreams,
       ThrowFromStreams, CloseAndAdvance, Advance, Process, Rescan
  <2> QED  BY <2>1, <2>2, <1>k, EnvKept
<1>21. CASE WriteBroken
  <2>1. cfg' = cfg /\ env' = env /\ saved' = saved /\ childEnv' = childEnv /\ proc' = proc
    BY <1>21 DEF WriteBroken, envVars, procVars
  <2>2. /\ pc' \notin {"job_query", "environment", "restore", "done"} /\ pc # "done"
        /\ pc' = "which" => pc = "job_query"
        /\ pc' \in Early \ {"job_query", "which", "environment"} =>
             pc \in Early \ {"job_query", "which", "environment"}
    BY <1>21 DEF WriteBroken, Early, Goes, GoesOrFails, Throw, Due, Acting, LeaveStreams,
       ThrowFromStreams, CloseAndAdvance, Advance, Process, Rescan
  <2> QED  BY <2>1, <2>2, <1>k, EnvKept
<1>22. CASE ScanEnds
  <2>1. cfg' = cfg /\ env' = env /\ saved' = saved /\ childEnv' = childEnv /\ proc' = proc
    BY <1>22 DEF ScanEnds, envVars, procVars
  <2>2. /\ pc' \notin {"job_query", "environment", "restore", "done"} /\ pc # "done"
        /\ pc' = "which" => pc = "job_query"
        /\ pc' \in Early \ {"job_query", "which", "environment"} =>
             pc \in Early \ {"job_query", "which", "environment"}
    BY <1>22 DEF ScanEnds, Early, Goes, GoesOrFails, Throw, Due, Acting, LeaveStreams,
       ThrowFromStreams, CloseAndAdvance, Advance, Process, Rescan
  <2> QED  BY <2>1, <2>2, <1>k, EnvKept
<1>23. ASSUME NEW s \in Output, Complete(s) PROVE EnvInv'
  <2>1. cfg' = cfg /\ env' = env /\ saved' = saved /\ childEnv' = childEnv /\ proc' = proc
    BY <1>23 DEF Complete, envVars, procVars
  <2>2. /\ pc' \notin {"job_query", "environment", "restore", "done"} /\ pc # "done"
        /\ pc' = "which" => pc = "job_query"
        /\ pc' \in Early \ {"job_query", "which", "environment"} =>
             pc \in Early \ {"job_query", "which", "environment"}
    BY <1>23 DEF Complete, Early, Goes, GoesOrFails, Throw, Due, Acting, LeaveStreams,
       ThrowFromStreams, CloseAndAdvance, Advance, Process, Rescan
  <2> QED  BY <2>1, <2>2, <1>k, EnvKept
<1>24. CASE WaitTimesOut
  <2>1. cfg' = cfg /\ env' = env /\ saved' = saved /\ childEnv' = childEnv /\ proc' = proc
    BY <1>24 DEF WaitTimesOut, envVars, procVars
  <2>2. /\ pc' \notin {"job_query", "environment", "restore", "done"} /\ pc # "done"
        /\ pc' = "which" => pc = "job_query"
        /\ pc' \in Early \ {"job_query", "which", "environment"} =>
             pc \in Early \ {"job_query", "which", "environment"}
    BY <1>24 DEF WaitTimesOut, Early, Goes, GoesOrFails, Throw, Due, Acting, LeaveStreams,
       ThrowFromStreams, CloseAndAdvance, Advance, Process, Rescan
  <2> QED  BY <2>1, <2>2, <1>k, EnvKept
<1>25. CASE IoFails
  <2>1. cfg' = cfg /\ env' = env /\ saved' = saved /\ childEnv' = childEnv /\ proc' = proc
    BY <1>25 DEF IoFails, envVars, procVars
  <2>2. /\ pc' \notin {"job_query", "environment", "restore", "done"} /\ pc # "done"
        /\ pc' = "which" => pc = "job_query"
        /\ pc' \in Early \ {"job_query", "which", "environment"} =>
             pc \in Early \ {"job_query", "which", "environment"}
    BY <1>25 DEF IoFails, Early, Goes, GoesOrFails, Throw, Due, Acting, LeaveStreams,
       ThrowFromStreams, CloseAndAdvance, Advance, Process, Rescan
  <2> QED  BY <2>1, <2>2, <1>k, EnvKept
<1>26. CASE Flush
  <2>1. cfg' = cfg /\ env' = env /\ saved' = saved /\ childEnv' = childEnv /\ proc' = proc
    BY <1>26 DEF Flush, envVars, procVars
  <2>2. /\ pc' \notin {"job_query", "environment", "restore", "done"} /\ pc # "done"
        /\ pc' = "which" => pc = "job_query"
        /\ pc' \in Early \ {"job_query", "which", "environment"} =>
             pc \in Early \ {"job_query", "which", "environment"}
    BY <1>26 DEF Flush, Early, Goes, GoesOrFails, Throw
  <2> QED  BY <2>1, <2>2, <1>k, EnvKept
<1>27. CASE ProcessEnded
  <2>1. cfg' = cfg /\ env' = env /\ saved' = saved /\ childEnv' = childEnv /\ proc' = proc
    BY <1>27 DEF ProcessEnded, envVars, procVars
  <2>2. /\ pc' \notin {"job_query", "environment", "restore", "done"} /\ pc # "done"
        /\ pc' = "which" => pc = "job_query"
        /\ pc' \in Early \ {"job_query", "which", "environment"} =>
             pc \in Early \ {"job_query", "which", "environment"}
    BY <1>27 DEF ProcessEnded, Early, Goes, GoesOrFails, Throw
  <2> QED  BY <2>1, <2>2, <1>k, EnvKept
<1>28. CASE ProcessTimesOut
  <2>1. cfg' = cfg /\ env' = env /\ saved' = saved /\ childEnv' = childEnv /\ proc' = proc
    BY <1>28 DEF ProcessTimesOut, envVars, procVars
  <2>2. /\ pc' \notin {"job_query", "environment", "restore", "done"} /\ pc # "done"
        /\ pc' = "which" => pc = "job_query"
        /\ pc' \in Early \ {"job_query", "which", "environment"} =>
             pc \in Early \ {"job_query", "which", "environment"}
    BY <1>28 DEF ProcessTimesOut, Early, Goes, GoesOrFails, Throw
  <2> QED  BY <2>1, <2>2, <1>k, EnvKept
<1>29. CASE WaitFails
  <2>1. cfg' = cfg /\ env' = env /\ saved' = saved /\ childEnv' = childEnv /\ proc' = proc
    BY <1>29 DEF WaitFails, envVars, procVars
  <2>2. /\ pc' \notin {"job_query", "environment", "restore", "done"} /\ pc # "done"
        /\ pc' = "which" => pc = "job_query"
        /\ pc' \in Early \ {"job_query", "which", "environment"} =>
             pc \in Early \ {"job_query", "which", "environment"}
    BY <1>29 DEF WaitFails, Early, Goes, GoesOrFails, Throw
  <2> QED  BY <2>1, <2>2, <1>k, EnvKept
<1>30. CASE ExitCode
  <2>1. cfg' = cfg /\ env' = env /\ saved' = saved /\ childEnv' = childEnv /\ proc' = proc
    BY <1>30 DEF ExitCode, envVars, procVars
  <2>2. /\ pc' \notin {"job_query", "environment", "restore", "done"} /\ pc # "done"
        /\ pc' = "which" => pc = "job_query"
        /\ pc' \in Early \ {"job_query", "which", "environment"} =>
             pc \in Early \ {"job_query", "which", "environment"}
    BY <1>30 DEF ExitCode, Early, Goes, GoesOrFails, Throw
  <2> QED  BY <2>1, <2>2, <1>k, EnvKept
<1>31. CASE Leave
  <2>1. /\ cfg' = cfg /\ env' = env /\ saved' = saved /\ childEnv' = childEnv
        /\ pc = "leave" /\ pc' = "close"
    BY <1>31 DEF Leave, envVars, Goes
  <2> DEFINE procs == IF Terminates THEN job ELSE {}
  <2>2. proc' = [p \in Other |-> IF p \in procs THEN "dead" ELSE proc[p]]  BY <1>31 DEF Leave, End
  <2>3. "child" \in procs => "child" \in job  OBVIOUS
  <2> HIDE DEF procs
  <2>4. proc'["child"] # "none" => proc["child"] # "none"
    BY <2>2, <2>3, ProcNames DEF JobInv
  <2> QED  BY <2>1, <2>4, <1>k, EnvKept DEF Early
<1>32. CASE CloseHandles
  <2>1. /\ cfg' = cfg /\ env' = env /\ saved' = saved /\ childEnv' = childEnv /\ proc' = proc
        /\ pc = "close" /\ pc' = "restore" /\ ParentCloses(Handle)
    BY <1>32 DEF CloseHandles, envVars, procVars, Goes
  <2>2. held'["parent"] = {}  BY <2>1, ProcNames DEF ParentCloses, ProcInv
  <2> QED  BY <2>1, <2>2, <1>k DEF EnvInv, SameCall, Early
<1>33. CASE TimerExpires
  <2>1. /\ cfg' = cfg /\ env' = env /\ saved' = saved /\ childEnv' = childEnv /\ proc' = proc
        /\ pc' = pc /\ held' = held
    BY <1>33 DEF TimerExpires, envVars, procVars
  <2> QED  BY <2>1, <1>k, EnvKept
<1>34. CASE World
  <2>1. /\ cfg' = cfg /\ env' = env /\ saved' = saved /\ childEnv' = childEnv /\ pc' = pc
        /\ held'["parent"] = held["parent"]
    BY <1>34, WorldSteps, WorldParent
  <2>2. proc'["child"] # "none" => proc["child"] # "none"
    BY <1>34, ProcNames
    DEF World, Spawn, StrangerStarts, ProcessEnds, ProgramReads, ProgramCloses, ProgramWrites,
        ProgramWritesNothing, Transfers, procVars, ProcInv
  <2> QED  BY <2>1, <2>2, <1>k, EnvKept
<1>35. CASE Over \/ UNCHANGED vars
  <2>1. /\ cfg' = cfg /\ env' = env /\ saved' = saved /\ childEnv' = childEnv /\ proc' = proc
        /\ pc' = pc /\ held' = held
    BY <1>35, OverSteps
  <2> QED  BY <2>1, <1>k, EnvKept
<1>36. CASE TerminationFails
  BY <1>36, TerminationSteps, <1>k, EnvKept DEF Early
<1> QED
  BY <1>1, <1>2, <1>3, <1>4, <1>5, <1>6, <1>7, <1>8, <1>9, <1>10, <1>11, <1>12, <1>13,
  <1>14, <1>15, <1>16, <1>17, <1>18, <1>19, <1>20, <1>21, <1>22, <1>23, <1>24, <1>25,
  <1>26, <1>27, <1>28, <1>29, <1>30, <1>31, <1>32, <1>33, <1>34, <1>35, <1>36
  DEF Next, Parent

-----------------------------------------------------------------------------
(* The invariant.                                                          *)

WindowsInv ==
  TypeInv /\ SeqInv /\ ProcInv /\ JobInv /\ ChildInv /\ ScanInv /\ DrainInv /\ EnvInv

LEMMA WindowsInit == Init => WindowsInv
<1> SUFFICES ASSUME Init PROVE WindowsInv
  OBVIOUS
<1>1. TypeInv
  <2>1. cfg \in Config  BY ConfigAssumption DEF Init
  <2>2. cfg.input \in Nat \cup {-1}  BY <2>1 DEF Config, NoInput
  <2>3. \E y \in {cfg.input, 0} : \A z \in {cfg.input, 0} : y >= z
    <3>1. CASE cfg.input \in Nat  BY <3>1
    <3>2. CASE cfg.input = -1  BY <3>2
    <3> QED  BY <2>2, <3>1, <3>2
  <2>4. Max({cfg.input, 0}) \in {cfg.input, 0} /\ Max({cfg.input, 0}) >= 0
    BY <2>3 DEF Max
  <2>5. left \in Nat  BY <2>2, <2>4 DEF Init
  <2> QED  BY <2>5 DEF Init, TypeInv, Point
<1>2. SeqInv  BY DEF Init, SeqInv, Starting, Streaming, Ending
<1>3. ProcInv  BY BoundAssumption DEF Init, ProcInv
<1>4. JobInv /\ ChildInv  BY ProcNames DEF Init, JobInv, ChildInv, Early, Ending
<1>5. ScanInv  BY DEF Init, ScanInv, Streaming
<1>6. DrainInv
  BY ProcNames DEF Init, DrainInv, Drained, SeemsClosed, HasWriter, Normal, Pending
<1>7. EnvInv  BY ProcNames DEF Init, EnvInv, Early
<1> QED  BY <1>1, <1>2, <1>3, <1>4, <1>5, <1>6, <1>7 DEF WindowsInv

\* The invariant holds in every state of every call.
THEOREM WindowsInvariant == Spec => []WindowsInv
<1>1. WindowsInv /\ [Next]_vars => WindowsInv'
  BY TypeStep, SeqStep, ProcStep, JobStep, ChildStep, ScanStep, DrainStep, EnvStep DEF WindowsInv
<1> QED  BY WindowsInit, <1>1, PTL DEF Spec

\* What a call ends with is an outcome.
LEMMA OutcomeType ==
  ASSUME SeqInv, ChildInv
  PROVE  /\ outcome \in [kind : {"pending", "result", "child_exit", "execution", "timeout",
                                 "callback"}, ok : BOOLEAN, code : Int]
         /\ fate \in [kind : {"none", "exit"}, code : Int]
<1> DEFINE O == [kind : {"pending", "result", "child_exit", "execution", "timeout", "callback"},
                 ok : BOOLEAN, code : Int]
<1>1. \A f \in [kind : {"none", "exit"}, code : Int] : Promise!Reports(f) \subseteq O
  <2> TAKE f \in [kind : {"none", "exit"}, code : Int]
  <2> DEFINE b == f = [kind |-> "exit", code |-> 0]
  <2>1. f.code \in Int /\ f.kind # "signal" /\ b \in BOOLEAN  OBVIOUS
  <2>2. Promise!Reports(f) \subseteq {[kind |-> "result", ok |-> b, code |-> f.code],
                                      [kind |-> "child_exit", ok |-> FALSE, code |-> f.code]}
    BY <2>1 DEF Promise!Reports
  <2> HIDE DEF b
  <2>3. [kind |-> "result", ok |-> b, code |-> f.code] \in O
    BY <2>1
  <2>4. [kind |-> "child_exit", ok |-> FALSE, code |-> f.code] \in O
    BY <2>1
  <2> QED  BY <2>2, <2>3, <2>4
<1>2. fate \in [kind : {"none", "exit"}, code : Int]
  <2>1. CASE proc["child"] = "dead"
    <3>1. fate \in Fates  BY <2>1 DEF ChildInv
    <3> QED  BY <3>1, FateFields DEF Exited
  <2>2. CASE proc["child"] # "dead"
    BY <2>2 DEF ChildInv, NoFate
  <2> QED  BY <2>1, <2>2
<1>3. Promise!NotFound \subseteq O
  <2>1. [kind |-> "exit", code |-> 127] \in [kind : {"none", "exit"}, code : Int]  OBVIOUS
  <2> QED  BY <1>1, <2>1 DEF Promise!NotFound
<1>4. Failures \subseteq O  BY DEF Failures, Thrown
<1>5. Pending \in O  BY DEF Pending
<1> HIDE DEF O
<1>6. outcome \in O
  BY <1>1, <1>2, <1>3, <1>4, <1>5 DEF SeqInv, ChildInv, Told
<1> QED  BY <1>2, <1>6 DEF O

\* The pipes: nothing that the child writes is missed, neither while the parent
\* waits nor in the end, on a pipe to which nobody wrote no bytes.
THEOREM StreamsAreSound == Spec => []StreamsSound
<1>1. WindowsInv => StreamsSound
  <2> SUFFICES ASSUME WindowsInv PROVE StreamsSound
    OBVIOUS
  <2>1. TypeOK
    BY OutcomeType DEF WindowsInv, TypeInv, ProcInv, TypeOK, CallOK, ProcessOK
  <2>2. AllPending
    BY DEF WindowsInv, SeqInv, ScanInv, Streaming, AllPending
  <2>3. OutputComplete
    BY DEF WindowsInv, DrainInv, Drained, SeemsClosed, OutputComplete
  <2> QED  BY <2>1, <2>2, <2>3 DEF StreamsSound
<1> QED  BY <1>1, WindowsInvariant, PTL

LEMMA FailureKinds ==
  outcome \in Failures => Failed
BY DEF Failures, Failed, Thrown

\* A call that throws leaves nothing of its job running, unless TerminateJobObject
\* failed; a call that reports the
\* end of the child stops nobody.
THEOREM JobIsSound == Spec => JobSound
<1>1. WindowsInv => JobTerminated
  BY DEF WindowsInv, JobInv, JobTerminated
<1>2. WindowsInv /\ [Next]_vars => SparesJob
  <2> SUFFICES ASSUME WindowsInv, [Next]_vars, pc = "leave", pc' # pc, proc' # proc PROVE Failed
    BY DEF SparesJob
  <2>1. Leave
    BY OverSteps, WorldSteps, ProcNames
    DEF Next, Parent, SetEnvironment, RestoreEnvironment, QueryJob, Which, CreatePipe, KeepEnd,
        RedirectStderr, CreateProcess, ReleaseUnused, AssignToJob, SetTimer, PidCallback,
        CreateEvents, Skip, ScanTimesOut, ReadNow, ReadPends, ReadClosed, BeginWrite, WriteSome,
        WriteBroken, ScanEnds, Complete, WaitTimesOut, IoFails, Flush, ProcessEnded,
        ProcessTimesOut, WaitFails, ExitCode, CloseHandles, TimerExpires, TerminationFails,
        procVars, Due, Acting, KeepStep
  <2>2. CASE reaper = "armed"
    BY <2>2, FailureKinds DEF WindowsInv, SeqInv, Ending
  <2>3. CASE reaper # "armed"
    <3>1. proc' = [p \in Other |-> proc[p]]  BY <2>1, <2>3 DEF Leave, Terminates, End
    <3>2. proc' = proc  BY <3>1 DEF WindowsInv, ProcInv
    <3> QED  BY <3>2
  <2> QED  BY <2>2, <2>3
<1> QED  BY <1>1, <1>2, WindowsInvariant, PTL DEF Spec, JobSound

\* The child finds the environment it was promised, and the caller has its own
\* again afterwards, and no handle more than before.
THEOREM EnvironmentIsSound == Spec => []EnvironmentSound
<1>1. WindowsInv => EnvironmentSound
  <2> SUFFICES ASSUME WindowsInv PROVE EnvironmentSound
    OBVIOUS
  <2>1. cfg \in Configs  BY DEF WindowsInv, TypeInv
  <2>2. ChildEnvironment
    <3> SUFFICES ASSUME proc["child"] # "none", NEW v \in Variable
                 PROVE  childEnv[v] \in Promised(v)
      BY DEF ChildEnvironment
    <3>1. childEnv = IF cfg.merge THEN Merged ELSE Block  BY DEF WindowsInv, EnvInv
    <3> QED  BY <2>1, <3>1, MergedIsPromised, BlockIsPromised
  <2>3. LeavesNothing  BY DEF WindowsInv, EnvInv, LeavesNothing
  <2> QED  BY <2>2, <2>3 DEF EnvironmentSound
<1> QED  BY <1>1, WindowsInvariant, PTL

-----------------------------------------------------------------------------
(* A call keeps the promises of Command.                                   *)

\* A step that the caller of execute() does not see.
LEMMA Unseen ==
  ASSUME proc'["child"] = proc["child"], fate' = fate, pc' # "done", pc # "done",
         (reaper = "off") = (reaper' = "off")
  PROVE  UNCHANGED Promise!vars
BY DEF Promise!vars, ChildState, Shown

LEMMA PromiseStep ==
  ASSUME WindowsInv, WindowsInv', [Next]_vars
  PROVE  [Promise!Next]_(Promise!vars)
<1>i. TypeInv /\ SeqInv /\ ProcInv /\ JobInv /\ ChildInv
  BY DEF WindowsInv
<1>p. Pending = Promise!Pending
  BY DEF Pending, Promise!Pending
<1>1. CASE SetEnvironment
  <2>1. proc' = proc /\ fate' = fate /\ reaper' = reaper
    BY <1>1 DEF SetEnvironment, procVars, callVars
  <2>2. pc' # "done" /\ pc # "done"
    BY <1>1 DEF SetEnvironment, Goes, GoesOrFails, Throw
  <2> QED  BY <2>1, <2>2, Unseen
<1>2. CASE RestoreEnvironment
  <2>1. /\ proc' = proc /\ fate' = fate /\ reaper' = reaper /\ outcome' = outcome
        /\ pc = "restore" /\ pc' = "done"
    BY <1>2 DEF RestoreEnvironment, procVars, callVars, Goes
  <2>2. Shown = Promise!Pending /\ Shown' = outcome /\ ChildState' = ChildState
    BY <1>p, <2>1 DEF Shown, ChildState
  <2>3. Told  BY <1>i, <2>1 DEF ChildInv, Ending
  <2>4. CASE outcome \in Promise!Reports(fate) /\ reaper = "off"
    <3>1. ChildState = "collected"  BY <1>i, <2>4 DEF ChildInv, ChildState
    <3> QED  BY <2>1, <2>2, <2>4, <3>1 DEF Promise!Next, Promise!Report
  <2>5. CASE outcome \in Promise!NotFound /\ proc["child"] = "none"
    <3>1. ChildState = "none"  BY <2>5 DEF ChildState
    <3> QED  BY <2>1, <2>2, <2>5, <3>1 DEF Promise!Next, Promise!Report
  <2>6. CASE outcome \in Failures
    <3>1. outcome \in {[kind |-> k, ok |-> FALSE, code |-> 0] : k \in {"execution", "timeout",
            "callback"}}
      BY <2>6 DEF Failures, Thrown
    <3> QED  BY <2>1, <2>2, <3>1 DEF Promise!Next, Promise!Fail
  <2> QED  BY <2>3, <2>4, <2>5, <2>6 DEF Told
<1>3. CASE QueryJob
  <2>1. proc' = proc /\ fate' = fate /\ reaper' = reaper  BY <1>3 DEF QueryJob, procVars, callVars
  <2>2. pc' # "done" /\ pc # "done"
    BY <1>3 DEF QueryJob, Goes, GoesOrFails, Throw
  <2> QED  BY <2>1, <2>2, Unseen
<1>4. CASE Which
  <2>1. proc' = proc /\ fate' = fate /\ reaper' = reaper  BY <1>4 DEF Which, procVars, callVars
  <2>2. pc' # "done" /\ pc # "done"
    BY <1>4 DEF Which, Goes, GoesOrFails, Throw
  <2> QED  BY <2>1, <2>2, Unseen
<1>5. ASSUME NEW s \in Stream, CreatePipe(s) PROVE [Promise!Next]_(Promise!vars)
  <2>1. proc' = proc /\ fate' = fate /\ reaper' = reaper  BY <1>5 DEF CreatePipe, procVars, callVars
  <2>2. pc' # "done" /\ pc # "done"
    BY <1>5 DEF CreatePipe, Goes, GoesOrFails, Throw, Stream, KeepStep
  <2> QED  BY <2>1, <2>2, Unseen
<1>6. ASSUME NEW s \in Stream, KeepEnd(s) PROVE [Promise!Next]_(Promise!vars)
  <2>1. proc' = proc /\ fate' = fate /\ reaper' = reaper  BY <1>6 DEF KeepEnd, procVars, callVars
  <2>2. pc' # "done" /\ pc # "done"
    BY <1>6 DEF KeepEnd, Goes, GoesOrFails, Throw, Stream, KeepStep, AfterPipe
  <2> QED  BY <2>1, <2>2, Unseen
<1>7. CASE RedirectStderr
  <2>1. proc' = proc /\ fate' = fate /\ reaper' = reaper
    BY <1>7 DEF RedirectStderr, procVars, callVars
  <2>2. pc' # "done" /\ pc # "done"
    BY <1>7 DEF RedirectStderr, Goes, GoesOrFails, Throw
  <2> QED  BY <2>1, <2>2, Unseen
<1>8. CASE CreateProcess
  <2>1. fate' = fate /\ reaper' = reaper /\ pc = "create" /\ pc' \in {"release", "leave"}
    BY <1>8 DEF CreateProcess, callVars, Goes, Throw
  <2>2. CASE proc' = proc  BY <2>1, <2>2, Unseen
  <2>3. CASE proc' = [proc EXCEPT !["child"] = "running"]
    <3>1. proc'["child"] = "running"  BY <1>i, <2>3, ProcNames DEF ProcInv
    <3>2. proc["child"] = "none"  BY <1>i, <2>1 DEF ChildInv, Early
    <3>3. ChildState = "none" /\ ChildState' = "alive"  BY <3>1, <3>2 DEF ChildState
    <3>4. Shown = Pending /\ Shown' = Pending  BY <2>1 DEF Shown, Pending
    <3> QED  BY <1>p, <2>1, <3>3, <3>4 DEF Promise!Next, Promise!Create
  <2> QED  BY <1>8, <2>2, <2>3 DEF CreateProcess
<1>9. CASE ReleaseUnused
  <2>1. proc' = proc /\ fate' = fate /\ reaper' = reaper
    BY <1>9 DEF ReleaseUnused, procVars, callVars
  <2>2. pc' # "done" /\ pc # "done"
    BY <1>9 DEF ReleaseUnused, Goes, GoesOrFails, Throw
  <2> QED  BY <2>1, <2>2, Unseen
<1>10. CASE AssignToJob
  <2>1. proc' = proc /\ fate' = fate /\ reaper # "off" /\ reaper' # "off"
    BY <1>10, <1>i DEF AssignToJob, SeqInv
  <2>2. pc' # "done" /\ pc # "done"
    BY <1>10 DEF AssignToJob, Goes, Throw
  <2> QED  BY <2>1, <2>2, Unseen
<1>11. CASE SetTimer
  <2>1. proc' = proc /\ fate' = fate /\ reaper' = reaper  BY <1>11 DEF SetTimer, procVars, callVars
  <2>2. pc' # "done" /\ pc # "done"
    BY <1>11 DEF SetTimer, Goes, GoesOrFails, Throw
  <2> QED  BY <2>1, <2>2, Unseen
<1>12. CASE PidCallback
  <2>1. proc' = proc /\ fate' = fate /\ reaper' = reaper
    BY <1>12 DEF PidCallback, procVars, callVars
  <2>2. pc' # "done" /\ pc # "done"
    BY <1>12 DEF PidCallback, Goes, GoesOrFails, Throw
  <2> QED  BY <2>1, <2>2, Unseen
<1>13. CASE CreateEvents
  <2>1. proc' = proc /\ fate' = fate /\ reaper' = reaper
    BY <1>13 DEF CreateEvents, procVars, callVars
  <2>2. pc' # "done" /\ pc # "done"
    BY <1>13 DEF CreateEvents, Goes, GoesOrFails, Throw
  <2> QED  BY <2>1, <2>2, Unseen
<1>14. CASE Skip
  <2>1. proc' = proc /\ fate' = fate /\ reaper' = reaper  BY <1>14 DEF Skip, procVars, callVars
  <2>2. pc' # "done" /\ pc # "done"
    BY <1>14 DEF Skip, Goes, GoesOrFails, Throw, Due, Acting, LeaveStreams, ThrowFromStreams,
       CloseAndAdvance, Advance, Process, Rescan
  <2> QED  BY <2>1, <2>2, Unseen
<1>15. CASE ScanTimesOut
  <2>1. proc' = proc /\ fate' = fate /\ reaper' = reaper
    BY <1>15 DEF ScanTimesOut, procVars, callVars
  <2>2. pc' # "done" /\ pc # "done"
    BY <1>15 DEF ScanTimesOut, Goes, GoesOrFails, Throw, Due, Acting, LeaveStreams,
       ThrowFromStreams, CloseAndAdvance, Advance, Process, Rescan
  <2> QED  BY <2>1, <2>2, Unseen
<1>16. CASE ReadNow
  <2>1. proc' = proc /\ fate' = fate /\ reaper' = reaper  BY <1>16 DEF ReadNow, procVars, callVars
  <2>2. pc' # "done" /\ pc # "done"
    BY <1>16 DEF ReadNow, Goes, GoesOrFails, Throw, Due, Acting, LeaveStreams, ThrowFromStreams,
       CloseAndAdvance, Advance, Process, Rescan
  <2> QED  BY <2>1, <2>2, Unseen
<1>17. CASE ReadPends
  <2>1. proc' = proc /\ fate' = fate /\ reaper' = reaper  BY <1>17 DEF ReadPends, procVars, callVars
  <2>2. pc' # "done" /\ pc # "done"
    BY <1>17 DEF ReadPends, Goes, GoesOrFails, Throw, Due, Acting, LeaveStreams, ThrowFromStreams,
       CloseAndAdvance, Advance, Process, Rescan
  <2> QED  BY <2>1, <2>2, Unseen
<1>18. CASE ReadClosed
  <2>1. proc' = proc /\ fate' = fate /\ reaper' = reaper
    BY <1>18 DEF ReadClosed, procVars, callVars
  <2>2. pc' # "done" /\ pc # "done"
    BY <1>18 DEF ReadClosed, Goes, GoesOrFails, Throw, Due, Acting, LeaveStreams,
       ThrowFromStreams, CloseAndAdvance, Advance, Process, Rescan
  <2> QED  BY <2>1, <2>2, Unseen
<1>19. CASE BeginWrite
  <2>1. proc' = proc /\ fate' = fate /\ reaper' = reaper
    BY <1>19 DEF BeginWrite, procVars, callVars
  <2>2. pc' # "done" /\ pc # "done"
    BY <1>19 DEF BeginWrite, Goes, GoesOrFails, Throw, Due, Acting, LeaveStreams,
       ThrowFromStreams, CloseAndAdvance, Advance, Process, Rescan
  <2> QED  BY <2>1, <2>2, Unseen
<1>20. CASE WriteSome
  <2>1. proc' = proc /\ fate' = fate /\ reaper' = reaper  BY <1>20 DEF WriteSome, procVars, callVars
  <2>2. pc' # "done" /\ pc # "done"
    BY <1>20 DEF WriteSome, Goes, GoesOrFails, Throw, Due, Acting, LeaveStreams, ThrowFromStreams,
       CloseAndAdvance, Advance, Process, Rescan
  <2> QED  BY <2>1, <2>2, Unseen
<1>21. CASE WriteBroken
  <2>1. proc' = proc /\ fate' = fate /\ reaper' = reaper
    BY <1>21 DEF WriteBroken, procVars, callVars
  <2>2. pc' # "done" /\ pc # "done"
    BY <1>21 DEF WriteBroken, Goes, GoesOrFails, Throw, Due, Acting, LeaveStreams,
       ThrowFromStreams, CloseAndAdvance, Advance, Process, Rescan
  <2> QED  BY <2>1, <2>2, Unseen
<1>22. CASE ScanEnds
  <2>1. proc' = proc /\ fate' = fate /\ reaper' = reaper  BY <1>22 DEF ScanEnds, procVars, callVars
  <2>2. pc' # "done" /\ pc # "done"
    BY <1>22 DEF ScanEnds, Goes, GoesOrFails, Throw, Due, Acting, LeaveStreams, ThrowFromStreams,
       CloseAndAdvance, Advance, Process, Rescan
  <2> QED  BY <2>1, <2>2, Unseen
<1>23. ASSUME NEW s \in Output, Complete(s) PROVE [Promise!Next]_(Promise!vars)
  <2>1. proc' = proc /\ fate' = fate /\ reaper' = reaper  BY <1>23 DEF Complete, procVars, callVars
  <2>2. pc' # "done" /\ pc # "done"
    BY <1>23 DEF Complete, Goes, GoesOrFails, Throw, Due, Acting, LeaveStreams, ThrowFromStreams,
       CloseAndAdvance, Advance, Process, Rescan
  <2> QED  BY <2>1, <2>2, Unseen
<1>24. CASE WaitTimesOut
  <2>1. proc' = proc /\ fate' = fate /\ reaper' = reaper
    BY <1>24 DEF WaitTimesOut, procVars, callVars
  <2>2. pc' # "done" /\ pc # "done"
    BY <1>24 DEF WaitTimesOut, Goes, GoesOrFails, Throw, Due, Acting, LeaveStreams,
       ThrowFromStreams, CloseAndAdvance, Advance, Process, Rescan
  <2> QED  BY <2>1, <2>2, Unseen
<1>25. CASE IoFails
  <2>1. proc' = proc /\ fate' = fate /\ reaper' = reaper  BY <1>25 DEF IoFails, procVars, callVars
  <2>2. pc' # "done" /\ pc # "done"
    BY <1>25 DEF IoFails, Goes, GoesOrFails, Throw, Due, Acting, LeaveStreams, ThrowFromStreams,
       CloseAndAdvance, Advance, Process, Rescan
  <2> QED  BY <2>1, <2>2, Unseen
<1>26. CASE Flush
  <2>1. proc' = proc /\ fate' = fate /\ reaper' = reaper  BY <1>26 DEF Flush, procVars, callVars
  <2>2. pc' # "done" /\ pc # "done"
    BY <1>26 DEF Flush, Goes, GoesOrFails, Throw
  <2> QED  BY <2>1, <2>2, Unseen
<1>27. CASE ProcessEnded
  <2>1. /\ proc' = proc /\ fate' = fate /\ pc = "wait" /\ pc' = "exit_code"
        /\ proc["child"] = "dead" /\ reaper' = "off"
    BY <1>27 DEF ProcessEnded, procVars, Goes
  <2>2. reaper = "armed"  BY <1>i, <2>1 DEF SeqInv
  <2>3. ChildState = "ended" /\ ChildState' = "collected"  BY <2>1, <2>2 DEF ChildState
  <2>4. Shown = Pending /\ Shown' = Pending  BY <2>1 DEF Shown, Pending
  <2> QED  BY <1>p, <2>1, <2>3, <2>4 DEF Promise!Next, Promise!Collect
<1>28. CASE ProcessTimesOut
  <2>1. proc' = proc /\ fate' = fate /\ reaper' = reaper
    BY <1>28 DEF ProcessTimesOut, procVars, callVars
  <2>2. pc' # "done" /\ pc # "done"
    BY <1>28 DEF ProcessTimesOut, Goes, GoesOrFails, Throw
  <2> QED  BY <2>1, <2>2, Unseen
<1>29. CASE WaitFails
  <2>1. proc' = proc /\ fate' = fate /\ reaper' = reaper  BY <1>29 DEF WaitFails, procVars, callVars
  <2>2. pc' # "done" /\ pc # "done"
    BY <1>29 DEF WaitFails, Goes, GoesOrFails, Throw
  <2> QED  BY <2>1, <2>2, Unseen
<1>30. CASE ExitCode
  <2>1. proc' = proc /\ fate' = fate /\ reaper' = reaper  BY <1>30 DEF ExitCode, procVars, callVars
  <2>2. pc' # "done" /\ pc # "done"
    BY <1>30 DEF ExitCode, Goes, GoesOrFails, Throw
  <2> QED  BY <2>1, <2>2, Unseen
<1>31. CASE Leave
  <2> DEFINE procs == IF Terminates THEN job ELSE {}
  <2>1. /\ End(procs) /\ outcome' = outcome /\ reaper' = reaper /\ pc' = "close" /\ pc = "leave"
    BY <1>31 DEF Leave, Goes, callVars
  <2>2. /\ proc' = [p \in Other |-> IF p \in procs THEN "dead" ELSE proc[p]]
        /\ fate' = IF "child" \in procs /\ proc["child"] = "running" THEN Terminated ELSE fate
    BY <2>1 DEF End
  <2>3. "child" \in procs => reaper = "armed" /\ proc["child"] # "none"
    BY <1>i DEF Terminates, JobInv
  <2> HIDE DEF procs
  <2>4. CASE "child" \in procs /\ proc["child"] = "running"
    <3>1. proc'["child"] = "dead" /\ fate' = Terminated  BY <2>2, <2>4, ProcNames
    <3>2. ChildState = "alive" /\ ChildState' = "ended"
      BY <2>1, <2>3, <2>4, <3>1 DEF ChildState
    <3>3. Shown' = Shown  BY <2>1 DEF Shown, Pending
    <3> QED  BY <3>1, <3>2, <3>3 DEF Promise!Next, Promise!End
  <2>5. CASE ~("child" \in procs /\ proc["child"] = "running")
    <3>1. proc'["child"] = proc["child"] /\ fate' = fate
      BY <1>i, <2>2, <2>3, <2>5, ProcNames DEF ProcInv
    <3> QED  BY <2>1, <3>1, Unseen
  <2> QED  BY <2>4, <2>5
<1>32. CASE CloseHandles
  <2>1. proc' = proc /\ fate' = fate /\ reaper' = reaper
    BY <1>32 DEF CloseHandles, procVars, callVars
  <2>2. pc' # "done" /\ pc # "done"
    BY <1>32 DEF CloseHandles, Goes, GoesOrFails, Throw
  <2> QED  BY <2>1, <2>2, Unseen
<1>33. CASE TimerExpires
  <2>1. proc' = proc /\ fate' = fate /\ reaper' = reaper /\ pc' = pc /\ outcome' = outcome
    BY <1>33 DEF TimerExpires, procVars, callVars
  <2> QED  BY <2>1 DEF Promise!vars, ChildState, Shown
<1>34. CASE World
  <2>1. pc' = pc /\ outcome' = outcome /\ reaper' = reaper  BY <1>34, WorldSteps
  <2>2. CASE ProcessEnds("child")
    <3>1. proc'["child"] = "dead" /\ proc["child"] = "running"
      BY <1>i, <2>2, ProcNames DEF ProcessEnds, ProcInv
    <3>2. fate' \in {Exited(c) : c \in ExitCodes} \cup {Terminated}  BY <2>2 DEF ProcessEnds
    <3>3. reaper # "off"  BY <1>i, <3>1 DEF ChildInv
    <3>4. ChildState = "alive" /\ ChildState' = "ended"  BY <2>1, <3>1, <3>3 DEF ChildState
    <3>5. Shown' = Shown  BY <2>1 DEF Shown, Pending
    <3> QED  BY <3>2, <3>4, <3>5 DEF Promise!Next, Promise!End
  <2>3. CASE \A p \in Other : ProcessEnds(p) => p # "child"
    <3>1. proc'["child"] = proc["child"] /\ fate' = fate
      <4>1. CASE Spawn  BY <1>i, <4>1, ProcNames DEF Spawn, ProcInv
      <4>2. CASE StrangerStarts  BY <1>i, <4>2, ProcNames DEF StrangerStarts, ProcInv
      <4>3. ASSUME NEW p \in Other, ProcessEnds(p)
            PROVE  proc'["child"] = proc["child"] /\ fate' = fate
        <5>1. p # "child"  BY <2>3, <4>3
        <5> QED  BY <1>i, <4>3, <5>1, ProcNames DEF ProcessEnds, ProcInv
      <4>4. CASE proc' = proc /\ fate' = fate  BY <4>4
      <4> QED
        BY <1>34, <4>1, <4>2, <4>3, <4>4
        DEF World, ProgramReads, ProgramCloses, ProgramWrites,
            ProgramWritesNothing, Transfers, procVars
    <3> QED  BY <2>1, <3>1 DEF Promise!vars, ChildState, Shown
  <2> QED  BY <2>2, <2>3
<1>35. CASE Over \/ UNCHANGED vars
  <2>1. proc' = proc /\ fate' = fate /\ reaper' = reaper /\ pc' = pc /\ outcome' = outcome
    BY <1>35, OverSteps
  <2> QED  BY <2>1 DEF Promise!vars, ChildState, Shown
<1>36. CASE TerminationFails
  BY <1>36, TerminationSteps, Unseen
<1> QED
  BY <1>1, <1>2, <1>3, <1>4, <1>5, <1>6, <1>7, <1>8, <1>9, <1>10, <1>11, <1>12, <1>13,
  <1>14, <1>15, <1>16, <1>17, <1>18, <1>19, <1>20, <1>21, <1>22, <1>23, <1>24, <1>25,
  <1>26, <1>27, <1>28, <1>29, <1>30, <1>31, <1>32, <1>33, <1>34, <1>35, <1>36
  DEF Next, Parent

\* A call makes one child, tells of it truly and once, and says otherwise only
\* that it failed.
THEOREM PromiseIsKept == Spec => KeepsPromise
<1>1. Init => Promise!Init
  BY ProcNames
  DEF Init, Promise!Init, ChildState, Shown, NoFate, Promise!NoFate, Pending, Promise!Pending
<1> QED
  BY <1>1, PromiseStep, WindowsInvariant, PTL DEF Spec, KeepsPromise, Promise!Spec
=============================================================================

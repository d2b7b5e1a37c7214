---------------------------- MODULE WindowsExecute ----------------------------
(***************************************************************************)
(* One call of execute() on Windows (execution/src/windows/execution.cc):  *)
(* overlapped reads on the output pipes, a write to stdin that blocks, a   *)
(* job object that groups the child's processes, a waitable timer, and the *)
(* environment of the calling process, which is changed for the child and  *)
(* put back.  A stranger is a process that another thread of the caller    *)
(* creates meanwhile: it inherits every handle that is inheritable then.   *)
(*                                                                         *)
(* A pipe is the number of units in it; what the programs do is left open. *)
(***************************************************************************)
EXTENDS Integers, Sequences, FiniteSetsExt

CONSTANTS
  Configs,    \* the calls explored
  PipeCap,    \* what a pipe holds, in units of data
  ExitCodes   \* the codes a program may exit with

NoInput == -1
Variable == {"LC_ALL", "LANG", "PATH"}
Unset == "unset"

\* `job' says that no job of the caller is in the way; `writesNothing' that the
\* program may write no bytes to a pipe; `given' is the caller's map of variables
\* in its order, each under its usual name or the same name in other letters;
\* `before' is the environment of the calling process.
Config == [input : Nat \cup {NoInput}, stderr : {"pipe", "stdout", "null"},
           timeout : BOOLEAN, throwExit : BOOLEAN, callbacks : BOOLEAN,
           job : BOOLEAN, detached : BOOLEAN, crowded : BOOLEAN, writesNothing : BOOLEAN,
           merge : BOOLEAN, inherit : BOOLEAN,
           given : Seq([var : Variable, usual : BOOLEAN, value : STRING]),
           before : [Variable -> STRING]]

ASSUME ConfigAssumption == Configs \subseteq Config
\* The caller's map has a name once.
ASSUME GivenAssumption ==
  \A c \in Configs : \A i, j \in 1..Len(c.given) :
    c.given[i].usual /\ c.given[j].usual /\ c.given[i].var = c.given[j].var => i = j
ASSUME BoundAssumption == PipeCap \in Nat \ {0}
ASSUME ExitAssumption == ExitCodes \subseteq Int

Stream == {"stdin", "stdout", "stderr"}
Output == {"stdout", "stderr"}
ReadEnd == [stdin |-> "stdin_read", stdout |-> "stdout_read", stderr |-> "stderr_read"]
WriteEnd == [stdin |-> "stdin_write", stdout |-> "stdout_write", stderr |-> "stderr_write"]
ParentEnd == [stdin |-> "stdin_write", stdout |-> "stdout_read", stderr |-> "stderr_read"]
ParentEnds == {"stdin_write", "stdout_read", "stderr_read"}
ChildEnds == {"stdin_read", "stdout_write", "stderr_write", "nul"}
Handle == ParentEnds \cup ChildEnds \cup {"process", "job", "timer"}

Descendant == {"child", "heir"}
Other == Descendant \cup {"stranger"}
Proc == Other \cup {"parent"}

NoFate == [kind |-> "none", code |-> 0]
Exited(c) == [kind |-> "exit", code |-> c]
Terminated == Exited(-1)

Pending == [kind |-> "pending", ok |-> FALSE, code |-> 0]
Thrown(k, c) == [kind |-> k, ok |-> FALSE, code |-> c]
Returned(ok, c) == [kind |-> "result", ok |-> ok, code |-> c]

VARIABLES
  cfg,       \* the call
  pc,        \* where the parent is
  at,        \* the pipe that the loop over the pipes has come to, or "end"
  pending,   \* the streams with an overlapped read under way
  left,      \* what is left to be written to stdin
  reaper,    \* the scope_exit reaper: "none", "armed" (terminate), "off", or "failed"
  outcome,   \* what execute() is about to return or throw
  stopped,   \* a callback returned false
  timer,     \* the waitable timer: "none", "set" or "signalled"
  env,       \* the environment of the calling process
  saved,     \* the scoped_env objects: a variable and its former value each
  childEnv,  \* the environment the child was created with
  proc,      \* the state of the other processes
  fate,      \* how the child ended
  job,       \* the processes in the job object
  held,      \* the handles each process holds open
  full,      \* what is in each pipe
  empties    \* the pipes to which a process has written no bytes

callVars == <<at, pending, left, reaper, stopped>>
envVars == <<env, saved, childEnv>>
procVars == <<proc, fate, job>>
vars == <<cfg, pc, callVars, outcome, timer, envVars, procVars, held, full, empties>>

Init ==
  /\ cfg \in Configs
  /\ pc = "job_query" /\ at = "end" /\ pending = {} /\ left = Max({cfg.input, 0})
  /\ reaper = "none" /\ outcome = Pending /\ stopped = FALSE /\ timer = "none"
  /\ env = cfg.before /\ saved = <<>> /\ childEnv = cfg.before
  /\ proc = [p \in Other |-> "none"] /\ fate = NoFate /\ job = {}
  /\ held = [p \in Proc |-> {}] /\ full = [s \in Stream |-> 0]
  /\ empties = {}

Room(s) == PipeCap - full[s]
HasReader(s) == \E p \in Proc : ReadEnd[s] \in held[p]
HasWriter(s) == \E p \in Proc : WriteEnd[s] \in held[p]
IsOpen(s) == ParentEnd[s] \in held["parent"]

ParentOpens(handles) == held' = [held EXCEPT !["parent"] = @ \cup handles]
ParentCloses(handles) == held' = [held EXCEPT !["parent"] = @ \ handles]

Throw(exception) == outcome' = exception /\ pc' = "leave"
Goes(point) == pc' = point /\ UNCHANGED outcome
\* A step of the call that may fail with an execution_exception.
GoesOrFails(point) == Goes(point) \/ Throw(Thrown("execution", 0))

-----------------------------------------------------------------------------
(* The environment.                                                        *)

Given(v) == {i \in 1..Len(cfg.given) : cfg.given[i].var = v}
Locale(v) == [var |-> v, value |-> "C"]
NotGiven(v) == \A i \in Given(v) : ~cfg.given[i].usual

GivenPairs == [i \in 1..Len(cfg.given) |-> [var |-> cfg.given[i].var, value |-> cfg.given[i].value]]
LocalePairs ==
  (IF ~cfg.inherit /\ NotGiven("LC_ALL") THEN <<Locale("LC_ALL")>> ELSE <<>>) \o
  (IF ~cfg.inherit /\ NotGiven("LANG") THEN <<Locale("LANG")>> ELSE <<>>)

LocaleLast == GivenPairs \o LocalePairs
\* The scoped_env objects that merge_environment makes, in order: the locale
\* first, for a variable that the map does not have under its usual name.
Overrides == LocalePairs \o GivenPairs

\* A variable after the first n of them: Windows ignores the case of names.
AfterOverrides(n, v) ==
  LET on == {i \in 1..n : Overrides[i].var = v} IN
  IF on = {} THEN cfg.before[v] ELSE Overrides[Max(on)].value

\* The block for a child that does not inherit: the first of the spellings,
\* and the locale unless the caller gave one.
Block ==
  [v \in Variable |->
     IF Given(v) # {} THEN cfg.given[Min(Given(v))].value
     ELSE IF v = "PATH" THEN Unset
     ELSE IF cfg.inherit THEN cfg.before[v] ELSE "C"]

SetEnvironment ==
  /\ pc = "environment"
  /\ Goes("stdin")
  /\ IF cfg.merge
     THEN /\ env' = [v \in Variable |-> AfterOverrides(Len(Overrides), v)]
          /\ saved' = [i \in 1..Len(Overrides) |->
                         [var |-> Overrides[i].var,
                          old |-> AfterOverrides(i - 1, Overrides[i].var)]]
     ELSE UNCHANGED <<env, saved>>
  /\ UNCHANGED <<cfg, empties, callVars, timer, childEnv, procVars, held, full>>

SavedFirstOnly(v) == {i \in {1} \cap DOMAIN saved : saved[i].var = v}
SavedFor(v) == {i \in 1..Len(saved) : saved[i].var = v}

\* The vector of scoped_env is destroyed from its first element to its last.
RestoreEnvironment ==
  /\ pc = "restore"
  /\ Goes("done")
  /\ env' = [v \in Variable |->
               IF SavedFor(v) = {} THEN env[v] ELSE saved[Max(SavedFor(v))].old]
  /\ saved' = <<>>
  /\ UNCHANGED <<cfg, empties, callVars, timer, childEnv, procVars, held, full>>

-----------------------------------------------------------------------------
(* Up to the reading and writing.                                          *)

QueryJob ==
  /\ pc = "job_query"
  /\ GoesOrFails("which")
  /\ UNCHANGED <<cfg, empties, callVars, timer, envVars, procVars, held, full>>

Which ==
  /\ pc = "which"
  /\ \/ Goes("environment")
     \/ /\ pc' = "leave"
        /\ outcome' = IF cfg.throwExit THEN Thrown("child_exit", 127) ELSE Returned(FALSE, 127)
  /\ UNCHANGED <<cfg, empties, callVars, timer, envVars, procVars, held, full>>

KeepStep == [stdin |-> "keep_stdin", stdout |-> "keep_stdout", stderr |-> "keep_stderr"]
AfterPipe == [stdin |-> "stdout", stdout |-> "stderr", stderr |-> "create"]

\* Both ends are created inheritable, ...
CreatePipe(s) ==
  /\ pc = s
  /\ s = "stderr" => cfg.stderr = "pipe"
  /\ \/ ParentOpens({ReadEnd[s], WriteEnd[s]}) /\ Goes(KeepStep[s])
     \/ Throw(Thrown("execution", 0)) /\ UNCHANGED held
  /\ UNCHANGED <<cfg, empties, callVars, timer, envVars, procVars, full>>

\* ... and the parent's end is taken out of that by a later call.
KeepEnd(s) ==
  /\ pc = KeepStep[s]
  /\ GoesOrFails(AfterPipe[s])
  /\ UNCHANGED <<cfg, empties, callVars, timer, envVars, procVars, held, full>>

RedirectStderr ==
  /\ pc = "stderr"
  /\ \/ cfg.stderr = "stdout" /\ Goes("create") /\ UNCHANGED held
     \/ cfg.stderr = "null" /\ ParentOpens({"nul"}) /\ Goes("create")
     \/ cfg.stderr = "null" /\ Throw(Thrown("execution", 0)) /\ UNCHANGED held
  /\ UNCHANGED <<cfg, empties, callVars, timer, envVars, procVars, full>>

Inheritable ==
  (held["parent"] \cap ChildEnds) \cup {ParentEnd[s] : s \in {t \in Stream : pc = KeepStep[t]}}

CreateProcess ==
  /\ pc = "create"
  /\ \/ /\ Goes("release")
        /\ proc' = [proc EXCEPT !["child"] = "running"]
        /\ childEnv' = IF cfg.merge THEN env ELSE Block
        /\ held' = [held EXCEPT !["parent"] = @ \cup {"process"}, !["child"] = Inheritable]
     \/ Throw(Thrown("execution", 0)) /\ UNCHANGED <<proc, childEnv, held>>
  /\ UNCHANGED <<cfg, empties, callVars, timer, env, saved, fate, job, full>>

ReleaseUnused ==
  /\ pc = "release"
  /\ ParentCloses(ChildEnds \cup IF cfg.input = NoInput THEN {"stdin_write"} ELSE {})
  /\ Goes("assign")
  /\ UNCHANGED <<cfg, empties, callVars, timer, envVars, procVars, full>>

CreatesJob == cfg.job /\ ~cfg.detached

\* The child runs already; what it started before this is not in the job.  A
\* failure comes before the reaper exists.
AssignToJob ==
  /\ pc = "assign"
  /\ \/ /\ CreatesJob /\ proc["child"] = "running"
        /\ job' = {"child"} /\ ParentOpens({"job"})
        /\ reaper' = "armed" /\ Goes("timer")
     \/ CreatesJob /\ Throw(Thrown("execution", 0)) /\ UNCHANGED <<job, held, reaper>>
     \/ ~CreatesJob /\ reaper' = "armed" /\ Goes("timer") /\ UNCHANGED <<job, held>>
  /\ UNCHANGED <<cfg, empties, at, pending, left, stopped, timer, envVars, proc, fate, full>>

SetTimer ==
  /\ pc = "timer"
  /\ \/ cfg.timeout /\ timer' = "set" /\ ParentOpens({"timer"}) /\ Goes("pid_callback")
     \/ cfg.timeout /\ Throw(Thrown("execution", 0)) /\ UNCHANGED <<timer, held>>
     \/ ~cfg.timeout /\ Goes("pid_callback") /\ UNCHANGED <<timer, held>>
  /\ UNCHANGED <<cfg, empties, callVars, envVars, procVars, full>>

PidCallback ==
  /\ pc = "pid_callback"
  /\ Goes("events") \/ (cfg.callbacks /\ Throw(Thrown("callback", 0)))
  /\ UNCHANGED <<cfg, empties, callVars, timer, envVars, procVars, held, full>>

\* The three pipe objects, with an event for each that is open.
CreateEvents ==
  /\ pc = "events"
  /\ at' = "stdin"
  /\ GoesOrFails("scan")
  /\ UNCHANGED <<cfg, empties, pending, left, reaper, stopped, timer, envVars, procVars,
                 held, full>>

-----------------------------------------------------------------------------
(* rw_from_child.  Leaving it destroys the pipe objects.                   *)

LeaveStreams == ParentCloses(ParentEnds) /\ pending' = {} /\ at' = "end"
ThrowFromStreams(exception) == LeaveStreams /\ Throw(exception)

After == [stdin |-> "stdout", stdout |-> "stderr", stderr |-> "end"]

\* The loop goes to the next pipe; this one is closed or pending.
Advance == at' = After[at] /\ UNCHANGED <<pc, outcome>>
\* A closed pipe ends the loop over all of them.
CloseAndReturn == LeaveStreams /\ Goes("flush")
CloseAndAdvance == ParentCloses({ParentEnd[at]}) /\ Advance /\ UNCHANGED pending

\* The timer is looked at before every read and write.
Due == pc = "scan" /\ at # "end" /\ IsOpen(at) /\ at \notin pending
ActingAnyway == Due
Acting == Due /\ timer # "signalled"

Skip ==
  /\ pc = "scan" /\ at # "end" /\ ~Due
  /\ Advance
  /\ UNCHANGED <<cfg, empties, pending, left, reaper, stopped, timer, envVars, procVars,
                 held, full>>

ScanTimesOut ==
  /\ Due /\ timer = "signalled"
  /\ ThrowFromStreams(Thrown("timeout", 0))
  /\ UNCHANGED <<cfg, empties, left, reaper, stopped, timer, envVars, procVars, full>>

\* Data have come from s: the callback goes on, asks to stop, or throws.
Process(s, next) ==
  /\ \E n \in 1..full[s] : full' = [full EXCEPT ![s] = @ - n]
  /\ \/ next /\ UNCHANGED <<held, stopped>>
     \/ cfg.callbacks /\ stopped' = TRUE /\ LeaveStreams /\ Goes("flush")
     \/ cfg.callbacks /\ ThrowFromStreams(Thrown("callback", 0)) /\ UNCHANGED stopped

ReadNow ==
  /\ Acting /\ at \in Output /\ full[at] > 0
  /\ Process(at, UNCHANGED <<pc, outcome, pending, at>>)
  /\ UNCHANGED <<cfg, empties, left, reaper, timer, envVars, procVars>>

\* The read comes back with ERROR_BROKEN_PIPE, or with a count of 0 because it
\* met a write of no bytes (where that stands among the data is left open).
\* Both are taken for a closed pipe, though in the second case it may have
\* writers still.
SeemsClosed(s) == (full[s] = 0 /\ ~HasWriter(s)) \/ s \in empties

ReadPends ==
  /\ Acting /\ at \in Output /\ full[at] = 0 /\ ~SeemsClosed(at)
  /\ pending' = pending \cup {at}
  /\ Advance
  /\ UNCHANGED <<cfg, empties, left, reaper, stopped, timer, envVars, procVars, held, full>>

ReadClosed ==
  /\ Acting /\ at \in Output /\ SeemsClosed(at)
  /\ CloseAndAdvance
  /\ UNCHANGED <<cfg, empties, left, reaper, stopped, timer, envVars, procVars, full>>

\* A write of nothing returns 0, which closes stdin.  The write end was not
\* opened for overlapped i/o, so any other write blocks until it is done.
BeginWrite ==
  /\ Acting /\ at = "stdin"
  /\ \/ left = 0 /\ CloseAndAdvance
     \/ left > 0 /\ Goes("write") /\ UNCHANGED <<held, pending, at>>
  /\ UNCHANGED <<cfg, empties, left, reaper, stopped, timer, envVars, procVars, full>>

WriteSome ==
  /\ pc = "write" /\ HasReader("stdin")
  /\ \E n \in 1..Room("stdin") :
       /\ n <= left
       /\ full' = [full EXCEPT !["stdin"] = @ + n]
       /\ left' = left - n
       /\ Goes(IF n = left THEN "scan" ELSE "write")
  /\ UNCHANGED <<cfg, empties, at, pending, reaper, stopped, timer, envVars, procVars, held>>

\* Nobody can read stdin: a broken pipe closes it, the error that a pipe is
\* being closed is an i/o failure.
WriteBroken ==
  /\ pc = "write" /\ ~HasReader("stdin")
  /\ \/ /\ ParentCloses({"stdin_write"}) /\ at' = After[at]
        /\ Goes("scan") /\ UNCHANGED pending
     \/ ThrowFromStreams(Thrown("execution", 0))
  /\ UNCHANGED <<cfg, empties, left, reaper, stopped, timer, envVars, procVars, full>>

ScanEnds ==
  /\ pc = "scan" /\ at = "end"
  /\ IF pending = {} THEN LeaveStreams /\ Goes("flush")
     ELSE Goes("wait_io") /\ UNCHANGED <<held, pending, at>>
  /\ UNCHANGED <<cfg, empties, left, reaper, stopped, timer, envVars, procVars, full>>

GoOnAfter(s) == at' = After[s] /\ Goes("scan")
\* The loop over the pipes starts again from the first.
Rescan(s) == at' = "stdin" /\ Goes("scan")

Signalled(s) == s \in pending /\ (full[s] > 0 \/ SeemsClosed(s))

\* WaitForMultipleObjects takes the first of the signalled events, stdout
\* before stderr; GetOverlappedResult gives the data, or a pipe that
\* seems closed.
Complete(s) ==
  /\ pc = "wait_io" /\ Signalled(s)
  /\ s = "stderr" => ~Signalled("stdout")
  /\ \/ /\ full[s] > 0
        /\ Process(s, pending' = pending \ {s} /\ Rescan(s))
     \/ /\ SeemsClosed(s)
        /\ ParentCloses({ParentEnd[s]})
        /\ pending' = pending \ {s} /\ Rescan(s)
        /\ UNCHANGED <<full, stopped>>
  /\ UNCHANGED <<cfg, empties, left, reaper, timer, envVars, procVars>>

\* The timer is the last of the events.
WaitTimesOut ==
  /\ pc = "wait_io" /\ timer = "signalled"
  /\ \A s \in Output : ~Signalled(s)
  /\ ThrowFromStreams(Thrown("timeout", 0))
  /\ UNCHANGED <<cfg, empties, left, reaper, stopped, timer, envVars, procVars, full>>

\* Any other error of a read, a write or the wait.
IoFails ==
  /\ Acting \/ pc = "wait_io"
  /\ ThrowFromStreams(Thrown("execution", 0))
  /\ UNCHANGED <<cfg, empties, left, reaper, stopped, timer, envVars, procVars, full>>

-----------------------------------------------------------------------------
(* The end of the call.                                                    *)

\* The rest of process_streams: the callbacks get the last, unfinished line.
Flush ==
  /\ pc = "flush"
  /\ Goes("wait") \/ (cfg.callbacks /\ Throw(Thrown("callback", 0)))
  /\ UNCHANGED <<cfg, empties, callVars, timer, envVars, procVars, held, full>>

ProcessEnded ==
  /\ pc = "wait" /\ proc["child"] = "dead"
  /\ reaper' = "off"
  /\ Goes("exit_code")
  /\ UNCHANGED <<cfg, empties, at, pending, left, stopped, timer, envVars, procVars, held, full>>

\* The process comes before the timer in what is waited for.
ProcessTimesOut ==
  /\ pc = "wait" /\ proc["child"] # "dead" /\ timer = "signalled"
  /\ Throw(Thrown("timeout", 0))
  /\ UNCHANGED <<cfg, empties, callVars, timer, envVars, procVars, held, full>>

WaitFails ==
  /\ pc = "wait"
  /\ Throw(Thrown("execution", 0))
  /\ UNCHANGED <<cfg, empties, callVars, timer, envVars, procVars, held, full>>

AlwaysWell ==
  IF fate.code # 0 /\ cfg.throwExit THEN Thrown("child_exit", fate.code)
  ELSE Returned(TRUE, fate.code)
\* What the exit code means for the caller.
Verdict ==
  IF fate.code # 0 /\ cfg.throwExit THEN Thrown("child_exit", fate.code)
  ELSE Returned(fate.code = 0, fate.code)

ExitCode ==
  /\ pc = "exit_code"
  /\ pc' = "leave"
  /\ \/ outcome' = Verdict
     \/ outcome' = Thrown("execution", 0)
  /\ UNCHANGED <<cfg, empties, callVars, timer, envVars, procVars, held, full>>

\* TerminateJobObject, for all that is in the job.
End(procs) ==
  /\ proc' = [p \in Other |-> IF p \in procs THEN "dead" ELSE proc[p]]
  /\ fate' = IF "child" \in procs /\ proc["child"] = "running" THEN Terminated ELSE fate
  /\ held' = [p \in Proc |-> IF p \in procs THEN {} ELSE held[p]]

TerminatesOnTimeout == reaper = "armed" /\ outcome.kind = "timeout"
TerminatesAlways == TRUE
\* The `terminate' flag of the reaper, once there is one.
Terminates == reaper = "armed"

\* The reaper: without a job object it only warns.
Leave ==
  /\ pc = "leave"
  /\ Goes("close")
  /\ End(IF Terminates THEN job ELSE {})
  /\ UNCHANGED <<cfg, empties, callVars, timer, envVars, job, full>>

\* A failure of TerminateJobObject is only logged.
TerminationFails ==
  /\ pc = "leave" /\ Terminates /\ CreatesJob
  /\ Goes("close")
  /\ reaper' = "failed"
  /\ UNCHANGED <<cfg, empties, at, pending, left, stopped, timer, envVars, procVars, held, full>>

\* The scoped_handle objects.
CloseHandles ==
  /\ pc = "close"
  /\ ParentCloses(Handle)
  /\ Goes("restore")
  /\ UNCHANGED <<cfg, empties, callVars, timer, envVars, procVars, full>>

Parent ==
  \/ SetEnvironment \/ RestoreEnvironment \/ QueryJob \/ Which \/ RedirectStderr
  \/ CreateProcess \/ ReleaseUnused \/ AssignToJob \/ SetTimer \/ PidCallback \/ CreateEvents
  \/ Skip \/ ScanTimesOut \/ ReadNow \/ ReadPends \/ ReadClosed \/ BeginWrite \/ WriteSome
  \/ WriteBroken \/ ScanEnds \/ WaitTimesOut \/ Flush \/ ProcessEnded \/ ProcessTimesOut
  \/ ExitCode \/ Leave \/ CloseHandles
  \/ \E s \in Stream : CreatePipe(s) \/ KeepEnd(s)
  \/ \E s \in Output : Complete(s)

Over == pc = "done" /\ UNCHANGED vars

-----------------------------------------------------------------------------
(* Time, and the other processes.                                          *)

TimerExpires ==
  /\ timer = "set"
  /\ timer' = "signalled"
  /\ UNCHANGED <<cfg, empties, pc, callVars, outcome, envVars, procVars, held, full>>

Transfers(p, s, n) ==
  /\ proc[p] = "running"
  /\ full' = [full EXCEPT ![s] = @ + n]
  /\ UNCHANGED <<cfg, empties, pc, callVars, outcome, timer, envVars, procVars, held>>

ProgramReads(p) == "stdin_read" \in held[p] /\ full["stdin"] > 0 /\ Transfers(p, "stdin", -1)

ProgramWrites(p, s) ==
  WriteEnd[s] \in held[p] /\ HasReader(s) /\ Room(s) > 0 /\ Transfers(p, s, 1)

\* WriteFile with no bytes, on a pipe in byte mode.
ProgramWritesNothing(p, s) ==
  /\ cfg.writesNothing /\ proc[p] = "running"
  /\ WriteEnd[s] \in held[p] /\ HasReader(s)
  /\ empties' = empties \cup {s}
  /\ UNCHANGED <<cfg, pc, callVars, outcome, timer, envVars, procVars, held, full>>

ProgramCloses(p) ==
  /\ proc[p] = "running"
  /\ \E h \in held[p] : held' = [held EXCEPT ![p] = @ \ {h}]
  /\ UNCHANGED <<cfg, empties, pc, callVars, outcome, timer, envVars, procVars, full>>

ProcessEnds(p) ==
  /\ proc[p] = "running"
  /\ proc' = [proc EXCEPT ![p] = "dead"]
  /\ held' = [held EXCEPT ![p] = {}]
  /\ IF p = "child" THEN \E c \in ExitCodes : fate' = Exited(c) ELSE UNCHANGED fate
  /\ UNCHANGED <<cfg, empties, pc, callVars, outcome, timer, envVars, job, full>>

\* A new process inherits the handles, and the job of the one that made it.
Spawn ==
  /\ proc["child"] = "running" /\ proc["heir"] = "none"
  /\ proc' = [proc EXCEPT !["heir"] = "running"]
  /\ held' = [held EXCEPT !["heir"] = held["child"]]
  /\ job' = IF "child" \in job THEN job \cup {"heir"} ELSE job
  /\ UNCHANGED <<cfg, empties, pc, callVars, outcome, timer, envVars, fate, full>>

StrangerStarts ==
  /\ cfg.crowded /\ proc["stranger"] = "none" /\ Inheritable # {}
  /\ proc' = [proc EXCEPT !["stranger"] = "running"]
  /\ held' = [held EXCEPT !["stranger"] = Inheritable]
  /\ UNCHANGED <<cfg, empties, pc, callVars, outcome, timer, envVars, fate, job, full>>

World ==
  \/ Spawn \/ StrangerStarts
  \/ \E p \in Other : ProcessEnds(p)
  \/ \E p \in Descendant : ProgramReads(p) \/ ProgramCloses(p)
  \/ \E p \in Descendant, s \in Output : ProgramWrites(p, s) \/ ProgramWritesNothing(p, s)

Next ==
  \/ Parent \/ IoFails \/ WaitFails \/ TerminationFails
  \/ TimerExpires \/ World \/ Over

Spec == Init /\ [][Next]_vars

\* The caller's thread is scheduled and time passes; nothing is assumed of the
\* other processes, nor that a system call ever fails.
FairSpec == Spec /\ WF_vars(Parent) /\ WF_vars(TimerExpires)

-----------------------------------------------------------------------------
(* Properties.                                                             *)

Point == {"job_query", "which", "environment", "stdin", "stdout", "stderr", "keep_stdin",
          "keep_stdout", "keep_stderr", "create", "release", "assign", "timer",
          "pid_callback", "events", "scan", "write", "wait_io", "flush", "wait",
          "exit_code", "leave", "close", "restore", "done"}

CallOK ==
  /\ cfg \in Configs /\ pc \in Point /\ at \in Stream \cup {"end"}
  /\ pending \subseteq Output /\ left \in Nat
  /\ reaper \in {"none", "armed", "off", "failed"} /\ stopped \in BOOLEAN
  /\ timer \in {"none", "set", "signalled"}
  /\ outcome \in [kind : {"pending", "result", "child_exit", "execution", "timeout",
                          "callback"}, ok : BOOLEAN, code : Int]

ProcessOK ==
  /\ proc \in [Other -> {"none", "running", "dead"}] /\ job \subseteq Descendant
  /\ fate \in [kind : {"none", "exit"}, code : Int]
  /\ held \in [Proc -> SUBSET Handle]

TypeOK ==
  /\ CallOK /\ ProcessOK
  /\ full \in [Stream -> 0..PipeCap] /\ empties \subseteq Output

Running(procs) == {p \in procs : proc[p] = "running"}

\* While the pipes are read and written no handle with a read under way is
\* closed, and when the parent waits a read is under way on every open pipe
\* ("All pipes should be pending now"): nothing that arrives goes unnoticed.
AllPending ==
  /\ \A s \in pending : IsOpen(s)
  /\ pc = "wait_io" => pending # {} /\ \A s \in Stream : IsOpen(s) => s \in pending

\* The outcomes that say how the child ended.
Normal == outcome.kind \in {"result", "child_exit"} /\ reaper = "off"

\* Unless a callback stopped it, a call that reports how the child ended has
\* read all that was written to a pipe, and nobody can write more - not even a
\* process of another thread that inherited the pipe by accident.  That is so
\* of a pipe to which nobody wrote no bytes: such a write ends the reading
\* ("Check for closed pipe", count == 0), whatever is or comes after it.
OutputComplete ==
  Normal /\ ~stopped => \A s \in Output \ empties : full[s] = 0 /\ ~HasWriter(s)

\* Nothing that the child writes is missed, neither while the parent waits nor
\* in the end, on a pipe to which nobody wrote no bytes.
StreamsSound == TypeOK /\ AllPending /\ OutputComplete

Failed == outcome.kind \in {"timeout", "callback", "execution"}

\* An exception from a call that has its job object leaves nothing of the job
\* behind, neither the child nor what it started since it was assigned ("so we
\* can easily stop them in case of a timeout"), unless TerminateJobObject
\* itself failed: the reaper is then "failed", not "armed".
JobTerminated == pc = "done" /\ Failed /\ reaper = "armed" => Running(job) = {}

\* A call that reports the end of the child lets what the child started run on.
SparesJob == pc = "leave" /\ pc' # pc /\ proc' # proc => Failed

\* The job object is terminated when a call throws, and only then.
JobSound == [][JobTerminated' /\ SparesJob]_vars

\* No handle stays open in the caller, and its environment is what it was
\* before ("restore it after"), for any outcome - if the caller does not give
\* a variable in other letters than the ones that execute() itself uses.
LeavesNothing ==
  pc = "done" =>
    /\ held["parent"] = {}
    /\ (\A i \in 1..Len(cfg.given) : cfg.given[i].usual) => env = cfg.before

\* What the child finds in its environment: a value that the caller gave; else
\* for the locale C, or what the caller has with inherit_locale; else what the
\* caller has, with merge_environment only (execution.hpp, execution_options).
Promised(v) ==
  IF Given(v) # {} THEN {cfg.given[i].value : i \in Given(v)}
  ELSE IF v # "PATH" /\ ~cfg.inherit THEN {"C"}
  ELSE IF v # "PATH" \/ cfg.merge THEN {cfg.before[v]} ELSE {Unset}

ChildEnvironment ==
  proc["child"] # "none" => \A v \in Variable : childEnv[v] \in Promised(v)

\* merge_environment: the child gets what it is promised, and the caller has
\* its own environment again afterwards.
EnvironmentSound == ChildEnvironment /\ LeavesNothing

\* A call with a timeout comes to an end, whatever the other processes do, if
\* the pipe takes all of the input: only a write to stdin blocks.
TimeoutEnds == cfg.timeout /\ cfg.input <= PipeCap => <>(pc = "done")

\* The child is looked after until the call has seen its end; there is nothing
\* to collect then.
ChildState ==
  CASE proc["child"] = "running" -> "alive"
    [] proc["child"] = "dead" -> IF reaper = "off" THEN "collected" ELSE "ended"
    [] proc["child"] = "none" -> "none"

\* What the caller has been told.
Shown == IF pc = "done" THEN outcome ELSE Pending

\* A call keeps the promises of Command.
Promise == INSTANCE Command WITH
  Fates <- {Exited(c) : c \in ExitCodes} \cup {Terminated},
  Failures <- {"execution", "timeout", "callback"}, MayAbandon <- TRUE,
  child <- ChildState, outcome <- Shown

KeepsPromise == Promise!Spec
=============================================================================

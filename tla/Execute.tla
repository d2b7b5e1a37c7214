------------------------------- MODULE Execute -------------------------------
(***************************************************************************)
(* One call of execute() on POSIX (execution/src/posix/execution.cc): the  *)
(* parent that runs the call, the pipes it opens, the child it creates,    *)
(* one descendant of that child, the interval timer and its signal.        *)
(*                                                                         *)
(* Data are counted, not stored: a pipe is a FIFO, so what a reader got is *)
(* a prefix of what was written and `sent' and `got' say which.  What the  *)
(* child program does is left open, except for `program = "filter"'.       *)
(***************************************************************************)
EXTENDS Integers, FiniteSets, Sequences

CONSTANTS
  Configs,    \* the calls explored: arguments, options, signal dispositions
  PipeCap,    \* what a kernel pipe holds, in units of data
  MaxSent,    \* bound: units that are written to one of the output pipes
  ExitCodes   \* the statuses the child may exit with

NoInput == -1
LocaleVariable == {"LC_ALL", "LANG"}
Variable == LocaleVariable \cup {"PATH"}

\* What a call depends on.  `merge', `inherit' and `given' are the options and
\* the variables for the child's environment and `before' the variables that
\* the calling process has.  `input' is the length of the text for stdin;
\* `callbacks' says that the caller passed callbacks, which may stop the call
\* or throw; `sigpipeIgnored' and `sigchldIgnored' are dispositions of the
\* calling process, which execute() leaves as it finds them.
Config == [input : Nat \cup {NoInput}, stderr : {"pipe", "stdout", "null"},
           timeout : BOOLEAN, threadSafe : BOOLEAN, allowUnread : BOOLEAN,
           throwExit : BOOLEAN, throwSignal : BOOLEAN, callbacks : BOOLEAN,
           merge : BOOLEAN, inherit : BOOLEAN,
           given : SUBSET Variable, before : SUBSET Variable,
           sigpipeIgnored : BOOLEAN, sigchldIgnored : BOOLEAN,
           program : {"any", "filter"}]

ASSUME ConfigAssumption == Configs \subseteq Config
ASSUME BoundAssumption == PipeCap \in Nat \ {0} /\ MaxSent \in Nat
ASSUME ExitAssumption == ExitCodes \subseteq 0..255 /\ 1 \in ExitCodes

Stream == {"stdin", "stdout", "stderr"}
Output == {"stdout", "stderr"}

ReadEnd == [stdin |-> "stdin_read", stdout |-> "stdout_read", stderr |-> "stderr_read"]
WriteEnd == [stdin |-> "stdin_write", stdout |-> "stdout_write", stderr |-> "stderr_write"]
ParentEnd == [stdin |-> "stdin_write", stdout |-> "stdout_read", stderr |-> "stderr_read"]

ParentEnds == {"stdin_write", "stdout_read", "stderr_read"}
ChildEnds == {"stdin_read", "stdout_write", "stderr_write"}
Descriptor == ParentEnds \cup ChildEnds \cup {"dev_null"}

\* `child' is the process execute() creates and `heir' a process that the
\* child starts in its own process group.
Proc == {"parent", "child", "heir"}
Descendant == {"child", "heir"}

SIGKILL == 9
SIGTERM == 15

NoFate == [kind |-> "none", code |-> 0]
Exited(c) == [kind |-> "exit", code |-> c]
Signaled(s) == [kind |-> "signal", code |-> s]

Pending == [kind |-> "pending", ok |-> FALSE, code |-> 0]
Thrown(k, c) == [kind |-> k, ok |-> FALSE, code |-> c]
Returned(ok, c) == [kind |-> "result", ok |-> ok, code |-> c]

VARIABLES
  cfg,       \* the call
  pc,        \* where the parent is
  reaper,    \* the scope_exit reaper: "none", "kill" or "wait" (kill_child), "spent"
  outcome,   \* what execute() is about to return or throw
  stopped,   \* a callback returned false
  ready,     \* the streams that select reported and that are not served yet
  partial,   \* the write under way has transferred something
  timer,     \* ITIMER_REAL: "off" or "armed"
  flag,      \* command_timedout
  proc,      \* the state of each descendant
  fate,      \* how the child ended
  held,      \* the descriptors each process holds open
  sent, got  \* the units written to and read from each stream's pipe

parentVars == <<reaper, outcome, stopped, ready, partial>>
timerVars == <<timer, flag>>
childVars == <<proc, fate>>
dataVars == <<sent, got>>
vars == <<cfg, pc, parentVars, timerVars, childVars, held, dataVars>>

Init ==
  /\ cfg \in Configs
  /\ pc = "which"
  /\ reaper = "none" /\ outcome = Pending /\ stopped = FALSE
  /\ ready = {} /\ partial = FALSE
  /\ timer = "off" /\ flag = FALSE
  /\ proc = [p \in Descendant |-> "none"] /\ fate = NoFate
  /\ held = [p \in Proc |-> {}]
  /\ sent = [s \in Stream |-> 0] /\ got = [s \in Stream |-> 0]

-----------------------------------------------------------------------------
(* Pipes.                                                                  *)

InPipe(s) == sent[s] - got[s]
Room(s) == PipeCap - InPipe(s)
HasReader(s) == \E p \in Proc : ReadEnd[s] \in held[p]
HasWriter(s) == \E p \in Proc : WriteEnd[s] \in held[p]

WatchedButStderr == {s \in {"stdin", "stdout"} : ParentEnd[s] \in held["parent"]}
\* The streams whose pipe object still has a descriptor.
Watched == {s \in Stream : ParentEnd[s] \in held["parent"]}

\* The descriptors that select reports.
Ready ==
  {s \in Watched :
     IF s = "stdin" THEN Room(s) > 0 \/ ~HasReader(s) ELSE InPipe(s) > 0 \/ ~HasWriter(s)}

\* The text that was written is not taken out of the buffer.
NothingErased == cfg.input
Unwritten == cfg.input - sent["stdin"]

ParentCloses(ends) == held' = [held EXCEPT !["parent"] = @ \ ends]

-----------------------------------------------------------------------------
(* The parent, up to the creation of the child.                            *)

UnwindKeepingTimer(exception) == outcome' = exception /\ pc' = "kill"
UnwindWithoutReaper(exception) ==
  outcome' = exception /\ pc' = IF cfg.timeout THEN "disarm" ELSE "close"
\* An exception leaves the scope: timer_reset goes first, if it was set.
Unwind(exception) ==
  /\ outcome' = exception
  /\ pc' = IF cfg.timeout THEN "disarm" ELSE "kill"

FailBeforeFork ==
  /\ outcome' = Thrown("execution", 0)
  /\ pc' = "close"
  /\ UNCHANGED held

Which ==
  /\ pc = "which"
  /\ \/ pc' = "pipe_stdin" /\ UNCHANGED outcome
     \/ /\ pc' = "done"
        /\ outcome' = IF cfg.throwExit THEN Thrown("child_exit", 127) ELSE Returned(FALSE, 127)
  /\ UNCHANGED <<cfg, reaper, stopped, ready, partial, timerVars, childVars, held, dataVars>>

AfterPipe == [stdin |-> "pipe_stdout", stdout |-> "pipe_stderr", stderr |-> "fork"]
PipeStep == [stdin |-> "pipe_stdin", stdout |-> "pipe_stdout", stderr |-> "pipe_stderr"]

OpenPipe(s) ==
  /\ pc = PipeStep[s]
  /\ s = "stderr" => cfg.stderr = "pipe"
  /\ \/ /\ held' = [held EXCEPT !["parent"] = @ \cup {ReadEnd[s], WriteEnd[s]}]
        /\ pc' = AfterPipe[s]
        /\ UNCHANGED outcome
     \/ FailBeforeFork
  /\ UNCHANGED <<cfg, reaper, stopped, ready, partial, timerVars, childVars, dataVars>>

\* stderr goes to the stdout pipe or to /dev/null, whose open is not checked.
RedirectStderr ==
  /\ pc = "pipe_stderr"
  /\ cfg.stderr # "pipe"
  /\ pc' = "fork"
  /\ \/ UNCHANGED held
     \/ cfg.stderr = "null" /\ held' = [held EXCEPT !["parent"] = @ \cup {"dev_null"}]
  /\ UNCHANGED <<cfg, parentVars, timerVars, childVars, dataVars>>

InheritedAnyway == IF cfg.merge THEN cfg.before ELSE {}
\* The variables that are taken over: the locale only with inherit_locale.
Inherited ==
  IF cfg.merge THEN IF cfg.inherit THEN cfg.before ELSE cfg.before \ LocaleVariable ELSE {}

\* create_environment: the entries for one variable in the order in which the
\* child finds them, each as the place its value is from.
Entries(v) ==
  LET If(condition, from) == IF condition THEN <<from>> ELSE <<>>
      notGiven == v \in LocaleVariable \ cfg.given IN
  If(v \in Inherited, "caller") \o If(v \in cfg.given, "map")
    \o If(notGiven /\ cfg.inherit /\ v \in cfg.before, "caller")
    \o If(notGiven /\ ~cfg.inherit, "C")

CreateChild ==
  /\ pc = "fork"
  /\ \/ /\ proc' = [proc EXCEPT !["child"] = "forked"]
        /\ held' = [held EXCEPT !["child"] = held["parent"]]
        /\ pc' = "release"
        /\ UNCHANGED outcome
     \/ FailBeforeFork /\ UNCHANGED proc
  /\ UNCHANGED <<cfg, reaper, stopped, ready, partial, timerVars, fate, dataVars>>

\* vfork suspends the parent until the child has called execve or _exit.
ReleaseUnused ==
  /\ pc = "release"
  /\ cfg.threadSafe \/ proc["child"] \notin {"forked", "grouped"}
  /\ ParentCloses(ChildEnds \cup IF cfg.input = NoInput THEN {"stdin_write"} ELSE {})
  /\ reaper' = "kill"
  /\ pc' = IF cfg.timeout THEN "timer" ELSE "pid_callback"
  /\ UNCHANGED <<cfg, outcome, stopped, ready, partial, timerVars, childVars, dataVars>>

\* sigaction or setitimer fails before timer_reset is set.
SetTimer ==
  /\ pc = "timer"
  /\ \/ timer' = "armed" /\ pc' = "pid_callback" /\ UNCHANGED outcome
     \/ outcome' = Thrown("execution", 0) /\ pc' = "kill" /\ UNCHANGED timer
  /\ UNCHANGED <<cfg, reaper, stopped, ready, partial, flag, childVars, held, dataVars>>

PidCallback ==
  /\ pc = "pid_callback"
  /\ \/ pc' = "poll" /\ UNCHANGED outcome
     \/ cfg.callbacks /\ Unwind(Thrown("callback", 0))
  /\ UNCHANGED <<cfg, reaper, stopped, ready, partial, timerVars, childVars, held, dataVars>>

-----------------------------------------------------------------------------
(* rw_from_child.  Leaving it destroys the pipe objects.                   *)

LeaveStreams ==
  /\ ParentCloses(ParentEnds)
  /\ ready' = {}

ThrowFromStreams(exception) == LeaveStreams /\ Unwind(exception)

ReturnFromStreams == LeaveStreams /\ pc' = "flush" /\ UNCHANGED outcome

Poll ==
  /\ pc = "poll"
  /\ \/ flag /\ ThrowFromStreams(Thrown("timeout", 0))
     \/ ~flag /\ Watched = {} /\ ReturnFromStreams
     \/ ~flag /\ Watched # {} /\ pc' = "select" /\ UNCHANGED <<outcome, ready, held>>
  /\ UNCHANGED <<cfg, reaper, stopped, partial, timerVars, childVars, dataVars>>

SelectReady ==
  /\ pc = "select"
  /\ Ready # {}
  /\ ready' = Ready
  /\ pc' = "serve"
  /\ UNCHANGED <<cfg, reaper, outcome, stopped, partial, timerVars, childVars, held, dataVars>>

SelectNeverExpires == pc = "select" /\ FALSE /\ UNCHANGED vars
\* Only with a timeout does select itself time out, after 500 ms.
SelectExpires ==
  /\ pc = "select"
  /\ cfg.timeout
  /\ Ready = {}
  /\ pc' = "poll"
  /\ UNCHANGED <<cfg, parentVars, timerVars, childVars, held, dataVars>>

SelectFails ==
  /\ pc = "select"
  /\ ThrowFromStreams(Thrown("execution", 0))
  /\ UNCHANGED <<cfg, reaper, stopped, partial, timerVars, childVars, dataVars>>

\* The pipes are served in the order of the array: stdout, stderr, stdin.
Turn(s) ==
  /\ s \in ready
  /\ s = "stderr" => "stdout" \notin ready
  /\ s = "stdin" => ready = {"stdin"}

Served(s) ==
  /\ ready' = ready \ {s}
  /\ pc' = IF ready = {s} THEN "poll" ELSE "serve"
  /\ UNCHANGED outcome

ReadEof(s) ==
  /\ pc = "serve"
  /\ Turn(s)
  /\ InPipe(s) = 0
  /\ ParentCloses({ParentEnd[s]})
  /\ Served(s)
  /\ UNCHANGED <<cfg, reaper, stopped, partial, timerVars, childVars, dataVars>>

\* read, then the callback: it goes on, asks to stop, or throws.
ReadData(s) ==
  /\ pc = "serve"
  /\ Turn(s)
  /\ \E n \in 1..InPipe(s) : got' = [got EXCEPT ![s] = @ + n]
  /\ \/ Served(s) /\ UNCHANGED <<held, stopped>>
     \/ cfg.callbacks /\ stopped' = TRUE /\ ReturnFromStreams
     \/ cfg.callbacks /\ ThrowFromStreams(Thrown("callback", 0)) /\ UNCHANGED stopped
  /\ UNCHANGED <<cfg, reaper, partial, timerVars, childVars, sent>>

\* A write of nothing returns 0, which closes stdin; any other blocks until
\* all of the text is in the pipe, for the descriptor is a blocking one.
BeginWrite ==
  /\ pc = "serve"
  /\ Turn("stdin")
  /\ partial' = FALSE
  /\ \/ Unwritten = 0 /\ ParentCloses({"stdin_write"}) /\ Served("stdin")
     \/ Unwritten > 0 /\ pc' = "write" /\ UNCHANGED <<outcome, ready, held>>
  /\ UNCHANGED <<cfg, reaper, stopped, timerVars, childVars, dataVars>>

WriteSome ==
  /\ pc = "write"
  /\ HasReader("stdin")
  /\ \E n \in 1..Room("stdin") :
       /\ n <= Unwritten
       /\ sent' = [sent EXCEPT !["stdin"] = @ + n]
       /\ IF n = Unwritten THEN Served("stdin") ELSE UNCHANGED <<pc, outcome, ready>>
  /\ partial' = TRUE
  /\ UNCHANGED <<cfg, reaper, stopped, timerVars, childVars, held, got>>

AnyEpipeIsFine == ~partial
\* A child that does not read is fine if the caller said so.
EpipeIsFine == ~partial /\ cfg.allowUnread

\* Nobody can read stdin any more.  Unless the caller ignores SIGPIPE the
\* signal ends the calling process; if it does, write reports what it had
\* written, or EPIPE.
WriteBroken ==
  /\ pc = "write"
  /\ ~HasReader("stdin")
  /\ \/ /\ ~cfg.sigpipeIgnored
        /\ pc' = "dead" /\ outcome' = Thrown("sigpipe", 0)
        /\ held' = [held EXCEPT !["parent"] = {}]
        /\ ready' = {}
     \/ cfg.sigpipeIgnored /\ partial /\ Served("stdin") /\ UNCHANGED held
     \/ /\ cfg.sigpipeIgnored /\ EpipeIsFine
        /\ ParentCloses({"stdin_write"}) /\ Served("stdin")
     \/ /\ cfg.sigpipeIgnored /\ ~partial /\ ~EpipeIsFine
        /\ ThrowFromStreams(Thrown("execution", 0))
  /\ UNCHANGED <<cfg, reaper, stopped, partial, timerVars, childVars, dataVars>>

-----------------------------------------------------------------------------
(* The end of the call.                                                    *)

\* The rest of process_streams: the callbacks get the last, unfinished line.
Flush ==
  /\ pc = "flush"
  /\ \/ pc' = "wait" /\ reaper' = "wait" /\ UNCHANGED outcome
     \/ cfg.callbacks /\ Unwind(Thrown("callback", 0)) /\ UNCHANGED reaper
  /\ UNCHANGED <<cfg, stopped, ready, partial, timerVars, childVars, held, dataVars>>

\* static_cast<char>, where char is signed
AsChar(c) == IF c > 127 THEN c - 256 ELSE c

\* What the status means for the caller.  If SIGCHLD is ignored waitpid fails
\* with ECHILD, which leaves the status 0 but does not set `success'.
Verdict ==
  IF cfg.sigchldIgnored THEN Returned(FALSE, 0)
  ELSE LET code == AsChar(fate.code) IN
       CASE fate.kind = "exit" /\ code # 0 /\ cfg.throwExit -> Thrown("child_exit", code)
         [] fate.kind = "signal" /\ cfg.throwSignal -> Thrown("child_signal", code)
         [] OTHER -> Returned(fate = Exited(0), code)

\* The reaper's waitpid; a signal only makes it wait again.
WaitChild ==
  /\ pc \in {"wait", "reap"}
  /\ proc["child"] = "dead"
  /\ proc' = [proc EXCEPT !["child"] = "reaped"]
  /\ reaper' = "spent"
  /\ IF pc = "wait"
     THEN outcome' = Verdict /\ pc' = IF cfg.timeout THEN "disarm" ELSE "close"
     ELSE pc' = "close" /\ UNCHANGED outcome
  /\ UNCHANGED <<cfg, stopped, ready, partial, timerVars, fate, held, dataVars>>

\* The destructor of timer_reset: first the timer, then the flag.
DisarmTimer ==
  /\ pc = "disarm"
  /\ timer' = "off"
  /\ pc' = "clear"
  /\ UNCHANGED <<cfg, parentVars, flag, childVars, held, dataVars>>

ReaperFiresTwice == reaper # "none"
\* The destructor of the reaper has a callback left to call.
ReaperPending == reaper = "kill"

ClearFlag ==
  /\ pc = "clear"
  /\ flag' = FALSE
  /\ pc' = IF ReaperPending THEN "kill" ELSE "close"
  /\ UNCHANGED <<cfg, parentVars, timer, childVars, held, dataVars>>

GroupWithoutHeirs == {p \in {"child"} : proc[p] \in {"grouped", "running"}}
GroupNotMade == {}
\* The processes of the group that setpgid in the child made, if it did yet.
Group == {p \in Descendant : proc[p] \in {"grouped", "running"}}

\* kill(-child, SIGKILL) in the reaper, which ignores that no such group exists.
KillGroup ==
  /\ pc = "kill"
  /\ pc' = "reap"
  /\ proc' = [p \in Descendant |-> IF p \in Group THEN "dead" ELSE proc[p]]
  /\ fate' = IF "child" \in Group THEN Signaled(SIGKILL) ELSE fate
  /\ held' = [p \in Proc |-> IF p \in Group THEN {} ELSE held[p]]
  /\ UNCHANGED <<cfg, parentVars, timerVars, dataVars>>

CloseRest ==
  /\ pc = "close"
  /\ ParentCloses(Descriptor)
  /\ pc' = "done"
  /\ UNCHANGED <<cfg, parentVars, timerVars, childVars, dataVars>>

Over == pc \in {"done", "dead"} /\ UNCHANGED vars

Parent ==
  \/ Which \/ RedirectStderr \/ CreateChild \/ ReleaseUnused \/ SetTimer \/ PidCallback
  \/ Poll \/ SelectReady \/ SelectExpires \/ BeginWrite \/ WriteSome
  \/ WriteBroken \/ Flush \/ WaitChild \/ DisarmTimer \/ ClearFlag \/ KillGroup \/ CloseRest
  \/ \E s \in Stream : OpenPipe(s)
  \/ \E s \in Output : ReadEof(s) \/ ReadData(s)

-----------------------------------------------------------------------------
(* SIGALRM: timer_handler runs, and a select or write that has begun and   *)
(* transferred nothing fails with EINTR, a write that has begun otherwise  *)
(* returns early; in both cases the loop goes on.  The signal can also     *)
(* come just before the system call, and then does not interrupt it.       *)

Alarm ==
  /\ timer = "armed"
  /\ pc # "dead"
  /\ timer' = "off"
  /\ flag' = TRUE
  /\ \/ UNCHANGED <<pc, ready, outcome>>
     \/ pc = "select" /\ pc' = "poll" /\ UNCHANGED <<ready, outcome>>
     \/ pc = "write" /\ Served("stdin")
  /\ UNCHANGED <<cfg, reaper, stopped, partial, childVars, held, dataVars>>

-----------------------------------------------------------------------------
(* The child before execve: exec_child.                                    *)

Dies(f) ==
  /\ proc' = [proc EXCEPT !["child"] = "dead"]
  /\ fate' = f
  /\ held' = [held EXCEPT !["child"] = {}]

\* Any failing call ends the child with errno.
ExecFails ==
  /\ proc["child"] \in {"forked", "grouped"}
  /\ \E errno \in ExitCodes \cap 1..127 : Dies(Exited(errno))
  /\ UNCHANGED <<cfg, pc, parentVars, timerVars, dataVars>>

SetGroup ==
  /\ proc["child"] = "forked"
  /\ proc' = [proc EXCEPT !["child"] = "grouped"]
  /\ UNCHANGED <<cfg, pc, parentVars, timerVars, fate, held, dataVars>>

\* The descriptors given to dup2 for the child.
ChildStderr == CASE cfg.stderr = "pipe" -> "stderr_write"
                 [] cfg.stderr = "stdout" -> "stdout_write"
                 [] cfg.stderr = "null" -> "dev_null"

KeptWithStdin == {"stdin_read", "stdin_write", "stdout_write", ChildStderr}
\* What is open after everything above stderr has been closed.
Kept == {"stdin_read", "stdout_write", ChildStderr}

\* dup2, which fails for a descriptor that is not open, closing, execve.
Exec ==
  /\ proc["child"] = "grouped"
  /\ Kept \subseteq held["child"]
  /\ proc' = [proc EXCEPT !["child"] = "running"]
  /\ held' = [held EXCEPT !["child"] = Kept]
  /\ UNCHANGED <<cfg, pc, parentVars, timerVars, fate, dataVars>>

-----------------------------------------------------------------------------
(* The program that was executed.  "any" does as it likes; "filter" copies *)
(* its input to stdout a unit at a time and exits with 0 at end of file.   *)

Filter == cfg.program = "filter"
FilterHolds == got["stdin"] > sent["stdout"]

ProgramReads(p) ==
  /\ proc[p] = "running"
  /\ "stdin_read" \in held[p]
  /\ InPipe("stdin") > 0
  /\ Filter => ~FilterHolds
  /\ got' = [got EXCEPT !["stdin"] = @ + 1]
  /\ UNCHANGED <<cfg, pc, parentVars, timerVars, childVars, held, sent>>

ProgramWrites(p, s) ==
  /\ proc[p] = "running"
  /\ WriteEnd[s] \in held[p]
  /\ HasReader(s)
  /\ Room(s) > 0
  /\ IF Filter THEN s = "stdout" /\ FilterHolds ELSE sent[s] < MaxSent
  /\ sent' = [sent EXCEPT ![s] = @ + 1]
  /\ UNCHANGED <<cfg, pc, parentVars, timerVars, childVars, held, got>>

ProgramCloses(p) ==
  /\ proc[p] = "running"
  /\ ~Filter
  /\ \E d \in held[p] : held' = [held EXCEPT ![p] = @ \ {d}]
  /\ UNCHANGED <<cfg, pc, parentVars, timerVars, childVars, dataVars>>

ProgramEnds ==
  /\ proc["child"] = "running"
  /\ \/ ~Filter /\ \E c \in ExitCodes : Dies(Exited(c))
     \/ ~Filter /\ Dies(Signaled(SIGTERM))
     \/ /\ Filter /\ ~FilterHolds
        /\ InPipe("stdin") = 0 /\ ~HasWriter("stdin")
        /\ Dies(Exited(0))
     \/ Filter /\ ~HasReader("stdout") /\ Dies(Signaled(SIGTERM))
  /\ UNCHANGED <<cfg, pc, parentVars, timerVars, dataVars>>

\* A descendant inherits the descriptors; it stays in the process group.
Spawn ==
  /\ proc["child"] = "running"
  /\ proc["heir"] = "none"
  /\ ~Filter
  /\ proc' = [proc EXCEPT !["heir"] = "running"]
  /\ held' = [held EXCEPT !["heir"] = held["child"]]
  /\ UNCHANGED <<cfg, pc, parentVars, timerVars, fate, dataVars>>

HeirEnds ==
  /\ proc["heir"] = "running"
  /\ proc' = [proc EXCEPT !["heir"] = "dead"]
  /\ held' = [held EXCEPT !["heir"] = {}]
  /\ UNCHANGED <<cfg, pc, parentVars, timerVars, fate, dataVars>>

Program ==
  \/ ProgramEnds \/ Spawn \/ HeirEnds
  \/ \E p \in Descendant : ProgramReads(p) \/ ProgramCloses(p)
  \/ \E p \in Descendant, s \in Output : ProgramWrites(p, s)

Child == ExecFails \/ SetGroup \/ Exec

Next == Parent \/ SelectFails \/ Alarm \/ Child \/ Program \/ Over

Spec == Init /\ [][Next]_vars

\* The caller's thread is scheduled, time passes, and the kernel runs the code
\* between fork and execve.  Nothing is assumed of a program that does as it
\* likes, nor that select ever fails; "filter" goes on as long as it can.
FairSpec ==
  /\ Spec
  /\ WF_vars(Parent) /\ WF_vars(Alarm) /\ WF_vars(Child)
  /\ WF_vars(Filter /\ Program)

-----------------------------------------------------------------------------
(* Properties.                                                             *)

Point == {"which", "pipe_stdin", "pipe_stdout", "pipe_stderr", "fork", "release", "timer",
          "pid_callback", "poll", "select", "serve", "write", "flush", "wait", "disarm",
          "clear", "kill", "reap", "close", "done", "dead"}

Outcome == [kind : {"pending", "result", "child_exit", "child_signal", "execution",
                    "timeout", "callback", "sigpipe"}, ok : BOOLEAN, code : Int]

ControlOK == pc \in Point /\ reaper \in {"none", "kill", "wait", "spent"}

CallOK ==
  /\ cfg \in Configs
  /\ stopped \in BOOLEAN /\ partial \in BOOLEAN /\ ready \in SUBSET Stream
  /\ timer \in {"off", "armed"} /\ flag \in BOOLEAN

ProcessOK ==
  /\ proc \in [Descendant -> {"none", "forked", "grouped", "running", "dead", "reaped"}]
  /\ fate \in [kind : {"none", "exit", "signal"}, code : 0..255]

\* No pipe holds more than its capacity and nothing is read before it is written.
DataOK ==
  /\ sent \in [Stream -> Nat] /\ got \in [Stream -> Nat]
  /\ \A s \in Stream : InPipe(s) \in 0..PipeCap

\* Nothing of the input is written twice.
WrittenOnce == sent["stdin"] <= (IF cfg.input = NoInput THEN 0 ELSE cfg.input)

\* The state has its types, pipes keep to their capacity, and the parent sends
\* each unit of the input once.
TypeOK ==
  /\ ControlOK /\ CallOK /\ ProcessOK /\ DataOK /\ WrittenOnce
  /\ outcome \in Outcome
  /\ held \in [Proc -> SUBSET Descriptor]

\* However execute() leaves - by a result or by any exception - it leaves no
\* descriptor open, no timer armed, command_timedout false and no zombie.
LeavesNothing ==
  pc = "done" =>
    /\ held["parent"] = {}
    /\ timer = "off" /\ ~flag
    /\ proc["child"] \in {"none", "reaped"}

\* The outcomes that say how the child ended.
Normal == outcome.kind \in {"result", "child_exit", "child_signal"} /\ reaper = "spent"

\* Unless a callback stopped it, a call that reports how the child ended has
\* read all that the child and its descendants wrote, and none can write more.
OutputComplete ==
  Normal /\ ~stopped => \A s \in Output : got[s] = sent[s] /\ ~HasWriter(s)

\* Such a call has also written all of the input, unless the caller allowed
\* the child not to read it.
InputWritten ==
  Normal /\ ~stopped /\ cfg.input # NoInput /\ ~cfg.allowUnread => Unwritten = 0

\* What the child is promised to find (execution.hpp, execution_options): the
\* value given; else for the locale C, or the caller's with inherit_locale;
\* else the caller's, with merge_environment only.
Promised(v) ==
  CASE v \in cfg.given -> {"map"}
    [] v \in LocaleVariable \ cfg.given /\ ~cfg.inherit -> {"C"}
    [] v \in cfg.before \ cfg.given /\ (IF v \in LocaleVariable THEN cfg.inherit ELSE cfg.merge)
         -> {"caller"}
    [] OTHER -> {}

\* The child finds no value of a variable but the one it is promised.  Nothing
\* is said of a variable that is both inherited and given: the child then gets
\* both entries, the inherited one first, though execution.hpp:69 says of
\* inherit_locale "Will not override those variables if explicitly passed in an
\* environment map".
ChildEnvironment ==
  proc["child"] # "none" =>
    \A v \in Variable \ (Inherited \cap cfg.given) :
      {Entries(v)[i] : i \in DOMAIN Entries(v)} = Promised(v)

\* The exceptions that are thrown whatever became of the child.
Failed == outcome.kind \in {"timeout", "callback", "execution"}

\* Once execute() has thrown while the child existed, neither the child nor
\* any process of its group is left running (timeout_exception: "the process
\* that timed out and was killed").
GroupGone ==
  pc = "done" /\ Failed => \A p \in Descendant : proc[p] \in {"none", "dead", "reaped"}

\* With vfork, where the child has its group before the parent resumes.
GroupGoneAfterVfork == ~cfg.threadSafe => GroupGone

\* kill(-child) is sent only for an exception, and never once the child has
\* been waited for, when its process id may be another's.  (A caller that
\* ignores SIGCHLD has its children waited for as they end, by the system.)
KillsOwnChild ==
  [][pc = "kill" /\ ~cfg.sigchldIgnored =>
       proc["child"] \notin {"none", "reaped"} /\ Failed]_vars

Streaming == pc \in {"poll", "select", "serve", "write"}

\* With a timeout the reading and writing end, whatever the program does.
StreamingEnds == cfg.timeout /\ Streaming ~> ~Streaming

\* An exception in flight reaches the caller, whatever the program does, unless
\* the child was created with fork: then the kill may come before the child has
\* made its group, and the reaper waits for a program that nobody ends.
UnwindingEnds == Failed ~> pc = "done" \/ (cfg.threadSafe /\ pc = "reap")

\* So a child that does nothing does not hold a call up, nor, with vfork, an
\* exception.
CallGoesOn == StreamingEnds /\ UnwindingEnds

\* A call that runs the filter comes to an end: nobody waits for the other.
FilterReturns == Filter => <>(pc \in {"done", "dead"})

-----------------------------------------------------------------------------
(* A call keeps the promises of Command.  It is over for the caller at     *)
(* "done"; a caller ended by SIGPIPE sees nothing.                         *)

\* The child as the caller sees it.
ChildState ==
  CASE proc["child"] \in {"forked", "grouped", "running"} -> "alive"
    [] proc["child"] = "dead" -> "ended"
    [] proc["child"] = "reaped" -> "collected"
    [] proc["child"] = "none" -> "none"

\* What the caller has been told.
Shown == IF pc = "done" THEN outcome ELSE Pending

Promise == INSTANCE Command WITH
  Fates <- {Exited(c) : c \in ExitCodes \cup {0}} \cup {Signaled(SIGKILL), Signaled(SIGTERM)},
  Failures <- {"execution", "timeout", "callback"}, MayAbandon <- FALSE,
  child <- ChildState, outcome <- Shown

KeepsPromise == Promise!Spec
=============================================================================

# Leatherman: models and proofs

Leatherman is a C++ toolkit of small libraries. This directory models the parts of
it whose correctness depends on more than one call at a time - processes, pipes,
signals, files, connections - in TLA+. TLC checks the models on small instances
and TLAPS proves the most important properties for every value of the constants.

- [The system](#the-system) - components, state, interactions, what is hard
- [The modules](#the-modules) - what models what, and how it corresponds to the code
- [The runs](#the-runs) - what each shows, bounds, fairness
- [The proofs](#the-proofs)
- [Where code and documentation disagree](#where-code-and-documentation-disagree)
- [What is not modelled](#what-is-not-modelled)
- [Plan](#plan)

To check a model: `tlc -config Execute.cfg MCExecute`; to check a proof:
`tlapm ExecuteProofs.tla`.

## The system

| component | state | operations | hard behaviour | correct means |
|---|---|---|---|---|
| execution, POSIX | the child and its descriptors, the reaper, interval timer and `command_timedout` (process wide), buffers | `execute`, `each_line`, and their callbacks | child and parent interleave; any system call fails; a signal at any point; callbacks stop or throw; exceptions unwind through three guards | nothing is left behind; no output lost; a true report; the group killed when and only when it should be; the call ends |
| execution, common | `stdout_buffer`, `stderr_buffer` | `setup_execute`, `setup_each_line`, `process_streams`, `expand_command` | data arrive in pieces that end anywhere; the log level changes who reads stderr | the same lines whatever the pieces |
| execution, Windows | overlapped reads, waitable timer, job object, the caller's own environment | `execute` | asynchronous completion, a job that cannot be made, handles that other threads' children inherit | as on POSIX; the environment is put back |
| execution, Solaris | process contracts | `create_child` | contracts abandoned on every path | no contract left |
| file_util | files | `atomic_write_to_file`, `read`, directory iteration | a crash between two steps; writers at once; full disk | a reader finds all of one text |
| curl | handle and its options, settings, response, temporary file | `get`, `post`, `put`, `download_file` | redirects, rewinding, failure at any piece, status codes | target is whole or untouched; the response is the last one |
| ruby | the loaded VM, table of wrapped data objects, jump tags | `initialize`, `uninitialize`, `register_data_object`, `rescue`, `protect` | destructors run while the table is walked; exceptions cross the VM | an object is freed once |
| logging | level, callback, backend, sinks, colours, `g_error_logged` | `setup_logging`, `set_level`, `on_message`, `log` | globals without a lock, changed one after another | only wanted messages come out, where they belong; errors are seen |
| locale | table of locales by domain | `get_locale`, `clear_domain`, `translate`, `format` | a table changed without a lock | a locale generated once |
| dynamic_library | library handle, `first_load` | `load`, `find_by_*`, `close`, moves | ownership across moves; the host's own use of the library | closed once, by the last owner |
| json_container | a JSON value | `get`, `set`, `includes`, `keys`, `toString` | a path of keys through missing or mistyped values | `get` after `set` gives the value; failures change nothing |
| util | environment, guards | `scope_exit`, `scoped_resource`, `scoped_env`, `environment`, `option_set`, `uri`, strings, `timer` | guards that run in reverse order; a moved guard runs once | what was changed is put back |
| windows | registry keys, WMI objects | thin wrappers | - | - |

How they interact: `execute` uses util's guards (`scope_exit`, `scoped_descriptor`)
for everything it must give back and file_util to look the program up; it runs the
caller's callbacks from the middle of its reading loop; it shares ITIMER_REAL,
SIGALRM and `command_timedout` with every other call in the process, on any thread.
On Windows it changes the environment of the calling process and puts it back with
`scoped_env`. ruby finds its library with dynamic_library and execution and shares
the VM with whatever else in the process uses Ruby; curl reads a downloaded
body back with file_util; all of them log, and logging translates with locale,
whose table is therefore filled by whichever thread logs first.

The code that is hard to test, with the line at which it bites, is the list
"hazards" of PROJECT.json; the properties are there for that list.

## The modules

| module | is | of |
|---|---|---|
| Command | what a caller of `execute` is promised, on any platform | `execution.hpp` |
| Execute | one call on POSIX, with its child, a descendant, pipes, timer, signals | `execution/src/posix/execution.cc`, `generic/platform.cc` |
| ExecuteProofs | proofs about Execute | |
| SharedTimer | the timeouts of many calls in one process | `execution/src/posix/execution.cc` |
| SharedTimerProofs | proofs about SharedTimer | |
| ProcessStreams | how output becomes lines | `execution/src/execution.cc` |
| ProcessStreamsProofs | proofs about ProcessStreams | |
| AtomicWrite | `atomic_write_to_file` with many writers and crashes | `file_util/src/file.cc` |
| AtomicWriteProofs | proofs about AtomicWrite | |
| CurlClient | requests and downloads of many clients | `curl/src/client.cc` |
| CurlClientProofs | proofs about CurlClient | |
| WindowsExecute | one call on Windows, with its child, a descendant and a process of another thread | `execution/src/windows/execution.cc` |
| WindowsExecuteProofs | proofs about WindowsExecute | |
| DynamicLibrary | library objects and the handles they own | `dynamic_library/src` |
| RubyApi | the Ruby API object, its VM and native objects, next to a Ruby of the host's | `ruby/src/api.cc` |
| RubyApiProofs | proofs about RubyApi and DynamicLibrary | |
| Locale | the table of locales | `locale/src/locale.cc` |
| Logging | setting up and logging in several threads | `logging/src` |
| LoggingProofs | proofs about Logging and Locale | |
| JsonContainer | the typed JSON documents | `json_container/src/json_container.cc` |
| MC... | the instances TLC explores, one for each module that has runs | |

Execute and WindowsExecute implement Command (`KeepsPromise` is the refinement);
`MayAbandon` is how they differ: on Windows an exception may leave the child to
itself, if there is no job object to end it with. RubyApi is built on DynamicLibrary
and Logging on Locale: each extends the other's state and calls its operations. SharedTimer is
Execute's timeout with everything else taken away, so that several calls can be
explored together. ProcessStreams is what happens inside Execute's `ReadData` and
`Flush`, where Execute only counts.

### Execute

State: `pc` is where the parent is in `execute`/`rw_from_child`; `held` the
descriptors of parent, child and one descendant; `sent` and `got` count what was
written to and read from each pipe (a pipe is a FIFO: what was got is a prefix of
what was sent, so counting loses nothing); `reaper` is the `scope_exit` with its
current callback; `timer` and `flag` are ITIMER_REAL and `command_timedout`; `proc`
and `fate` the descendants; `outcome` what is about to be returned or thrown.

| action | code |
|---|---|
| `Which` | looking the program up, 127 if it is not found (456-465) |
| `Entries` | `create_environment`, the entries for one variable in their order (402-441) |
| `OpenPipe`, `RedirectStderr` | the three pipes, or stderr's other destinations (467-498) |
| `CreateChild`, `ReleaseUnused` | fork or vfork, closing what the child uses, the reaper (507-530) |
| `SetTimer`, `PidCallback` | timeout, the `pid_callback` (553-580) |
| `Poll`, `SelectReady`, `SelectExpires`, `SelectFails` | the head of the loop (215-260) |
| `ReadData`, `ReadEof`, `BeginWrite`, `WriteSome`, `WriteBroken` | serving one pipe (262-300) |
| `Flush` | what `process_streams` does after the loop |
| `WaitChild`, `DisarmTimer`, `ClearFlag`, `KillGroup`, `CloseRest` | reaper, `timer_reset` and the descriptors, as destructors run them, for a return and for an exception (531-622) |
| `SetGroup`, `Exec`, `ExecFails` | the child (308-383) |
| `Alarm` | SIGALRM: it interrupts `select` and `write` only once they have begun |
| `Program...`, `Spawn`, `HeirEnds` | what the program may do; `"filter"` copies stdin to stdout |

An exception goes through `Unwind`, which starts with the guard that C++ destroys first:
`timer_reset` if it was created, then the reaper, then the descriptors. `LeaveStreams`
closes the pipes first when the exception comes from within `rw_from_child`: they are local
to the lambda that calls it (582-592). With vfork, `ReleaseUnused` waits for the child to
have called execve or `_exit`.

### SharedTimer

`Start`, `SetTimer`, `Check`, `Again`, `Finish`, `Disarm` and `Clear` are the steps
of each call that touch the shared flag and timer. `Expire` sends the signal and
`Handle` runs `timer_handler` on `SignalThread`; `CanRun` says that a thread
handles its signals before it goes on.

### ProcessStreams

`Sink` follows `setup_execute`, `setup_each_line` and the overloads of `execute`:
who gets what is read from a stream, a callback of the caller, one that does
nothing, or the result. `ProcessData` is `process_data` for one piece of any
length; `LastLine` is what `process_streams` does with the rest of each buffer.
`Pieces` is the walk of the `split_iterator` from newline to newline and `Kept` the loop
over what it finds. The reference (`Read`, `LinesOf`) reads the text character by
character and knows nothing of pieces.

### AtomicWrite

A writer opens `path~`, changes its permissions, writes, closes and renames it to
`path`. `dir` says which file each name stands for, so that a writer which holds a
file open keeps writing to it after another has renamed it. `Kill` ends a writer
between any two calls, and `Begin` starts it again over what it left. `setting`
says whether writers take turns and whether the disk may fill up.

### CurlClient

Each client makes the calls of its plan, one after the other, with one libcurl
handle. libcurl and the servers are not part of the library: to the client they are
the order in which its callbacks are called, so a call carries the script of the
responses it gets (interim ones, redirections, the final one), and libcurl hands
them over in pieces of any length, asks for the request's body in pieces of any
length, answers early or fails anywhere.

State: `pc` and `n` say where a client is; `options` which call set each option of
the handle; `at`, `given` and `passed` how far libcurl is in the script; `offset` is
`read_offset`, with `uploaded` what reached the server; `status`, `headers`, `body`
the response object; `temp` and `fp` the temporary file; `target` the path that all
clients download to. A unit of a body names the client, call and response it is from.

| action | code |
|---|---|
| `Begin` | `curl_easy_reset`, a new response and context (208, 262) |
| `OpenTemp`, `Chmod` | the constructor of `download_temp_file` (98-121) |
| `Setup` | the options, one by one, any of which may throw (210-232, 265-281) |
| `ReadBody`; `Seek`, by `Rewind` in `NextResponse` | `read_body`, `seek_body` with what it refuses (518-553) |
| `StatusLine`, `HeaderLine`, `HeadersEnd` | `write_header` (555-600) |
| `WriteBody`, `WriteFile` | `write_body`, `write_file` (602-617) |
| `NextResponse`, `Performed`, `PerformFails` | what libcurl does next; the result of `curl_easy_perform` (234-245, 283-289) |
| `CloseFp`, `Rename`, `ReadBack` | `close_fp`, `write()`, `write(response&)` (131-156, 291-297) |
| `Cleanup` | the destructor of `download_temp_file` (123-125, 158-167) |
| `Kill` | the client's process is killed between any two steps |

An exception is `Throw`; a download then goes through `Cleanup`, as the destructor
does. `faults` says whether the disk may fill up (`fwrite` or `fclose` fails) and
whether a file can be removed.

### WindowsExecute

State: as in Execute where the code is alike. `pc` and `at` say where the parent is, `at`
the pipe that the loop in `rw_from_child` has come to; `pending` the pipes with an
overlapped read under way; `held` the handles of every process, with `Inheritable`
what a process created now would inherit; `job` the processes in the job object;
`timer` the waitable timer; `env`, `saved` and `childEnv` the caller's environment,
the vector of `scoped_env` and what the child was created with. A pipe is the number
of units in it. `stranger` is a process that another thread of the caller creates.

| action | code |
|---|---|
| `QueryJob`, `Which` | whether the caller is in a job, the program (427-452) |
| `SetEnvironment` | `merge_environment`, or the block for the child (454-518) |
| `CreatePipe`, `KeepEnd`, `RedirectStderr` | a pipe and, by a later call, that the parent's end is not inherited (117-173, 523-553) |
| `CreateProcess`, `ReleaseUnused`, `AssignToJob` | the child runs before it is in the job (555-624) |
| `SetTimer`, `PidCallback`, `CreateEvents` | (640-674) |
| `Skip`, `ScanTimesOut`, `ReadNow`, `ReadPends`, `ReadClosed`, `BeginWrite` | one turn of the loop over the pipes (272-339) |
| `WriteSome`, `WriteBroken` | the write to stdin, which is not overlapped and blocks |
| `ScanEnds`, `Complete`, `WaitTimesOut`, `IoFails` | waiting for an event and its result, after which the loop starts again from the first pipe (339-413) |
| `Flush`, `ProcessEnded`, `ProcessTimesOut`, `WaitFails`, `ExitCode` | the end of a call that read everything (676-701) |
| `Leave`, `TerminationFails`, `CloseHandles`, `RestoreEnvironment` | the reaper, whose `TerminateJobObject` may fail, the handles and the environment, as destructors run them (608-638; scoped_env.cc) |

`SeemsClosed` is what the code takes for the end of a pipe: no writer is left, or a read
of no bytes, which is what a write of no bytes by the child gives (`ProgramWritesNothing`,
`empties`). It then closes the pipe, though the child may go on writing.

The child gets the environment of the caller as it is while `scoped_env` has changed
it, so that names in other letters meet: Windows ignores case, the map does not.

### DynamicLibrary and RubyApi

DynamicLibrary counts the handles that the process has of each library (`refs`) and
has one operation per member function: `Load`, `Close`, `Move`, `FindByPattern`,
`FindBySymbol`. `visible` are the libraries whose symbols `dlsym` finds through the
handle of the program.

RubyApi adds the API object. `GetInstance`, `FindLoaded`, `TryLocation`,
`TryVariable`, `TryPath` and `Create` are `instance()` with the search for a library
(api.cc 37-144, 481-534); `Initialize`, `SetUp`, `RunOptions` and `GetValues` are
`initialize` (146-202). `Allocate`, `Register`, `Drop` and `Collect` are the life of
a native object, whose destructor unregisters it; `Uninitialize` or `Exit`, then
`Cleanup`, `FreeNext` and `FreeDone` are `uninitialize` (209-228), with the iterator
`it` between two steps, and `CloseLibrary` the rest of the destructor. The host may have
brought a Ruby up before, may do so later (`HostLoads`; `late` says that it came after the
API had chosen its library), and may clean it up and unload it (`HostCleansUp`,
`HostUnloads`). `frees` counts how often each
native object was freed.

### Locale and Logging

Locale is the map `g_locales`: `FindIn`, `InsertInto` and `EraseFrom` are what
`get_locale` and `clear_domain` do to it, each between an `Enter` and a `Leave`,
because nothing locks it. A change that meets another access is a race on
`std::map`, whose outcome is undefined: `torn` says that it has happened, and the
behaviour ends.

Logging: a call is a sequence of steps (`todo`) that the thread still has to take, so
that the calls of threads interleave at every read and write of a global.

| action | code |
|---|---|
| `Log` | the macro's check, translating and formatting (0 to 2 times `get_locale`), then `log_helper` (logging.hpp 37-83, 265-292) |
| `Find`, `Found`, `Insert`, `Inserted`, `ClearDomain`, `Erase` | `get_locale`, `clear_domain` |
| `SetupLogging`, `AddSink`, `SetCore`, `SetGlobal`, `Colorization` | `setup_logging`: all sinks removed, one added, level, colours (logging.cc 79-117) |
| `SetupSystemLog`, `EnableSystemLog`, `CleanSystemLog`, `RegisterFails` | syslog or the event log, which an event source that cannot be registered leaves without a handle |
| `SetLevel`, `SetColorization`, `OnMessage`, `ClearErrorLoggedFlag` | the setters |
| `Flag`, `Filter`, `ToSystemLog`, `ToSinks` | `log_helper`, `log_boost` (160-192) |
| `Consume`, `Write` | `color_writer::consume`, under the sink's mutex (42-77) |
| `Start` | the main thread starts the others |

`during` collects the settings that were in force during each call, to say what a
message that is put out may depend on.

### JsonContainer

A document is a value as rapidjson keeps it: members in the order they were added,
names that may occur twice in a parsed text, numbers by the types they fit in. What
`get`, `getWithDefault`, `includes`, `type`, `keys` and `toPrettyString` give is an operator
of the same name; an exception is a value (`Throw`). The steps are `Parse`, `Assign`
(constructors, assignment), `CallSetEntry` and `CallSetNested`: `SetNested` walks the
path as `set` does, creating keys as it goes. `Cut` is what `c_str` does to a key
that holds a NUL.

## The runs

| run | shows | bounds |
|---|---|---|
| Execute | `TypeOK`, `LeavesNothing`, `OutputComplete`, `InputWritten`, `GroupGoneAfterVfork`, `ChildEnvironment`, `KillsOwnChild`, `KeepsPromise` | pipes of 1 unit, 2 units per output stream, inputs of 0 and 2 units or none, exit statuses 0 and 1, one descendant, every environment of three variables; 760,876 states |
| ExecuteLive | `CallGoesOn` (`StreamingEnds`, `UnwindingEnds`), `FilterReturns` | 1 unit per stream; filter inputs of 0, 1 and 3 units; 89,939 states |
| WindowsExecute | `StreamsSound` (`TypeOK`, `AllPending`, `OutputComplete`), `JobSound` (`JobTerminated`, `SparesJob`), `EnvironmentSound` (`ChildEnvironment`, `LeavesNothing`), `KeepsPromise`, `TimeoutEnds` | pipes of 1 unit, inputs of 0, 1 and 3 units, exit codes 0 and 1, one descendant, one write of no bytes on each stream, one stranger, six maps of variables; 1,072,165 states |
| SharedTimer | `NothingLeftOver`, `OnlyTimedTimeOut`, `TimedCallsEnd` on one thread | five calls: two whose program hangs, two that end, one without a timeout |
| SharedTimerWorker | `OnlyTimedTimeOut` is violated on a thread that does not handle the signal | two calls |
| ProcessStreams | `TypeOK`, `PiecesDoNotMatter` (`NothingLost`, `AllDelivered`), `NoUnwantedStderr` | all texts of up to 4 characters on stdout and 2 on stderr over newline, blank and letter; all options; 1,066,428 states |
| AtomicWrite | `WholeInTurns`, `NeverMixed`, `ReturnsWritten` | two writers that call twice each, texts of 2 pieces, four files, full disk or not |
| CurlClient | `TypeOK`, `TargetWhole`, `ThrowLeavesTarget`, `NoTempLeft`, `KeepsNumberedErrorsOut`, `BodyIsLast`, `UploadIsBody`, `OwnOptions` | one client making two calls of any two of 7 kinds, or two downloading at once; bodies of up to 2 units, scripts of up to 3 responses, all faults; 344,754 states |
| CurlHttp2 | `KeepsErrorsOut` is violated by a status line of HTTP/2 | one download |
| RubyApi | `LibrarySound` (`TypeOK`, `HandlesOwned`, `LibraryHeld`, `ChoosesFirst`), `ObjectsSound` (`FreedOnce`, `AllFreed`, `IteratorValid`), `VmSound` (`FirstLoadRight`, `OwnVmOnly`) | two libraries, two native objects, every choice of host, places to look and platform; 74,401 states |
| Logging | `LocalesSound` (`TypeOK`, `SameLocale`, `WarmIsSafe`), `Delivered` (`Wanted`, `ErrorSeen`, `RightPlace`), `ColourEnds` | two threads with two calls each, a terminal and a file, three levels, one domain, two ids; 1,059,429 states |
| JsonContainer | `SetSound` (`TypeOK`, `FailedSetKeeps`, `SetThenGet`, `SetLocal`, `SetOnce`), `GetSound` (`TypeTellsGet`, `DefaultOnlyMissing`, `PrettyGivesText`) | two documents, two calls, paths of up to 2 of three names, eleven texts; in each of the 1,925 states all paths and ten values |

Why the bounds are enough. *Execute*: a pipe of one unit is full after one write and
empty after one read, so two units reach every order of "full", "empty", "partly
written" and "end of file" that a longer text reaches; input of two units does not
fit the pipe, which makes the write block and be interrupted halfway. One
descendant is enough to hold a pipe open after the child has died and to outlive a
kill. The proofs do not depend on any of these numbers. *ExecuteLive*: 3 is what two
pipes and the filter hold together, 4 the first that they do not. *SharedTimer*:
leftovers of one call can only hurt the next, and two hanging calls with two quick
ones meet in every order; the proofs cover any number. *ProcessStreams*: with four
characters there are up to four newlines, a piece may end before, at or after each
of them, and an unfinished line can precede and follow a complete one. *AtomicWrite*:
a second call of each writer meets every remainder the first can leave. *CurlClient*:
what one call leaves behind (options, a file, a response) can only hurt the next, and
all pairs of kinds are tried; a body of two units can be cut, and cut off, in the
middle; two clients share nothing but the path. The proofs cover the rest. *WindowsExecute*:
as for Execute; three units of input are more than pipe and program together take in
one write, and the maps have a variable under its usual name, under another, and under
both. *RubyApi*: the iterator of `uninitialize` has a next object to lose with two of
them, and a library can be the host's or another. *Logging*: a message races with two
calls of a thread that sets things up, which is what it takes to replace one setting and
restore it, or to remove a sink and add one; further calls find a state that fewer
reach. *JsonContainer*: the properties are about one `set` or `get` on any document,
and two calls make documents that no text has (aliases of a name, containers set into
others); two keys make the difference between a parent and its entry.

A property named with parts in brackets is their conjunction, the parts being
definitions of the module with their own comments; the mutants listed for it in
PROJECT.json break its parts one by one.

TLC's deadlock check is on in every run; `Over` is the step of a call, process or
thread that is finished.

Fairness. `FairSpec` of Execute assumes that the caller's thread is scheduled
(`WF(Parent)`), that time passes (`WF(Alarm)`) and that the kernel gets the child
through to execve (`WF(Child)`), which is code of this library and of the kernel
only. It assumes nothing of a program that does as it likes; only the filter, a
program that is known, goes on as long as it can. It never assumes that `select`
fails. Weak fairness is enough: once enabled, a step of the parent stays enabled,
for only the parent takes data out of the pipes it reads and only a
closed reading end, which is a step of its own, ends a write. `FairSpec` of
SharedTimer assumes that threads run, that timers expire and that signals are
handled. `FairSpec` of WindowsExecute assumes that the caller's thread is scheduled
(`WF(Parent)`, without the steps in which a system call fails) and that the timer
expires; nothing of any other process. RubyApi, Logging and JsonContainer have safety
properties only: what they do ends by itself, but for the mutex of a sink, which is
held during one step.

## The proofs

TLAPS checks these theorems for all values of the constants, i.e. for any set of
calls, capacity of a pipe, amount of data, number of calls, writers, threads, libraries
or objects, and length of text.

| theorem | property | module |
|---|---|---|
| TypeCorrect | `TypeOK` | ExecuteProofs |
| LeavesNothingHolds | `LeavesNothing` | ExecuteProofs |
| OutputIsComplete | `OutputComplete` | ExecuteProofs |
| InputIsWritten | `InputWritten` | ExecuteProofs |
| EnvironmentIsPromised | `ChildEnvironment` | ExecuteProofs |
| GroupIsGone | `GroupGoneAfterVfork` | ExecuteProofs |
| KillIsSafe | `KillsOwnChild` | ExecuteProofs |
| PromiseIsKept | `KeepsPromise` (Execute implements Command) | ExecuteProofs |
| StreamsAreSound | `StreamsSound` | WindowsExecuteProofs |
| JobIsSound | `JobSound` | WindowsExecuteProofs |
| EnvironmentIsSound | `EnvironmentSound` | WindowsExecuteProofs |
| PromiseIsKept | `KeepsPromise` (WindowsExecute implements Command) | WindowsExecuteProofs |
| StatusIsReported | stated there | ExecuteProofs |
| TypeCorrect | `TypeOK` | ProcessStreamsProofs |
| PiecesNeverMatter | `PiecesDoNotMatter` | ProcessStreamsProofs |
| StderrIsNotWanted | `NoUnwantedStderr` | ProcessStreamsProofs |
| ResultHasAll, NoLineWaits | stated there | ProcessStreamsProofs |
| NothingIsLeftOver | `NothingLeftOver` | SharedTimerProofs |
| OthersDoNotTimeOut | `OnlyTimedTimeOut` | SharedTimerProofs |
| PathIsWhole | `WholeInTurns` | AtomicWriteProofs |
| PathIsNeverMixed | `NeverMixed` | AtomicWriteProofs |
| ReturnIsWritten | `ReturnsWritten` | AtomicWriteProofs |
| TypeCorrect | `TypeOK` | CurlClientProofs |
| TargetIsWhole | `TargetWhole` | CurlClientProofs |
| ThrowKeepsTarget | `ThrowLeavesTarget` | CurlClientProofs |
| TempIsRemoved | `NoTempLeft` | CurlClientProofs |
| ErrorsAreKeptOut | `KeepsNumberedErrorsOut` | CurlClientProofs |
| BodyIsTheLast | `BodyIsLast` | CurlClientProofs |
| UploadIsTheBody | `UploadIsBody` | CurlClientProofs |
| OptionsAreOwn | `OwnOptions` | CurlClientProofs |
| LibraryIsSound | `LibrarySound` | RubyApiProofs |
| ObjectsAreSound | `ObjectsSound` | RubyApiProofs |
| VmIsSound | `VmSound` | RubyApiProofs |
| LocalesAreSound | `LocalesSound` | LoggingProofs |
| MessagesAreDelivered | `Delivered` | LoggingProofs |
| ColoursEnd | `ColourEnds` | LoggingProofs |

The constants are assumed to have their types, by the named assumptions of each module,
and little else: that special values are none of the ordinary ones (`IdAssumption`: "none"
and "classic" are not locale ids; `LibraryAssumption`: neither is "no library" a
library; no client is called "nobody"), that the caller's variables are a map, in
which a name occurs once (`GivenAssumption` of WindowsExecute), and that plans of calls
are well formed. A theorem with a hypothesis beyond that states it: `SingleThreaded` for
SharedTimer, `NoEchild` and `SmallCodes` for Execute's `PromiseIsKept`.

*ExecuteProofs.* `TypeOK` is inductive; each of its parts (`ControlOK`, `CallOK`,
`ProcessOK`, `DataOK`, `WrittenOnce`) has its lemma, one step per action. The safety properties
speak of the end of the call and say nothing of the way there, so they are
not inductive. `ExecuteInv` adds what they rest on: `ReaperInv` (which callback the
reaper has at each point, and that it is spent exactly when the child was waited
for), `TimerInv` (a timer only if asked for, off again before the child is killed),
`ParentInv` (the parent's descriptors before, during and after the streams) and
`OutputInv` (a stream the parent has let go of is drained, unless a callback
stopped the call). The step that needs all of it is end of file: `select`
reports a stream that is either not empty or has no writer, and the latter
stays so. `GroupInv` follows from vfork: the parent does not run before the child
has its group, so that the kill reaches all of it. `InputInv` says that the parent
lets go of its end of stdin only when all is written, or the caller allowed the rest
to stay unread.

`PromiseIsKept` is the refinement of Command: Init implies its Init, and each step is a step
of Command or changes nothing that Command sees (`ShownStep`, `ChildStep`). The child is
followed by its own steps, the outcome by `OutcomeInv` (nothing is promised before the
verdict, and what is returned or thrown then is the verdict on the child's `fate`),
`VerdictIsTrue` and `FateStep` (a child ends once). The two hypotheses are two defects of
the code: if SIGCHLD is ignored the status is lost (`NoEchild`), and a status from 128 on
comes out negative (`SmallCodes`); both are listed below. The calls of the run satisfy them.
`OutcomeInv` needs neither, and `StatusIsReported` says what holds without them, for all 256
statuses: no failure is reported as a success, and unless SIGCHLD is ignored each of the
exceptions is thrown exactly for the ends it is for and the code is what the cast makes of
the status.

*WindowsExecuteProofs.* The points of a call are divided into those before the child is
there (`Early`), those that start the exchange, the loop over the pipes and the way out.
`WindowsInv` has eight parts. `SeqInv` says what a point of the call implies for the reaper,
the reads under way and the outcome; `JobInv` and `ChildInv` what is in the job and how the
child ended; `ScanInv` that in a round of the loop every pipe before `at` is closed or has a
read under way, which is what `AllPending` needs when the round is over; `DrainInv` that a
pipe whose reading ended is empty and has no writer, or was written no bytes to, and stays
so: no handle for writing can come into being any more, neither by starting a descendant nor
in a process of another thread, since the parent closed its own. `EnvInv` says that the
caller's environment is what it was or that with the changes of the map, in its order, and
that `saved` holds what it takes to undo them; undoing them in the order of the vector is
right if no variable was changed twice, which is so unless the map has names in other
letters (`DistinctOverrides`, `FormerIsRestored`). `PromiseIsKept` has no hypothesis: on
Windows the exit code is not cut.

*ProcessStreamsProofs.* Both sides of `PiecesDoNotMatter` are computed from the text by
recursion: the code's by cutting data at newlines, the reference's by reading it. The
proof first turns these recursive functions into what a proof can use. `Reaches` is
induction up to a number, as a statement about a set (a set of numbers that has 0 and with
m - 1 also m has n; from `LeastOf`), so that no operator is a parameter; `Iterates`
concludes from it that what is computed step by step exists, and `ReadTakesSteps`,
`KeptTakesSteps` and `PiecesTakesSteps` say of the three functions that each step is what
their definitions say, with the sets their values are in. The lemmas about text follow:
without a newline only the open line grows (`LineGoesOn`), a newline ends it (`LineEnds`),
a line in front of others is looked at first (`KeptMore`), and, by induction from the
last newline of the data back to the first (`LoopBody`), the lines found in data that
follow an unfinished line are those the reference reads there (`LinesFound`). That is one
call of `process_data`; `LinesInv` is the invariant: while the streams are read, lines
and buffer are what the reference has given and what is open; afterwards they are all
the lines, or, when a callback stopped the call, a beginning of them
(`StreamLines`). `ResultInv` says the same of the result without a callback, `ReadInv`
how much was read, `EmptyInv` that of an empty text nothing is left or given. `TypeOK`
follows, with its claim that no buffer for a callback has a newline in it, because the
open line has none (`OpenIsOneLine`). Two more theorems put into simple words what
callers rely on: a result that no callback cut short has all of the text
(`ResultHasAll`), and no callback waits for a line that is complete (`NoLineWaits`).

*SharedTimerProofs.* `SharedInv` says that one call at most is under way and that
timer, pending signal and flag belong to it. It needs that the handler runs on the
thread of the call (`SingleThreaded`), an explicit hypothesis of the two theorems;
SharedTimerWorker shows that they fail without it.

*AtomicWriteProofs.* `WriteInv` says, of writers that take turns, that the one
whose turn it is has `path~` open (`Descriptors`) and that `path~` holds a
beginning of its text, of exactly as many pieces as it wrote unless a write failed
(`Contents`). `PutExtends` is the lemma about a write at the end of a file.

*CurlClientProofs.* `CurlInv` has one part for all clients and one for each. `Inv(c)`
says where a client is in its plan and script (`Place`), what its handle was set to
(`OptionsOf`), and that temporary file, response and request hold exactly what
libcurl has handed over or taken (`TempHolds`, `ResponseHolds`, `RequestHolds`): the
properties speak of a call that is over, but which part of a body is in a buffer has
to be known at every piece (`PartExtends`: a piece continues what came before).
`OtherInv` says that what is true of a client stays so while others move, and
`TargetHolds` that the path holds the old file or what some call of some client has
placed there; that call is over, or it is the current one and has returned
(`Placed`), from which both `ThrowLeavesTarget` and `KeepsNumberedErrorsOut` follow.
Only a rename changes the path (`OnlyRename`), and what it puts there is `TempHolds`
of a closed file.

*RubyApiProofs.* `RubyInv` has a part for each thing that is owned. `HandleInv` counts: the
handles of a library are those of the object of the search, of the API and of the host, one
each. `SearchInv` says that a place that was passed does not load. `VmInv` ties a VM to its
owner: a library that the API was the first to load has no VM of the host's (`HostVm`),
provided that the host's can be seen (`Seen`; one loaded with RTLD_LOCAL on POSIX cannot)
and did not come up later (`late`, `HostLoadsStep`), and what the API initialized stays up
until the host cleans it up (`ApiVm`). `FreesInv` says that an object was freed exactly when
Ruby has no `dfree` of it any more, and `IteratorInv` that `uninitialize` is at the first
object still registered: destructors remove the objects they belong to and collections those
before or after, but the iterator is moved on before anything is freed. Lemmas say what each
operation of DynamicLibrary does to the count (`LibrarySteps`).

*LoggingProofs.* A call is the list of the steps it still has to take. `Todo` has all the
lists there are, and the lemmas called ...Turn reduce each action to "thread t went
from one of these steps to one of those, and the others stay where they are". `LoggingInv`
has six parts: `CallInv`; `LocaleInv` (only a thread that inserts or erases changes the map,
and once the map is warm there is none: `WarmIsSafe`); `SinkInv` (one sink at most, that of
the stream set up last; none only between `remove_all_sinks` and `add_sink`); `SettingInv`;
`DuringInv` (a message on its way has met, during its call, a setting that wants it and one
that has its place, which is `Delivered` when it comes out); and `ColourInv` (what is
coloured is so for a message that is being written).

Only model-checked, and why:

- liveness (`CallGoesOn`, `FilterReturns`, `TimedCallsEnd`, `TimeoutEnds`): the proofs
  need fairness and ENABLED, which are beyond the prover;
- `SetSound` and `GetSound` of JsonContainer: a document is a tree of any depth, and
  `toPrettyString`, and what a valid document is, are RECURSIVE operators over it, of which
  the prover knows nothing. (The texts of ProcessStreams are recursive data as well, but of one
  dimension: there, recursive functions of a position and induction over numbers suffice.)

## Where code and documentation disagree

Two are shown by a run whose property is violated:

- *SharedTimerWorker*: `command_timedout` is cleared by the thread of the call while
  the handler may run later on another; the next call then times out, even if it
  has no timeout.
- *CurlHttp2*: the status is taken from the status line by an expression that asks for
  a minor version (client.cc:568). `HTTP/2 404` has none, the status stays 0, and the
  error page replaces the target.

Others that the models contain, or that came up while reading, without a run.

Executing, on POSIX and Solaris:

- the write to stdin (posix/execution.cc:270) blocks until all of the input is taken,
  and meanwhile no output is read: with any program that writes while it reads, an
  input larger than the pipes deadlocks both (`FilterReturns` is about less);
- after both output streams are closed the call waits for the child without bound
  (532), timeout or not (`StreamingEnds` ends there);
- with `thread_safe` the kill of an exception may come before the child's `setpgid`
  (529), and is then lost; the reaper waits for as long as the program likes, and the
  exception does not reach the caller before (`GroupGoneAfterVfork` is about vfork, and
  `UnwindingEnds` leaves that wait out);
- an alarm handled just before `write` begins does not interrupt it, so a call with
  a timeout can hang in it (246, 270; part of `Alarm`);
- a status of 128 or more is reported as a negative number, for it is cast to
  `char` (542; `AsChar`);
- in a process that ignores SIGCHLD a command that succeeded is reported as failed
  with status 0 (537; `Verdict`);
- `allow_stdin_unread` works only in processes that ignore SIGPIPE, which the library
  does not do or ask for (272; `WriteBroken`);
- calls with a timeout at the same time replace one another's timer and flag (571;
  SharedTimer with two threads);
- when the callback of one stream stops the call, the other stream's callback
  is still given an unfinished line (common execution.cc:503; `LastLine`);
- in the child, `directory_iterator` (351) may throw although a comment (312)
  forbids everything that is not async-signal-safe;
- with `merge_environment` a variable that is inherited and given occurs twice in the
  child's environment (423), the inherited entry first; which one counts is up to the
  program. That is so for LC_ALL and LANG with `inherit_locale` too, of which execution.hpp:69
  says "Will not override those variables if explicitly passed in an environment map"
  (`Entries`; `ChildEnvironment` says nothing of variables that are inherited and given);
- a descriptor of FD_SETSIZE or more is used in an `fd_set` (231);
- on Solaris `create_child` throws when the contract cannot be left, although the child
  exists and nothing will wait for it (solaris/platform.cc:186).

Executing, on Windows:

- the parent's end of stdin is not overlapped, although a comment says "Always creates
  overlapped pipes." (windows/execution.cc:118): a write of more than the pipe takes
  blocks, a timeout does not end it, and a filter deadlocks (`TimeoutEnds` is about
  input that fits);
- the child is assigned to its job only after it runs (620): what it starts before
  that is not in the job, a child that ends at once makes the assignment fail, and when
  making or assigning the job fails the child is left running;
- without a job (when the caller is in one that allows no other) an exception leaves
  the child running, with a warning (635; `MayAbandon`);
- `merge_environment` changes the environment of the whole process: calls on two
  threads interleave what they set and restore and can leave `LC_ALL=C` for good, and a
  map that names `lc_all` in other letters is restored in the wrong order (456);
- a child that another thread creates between `CreatePipe` and `SetHandleInformation`
  inherits the parent's end (524; `stranger`);
- leaving `rw_from_child` with a read under way frees its buffer and event before the
  pipe is closed, and does not cancel the read (664);
- a write of no bytes by the child is taken for the end of the stream (315, 390): the pipe
  is closed, what the child writes afterwards is lost, and the call ends well
  (`SeemsClosed`; `OutputComplete` leaves out the pipes on which such a write was made);
- when `TerminateJobObject` fails that is only logged, and the job goes on (631;
  `TerminationFails`, which `JobTerminated` leaves out);
- `allow_stdin_unread` is not looked at.

Files and curl:

- two writers of one path share `path~`; a reader can find a part of a text
  (file.cc:83; `WholeInTurns` is about writers that take turns);
- `atomic_write_to_file` does not look whether writing failed before it renames
  (file.cc:95; `Write`), and with `ios::app` the remains of a killed writer come
  before the next text (84);
- a download does not look at what `fclose` returns, so that on a full disk the end
  of the file may be missing (client.cc:154; `CloseFp`);
- only `perform` sets CURLOPT_FOLLOWLOCATION (212); `download_file` does not follow
  a redirection and stores its body as the file (`Final`);
- after a redirection the response has the first value of each header, from the
  redirection, with the body of the last response (response.cc:14; `HeaderLine`);
- `download_file` throws `http_file_operation_exception` and others, though
  client.hpp:316 names `http_file_download_exception` for "anything";
- a client that is moved loses its settings (client.cc:183);
- `set_supported_protocols(CURLPROTO_ALL)` sets "all" and then overwrites it with an
  empty list (346), and `#ifdef CURLOPT_PROTOCOLS_STR` (492) asks for a macro where
  libcurl has an enumerator;
- CURLOPT_ERRORBUFFER points to the stack of a call that is over until the handle's
  next reset (281).

Ruby:

- on POSIX a library that is loaded by name always counts as loaded first, and a Ruby
  that the host loaded with RTLD_LOCAL is not seen: the API then cleans up the host's
  VM (`OwnVmOnly` leaves that host out);
- a host that brings its Ruby up between `instance()` and `initialize()`, in the library that
  the API chose, has its VM cleaned up too: what `first_load` says is then out of date
  (api.cc:211; `HostLoads`, `late`);
- the handle that `find_by_symbol` gives does not keep the library loaded
  (posix/api.cc:11; `LibraryHeld` is about the other handles);
- an `initialize` that raises leaves the VM up, and never cleaned up; RUBYOPT stays changed;
- an object whose destructor does not unregister it is found in the table after it was freed;
  one that `uninitialize` freed in a host's VM is still reachable, by a dangling pointer;
- of `ruby_lib_location` a comment says "Ruby lib location was specified by the user, fix to
  that." (api.cc:489), but if it does not load there is a warning and the search goes on
  (`TryLocation`; `ChoosesFirst` does not ask for it);
- `eval` swallows an exception whose message is empty, although api.hpp:664 says "Any
  exception raised will be propagated as a C++ runtime_error", and converting a message
  may raise through C++ frames; C++ exceptions in native methods
  cross the VM's frames.

Logging, locale:

- a message between `remove_all_sinks` and `add_sink` goes to Boost.Log's default sink
  (logging.cc:82; `RightPlace` allows for it);
- setting up a stream after a system log leaves messages at the system log, and so does
  `clean_syslog` (posix/logging.cc:116; `RightPlace`);
- switching colours while a message is written leaves the terminal coloured, and on
  Windows the attributes to return to may be read while it is (windows/logging.cc:57;
  `ColourEnds` is about colours that nobody switches);
- replacing the callback while another thread calls it is a race (157), and a
  callback that logs is called again for its own message; errors that the macros leave
  out because of the level do not set the error flag;
- the table of locales has no lock, though locale.cc:47 says "Ensure creating and adding
  a new locale is thread-safe." (`torn`; `WarmIsSafe` says when it cannot matter);
- the first caller of a domain fixes its language and paths until `clear_domain`, which
  can be logging itself (`SameLocale`);
- `get_locale` catches `conversion_error` and keeps the classic locale, although
  locale.hpp:41 says that it throws.

json_container:

- `set` takes a vector of containers that `get` refuses unless all of them are objects, and
  a container of nothing is read back as `{}` (`SetThenGet` leaves them out);
- a key ends at its first NUL, a name of a parsed text does not: `toPrettyString` throws
  for it; an integer beyond 64 signed bits has the type Int, but no `get` reads it, and
  `toPrettyString` throws (`PrettyGivesText` leaves both out);
- the docs promise a `data_key_error` "in case the specified key is unknown"; when the root
  or a value on the path is no object it is a `data_type_error`, and `getWithDefault` throws a
  `data_key_error` if a parent is missing (`DefaultOnlyMissing`);
- `getWithDefault` of an empty path reads before the vector (json_container.hpp:291);
- the header's example has `get<float>` and `nullptr`, for which nothing is defined.

## What is not modelled

- In Execute: the contents of arguments and variables, the child's choice of locale,
  logging, more than one descendant, reuse of process ids, undefined behaviour for
  descriptors from FD_SETSIZE on. The descriptor numbers of `dup2` are left out:
  the pipes' descriptors are taken to be above 2.
- In ProcessStreams: the order in which pieces of the two streams arrive is free,
  and what the caller does in a callback beyond stopping is left out (throwing is
  in Execute).
- In AtomicWrite: other programs that use `path~`; power failure, for the code
  does not promise durability (it does not sync).
- In CurlClient: the settings of a client (certificates, proxy, protocols, timeouts)
  and moving it, the contents of URLs, headers and cookies, tracing; a power failure;
  other programs that write to the path. That two temporary files never have one name
  is taken from `boost::filesystem::unique_path`.
- In WindowsExecute: quoting of arguments and the search for the program, conversion to
  UTF-16, several calls at once (a stranger stands for them, as far as handles go), and
  the memory of reads that are not cancelled.
- In DynamicLibrary: a library loaded for all to see (`global`), and `find_symbol`, which
  changes nothing.
- In RubyApi: conversion of values, iteration over arrays and hashes, `eval`, `rescue` and
  `protect` with the exceptions they report. The host cleans its VM up only between calls of
  the API, when no object is under construction (`HostCleansUp`).
- In Logging: texts, namespaces and line numbers, and the race on the callback. In Locale:
  message catalogues and the formatting of translated messages.
- In JsonContainer: parsing and printing of JSON, floating point arithmetic, and calls
  whose behaviour is undefined.
- Solaris' contracts: calls of the system in a row, each of which may fail; the one
  hazard of theirs is above.
- util's strings, uri, option_set, regex, time and environment: functions of their
  arguments, or single calls of the system, which tests reach well.
- windows: thin wrappers around Win32 calls without state of their own.
- Vendored code, build files, scripts, message catalogues, the tests' helpers.

## Plan

What is left, in this order.

1. Proofs about JsonContainer as far as one level of a document goes: that a failed `set`
   leaves the document as it was, and a `set` of an entry leaves the other entries alone.
   It takes `At`, `Put` and `SetNested` as recursive functions, in a module without the
   RECURSIVE operators, and the lemmas `Reaches` and `Iterates` of ProcessStreamsProofs.
2. That a call of SharedTimer is Execute's, step by step: Execute's alarm would have to be
   sent and handled in two steps.
3. Models of Solaris' contracts (as a refinement of Command's `Create`), of curl's
   settings and moves, and the pure functions of util, against references.

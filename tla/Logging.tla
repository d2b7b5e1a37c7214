-------------------------------- MODULE Logging --------------------------------
(***************************************************************************)
(* The logging of a process (logging/src): its globals, Boost.Log's core   *)
(* and sinks, and the locales of the messages.  One thread sets logging up *)
(* and logs; it starts others, which log and translate at the same time.   *)
(* Nothing here takes a lock but the sink while it writes.                 *)
(*                                                                         *)
(* Of the calls that race, those on the map of locales are modelled up to  *)
(* the race, where the behaviour ends (torn).  The callback is replaced    *)
(* only when no other thread is logging, which logging.hpp leaves unsaid.  *)
(***************************************************************************)
EXTENDS Locale, Sequences, SequencesExt

CONSTANTS
  Main,       \* the thread that sets logging up
  Stream,     \* the streams to log to
  Tty,        \* those that color_supported finds to be terminals
  Level,      \* the log levels that occur, as log_level numbers them
  Project,    \* PROJECT_NAME
  MaxCalls    \* how many calls each thread makes at most

NoneLevel == 0
Warning == 4
Error == 5

ASSUME LevelAssumption == Level \subseteq 0..6 /\ NoneLevel \in Level /\ Warning \in Level
ASSUME ThreadAssumption == Main \in Thread /\ Project \in Domain /\ Tty \subseteq Stream
ASSUME CallsAssumption == MaxCalls \in [Thread -> Nat]

DefaultId == ""
ASSUME DefaultAssumption == DefaultId \in Id

Default == "default"   \* Boost.Log's default sink, the standard output
NoStream == "no stream"

VARIABLES
  platform,   \* "posix" or "windows"
  todo,       \* the steps each thread's call still has to take
  arg,        \* the arguments of the call
  pending,    \* the sinks that the thread's record still goes to
  writing,    \* the sink whose mutex the thread holds, NoSink for none
  level, backend, colorize, errorLogged, callback,   \* the globals
  logEnabled, \* whether Boost.Log's core is enabled
  sinks,      \* its sinks
  opened,     \* the event log's handle, or openlog's connection
  console,    \* Windows: stdHandle and originalAttributes
  tinted,     \* the streams whose text is coloured now
  latest,     \* the stream given to setup_logging last
  out,        \* the message that the last step put out, or Nothing
  calls, clears, started, warm, disturbed, during    \* history

globals == <<level, backend, colorize, errorLogged, callback>>
sinkVars == <<logEnabled, sinks, latest>>
writeVars == <<pending, writing, tinted, disturbed>>
historyVars == <<calls, clears, started, warm>>
vars == <<platform, todo, arg, globals, sinkVars, opened, console, writeVars, out, historyVars,
          during, localeVars>>

NoSink == [n |-> 0, stream |-> NoStream]
NoArg == [level |-> NoneLevel, stream |-> NoStream, domain |-> Project,
          id |-> DefaultId, paths |-> {}]
Nothing == [by |-> Main, level |-> NoneLevel, to |-> NoStream]

Init ==
  /\ LocaleInit
  /\ platform \in {"posix", "windows"}
  /\ todo = [t \in Thread |-> <<>>] /\ arg = [t \in Thread |-> NoArg]
  /\ pending = [t \in Thread |-> {}] /\ writing = [t \in Thread |-> NoSink]
  /\ level = NoneLevel /\ backend = "file" /\ colorize = FALSE
  /\ errorLogged = FALSE /\ callback = "none"
  /\ logEnabled = TRUE /\ sinks = {} /\ latest = Default
  /\ opened = FALSE /\ console = [handle |-> NoStream, tinted |-> FALSE] /\ tinted = {}
  /\ out = Nothing
  /\ calls = [t \in Thread |-> 0] /\ clears = 0 /\ started = {Main}
  /\ warm = FALSE /\ disturbed = FALSE
  /\ during = [t \in Thread |-> {}]

EnabledAtNone(l) == l >= level
IsEnabled(l) == level # NoneLevel /\ l >= level

Busy == \E t \in Thread : writing[t] # NoSink

-----------------------------------------------------------------------------
(* Calls and their steps.                                                  *)

\* What is in force; during collects it for each thread that is logging.
Places == IF backend # "file" THEN {backend}
          ELSE {latest} \cup IF Contains(todo[Main], "add") THEN {Default} ELSE {}
Setting == [level |-> level, callback |-> callback, places |-> Places, clears |-> clears]
Logs(steps) == steps # <<>> /\ Last(steps) \in {"dispatch", "consume", "write"}
Observes ==
  during' = [t \in Thread |-> IF Logs(todo'[t]) THEN during[t] \cup {Setting} ELSE {}]

PutsOut(t, to) == out' = [by |-> t, level |-> arg[t].level, to |-> to]
PutsOutNothing == out' = Nothing

At(t, step) == ~torn /\ todo[t] # <<>> /\ Head(todo[t]) = step
Moves(t, steps) ==
  /\ todo' = [todo EXCEPT ![t] = steps]
  /\ arg' = IF steps = <<>> THEN [arg EXCEPT ![t] = NoArg] ELSE arg
  /\ Observes
  /\ UNCHANGED <<platform, historyVars>>
Goes(t, steps) == Moves(t, steps) /\ PutsOutNothing
GoesOn(t) == Goes(t, Tail(todo[t]))

Free(t) == ~torn /\ t \in started /\ todo[t] = <<>> /\ calls[t] < MaxCalls[t]

Calls(t, a, steps) ==
  /\ Free(t)
  /\ todo' = [todo EXCEPT ![t] = steps]
  /\ arg' = [arg EXCEPT ![t] = a]
  /\ calls' = [calls EXCEPT ![t] = @ + 1]
  /\ Observes /\ PutsOutNothing
  /\ UNCHANGED <<platform, started>>

MessageArg(l) == [NoArg EXCEPT !.level = l, !.paths = {"project"}]

\* get_locale is called for a message's text and again to format it, or not
\* at all for log_helper, which also does without the check of the macros.
Log(t, l) ==
  /\ \E lookups \in 0..2 :
       /\ lookups = 0 \/ IsEnabled(l)
       /\ Calls(t, MessageArg(l),
                [i \in 1..lookups |-> "find"] \o <<"flag", "filter", "dispatch">>)
  /\ UNCHANGED <<globals, sinkVars, opened, console, writeVars, clears, warm, localeVars>>

Translate(t) ==
  /\ Calls(t, MessageArg(NoneLevel), <<"find">>)
  /\ UNCHANGED <<globals, sinkVars, opened, console, writeVars, clears, warm, localeVars>>

-----------------------------------------------------------------------------
(* get_locale and clear_domain.                                            *)

Find(t) ==
  /\ At(t, "find")
  /\ Enter(t, "reading")
  /\ Goes(t, <<"found">> \o Tail(todo[t]))
  /\ UNCHANGED <<globals, sinkVars, opened, console, writeVars>>

Found(t) ==
  /\ At(t, "found")
  /\ FindIn(t, arg[t].domain)
  /\ Goes(t, (IF Has(arg[t].domain) THEN <<>> ELSE <<"insert">>) \o Tail(todo[t]))
  /\ UNCHANGED <<globals, sinkVars, opened, console, writeVars>>

Insert(t) ==
  /\ At(t, "insert")
  /\ Enter(t, "changing")
  /\ Goes(t, <<"inserted">> \o Tail(todo[t]))
  /\ UNCHANGED <<globals, sinkVars, opened, console, writeVars>>

Inserted(t) ==
  /\ At(t, "inserted")
  /\ InsertInto(t, arg[t].domain, arg[t])
  /\ GoesOn(t)
  /\ UNCHANGED <<globals, sinkVars, opened, console, writeVars>>

ClearDomain(d) ==
  /\ Calls(Main, [NoArg EXCEPT !.domain = d], <<"erase">>)
  /\ Enter(Main, "changing")
  /\ warm' = FALSE
  /\ UNCHANGED <<globals, sinkVars, opened, console, writeVars, clears>>

Erase ==
  /\ At(Main, "erase")
  /\ EraseFrom(Main, arg[Main].domain)
  /\ GoesOn(Main)
  /\ UNCHANGED <<globals, sinkVars, opened, console, writeVars>>

-----------------------------------------------------------------------------
(* Setting up.                                                             *)

KeepSinks == sinks
\* remove_all_sinks
NoSinks == {}

\* With use_locale the stream gets the locale of the domain, looked for in no
\* path of the project's.
SetupLogging(s, d, id, imbue) ==
  /\ Calls(Main, [level |-> Warning, stream |-> s, domain |-> d, id |-> id, paths |-> {}],
           <<"add">> \o imbue \o <<"core", "level", "color">>)
  /\ sinks' = NoSinks /\ latest' = s
  /\ disturbed' = (disturbed \/ Busy)
  /\ UNCHANGED <<globals, logEnabled, opened, console, pending, writing, tinted, clears, warm,
                 localeVars>>

AddedFirst == {}
\* The sink is added after the others are removed.
Added == sinks \cup {[n |-> calls[Main], stream |-> arg[Main].stream]}

AddSink ==
  /\ At(Main, "add")
  /\ sinks' = Added
  /\ GoesOn(Main)
  /\ UNCHANGED <<globals, logEnabled, latest, opened, console, writeVars, localeVars>>

\* color_supported notes the console's attributes as they are now.
Colorization ==
  /\ At(Main, "color")
  /\ colorize' = (arg[Main].stream \in Tty)
  /\ console' = IF platform = "windows" /\ colorize'
                THEN [handle |-> arg[Main].stream, tinted |-> arg[Main].stream \in tinted]
                ELSE console
  /\ disturbed' = (disturbed \/ Busy)
  /\ GoesOn(Main)
  /\ UNCHANGED <<level, backend, errorLogged, callback, sinkVars, opened, pending, writing,
                 tinted, localeVars>>

\* openlog or RegisterEventSource.  An unknown facility changes nothing.
SetupSystemLog ==
  /\ Calls(Main, [NoArg EXCEPT !.level = Warning], <<"core", "level", "system">>)
  /\ opened' = TRUE
  /\ UNCHANGED <<globals, sinkVars, console, writeVars, clears, warm, localeVars>>

\* RegisterEventSource may fail: there is no handle then, even if there was one,
\* and nothing else is changed.
RegisterFails ==
  /\ platform = "windows"
  /\ Calls(Main, NoArg, <<>>)
  /\ opened' = FALSE
  /\ UNCHANGED <<globals, sinkVars, console, writeVars, clears, warm, localeVars>>

SystemLog == IF platform = "posix" THEN "syslog" ELSE "eventlog"

EnableSystemLog ==
  /\ At(Main, "system")
  /\ backend' = SystemLog
  /\ GoesOn(Main)
  /\ UNCHANGED <<level, colorize, errorLogged, callback, sinkVars, opened, console, writeVars,
                 localeVars>>

\* On Windows the backend becomes the file again; on POSIX it stays.
CleanSystemLog ==
  /\ Calls(Main, NoArg, <<>>)
  /\ opened /\ opened' = FALSE
  /\ backend' = IF platform = "windows" THEN "file" ELSE backend
  /\ UNCHANGED <<level, colorize, errorLogged, callback, sinkVars, console, writeVars, clears, warm,
                 localeVars>>

SetLevel(l) ==
  /\ Calls(Main, [NoArg EXCEPT !.level = l], <<"core", "level">>)
  /\ UNCHANGED <<globals, sinkVars, opened, console, writeVars, clears, warm, localeVars>>

SetCore ==
  /\ At(Main, "core")
  /\ logEnabled' = (arg[Main].level # NoneLevel)
  /\ GoesOn(Main)
  /\ UNCHANGED <<globals, sinks, latest, opened, console, writeVars, localeVars>>

SetGlobal ==
  /\ At(Main, "level")
  /\ level' = arg[Main].level
  /\ GoesOn(Main)
  /\ UNCHANGED <<backend, colorize, errorLogged, callback, sinkVars, opened, console, writeVars,
                 localeVars>>

SetColorization(color) ==
  /\ Calls(Main, NoArg, <<>>)
  /\ color # colorize /\ colorize' = color
  /\ disturbed' = (disturbed \/ Busy)
  /\ UNCHANGED <<level, backend, errorLogged, callback, sinkVars, opened, console, pending,
                 writing, tinted, clears, warm, localeVars>>

OnMessage(f) ==
  /\ Calls(Main, NoArg, <<>>)
  /\ \A t \in Thread : todo[t] = <<>>
  /\ callback' = f
  /\ UNCHANGED <<level, backend, colorize, errorLogged, sinkVars, opened, console, writeVars,
                 clears, warm, localeVars>>

ClearErrorLoggedFlag ==
  /\ Calls(Main, NoArg, <<>>)
  /\ errorLogged' = FALSE /\ clears' = clears + 1
  /\ UNCHANGED <<level, backend, colorize, callback, sinkVars, opened, console, writeVars, warm,
                 localeVars>>

\* The main thread starts the others; logging is warm when every domain's
\* locale was asked for before.
Start ==
  /\ ~torn /\ started = {Main} /\ todo[Main] = <<>>
  /\ started' = Thread /\ UNCHANGED todo
  /\ warm' = (\A d \in Domain : returned[d] # {})
  /\ Observes /\ PutsOutNothing
  /\ UNCHANGED <<platform, arg, globals, sinkVars, opened, console, writeVars, calls, clears,
                 localeVars>>

-----------------------------------------------------------------------------
(* log_helper and color_writer.                                            *)

FatalOnly(l) == l > Error
IsError(l) == l >= Error

Flag(t) ==
  /\ At(t, "flag")
  /\ errorLogged' = (errorLogged \/ IsError(arg[t].level))
  /\ GoesOn(t)
  /\ UNCHANGED <<level, backend, colorize, callback, sinkVars, opened, console, writeVars,
                 localeVars>>

\* The level may have changed since the macro looked; the callback may say no.
Filter(t) ==
  /\ At(t, "filter")
  /\ Goes(t, IF IsEnabled(arg[t].level) /\ callback # "vetoes" THEN Tail(todo[t]) ELSE <<>>)
  /\ UNCHANGED <<globals, sinkVars, opened, console, writeVars, localeVars>>

ToSystemLog(t) ==
  /\ At(t, "dispatch") /\ backend # "file"
  /\ IF backend = "eventlog" /\ ~opened THEN PutsOutNothing ELSE PutsOut(t, backend)
  /\ Moves(t, <<>>)
  /\ UNCHANGED <<globals, sinkVars, opened, console, pending, writing, tinted, disturbed,
                 localeVars>>

\* Boost.Log drops the record, hands it to its sinks, or, having none, to its
\* default sink.
ToSinks(t) ==
  /\ At(t, "dispatch") /\ backend = "file"
  /\ IF logEnabled /\ sinks = {} THEN PutsOut(t, Default) ELSE PutsOutNothing
  /\ pending' = [pending EXCEPT ![t] = IF logEnabled THEN sinks ELSE {}]
  /\ Moves(t, IF logEnabled /\ sinks # {} THEN <<"consume">> ELSE <<>>)
  /\ UNCHANGED <<globals, sinkVars, opened, console, writing, tinted, disturbed, localeVars>>

\* What colorize changes: on Windows the console, whatever the stream.
Coloured(s) == IF platform = "windows" THEN console.handle ELSE s
Tinted(s) == IF colorize THEN (tinted \cup {Coloured(s)}) \ {NoStream} ELSE tinted
ResetNever(s) == tinted
Reset(s) ==
  CASE ~colorize -> tinted
    [] platform = "windows" /\ console.tinted -> Tinted(s)
    [] OTHER -> tinted \ {Coloured(s)}

\* A sink writes one record at a time, and its level is looked at again.
Consume(t) ==
  /\ At(t, "consume")
  /\ \E k \in pending[t] :
       /\ \A u \in Thread : writing[u] # k
       /\ pending' = [pending EXCEPT ![t] = @ \ {k}]
       /\ IF IsEnabled(arg[t].level)
          THEN /\ writing' = [writing EXCEPT ![t] = k]
               /\ tinted' = Tinted(k.stream)
               /\ Goes(t, <<"write">>)
          ELSE /\ UNCHANGED <<writing, tinted>>
               /\ Goes(t, IF pending'[t] = {} THEN <<>> ELSE <<"consume">>)
  /\ UNCHANGED <<globals, sinkVars, opened, console, disturbed, localeVars>>

Write(t) ==
  /\ At(t, "write")
  /\ PutsOut(t, writing[t].stream)
  /\ tinted' = Reset(writing[t].stream)
  /\ writing' = [writing EXCEPT ![t] = NoSink]
  /\ Moves(t, IF pending[t] = {} THEN <<>> ELSE <<"consume">>)
  /\ UNCHANGED <<globals, sinkVars, opened, console, pending, disturbed, localeVars>>

\* The calls are over, or anything may happen.
Over == (torn \/ \A t \in Thread : todo[t] = <<>>) /\ UNCHANGED vars

Next ==
  \/ \E t \in Thread :
       \/ \E l \in Level \ {NoneLevel} : Log(t, l)
       \/ Translate(t) \/ Find(t) \/ Found(t) \/ Insert(t) \/ Inserted(t)
       \/ Flag(t) \/ Filter(t) \/ ToSystemLog(t) \/ ToSinks(t) \/ Consume(t) \/ Write(t)
  \/ \E d \in Domain : ClearDomain(d)
  \/ \E s \in Stream :
       \/ SetupLogging(s, Project, DefaultId, <<>>)
       \/ \E d \in Domain, id \in Id : SetupLogging(s, d, id, <<"find">>)
  \/ \E l \in Level : SetLevel(l)
  \/ \E color \in BOOLEAN : SetColorization(color)
  \/ \E f \in {"none", "accepts", "vetoes"} : OnMessage(f)
  \/ Erase \/ AddSink \/ Colorization
  \/ SetupSystemLog \/ RegisterFails \/ EnableSystemLog \/ CleanSystemLog
  \/ SetCore \/ SetGlobal \/ ClearErrorLoggedFlag \/ Start \/ Over

Spec == Init /\ [][Next]_vars

-----------------------------------------------------------------------------
(* Properties.                                                             *)

Step == {"find", "found", "insert", "inserted", "erase", "add", "core", "level", "color",
         "system", "flag", "filter", "dispatch", "consume", "write"}

TypeOK ==
  /\ LocaleOK
  /\ platform \in {"posix", "windows"} /\ todo \in [Thread -> Seq(Step)]
  /\ level \in Level /\ backend \in {"file", "syslog", "eventlog"}
  /\ {colorize, errorLogged, logEnabled, opened, warm, disturbed} \subseteq BOOLEAN
  /\ callback \in {"none", "accepts", "vetoes"}
  /\ \A t \in Thread : writing[t] # NoSink => todo[t] = <<"write">>
  /\ \A k, m \in sinks : k = m
  /\ tinted \subseteq Stream /\ console.handle \in Tty \cup {NoStream}
  /\ started \in {{Main}, Thread} /\ \A t \in Thread : calls[t] \in 0..MaxCalls[t]

Out == out' # Nothing
During == during[out'.by] \cup {Setting}

\* A message is put out only if its level was enabled at some time during the
\* call and the callback did not veto it, however the level changes meanwhile.
Wanted == Out => \E s \in During : s.level \in 1..out'.level /\ s.callback # "vetoes"

\* An error that is put out is seen by error_has_been_logged ("Returns true if
\* an error or critical message has been logged"), unless the flag was cleared
\* during the call.
ErrorSeen ==
  Out /\ out'.level >= Error => errorLogged \/ \E s \in During : s.clears # clears

\* A message goes to the stream set up last, before or during its call, once a
\* system log is set up to that one; Boost.Log's default sink gets it only as
\* long as no stream is set up or while setup_logging replaces the sink.
RightPlace == Out => \E s \in During : out'.to \in s.places

\* What is put out, and where, is what the settings of some moment of the call
\* ask for, although the call reads each of them at another moment.
Delivered == [][Wanted /\ ErrorSeen /\ RightPlace]_vars

\* A colour ends with its message: when no message is being written no stream
\* is left coloured - if nothing about colours or sinks was set while a message
\* was being written.
ColourEnds == ~Busy /\ ~disturbed => tinted = {}

\* If the main thread asks for the locale of every domain before it starts
\* the others, and no domain is cleared afterwards, no two threads are ever in
\* the map of locales while one of them changes it ("Ensure creating and adding
\* a new locale is thread-safe"), also if a locale could not be generated.
WarmIsSafe == warm => ~torn

\* The map of locales is safe to use once it is warm, and stable until cleared.
LocalesSound == TypeOK /\ SameLocale /\ WarmIsSafe
=============================================================================

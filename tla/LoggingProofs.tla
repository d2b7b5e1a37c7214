----------------------------- MODULE LoggingProofs -----------------------------
(***************************************************************************)
(* Proofs about Logging, for any threads, domains, ids, streams, levels    *)
(* and numbers of calls.                                                   *)
(*                                                                         *)
(* A call is the list of the steps it still has to take; Todo holds all    *)
(* the lists there are, and First(t) is the step that thread t is at.  The *)
(* lemmas ...Turn say of each action which thread it moves, from which     *)
(* step to which, and that the other threads stay where they are.  The     *)
(* invariant has six parts - calls, map of locales, sinks, settings,       *)
(* messages on their way, colours - each kept by every action; the three   *)
(* properties that the run checks follow from it.                          *)
(***************************************************************************)
EXTENDS Logging, FiniteSetTheorems, SequenceTheorems, TLAPS

-----------------------------------------------------------------------------
(* The steps that a call can still have to take, and what comes first.     *)

LogEnd == <<"flag", "filter", "dispatch">>
SetEnd == <<"core", "level", "color">>
Rests == {<<>>, LogEnd, <<"find">> \o LogEnd, SetEnd}
Looks == {"find", "found", "insert", "inserted"}
AfterAdd == {SetEnd, <<"find">> \o SetEnd}
SetUps == {<<"core", "level", "system">>, <<"core", "level">>, SetEnd,
           <<"level", "system">>, <<"level">>, <<"level", "color">>,
           <<"color">>, <<"system">>, <<"erase">>}
LogSteps == {LogEnd, <<"filter", "dispatch">>, <<"dispatch">>, <<"consume">>, <<"write">>}
Todo == {<<p[1]>> \o p[2] : p \in Looks \X Rests} \cup {<<"add">> \o r : r \in AfterAdd}
          \cup SetUps \cup LogSteps \cup {<<>>}

FirstOf(s) == IF s = <<>> THEN "none" ELSE Head(s)
First(t) == FirstOf(todo[t])

LEMMA LooksAreTodo ==
  ASSUME NEW x \in Looks, NEW r \in Rests
  PROVE  <<x>> \o r \in Todo
<1> DEFINE p == <<x, r>>
<1>1. p \in Looks \X Rests /\ <<p[1]>> \o p[2] = <<x>> \o r  OBVIOUS
<1> HIDE DEF p
<1> QED  BY <1>1 DEF Todo

\* A rest is a list of its own.
LEMMA RestTable ==
  ASSUME NEW r \in Rests
  PROVE  r \in Todo /\ r \in Seq(Step) /\ FirstOf(r) \in {"none", "flag", "find", "core"}
<1>1. LogEnd \in Seq(Step) /\ SetEnd \in Seq(Step)  BY DEF LogEnd, SetEnd, Step
<1>2. CASE r = <<"find">> \o LogEnd
  <2>1. r \in Todo  BY <1>2, LooksAreTodo DEF Looks, Rests
  <2>2. r \in Seq(Step)  BY <1>1, <1>2 DEF Step
  <2>3. r # <<>> /\ Head(r) = "find"  BY <1>1, <1>2
  <2> QED  BY <2>1, <2>2, <2>3 DEF FirstOf
<1>3. {<<>>, LogEnd, SetEnd} \subseteq Todo  BY DEF Todo, LogSteps, SetUps
<1>4. LogEnd # <<>> /\ Head(LogEnd) = "flag"  BY DEF LogEnd
<1>5. SetEnd # <<>> /\ Head(SetEnd) = "core"  BY DEF SetEnd
<1>6. CASE r = <<>>  BY <1>3, <1>6 DEF FirstOf
<1>7. CASE r = LogEnd  BY <1>1, <1>3, <1>4, <1>7 DEF FirstOf
<1>8. CASE r = SetEnd  BY <1>1, <1>3, <1>5, <1>8 DEF FirstOf
<1> QED  BY <1>2, <1>6, <1>7, <1>8 DEF Rests

\* What a list that starts with some step is, and what is left after it.
LEMMA LookTable ==
  ASSUME NEW x \in Looks, NEW r \in Rests
  PROVE  LET s == <<x>> \o r IN
         s \in Todo /\ s \in Seq(Step) /\ s # <<>> /\ FirstOf(s) = x /\ Tail(s) = r
<1>1. r \in Seq(Step) /\ x \in Step  BY RestTable DEF Looks, Step
<1>2. <<x>> \o r \in Seq(Step)  BY <1>1
<1>3. <<x>> \o r # <<>> /\ Head(<<x>> \o r) = x /\ Tail(<<x>> \o r) = r  BY <1>1
<1> QED  BY <1>2, <1>3, LooksAreTodo DEF FirstOf

LEMMA AddTable ==
  ASSUME NEW r \in AfterAdd
  PROVE  LET s == <<"add">> \o r IN
         /\ s \in Todo /\ s \in Seq(Step) /\ s # <<>> /\ FirstOf(s) = "add" /\ Tail(s) = r
         /\ Contains(s, "add")
         /\ r \in Todo /\ FirstOf(r) \in {"core", "find"}
<1>1. SetEnd \in Seq(Step) /\ SetEnd \in Rests  BY DEF SetEnd, Step, Rests
<1>2. <<"find">> \o SetEnd \in Seq(Step) /\ <<"find">> \o SetEnd \in Todo
      /\ FirstOf(<<"find">> \o SetEnd) = "find"
  BY <1>1, LookTable DEF Looks
<1>8. SetEnd # <<>> /\ Head(SetEnd) = "core"  BY DEF SetEnd
<1>3. r \in Seq(Step) /\ r \in Todo /\ FirstOf(r) \in {"core", "find"}
  BY <1>1, <1>2, <1>8, RestTable DEF AfterAdd, FirstOf
<1>4. <<"add">> \o r \in Seq(Step)  BY <1>3 DEF Step
<1>5. <<"add">> \o r # <<>> /\ Head(<<"add">> \o r) = "add" /\ Tail(<<"add">> \o r) = r
  BY <1>3
<1>6. Contains(<<"add">> \o r, "add")  BY <1>3 DEF Contains
<1>7. <<"add">> \o r \in Todo  BY DEF Todo
<1> QED  BY <1>3, <1>4, <1>5, <1>6, <1>7 DEF FirstOf

\* Settings end with their list, and a message ends with being put out.
LEMMA SetUpTable ==
  ASSUME NEW s \in SetUps
  PROVE  /\ s \in Todo /\ s \in Seq(Step) /\ s # <<>> /\ Tail(s) \in Todo
         /\ FirstOf(s) \in {"core", "level", "color", "system", "erase"}
         /\ FirstOf(s) = "core" => FirstOf(Tail(s)) = "level"
         /\ FirstOf(s) = "level" => FirstOf(Tail(s)) \in {"none", "color", "system"}
         /\ FirstOf(s) \in {"color", "system", "erase"} => Tail(s) = <<>>
<1>1. CASE s = <<"core", "level", "system">>
  <2>1. s # <<>> /\ s \in Seq(Step) /\ Head(s) = "core"  BY <1>1 DEF Step
  <2>2. Tail(s) = <<"level", "system">> /\ Head(Tail(s)) = "level" /\ Tail(s) # <<>>  BY <1>1
  <2>3. s \in Todo /\ Tail(s) \in Todo  BY <1>1, <2>2 DEF Todo, SetUps, LogSteps, LogEnd, SetEnd
  <2> QED  BY <1>1, <2>1, <2>2, <2>3 DEF FirstOf
<1>2. CASE s = <<"core", "level">>
  <2>1. s # <<>> /\ s \in Seq(Step) /\ Head(s) = "core"  BY <1>2 DEF Step
  <2>2. Tail(s) = <<"level">> /\ Head(Tail(s)) = "level" /\ Tail(s) # <<>>  BY <1>2
  <2>3. s \in Todo /\ Tail(s) \in Todo  BY <1>2, <2>2 DEF Todo, SetUps, LogSteps, LogEnd, SetEnd
  <2> QED  BY <1>2, <2>1, <2>2, <2>3 DEF FirstOf
<1>3. CASE s = <<"core", "level", "color">>
  <2>1. s # <<>> /\ s \in Seq(Step) /\ Head(s) = "core"  BY <1>3 DEF Step
  <2>2. Tail(s) = <<"level", "color">> /\ Head(Tail(s)) = "level" /\ Tail(s) # <<>>  BY <1>3
  <2>3. s \in Todo /\ Tail(s) \in Todo  BY <1>3, <2>2 DEF Todo, SetUps, LogSteps, LogEnd, SetEnd
  <2> QED  BY <1>3, <2>1, <2>2, <2>3 DEF FirstOf
<1>4. CASE s = <<"level", "system">>
  <2>1. s # <<>> /\ s \in Seq(Step) /\ Head(s) = "level"  BY <1>4 DEF Step
  <2>2. Tail(s) = <<"system">> /\ Head(Tail(s)) = "system" /\ Tail(s) # <<>>  BY <1>4
  <2>3. s \in Todo /\ Tail(s) \in Todo  BY <1>4, <2>2 DEF Todo, SetUps, LogSteps, LogEnd, SetEnd
  <2> QED  BY <1>4, <2>1, <2>2, <2>3 DEF FirstOf
<1>5. CASE s = <<"level">>
  <2>1. s # <<>> /\ s \in Seq(Step) /\ Head(s) = "level"  BY <1>5 DEF Step
  <2>2. Tail(s) = <<>>  BY <1>5
  <2>3. s \in Todo /\ Tail(s) \in Todo  BY <1>5, <2>2 DEF Todo, SetUps, LogSteps, LogEnd, SetEnd
  <2> QED  BY <1>5, <2>1, <2>2, <2>3 DEF FirstOf
<1>6. CASE s = <<"level", "color">>
  <2>1. s # <<>> /\ s \in Seq(Step) /\ Head(s) = "level"  BY <1>6 DEF Step
  <2>2. Tail(s) = <<"color">> /\ Head(Tail(s)) = "color" /\ Tail(s) # <<>>  BY <1>6
  <2>3. s \in Todo /\ Tail(s) \in Todo  BY <1>6, <2>2 DEF Todo, SetUps, LogSteps, LogEnd, SetEnd
  <2> QED  BY <1>6, <2>1, <2>2, <2>3 DEF FirstOf
<1>7. CASE s = <<"color">>
  <2>1. s # <<>> /\ s \in Seq(Step) /\ Head(s) = "color"  BY <1>7 DEF Step
  <2>2. Tail(s) = <<>>  BY <1>7
  <2>3. s \in Todo /\ Tail(s) \in Todo  BY <1>7, <2>2 DEF Todo, SetUps, LogSteps, LogEnd, SetEnd
  <2> QED  BY <1>7, <2>1, <2>2, <2>3 DEF FirstOf
<1>8. CASE s = <<"system">>
  <2>1. s # <<>> /\ s \in Seq(Step) /\ Head(s) = "system"  BY <1>8 DEF Step
  <2>2. Tail(s) = <<>>  BY <1>8
  <2>3. s \in Todo /\ Tail(s) \in Todo  BY <1>8, <2>2 DEF Todo, SetUps, LogSteps, LogEnd, SetEnd
  <2> QED  BY <1>8, <2>1, <2>2, <2>3 DEF FirstOf
<1>9. CASE s = <<"erase">>
  <2>1. s # <<>> /\ s \in Seq(Step) /\ Head(s) = "erase"  BY <1>9 DEF Step
  <2>2. Tail(s) = <<>>  BY <1>9
  <2>3. s \in Todo /\ Tail(s) \in Todo  BY <1>9, <2>2 DEF Todo, SetUps, LogSteps, LogEnd, SetEnd
  <2> QED  BY <1>9, <2>1, <2>2, <2>3 DEF FirstOf
<1> QED  BY <1>1, <1>2, <1>3, <1>4, <1>5, <1>6, <1>7, <1>8, <1>9 DEF SetUps, SetEnd

LEMMA LogTable ==
  ASSUME NEW s \in LogSteps
  PROVE  /\ s \in Todo /\ s \in Seq(Step) /\ s # <<>> /\ Tail(s) \in Todo /\ Logs(s)
         /\ FirstOf(s) \in {"flag", "filter", "dispatch", "consume", "write"}
         /\ FirstOf(s) = "flag" => FirstOf(Tail(s)) = "filter"
         /\ FirstOf(s) = "filter" => FirstOf(Tail(s)) = "dispatch"
         /\ FirstOf(s) = "write" => s = <<"write">>
<1>1. CASE s = <<"flag", "filter", "dispatch">>
  <2>1. s # <<>> /\ s \in Seq(Step) /\ Head(s) = "flag"  BY <1>1 DEF Step
  <2>2. Tail(s) = <<"filter", "dispatch">> /\ Head(Tail(s)) = "filter" /\ Tail(s) # <<>>  BY <1>1
  <2>3. s \in Todo /\ Tail(s) \in Todo  BY <1>1, <2>2 DEF Todo, SetUps, LogSteps, LogEnd, SetEnd
  <2>4. Logs(s)  BY <1>1 DEF Logs, Last
  <2> QED  BY <1>1, <2>1, <2>2, <2>3, <2>4 DEF FirstOf
<1>2. CASE s = <<"filter", "dispatch">>
  <2>1. s # <<>> /\ s \in Seq(Step) /\ Head(s) = "filter"  BY <1>2 DEF Step
  <2>2. Tail(s) = <<"dispatch">> /\ Head(Tail(s)) = "dispatch" /\ Tail(s) # <<>>  BY <1>2
  <2>3. s \in Todo /\ Tail(s) \in Todo  BY <1>2, <2>2 DEF Todo, SetUps, LogSteps, LogEnd, SetEnd
  <2>4. Logs(s)  BY <1>2 DEF Logs, Last
  <2> QED  BY <1>2, <2>1, <2>2, <2>3, <2>4 DEF FirstOf
<1>3. CASE s = <<"dispatch">>
  <2>1. s # <<>> /\ s \in Seq(Step) /\ Head(s) = "dispatch"  BY <1>3 DEF Step
  <2>2. Tail(s) = <<>>  BY <1>3
  <2>3. s \in Todo /\ Tail(s) \in Todo  BY <1>3, <2>2 DEF Todo, SetUps, LogSteps, LogEnd, SetEnd
  <2>4. Logs(s)  BY <1>3 DEF Logs, Last
  <2> QED  BY <1>3, <2>1, <2>2, <2>3, <2>4 DEF FirstOf
<1>4. CASE s = <<"consume">>
  <2>1. s # <<>> /\ s \in Seq(Step) /\ Head(s) = "consume"  BY <1>4 DEF Step
  <2>2. Tail(s) = <<>>  BY <1>4
  <2>3. s \in Todo /\ Tail(s) \in Todo  BY <1>4, <2>2 DEF Todo, SetUps, LogSteps, LogEnd, SetEnd
  <2>4. Logs(s)  BY <1>4 DEF Logs, Last
  <2> QED  BY <1>4, <2>1, <2>2, <2>3, <2>4 DEF FirstOf
<1>5. CASE s = <<"write">>
  <2>1. s # <<>> /\ s \in Seq(Step) /\ Head(s) = "write"  BY <1>5 DEF Step
  <2>2. Tail(s) = <<>>  BY <1>5
  <2>3. s \in Todo /\ Tail(s) \in Todo  BY <1>5, <2>2 DEF Todo, SetUps, LogSteps, LogEnd, SetEnd
  <2>4. Logs(s)  BY <1>5 DEF Logs, Last
  <2> QED  BY <1>5, <2>1, <2>2, <2>3, <2>4 DEF FirstOf
<1> QED  BY <1>1, <1>2, <1>3, <1>4, <1>5 DEF LogSteps, LogEnd

Putting == {"filter", "dispatch", "consume", "write"}

\* The table of all lists.
LEMMA TodoTable ==
  ASSUME NEW s \in Todo
  PROVE  /\ s \in Seq(Step)
         /\ s # <<>> => Tail(s) \in Todo /\ FirstOf(s) # "none" /\ FirstOf(s) = Head(s)
         /\ FirstOf(s) \in Looks => /\ Tail(s) \in Rests
                                    /\ FirstOf(Tail(s)) \in {"none", "flag", "find", "core"}
         /\ FirstOf(s) = "add" => Contains(s, "add") /\ FirstOf(Tail(s)) \in {"core", "find"}
         /\ FirstOf(s) = "core" => FirstOf(Tail(s)) = "level"
         /\ FirstOf(s) = "level" => FirstOf(Tail(s)) \in {"none", "color", "system"}
         /\ FirstOf(s) \in {"color", "system", "erase"} => Tail(s) = <<>>
         /\ FirstOf(s) = "flag" => FirstOf(Tail(s)) = "filter"
         /\ FirstOf(s) = "filter" => FirstOf(Tail(s)) = "dispatch"
         /\ FirstOf(s) = "write" => s = <<"write">>
         /\ FirstOf(s) \in Putting => Logs(s)
<1>1. CASE s = <<>>  BY <1>1 DEF FirstOf, Looks, Putting
<1>2. CASE \E x \in Looks, r \in Rests : s = <<x>> \o r
  <2>1. PICK x \in Looks, r \in Rests : s = <<x>> \o r  BY <1>2
  <2>2. s \in Seq(Step) /\ s # <<>> /\ FirstOf(s) = x /\ Tail(s) = r  BY <2>1, LookTable
  <2>3. r \in Todo /\ FirstOf(r) \in {"none", "flag", "find", "core"}  BY RestTable
  <2> QED  BY <2>2, <2>3 DEF FirstOf, Looks, Putting
<1>3. CASE \E r \in AfterAdd : s = <<"add">> \o r
  <2>1. PICK r \in AfterAdd : s = <<"add">> \o r  BY <1>3
  <2>2. /\ s \in Seq(Step) /\ s # <<>> /\ FirstOf(s) = "add" /\ Tail(s) = r
        /\ Contains(s, "add") /\ r \in Todo /\ FirstOf(r) \in {"core", "find"}
    BY <2>1, AddTable
  <2> QED  BY <2>2 DEF FirstOf, Looks, Putting
<1>4. CASE s \in SetUps  BY <1>4, SetUpTable DEF FirstOf, Looks, Putting
<1>5. CASE s \in LogSteps  BY <1>5, LogTable DEF FirstOf, Looks, Putting
<1>6. \/ s = <<>> \/ s \in SetUps \/ s \in LogSteps
      \/ \E x \in Looks, r \in Rests : s = <<x>> \o r
      \/ \E r \in AfterAdd : s = <<"add">> \o r
  <2> DEFINE A == {<<p[1]>> \o p[2] : p \in Looks \X Rests}
             B == {<<"add">> \o r : r \in AfterAdd}
  <2>1. s \in A => \E x \in Looks, r \in Rests : s = <<x>> \o r  OBVIOUS
  <2>2. s \in B => \E r \in AfterAdd : s = <<"add">> \o r  OBVIOUS
  <2>3. Todo = A \cup B \cup SetUps \cup LogSteps \cup {<<>>}  BY DEF Todo
  <2> HIDE DEF A, B
  <2>4. s \in A \/ s \in B \/ s \in SetUps \/ s \in LogSteps \/ s = <<>>  BY <2>3
  <2> QED  BY <2>1, <2>2, <2>4
<1> QED  BY <1>1, <1>2, <1>3, <1>4, <1>5, <1>6

\* The lists that the calls start with.
LEMMA CallTable ==
  /\ [i \in 1..0 |-> "find"] \o LogEnd = LogEnd
  /\ [i \in 1..1 |-> "find"] \o LogEnd = <<"find">> \o LogEnd
  /\ [i \in 1..2 |-> "find"] \o LogEnd = <<"find">> \o (<<"find">> \o LogEnd)
  /\ <<"add">> \o <<>> \o SetEnd = <<"add">> \o SetEnd
  /\ <<"add">> \o <<"find">> \o SetEnd = <<"add">> \o (<<"find">> \o SetEnd)
<1>1. LogEnd \in Seq(Step) /\ SetEnd \in Seq(Step)  BY DEF LogEnd, SetEnd, Step
<1>2. [i \in 1..0 |-> "find"] = <<>> /\ [i \in 1..1 |-> "find"] = <<"find">>  OBVIOUS
<1>3. [i \in 1..2 |-> "find"] = <<"find", "find">>  OBVIOUS
<1>4. <<"find">> \in Seq(Step) /\ <<"add">> \in Seq(Step)  BY DEF Step
<1>5. <<"find">> \o <<"find">> = <<"find", "find">>
  <2>1. \A i \in 1..2 : (<<"find">> \o <<"find">>)[i] = "find"  BY <1>4
  <2>2. Len(<<"find">> \o <<"find">>) = 2 /\ <<"find">> \o <<"find">> \in Seq(Step)  BY <1>4
  <2>3. <<"find", "find">> \in Seq(Step)  BY DEF Step
  <2>4. Len(<<"find", "find">>) = 2 /\ \A i \in 1..2 : <<"find", "find">>[i] = "find"
    OBVIOUS
  <2> DEFINE a == <<"find">> \o <<"find">>
             b == <<"find", "find">>
  <2>5. Len(a) = Len(b) /\ \A i \in 1..Len(a) : a[i] = b[i]  BY <2>1, <2>2, <2>4
  <2>6. a \in Seq(Step) /\ b \in Seq(Step)  BY <2>2, <2>3
  <2> HIDE DEF a, b
  <2>7. a = b  BY <2>5, <2>6, SeqEqual
  <2> QED  BY <2>7 DEF a, b
<1>6. <<"find", "find">> \o LogEnd = <<"find">> \o (<<"find">> \o LogEnd)
  BY <1>1, <1>4, <1>5, ConcatAssociative
<1>7. <<>> \o LogEnd = LogEnd /\ <<"add">> \o <<>> = <<"add">>
  BY <1>1, <1>4, ConcatEmptySeq
<1>8. <<"add">> \o <<"find">> \o SetEnd = <<"add">> \o (<<"find">> \o SetEnd)
  BY <1>1, <1>4, ConcatAssociative
<1> QED  BY <1>2, <1>3, <1>6, <1>7, <1>8

-----------------------------------------------------------------------------
(* What a step does to the calls.                                          *)

Arg == [level : Level, stream : Stream \cup {NoStream}, domain : Domain, id : Id,
        paths : {{}, {"project"}}]

CallInv ==
  /\ platform \in {"posix", "windows"}
  /\ todo \in [Thread -> Todo] /\ arg \in [Thread -> Arg] /\ calls \in [Thread -> Nat]
  /\ \A t \in Thread : /\ calls[t] <= MaxCalls[t]
                       /\ todo[t] # <<>> => t \in started /\ calls[t] > 0
  /\ started \in {{Main}, Thread}

\* A thread takes a step of its call: it was at one of the steps from and is at
\* one of the steps to.  The others stay where they are, and the ones that put
\* a message out have taken note of the setting.
Turn(t, from, to) ==
  /\ CallInv' /\ ~torn /\ First(t) \in from /\ First(t)' \in to
  /\ \A u \in Thread \ {t} : todo'[u] = todo[u] /\ arg'[u] = arg[u] /\ First(u)' = First(u)
  /\ \A u \in Thread : First(u)' \in Putting => during'[u] = during[u] \cup {Setting}
  /\ platform' = platform

LEMMA LevelNumbers == ASSUME NEW l \in Level PROVE l \in Nat /\ l \in Int
BY LevelAssumption

LEMMA Constants ==
  Main \in Thread /\ Project \in Domain /\ DefaultId \in Id /\ NoneLevel \in Level
          /\ Warning \in Level
BY ThreadAssumption, DefaultAssumption, LevelAssumption

LEMMA NotesTaken ==
  ASSUME CallInv', Observes
  PROVE  \A u \in Thread : First(u)' \in Putting => during'[u] = during[u] \cup {Setting}
<1> SUFFICES ASSUME NEW u \in Thread, First(u)' \in Putting
             PROVE  during'[u] = during[u] \cup {Setting}
  OBVIOUS
<1>1. todo'[u] \in Todo  BY DEF CallInv
<1>2. Logs(todo'[u])  BY <1>1, TodoTable DEF First
<1> QED  BY <1>2 DEF Observes

LEMMA Moving ==
  ASSUME CallInv, ~torn, NEW t \in Thread, NEW steps \in Todo, todo[t] # <<>>, Moves(t, steps)
  PROVE  /\ Turn(t, {First(t)}, {FirstOf(steps)})
         /\ FirstOf(steps) # "none" => arg'[t] = arg[t]
<1>1. /\ todo' = [todo EXCEPT ![t] = steps]
      /\ arg' = IF steps = <<>> THEN [arg EXCEPT ![t] = NoArg] ELSE arg
      /\ Observes /\ platform' = platform /\ calls' = calls /\ started' = started
  BY DEF Moves, historyVars
<1>2. NoArg \in Arg  BY Constants DEF NoArg, Arg
<1>3. todo' \in [Thread -> Todo] /\ arg' \in [Thread -> Arg]  BY <1>1, <1>2 DEF CallInv
<1>4. todo'[t] = steps /\ \A u \in Thread \ {t} : todo'[u] = todo[u] /\ arg'[u] = arg[u]
  BY <1>1 DEF CallInv
<1>5. CallInv'  BY <1>1, <1>3, <1>4 DEF CallInv
<1>6. First(t)' = FirstOf(steps) /\ \A u \in Thread \ {t} : First(u)' = First(u)
  BY <1>4 DEF First
<1>7. FirstOf(steps) # "none" => arg'[t] = arg[t]  BY <1>1 DEF FirstOf
<1>8. \A u \in Thread : First(u)' \in Putting => during'[u] = during[u] \cup {Setting}
  BY <1>1, <1>5, NotesTaken
<1> QED  BY <1>1, <1>4, <1>5, <1>6, <1>7, <1>8 DEF Turn

LEMMA Calling ==
  ASSUME CallInv, NEW t \in Thread, NEW a \in Arg, NEW steps \in Todo, Calls(t, a, steps)
  PROVE  /\ Turn(t, {"none"}, {FirstOf(steps)})
         /\ arg'[t] = a /\ t \in started /\ started' = started
<1>1. /\ todo' = [todo EXCEPT ![t] = steps] /\ arg' = [arg EXCEPT ![t] = a]
      /\ calls' = [calls EXCEPT ![t] = @ + 1]
      /\ Observes /\ platform' = platform /\ started' = started
      /\ ~torn /\ t \in started /\ todo[t] = <<>> /\ calls[t] < MaxCalls[t]
  BY DEF Calls, Free
<1>2. todo' \in [Thread -> Todo] /\ arg' \in [Thread -> Arg] /\ calls' \in [Thread -> Nat]
  BY <1>1 DEF CallInv
<1>3. /\ todo'[t] = steps /\ arg'[t] = a /\ calls'[t] = calls[t] + 1
      /\ \A u \in Thread \ {t} : todo'[u] = todo[u] /\ arg'[u] = arg[u] /\ calls'[u] = calls[u]
  BY <1>1 DEF CallInv
<1>4. calls[t] \in Nat /\ MaxCalls[t] \in Nat  BY CallsAssumption DEF CallInv
<1>5. calls'[t] <= MaxCalls[t] /\ calls'[t] > 0  BY <1>1, <1>3, <1>4
<1>6. CallInv'  BY <1>1, <1>2, <1>3, <1>5 DEF CallInv
<1>7. First(t)' = FirstOf(steps) /\ \A u \in Thread \ {t} : First(u)' = First(u)
  BY <1>3 DEF First
<1>8. \A u \in Thread : First(u)' \in Putting => during'[u] = during[u] \cup {Setting}
  BY <1>1, <1>6, NotesTaken
<1>9. First(t) = "none"  BY <1>1 DEF First, FirstOf
<1> QED  BY <1>1, <1>3, <1>6, <1>7, <1>8, <1>9 DEF Turn

\* The other lists that a thread is given, and what comes first in them.
LEMMA CallSteps ==
  /\ {LogEnd, <<"find">>, <<"erase">>, <<"core", "level", "system">>, <<"core", "level">>,
      <<>>, <<"consume">>, <<"write">>} \subseteq Todo
  /\ FirstOf(LogEnd) = "flag" /\ FirstOf(<<"find">>) = "find" /\ FirstOf(<<"erase">>) = "erase"
  /\ FirstOf(<<"core", "level", "system">>) = "core" /\ FirstOf(<<"core", "level">>) = "core"
  /\ FirstOf(<<>>) = "none" /\ FirstOf(<<"consume">>) = "consume"
  /\ FirstOf(<<"write">>) = "write"
<1>1. {LogEnd, <<"erase">>, <<"core", "level", "system">>, <<"core", "level">>, <<>>,
       <<"consume">>, <<"write">>} \subseteq Todo
  BY DEF Todo, LogSteps, SetUps
<1>2. <<"find">> \o <<>> = <<"find">>  OBVIOUS
<1>3. <<"find">> \in Todo  BY <1>2, LooksAreTodo DEF Looks, Rests
<1> QED  BY <1>1, <1>3 DEF FirstOf, LogEnd

LEMMA LogCalls ==
  ASSUME NEW lookups \in 0..2
  PROVE  LET steps == [i \in 1..lookups |-> "find"] \o LogEnd IN
         steps \in Todo /\ FirstOf(steps) \in {"find", "flag"}
<1>1. CASE lookups = 0  BY <1>1, CallTable, CallSteps
<1>2. CASE lookups = 1  BY <1>2, CallTable, LookTable DEF Looks, Rests
<1>3. CASE lookups = 2  BY <1>3, CallTable, LookTable DEF Looks, Rests
<1> QED  BY <1>1, <1>2, <1>3

LEMMA SetUpCalls ==
  ASSUME NEW imbue \in {<<>>, <<"find">>}
  PROVE  LET steps == <<"add">> \o imbue \o SetEnd IN
         steps \in Todo /\ FirstOf(steps) = "add"
<1>1. CASE imbue = <<>>  BY <1>1, CallTable, AddTable DEF AfterAdd
<1>2. CASE imbue = <<"find">>  BY <1>2, CallTable, AddTable DEF AfterAdd
<1> QED  BY <1>1, <1>2

LEMMA AtStep ==
  ASSUME CallInv, NEW t \in Thread, NEW x, At(t, x)
  PROVE  /\ ~torn /\ todo[t] # <<>> /\ todo[t] \in Todo /\ First(t) = x /\ Tail(todo[t]) \in Todo
         /\ First(t) # "none"
BY TodoTable DEF At, First, FirstOf, CallInv

LEMMA GoingOn ==
  ASSUME CallInv, NEW t \in Thread, NEW x, At(t, x), GoesOn(t)
  PROVE  /\ Turn(t, {x}, {FirstOf(Tail(todo[t]))})
         /\ FirstOf(Tail(todo[t])) # "none" => arg'[t] = arg[t]
BY AtStep, Moving DEF GoesOn, Goes

LEMMA LogTurn ==
  ASSUME CallInv, NEW t \in Thread, NEW l \in Level \ {NoneLevel}, Log(t, l)
  PROVE  Turn(t, {"none"}, {"find", "flag"}) /\ arg'[t] = MessageArg(l)
<1>1. PICK lookups \in 0..2 :
        Calls(t, MessageArg(l), [i \in 1..lookups |-> "find"] \o LogEnd)
  BY DEF Log, LogEnd
<1> DEFINE steps == [i \in 1..lookups |-> "find"] \o LogEnd
<1>2. steps \in Todo /\ FirstOf(steps) \in {"find", "flag"}  BY LogCalls
<1>3. MessageArg(l) \in Arg  BY Constants DEF MessageArg, NoArg, Arg
<1> HIDE DEF steps
<1>4. Calls(t, MessageArg(l), steps)  BY <1>1 DEF steps
<1>5. Turn(t, {"none"}, {FirstOf(steps)}) /\ arg'[t] = MessageArg(l)
  BY <1>2, <1>3, <1>4, Calling
<1> QED  BY <1>2, <1>5 DEF Turn

LEMMA TranslateTurn ==
  ASSUME CallInv, NEW t \in Thread, Translate(t)
  PROVE  Turn(t, {"none"}, {"find"}) /\ arg'[t] = MessageArg(NoneLevel) /\ started' = started
<1>1. MessageArg(NoneLevel) \in Arg  BY Constants DEF MessageArg, NoArg, Arg
<1>2. <<"find">> \in Todo /\ FirstOf(<<"find">>) \in {"find"}  BY CallSteps
<1>3. Calls(t, MessageArg(NoneLevel), <<"find">>)  BY DEF Translate, SetEnd
<1>4. t \in Thread  BY Constants
<1>5. Turn(t, {"none"}, {FirstOf(<<"find">>)}) /\ arg'[t] = MessageArg(NoneLevel)
        /\ started' = started
  BY <1>1, <1>2, <1>3, <1>4, Calling
<1> QED  BY <1>2, <1>5 DEF Turn

LEMMA FindTurn ==
  ASSUME CallInv, NEW t \in Thread, Find(t)
  PROVE  Turn(t, {"find"}, {"found"}) /\ (First(t)' # "none" => arg'[t] = arg[t])
<1>1. At(t, "find")  BY DEF Find
<1>2. todo[t] # <<>> /\ ~torn /\ todo[t] \in Todo /\ First(t) = "find"  BY <1>1, AtStep
<1>3. PICK steps \in Todo : Moves(t, steps) /\ FirstOf(steps) \in {"found"}
  <2>1. Tail(todo[t]) \in Rests  BY <1>2, TodoTable DEF First, Looks
  <2> DEFINE steps == <<"found">> \o Tail(todo[t])
  <2>2. steps \in Todo /\ FirstOf(steps) = "found"  BY <2>1, LookTable DEF Looks
  <2>3. Moves(t, steps)  BY DEF Find, Goes
  <2> QED  BY <2>2, <2>3
<1>4. Turn(t, {First(t)}, {FirstOf(steps)}) /\ (FirstOf(steps) # "none" => arg'[t] = arg[t])
  BY <1>2, <1>3, Moving
<1> QED  BY <1>2, <1>3, <1>4 DEF Turn

LEMMA FoundTurn ==
  ASSUME CallInv, NEW t \in Thread, Found(t)
  PROVE  Turn(t, {"found"}, {"none", "flag", "find", "core", "insert"})
          /\ (First(t)' # "none" => arg'[t] = arg[t])
         /\ (First(t)' = "insert" => ~Has(arg[t].domain))
<1>1. At(t, "found")  BY DEF Found
<1>2. todo[t] # <<>> /\ ~torn /\ todo[t] \in Todo /\ First(t) = "found"  BY <1>1, AtStep
<1>3. PICK steps \in Todo : Moves(t, steps) /\ FirstOf(steps) \in {"none", "flag", "find",
        "core", "insert"}
        /\ (FirstOf(steps) = "insert" => ~Has(arg[t].domain))
  <2>1. Tail(todo[t]) \in Rests /\ FirstOf(Tail(todo[t])) \in {"none", "flag", "find", "core"}
        /\ Tail(todo[t]) \in Todo
    BY <1>2, TodoTable, RestTable DEF First, Looks
  <2>2. CASE Has(arg[t].domain)
    <3>1. <<>> \o Tail(todo[t]) = Tail(todo[t])  BY <2>1, RestTable, ConcatEmptySeq
    <3>2. Moves(t, Tail(todo[t]))  BY <2>2, <3>1 DEF Found, Goes
    <3> QED  BY <2>1, <2>2, <3>2
  <2>3. CASE ~Has(arg[t].domain)
    <3> DEFINE steps == <<"insert">> \o Tail(todo[t])
    <3>1. steps \in Todo /\ FirstOf(steps) = "insert"  BY <2>1, LookTable DEF Looks
    <3>2. Moves(t, steps)  BY <2>3 DEF Found, Goes
    <3> QED  BY <2>3, <3>1, <3>2
  <2> QED  BY <2>2, <2>3
<1>4. Turn(t, {First(t)}, {FirstOf(steps)}) /\ (FirstOf(steps) # "none" => arg'[t] = arg[t])
  BY <1>2, <1>3, Moving
<1> QED  BY <1>2, <1>3, <1>4 DEF Turn

LEMMA InsertTurn ==
  ASSUME CallInv, NEW t \in Thread, Insert(t)
  PROVE  Turn(t, {"insert"}, {"inserted"}) /\ (First(t)' # "none" => arg'[t] = arg[t])
<1>1. At(t, "insert")  BY DEF Insert
<1>2. todo[t] # <<>> /\ ~torn /\ todo[t] \in Todo /\ First(t) = "insert"  BY <1>1, AtStep
<1>3. PICK steps \in Todo : Moves(t, steps) /\ FirstOf(steps) \in {"inserted"}
  <2>1. Tail(todo[t]) \in Rests  BY <1>2, TodoTable DEF First, Looks
  <2> DEFINE steps == <<"inserted">> \o Tail(todo[t])
  <2>2. steps \in Todo /\ FirstOf(steps) = "inserted"  BY <2>1, LookTable DEF Looks
  <2>3. Moves(t, steps)  BY DEF Insert, Goes
  <2> QED  BY <2>2, <2>3
<1>4. Turn(t, {First(t)}, {FirstOf(steps)}) /\ (FirstOf(steps) # "none" => arg'[t] = arg[t])
  BY <1>2, <1>3, Moving
<1> QED  BY <1>2, <1>3, <1>4 DEF Turn

LEMMA InsertedTurn ==
  ASSUME CallInv, NEW t \in Thread, Inserted(t)
  PROVE  Turn(t, {"inserted"}, {"none", "flag", "find", "core"})
         /\ (First(t)' # "none" => arg'[t] = arg[t])
<1>1. At(t, "inserted") /\ GoesOn(t)  BY DEF Inserted
<1>2. t \in Thread  BY Constants
<1>3. Turn(t, {"inserted"}, {FirstOf(Tail(todo[t]))})
      /\ (FirstOf(Tail(todo[t])) # "none" => arg'[t] = arg[t])
  BY <1>1, <1>2, GoingOn
<1>4. FirstOf(Tail(todo[t])) \in {"none", "flag", "find", "core"}
  BY <1>1, <1>2, AtStep, TodoTable, CallSteps DEF First, Looks
<1> QED  BY <1>3, <1>4 DEF Turn

LEMMA FlagTurn ==
  ASSUME CallInv, NEW t \in Thread, Flag(t)
  PROVE  Turn(t, {"flag"}, {"filter"}) /\ (First(t)' # "none" => arg'[t] = arg[t])
<1>1. At(t, "flag") /\ GoesOn(t)  BY DEF Flag
<1>2. t \in Thread  BY Constants
<1>3. Turn(t, {"flag"}, {FirstOf(Tail(todo[t]))})
      /\ (FirstOf(Tail(todo[t])) # "none" => arg'[t] = arg[t])
  BY <1>1, <1>2, GoingOn
<1>4. FirstOf(Tail(todo[t])) \in {"filter"}
  BY <1>1, <1>2, AtStep, TodoTable, CallSteps DEF First, Looks
<1> QED  BY <1>3, <1>4 DEF Turn

LEMMA FilterTurn ==
  ASSUME CallInv, NEW t \in Thread, Filter(t)
  PROVE  Turn(t, {"filter"}, {"none", "dispatch"}) /\ (First(t)' # "none" => arg'[t] = arg[t])
         /\ (First(t)' = "dispatch" => IsEnabled(arg[t].level) /\ callback # "vetoes")
<1>1. At(t, "filter")  BY DEF Filter
<1>2. todo[t] # <<>> /\ ~torn /\ todo[t] \in Todo /\ First(t) = "filter"  BY <1>1, AtStep
<1>3. PICK steps \in Todo : Moves(t, steps) /\ FirstOf(steps) \in {"none", "dispatch"}
        /\ (FirstOf(steps) = "dispatch" => IsEnabled(arg[t].level) /\ callback # "vetoes")
  <2>1. Tail(todo[t]) \in Todo /\ FirstOf(Tail(todo[t])) = "dispatch"
    BY <1>2, TodoTable, CallSteps DEF First
  <2>2. CASE IsEnabled(arg[t].level) /\ callback # "vetoes"
    BY <2>1, <2>2 DEF Filter, Goes
  <2>3. CASE ~(IsEnabled(arg[t].level) /\ callback # "vetoes")
    BY <2>3, CallSteps DEF Filter, Goes
  <2> QED  BY <2>2, <2>3
<1>4. Turn(t, {First(t)}, {FirstOf(steps)}) /\ (FirstOf(steps) # "none" => arg'[t] = arg[t])
  BY <1>2, <1>3, Moving
<1> QED  BY <1>2, <1>3, <1>4 DEF Turn

LEMMA ToSystemLogTurn ==
  ASSUME CallInv, NEW t \in Thread, ToSystemLog(t)
  PROVE  Turn(t, {"dispatch"}, {"none"}) /\ (First(t)' # "none" => arg'[t] = arg[t])
<1>1. At(t, "dispatch")  BY DEF ToSystemLog
<1>2. todo[t] # <<>> /\ ~torn /\ todo[t] \in Todo /\ First(t) = "dispatch"  BY <1>1, AtStep
<1>3. PICK steps \in Todo : Moves(t, steps) /\ FirstOf(steps) \in {"none"}
  BY CallSteps DEF ToSystemLog
<1>4. Turn(t, {First(t)}, {FirstOf(steps)}) /\ (FirstOf(steps) # "none" => arg'[t] = arg[t])
  BY <1>2, <1>3, Moving
<1> QED  BY <1>2, <1>3, <1>4 DEF Turn

LEMMA ToSinksTurn ==
  ASSUME CallInv, NEW t \in Thread, ToSinks(t)
  PROVE  Turn(t, {"dispatch"}, {"none", "consume"}) /\ (First(t)' # "none" => arg'[t] = arg[t])
<1>1. At(t, "dispatch")  BY DEF ToSinks
<1>2. todo[t] # <<>> /\ ~torn /\ todo[t] \in Todo /\ First(t) = "dispatch"  BY <1>1, AtStep
<1>3. PICK steps \in Todo : Moves(t, steps) /\ FirstOf(steps) \in {"none", "consume"}
  BY CallSteps DEF ToSinks
<1>4. Turn(t, {First(t)}, {FirstOf(steps)}) /\ (FirstOf(steps) # "none" => arg'[t] = arg[t])
  BY <1>2, <1>3, Moving
<1> QED  BY <1>2, <1>3, <1>4 DEF Turn

LEMMA ConsumeTurn ==
  ASSUME CallInv, NEW t \in Thread, Consume(t)
  PROVE  Turn(t, {"consume"}, {"none", "consume", "write"})
         /\ (First(t)' # "none" => arg'[t] = arg[t])
<1>1. At(t, "consume")  BY DEF Consume
<1>2. todo[t] # <<>> /\ ~torn /\ todo[t] \in Todo /\ First(t) = "consume"  BY <1>1, AtStep
<1>3. PICK steps \in Todo : Moves(t, steps) /\ FirstOf(steps) \in {"none", "consume", "write"}
  BY CallSteps DEF Consume, Goes
<1>4. Turn(t, {First(t)}, {FirstOf(steps)}) /\ (FirstOf(steps) # "none" => arg'[t] = arg[t])
  BY <1>2, <1>3, Moving
<1> QED  BY <1>2, <1>3, <1>4 DEF Turn

LEMMA WriteTurn ==
  ASSUME CallInv, NEW t \in Thread, Write(t)
  PROVE  Turn(t, {"write"}, {"none", "consume"}) /\ (First(t)' # "none" => arg'[t] = arg[t])
<1>1. At(t, "write")  BY DEF Write
<1>2. todo[t] # <<>> /\ ~torn /\ todo[t] \in Todo /\ First(t) = "write"  BY <1>1, AtStep
<1>3. PICK steps \in Todo : Moves(t, steps) /\ FirstOf(steps) \in {"none", "consume"}
  BY CallSteps DEF Write
<1>4. Turn(t, {First(t)}, {FirstOf(steps)}) /\ (FirstOf(steps) # "none" => arg'[t] = arg[t])
  BY <1>2, <1>3, Moving
<1> QED  BY <1>2, <1>3, <1>4 DEF Turn

LEMMA ClearDomainTurn ==
  ASSUME CallInv, NEW d \in Domain, ClearDomain(d)
  PROVE  Turn(Main, {"none"}, {"erase"}) /\ arg'[Main] = [NoArg EXCEPT !.domain = d]
          /\ started' = started
<1>1. [NoArg EXCEPT !.domain = d] \in Arg  BY Constants DEF MessageArg, NoArg, Arg
<1>2. <<"erase">> \in Todo /\ FirstOf(<<"erase">>) \in {"erase"}  BY CallSteps
<1>3. Calls(Main, [NoArg EXCEPT !.domain = d], <<"erase">>)  BY DEF ClearDomain, SetEnd
<1>4. Main \in Thread  BY Constants
<1>5. Turn(Main, {"none"}, {FirstOf(<<"erase">>)}) /\ arg'[Main] = [NoArg EXCEPT !.domain = d]
        /\ started' = started
  BY <1>1, <1>2, <1>3, <1>4, Calling
<1> QED  BY <1>2, <1>5 DEF Turn

LEMMA SetupLoggingTurn ==
  ASSUME CallInv, NEW s \in Stream, NEW d \in Domain, NEW id \in Id,
         NEW imbue \in {<<>>, <<"find">>}, SetupLogging(s, d, id, imbue)
  PROVE  Turn(Main, {"none"}, {"add"}) /\ arg'[Main] = [level |-> Warning, stream |-> s,
          domain |-> d, id |-> id, paths |-> {}] /\ started' = started
<1>1. [level |-> Warning, stream |-> s, domain |-> d, id |-> id, paths |-> {}] \in Arg
  BY Constants DEF MessageArg, NoArg, Arg
<1>2. (<<"add">> \o imbue \o SetEnd) \in Todo /\ FirstOf((<<"add">> \o imbue \o SetEnd)) \in {"add"}
  BY SetUpCalls
<1>3. Calls(Main, [level |-> Warning, stream |-> s, domain |-> d, id |-> id, paths |-> {}],
        (<<"add">> \o imbue \o SetEnd))
  BY DEF SetupLogging, SetEnd
<1>4. Main \in Thread  BY Constants
<1>5. Turn(Main, {"none"}, {FirstOf((<<"add">> \o imbue \o SetEnd))})
        /\ arg'[Main] = [level |-> Warning, stream |-> s, domain |-> d, id |-> id,
                paths |-> {}] /\ started' = started
  BY <1>1, <1>2, <1>3, <1>4, Calling
<1> QED  BY <1>2, <1>5 DEF Turn

LEMMA SetupSystemLogTurn ==
  ASSUME CallInv, SetupSystemLog
  PROVE  Turn(Main, {"none"}, {"core"}) /\ arg'[Main] = [NoArg EXCEPT !.level = Warning]
          /\ started' = started
<1>1. [NoArg EXCEPT !.level = Warning] \in Arg  BY Constants DEF MessageArg, NoArg, Arg
<1>2. <<"core", "level", "system">> \in Todo /\ FirstOf(<<"core", "level", "system">>) \in {"core"}
  BY CallSteps
<1>3. Calls(Main, [NoArg EXCEPT !.level = Warning], <<"core", "level", "system">>)
  BY DEF SetupSystemLog, SetEnd
<1>4. Main \in Thread  BY Constants
<1>5. Turn(Main, {"none"}, {FirstOf(<<"core", "level", "system">>)})
        /\ arg'[Main] = [NoArg EXCEPT !.level = Warning] /\ started' = started
  BY <1>1, <1>2, <1>3, <1>4, Calling
<1> QED  BY <1>2, <1>5 DEF Turn

LEMMA CleanSystemLogTurn ==
  ASSUME CallInv, CleanSystemLog
  PROVE  Turn(Main, {"none"}, {"none"}) /\ arg'[Main] = NoArg /\ started' = started
<1>1. NoArg \in Arg  BY Constants DEF MessageArg, NoArg, Arg
<1>2. <<>> \in Todo /\ FirstOf(<<>>) \in {"none"}  BY CallSteps
<1>3. Calls(Main, NoArg, <<>>)  BY DEF CleanSystemLog, SetEnd
<1>4. Main \in Thread  BY Constants
<1>5. Turn(Main, {"none"}, {FirstOf(<<>>)}) /\ arg'[Main] = NoArg /\ started' = started
  BY <1>1, <1>2, <1>3, <1>4, Calling
<1> QED  BY <1>2, <1>5 DEF Turn

LEMMA RegisterFailsTurn ==
  ASSUME CallInv, RegisterFails
  PROVE  Turn(Main, {"none"}, {"none"}) /\ arg'[Main] = NoArg /\ started' = started
<1>1. NoArg \in Arg  BY Constants DEF MessageArg, NoArg, Arg
<1>2. <<>> \in Todo /\ FirstOf(<<>>) \in {"none"}  BY CallSteps
<1>3. Calls(Main, NoArg, <<>>)  BY DEF RegisterFails, SetEnd
<1>4. Main \in Thread  BY Constants
<1>5. Turn(Main, {"none"}, {FirstOf(<<>>)}) /\ arg'[Main] = NoArg /\ started' = started
  BY <1>1, <1>2, <1>3, <1>4, Calling
<1> QED  BY <1>2, <1>5 DEF Turn

LEMMA SetLevelTurn ==
  ASSUME CallInv, NEW l \in Level, SetLevel(l)
  PROVE  Turn(Main, {"none"}, {"core"}) /\ arg'[Main] = [NoArg EXCEPT !.level = l]
          /\ started' = started
<1>1. [NoArg EXCEPT !.level = l] \in Arg  BY Constants DEF MessageArg, NoArg, Arg
<1>2. <<"core", "level">> \in Todo /\ FirstOf(<<"core", "level">>) \in {"core"}  BY CallSteps
<1>3. Calls(Main, [NoArg EXCEPT !.level = l], <<"core", "level">>)  BY DEF SetLevel, SetEnd
<1>4. Main \in Thread  BY Constants
<1>5. Turn(Main, {"none"}, {FirstOf(<<"core", "level">>)})
        /\ arg'[Main] = [NoArg EXCEPT !.level = l] /\ started' = started
  BY <1>1, <1>2, <1>3, <1>4, Calling
<1> QED  BY <1>2, <1>5 DEF Turn

LEMMA SetColorizationTurn ==
  ASSUME CallInv, NEW color \in BOOLEAN, SetColorization(color)
  PROVE  Turn(Main, {"none"}, {"none"}) /\ arg'[Main] = NoArg /\ started' = started
<1>1. NoArg \in Arg  BY Constants DEF MessageArg, NoArg, Arg
<1>2. <<>> \in Todo /\ FirstOf(<<>>) \in {"none"}  BY CallSteps
<1>3. Calls(Main, NoArg, <<>>)  BY DEF SetColorization, SetEnd
<1>4. Main \in Thread  BY Constants
<1>5. Turn(Main, {"none"}, {FirstOf(<<>>)}) /\ arg'[Main] = NoArg /\ started' = started
  BY <1>1, <1>2, <1>3, <1>4, Calling
<1> QED  BY <1>2, <1>5 DEF Turn

LEMMA OnMessageTurn ==
  ASSUME CallInv, NEW f, OnMessage(f)
  PROVE  Turn(Main, {"none"}, {"none"}) /\ arg'[Main] = NoArg /\ started' = started
<1>1. NoArg \in Arg  BY Constants DEF MessageArg, NoArg, Arg
<1>2. <<>> \in Todo /\ FirstOf(<<>>) \in {"none"}  BY CallSteps
<1>3. Calls(Main, NoArg, <<>>)  BY DEF OnMessage, SetEnd
<1>4. Main \in Thread  BY Constants
<1>5. Turn(Main, {"none"}, {FirstOf(<<>>)}) /\ arg'[Main] = NoArg /\ started' = started
  BY <1>1, <1>2, <1>3, <1>4, Calling
<1> QED  BY <1>2, <1>5 DEF Turn

LEMMA ClearErrorLoggedFlagTurn ==
  ASSUME CallInv, ClearErrorLoggedFlag
  PROVE  Turn(Main, {"none"}, {"none"}) /\ arg'[Main] = NoArg /\ started' = started
<1>1. NoArg \in Arg  BY Constants DEF MessageArg, NoArg, Arg
<1>2. <<>> \in Todo /\ FirstOf(<<>>) \in {"none"}  BY CallSteps
<1>3. Calls(Main, NoArg, <<>>)  BY DEF ClearErrorLoggedFlag, SetEnd
<1>4. Main \in Thread  BY Constants
<1>5. Turn(Main, {"none"}, {FirstOf(<<>>)}) /\ arg'[Main] = NoArg /\ started' = started
  BY <1>1, <1>2, <1>3, <1>4, Calling
<1> QED  BY <1>2, <1>5 DEF Turn

LEMMA EraseTurn ==
  ASSUME CallInv, Erase
  PROVE  Turn(Main, {"erase"}, {"none"}) /\ (First(Main)' # "none" => arg'[Main] = arg[Main])
<1>1. At(Main, "erase") /\ GoesOn(Main)  BY DEF Erase
<1>2. Main \in Thread  BY Constants
<1>3. Turn(Main, {"erase"}, {FirstOf(Tail(todo[Main]))})
      /\ (FirstOf(Tail(todo[Main])) # "none" => arg'[Main] = arg[Main])
  BY <1>1, <1>2, GoingOn
<1>4. FirstOf(Tail(todo[Main])) \in {"none"}
  BY <1>1, <1>2, AtStep, TodoTable, CallSteps DEF First, Looks
<1> QED  BY <1>3, <1>4 DEF Turn

LEMMA AddSinkTurn ==
  ASSUME CallInv, AddSink
  PROVE  Turn(Main, {"add"}, {"core", "find"}) /\ (First(Main)' # "none" => arg'[Main] = arg[Main])
<1>1. At(Main, "add") /\ GoesOn(Main)  BY DEF AddSink
<1>2. Main \in Thread  BY Constants
<1>3. Turn(Main, {"add"}, {FirstOf(Tail(todo[Main]))})
      /\ (FirstOf(Tail(todo[Main])) # "none" => arg'[Main] = arg[Main])
  BY <1>1, <1>2, GoingOn
<1>4. FirstOf(Tail(todo[Main])) \in {"core", "find"}
  BY <1>1, <1>2, AtStep, TodoTable, CallSteps DEF First, Looks
<1> QED  BY <1>3, <1>4 DEF Turn

LEMMA ColorizationTurn ==
  ASSUME CallInv, Colorization
  PROVE  Turn(Main, {"color"}, {"none"}) /\ (First(Main)' # "none" => arg'[Main] = arg[Main])
<1>1. At(Main, "color") /\ GoesOn(Main)  BY DEF Colorization
<1>2. Main \in Thread  BY Constants
<1>3. Turn(Main, {"color"}, {FirstOf(Tail(todo[Main]))})
      /\ (FirstOf(Tail(todo[Main])) # "none" => arg'[Main] = arg[Main])
  BY <1>1, <1>2, GoingOn
<1>4. FirstOf(Tail(todo[Main])) \in {"none"}
  BY <1>1, <1>2, AtStep, TodoTable, CallSteps DEF First, Looks
<1> QED  BY <1>3, <1>4 DEF Turn

LEMMA EnableSystemLogTurn ==
  ASSUME CallInv, EnableSystemLog
  PROVE  Turn(Main, {"system"}, {"none"}) /\ (First(Main)' # "none" => arg'[Main] = arg[Main])
<1>1. At(Main, "system") /\ GoesOn(Main)  BY DEF EnableSystemLog
<1>2. Main \in Thread  BY Constants
<1>3. Turn(Main, {"system"}, {FirstOf(Tail(todo[Main]))})
      /\ (FirstOf(Tail(todo[Main])) # "none" => arg'[Main] = arg[Main])
  BY <1>1, <1>2, GoingOn
<1>4. FirstOf(Tail(todo[Main])) \in {"none"}
  BY <1>1, <1>2, AtStep, TodoTable, CallSteps DEF First, Looks
<1> QED  BY <1>3, <1>4 DEF Turn

LEMMA SetCoreTurn ==
  ASSUME CallInv, SetCore
  PROVE  Turn(Main, {"core"}, {"level"}) /\ (First(Main)' # "none" => arg'[Main] = arg[Main])
<1>1. At(Main, "core") /\ GoesOn(Main)  BY DEF SetCore
<1>2. Main \in Thread  BY Constants
<1>3. Turn(Main, {"core"}, {FirstOf(Tail(todo[Main]))})
      /\ (FirstOf(Tail(todo[Main])) # "none" => arg'[Main] = arg[Main])
  BY <1>1, <1>2, GoingOn
<1>4. FirstOf(Tail(todo[Main])) \in {"level"}
  BY <1>1, <1>2, AtStep, TodoTable, CallSteps DEF First, Looks
<1> QED  BY <1>3, <1>4 DEF Turn

LEMMA SetGlobalTurn ==
  ASSUME CallInv, SetGlobal
  PROVE  Turn(Main, {"level"}, {"none", "color", "system"})
         /\ (First(Main)' # "none" => arg'[Main] = arg[Main])
<1>1. At(Main, "level") /\ GoesOn(Main)  BY DEF SetGlobal
<1>2. Main \in Thread  BY Constants
<1>3. Turn(Main, {"level"}, {FirstOf(Tail(todo[Main]))})
      /\ (FirstOf(Tail(todo[Main])) # "none" => arg'[Main] = arg[Main])
  BY <1>1, <1>2, GoingOn
<1>4. FirstOf(Tail(todo[Main])) \in {"none", "color", "system"}
  BY <1>1, <1>2, AtStep, TodoTable, CallSteps DEF First, Looks
<1> QED  BY <1>3, <1>4 DEF Turn

LEMMA StartTurn ==
  ASSUME CallInv, Start
  PROVE  CallInv' /\ ~torn /\ todo' = todo /\ arg' = arg /\ started = {Main} /\ todo[Main] = <<>>
         /\ \A u \in Thread : First(u)' \in Putting => during'[u] = during[u] \cup {Setting}
<1>1. CallInv'  BY Constants DEF Start, CallInv
<1>2. Observes  BY DEF Start
<1> QED  BY <1>1, <1>2, NotesTaken DEF Start

-----------------------------------------------------------------------------
(* The invariants, one part after the other.                               *)

LEMMA CallStep == CallInv /\ [Next]_vars => CallInv'
<1> SUFFICES ASSUME CallInv, [Next]_vars PROVE CallInv'
  OBVIOUS
<1>1. ASSUME NEW t \in Thread, NEW l \in Level \ {NoneLevel}, Log(t, l)
       PROVE  CallInv'
  BY <1>1, LogTurn DEF Turn
<1>2. ASSUME NEW t \in Thread, Translate(t)
       PROVE  CallInv'
  BY <1>2, TranslateTurn DEF Turn
<1>3. ASSUME NEW t \in Thread, Find(t)
       PROVE  CallInv'
  BY <1>3, FindTurn DEF Turn
<1>4. ASSUME NEW t \in Thread, Found(t)
       PROVE  CallInv'
  BY <1>4, FoundTurn DEF Turn
<1>5. ASSUME NEW t \in Thread, Insert(t)
       PROVE  CallInv'
  BY <1>5, InsertTurn DEF Turn
<1>6. ASSUME NEW t \in Thread, Inserted(t)
       PROVE  CallInv'
  BY <1>6, InsertedTurn DEF Turn
<1>7. ASSUME NEW t \in Thread, Flag(t)
       PROVE  CallInv'
  BY <1>7, FlagTurn DEF Turn
<1>8. ASSUME NEW t \in Thread, Filter(t)
       PROVE  CallInv'
  BY <1>8, FilterTurn DEF Turn
<1>9. ASSUME NEW t \in Thread, ToSystemLog(t)
       PROVE  CallInv'
  BY <1>9, ToSystemLogTurn DEF Turn
<1>10. ASSUME NEW t \in Thread, ToSinks(t)
       PROVE  CallInv'
  BY <1>10, ToSinksTurn DEF Turn
<1>11. ASSUME NEW t \in Thread, Consume(t)
       PROVE  CallInv'
  BY <1>11, ConsumeTurn DEF Turn
<1>12. ASSUME NEW t \in Thread, Write(t)
       PROVE  CallInv'
  BY <1>12, WriteTurn DEF Turn
<1>13. ASSUME NEW d \in Domain, ClearDomain(d)
       PROVE  CallInv'
  BY <1>13, ClearDomainTurn DEF Turn
<1>14. ASSUME NEW s \in Stream, NEW d \in Domain, NEW id \in Id,
         NEW imbue \in {<<>>, <<"find">>}, SetupLogging(s, d, id, imbue)
       PROVE  CallInv'
  BY <1>14, SetupLoggingTurn DEF Turn
<1>15. ASSUME NEW l \in Level, SetLevel(l)
       PROVE  CallInv'
  BY <1>15, SetLevelTurn DEF Turn
<1>16. ASSUME NEW color \in BOOLEAN, SetColorization(color)
       PROVE  CallInv'
  BY <1>16, SetColorizationTurn DEF Turn
<1>17. ASSUME NEW f \in {"none", "accepts", "vetoes"}, OnMessage(f)
       PROVE  CallInv'
  BY <1>17, OnMessageTurn DEF Turn
<1>18. CASE Erase
  BY <1>18, EraseTurn DEF Turn
<1>19. CASE AddSink
  BY <1>19, AddSinkTurn DEF Turn
<1>20. CASE Colorization
  BY <1>20, ColorizationTurn DEF Turn
<1>21. CASE SetupSystemLog
  BY <1>21, SetupSystemLogTurn DEF Turn
<1>22. CASE EnableSystemLog
  BY <1>22, EnableSystemLogTurn DEF Turn
<1>23. CASE CleanSystemLog
  BY <1>23, CleanSystemLogTurn DEF Turn
<1>24. CASE SetCore
  BY <1>24, SetCoreTurn DEF Turn
<1>25. CASE SetGlobal
  BY <1>25, SetGlobalTurn DEF Turn
<1>26. CASE ClearErrorLoggedFlag
  BY <1>26, ClearErrorLoggedFlagTurn DEF Turn
<1>27. CASE Start
  BY <1>27, StartTurn DEF Turn
<1>28. CASE Over \/ UNCHANGED vars
  BY <1>28 DEF Over, vars, historyVars, globals, sinkVars, writeVars, localeVars, CallInv
<1>29. CASE RegisterFails
  BY <1>29, RegisterFailsTurn DEF Turn
<1> QED
  BY <1>1, <1>2, <1>3, <1>4, <1>5, <1>6, <1>7, <1>8, <1>9, <1>10, <1>11, <1>12, <1>13,
  <1>14, <1>15, <1>16, <1>17, <1>18, <1>19, <1>20, <1>21, <1>22, <1>23, <1>24, <1>25,
  <1>26, <1>27, <1>28, <1>29, Constants DEF Next

LocaleType == [id : Id \cup {"none", "classic"}, paths : {{}, {"project"}}]

\* What was returned since the domain was cleared is what the map holds.  Only
\* a thread that inserts or erases is in the map to change it, and once the
\* map is warm there is none.
LocaleInv ==
  /\ invalid \subseteq Id /\ torn \in BOOLEAN /\ warm \in BOOLEAN
  /\ locales \in [Domain -> LocaleType] /\ returned \in [Domain -> SUBSET LocaleType]
  /\ \A d \in Domain : returned[d] = {} \/ (Has(d) /\ returned[d] = {locales[d]})
  /\ inside \in [Thread -> {"outside", "reading", "changing"}]
  /\ ~torn => \A t \in Thread : inside[t] = "changing" => First(t) \in {"inserted", "erase"}
  /\ warm => /\ ~torn
             /\ \A d \in Domain : Has(d)
             /\ \A t \in Thread : First(t) \notin {"insert", "inserted", "erase"}

LEMMA LocaleIdle ==
  ASSUME LocaleInv, NEW t \in Thread, NEW from, NEW to, Turn(t, from, to),
         from \cap {"inserted", "erase"} = {}, to \cap {"insert", "inserted", "erase"} = {},
         UNCHANGED <<localeVars, warm>>
  PROVE  LocaleInv'
<1>1. /\ First(t) \notin {"inserted", "erase"} /\ First(t)' \notin {"insert", "inserted", "erase"}
      /\ \A u \in Thread \ {t} : First(u)' = First(u)
  BY DEF Turn
<1>2. /\ invalid' = invalid /\ torn' = torn /\ warm' = warm /\ locales' = locales
      /\ returned' = returned /\ inside' = inside
  BY DEF localeVars
<1> QED  BY <1>1, <1>2 DEF LocaleInv, Has

LEMMA LocaleStep ==
  CallInv /\ LocaleInv /\ [Next]_vars => LocaleInv'
<1> SUFFICES ASSUME CallInv, LocaleInv, [Next]_vars PROVE LocaleInv'
  OBVIOUS
<1>1. ASSUME NEW t \in Thread, NEW l \in Level \ {NoneLevel}, Log(t, l)
       PROVE  LocaleInv'
  <2>1. UNCHANGED <<localeVars, warm>>  BY <1>1 DEF Log, GoesOn, Goes, Moves, Calls, historyVars
  <2> QED  BY <1>1, <2>1, LogTurn, LocaleIdle, Constants
<1>2. ASSUME NEW t \in Thread, Translate(t)
       PROVE  LocaleInv'
  <2>1. UNCHANGED <<localeVars, warm>>
    BY <1>2 DEF Translate, GoesOn, Goes, Moves, Calls, historyVars
  <2> QED  BY <1>2, <2>1, TranslateTurn, LocaleIdle, Constants
<1>3. ASSUME NEW t \in Thread, Find(t)
       PROVE  LocaleInv'
  <2>1. Turn(t, {"find"}, {"found"})  BY <1>3, FindTurn
  <2>2. /\ inside' = [inside EXCEPT ![t] = "reading"] /\ warm' = warm
        /\ torn' = (torn \/ \E u \in Thread \ {t} :
                             inside[u] # "outside" /\ "changing" \in {"reading", inside[u]})
        /\ invalid' = invalid /\ locales' = locales /\ returned' = returned
    BY <1>3 DEF Find, Enter, Goes, Moves, historyVars
  <2>3. /\ inside' \in [Thread -> {"outside", "reading", "changing"}] /\ inside'[t] = "reading"
        /\ \A u \in Thread \ {t} : inside'[u] = inside[u]
    BY <2>2 DEF LocaleInv
  <2>4. torn' \in BOOLEAN /\ (~torn' => ~torn)  BY <2>2 DEF LocaleInv
  <2>5. /\ First(t)' = "found" /\ ~torn
        /\ \A u \in Thread \ {t} : First(u)' = First(u)
    BY <2>1 DEF Turn
  <2>6. ~torn' => \A u \in Thread : inside'[u] = "changing" => First(u)' \in {"inserted", "erase"}
    BY <2>3, <2>4, <2>5 DEF LocaleInv
  <2>7. warm => ~torn'
    <3> SUFFICES ASSUME warm, torn' PROVE FALSE  BY <2>4
    <3>1. PICK u \in Thread \ {t} : inside[u] = "changing"  BY <2>2, <2>5
    <3> QED  BY <3>1, <2>5 DEF LocaleInv
  <2>8. warm => \A u \in Thread : First(u)' \notin {"insert", "inserted", "erase"}
    BY <2>5 DEF LocaleInv
  <2> QED  BY <2>2, <2>3, <2>4, <2>6, <2>7, <2>8 DEF LocaleInv, Has
<1>4. ASSUME NEW t \in Thread, Found(t)
       PROVE  LocaleInv'
  <2> DEFINE d == arg[t].domain
  <2>1. /\ Turn(t, {"found"}, {"none", "flag", "find", "core", "insert"})
        /\ First(t)' = "insert" => ~Has(d)
    BY <1>4, FoundTurn
  <2>2. /\ inside' = [inside EXCEPT ![t] = "outside"] /\ warm' = warm /\ torn' = torn
        /\ invalid' = invalid /\ locales' = locales
        /\ returned' = IF Has(d) THEN [returned EXCEPT ![d] = @ \cup {locales[d]}] ELSE returned
    BY <1>4 DEF Found, FindIn, Leave, Returns, Goes, Moves, historyVars
  <2>3. d \in Domain  BY DEF CallInv, Arg
  <2> HIDE DEF d
  <2>4. /\ inside' \in [Thread -> {"outside", "reading", "changing"}] /\ inside'[t] = "outside"
        /\ \A u \in Thread \ {t} : inside'[u] = inside[u]
    BY <2>2 DEF LocaleInv
  <2>5. /\ ~torn /\ First(t) = "found"
        /\ First(t)' \in {"none", "flag", "find", "core", "insert"}
        /\ \A u \in Thread \ {t} : First(u)' = First(u)
    BY <2>1 DEF Turn
  <2>6. \A u \in Thread : inside'[u] = "changing" => First(u)' \in {"inserted", "erase"}
    BY <2>4, <2>5 DEF LocaleInv
  <2>7. warm => \A u \in Thread : First(u)' \notin {"insert", "inserted", "erase"}
    BY <2>1, <2>3, <2>5 DEF LocaleInv
  <2>8. /\ returned' \in [Domain -> SUBSET LocaleType]
        /\ \A c \in Domain : returned'[c] = {} \/ (Has(c)' /\ returned'[c] = {locales'[c]})
    <3>1. CASE Has(d)
      <4>1. /\ returned' = [returned EXCEPT ![d] = @ \cup {locales[d]}]
            /\ locales[d] \in LocaleType
        BY <2>2, <2>3, <3>1 DEF LocaleInv
      <4>2. returned'[d] = {locales[d]} /\ \A c \in Domain \ {d} : returned'[c] = returned[c]
        BY <2>3, <4>1 DEF LocaleInv
      <4>3. returned' \in [Domain -> SUBSET LocaleType]  BY <2>3, <4>1 DEF LocaleInv
      <4> QED  BY <2>2, <3>1, <4>2, <4>3 DEF LocaleInv, Has
    <3>2. CASE ~Has(d)  BY <2>2, <3>2 DEF LocaleInv, Has
    <3> QED  BY <3>1, <3>2
  <2> QED  BY <2>2, <2>4, <2>5, <2>6, <2>7, <2>8 DEF LocaleInv, Has
<1>5. ASSUME NEW t \in Thread, Insert(t)
       PROVE  LocaleInv'
  <2>1. Turn(t, {"insert"}, {"inserted"})  BY <1>5, InsertTurn
  <2>2. /\ inside' = [inside EXCEPT ![t] = "changing"] /\ warm' = warm
        /\ torn' = (torn \/ \E u \in Thread \ {t} :
                             inside[u] # "outside" /\ "changing" \in {"changing", inside[u]})
        /\ invalid' = invalid /\ locales' = locales /\ returned' = returned
    BY <1>5 DEF Insert, Enter, Goes, Moves, historyVars
  <2>3. /\ inside' \in [Thread -> {"outside", "reading", "changing"}]
        /\ \A u \in Thread \ {t} : inside'[u] = inside[u]
    BY <2>2 DEF LocaleInv
  <2>4. torn' \in BOOLEAN  BY <2>2 DEF LocaleInv
  <2>5. /\ First(t)' = "inserted" /\ First(t) = "insert" /\ ~torn
        /\ \A u \in Thread \ {t} : First(u)' = First(u)
    BY <2>1 DEF Turn
  <2>6. \A u \in Thread : inside'[u] = "changing" => First(u)' \in {"inserted", "erase"}
    BY <2>3, <2>5 DEF LocaleInv
  <2>7. ~warm  BY <2>5 DEF LocaleInv
  <2> QED  BY <2>2, <2>3, <2>4, <2>6, <2>7 DEF LocaleInv, Has
<1>6. ASSUME NEW t \in Thread, Inserted(t)
       PROVE  LocaleInv'
  <2> DEFINE d == arg[t].domain
             locale == Kept(d, Generated(arg[t]))
  <2>1. Turn(t, {"inserted"}, {"none", "flag", "find", "core"})  BY <1>6, InsertedTurn
  <2>2. /\ inside' = [inside EXCEPT ![t] = "outside"] /\ warm' = warm /\ torn' = torn
        /\ invalid' = invalid /\ locales' = [locales EXCEPT ![d] = locale]
        /\ returned' = [returned EXCEPT ![d] = @ \cup {locale}]
    BY <1>6 DEF Inserted, InsertInto, Leave, Returns, Cached, GoesOn, Goes, Moves, historyVars
  <2>3. arg[t] \in Arg /\ d \in Domain  BY DEF CallInv, Arg
  <2>4. Generated(arg[t]) \in LocaleType /\ Generated(arg[t]) # NoLocale
    BY <2>3, IdAssumption DEF Generated, Arg, LocaleType, Classic, NoLocale
  <2>5. locale \in LocaleType /\ locale # NoLocale /\ (Has(d) => locale = locales[d])
    BY <2>3, <2>4 DEF Kept, Has, LocaleInv
  <2> HIDE DEF d, locale
  <2>6. /\ inside' \in [Thread -> {"outside", "reading", "changing"}] /\ inside'[t] = "outside"
        /\ \A u \in Thread \ {t} : inside'[u] = inside[u]
    BY <2>2 DEF LocaleInv
  <2>7. /\ ~torn /\ First(t) = "inserted"
        /\ \A u \in Thread \ {t} : First(u)' = First(u)
    BY <2>1 DEF Turn
  <2>8. \A u \in Thread : inside'[u] = "changing" => First(u)' \in {"inserted", "erase"}
    BY <2>6, <2>7 DEF LocaleInv
  <2>9. ~warm  BY <2>7 DEF LocaleInv
  <2>10. /\ locales' \in [Domain -> LocaleType] /\ locales'[d] = locale
         /\ \A c \in Domain \ {d} : locales'[c] = locales[c]
    BY <2>2, <2>3, <2>5 DEF LocaleInv
  <2>11. /\ returned' \in [Domain -> SUBSET LocaleType] /\ returned'[d] = {locale}
         /\ \A c \in Domain \ {d} : returned'[c] = returned[c]
    BY <2>2, <2>3, <2>5 DEF LocaleInv
  <2>12. \A c \in Domain : returned'[c] = {} \/ (Has(c)' /\ returned'[c] = {locales'[c]})
    BY <2>3, <2>5, <2>10, <2>11 DEF LocaleInv, Has
  <2> QED  BY <2>2, <2>6, <2>7, <2>8, <2>9, <2>10, <2>11, <2>12 DEF LocaleInv
<1>7. ASSUME NEW t \in Thread, Flag(t)
       PROVE  LocaleInv'
  <2>1. UNCHANGED <<localeVars, warm>>  BY <1>7 DEF Flag, GoesOn, Goes, Moves, Calls, historyVars
  <2> QED  BY <1>7, <2>1, FlagTurn, LocaleIdle, Constants
<1>8. ASSUME NEW t \in Thread, Filter(t)
       PROVE  LocaleInv'
  <2>1. UNCHANGED <<localeVars, warm>>  BY <1>8 DEF Filter, GoesOn, Goes, Moves, Calls, historyVars
  <2> QED  BY <1>8, <2>1, FilterTurn, LocaleIdle, Constants
<1>9. ASSUME NEW t \in Thread, ToSystemLog(t)
       PROVE  LocaleInv'
  <2>1. UNCHANGED <<localeVars, warm>>
    BY <1>9 DEF ToSystemLog, GoesOn, Goes, Moves, Calls, historyVars
  <2> QED  BY <1>9, <2>1, ToSystemLogTurn, LocaleIdle, Constants
<1>10. ASSUME NEW t \in Thread, ToSinks(t)
       PROVE  LocaleInv'
  <2>1. UNCHANGED <<localeVars, warm>>
    BY <1>10 DEF ToSinks, GoesOn, Goes, Moves, Calls, historyVars
  <2> QED  BY <1>10, <2>1, ToSinksTurn, LocaleIdle, Constants
<1>11. ASSUME NEW t \in Thread, Consume(t)
       PROVE  LocaleInv'
  <2>1. UNCHANGED <<localeVars, warm>>
    BY <1>11 DEF Consume, GoesOn, Goes, Moves, Calls, historyVars
  <2> QED  BY <1>11, <2>1, ConsumeTurn, LocaleIdle, Constants
<1>12. ASSUME NEW t \in Thread, Write(t)
       PROVE  LocaleInv'
  <2>1. UNCHANGED <<localeVars, warm>>  BY <1>12 DEF Write, GoesOn, Goes, Moves, Calls, historyVars
  <2> QED  BY <1>12, <2>1, WriteTurn, LocaleIdle, Constants
<1>13. ASSUME NEW d \in Domain, ClearDomain(d)
       PROVE  LocaleInv'
  <2>1. Turn(Main, {"none"}, {"erase"})  BY <1>13, ClearDomainTurn
  <2>2. /\ inside' = [inside EXCEPT ![Main] = "changing"] /\ warm' = FALSE
        /\ torn' = (torn \/ \E u \in Thread \ {Main} :
                             inside[u] # "outside" /\ "changing" \in {"changing", inside[u]})
        /\ invalid' = invalid /\ locales' = locales /\ returned' = returned
    BY <1>13 DEF ClearDomain, Enter
  <2>3. /\ inside' \in [Thread -> {"outside", "reading", "changing"}]
        /\ \A u \in Thread \ {Main} : inside'[u] = inside[u]
    BY <2>2, Constants DEF LocaleInv
  <2>4. torn' \in BOOLEAN  BY <2>2 DEF LocaleInv
  <2>5. /\ First(Main)' = "erase" /\ ~torn
        /\ \A u \in Thread \ {Main} : First(u)' = First(u)
    BY <2>1 DEF Turn
  <2>6. \A u \in Thread : inside'[u] = "changing" => First(u)' \in {"inserted", "erase"}
    BY <2>3, <2>5 DEF LocaleInv
  <2> QED  BY <2>2, <2>3, <2>4, <2>6 DEF LocaleInv, Has
<1>14. ASSUME NEW s \in Stream, NEW d \in Domain, NEW id \in Id,
         NEW imbue \in {<<>>, <<"find">>}, SetupLogging(s, d, id, imbue)
       PROVE  LocaleInv'
  <2>1. UNCHANGED <<localeVars, warm>>
    BY <1>14 DEF SetupLogging, GoesOn, Goes, Moves, Calls, historyVars
  <2> QED  BY <1>14, <2>1, SetupLoggingTurn, LocaleIdle, Constants
<1>15. ASSUME NEW l \in Level, SetLevel(l)
       PROVE  LocaleInv'
  <2>1. UNCHANGED <<localeVars, warm>>
    BY <1>15 DEF SetLevel, GoesOn, Goes, Moves, Calls, historyVars
  <2> QED  BY <1>15, <2>1, SetLevelTurn, LocaleIdle, Constants
<1>16. ASSUME NEW color \in BOOLEAN, SetColorization(color)
       PROVE  LocaleInv'
  <2>1. UNCHANGED <<localeVars, warm>>
    BY <1>16 DEF SetColorization, GoesOn, Goes, Moves, Calls, historyVars
  <2> QED  BY <1>16, <2>1, SetColorizationTurn, LocaleIdle, Constants
<1>17. ASSUME NEW f \in {"none", "accepts", "vetoes"}, OnMessage(f)
       PROVE  LocaleInv'
  <2>1. UNCHANGED <<localeVars, warm>>
    BY <1>17 DEF OnMessage, GoesOn, Goes, Moves, Calls, historyVars
  <2> QED  BY <1>17, <2>1, OnMessageTurn, LocaleIdle, Constants
<1>18. CASE Erase
  <2> DEFINE d == arg[Main].domain
  <2>1. Turn(Main, {"erase"}, {"none"})  BY <1>18, EraseTurn
  <2>2. /\ inside' = [inside EXCEPT ![Main] = "outside"] /\ warm' = warm /\ torn' = torn
        /\ invalid' = invalid /\ locales' = [locales EXCEPT ![d] = NoLocale]
        /\ returned' = [returned EXCEPT ![d] = {}]
    BY <1>18 DEF Erase, EraseFrom, Leave, GoesOn, Goes, Moves, historyVars
  <2>3. d \in Domain /\ NoLocale \in LocaleType  BY Constants DEF CallInv, Arg, NoLocale, LocaleType
  <2> HIDE DEF d
  <2>4. /\ inside' \in [Thread -> {"outside", "reading", "changing"}] /\ inside'[Main] = "outside"
        /\ \A u \in Thread \ {Main} : inside'[u] = inside[u]
    BY <2>2, Constants DEF LocaleInv
  <2>5. /\ ~torn /\ First(Main) = "erase"
        /\ \A u \in Thread \ {Main} : First(u)' = First(u)
    BY <2>1 DEF Turn
  <2>6. \A u \in Thread : inside'[u] = "changing" => First(u)' \in {"inserted", "erase"}
    BY <2>4, <2>5 DEF LocaleInv
  <2>7. ~warm  BY <2>5, Constants DEF LocaleInv
  <2>8. /\ locales' \in [Domain -> LocaleType] /\ returned' \in [Domain -> SUBSET LocaleType]
        /\ \A c \in Domain \ {d} : locales'[c] = locales[c] /\ returned'[c] = returned[c]
        /\ returned'[d] = {}
    BY <2>2, <2>3 DEF LocaleInv
  <2>9. \A c \in Domain : returned'[c] = {} \/ (Has(c)' /\ returned'[c] = {locales'[c]})
    BY <2>3, <2>8 DEF LocaleInv, Has
  <2> QED  BY <2>2, <2>4, <2>5, <2>6, <2>7, <2>8, <2>9 DEF LocaleInv
<1>19. CASE AddSink
  <2>1. UNCHANGED <<localeVars, warm>>
    BY <1>19 DEF AddSink, GoesOn, Goes, Moves, Calls, historyVars
  <2> QED  BY <1>19, <2>1, AddSinkTurn, LocaleIdle, Constants
<1>20. CASE Colorization
  <2>1. UNCHANGED <<localeVars, warm>>
    BY <1>20 DEF Colorization, GoesOn, Goes, Moves, Calls, historyVars
  <2> QED  BY <1>20, <2>1, ColorizationTurn, LocaleIdle, Constants
<1>21. CASE SetupSystemLog
  <2>1. UNCHANGED <<localeVars, warm>>
    BY <1>21 DEF SetupSystemLog, GoesOn, Goes, Moves, Calls, historyVars
  <2> QED  BY <1>21, <2>1, SetupSystemLogTurn, LocaleIdle, Constants
<1>22. CASE EnableSystemLog
  <2>1. UNCHANGED <<localeVars, warm>>
    BY <1>22 DEF EnableSystemLog, GoesOn, Goes, Moves, Calls, historyVars
  <2> QED  BY <1>22, <2>1, EnableSystemLogTurn, LocaleIdle, Constants
<1>23. CASE CleanSystemLog
  <2>1. UNCHANGED <<localeVars, warm>>
    BY <1>23 DEF CleanSystemLog, GoesOn, Goes, Moves, Calls, historyVars
  <2> QED  BY <1>23, <2>1, CleanSystemLogTurn, LocaleIdle, Constants
<1>24. CASE SetCore
  <2>1. UNCHANGED <<localeVars, warm>>
    BY <1>24 DEF SetCore, GoesOn, Goes, Moves, Calls, historyVars
  <2> QED  BY <1>24, <2>1, SetCoreTurn, LocaleIdle, Constants
<1>25. CASE SetGlobal
  <2>1. UNCHANGED <<localeVars, warm>>
    BY <1>25 DEF SetGlobal, GoesOn, Goes, Moves, Calls, historyVars
  <2> QED  BY <1>25, <2>1, SetGlobalTurn, LocaleIdle, Constants
<1>26. CASE ClearErrorLoggedFlag
  <2>1. UNCHANGED <<localeVars, warm>>
    BY <1>26 DEF ClearErrorLoggedFlag, GoesOn, Goes, Moves, Calls, historyVars
  <2> QED  BY <1>26, <2>1, ClearErrorLoggedFlagTurn, LocaleIdle, Constants
<1>27. CASE Start
  <2>1. /\ CallInv' /\ ~torn /\ todo' = todo /\ started = {Main} /\ todo[Main] = <<>>
    BY <1>27, StartTurn
  <2>2. \A u \in Thread : todo[u] = <<>>  BY <2>1 DEF CallInv
  <2>3. \A u \in Thread : First(u)' = First(u) /\ First(u) = "none"
    BY <2>1, <2>2 DEF First, FirstOf
  <2>4. UNCHANGED localeVars /\ warm' = (\A d \in Domain : returned[d] # {})  BY <1>27 DEF Start
  <2>5. warm' \in BOOLEAN /\ (warm' => \A d \in Domain : Has(d))  BY <2>4 DEF LocaleInv
  <2> QED  BY <2>1, <2>3, <2>4, <2>5 DEF LocaleInv, Has, localeVars
<1>28. CASE Over \/ UNCHANGED vars
  BY <1>28 DEF Over, vars, historyVars, localeVars, LocaleInv, Has, First
<1>29. CASE RegisterFails
  <2>1. UNCHANGED <<localeVars, warm>>
    BY <1>29 DEF RegisterFails, GoesOn, Goes, Moves, Calls, historyVars
  <2> QED  BY <1>29, <2>1, RegisterFailsTurn, LocaleIdle, Constants
<1> QED
  BY <1>1, <1>2, <1>3, <1>4, <1>5, <1>6, <1>7, <1>8, <1>9, <1>10, <1>11, <1>12, <1>13,
  <1>14, <1>15, <1>16, <1>17, <1>18, <1>19, <1>20, <1>21, <1>22, <1>23, <1>24, <1>25,
  <1>26, <1>27, <1>28, <1>29, Constants DEF Next

SinkType == [n : Nat \ {0}, stream : Stream]

\* There is one sink at most, for the stream set up last; none while
\* setup_logging replaces it.  A thread holds a sink just when it writes.
SinkInv ==
  /\ latest \in Stream \cup {Default}
  /\ sinks \subseteq SinkType /\ \A k \in sinks : sinks = {k} /\ k.stream = latest
  /\ sinks = {} => latest = Default \/ First(Main) = "add"
  /\ First(Main) = "add" => sinks = {} /\ arg[Main].stream = latest /\ latest \in Stream
  /\ pending \in [Thread -> SUBSET SinkType]
  /\ writing \in [Thread -> SinkType \cup {NoSink}]
  /\ \A t \in Thread : writing[t] # NoSink <=> First(t) = "write"

LEMMA SinksIdle ==
  ASSUME SinkInv, NEW t \in Thread, NEW from, NEW to, Turn(t, from, to),
         from \cap {"add", "write"} = {}, to \cap {"add", "write"} = {},
         UNCHANGED <<sinks, latest, writing>>, pending' \in [Thread -> SUBSET SinkType]
  PROVE  SinkInv'
<1>1. /\ First(t) \notin {"add", "write"} /\ First(t)' \notin {"add", "write"}
      /\ \A u \in Thread \ {t} : First(u)' = First(u) /\ arg'[u] = arg[u]
  BY DEF Turn
<1>2. First(Main) = "add" \/ First(Main)' = "add" =>
        /\ First(Main) = "add" /\ First(Main)' = "add" /\ arg'[Main] = arg[Main]
  BY <1>1, Constants
<1> QED  BY <1>1, <1>2 DEF SinkInv

LEMMA SinkStep == CallInv /\ SinkInv /\ [Next]_vars => SinkInv'
<1> SUFFICES ASSUME CallInv, SinkInv, [Next]_vars PROVE SinkInv'
  OBVIOUS
<1>1. ASSUME NEW t \in Thread, NEW l \in Level \ {NoneLevel}, Log(t, l)
       PROVE  SinkInv'
  <2>1. UNCHANGED <<sinks, latest, writing>> /\ pending' = pending
    BY <1>1 DEF Log, sinkVars, writeVars
  <2>2. pending' \in [Thread -> SUBSET SinkType]  BY <2>1 DEF SinkInv
  <2> QED  BY <1>1, <2>1, <2>2, LogTurn, SinksIdle, Constants
<1>2. ASSUME NEW t \in Thread, Translate(t)
       PROVE  SinkInv'
  <2>1. UNCHANGED <<sinks, latest, writing>> /\ pending' = pending
    BY <1>2 DEF Translate, sinkVars, writeVars
  <2>2. pending' \in [Thread -> SUBSET SinkType]  BY <2>1 DEF SinkInv
  <2> QED  BY <1>2, <2>1, <2>2, TranslateTurn, SinksIdle, Constants
<1>3. ASSUME NEW t \in Thread, Find(t)
       PROVE  SinkInv'
  <2>1. UNCHANGED <<sinks, latest, writing>> /\ pending' = pending
    BY <1>3 DEF Find, sinkVars, writeVars
  <2>2. pending' \in [Thread -> SUBSET SinkType]  BY <2>1 DEF SinkInv
  <2> QED  BY <1>3, <2>1, <2>2, FindTurn, SinksIdle, Constants
<1>4. ASSUME NEW t \in Thread, Found(t)
       PROVE  SinkInv'
  <2>1. UNCHANGED <<sinks, latest, writing>> /\ pending' = pending
    BY <1>4 DEF Found, sinkVars, writeVars
  <2>2. pending' \in [Thread -> SUBSET SinkType]  BY <2>1 DEF SinkInv
  <2> QED  BY <1>4, <2>1, <2>2, FoundTurn, SinksIdle, Constants
<1>5. ASSUME NEW t \in Thread, Insert(t)
       PROVE  SinkInv'
  <2>1. UNCHANGED <<sinks, latest, writing>> /\ pending' = pending
    BY <1>5 DEF Insert, sinkVars, writeVars
  <2>2. pending' \in [Thread -> SUBSET SinkType]  BY <2>1 DEF SinkInv
  <2> QED  BY <1>5, <2>1, <2>2, InsertTurn, SinksIdle, Constants
<1>6. ASSUME NEW t \in Thread, Inserted(t)
       PROVE  SinkInv'
  <2>1. UNCHANGED <<sinks, latest, writing>> /\ pending' = pending
    BY <1>6 DEF Inserted, sinkVars, writeVars
  <2>2. pending' \in [Thread -> SUBSET SinkType]  BY <2>1 DEF SinkInv
  <2> QED  BY <1>6, <2>1, <2>2, InsertedTurn, SinksIdle, Constants
<1>7. ASSUME NEW t \in Thread, Flag(t)
       PROVE  SinkInv'
  <2>1. UNCHANGED <<sinks, latest, writing>> /\ pending' = pending
    BY <1>7 DEF Flag, sinkVars, writeVars
  <2>2. pending' \in [Thread -> SUBSET SinkType]  BY <2>1 DEF SinkInv
  <2> QED  BY <1>7, <2>1, <2>2, FlagTurn, SinksIdle, Constants
<1>8. ASSUME NEW t \in Thread, Filter(t)
       PROVE  SinkInv'
  <2>1. UNCHANGED <<sinks, latest, writing>> /\ pending' = pending
    BY <1>8 DEF Filter, sinkVars, writeVars
  <2>2. pending' \in [Thread -> SUBSET SinkType]  BY <2>1 DEF SinkInv
  <2> QED  BY <1>8, <2>1, <2>2, FilterTurn, SinksIdle, Constants
<1>9. ASSUME NEW t \in Thread, ToSystemLog(t)
       PROVE  SinkInv'
  <2>1. UNCHANGED <<sinks, latest, writing>> /\ pending' = pending
    BY <1>9 DEF ToSystemLog, sinkVars, writeVars
  <2>2. pending' \in [Thread -> SUBSET SinkType]  BY <2>1 DEF SinkInv
  <2> QED  BY <1>9, <2>1, <2>2, ToSystemLogTurn, SinksIdle, Constants
<1>10. ASSUME NEW t \in Thread, ToSinks(t)
       PROVE  SinkInv'
  <2>1. UNCHANGED <<sinks, latest, writing>>  BY <1>10 DEF ToSinks, sinkVars
  <2>2. pending' \in [Thread -> SUBSET SinkType]  BY <1>10 DEF ToSinks, SinkInv
  <2> QED  BY <1>10, <2>1, <2>2, ToSinksTurn, SinksIdle
<1>11. ASSUME NEW t \in Thread, Consume(t)
       PROVE  SinkInv'
  <2>1. /\ Turn(t, {"consume"}, {"none", "consume", "write"})  BY <1>11, ConsumeTurn
  <2>2. PICK k \in pending[t] :
          /\ pending' = [pending EXCEPT ![t] = @ \ {k}]
          /\ IF IsEnabled(arg[t].level)
             THEN writing' = [writing EXCEPT ![t] = k] /\ todo' = [todo EXCEPT ![t] = <<"write">>]
             ELSE /\ writing' = writing
                  /\ todo' = [todo EXCEPT ![t] = IF pending'[t] = {} THEN <<>> ELSE <<"consume">>]
    BY <1>11 DEF Consume, Goes, Moves
  <2>3. UNCHANGED <<sinks, latest>>  BY <1>11 DEF Consume, sinkVars
  <2>4. pending' \in [Thread -> SUBSET SinkType] /\ k \in SinkType  BY <2>2 DEF SinkInv
  <2>5. k # NoSink  BY <2>4 DEF SinkType, NoSink
  <2>6. todo'[t] = IF IsEnabled(arg[t].level) THEN <<"write">>
                   ELSE IF pending'[t] = {} THEN <<>> ELSE <<"consume">>
    BY <2>2 DEF CallInv
  <2>7. IsEnabled(arg[t].level) <=> First(t)' = "write"
    BY <2>6, CallSteps DEF First
  <2>8. /\ First(t) = "consume" /\ First(t)' \in {"none", "consume", "write"}
        /\ \A u \in Thread \ {t} : First(u)' = First(u) /\ arg'[u] = arg[u]
    BY <2>1 DEF Turn
  <2>9. /\ writing' \in [Thread -> SinkType \cup {NoSink}]
        /\ \A u \in Thread : writing'[u] # NoSink <=> First(u)' = "write"
    <3>1. CASE IsEnabled(arg[t].level)
      <4>1. writing' = [writing EXCEPT ![t] = k]  BY <2>2, <3>1
      <4>2. writing'[t] = k /\ \A u \in Thread \ {t} : writing'[u] = writing[u]
        BY <4>1 DEF SinkInv
      <4> QED  BY <2>4, <2>5, <2>7, <2>8, <3>1, <4>1, <4>2 DEF SinkInv
    <3>2. CASE ~IsEnabled(arg[t].level)
      <4>1. writing' = writing  BY <2>2, <3>2
      <4> QED  BY <2>7, <2>8, <3>2, <4>1 DEF SinkInv
    <3> QED  BY <3>1, <3>2
  <2>10. First(Main) = "add" \/ First(Main)' = "add" =>
           First(Main) = "add" /\ First(Main)' = "add" /\ arg'[Main] = arg[Main]
    BY <2>8, Constants
  <2> QED  BY <2>3, <2>4, <2>9, <2>10 DEF SinkInv
<1>12. ASSUME NEW t \in Thread, Write(t)
       PROVE  SinkInv'
  <2>1. Turn(t, {"write"}, {"none", "consume"})  BY <1>12, WriteTurn
  <2>2. /\ writing' = [writing EXCEPT ![t] = NoSink] /\ pending' = pending
        /\ UNCHANGED <<sinks, latest>>
    BY <1>12 DEF Write, sinkVars
  <2>3. /\ writing' \in [Thread -> SinkType \cup {NoSink}] /\ writing'[t] = NoSink
        /\ \A u \in Thread \ {t} : writing'[u] = writing[u]
    BY <2>2 DEF SinkInv
  <2>4. /\ First(t) = "write" /\ First(t)' \in {"none", "consume"}
        /\ \A u \in Thread \ {t} : First(u)' = First(u) /\ arg'[u] = arg[u]
    BY <2>1 DEF Turn
  <2>5. First(Main) = "add" \/ First(Main)' = "add" =>
           First(Main) = "add" /\ First(Main)' = "add" /\ arg'[Main] = arg[Main]
    BY <2>4, Constants
  <2> QED  BY <2>2, <2>3, <2>4, <2>5 DEF SinkInv
<1>13. ASSUME NEW d \in Domain, ClearDomain(d)
       PROVE  SinkInv'
  <2>1. UNCHANGED <<sinks, latest, writing>> /\ pending' = pending
    BY <1>13 DEF ClearDomain, sinkVars, writeVars
  <2>2. pending' \in [Thread -> SUBSET SinkType]  BY <2>1 DEF SinkInv
  <2> QED  BY <1>13, <2>1, <2>2, ClearDomainTurn, SinksIdle, Constants
<1>14. ASSUME NEW s \in Stream, NEW d \in Domain, NEW id \in Id,
         NEW imbue \in {<<>>, <<"find">>}, SetupLogging(s, d, id, imbue)
       PROVE  SinkInv'
  <2>1. /\ Turn(Main, {"none"}, {"add"})
        /\ arg'[Main] = [level |-> Warning, stream |-> s, domain |-> d, id |-> id, paths |-> {}]
    BY <1>14, SetupLoggingTurn
  <2>2. /\ sinks' = {} /\ latest' = s /\ UNCHANGED <<pending, writing>>
    BY <1>14 DEF SetupLogging, NoSinks
  <2>3. /\ First(Main) = "none" /\ First(Main)' = "add"
        /\ \A u \in Thread \ {Main} : First(u)' = First(u)
    BY <2>1 DEF Turn
  <2> QED  BY <2>1, <2>2, <2>3 DEF SinkInv
<1>15. ASSUME NEW l \in Level, SetLevel(l)
       PROVE  SinkInv'
  <2>1. UNCHANGED <<sinks, latest, writing>> /\ pending' = pending
    BY <1>15 DEF SetLevel, sinkVars, writeVars
  <2>2. pending' \in [Thread -> SUBSET SinkType]  BY <2>1 DEF SinkInv
  <2> QED  BY <1>15, <2>1, <2>2, SetLevelTurn, SinksIdle, Constants
<1>16. ASSUME NEW color \in BOOLEAN, SetColorization(color)
       PROVE  SinkInv'
  <2>1. UNCHANGED <<sinks, latest, writing>> /\ pending' = pending
    BY <1>16 DEF SetColorization, sinkVars, writeVars
  <2>2. pending' \in [Thread -> SUBSET SinkType]  BY <2>1 DEF SinkInv
  <2> QED  BY <1>16, <2>1, <2>2, SetColorizationTurn, SinksIdle, Constants
<1>17. ASSUME NEW f \in {"none", "accepts", "vetoes"}, OnMessage(f)
       PROVE  SinkInv'
  <2>1. UNCHANGED <<sinks, latest, writing>> /\ pending' = pending
    BY <1>17 DEF OnMessage, sinkVars, writeVars
  <2>2. pending' \in [Thread -> SUBSET SinkType]  BY <2>1 DEF SinkInv
  <2> QED  BY <1>17, <2>1, <2>2, OnMessageTurn, SinksIdle, Constants
<1>18. CASE Erase
  <2>1. UNCHANGED <<sinks, latest, writing>> /\ pending' = pending
    BY <1>18 DEF Erase, sinkVars, writeVars
  <2>2. pending' \in [Thread -> SUBSET SinkType]  BY <2>1 DEF SinkInv
  <2> QED  BY <1>18, <2>1, <2>2, EraseTurn, SinksIdle, Constants
<1>19. CASE AddSink
  <2>1. Turn(Main, {"add"}, {"core", "find"})  BY <1>19, AddSinkTurn
  <2>2. UNCHANGED <<latest, pending, writing>>  BY <1>19 DEF AddSink, writeVars
  <2>3. /\ First(Main) = "add" /\ First(Main)' \in {"core", "find"}
        /\ \A u \in Thread \ {Main} : First(u)' = First(u)
    BY <2>1 DEF Turn
  <2> DEFINE k == [n |-> calls[Main], stream |-> arg[Main].stream]
  <2>4. sinks' = sinks \cup {k}  BY <1>19 DEF AddSink, Added
  <2>5. sinks = {} /\ arg[Main].stream = latest /\ latest \in Stream  BY <2>3 DEF SinkInv
  <2>6. calls[Main] \in Nat \ {0}
    <3>1. todo[Main] # <<>>  BY <2>3 DEF First, FirstOf
    <3> QED  BY <3>1, Constants DEF CallInv
  <2>7. k \in SinkType /\ k.stream = latest  BY <2>5, <2>6 DEF SinkType
  <2> HIDE DEF k
  <2>8. sinks' = {k}  BY <2>4, <2>5
  <2> QED  BY <2>2, <2>3, <2>7, <2>8 DEF SinkInv
<1>20. CASE Colorization
  <2>1. UNCHANGED <<sinks, latest, writing>> /\ pending' = pending
    BY <1>20 DEF Colorization, sinkVars, writeVars
  <2>2. pending' \in [Thread -> SUBSET SinkType]  BY <2>1 DEF SinkInv
  <2> QED  BY <1>20, <2>1, <2>2, ColorizationTurn, SinksIdle, Constants
<1>21. CASE SetupSystemLog
  <2>1. UNCHANGED <<sinks, latest, writing>> /\ pending' = pending
    BY <1>21 DEF SetupSystemLog, sinkVars, writeVars
  <2>2. pending' \in [Thread -> SUBSET SinkType]  BY <2>1 DEF SinkInv
  <2> QED  BY <1>21, <2>1, <2>2, SetupSystemLogTurn, SinksIdle, Constants
<1>22. CASE EnableSystemLog
  <2>1. UNCHANGED <<sinks, latest, writing>> /\ pending' = pending
    BY <1>22 DEF EnableSystemLog, sinkVars, writeVars
  <2>2. pending' \in [Thread -> SUBSET SinkType]  BY <2>1 DEF SinkInv
  <2> QED  BY <1>22, <2>1, <2>2, EnableSystemLogTurn, SinksIdle, Constants
<1>23. CASE CleanSystemLog
  <2>1. UNCHANGED <<sinks, latest, writing>> /\ pending' = pending
    BY <1>23 DEF CleanSystemLog, sinkVars, writeVars
  <2>2. pending' \in [Thread -> SUBSET SinkType]  BY <2>1 DEF SinkInv
  <2> QED  BY <1>23, <2>1, <2>2, CleanSystemLogTurn, SinksIdle, Constants
<1>24. CASE SetCore
  <2>1. UNCHANGED <<sinks, latest, writing>> /\ pending' = pending
    BY <1>24 DEF SetCore, sinkVars, writeVars
  <2>2. pending' \in [Thread -> SUBSET SinkType]  BY <2>1 DEF SinkInv
  <2> QED  BY <1>24, <2>1, <2>2, SetCoreTurn, SinksIdle, Constants
<1>25. CASE SetGlobal
  <2>1. UNCHANGED <<sinks, latest, writing>> /\ pending' = pending
    BY <1>25 DEF SetGlobal, sinkVars, writeVars
  <2>2. pending' \in [Thread -> SUBSET SinkType]  BY <2>1 DEF SinkInv
  <2> QED  BY <1>25, <2>1, <2>2, SetGlobalTurn, SinksIdle, Constants
<1>26. CASE ClearErrorLoggedFlag
  <2>1. UNCHANGED <<sinks, latest, writing>> /\ pending' = pending
    BY <1>26 DEF ClearErrorLoggedFlag, sinkVars, writeVars
  <2>2. pending' \in [Thread -> SUBSET SinkType]  BY <2>1 DEF SinkInv
  <2> QED  BY <1>26, <2>1, <2>2, ClearErrorLoggedFlagTurn, SinksIdle, Constants
<1>27. CASE Start
  <2>1. /\ todo' = todo /\ arg' = arg  BY <1>27, StartTurn
  <2>2. UNCHANGED <<sinks, latest, pending, writing>>  BY <1>27 DEF Start, sinkVars, writeVars
  <2> QED  BY <2>1, <2>2 DEF SinkInv, First
<1>28. CASE Over \/ UNCHANGED vars
  <2>1. UNCHANGED <<todo, arg, sinks, latest, pending, writing>>
    BY <1>28 DEF Over, vars, sinkVars, writeVars
  <2> QED  BY <2>1 DEF SinkInv, First
<1>29. CASE RegisterFails
  <2>1. UNCHANGED <<sinks, latest, writing>> /\ pending' = pending
    BY <1>29 DEF RegisterFails, sinkVars, writeVars
  <2>2. pending' \in [Thread -> SUBSET SinkType]  BY <2>1 DEF SinkInv
  <2> QED  BY <1>29, <2>1, <2>2, RegisterFailsTurn, SinksIdle, Constants
<1> QED
  BY <1>1, <1>2, <1>3, <1>4, <1>5, <1>6, <1>7, <1>8, <1>9, <1>10, <1>11, <1>12, <1>13,
  <1>14, <1>15, <1>16, <1>17, <1>18, <1>19, <1>20, <1>21, <1>22, <1>23, <1>24, <1>25,
  <1>26, <1>27, <1>28, <1>29, Constants DEF Next

\* The types of the settings, and of what colours change.
SettingInv ==
  /\ level \in Level /\ backend \in {"file", "syslog", "eventlog"}
  /\ colorize \in BOOLEAN /\ errorLogged \in BOOLEAN /\ logEnabled \in BOOLEAN
  /\ opened \in BOOLEAN /\ disturbed \in BOOLEAN /\ clears \in Nat
  /\ callback \in {"none", "accepts", "vetoes"}
  /\ console \in [handle : Tty \cup {NoStream}, tinted : BOOLEAN] /\ tinted \subseteq Stream

LEMMA SettingStep == CallInv /\ SinkInv /\ SettingInv /\ [Next]_vars => SettingInv'
<1> SUFFICES ASSUME CallInv, SinkInv, SettingInv, [Next]_vars PROVE SettingInv'
  OBVIOUS
<1> USE DEF SettingInv
<1>1. ASSUME NEW t \in Thread, NEW l \in Level \ {NoneLevel}, Log(t, l)
       PROVE  SettingInv'
  BY <1>1 DEF Log, globals, sinkVars, writeVars
<1>2. ASSUME NEW t \in Thread, Translate(t)
       PROVE  SettingInv'
  BY <1>2 DEF Translate, globals, sinkVars, writeVars
<1>3. ASSUME NEW t \in Thread, Find(t)
       PROVE  SettingInv'
  BY <1>3 DEF Find, GoesOn, Goes, Moves, Calls, globals, sinkVars, writeVars, historyVars
<1>4. ASSUME NEW t \in Thread, Found(t)
       PROVE  SettingInv'
  BY <1>4 DEF Found, GoesOn, Goes, Moves, Calls, globals, sinkVars, writeVars, historyVars
<1>5. ASSUME NEW t \in Thread, Insert(t)
       PROVE  SettingInv'
  BY <1>5 DEF Insert, GoesOn, Goes, Moves, Calls, globals, sinkVars, writeVars, historyVars
<1>6. ASSUME NEW t \in Thread, Inserted(t)
       PROVE  SettingInv'
  BY <1>6 DEF Inserted, GoesOn, Goes, Moves, Calls, globals, sinkVars, writeVars, historyVars
<1>7. ASSUME NEW t \in Thread, Flag(t)
       PROVE  SettingInv'
  <2>1. errorLogged' \in BOOLEAN  BY <1>7 DEF Flag
  <2> QED  BY <1>7, <2>1 DEF Flag, GoesOn, Goes, Moves, sinkVars, writeVars, historyVars
<1>8. ASSUME NEW t \in Thread, Filter(t)
       PROVE  SettingInv'
  BY <1>8 DEF Filter, GoesOn, Goes, Moves, Calls, globals, sinkVars, writeVars, historyVars
<1>9. ASSUME NEW t \in Thread, ToSystemLog(t)
       PROVE  SettingInv'
  BY <1>9 DEF ToSystemLog, GoesOn, Goes, Moves, Calls, globals, sinkVars, writeVars, historyVars
<1>10. ASSUME NEW t \in Thread, ToSinks(t)
       PROVE  SettingInv'
  BY <1>10 DEF ToSinks, GoesOn, Goes, Moves, Calls, globals, sinkVars, writeVars, historyVars
<1>11. ASSUME NEW t \in Thread, Consume(t)
       PROVE  SettingInv'
  <2>1. PICK k \in pending[t] : tinted' = Tinted(k.stream) \/ tinted' = tinted
    BY <1>11 DEF Consume
  <2>2. k.stream \in Stream  BY <2>1 DEF SinkInv, SinkType
  <2>3. Coloured(k.stream) \in Stream \cup {NoStream}
    BY <2>2, ThreadAssumption DEF Coloured
  <2>4. tinted' \subseteq Stream  BY <2>1, <2>3 DEF Tinted
  <2>5. UNCHANGED <<level, backend, colorize, errorLogged, callback, logEnabled, opened, console,
                    disturbed, clears>>
    BY <1>11 DEF Consume, Goes, Moves, globals, sinkVars, historyVars
  <2> QED  BY <2>4, <2>5
<1>12. ASSUME NEW t \in Thread, Write(t)
       PROVE  SettingInv'
  <2>1. tinted' = Reset(writing[t].stream)  BY <1>12 DEF Write
  <2> DEFINE s == writing[t].stream
  <2>2. s \in Stream
    <3>1. writing[t] # NoSink  BY <1>12, WriteTurn DEF Turn, SinkInv
    <3> QED  BY <3>1 DEF SinkInv, SinkType
  <2> HIDE DEF s
  <2>3. Coloured(s) \in Stream \cup {NoStream}
    BY <2>2, ThreadAssumption DEF Coloured
  <2>4. Tinted(s) \subseteq Stream  BY <2>3 DEF Tinted
  <2>5. tinted' = Reset(s)  BY <2>1 DEF s
  <2>6. Reset(s) = tinted \/ Reset(s) = Tinted(s) \/ Reset(s) = tinted \ {Coloured(s)}
    BY DEF Reset
  <2>7. tinted' \subseteq Stream  BY <2>4, <2>5, <2>6
  <2>8. UNCHANGED <<level, backend, colorize, errorLogged, callback, logEnabled, opened, console,
                    disturbed, clears>>
    BY <1>12 DEF Write, Moves, globals, sinkVars, historyVars
  <2> QED  BY <2>7, <2>8
<1>13. ASSUME NEW d \in Domain, ClearDomain(d)
       PROVE  SettingInv'
  BY <1>13 DEF ClearDomain, globals, sinkVars, writeVars
<1>14. ASSUME NEW s \in Stream, NEW d \in Domain, NEW id \in Id,
         NEW imbue \in {<<>>, <<"find">>}, SetupLogging(s, d, id, imbue)
       PROVE  SettingInv'
  <2>1. disturbed' \in BOOLEAN  BY <1>14 DEF SetupLogging
  <2> QED  BY <1>14, <2>1 DEF SetupLogging, globals
<1>15. ASSUME NEW l \in Level, SetLevel(l)
       PROVE  SettingInv'
  BY <1>15 DEF SetLevel, globals, sinkVars, writeVars
<1>16. ASSUME NEW color \in BOOLEAN, SetColorization(color)
       PROVE  SettingInv'
  <2>1. disturbed' \in BOOLEAN /\ colorize' \in BOOLEAN  BY <1>16 DEF SetColorization
  <2> QED  BY <1>16, <2>1 DEF SetColorization, sinkVars
<1>17. ASSUME NEW f \in {"none", "accepts", "vetoes"}, OnMessage(f)
       PROVE  SettingInv'
  BY <1>17 DEF OnMessage, globals, sinkVars, writeVars
<1>18. CASE Erase
  BY <1>18 DEF Erase, GoesOn, Goes, Moves, Calls, globals, sinkVars, writeVars, historyVars
<1>19. CASE AddSink
  BY <1>19 DEF AddSink, GoesOn, Goes, Moves, Calls, globals, sinkVars, writeVars, historyVars
<1>20. CASE Colorization
  <2>5. colorize' = (arg[Main].stream \in Tty)  BY <1>20 DEF Colorization
  <2>6. colorize' \in BOOLEAN  BY <2>5
  <2>7. colorize' => arg[Main].stream \in Tty  BY <2>5, Zenon
  <2>8. disturbed' \in BOOLEAN  BY <1>20 DEF Colorization
  <2>1. disturbed' \in BOOLEAN /\ colorize' \in BOOLEAN /\ (colorize' => arg[Main].stream \in Tty)
    BY <2>6, <2>7, <2>8
  <2>2. console' = IF platform = "windows" /\ colorize'
                   THEN [handle |-> arg[Main].stream, tinted |-> arg[Main].stream \in tinted]
                   ELSE console
    BY <1>20 DEF Colorization
  <2>3. console' \in [handle : Tty \cup {NoStream}, tinted : BOOLEAN]
    BY <2>1, <2>2
  <2>4. UNCHANGED <<level, backend, errorLogged, callback, logEnabled, opened, tinted, clears>>
    BY <1>20 DEF Colorization, GoesOn, Goes, Moves, sinkVars, historyVars
  <2> QED  BY <2>1, <2>3, <2>4
<1>21. CASE SetupSystemLog
  BY <1>21 DEF SetupSystemLog, globals, sinkVars, writeVars
<1>22. CASE EnableSystemLog
  <2>1. SystemLog \in {"syslog", "eventlog"}  BY DEF SystemLog
  <2> QED  BY <1>22, <2>1 DEF EnableSystemLog, GoesOn, Goes, Moves, sinkVars, writeVars, historyVars
<1>23. CASE CleanSystemLog
  <2>1. /\ backend' \in {"file", "syslog", "eventlog"} /\ opened' = FALSE
        /\ UNCHANGED <<level, colorize, errorLogged, callback, logEnabled, console, tinted,
                       disturbed, clears>>
    BY <1>23 DEF CleanSystemLog, sinkVars, writeVars
  <2> QED  BY <2>1
<1>24. CASE SetCore
  BY <1>24 DEF SetCore, GoesOn, Goes, Moves, globals, sinkVars, writeVars, historyVars
<1>25. CASE SetGlobal
  <2>1. arg[Main].level \in Level  BY Constants DEF CallInv, Arg
  <2> QED  BY <1>25, <2>1 DEF SetGlobal, GoesOn, Goes, Moves, sinkVars, writeVars, historyVars
<1>26. CASE ClearErrorLoggedFlag
  <2>1. /\ errorLogged' = FALSE /\ clears' = clears + 1
        /\ UNCHANGED <<level, backend, colorize, callback, logEnabled, opened, console, disturbed,
                       tinted>>
    BY <1>26 DEF ClearErrorLoggedFlag, sinkVars, writeVars
  <2>2. errorLogged' \in BOOLEAN  BY <2>1
  <2>3. clears' \in Nat  BY <2>1
  <2> QED  BY <2>1, <2>2, <2>3
<1>27. CASE Start
  BY <1>27 DEF Start, globals, sinkVars, writeVars
<1>28. CASE Over \/ UNCHANGED vars
  BY <1>28 DEF Over, vars, globals, sinkVars, writeVars, historyVars
<1>29. CASE RegisterFails
  BY <1>29 DEF RegisterFails, globals, sinkVars, writeVars
<1> QED
  BY <1>1, <1>2, <1>3, <1>4, <1>5, <1>6, <1>7, <1>8, <1>9, <1>10, <1>11, <1>12, <1>13,
  <1>14, <1>15, <1>16, <1>17, <1>18, <1>19, <1>20, <1>21, <1>22, <1>23, <1>24, <1>25,
  <1>26, <1>27, <1>28, <1>29, Constants DEF Next

\* A message on its way met, during its call, a setting that wants it, one that
\* has the place it goes to, and, should it be an error whose flag is cleared,
\* one from before that.
DuringFor(t) ==
  /\ First(t) \in Putting /\ arg[t].level >= Error
       => errorLogged \/ \E s \in during[t] : s.clears # clears
  /\ First(t) \in {"dispatch", "consume", "write"}
       => \E s \in during[t] : s.level \in 1..arg[t].level /\ s.callback # "vetoes"
  /\ First(t) \in {"consume", "write"}
       => \A k \in pending[t] : \E s \in during[t] : k.stream \in s.places
  /\ First(t) = "write" => \E s \in during[t] : writing[t].stream \in s.places

DuringInv == \A t \in Thread : DuringFor(t)

LEMMA SettingFields ==
  /\ Setting.level = level /\ Setting.callback = callback /\ Setting.places = Places
  /\ Setting.clears = clears
BY DEF Setting

FlagKept == \/ clears' = clears /\ errorLogged' = errorLogged
            \/ clears' = clears /\ errorLogged'
            \/ clears' = clears + 1

LEMMA DuringKept ==
  ASSUME SettingInv, NEW u \in Thread, DuringFor(u), First(u)' = First(u), arg'[u] = arg[u],
         pending'[u] = pending[u], writing'[u] = writing[u], FlagKept,
         First(u)' \in Putting => during'[u] = during[u] \cup {Setting}
  PROVE  DuringFor(u)'
<1>1. CASE First(u) \notin Putting  BY <1>1 DEF DuringFor, Putting
<1>2. CASE First(u) \in Putting
  <2>1. during'[u] = during[u] \cup {Setting}  BY <1>2
  <2>2. arg[u].level >= Error => errorLogged' \/ \E s \in during'[u] : s.clears # clears'
    <3> SUFFICES ASSUME arg[u].level >= Error, ~errorLogged'
                 PROVE  \E s \in during'[u] : s.clears # clears'
      OBVIOUS
    <3>1. CASE clears' = clears + 1
      <4>1. Setting.clears # clears'  BY <3>1, SettingFields DEF SettingInv
      <4> QED  BY <2>1, <4>1
    <3>2. CASE clears' = clears /\ errorLogged' = errorLogged
      <4>1. PICK s \in during[u] : s.clears # clears  BY <1>2, <3>2 DEF DuringFor
      <4> QED  BY <2>1, <3>2, <4>1
    <3> QED  BY <3>1, <3>2 DEF FlagKept
  <2> QED  BY <2>1, <2>2 DEF DuringFor
<1> QED  BY <1>1, <1>2

LEMMA OthersKept ==
  ASSUME SettingInv, DuringInv, NEW t \in Thread, NEW from, NEW to, Turn(t, from, to), FlagKept,
         \A u \in Thread \ {t} : pending'[u] = pending[u] /\ writing'[u] = writing[u]
  PROVE  \A u \in Thread \ {t} : DuringFor(u)'
<1> SUFFICES ASSUME NEW u \in Thread \ {t} PROVE DuringFor(u)'
  OBVIOUS
<1>1. /\ First(u)' = First(u) /\ arg'[u] = arg[u]
      /\ First(u)' \in Putting => during'[u] = during[u] \cup {Setting}
  BY DEF Turn
<1>2. u \in Thread /\ DuringFor(u)  BY DEF DuringInv
<1> QED  BY <1>1, <1>2, DuringKept

LEMMA DuringIdle ==
  ASSUME SettingInv, DuringInv, NEW t \in Thread, NEW from, NEW to, Turn(t, from, to), FlagKept,
         to \cap Putting = {}, \A u \in Thread \ {t} : pending'[u] = pending[u]
                 /\ writing'[u] = writing[u]
  PROVE  DuringInv'
<1>1. \A u \in Thread \ {t} : DuringFor(u)'  BY OthersKept
<1>2. First(t)' \notin Putting  BY DEF Turn
<1>3. DuringFor(t)'  BY <1>2 DEF DuringFor, Putting
<1> QED  BY <1>1, <1>3 DEF DuringInv

LEMMA DuringStep == CallInv /\ SinkInv /\ SettingInv /\ DuringInv /\ [Next]_vars => DuringInv'
<1> SUFFICES ASSUME CallInv, SinkInv, SettingInv, DuringInv, [Next]_vars PROVE DuringInv'
  OBVIOUS
<1>1. ASSUME NEW t \in Thread, NEW l \in Level \ {NoneLevel}, Log(t, l)
       PROVE  DuringInv'
  <2>1. UNCHANGED <<pending, writing>>  BY <1>1 DEF Log, writeVars
  <2>2. FlagKept  BY <1>1 DEF Log, GoesOn, Goes, Moves, historyVars, globals, FlagKept
  <2> QED  BY <1>1, <2>1, <2>2, LogTurn, DuringIdle, Constants DEF Putting
<1>2. ASSUME NEW t \in Thread, Translate(t)
       PROVE  DuringInv'
  <2>1. UNCHANGED <<pending, writing>>  BY <1>2 DEF Translate, writeVars
  <2>2. FlagKept  BY <1>2 DEF Translate, GoesOn, Goes, Moves, historyVars, globals, FlagKept
  <2> QED  BY <1>2, <2>1, <2>2, TranslateTurn, DuringIdle, Constants DEF Putting
<1>3. ASSUME NEW t \in Thread, Find(t)
       PROVE  DuringInv'
  <2>1. UNCHANGED <<pending, writing>>  BY <1>3 DEF Find, writeVars
  <2>2. FlagKept  BY <1>3 DEF Find, GoesOn, Goes, Moves, historyVars, globals, FlagKept
  <2> QED  BY <1>3, <2>1, <2>2, FindTurn, DuringIdle, Constants DEF Putting
<1>4. ASSUME NEW t \in Thread, Found(t)
       PROVE  DuringInv'
  <2>1. UNCHANGED <<pending, writing>>  BY <1>4 DEF Found, writeVars
  <2>2. FlagKept  BY <1>4 DEF Found, GoesOn, Goes, Moves, historyVars, globals, FlagKept
  <2> QED  BY <1>4, <2>1, <2>2, FoundTurn, DuringIdle, Constants DEF Putting
<1>5. ASSUME NEW t \in Thread, Insert(t)
       PROVE  DuringInv'
  <2>1. UNCHANGED <<pending, writing>>  BY <1>5 DEF Insert, writeVars
  <2>2. FlagKept  BY <1>5 DEF Insert, GoesOn, Goes, Moves, historyVars, globals, FlagKept
  <2> QED  BY <1>5, <2>1, <2>2, InsertTurn, DuringIdle, Constants DEF Putting
<1>6. ASSUME NEW t \in Thread, Inserted(t)
       PROVE  DuringInv'
  <2>1. UNCHANGED <<pending, writing>>  BY <1>6 DEF Inserted, writeVars
  <2>2. FlagKept  BY <1>6 DEF Inserted, GoesOn, Goes, Moves, historyVars, globals, FlagKept
  <2> QED  BY <1>6, <2>1, <2>2, InsertedTurn, DuringIdle, Constants DEF Putting
<1>7. ASSUME NEW t \in Thread, Flag(t)
       PROVE  DuringInv'
  <2>1. UNCHANGED <<pending, writing>> /\ clears' = clears
        /\ errorLogged' = (errorLogged \/ IsError(arg[t].level))
    BY <1>7 DEF Flag, GoesOn, Goes, Moves, writeVars, historyVars
  <2>2. errorLogged' = errorLogged \/ errorLogged'  BY <2>1 DEF SettingInv
  <2>3. FlagKept  BY <2>1, <2>2 DEF FlagKept
  <2>4. Turn(t, {"flag"}, {"filter"}) /\ (First(t)' # "none" => arg'[t] = arg[t])
    BY <1>7, FlagTurn
  <2>5. \A u \in Thread \ {t} : DuringFor(u)'  BY <2>1, <2>3, <2>4, OthersKept
  <2>6. First(t)' = "filter" /\ arg'[t] = arg[t]  BY <2>4 DEF Turn
  <2>7. arg[t].level >= Error => errorLogged'  BY <2>1 DEF IsError
  <2>8. DuringFor(t)'  BY <2>6, <2>7 DEF DuringFor
  <2> QED  BY <2>5, <2>8 DEF DuringInv
<1>8. ASSUME NEW t \in Thread, Filter(t)
       PROVE  DuringInv'
  <2>1. UNCHANGED <<pending, writing, clears, errorLogged>>
    BY <1>8 DEF Filter, Goes, Moves, writeVars, historyVars, globals
  <2>2. FlagKept  BY <2>1 DEF FlagKept
  <2>3. /\ Turn(t, {"filter"}, {"none", "dispatch"})
        /\ First(t)' # "none" => arg'[t] = arg[t]
        /\ First(t)' = "dispatch" => IsEnabled(arg[t].level) /\ callback # "vetoes"
    BY <1>8, FilterTurn
  <2>4. \A u \in Thread \ {t} : DuringFor(u)'  BY <2>1, <2>2, <2>3, OthersKept
  <2>5. First(t) = "filter" /\ First(t)' \in {"none", "dispatch"}  BY <2>3 DEF Turn
  <2>6. ASSUME First(t)' = "none" PROVE DuringFor(t)'  BY <2>6 DEF DuringFor, Putting
  <2>7. ASSUME First(t)' = "dispatch" PROVE DuringFor(t)'
    <3>1. arg'[t] = arg[t] /\ during'[t] = during[t] \cup {Setting}
      BY <2>3, <2>7 DEF Turn, Putting
    <3>2. arg[t].level >= Error => errorLogged \/ \E s \in during[t] : s.clears # clears
      BY <2>5 DEF DuringInv, DuringFor, Putting
    <3>3. level \in Nat /\ level # 0 /\ arg[t].level >= level /\ arg[t].level \in Int
      <4>1. level # 0 /\ arg[t].level >= level  BY <2>3, <2>7 DEF IsEnabled, NoneLevel
      <4>2. level \in Level /\ arg[t].level \in Level  BY DEF SettingInv, CallInv, Arg
      <4>3. level \in Nat /\ arg[t].level \in Int  BY <4>2, LevelNumbers, Zenon
      <4> QED  BY <4>1, <4>3, Zenon
    <3>4. Setting.level \in 1..arg[t].level /\ Setting.callback # "vetoes"
      BY <2>3, <2>7, <3>3, SettingFields
    <3>5. \E s \in during'[t] : s.level \in 1..arg'[t].level /\ s.callback # "vetoes"
      BY <3>1, <3>4
    <3>6. arg'[t].level >= Error => errorLogged' \/ \E s \in during'[t] : s.clears # clears'
      BY <2>1, <3>1, <3>2
    <3> QED  BY <2>7, <3>5, <3>6 DEF DuringFor
  <2>8. DuringFor(t)'  BY <2>5, <2>6, <2>7
  <2> QED  BY <2>4, <2>8 DEF DuringInv
<1>9. ASSUME NEW t \in Thread, ToSystemLog(t)
       PROVE  DuringInv'
  <2>1. UNCHANGED <<pending, writing>>  BY <1>9 DEF ToSystemLog, writeVars
  <2>2. FlagKept  BY <1>9 DEF ToSystemLog, GoesOn, Goes, Moves, historyVars, globals, FlagKept
  <2> QED  BY <1>9, <2>1, <2>2, ToSystemLogTurn, DuringIdle, Constants DEF Putting
<1>10. ASSUME NEW t \in Thread, ToSinks(t)
       PROVE  DuringInv'
  <2>1. UNCHANGED <<writing, clears, errorLogged>>
        /\ pending' = [pending EXCEPT ![t] = IF logEnabled THEN sinks ELSE {}]
    BY <1>10 DEF ToSinks, Moves, historyVars, globals
  <2>2. FlagKept  BY <2>1 DEF FlagKept
  <2>3. /\ Turn(t, {"dispatch"}, {"none", "consume"})
        /\ First(t)' # "none" => arg'[t] = arg[t]
    BY <1>10, ToSinksTurn
  <2>4. pending'[t] \subseteq sinks /\ \A u \in Thread \ {t} : pending'[u] = pending[u]
    BY <2>1 DEF SinkInv
  <2>5. \A u \in Thread \ {t} : DuringFor(u)'  BY <2>1, <2>2, <2>3, <2>4, OthersKept
  <2>6. First(t) = "dispatch" /\ First(t)' \in {"none", "consume"}  BY <2>3 DEF Turn
  <2>7. ASSUME First(t)' = "none" PROVE DuringFor(t)'  BY <2>7 DEF DuringFor, Putting
  <2>8. ASSUME First(t)' = "consume" PROVE DuringFor(t)'
    <3>1. arg'[t] = arg[t] /\ during'[t] = during[t] \cup {Setting}
      BY <2>3, <2>8 DEF Turn, Putting
    <3>2. /\ arg[t].level >= Error => errorLogged \/ \E s \in during[t] : s.clears # clears
          /\ \E s \in during[t] : s.level \in 1..arg[t].level /\ s.callback # "vetoes"
      BY <2>6 DEF DuringInv, DuringFor, Putting
    <3>3. \A k \in sinks : k.stream \in Setting.places
      BY <1>10, SettingFields DEF ToSinks, Places, SinkInv
    <3>4. \A k \in pending'[t] : \E s \in during'[t] : k.stream \in s.places
      BY <2>4, <3>1, <3>3
    <3>5. /\ arg'[t].level >= Error => errorLogged' \/ \E s \in during'[t] : s.clears # clears'
          /\ \E s \in during'[t] : s.level \in 1..arg'[t].level /\ s.callback # "vetoes"
      BY <2>1, <3>1, <3>2
    <3> QED  BY <2>8, <3>4, <3>5 DEF DuringFor
  <2>9. DuringFor(t)'  BY <2>6, <2>7, <2>8
  <2> QED  BY <2>5, <2>9 DEF DuringInv
<1>11. ASSUME NEW t \in Thread, Consume(t)
       PROVE  DuringInv'
  <2>1. UNCHANGED <<clears, errorLogged>>
    BY <1>11 DEF Consume, Goes, Moves, historyVars, globals
  <2>2. FlagKept  BY <2>1 DEF FlagKept
  <2>3. /\ Turn(t, {"consume"}, {"none", "consume", "write"})
        /\ First(t)' # "none" => arg'[t] = arg[t]
    BY <1>11, ConsumeTurn
  <2>4. PICK k \in pending[t] :
          /\ pending' = [pending EXCEPT ![t] = @ \ {k}]
          /\ \/ writing' = [writing EXCEPT ![t] = k]
             \/ writing' = writing
    BY <1>11 DEF Consume
  <2>5. /\ pending'[t] \subseteq pending[t] /\ (writing'[t] = k \/ writing'[t] = writing[t])
        /\ \A u \in Thread \ {t} : pending'[u] = pending[u] /\ writing'[u] = writing[u]
    BY <2>4 DEF SinkInv
  <2>6. \A u \in Thread \ {t} : DuringFor(u)'  BY <2>2, <2>3, <2>5, OthersKept
  <2>7. First(t) = "consume" /\ First(t)' \in {"none", "consume", "write"}  BY <2>3 DEF Turn
  <2>8. ASSUME First(t)' = "none" PROVE DuringFor(t)'  BY <2>8 DEF DuringFor, Putting
  <2>9. ASSUME First(t)' \in {"consume", "write"} PROVE DuringFor(t)'
    <3>1. arg'[t] = arg[t] /\ during'[t] = during[t] \cup {Setting}
      BY <2>3, <2>9 DEF Turn, Putting
    <3>2. /\ arg[t].level >= Error => errorLogged \/ \E s \in during[t] : s.clears # clears
          /\ \E s \in during[t] : s.level \in 1..arg[t].level /\ s.callback # "vetoes"
          /\ \A m \in pending[t] : \E s \in during[t] : m.stream \in s.places
      BY <2>7 DEF DuringInv, DuringFor, Putting
    <3>3. \A m \in pending'[t] : \E s \in during'[t] : m.stream \in s.places
      BY <2>5, <3>1, <3>2
    <3>4. /\ arg'[t].level >= Error => errorLogged' \/ \E s \in during'[t] : s.clears # clears'
          /\ \E s \in during'[t] : s.level \in 1..arg'[t].level /\ s.callback # "vetoes"
      BY <2>1, <3>1, <3>2
    <3>5. First(t)' = "write" => \E s \in during'[t] : writing'[t].stream \in s.places
      <4>1. writing[t] = NoSink  BY <2>7 DEF SinkInv
      <4>2. First(t)' = "write" => writing'[t] # NoSink  BY <1>11, SinkStep DEF SinkInv
      <4>3. First(t)' = "write" => writing'[t] = k  BY <2>5, <4>1, <4>2
      <4> QED  BY <3>1, <3>2, <4>3
    <3> QED  BY <3>3, <3>4, <3>5 DEF DuringFor
  <2>10. DuringFor(t)'  BY <2>7, <2>8, <2>9
  <2> QED  BY <2>6, <2>10 DEF DuringInv
<1>12. ASSUME NEW t \in Thread, Write(t)
       PROVE  DuringInv'
  <2>1. UNCHANGED <<clears, errorLogged, pending>>
        /\ writing' = [writing EXCEPT ![t] = NoSink]
    BY <1>12 DEF Write, Moves, historyVars, globals
  <2>2. FlagKept  BY <2>1 DEF FlagKept
  <2>3. /\ Turn(t, {"write"}, {"none", "consume"})
        /\ First(t)' # "none" => arg'[t] = arg[t]
    BY <1>12, WriteTurn
  <2>4. \A u \in Thread \ {t} : pending'[u] = pending[u] /\ writing'[u] = writing[u]
    BY <2>1 DEF SinkInv
  <2>5. \A u \in Thread \ {t} : DuringFor(u)'  BY <2>2, <2>3, <2>4, OthersKept
  <2>6. First(t) = "write" /\ First(t)' \in {"none", "consume"}  BY <2>3 DEF Turn
  <2>7. ASSUME First(t)' = "none" PROVE DuringFor(t)'  BY <2>7 DEF DuringFor, Putting
  <2>8. ASSUME First(t)' = "consume" PROVE DuringFor(t)'
    <3>1. arg'[t] = arg[t] /\ during'[t] = during[t] \cup {Setting}
      BY <2>3, <2>8 DEF Turn, Putting
    <3>2. /\ arg[t].level >= Error => errorLogged \/ \E s \in during[t] : s.clears # clears
          /\ \E s \in during[t] : s.level \in 1..arg[t].level /\ s.callback # "vetoes"
          /\ \A m \in pending[t] : \E s \in during[t] : m.stream \in s.places
      BY <2>6 DEF DuringInv, DuringFor, Putting
    <3>3. /\ arg'[t].level >= Error => errorLogged' \/ \E s \in during'[t] : s.clears # clears'
          /\ \E s \in during'[t] : s.level \in 1..arg'[t].level /\ s.callback # "vetoes"
          /\ \A m \in pending'[t] : \E s \in during'[t] : m.stream \in s.places
      BY <2>1, <3>1, <3>2
    <3> QED  BY <2>8, <3>3 DEF DuringFor
  <2>9. DuringFor(t)'  BY <2>6, <2>7, <2>8
  <2> QED  BY <2>5, <2>9 DEF DuringInv
<1>13. ASSUME NEW d \in Domain, ClearDomain(d)
       PROVE  DuringInv'
  <2>1. UNCHANGED <<pending, writing>>  BY <1>13 DEF ClearDomain, writeVars
  <2>2. FlagKept  BY <1>13 DEF ClearDomain, GoesOn, Goes, Moves, historyVars, globals, FlagKept
  <2> QED  BY <1>13, <2>1, <2>2, ClearDomainTurn, DuringIdle, Constants DEF Putting
<1>14. ASSUME NEW s \in Stream, NEW d \in Domain, NEW id \in Id,
         NEW imbue \in {<<>>, <<"find">>}, SetupLogging(s, d, id, imbue)
       PROVE  DuringInv'
  <2>1. UNCHANGED <<pending, writing>>  BY <1>14 DEF SetupLogging, writeVars
  <2>2. FlagKept  BY <1>14 DEF SetupLogging, GoesOn, Goes, Moves, historyVars, globals, FlagKept
  <2> QED  BY <1>14, <2>1, <2>2, SetupLoggingTurn, DuringIdle, Constants DEF Putting
<1>15. ASSUME NEW l \in Level, SetLevel(l)
       PROVE  DuringInv'
  <2>1. UNCHANGED <<pending, writing>>  BY <1>15 DEF SetLevel, writeVars
  <2>2. FlagKept  BY <1>15 DEF SetLevel, GoesOn, Goes, Moves, historyVars, globals, FlagKept
  <2> QED  BY <1>15, <2>1, <2>2, SetLevelTurn, DuringIdle, Constants DEF Putting
<1>16. ASSUME NEW color \in BOOLEAN, SetColorization(color)
       PROVE  DuringInv'
  <2>1. UNCHANGED <<pending, writing>>  BY <1>16 DEF SetColorization, writeVars
  <2>2. FlagKept  BY <1>16 DEF SetColorization, GoesOn, Goes, Moves, historyVars, globals, FlagKept
  <2> QED  BY <1>16, <2>1, <2>2, SetColorizationTurn, DuringIdle, Constants DEF Putting
<1>17. ASSUME NEW f \in {"none", "accepts", "vetoes"}, OnMessage(f)
       PROVE  DuringInv'
  <2>1. UNCHANGED <<pending, writing>>  BY <1>17 DEF OnMessage, writeVars
  <2>2. FlagKept  BY <1>17 DEF OnMessage, GoesOn, Goes, Moves, historyVars, globals, FlagKept
  <2> QED  BY <1>17, <2>1, <2>2, OnMessageTurn, DuringIdle, Constants DEF Putting
<1>18. CASE Erase
  <2>1. UNCHANGED <<pending, writing>>  BY <1>18 DEF Erase, writeVars
  <2>2. FlagKept  BY <1>18 DEF Erase, GoesOn, Goes, Moves, historyVars, globals, FlagKept
  <2> QED  BY <1>18, <2>1, <2>2, EraseTurn, DuringIdle, Constants DEF Putting
<1>19. CASE AddSink
  <2>1. UNCHANGED <<pending, writing>>  BY <1>19 DEF AddSink, writeVars
  <2>2. FlagKept  BY <1>19 DEF AddSink, GoesOn, Goes, Moves, historyVars, globals, FlagKept
  <2> QED  BY <1>19, <2>1, <2>2, AddSinkTurn, DuringIdle, Constants DEF Putting
<1>20. CASE Colorization
  <2>1. UNCHANGED <<pending, writing>>  BY <1>20 DEF Colorization, writeVars
  <2>2. FlagKept  BY <1>20 DEF Colorization, GoesOn, Goes, Moves, historyVars, globals, FlagKept
  <2> QED  BY <1>20, <2>1, <2>2, ColorizationTurn, DuringIdle, Constants DEF Putting
<1>21. CASE SetupSystemLog
  <2>1. UNCHANGED <<pending, writing>>  BY <1>21 DEF SetupSystemLog, writeVars
  <2>2. FlagKept  BY <1>21 DEF SetupSystemLog, GoesOn, Goes, Moves, historyVars, globals, FlagKept
  <2> QED  BY <1>21, <2>1, <2>2, SetupSystemLogTurn, DuringIdle, Constants DEF Putting
<1>22. CASE EnableSystemLog
  <2>1. UNCHANGED <<pending, writing>>  BY <1>22 DEF EnableSystemLog, writeVars
  <2>2. FlagKept  BY <1>22 DEF EnableSystemLog, GoesOn, Goes, Moves, historyVars, globals, FlagKept
  <2> QED  BY <1>22, <2>1, <2>2, EnableSystemLogTurn, DuringIdle, Constants DEF Putting
<1>23. CASE CleanSystemLog
  <2>1. UNCHANGED <<pending, writing>>  BY <1>23 DEF CleanSystemLog, writeVars
  <2>2. FlagKept  BY <1>23 DEF CleanSystemLog, GoesOn, Goes, Moves, historyVars, globals, FlagKept
  <2> QED  BY <1>23, <2>1, <2>2, CleanSystemLogTurn, DuringIdle, Constants DEF Putting
<1>24. CASE SetCore
  <2>1. UNCHANGED <<pending, writing>>  BY <1>24 DEF SetCore, writeVars
  <2>2. FlagKept  BY <1>24 DEF SetCore, GoesOn, Goes, Moves, historyVars, globals, FlagKept
  <2> QED  BY <1>24, <2>1, <2>2, SetCoreTurn, DuringIdle, Constants DEF Putting
<1>25. CASE SetGlobal
  <2>1. UNCHANGED <<pending, writing>>  BY <1>25 DEF SetGlobal, writeVars
  <2>2. FlagKept  BY <1>25 DEF SetGlobal, GoesOn, Goes, Moves, historyVars, globals, FlagKept
  <2> QED  BY <1>25, <2>1, <2>2, SetGlobalTurn, DuringIdle, Constants DEF Putting
<1>26. CASE ClearErrorLoggedFlag
  <2>1. UNCHANGED <<pending, writing>> /\ clears' = clears + 1
    BY <1>26 DEF ClearErrorLoggedFlag, writeVars
  <2>2. FlagKept  BY <2>1 DEF FlagKept
  <2> QED  BY <1>26, <2>1, <2>2, ClearErrorLoggedFlagTurn, DuringIdle, Constants DEF Putting
<1>27. CASE Start
  <2>1. /\ todo' = todo /\ arg' = arg
        /\ \A u \in Thread : First(u)' \in Putting => during'[u] = during[u] \cup {Setting}
    BY <1>27, StartTurn
  <2>2. UNCHANGED <<pending, writing, clears, errorLogged>>  BY <1>27 DEF Start, writeVars, globals
  <2>3. FlagKept  BY <2>2 DEF FlagKept
  <2>4. \A u \in Thread : DuringFor(u)'
    <3> SUFFICES ASSUME NEW u \in Thread PROVE DuringFor(u)'
      OBVIOUS
    <3>1. DuringFor(u) /\ First(u)' = First(u)  BY <2>1 DEF DuringInv, First
    <3> QED  BY <2>1, <2>2, <2>3, <3>1, DuringKept
  <2> QED  BY <2>4 DEF DuringInv
<1>28. CASE Over \/ UNCHANGED vars
  <2>1. UNCHANGED <<todo, arg, pending, writing, clears, errorLogged, during>>
    BY <1>28 DEF Over, vars, writeVars, globals, historyVars
  <2> QED  BY <2>1 DEF DuringInv, DuringFor, First
<1>29. CASE RegisterFails
  <2>1. UNCHANGED <<pending, writing>>  BY <1>29 DEF RegisterFails, writeVars
  <2>2. FlagKept  BY <1>29 DEF RegisterFails, GoesOn, Goes, Moves, historyVars, globals, FlagKept
  <2> QED  BY <1>29, <2>1, <2>2, RegisterFailsTurn, DuringIdle, Constants DEF Putting
<1> QED
  BY <1>1, <1>2, <1>3, <1>4, <1>5, <1>6, <1>7, <1>8, <1>9, <1>10, <1>11, <1>12, <1>13,
  <1>14, <1>15, <1>16, <1>17, <1>18, <1>19, <1>20, <1>21, <1>22, <1>23, <1>24, <1>25,
  <1>26, <1>27, <1>28, <1>29, Constants DEF Next

\* Unless colours or sinks were set while a message was written, whatever is
\* coloured is so for a message that is being written.
ColourInv ==
  ~disturbed =>
    /\ ~console.tinted
    /\ ~colorize => tinted = {}
    /\ \A x \in tinted : \E t \in Thread : writing[t] # NoSink /\ x = Coloured(writing[t].stream)

LEMMA ColourIdle ==
  ASSUME ColourInv, UNCHANGED <<platform, colorize, console, writing, tinted, disturbed>>
  PROVE  ColourInv'
BY DEF ColourInv, Coloured

LEMMA NothingColoured ==
  ASSUME ColourInv, ~disturbed, ~Busy
  PROVE  tinted = {}
BY DEF ColourInv, Busy

LEMMA ColourSet ==
  ASSUME ColourInv, disturbed' = (disturbed \/ Busy), UNCHANGED <<writing, tinted>>,
         console'.tinted => console.tinted \/ tinted # {}
  PROVE  ColourInv'
<1> SUFFICES ASSUME ~disturbed' PROVE ColourInv'
  BY DEF ColourInv
<1>1. ~disturbed /\ ~Busy  OBVIOUS
<1>2. tinted = {}  BY <1>1, NothingColoured
<1>3. ~console'.tinted  BY <1>1, <1>2 DEF ColourInv
<1> QED  BY <1>2, <1>3 DEF ColourInv

LEMMA ColourStep ==
  CallInv /\ SinkInv /\ SettingInv /\ ColourInv /\ [Next]_vars => ColourInv'
<1> SUFFICES ASSUME CallInv, SinkInv, SettingInv, ColourInv, [Next]_vars PROVE ColourInv'
  OBVIOUS
<1>1. ASSUME NEW t \in Thread, NEW l \in Level \ {NoneLevel}, Log(t, l)
       PROVE  ColourInv'
  <2>1. UNCHANGED <<platform, colorize, console, writing, tinted, disturbed>>
    BY <1>1 DEF Log, GoesOn, Goes, Moves, Calls, globals, writeVars
  <2> QED  BY <2>1, ColourIdle
<1>2. ASSUME NEW t \in Thread, Translate(t)
       PROVE  ColourInv'
  <2>1. UNCHANGED <<platform, colorize, console, writing, tinted, disturbed>>
    BY <1>2 DEF Translate, GoesOn, Goes, Moves, Calls, globals, writeVars
  <2> QED  BY <2>1, ColourIdle
<1>3. ASSUME NEW t \in Thread, Find(t)
       PROVE  ColourInv'
  <2>1. UNCHANGED <<platform, colorize, console, writing, tinted, disturbed>>
    BY <1>3 DEF Find, GoesOn, Goes, Moves, Calls, globals, writeVars
  <2> QED  BY <2>1, ColourIdle
<1>4. ASSUME NEW t \in Thread, Found(t)
       PROVE  ColourInv'
  <2>1. UNCHANGED <<platform, colorize, console, writing, tinted, disturbed>>
    BY <1>4 DEF Found, GoesOn, Goes, Moves, Calls, globals, writeVars
  <2> QED  BY <2>1, ColourIdle
<1>5. ASSUME NEW t \in Thread, Insert(t)
       PROVE  ColourInv'
  <2>1. UNCHANGED <<platform, colorize, console, writing, tinted, disturbed>>
    BY <1>5 DEF Insert, GoesOn, Goes, Moves, Calls, globals, writeVars
  <2> QED  BY <2>1, ColourIdle
<1>6. ASSUME NEW t \in Thread, Inserted(t)
       PROVE  ColourInv'
  <2>1. UNCHANGED <<platform, colorize, console, writing, tinted, disturbed>>
    BY <1>6 DEF Inserted, GoesOn, Goes, Moves, Calls, globals, writeVars
  <2> QED  BY <2>1, ColourIdle
<1>7. ASSUME NEW t \in Thread, Flag(t)
       PROVE  ColourInv'
  <2>1. UNCHANGED <<platform, colorize, console, writing, tinted, disturbed>>
    BY <1>7 DEF Flag, GoesOn, Goes, Moves, Calls, globals, writeVars
  <2> QED  BY <2>1, ColourIdle
<1>8. ASSUME NEW t \in Thread, Filter(t)
       PROVE  ColourInv'
  <2>1. UNCHANGED <<platform, colorize, console, writing, tinted, disturbed>>
    BY <1>8 DEF Filter, GoesOn, Goes, Moves, Calls, globals, writeVars
  <2> QED  BY <2>1, ColourIdle
<1>9. ASSUME NEW t \in Thread, ToSystemLog(t)
       PROVE  ColourInv'
  <2>1. UNCHANGED <<platform, colorize, console, writing, tinted, disturbed>>
    BY <1>9 DEF ToSystemLog, GoesOn, Goes, Moves, Calls, globals, writeVars
  <2> QED  BY <2>1, ColourIdle
<1>10. ASSUME NEW t \in Thread, ToSinks(t)
       PROVE  ColourInv'
  <2>1. UNCHANGED <<platform, colorize, console, writing, tinted, disturbed>>
    BY <1>10 DEF ToSinks, GoesOn, Goes, Moves, Calls, globals, writeVars
  <2> QED  BY <2>1, ColourIdle
<1>11. ASSUME NEW t \in Thread, Consume(t)
       PROVE  ColourInv'
  <2> SUFFICES ASSUME ~disturbed' PROVE ColourInv'
    BY DEF ColourInv
  <2>1. UNCHANGED <<platform, colorize, console, disturbed>>
    BY <1>11 DEF Consume, Goes, Moves, globals
  <2>2. First(t) = "consume"  BY <1>11, ConsumeTurn DEF Turn
  <2>3. writing[t] = NoSink  BY <2>2 DEF SinkInv
  <2>4. PICK k \in pending[t] :
          \/ writing' = [writing EXCEPT ![t] = k] /\ tinted' = Tinted(k.stream)
          \/ writing' = writing /\ tinted' = tinted
    BY <1>11 DEF Consume
  <2>5. k # NoSink  BY <2>4 DEF SinkInv, SinkType, NoSink
  <2>6. CASE writing' = writing /\ tinted' = tinted  BY <2>1, <2>6, ColourIdle
  <2>7. CASE writing' = [writing EXCEPT ![t] = k] /\ tinted' = Tinted(k.stream)
    <3>1. writing'[t] = k /\ \A u \in Thread \ {t} : writing'[u] = writing[u]
      BY <2>7 DEF SinkInv
    <3>2. \A s : Coloured(s)' = Coloured(s)  BY <2>1 DEF Coloured
    <3>3. /\ ~console.tinted /\ (~colorize => tinted = {})
          /\ \A x \in tinted : \E u \in Thread : writing[u] # NoSink
                  /\ x = Coloured(writing[u].stream)
      BY <2>1 DEF ColourInv
    <3>4. \A x \in tinted : \E u \in Thread : writing'[u] # NoSink
            /\ x = Coloured(writing'[u].stream)
      BY <2>3, <3>1, <3>3
    <3>5. writing'[t] # NoSink /\ Coloured(writing'[t].stream) = Coloured(k.stream)
      BY <2>5, <3>1
    <3>6. tinted' \subseteq tinted \cup {Coloured(k.stream)} /\ (~colorize => tinted' = {})
      BY <2>7, <3>3 DEF Tinted
    <3>7. \A x \in tinted' : \E u \in Thread : writing'[u] # NoSink
            /\ x = Coloured(writing'[u].stream)
      BY <3>4, <3>5, <3>6
    <3>8. \A x \in tinted' : \E u \in Thread : writing'[u] # NoSink
            /\ x = Coloured(writing[u].stream)'
      BY <2>1, <3>7 DEF Coloured
    <3> QED  BY <2>1, <3>3, <3>6, <3>8 DEF ColourInv
  <2> QED  BY <2>4, <2>6, <2>7
<1>12. ASSUME NEW t \in Thread, Write(t)
       PROVE  ColourInv'
  <2> SUFFICES ASSUME ~disturbed' PROVE ColourInv'
    BY DEF ColourInv
  <2>1. UNCHANGED <<platform, colorize, console, disturbed>>
    BY <1>12 DEF Write, Moves, globals
  <2>2. tinted' = Reset(writing[t].stream) /\ writing' = [writing EXCEPT ![t] = NoSink]
    BY <1>12 DEF Write
  <2>3. writing'[t] = NoSink /\ \A u \in Thread \ {t} : writing'[u] = writing[u]
    BY <2>2 DEF SinkInv
  <2>4. /\ ~console.tinted /\ (~colorize => tinted = {})
        /\ \A x \in tinted : \E u \in Thread : writing[u] # NoSink
                /\ x = Coloured(writing[u].stream)
    BY <2>1 DEF ColourInv
  <2> DEFINE c == Coloured(writing[t].stream)
  <2>5. tinted' \subseteq tinted \ {c} /\ (~colorize => tinted' = {})
    BY <2>2, <2>4 DEF Reset
  <2>6. \A x \in tinted' : \E u \in Thread : writing'[u] # NoSink
          /\ x = Coloured(writing'[u].stream)
    BY <2>3, <2>4, <2>5
  <2>7. \A x \in tinted' : \E u \in Thread : writing'[u] # NoSink
          /\ x = Coloured(writing[u].stream)'
    BY <2>1, <2>6 DEF Coloured
  <2> QED  BY <2>1, <2>4, <2>5, <2>7 DEF ColourInv
<1>13. ASSUME NEW d \in Domain, ClearDomain(d)
       PROVE  ColourInv'
  <2>1. UNCHANGED <<platform, colorize, console, writing, tinted, disturbed>>
    BY <1>13 DEF ClearDomain, GoesOn, Goes, Moves, Calls, globals, writeVars
  <2> QED  BY <2>1, ColourIdle
<1>14. ASSUME NEW s \in Stream, NEW d \in Domain, NEW id \in Id,
         NEW imbue \in {<<>>, <<"find">>}, SetupLogging(s, d, id, imbue)
       PROVE  ColourInv'
  <2>1. disturbed' = (disturbed \/ Busy) /\ UNCHANGED <<writing, tinted, console>>
    BY <1>14 DEF SetupLogging
  <2> QED  BY <2>1, ColourSet
<1>15. ASSUME NEW l \in Level, SetLevel(l)
       PROVE  ColourInv'
  <2>1. UNCHANGED <<platform, colorize, console, writing, tinted, disturbed>>
    BY <1>15 DEF SetLevel, GoesOn, Goes, Moves, Calls, globals, writeVars
  <2> QED  BY <2>1, ColourIdle
<1>16. ASSUME NEW color \in BOOLEAN, SetColorization(color)
       PROVE  ColourInv'
  <2>1. disturbed' = (disturbed \/ Busy) /\ UNCHANGED <<writing, tinted, console>>
    BY <1>16 DEF SetColorization
  <2> QED  BY <2>1, ColourSet
<1>17. ASSUME NEW f \in {"none", "accepts", "vetoes"}, OnMessage(f)
       PROVE  ColourInv'
  <2>1. UNCHANGED <<platform, colorize, console, writing, tinted, disturbed>>
    BY <1>17 DEF OnMessage, GoesOn, Goes, Moves, Calls, globals, writeVars
  <2> QED  BY <2>1, ColourIdle
<1>18. CASE Erase
  <2>1. UNCHANGED <<platform, colorize, console, writing, tinted, disturbed>>
    BY <1>18 DEF Erase, GoesOn, Goes, Moves, Calls, globals, writeVars
  <2> QED  BY <2>1, ColourIdle
<1>19. CASE AddSink
  <2>1. UNCHANGED <<platform, colorize, console, writing, tinted, disturbed>>
    BY <1>19 DEF AddSink, GoesOn, Goes, Moves, Calls, globals, writeVars
  <2> QED  BY <2>1, ColourIdle
<1>20. CASE Colorization
  <2>1. disturbed' = (disturbed \/ Busy) /\ UNCHANGED <<writing, tinted>>
    BY <1>20 DEF Colorization
  <2>2. console' = [handle |-> arg[Main].stream, tinted |-> arg[Main].stream \in tinted]
        \/ console' = console
    BY <1>20 DEF Colorization
  <2>3. console'.tinted => console.tinted \/ tinted # {}
    <3>1. CASE console' = console  BY <3>1
    <3>2. CASE console' = [handle |-> arg[Main].stream, tinted |-> arg[Main].stream \in tinted]
      <4>1. console'.tinted = (arg[Main].stream \in tinted)  BY <3>2
      <4> QED  BY <4>1
    <3> QED  BY <2>2, <3>1, <3>2
  <2> QED  BY <2>1, <2>3, ColourSet
<1>21. CASE SetupSystemLog
  <2>1. UNCHANGED <<platform, colorize, console, writing, tinted, disturbed>>
    BY <1>21 DEF SetupSystemLog, GoesOn, Goes, Moves, Calls, globals, writeVars
  <2> QED  BY <2>1, ColourIdle
<1>22. CASE EnableSystemLog
  <2>1. UNCHANGED <<platform, colorize, console, writing, tinted, disturbed>>
    BY <1>22 DEF EnableSystemLog, GoesOn, Goes, Moves, Calls, globals, writeVars
  <2> QED  BY <2>1, ColourIdle
<1>23. CASE CleanSystemLog
  <2>1. UNCHANGED <<platform, colorize, console, writing, tinted, disturbed>>
    BY <1>23 DEF CleanSystemLog, GoesOn, Goes, Moves, Calls, globals, writeVars
  <2> QED  BY <2>1, ColourIdle
<1>24. CASE SetCore
  <2>1. UNCHANGED <<platform, colorize, console, writing, tinted, disturbed>>
    BY <1>24 DEF SetCore, GoesOn, Goes, Moves, Calls, globals, writeVars
  <2> QED  BY <2>1, ColourIdle
<1>25. CASE SetGlobal
  <2>1. UNCHANGED <<platform, colorize, console, writing, tinted, disturbed>>
    BY <1>25 DEF SetGlobal, GoesOn, Goes, Moves, Calls, globals, writeVars
  <2> QED  BY <2>1, ColourIdle
<1>26. CASE ClearErrorLoggedFlag
  <2>1. UNCHANGED <<platform, colorize, console, writing, tinted, disturbed>>
    BY <1>26 DEF ClearErrorLoggedFlag, GoesOn, Goes, Moves, Calls, globals, writeVars
  <2> QED  BY <2>1, ColourIdle
<1>27. CASE Start
  <2>1. UNCHANGED <<platform, colorize, console, writing, tinted, disturbed>>
    BY <1>27 DEF Start, GoesOn, Goes, Moves, Calls, globals, writeVars
  <2> QED  BY <2>1, ColourIdle
<1>28. CASE Over \/ UNCHANGED vars
  <2>1. UNCHANGED <<platform, colorize, console, writing, tinted, disturbed>>
    BY <1>28 DEF Over, vars, writeVars, globals
  <2> QED  BY <2>1, ColourIdle
<1>29. CASE RegisterFails
  <2>1. UNCHANGED <<platform, colorize, console, writing, tinted, disturbed>>
    BY <1>29 DEF RegisterFails, GoesOn, Goes, Moves, Calls, globals, writeVars
  <2> QED  BY <2>1, ColourIdle
<1> QED
  BY <1>1, <1>2, <1>3, <1>4, <1>5, <1>6, <1>7, <1>8, <1>9, <1>10, <1>11, <1>12, <1>13,
  <1>14, <1>15, <1>16, <1>17, <1>18, <1>19, <1>20, <1>21, <1>22, <1>23, <1>24, <1>25,
  <1>26, <1>27, <1>28, <1>29, Constants DEF Next

-----------------------------------------------------------------------------
(* The theorems.                                                           *)

LoggingInv == CallInv /\ LocaleInv /\ SinkInv /\ SettingInv /\ DuringInv /\ ColourInv

LEMMA LoggingInit == Init => LoggingInv
<1> SUFFICES ASSUME Init PROVE LoggingInv
  OBVIOUS
<1>1. /\ todo = [t \in Thread |-> <<>>] /\ arg = [t \in Thread |-> NoArg]
      /\ calls = [t \in Thread |-> 0]
  BY DEF Init
<1>2. NoArg \in Arg /\ <<>> \in Todo  BY Constants, CallSteps DEF NoArg, Arg
<1>3. CallInv  BY <1>1, <1>2, CallsAssumption DEF Init, CallInv
<1>4. \A t \in Thread : First(t) = "none"  BY <1>1 DEF First, FirstOf
<1>5. LocaleInv
  <2>1. NoLocale \in LocaleType  BY DEF NoLocale, LocaleType
  <2> QED  BY <1>4, <2>1 DEF Init, LocaleInit, LocaleInv
<1>6. SinkInv  BY <1>4, Constants DEF Init, SinkInv
<1>7. SettingInv
  <2>1. console = [handle |-> NoStream, tinted |-> FALSE]  BY DEF Init
  <2>2. console \in [handle : Tty \cup {NoStream}, tinted : BOOLEAN]  BY <2>1
  <2> QED  BY <2>2, Constants DEF Init, SettingInv
<1>8. DuringInv  BY <1>4 DEF DuringInv, DuringFor, Putting
<1>9. ColourInv  BY DEF Init, ColourInv
<1> QED  BY <1>3, <1>5, <1>6, <1>7, <1>8, <1>9 DEF LoggingInv

\* What holds of the calls, the locales, the sinks, the settings, the messages
\* on their way and the colours, however the threads' steps interleave.
THEOREM LoggingInvariant == Spec => []LoggingInv
<1>1. LoggingInv /\ [Next]_vars => LoggingInv'
  BY CallStep, LocaleStep, SinkStep, SettingStep, DuringStep, ColourStep DEF LoggingInv
<1> QED  BY LoggingInit, <1>1, PTL DEF Spec

LEMMA TypesHold == LoggingInv => TypeOK
<1> SUFFICES ASSUME LoggingInv PROVE TypeOK
  OBVIOUS
<1>1. LocaleOK  BY DEF LoggingInv, LocaleInv, LocaleOK, LocaleType
<1>2. todo \in [Thread -> Seq(Step)]  BY TodoTable DEF LoggingInv, CallInv
<1>3. \A t \in Thread : writing[t] # NoSink => todo[t] = <<"write">>
  BY TodoTable DEF LoggingInv, CallInv, SinkInv, First
<1>4. \A k, m \in sinks : k = m  BY DEF LoggingInv, SinkInv
<1>5. \A t \in Thread : calls[t] \in 0..MaxCalls[t]
  BY CallsAssumption DEF LoggingInv, CallInv
<1>6. console.handle \in Tty \cup {NoStream}  BY DEF LoggingInv, SettingInv
<1> QED  BY <1>1, <1>2, <1>3, <1>4, <1>5, <1>6
         DEF TypeOK, LoggingInv, CallInv, LocaleInv, SettingInv

LEMMA OneLocale == LoggingInv => SameLocale
<1> SUFFICES ASSUME LoggingInv, NEW d \in Domain PROVE Cardinality(returned[d]) <= 1
  BY DEF SameLocale
<1>1. CASE returned[d] = {}
  <2>1. Cardinality(returned[d]) = 0  BY <1>1, FS_EmptySet, Zenon
  <2> QED  BY <2>1
<1>2. CASE returned[d] = {locales[d]}
  <2>1. Cardinality(returned[d]) = 1  BY <1>2, FS_Singleton
  <2> QED  BY <2>1
<1> QED  BY <1>1, <1>2 DEF LoggingInv, LocaleInv

\* The map of locales is safe to use from threads that start once it is warm
\* (locale.hpp: "Ensure creating and adding a new locale is thread-safe"), and
\* a domain keeps its locale until it is cleared: for any number of threads,
\* domains, ids, sinks and calls.
THEOREM LocalesAreSound == Spec => []LocalesSound
<1>1. LoggingInv => LocalesSound
  <2> SUFFICES ASSUME LoggingInv PROVE LocalesSound
    OBVIOUS
  <2>1. WarmIsSafe  BY DEF LoggingInv, LocaleInv, WarmIsSafe
  <2> QED  BY <2>1, TypesHold, OneLocale DEF LocalesSound
<1> QED  BY <1>1, LoggingInvariant, PTL

\* A colour ends with its message: no stream stays coloured once no message is
\* being written, unless colours or sinks were set under a message.
THEOREM ColoursEnd == Spec => []ColourEnds
<1>1. LoggingInv => ColourEnds
  BY NothingColoured DEF LoggingInv, ColourEnds
<1> QED  BY <1>1, LoggingInvariant, PTL

LEMMA NothingPutOut ==
  ASSUME PutsOutNothing
  PROVE  Wanted /\ ErrorSeen /\ RightPlace
BY DEF PutsOutNothing, Wanted, ErrorSeen, RightPlace, Out

LEMMA PutOut ==
  ASSUME NEW t \in Thread, NEW to, PutsOut(t, to), DuringFor(t),
         First(t) \in {"dispatch", "write"},
         \E s \in during[t] \cup {Setting} : to \in s.places
  PROVE  Wanted /\ ErrorSeen /\ RightPlace
<1>1. out'.by = t /\ out'.level = arg[t].level /\ out'.to = to  BY DEF PutsOut
<1>2. During = during[t] \cup {Setting}  BY <1>1 DEF During
<1>3. /\ \E s \in during[t] : s.level \in 1..arg[t].level /\ s.callback # "vetoes"
      /\ arg[t].level >= Error => errorLogged \/ \E s \in during[t] : s.clears # clears
  BY DEF DuringFor, Putting
<1>4. Wanted  BY <1>1, <1>2, <1>3 DEF Wanted
<1>5. ErrorSeen  BY <1>1, <1>2, <1>3 DEF ErrorSeen
<1>6. RightPlace  BY <1>1, <1>2 DEF RightPlace
<1> QED  BY <1>4, <1>5, <1>6

LEMMA DeliveredStep ==
  LoggingInv /\ [Next]_vars => [Wanted /\ ErrorSeen /\ RightPlace]_vars
<1> SUFFICES ASSUME LoggingInv, [Next]_vars PROVE [Wanted /\ ErrorSeen /\ RightPlace]_vars
  OBVIOUS
<1> USE DEF LoggingInv
<1>1. ASSUME NEW t \in Thread, NEW l \in Level \ {NoneLevel}, Log(t, l)
       PROVE  [Wanted /\ ErrorSeen /\ RightPlace]_vars
  <2>1. PutsOutNothing  BY <1>1 DEF Log, GoesOn, Goes, Calls
  <2> QED  BY <2>1, NothingPutOut
<1>2. ASSUME NEW t \in Thread, Translate(t)
       PROVE  [Wanted /\ ErrorSeen /\ RightPlace]_vars
  <2>1. PutsOutNothing  BY <1>2 DEF Translate, GoesOn, Goes, Calls
  <2> QED  BY <2>1, NothingPutOut
<1>3. ASSUME NEW t \in Thread, Find(t)
       PROVE  [Wanted /\ ErrorSeen /\ RightPlace]_vars
  <2>1. PutsOutNothing  BY <1>3 DEF Find, GoesOn, Goes, Calls
  <2> QED  BY <2>1, NothingPutOut
<1>4. ASSUME NEW t \in Thread, Found(t)
       PROVE  [Wanted /\ ErrorSeen /\ RightPlace]_vars
  <2>1. PutsOutNothing  BY <1>4 DEF Found, GoesOn, Goes, Calls
  <2> QED  BY <2>1, NothingPutOut
<1>5. ASSUME NEW t \in Thread, Insert(t)
       PROVE  [Wanted /\ ErrorSeen /\ RightPlace]_vars
  <2>1. PutsOutNothing  BY <1>5 DEF Insert, GoesOn, Goes, Calls
  <2> QED  BY <2>1, NothingPutOut
<1>6. ASSUME NEW t \in Thread, Inserted(t)
       PROVE  [Wanted /\ ErrorSeen /\ RightPlace]_vars
  <2>1. PutsOutNothing  BY <1>6 DEF Inserted, GoesOn, Goes, Calls
  <2> QED  BY <2>1, NothingPutOut
<1>7. ASSUME NEW t \in Thread, Flag(t)
       PROVE  [Wanted /\ ErrorSeen /\ RightPlace]_vars
  <2>1. PutsOutNothing  BY <1>7 DEF Flag, GoesOn, Goes, Calls
  <2> QED  BY <2>1, NothingPutOut
<1>8. ASSUME NEW t \in Thread, Filter(t)
       PROVE  [Wanted /\ ErrorSeen /\ RightPlace]_vars
  <2>1. PutsOutNothing  BY <1>8 DEF Filter, GoesOn, Goes, Calls
  <2> QED  BY <2>1, NothingPutOut
<1>9. ASSUME NEW t \in Thread, ToSystemLog(t)
       PROVE  [Wanted /\ ErrorSeen /\ RightPlace]_vars
  <2>1. First(t) = "dispatch"  BY <1>9, ToSystemLogTurn DEF Turn
  <2>2. CASE PutsOutNothing  BY <2>2, NothingPutOut
  <2>3. CASE PutsOut(t, backend)
    <3>1. backend \in Setting.places  BY <1>9, SettingFields DEF ToSystemLog, Places
    <3>2. DuringFor(t)  BY DEF DuringInv
    <3> QED  BY <2>1, <2>3, <3>1, <3>2, PutOut
  <2> QED  BY <1>9, <2>2, <2>3 DEF ToSystemLog
<1>10. ASSUME NEW t \in Thread, ToSinks(t)
       PROVE  [Wanted /\ ErrorSeen /\ RightPlace]_vars
  <2>1. First(t) = "dispatch"  BY <1>10, ToSinksTurn DEF Turn
  <2>2. CASE PutsOutNothing  BY <2>2, NothingPutOut
  <2>3. CASE PutsOut(t, Default) /\ sinks = {}
    <3>1. backend = "file"  BY <1>10 DEF ToSinks
    <3>2. latest = Default \/ Contains(todo[Main], "add")
      BY <2>3, Constants, TodoTable DEF SinkInv, CallInv, First
    <3>3. Default \in Setting.places  BY <3>1, <3>2, SettingFields DEF Places
    <3>4. DuringFor(t)  BY DEF DuringInv
    <3> QED  BY <2>1, <2>3, <3>3, <3>4, PutOut
  <2> QED  BY <1>10, <2>2, <2>3 DEF ToSinks
<1>11. ASSUME NEW t \in Thread, Consume(t)
       PROVE  [Wanted /\ ErrorSeen /\ RightPlace]_vars
  <2>1. PutsOutNothing  BY <1>11 DEF Consume, GoesOn, Goes, Calls
  <2> QED  BY <2>1, NothingPutOut
<1>12. ASSUME NEW t \in Thread, Write(t)
       PROVE  [Wanted /\ ErrorSeen /\ RightPlace]_vars
  <2>1. First(t) = "write"  BY <1>12, WriteTurn DEF Turn
  <2>2. DuringFor(t)  BY DEF DuringInv
  <2>3. \E s \in during[t] \cup {Setting} : writing[t].stream \in s.places
    BY <2>1, <2>2 DEF DuringFor
  <2>4. PutsOut(t, writing[t].stream)  BY <1>12 DEF Write
  <2> QED  BY <2>1, <2>2, <2>3, <2>4, PutOut
<1>13. ASSUME NEW d \in Domain, ClearDomain(d)
       PROVE  [Wanted /\ ErrorSeen /\ RightPlace]_vars
  <2>1. PutsOutNothing  BY <1>13 DEF ClearDomain, GoesOn, Goes, Calls
  <2> QED  BY <2>1, NothingPutOut
<1>14. ASSUME NEW s \in Stream, NEW d \in Domain, NEW id \in Id,
         NEW imbue \in {<<>>, <<"find">>}, SetupLogging(s, d, id, imbue)
       PROVE  [Wanted /\ ErrorSeen /\ RightPlace]_vars
  <2>1. PutsOutNothing  BY <1>14 DEF SetupLogging, GoesOn, Goes, Calls
  <2> QED  BY <2>1, NothingPutOut
<1>15. ASSUME NEW l \in Level, SetLevel(l)
       PROVE  [Wanted /\ ErrorSeen /\ RightPlace]_vars
  <2>1. PutsOutNothing  BY <1>15 DEF SetLevel, GoesOn, Goes, Calls
  <2> QED  BY <2>1, NothingPutOut
<1>16. ASSUME NEW color \in BOOLEAN, SetColorization(color)
       PROVE  [Wanted /\ ErrorSeen /\ RightPlace]_vars
  <2>1. PutsOutNothing  BY <1>16 DEF SetColorization, GoesOn, Goes, Calls
  <2> QED  BY <2>1, NothingPutOut
<1>17. ASSUME NEW f \in {"none", "accepts", "vetoes"}, OnMessage(f)
       PROVE  [Wanted /\ ErrorSeen /\ RightPlace]_vars
  <2>1. PutsOutNothing  BY <1>17 DEF OnMessage, GoesOn, Goes, Calls
  <2> QED  BY <2>1, NothingPutOut
<1>18. CASE Erase
  <2>1. PutsOutNothing  BY <1>18 DEF Erase, GoesOn, Goes, Calls
  <2> QED  BY <2>1, NothingPutOut
<1>19. CASE AddSink
  <2>1. PutsOutNothing  BY <1>19 DEF AddSink, GoesOn, Goes, Calls
  <2> QED  BY <2>1, NothingPutOut
<1>20. CASE Colorization
  <2>1. PutsOutNothing  BY <1>20 DEF Colorization, GoesOn, Goes, Calls
  <2> QED  BY <2>1, NothingPutOut
<1>21. CASE SetupSystemLog
  <2>1. PutsOutNothing  BY <1>21 DEF SetupSystemLog, GoesOn, Goes, Calls
  <2> QED  BY <2>1, NothingPutOut
<1>22. CASE EnableSystemLog
  <2>1. PutsOutNothing  BY <1>22 DEF EnableSystemLog, GoesOn, Goes, Calls
  <2> QED  BY <2>1, NothingPutOut
<1>23. CASE CleanSystemLog
  <2>1. PutsOutNothing  BY <1>23 DEF CleanSystemLog, GoesOn, Goes, Calls
  <2> QED  BY <2>1, NothingPutOut
<1>24. CASE SetCore
  <2>1. PutsOutNothing  BY <1>24 DEF SetCore, GoesOn, Goes, Calls
  <2> QED  BY <2>1, NothingPutOut
<1>25. CASE SetGlobal
  <2>1. PutsOutNothing  BY <1>25 DEF SetGlobal, GoesOn, Goes, Calls
  <2> QED  BY <2>1, NothingPutOut
<1>26. CASE ClearErrorLoggedFlag
  <2>1. PutsOutNothing  BY <1>26 DEF ClearErrorLoggedFlag, GoesOn, Goes, Calls
  <2> QED  BY <2>1, NothingPutOut
<1>27. CASE Start
  <2>1. PutsOutNothing  BY <1>27 DEF Start, GoesOn, Goes, Calls
  <2> QED  BY <2>1, NothingPutOut
<1>28. CASE Over \/ UNCHANGED vars
  BY <1>28 DEF Over
<1>29. CASE RegisterFails
  <2>1. PutsOutNothing  BY <1>29 DEF RegisterFails, GoesOn, Goes, Calls
  <2> QED  BY <2>1, NothingPutOut
<1> QED
  BY <1>1, <1>2, <1>3, <1>4, <1>5, <1>6, <1>7, <1>8, <1>9, <1>10, <1>11, <1>12, <1>13,
  <1>14, <1>15, <1>16, <1>17, <1>18, <1>19, <1>20, <1>21, <1>22, <1>23, <1>24, <1>25,
  <1>26, <1>27, <1>28, <1>29, Constants DEF Next

\* A message is put out only if, and only where, some setting of its call asks
\* for it, and no error is put out unseen, although the call reads the level,
\* the callback, the backend, the sinks and the flag one after the other while
\* the main thread sets them.
THEOREM MessagesAreDelivered == Spec => Delivered
BY DeliveredStep, LoggingInvariant, PTL DEF Spec, Delivered
=============================================================================

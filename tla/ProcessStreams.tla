--------------------------- MODULE ProcessStreams ---------------------------
(***************************************************************************)
(* How the output of a child becomes lines (execution/src/execution.cc):   *)
(* what the overloads of execute and each_line make of the caller's        *)
(* callbacks and options, and process_streams, which cuts the data that    *)
(* arrive in pieces of any size into lines for the callbacks or collects   *)
(* them for the result.  Text is a sequence over three characters.         *)
(***************************************************************************)
EXTENDS Integers, Sequences, FiniteSets, FiniteSetsExt, SequencesExt

CONSTANTS
  Calls,      \* the calls explored
  OutTexts,   \* what the child may write to stdout
  ErrTexts    \* what the child may write to stderr

NL == "nl"       \* '\n'
Blank == "blank" \* any other white space
Char == {NL, Blank, "x"}

Output == {"stdout", "stderr"}

\* `api' is the family of overloads: execute with strings, execute with output
\* files, or each_line.  `given' are the streams with a callback of the caller
\* (for files, with a file of their own); `debug' is LOG_IS_DEBUG_ENABLED().
Call == [api : {"execute", "files", "each_line"}, given : SUBSET Output,
         toStdout : BOOLEAN, toNull : BOOLEAN, trim : BOOLEAN, debug : BOOLEAN]

ASSUME CallAssumption == Calls \subseteq Call
ASSUME TextAssumption == OutTexts \cup ErrTexts \subseteq Seq(Char)

VARIABLES
  call,       \* the call
  text,       \* what the child writes to the pipe of each stream
  taken,      \* how much of that was read
  buffer,     \* stdout_buffer and stderr_buffer
  lines,      \* the lines each stream's callback was given
  stopped,    \* a callback returned false
  pc          \* "reading", "last_stdout", "last_stderr" or "done"

vars == <<call, text, taken, buffer, lines, stopped, pc>>

-----------------------------------------------------------------------------
(* setup_execute, setup_each_line and the choice of child_stderr.          *)

\* While debugging, stderr that nobody wants is read after all, to be logged.
LoggedOnly(c) ==
  /\ c.debug
  /\ ~c.toStdout
  /\ "stderr" \notin c.given
  /\ c.toNull \/ c.api = "each_line"

\* redirect_stderr_to_null, as the setup leaves it.
ToNull(c) ==
  /\ ~LoggedOnly(c)
  /\ c.toNull \/ (c.api = "each_line" /\ "stderr" \notin c.given /\ ~c.toStdout)

StderrPiped(c) == ~c.toStdout /\ ~ToNull(c)

SinkWithoutLogging(c, s) ==
  IF s \in c.given THEN "caller"
  ELSE IF c.api = "each_line" /\ s = "stdout" THEN "nobody" ELSE "result"
\* Who gets what is read from stream s: a callback of the caller (or the one
\* that fills the caller's file), one that does nothing, or the result.
Sink(c, s) ==
  IF s \in c.given THEN "caller"
  ELSE IF IF s = "stdout" THEN c.api = "each_line" ELSE LoggedOnly(c) THEN "nobody"
  ELSE "result"

HasCallback(s) == Sink(call, s) # "result"

-----------------------------------------------------------------------------
(* process_data.                                                           *)

\* boost::trim
Trimmed(t) ==
  LET solid == {i \in DOMAIN t : t[i] \notin {NL, Blank}} IN
  IF solid = {} THEN <<>> ELSE SubSeq(t, Min(solid), Max(solid))

Newlines(t) == {i \in DOMAIN t : t[i] = NL}

\* The split_iterator: it goes from newline to newline, and there is one piece
\* more than there are newlines.
Pieces(t) ==
  LET from[i \in 1..Len(t) + 1] ==
        LET ahead == {j \in Newlines(t) : j >= i}
        IN  IF ahead = {} THEN <<SubSeq(t, i, Len(t))>>
            ELSE <<SubSeq(t, i, Min(ahead) - 1)>> \o from[Min(ahead) + 1]
  IN  from[1]

\* What the loop passes on of the lines it finds: empty lines are left out only
\* if lines are trimmed.
Kept(trim, found) ==
  LET kept[k \in 0..Len(found)] ==
        IF k = 0 THEN <<>>
        ELSE IF trim /\ Trimmed(found[k]) = <<>> THEN kept[k - 1]
        ELSE Append(kept[k - 1], IF trim THEN Trimmed(found[k]) ELSE found[k])
  IN  kept[Len(found)]

FoundWithoutBuffer(old, data) == Pieces(SubSeq(data, 1, Max(Newlines(data)) - 1))
\* The lines that `data' completes; the first one starts in the buffer.
Found(old, data) ==
  LET pieces == Pieces(SubSeq(data, 1, Max(Newlines(data)) - 1))
  IN  [pieces EXCEPT ![1] = old \o @]

RestWithNewline(data) == SubSeq(data, Max(Newlines(data)), Len(data))
\* What follows the last newline.
Rest(data) == SubSeq(data, Max(Newlines(data)) + 1, Len(data))

\* No callback or no newline: the data are only kept.
Collect(s, data) ==
  /\ ~HasCallback(s) \/ Newlines(data) = {}
  /\ buffer' = [buffer EXCEPT ![s] = @ \o data]
  /\ UNCHANGED <<lines, stopped, pc>>

\* The callback gets each line, and one of each_line's caller may return false
\* at any of them: what follows is dropped and the reading of both streams is
\* over.
Deliver(s, data) ==
  /\ HasCallback(s) /\ Newlines(data) # {}
  /\ LET new == Kept(call.trim, Found(buffer[s], data)) IN
     \/ /\ lines' = [lines EXCEPT ![s] = @ \o new]
        /\ buffer' = [buffer EXCEPT ![s] = Rest(data)]
        /\ UNCHANGED <<stopped, pc>>
     \/ /\ Sink(call, s) = "caller" /\ call.api = "each_line"
        /\ \E k \in DOMAIN new : lines' = [lines EXCEPT ![s] = @ \o SubSeq(new, 1, k)]
        /\ buffer' = [buffer EXCEPT ![s] = <<>>]
        /\ stopped' = TRUE
        /\ pc' = "last_stdout"

-----------------------------------------------------------------------------
(* process_streams.                                                        *)

Init ==
  /\ call \in Calls
  /\ text \in {[stdout |-> o, stderr |-> e] : o \in OutTexts, e \in ErrTexts}
  /\ text.stderr = <<>> \/ StderrPiped(call)
  /\ taken = [s \in Output |-> 0]
  /\ buffer = [s \in Output |-> <<>>] /\ lines = [s \in Output |-> <<>>]
  /\ stopped = FALSE /\ pc = "reading"

\* read_streams calls back with the next piece of one of the streams.
ProcessData(s) ==
  /\ pc = "reading"
  /\ \E n \in taken[s] + 1 .. Len(text[s]) :
       LET data == SubSeq(text[s], taken[s] + 1, n) IN
       /\ taken' = [taken EXCEPT ![s] = n]
       /\ Collect(s, data) \/ Deliver(s, data)
  /\ UNCHANGED <<call, text>>

\* Both streams are at their end.
StreamsEnd ==
  /\ pc = "reading"
  /\ \A s \in Output : taken[s] = Len(text[s])
  /\ pc' = "last_stdout"
  /\ UNCHANGED <<call, text, taken, buffer, lines, stopped>>

AfterLast == [stdout |-> "last_stderr", stderr |-> "done"]
LastStep == [stdout |-> "last_stdout", stderr |-> "last_stderr"]

LastLineDropped(s) ==
  /\ pc = LastStep[s]
  /\ pc' = AfterLast[s]
  /\ UNCHANGED <<call, text, taken, buffer, lines, stopped>>
\* What is left in the buffer is a line for the callback, whose answer does
\* not matter any more, or else the result.
LastLine(s) ==
  /\ pc = LastStep[s]
  /\ pc' = AfterLast[s]
  /\ LET rest == IF call.trim THEN Trimmed(buffer[s]) ELSE buffer[s] IN
     IF HasCallback(s) /\ rest # <<>>
     THEN /\ lines' = [lines EXCEPT ![s] = Append(@, rest)]
          /\ buffer' = [buffer EXCEPT ![s] = <<>>]
     ELSE buffer' = [buffer EXCEPT ![s] = rest] /\ UNCHANGED lines
  /\ UNCHANGED <<call, text, taken, stopped>>

Over == pc = "done" /\ UNCHANGED vars

Next == StreamsEnd \/ Over \/ \E s \in Output : ProcessData(s) \/ LastLine(s)

Spec == Init /\ [][Next]_vars

-----------------------------------------------------------------------------
(* Properties.                                                             *)

\* The reference, which reads a text character by character: a newline ends the
\* line that is open, and a callback should see it, trimmed lines only if there
\* is something left of them.
Seen(trim, line) ==
  IF ~trim THEN <<line>> ELSE IF Trimmed(line) = <<>> THEN <<>> ELSE <<Trimmed(line)>>

Unread == [given |-> <<>>, open |-> <<>>]

ReadChar(trim, r, c) ==
  IF c = NL THEN [given |-> r.given \o Seen(trim, r.open), open |-> <<>>]
  ELSE [given |-> r.given, open |-> Append(r.open, c)]

Read(trim, t) ==
  LET upTo[n \in 0..Len(t)] ==
        IF n = 0 THEN Unread ELSE ReadChar(trim, upTo[n - 1], t[n])
  IN  upTo[Len(t)]

\* The lines of a text that need not end with a newline.
LinesOf(trim, t) ==
  LET r == Read(trim, t) IN IF r.open = <<>> THEN r.given ELSE r.given \o Seen(trim, r.open)

\* The buffer for a callback never holds more than a part of one line.
TypeOK ==
  /\ call \in Calls
  /\ taken \in [Output -> Nat] /\ \A s \in Output : taken[s] <= Len(text[s])
  /\ buffer \in [Output -> Seq(Char)] /\ lines \in [Output -> Seq(Seq(Char))]
  /\ \A s \in Output : HasCallback(s) => Newlines(buffer[s]) = {}
  /\ stopped \in BOOLEAN
  /\ pc \in {"reading", "last_stdout", "last_stderr", "done"}

\* However the data were cut into pieces, a callback has so far been given
\* exactly the lines that are complete, and the buffer holds the rest; one that
\* stops the call has been given the first of them and nothing else, and in the
\* end no callback was given more than was read.
NothingLost ==
  \A s \in Output :
    LET read == Read(call.trim, SubSeq(text[s], 1, taken[s])) IN
    /\ pc = "reading" =>
         IF HasCallback(s)
         THEN lines[s] = read.given /\ buffer[s] = read.open
         ELSE lines[s] = <<>> /\ buffer[s] = SubSeq(text[s], 1, taken[s])
    /\ pc = "last_stdout" /\ stopped => IsPrefix(lines[s], read.given)
    /\ pc = "done" /\ stopped /\ HasCallback(s) =>
         IsPrefix(lines[s], LinesOf(call.trim, SubSeq(text[s], 1, taken[s])))

\* In the end, unless a callback stopped the call, each callback got all lines
\* of its stream, or the result has all of its text (and not both).
AllDelivered ==
  pc = "done" /\ ~stopped =>
    \A s \in Output :
      IF HasCallback(s) THEN lines[s] = LinesOf(call.trim, text[s]) /\ buffer[s] = <<>>
      ELSE buffer[s] = IF call.trim THEN Trimmed(text[s]) ELSE text[s]

\* Lines and texts come out the same whatever the pieces were.
PiecesDoNotMatter == NothingLost /\ AllDelivered

\* A caller that wants no stderr gets none, whether or not it is read in order
\* to be logged.
NoUnwantedStderr ==
  /\ pc = "done" /\ ~call.toStdout
  /\ call.toNull \/ (call.api = "each_line" /\ "stderr" \notin call.given)
  => buffer["stderr"] = <<>> /\ (Sink(call, "stderr") = "caller" => lines["stderr"] = <<>>)
=============================================================================

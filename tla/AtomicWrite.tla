----------------------------- MODULE AtomicWrite -----------------------------
(***************************************************************************)
(* atomic_write_to_file (file_util/src/file.cc): the text goes to a        *)
(* temporary file, always the same one for a path, which is then renamed   *)
(* to the path.  Writers are processes or threads that write to one path;  *)
(* a writer may be killed between any two system calls and start again.    *)
(***************************************************************************)
EXTENDS Integers, Sequences

CONSTANTS
  Writers,      \* who calls atomic_write_to_file for the path
  Files,        \* files the file system can hold, whatever their names
  Size,         \* the length of every text, in pieces that are written at once
  Settings,     \* the circumstances explored
  MaxAttempts   \* bound: how often a writer calls the function

ASSUME SizeAssumption == Size \in Nat \ {0} /\ MaxAttempts \in Nat

\* Whether the callers take turns and whether the disk may fill up.  `mode'
\* does not have ios::app, so that opening a file empties it.
Setting == [turns : BOOLEAN, full : BOOLEAN]
ASSUME SettingAssumption == Settings \subseteq Setting

Old == "old"
Hole == "hole"
ASSUME WriterAssumption == Old \notin Writers /\ Hole \notin Writers

NoFile == "no file"
ASSUME FileAssumption == NoFile \notin Files

\* The text of writer w, and that of the file before all of them.
Text(w) == [i \in 1..Size |-> w]
Texts == {Text(w) : w \in Writers \cup {Old}}

VARIABLES
  setting,   \* the circumstances
  pc,        \* where each writer is
  fd,        \* the file each writer has open
  done,      \* how many pieces each writer has passed to its stream
  bad,       \* the stream of the writer has failed
  tries,     \* how often each writer has called
  dir,       \* the file under each name: "path" and "tmp", which is path~
  content    \* what each file holds

vars == <<setting, pc, fd, done, bad, tries, dir, content>>

Init ==
  /\ setting \in Settings
  /\ pc = [w \in Writers |-> "idle"]
  /\ fd = [w \in Writers |-> NoFile]
  /\ done = [w \in Writers |-> 0] /\ bad = [w \in Writers |-> FALSE]
  /\ tries = [w \in Writers |-> 0]
  /\ \E f \in Files : dir = [path |-> f, tmp |-> NoFile]
  /\ content = [f \in Files |-> Text(Old)]

Active(w) == pc[w] \in {"open", "chmod", "write", "rename"}

Goto(w, point) == pc' = [pc EXCEPT ![w] = point]

Begin(w) ==
  /\ pc[w] \in {"idle", "returned", "threw", "killed"}
  /\ tries[w] < MaxAttempts
  /\ setting.turns => \A v \in Writers : ~Active(v)
  /\ tries' = [tries EXCEPT ![w] = @ + 1]
  /\ Goto(w, "open")
  /\ UNCHANGED <<setting, fd, done, bad, dir, content>>

\* A file that no name and no open descriptor refers to.
Unused(f) == f \notin {dir.path, dir.tmp} /\ \A v \in Writers : fd[v] # f

Fresh(w) ==
  \E f \in Files : /\ Unused(f)
                  /\ dir' = [dir EXCEPT !.tmp = f]
                  /\ fd' = [fd EXCEPT ![w] = f]
                  /\ content' = [content EXCEPT ![f] = <<>>]

StartsOver(w) == done' = [done EXCEPT ![w] = 0] /\ bad' = [bad EXCEPT ![w] = FALSE]

OpenWithoutTruncating(w) ==
  /\ pc[w] = "open"
  /\ StartsOver(w)
  /\ Goto(w, "chmod")
  /\ \/ dir.tmp # NoFile /\ fd' = [fd EXCEPT ![w] = dir.tmp] /\ UNCHANGED <<dir, content>>
     \/ dir.tmp = NoFile /\ Fresh(w)
  /\ UNCHANGED <<setting, tries>>
\* ofs.open: a file left there by anyone is used again.
Open(w) ==
  /\ pc[w] = "open"
  /\ StartsOver(w)
  /\ \/ /\ dir.tmp # NoFile
        /\ fd' = [fd EXCEPT ![w] = dir.tmp]
        /\ content' = [content EXCEPT ![dir.tmp] = <<>>]
        /\ Goto(w, "chmod")
        /\ UNCHANGED dir
     \/ dir.tmp = NoFile /\ Fresh(w) /\ Goto(w, "chmod")
     \/ Goto(w, "threw") /\ UNCHANGED <<fd, dir, content>>
  /\ UNCHANGED <<setting, tries>>

\* permissions(tmp_name), if asked for; an error is thrown and closes the file.
Chmod(w) ==
  /\ pc[w] = "chmod"
  /\ \/ Goto(w, "write") /\ UNCHANGED fd
     \/ Goto(w, "threw") /\ fd' = [fd EXCEPT ![w] = NoFile]
  /\ UNCHANGED <<setting, done, bad, tries, dir, content>>

\* s with a piece of w's text at position k.
Put(s, k, w) ==
  [i \in 1..(IF k > Len(s) THEN k ELSE Len(s)) |->
     IF i = k THEN w ELSE IF i \in 1..Len(s) THEN s[i] ELSE Hole]

\* ofs << text; nobody looks whether it failed.
Write(w) ==
  /\ pc[w] = "write" /\ done[w] < Size
  /\ done' = [done EXCEPT ![w] = @ + 1]
  /\ \/ /\ ~bad[w]
        /\ content' = [content EXCEPT ![fd[w]] = Put(@, done[w] + 1, w)]
        /\ UNCHANGED bad
     \/ /\ setting.full \/ bad[w]
        /\ bad' = [bad EXCEPT ![w] = TRUE]
        /\ UNCHANGED content
  /\ UNCHANGED <<setting, pc, fd, tries, dir>>

\* ofs.close
CloseEarly(w) ==
  /\ pc[w] = "write"
  /\ fd' = [fd EXCEPT ![w] = NoFile]
  /\ Goto(w, "rename")
  /\ UNCHANGED <<setting, done, bad, tries, dir, content>>
Close(w) ==
  /\ pc[w] = "write" /\ done[w] = Size
  /\ fd' = [fd EXCEPT ![w] = NoFile]
  /\ Goto(w, "rename")
  /\ UNCHANGED <<setting, done, bad, tries, dir, content>>

RenameUnchecked(w) ==
  /\ pc[w] = "rename"
  /\ \/ dir.tmp # NoFile /\ dir' = [path |-> dir.tmp, tmp |-> NoFile]
     \/ UNCHANGED dir
  /\ Goto(w, "returned")
  /\ UNCHANGED <<setting, fd, done, bad, tries, content>>
\* The rename fails if the temporary file is gone, or for reasons of its own.
Rename(w) ==
  /\ pc[w] = "rename"
  /\ \/ /\ dir.tmp # NoFile
        /\ dir' = [path |-> dir.tmp, tmp |-> NoFile]
        /\ Goto(w, "returned")
     \/ Goto(w, "threw") /\ UNCHANGED dir
  /\ UNCHANGED <<setting, fd, done, bad, tries, content>>

\* The process of the writer ends, and the system closes its files.
Kill(w) ==
  /\ Active(w)
  /\ fd' = [fd EXCEPT ![w] = NoFile]
  /\ Goto(w, "killed")
  /\ UNCHANGED <<setting, done, bad, tries, dir, content>>

Over == (\A w \in Writers : ~Active(w) /\ tries[w] = MaxAttempts) /\ UNCHANGED vars

Next ==
  \/ Over
  \/ \E w \in Writers :
       Begin(w) \/ Open(w) \/ Chmod(w) \/ Write(w) \/ Close(w) \/ Rename(w) \/ Kill(w)

Spec == Init /\ [][Next]_vars

-----------------------------------------------------------------------------
(* Properties.                                                             *)

TypeOK ==
  /\ pc \in [Writers -> {"idle", "open", "chmod", "write", "rename", "returned", "threw", "killed"}]
  /\ fd \in [Writers -> Files \cup {NoFile}]
  /\ done \in [Writers -> 0..Size] /\ bad \in [Writers -> BOOLEAN] /\ tries \in [Writers -> Nat]
  /\ dir \in [path : Files, tmp : Files \cup {NoFile}]
  /\ content \in [Files -> Seq(Writers \cup {Old, Hole})]

\* Whoever reads the path finds all of one text, at any moment, whoever wrote
\* it and wherever writers were killed.
Whole == ~setting.full => content[dir.path] \in Texts

\* The same of callers that take turns.
WholeInTurns == setting.turns => Whole

\* A call whose writes went well has put its own text under the path when it
\* returns.
ReturnsWritten ==
  [][\A w \in Writers :
       setting.turns /\ pc[w] # "returned" /\ pc'[w] = "returned" /\ ~bad[w] =>
         content'[dir'.path] = Text(w)]_vars

\* Even if the disk fills up the path holds no mixture of texts.
NeverMixed ==
  setting.turns => \E t \in Texts, n \in 0..Size : content[dir.path] = SubSeq(t, 1, n)
=============================================================================

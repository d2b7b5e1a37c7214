-------------------------- MODULE AtomicWriteProofs --------------------------
(***************************************************************************)
(* What atomic_write_to_file guarantees to callers that take turns, for    *)
(* any number of them, texts of any length and writers killed anywhere.    *)
(***************************************************************************)
EXTENDS AtomicWrite, TLAPS

\* The first n pieces of w's text.
Part(w, n) == [i \in 1..n |-> w]

\* A piece written after n of them gives n + 1.
LEMMA PutExtends ==
  ASSUME NEW w, NEW n \in Nat
  PROVE  Put(Part(w, n), n + 1, w) = Part(w, n + 1)
<1>1. Part(w, n) \in Seq({w}) /\ Len(Part(w, n)) = n
  BY DEF Part
<1>2. \A i \in 1..n + 1 : i # n + 1 => i \in 1..n /\ Part(w, n)[i] = w
  BY DEF Part
<1>3. Put(Part(w, n), n + 1, w)
        = [i \in 1..n + 1 |-> IF i = n + 1 THEN w ELSE IF i \in 1..n THEN Part(w, n)[i] ELSE Hole]
  BY <1>1 DEF Put
<1>4. QED
  BY <1>2, <1>3 DEF Part

Turns == \A v, w \in Writers : Active(v) /\ Active(w) => v = w

\* The writer whose turn it is has the temporary file open while it writes.
Descriptors ==
  /\ dir.path # dir.tmp
  /\ \A w \in Writers :
       IF pc[w] \in {"chmod", "write"} THEN fd[w] = dir.tmp /\ dir.tmp # NoFile
       ELSE fd[w] = NoFile
  /\ \A w \in Writers : pc[w] = "rename" => dir.tmp # NoFile

\* The temporary file holds a beginning of w's text, of n pieces unless a write failed.
Holds(w, n) == \E m \in 0..n : content[dir.tmp] = Part(w, m) /\ (~bad[w] => m = n)

\* The path holds a beginning of some text, all of it if the disk never fills up.
PathHolds ==
  \E t \in Writers \cup {Old}, m \in 0..Size :
    content[dir.path] = Part(t, m) /\ (~setting.full => m = Size)

\* What the files hold at each point.
Contents ==
  /\ PathHolds
  /\ \A w \in Writers :
       /\ ~setting.full => ~bad[w]
       /\ pc[w] = "chmod" => Holds(w, 0) /\ done[w] = 0 /\ ~bad[w]
       /\ pc[w] = "write" => Holds(w, done[w])
       /\ pc[w] = "rename" => Holds(w, Size)

\* The parts of the type that the argument needs.
Shapes ==
  /\ setting \in Settings
  /\ pc \in [Writers -> {"idle", "open", "chmod", "write", "rename", "returned", "threw", "killed"}]
  /\ fd \in [Writers -> Files \cup {NoFile}]
  /\ done \in [Writers -> 0..Size] /\ bad \in [Writers -> BOOLEAN]
  /\ dir \in [path : Files, tmp : Files \cup {NoFile}]
  /\ DOMAIN content = Files

\* Nothing is promised to callers that do not take turns.
WriteInv == Shapes /\ (setting.turns => Turns /\ Descriptors /\ Contents)

\* The shapes are inductive on their own.
LEMMA ShapesStep == Shapes /\ [Next]_vars => Shapes'
<1> SUFFICES ASSUME Shapes, [Next]_vars PROVE Shapes'
  OBVIOUS
<1> USE SizeAssumption DEF Shapes, Goto
<1>1. CASE Over \/ UNCHANGED vars
  BY <1>1 DEF Over, vars
<1>2. ASSUME NEW w \in Writers, Begin(w) \/ Chmod(w) \/ Close(w) \/ Rename(w) \/ Kill(w)
      PROVE  Shapes'
  BY <1>2 DEF Begin, Chmod, Close, Rename, Kill
<1>3. ASSUME NEW w \in Writers, Open(w) PROVE Shapes'
  <2>1. bad' \in [Writers -> BOOLEAN]
    BY <1>3 DEF Open, StartsOver
  <2>2. dir' \in [path : Files, tmp : Files \cup {NoFile}] /\ DOMAIN content' = Files
    BY <1>3 DEF Open, Fresh
  <2>3. pc' \in [Writers -> {"idle", "open", "chmod", "write", "rename", "returned", "threw",
                             "killed"}]
    <3>1. PICK p \in {"chmod", "threw"} : pc' = [pc EXCEPT ![w] = p]
      BY <1>3 DEF Open
    <3>2. QED
      BY <3>1
  <2>4. fd' \in [Writers -> Files \cup {NoFile}]
    BY <1>3 DEF Open, Fresh
  <2>5. done' \in [Writers -> 0..Size]
    BY <1>3 DEF Open, StartsOver
  <2>6. UNCHANGED setting
    BY <1>3 DEF Open
  <2>7. QED
    BY <2>1, <2>2, <2>3, <2>4, <2>5, <2>6
<1>4. ASSUME NEW w \in Writers, Write(w) PROVE Shapes'
  <2>1. bad' \in [Writers -> BOOLEAN]
    BY <1>4 DEF Write
  <2>2. DOMAIN content' = Files /\ done' \in [Writers -> 0..Size]
    BY <1>4 DEF Write
  <2>3. UNCHANGED <<setting, pc, fd, dir>>
    BY <1>4 DEF Write
  <2>4. QED
    BY <2>1, <2>2, <2>3
<1>5. QED
  BY <1>1, <1>2, <1>3, <1>4 DEF Next

\* Writers that take turns stay that way.
LEMMA TurnsStep == ASSUME setting.turns, Shapes, Turns, [Next]_vars PROVE Turns'
<1> USE DEF Shapes, Turns, Active, Goto
<1>1. CASE Over \/ UNCHANGED vars
  BY <1>1 DEF Over, vars
<1>2. ASSUME NEW w \in Writers, Begin(w) PROVE Turns'
  BY <1>2 DEF Begin
<1>3. ASSUME NEW w \in Writers,
             Open(w) \/ Chmod(w) \/ Write(w) \/ Close(w) \/ Rename(w) \/ Kill(w)
      PROVE  Turns'
  <2>1. Active(w) /\ \A v \in Writers : v # w => pc'[v] = pc[v]
    BY <1>3 DEF Open, Fresh, Chmod, Write, Close, Rename, Kill
  <2>2. QED
    BY <2>1
<1>4. QED
  BY <1>1, <1>2, <1>3 DEF Next

\* Only the writer whose turn it is touches the names and descriptors.
LEMMA DescriptorsStep ==
  ASSUME Shapes, Turns, Descriptors, [Next]_vars PROVE Descriptors'
<1> USE FileAssumption DEF Shapes, Turns, Active, Descriptors, Goto
<1>1. CASE Over \/ UNCHANGED vars
  BY <1>1 DEF Over, vars
<1>2. ASSUME NEW w \in Writers, Begin(w) PROVE Descriptors'
  BY <1>2 DEF Begin
<1>3. ASSUME NEW w \in Writers, Open(w) PROVE Descriptors'
  BY <1>3 DEF Open, Fresh, StartsOver, Unused
<1>4. ASSUME NEW w \in Writers, Chmod(w) \/ Close(w) \/ Kill(w) PROVE Descriptors'
  BY <1>4 DEF Chmod, Close, Kill
<1>5. ASSUME NEW w \in Writers, Write(w) PROVE Descriptors'
  BY <1>5 DEF Write
<1>6. ASSUME NEW w \in Writers, Rename(w) PROVE Descriptors'
  BY <1>6 DEF Rename
<1>7. QED
  BY <1>1, <1>2, <1>3, <1>4, <1>5, <1>6 DEF Next

\* The circumstances stay the same.
LEMMA SettingStep == ASSUME [Next]_vars PROVE setting' = setting
BY DEF Next, Over, vars, Begin, Open, Chmod, Write, Close, Rename, Kill

\* Nothing happens to the path while it stands for the same file with the same text.
LEMMA PathKept ==
  ASSUME PathHolds, setting' = setting, dir'.path = dir.path,
         content'[dir.path] = content[dir.path]
  PROVE  PathHolds'
BY DEF PathHolds, Part

\* The path changes only when a closed temporary file is renamed to it.
LEMMA ContentsStep ==
  ASSUME Shapes, Turns, Descriptors, Contents, [Next]_vars PROVE Contents'
<1> USE DEF Shapes, Turns, Active, Descriptors, Contents, Holds, PathHolds, Goto
<1>1. CASE Over \/ UNCHANGED vars
  BY <1>1 DEF Over, vars
<1>2. ASSUME NEW w \in Writers, Begin(w) PROVE Contents'
  BY <1>2 DEF Begin
<1>3. ASSUME NEW w \in Writers, Open(w) PROVE Contents'
  <2>1. bad' = [bad EXCEPT ![w] = FALSE]
    BY <1>3 DEF Open, StartsOver
  <2>2. /\ done' = [done EXCEPT ![w] = 0] /\ UNCHANGED setting
        /\ pc' \in {[pc EXCEPT ![w] = "chmod"], [pc EXCEPT ![w] = "threw"]}
        /\ dir'.path = dir.path /\ content'[dir.path] = content[dir.path]
        /\ pc'[w] = "chmod" => content'[dir'.tmp] = <<>>
    BY <1>3 DEF Open, Fresh, StartsOver, Unused
  <2>3. \A v \in Writers : v # w => ~Active(v) /\ pc'[v] = pc[v]
    BY <1>3, <2>2 DEF Open
  <2>4. Part(w, 0) = <<>>
    BY DEF Part
  <2>5. \A v \in Writers : ~setting'.full => ~bad'[v]
    BY <2>1, <2>2
  <2>6. ~bad'[w]
    BY <2>1
  <2>7. PathHolds'
    BY <2>2, PathKept
  <2>8. \A v \in Writers : v # w => pc'[v] \notin {"chmod", "write", "rename"}
    BY <2>3
  <2>9. pc'[w] \in {"chmod", "threw"} /\ done'[w] = 0
    BY <2>2, SizeAssumption
  <2>10. pc'[w] = "chmod" => Holds(w, 0)'
    BY <2>2, <2>4, <2>6
  <2>11. QED
    BY <2>5, <2>6, <2>7, <2>8, <2>9, <2>10
<1>4. ASSUME NEW w \in Writers, Chmod(w) PROVE Contents'
  BY <1>4 DEF Chmod
<1>5. ASSUME NEW w \in Writers, Write(w) PROVE Contents'
  <2>1. UNCHANGED <<setting, pc, dir>> /\ done' = [done EXCEPT ![w] = @ + 1] /\ pc[w] = "write"
    BY <1>5 DEF Write
  <2>2. fd[w] = dir.tmp /\ dir.tmp \in Files /\ done[w] \in Nat /\ done[w] < Size
    BY <1>5, <2>1, SizeAssumption DEF Write
  <2>3. \A v \in Writers : v # w => ~Active(v)
    BY <2>1
  <2>4. CASE ~bad[w] /\ content' = [content EXCEPT ![fd[w]] = Put(@, done[w] + 1, w)] /\ UNCHANGED bad
    <3>0. content[dir.tmp] = Part(w, done[w])
      BY <2>1, <2>4
    <3>1. content' = [content EXCEPT ![dir.tmp] = Part(w, done[w] + 1)]
      <4>1. Put(content[dir.tmp], done[w] + 1, w) = Part(w, done[w] + 1)
        BY <2>2, <3>0, PutExtends
      <4>2. content' = [content EXCEPT ![dir.tmp] = Put(content[dir.tmp], done[w] + 1, w)]
        BY <2>2, <2>4
      <4>3. QED
        BY <4>1, <4>2
    <3>2. Holds(w, done[w])'
      BY <2>1, <2>2, <2>4, <3>1
    <3>3. PathHolds'
      BY <2>1, <3>1
    <3>4. QED
      BY <2>1, <2>3, <2>4, <3>2, <3>3
  <2>5. CASE (setting.full \/ bad[w]) /\ bad' = [bad EXCEPT ![w] = TRUE] /\ UNCHANGED content
    <3>1. bad'[w] /\ \A v \in Writers : ~setting'.full => ~bad'[v]
      BY <2>1, <2>5
    <3>2. Holds(w, done[w])'
      BY <2>1, <2>2, <2>5, <3>1
    <3>3. PathHolds'
      BY <2>1, <2>5
    <3>4. QED
      BY <2>1, <2>3, <3>1, <3>2, <3>3
  <2>6. QED
    BY <1>5, <2>4, <2>5 DEF Write
<1>6. ASSUME NEW w \in Writers, Close(w) PROVE Contents'
  <2>1. /\ pc[w] = "write" /\ done[w] = Size /\ pc' = [pc EXCEPT ![w] = "rename"]
        /\ UNCHANGED <<setting, done, bad, dir, content>>
    BY <1>6 DEF Close
  <2>2. PathHolds'
    BY <2>1, PathKept
  <2>3. Holds(w, Size)'
    BY <2>1
  <2>4. QED
    BY <2>1, <2>2, <2>3
<1>7. ASSUME NEW w \in Writers, Rename(w) PROVE Contents'
  <2>1. Holds(w, Size)
    BY <1>7 DEF Rename
  <2>2. \A v \in Writers : pc'[v] \notin {"chmod", "write", "rename"}
    BY <1>7 DEF Rename
  <2>3. UNCHANGED <<setting, bad, content>> /\ dir'.path \in {dir.path, dir.tmp}
    BY <1>7 DEF Rename
  <2>4. PathHolds'
    BY <2>1, <2>3
  <2>5. QED
    BY <2>2, <2>3, <2>4
<1>8. ASSUME NEW w \in Writers, Kill(w) PROVE Contents'
  BY <1>8 DEF Kill
<1>9. QED
  BY <1>1, <1>2, <1>3, <1>4, <1>5, <1>6, <1>7, <1>8 DEF Next

\* The inductive invariant.
THEOREM WriteInvariant == Spec => []WriteInv
<1>1. Init => WriteInv
  <2> SUFFICES ASSUME Init PROVE WriteInv
    OBVIOUS
  <2> USE SizeAssumption, FileAssumption
  <2>1. bad = [w \in Writers |-> FALSE]
    BY DEF Init
  <2>2. bad \in [Writers -> BOOLEAN] /\ \A w \in Writers : ~bad[w]
    BY <2>1
  <2>3. Shapes
    BY <2>2 DEF Init, Shapes
  <2>4. Turns /\ Descriptors
    BY DEF Init, Turns, Active, Descriptors
  <2>5. PathHolds
    <3>1. content[dir.path] = Part(Old, Size)
      BY DEF Init, Part, Text
    <3>2. QED
      BY <3>1 DEF PathHolds
  <2>6. \A w \in Writers : pc[w] = "idle"
    BY DEF Init
  <2>7. Contents
    BY <2>2, <2>5, <2>6 DEF Contents
  <2>8. QED
    BY <2>3, <2>4, <2>7 DEF WriteInv
<1>2. WriteInv /\ [Next]_vars => WriteInv'
  BY ShapesStep, SettingStep, TurnsStep, DescriptorsStep, ContentsStep DEF WriteInv
<1>3. QED
  BY <1>1, <1>2, PTL DEF Spec

\* Whoever reads the path while its writers take turns finds all of one text,
\* if the disk does not fill up (file.cc:77-97).
THEOREM PathIsWhole == Spec => []WholeInTurns
<1>1. WriteInv => WholeInTurns
  <2> SUFFICES ASSUME WriteInv, setting.turns, ~setting.full PROVE content[dir.path] \in Texts
    BY DEF WholeInTurns, Whole
  <2>1. PICK t \in Writers \cup {Old} : content[dir.path] = Part(t, Size)
    BY DEF WriteInv, Contents, PathHolds
  <2>2. QED
    BY <2>1 DEF Texts, Text, Part
<1>2. QED
  BY <1>1, WriteInvariant, PTL

\* And even if it does, never a mixture of two.
THEOREM PathIsNeverMixed == Spec => []NeverMixed
<1>1. WriteInv => NeverMixed
  <2> SUFFICES ASSUME WriteInv, setting.turns
               PROVE  \E t \in Texts, n \in 0..Size : content[dir.path] = SubSeq(t, 1, n)
    BY DEF NeverMixed
  <2>1. PICK t \in Writers \cup {Old}, m \in 0..Size : content[dir.path] = Part(t, m)
    BY DEF WriteInv, Contents, PathHolds
  <2>2. Text(t) \in Texts
    BY DEF Texts
  <2>3. SubSeq(Text(t), 1, m) = Part(t, m)
    <3>1. Text(t) \in Seq({t}) /\ Len(Text(t)) = Size /\ \A i \in 1..Size : Text(t)[i] = t
      BY SizeAssumption DEF Text
    <3>2. SubSeq(Text(t), 1, m) = [i \in 1..m |-> Text(t)[i]]
      BY <3>1, SizeAssumption
    <3>3. QED
      BY <3>1, <3>2, SizeAssumption DEF Part
  <2>4. QED
    BY <2>1, <2>2, <2>3
<1>2. QED
  BY <1>1, WriteInvariant, PTL

\* A call that returns after writing without an error has put its text there.
THEOREM ReturnIsWritten == Spec => ReturnsWritten
<1>1. WriteInv /\ [Next]_vars =>
        [\A w \in Writers :
           setting.turns /\ pc[w] # "returned" /\ pc'[w] = "returned" /\ ~bad[w] =>
             content'[dir'.path] = Text(w)]_vars
  <2> SUFFICES ASSUME WriteInv, [Next]_vars, NEW w \in Writers,
                      setting.turns, pc[w] # "returned", pc'[w] = "returned", ~bad[w]
               PROVE  content'[dir'.path] = Text(w)
    OBVIOUS
  <2>1. Rename(w)
    BY DEF WriteInv, Shapes, Next, Over, vars, Goto, Begin, Open, Fresh, Chmod, Write, Close,
           Rename, Kill
  <2>2. content[dir.tmp] = Part(w, Size)
    BY <2>1 DEF WriteInv, Contents, Holds, Rename
  <2>3. content'[dir'.path] = content[dir.tmp]
    BY <2>1 DEF WriteInv, Shapes, Rename, Goto
  <2>4. QED
    BY <2>2, <2>3 DEF Part, Text
<1>2. QED
  BY <1>1, WriteInvariant, PTL DEF Spec, ReturnsWritten
=============================================================================

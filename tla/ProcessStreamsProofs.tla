------------------------- MODULE ProcessStreamsProofs -------------------------
(***************************************************************************)
(* Proofs about ProcessStreams, for any texts and any pieces of them: what *)
(* the callbacks are given and what the buffers and the result hold.  The  *)
(* functions that process_data's loop and the reference are written with   *)
(* are recursive; that they exist, and what one step of them does, is      *)
(* proved first.                                                           *)
(***************************************************************************)
EXTENDS ProcessStreams, SequenceTheorems, WellFoundedInduction, TLAPS

Start(s, n) == SubSeq(text[s], 1, n)

\* All of a text but what was taken is still in the pipe.
ReadInv ==
  /\ call \in Calls
  /\ text \in [Output -> Seq(Char)]
  /\ taken \in [Output -> Nat] /\ \A s \in Output : taken[s] <= Len(text[s])
  /\ DOMAIN buffer = Output /\ DOMAIN lines = Output
  /\ buffer = [s \in Output |-> buffer[s]] /\ lines = [s \in Output |-> lines[s]]
  /\ stopped \in BOOLEAN
  /\ pc \in {"reading", "last_stdout", "last_stderr", "done"}
  /\ text["stderr"] = <<>> \/ StderrPiped(call)
  /\ pc = "reading" => ~stopped
  /\ pc # "reading" /\ ~stopped => \A s \in Output : taken[s] = Len(text[s])

\* The points before the last line of stream s.
Before(s) == IF s = "stdout" THEN {"reading", "last_stdout"}
             ELSE {"reading", "last_stdout", "last_stderr"}

\* Without a callback the buffer holds all that was read, in the end trimmed.
ResultInv ==
  \A s \in Output : ~HasCallback(s) =>
    /\ lines[s] = <<>>
    /\ pc \in Before(s) => buffer[s] = Start(s, taken[s])
    /\ pc \notin Before(s) =>
         buffer[s] = IF call.trim THEN Trimmed(Start(s, taken[s])) ELSE Start(s, taken[s])

\* What was read so far, as the reference reads it.
SoFar(s) == Read(call.trim, Start(s, taken[s]))

Whole(trim, r) == IF r.open = <<>> THEN r.given ELSE r.given \o Seen(trim, r.open)

Begins(some, all) ==
  some \in Seq(Seq(Char)) /\ \E more \in Seq(Seq(Char)) : all = some \o more

\* With a callback, that was given the lines and the buffer holds the rest, or
\* it has stopped the call; in the end it was given the rest, too.
StreamLines(s, r) ==
  /\ pc \in Before(s) =>
       \/ lines[s] = r.given /\ buffer[s] = r.open
       \/ stopped /\ Begins(lines[s], r.given) /\ buffer[s] = <<>>
  /\ pc \notin Before(s) =>
       /\ buffer[s] = <<>> /\ Begins(lines[s], Whole(call.trim, r))
       /\ ~stopped => lines[s] = Whole(call.trim, r)

LinesInv == \A s \in Output : HasCallback(s) => StreamLines(s, SoFar(s))

\* Of an empty text nothing is left and nothing is given.
EmptyInv ==
  \A s \in Output : text[s] = <<>> => lines[s] = <<>> /\ buffer[s] = <<>>

StreamsInv == ReadInv /\ ResultInv /\ LinesInv /\ EmptyInv

-----------------------------------------------------------------------------
(* Recursion.                                                              *)

\* A set of numbers has a least one.
LEMMA LeastOf ==
  ASSUME NEW s \in SUBSET Nat, s # {}
  PROVE  Min(s) \in s /\ \A o \in s : Min(s) <= o
<1> DEFINE Less == {p \in Nat \X Nat : p[1] < p[2]}
<1>1. IsWellFoundedOn(Less, Nat)  BY NatLessThanWellFounded, Zenon DEF OpToRel
<1>2. PICK m \in s : \A o \in s : ~(<<o, m>> \in Less)  BY <1>1, WFMin, Zenon
<1>3. \A o \in s : m <= o
  <2> TAKE o \in s
  <2>1. <<o, m>> \in Nat \X Nat  OBVIOUS
  <2>2. ~(<<o, m>>[1] < <<o, m>>[2])  BY <1>2, <2>1, Zenon
  <2> QED  BY <2>2
<1>4. \E y \in s : \A o \in s : y <= o  BY <1>3
<1> QED  BY <1>4 DEF Min

LEMMA GreatestOf ==
  ASSUME NEW n \in Nat, NEW s \in SUBSET (1..n), s # {}
  PROVE  Max(s) \in s /\ \A o \in s : o <= Max(s)
<1> DEFINE t == {x \in 0..n : n - x \in s}
<1>1. \A o \in s : o \in 1..n /\ n - o \in 0..n /\ n - (n - o) = o  OBVIOUS
<1>2. \A o \in s : n - o \in t  BY <1>1
<1>3. t \in SUBSET Nat /\ t # {}
  <2>1. t \in SUBSET Nat  OBVIOUS
  <2> HIDE DEF t
  <2> QED  BY <1>2, <2>1
<1>4. \A y \in t : y \in 0..n /\ n - y \in s  OBVIOUS
<1> HIDE DEF t
<1>5. PICK m \in t : \A o \in t : m <= o  BY <1>3, LeastOf
<1>6. m \in 0..n /\ n - m \in s  BY <1>4
<1>7. \A o \in s : n - m >= o
  <2> TAKE o \in s
  <2>1. o \in 1..n /\ m <= n - o  BY <1>1, <1>2, <1>5
  <2> QED  BY <1>6, <2>1
<1>8. \E y \in s : \A o \in s : y >= o  BY <1>6, <1>7
<1>9. Max(s) \in s /\ \A o \in s : Max(s) >= o  BY <1>8 DEF Max
<1>10. \A o \in s : Max(s) \in 1..n /\ o \in 1..n  BY <1>9
<1> QED  BY <1>9, <1>10

\* Induction up to n.
LEMMA Reaches ==
  ASSUME NEW n \in Nat, NEW p, 0 \in p, \A i \in 1..n : i - 1 \in p => i \in p
  PROVE  \A i \in 0..n : i \in p
<1> DEFINE bad == {i \in 0..n : i \notin p}
<1>1. SUFFICES ASSUME bad # {} PROVE FALSE
  OBVIOUS
<1>2. bad \in SUBSET Nat  OBVIOUS
<1>3. PICK m \in bad : \A o \in bad : m <= o  BY <1>1, <1>2, LeastOf
<1>4. m \in 1..n /\ m - 1 \in 0..n /\ m \notin p  OBVIOUS
<1>5. m - 1 \notin bad  BY <1>3, <1>4
<1> QED  BY <1>4, <1>5

\* What is computed step by step exists.
Iteration(n, S, base, F, g) ==
  g \in [0..n -> S] /\ g[0] = base /\ \A i \in 1..n : g[i] = F[<<i, g[i - 1]>>]

LEMMA Iterates ==
  ASSUME NEW n \in Nat, NEW S, NEW base \in S, NEW F \in [(1..n) \X S -> S]
  PROVE  \E g : Iteration(n, S, base, F, g)
<1> DEFINE Steps(m, g) == Iteration(m, S, base, F, g)
           p == {m \in 0..n : \E g : Steps(m, g)}
<1>1. 0 \in p
  <2>1. Steps(0, [i \in 0..0 |-> base])  BY DEF Iteration
  <2>2. 0 \in 0..n  OBVIOUS
  <2> HIDE DEF Steps
  <2> QED  BY <2>1, <2>2
<1>2. ASSUME NEW m \in 1..n, m - 1 \in p PROVE m \in p
  <2>1. PICK g : Steps(m - 1, g)  BY <1>2
  <2> DEFINE h == [i \in 0..m |-> IF i = m THEN F[<<m, g[m - 1]>>] ELSE g[i]]
  <2>2. /\ g \in [0..(m - 1) -> S] /\ g[0] = base
         /\ \A i \in 1..(m - 1) : g[i] = F[<<i, g[i - 1]>>]
    BY <2>1 DEF Iteration
  <2>3. m - 1 \in 0..(m - 1) /\ g[m - 1] \in S  BY <2>2
  <2>4. F[<<m, g[m - 1]>>] \in S  BY <2>3
  <2>5. h \in [0..m -> S]
    <3> SUFFICES ASSUME NEW i \in 0..m PROVE h[i] \in S
      OBVIOUS
    <3>1. i # m => i \in 0..(m - 1)  OBVIOUS
    <3> QED  BY <2>2, <2>4, <3>1
  <2>6. h[0] = base  BY <2>2
  <2>7. ASSUME NEW i \in 1..m PROVE h[i] = F[<<i, h[i - 1]>>]
    <3>1. i \in 0..m /\ i - 1 \in 0..m /\ i - 1 # m  OBVIOUS
    <3>2. h[i - 1] = g[i - 1]  BY <3>1
    <3>3. CASE i = m  BY <3>1, <3>2, <3>3
    <3>4. CASE i # m
      <4>1. i \in 1..(m - 1)  BY <3>4
      <4> QED  BY <2>2, <3>1, <3>2, <3>4, <4>1
    <3> QED  BY <3>3, <3>4
  <2> HIDE DEF h
  <2>8. Steps(m, h)  BY <2>5, <2>6, <2>7 DEF Iteration
  <2> HIDE DEF Steps
  <2> QED  BY <2>8
<1> HIDE DEF p
<1>3. \A i \in 0..n : i \in p  BY <1>1, <1>2, Reaches
<1>4. n \in p  BY <1>3
<1> QED  BY <1>4 DEF p

-----------------------------------------------------------------------------
(* Sequences.                                                              *)

\* A piece of a text, and what it adds to what was read before.
LEMMA PieceOfText ==
  ASSUME NEW t \in Seq(Char), NEW a \in 0..Len(t), NEW b \in (a + 1)..Len(t)
  PROVE  /\ SubSeq(t, a + 1, b) \in Seq(Char) /\ Len(SubSeq(t, a + 1, b)) = b - a
         /\ \A i \in 1..(b - a) : SubSeq(t, a + 1, b)[i] = t[a + i]
<1>1. \A i \in (a + 1)..b : t[i] \in Char  BY ElementOfSeq
<1> QED  BY <1>1, SubSeqProperties

LEMMA PieceAdds ==
  ASSUME NEW t \in Seq(Char), NEW k \in 0..Len(t), NEW a \in k..Len(t), NEW b \in a..Len(t)
  PROVE  SubSeq(t, k + 1, a) \o SubSeq(t, a + 1, b) = SubSeq(t, k + 1, b)
<1>1. k + 1 \in 1..Len(t) + 1 /\ a \in (k + 1) - 1..Len(t) /\ Len(t) \in Nat  BY LenProperties
<1> QED  BY <1>1, ConcatAdjacentSubSeq

LEMMA PieceOfPiece ==
  ASSUME NEW t \in Seq(Char), NEW a \in 0..Len(t), NEW b \in (a + 1)..Len(t), NEW m \in 1..(b - a)
  PROVE  SubSeq(SubSeq(t, a + 1, b), m + 1, b - a) = SubSeq(t, a + m + 1, b)
<1>1. Len(t) \in Nat  BY LenProperties
<1>2. CASE m < b - a
  <2>1. /\ a + 1 \in 1..Len(t) /\ b \in 1..Len(t)
        /\ m + 1 \in 1..(b - (a + 1) + 1) /\ b - a \in 1..(b - (a + 1) + 1)
    BY <1>1, <1>2
  <2>2. SubSeq(SubSeq(t, a + 1, b), m + 1, b - a)
          = SubSeq(t, (a + 1) + (m + 1) - 1, (a + 1) + (b - a) - 1)
    BY <2>1, SubSeqOfSubSeq
  <2>3. (a + 1) + (m + 1) - 1 = a + m + 1 /\ (a + 1) + (b - a) - 1 = b  BY <1>1
  <2> QED  BY <2>2, <2>3
<1>3. CASE m = b - a
  <2>1. SubSeq(SubSeq(t, a + 1, b), m + 1, b - a) = <<>>
    BY <1>1, <1>3, SubSeqEmpty, m + 1 \in Int, b - a \in Int, b - a < m + 1
  <2>2. SubSeq(t, a + m + 1, b) = <<>>
    BY <1>1, <1>3, SubSeqEmpty, a + m + 1 \in Int, b \in Int, b < a + m + 1
  <2> QED  BY <2>1, <2>2
<1> QED  BY <1>1, <1>2, <1>3

LEMMA NothingTrimmed == Trimmed(<<>>) = <<>>
BY DEF Trimmed

-----------------------------------------------------------------------------
(* Texts, and the lines they become.                                       *)

Reading == [given : Seq(Seq(Char)), open : Seq(Char)]

LEMMA TrimmedText == ASSUME NEW t \in Seq(Char) PROVE Trimmed(t) \in Seq(Char)
<1> DEFINE solid == {i \in DOMAIN t : t[i] \notin {NL, Blank}}
<1>1. Len(t) \in Nat /\ DOMAIN t = 1..Len(t)  BY LenProperties
<1>2. solid \in SUBSET (1..Len(t)) /\ solid \in SUBSET Nat  BY <1>1
<1>3. CASE solid = {}
  <2>1. Trimmed(t) = <<>>  BY <1>3 DEF Trimmed
  <2> QED  BY <2>1
<1>4. CASE solid # {}
  <2>1. Trimmed(t) = SubSeq(t, Min(solid), Max(solid))  BY <1>4 DEF Trimmed
  <2> HIDE DEF solid
  <2>2. Max(solid) \in solid  BY <1>1, <1>2, <1>4, GreatestOf
  <2>3. Min(solid) \in solid  BY <1>2, <1>4, LeastOf
  <2>4. Min(solid) \in 1..Len(t) /\ Max(solid) \in 1..Len(t)  BY <1>2, <2>2, <2>3
  <2>5. \A i \in Min(solid)..Max(solid) : i \in 1..Len(t)  BY <1>1, <2>4
  <2>6. \A i \in Min(solid)..Max(solid) : t[i] \in Char  BY <2>5, ElementOfSeq
  <2>7. Min(solid) \in Int /\ Max(solid) \in Int  BY <2>4
  <2>8. SubSeq(t, Min(solid), Max(solid)) \in Seq(Char)  BY <2>6, <2>7, SubSeqProperties
  <2> QED  BY <2>1, <2>8
<1> QED  BY <1>3, <1>4

LEMMA SeenLines ==
  ASSUME NEW trim \in BOOLEAN, NEW l \in Seq(Char) PROVE Seen(trim, l) \in Seq(Seq(Char))
<1>1. <<l>> \in Seq(Seq(Char)) /\ <<>> \in Seq(Seq(Char))  OBVIOUS
<1>2. Trimmed(l) \in Seq(Char)  BY TrimmedText
<1>3. <<Trimmed(l)>> \in Seq(Seq(Char))  BY <1>2
<1> QED  BY <1>1, <1>3 DEF Seen

LEMMA ReadCharReads ==
  ASSUME NEW trim \in BOOLEAN, NEW r \in Reading, NEW c \in Char
  PROVE  ReadChar(trim, r, c) \in Reading
<1>1. r.given \in Seq(Seq(Char)) /\ r.open \in Seq(Char)  BY DEF Reading
<1>2. Seen(trim, r.open) \in Seq(Seq(Char))  BY <1>1, SeenLines
<1>3. r.given \o Seen(trim, r.open) \in Seq(Seq(Char))  BY <1>1, <1>2, ConcatProperties
<1>4. Append(r.open, c) \in Seq(Char)  BY <1>1, AppendProperties
<1>5. <<>> \in Seq(Char)  OBVIOUS
<1> QED  BY <1>1, <1>3, <1>4, <1>5 DEF ReadChar, Reading

\* The steps of Read through a text.
Reads(trim, t, g) ==
  /\ g \in [0..Len(t) -> Reading]
  /\ g[0] = Unread
  /\ \A n \in 1..Len(t) : g[n] = ReadChar(trim, g[n - 1], t[n])

LEMMA ReadTakesSteps ==
  ASSUME NEW trim \in BOOLEAN, NEW t \in Seq(Char)
  PROVE  \E g : Reads(trim, t, g) /\ Read(trim, t) = g[Len(t)]
<1> DEFINE N == Len(t)
           F == [p \in (1..N) \X Reading |-> ReadChar(trim, p[2], t[p[1]])]
           Eq(g) == g = [n \in 0..N |-> IF n = 0 THEN Unread ELSE ReadChar(trim, g[n - 1], t[n])]
<1>1. N \in Nat  BY LenProperties
<1>2. Unread \in Reading  BY DEF Unread, Reading
<1>3. F \in [(1..N) \X Reading -> Reading]
  <2> SUFFICES ASSUME NEW p \in (1..N) \X Reading PROVE ReadChar(trim, p[2], t[p[1]]) \in Reading
    OBVIOUS
  <2>1. p[1] \in 1..Len(t) /\ p[2] \in Reading  OBVIOUS
  <2>2. t[p[1]] \in Char  BY <2>1, ElementOfSeq
  <2> QED  BY <2>1, <2>2, ReadCharReads
<1>4. \A i \in 1..N, r \in Reading : F[<<i, r>>] = ReadChar(trim, r, t[i])
  <2> TAKE i \in 1..N, r \in Reading
  <2>1. <<i, r>> \in (1..N) \X Reading /\ <<i, r>>[1] = i /\ <<i, r>>[2] = r  OBVIOUS
  <2> QED  BY <2>1
<1> HIDE DEF F, N
<1>5. PICK g : Iteration(N, Reading, Unread, F, g)  BY <1>1, <1>2, <1>3, Iterates
<1>6. ASSUME NEW n \in 0..N, n # 0 PROVE g[n] = ReadChar(trim, g[n - 1], t[n])
  <2>1. n \in 1..N /\ n - 1 \in 0..N  BY <1>1, <1>6
  <2>2. g[n - 1] \in Reading  BY <1>5, <2>1 DEF Iteration
  <2>3. g[n] = F[<<n, g[n - 1]>>]  BY <1>5, <2>1 DEF Iteration
  <2> QED  BY <1>4, <2>1, <2>2, <2>3
<1>7. Eq(g)  BY <1>5, <1>6 DEF Iteration
<1> DEFINE h == CHOOSE f : Eq(f)
<1>8. Eq(h)  BY <1>7
<1>9. Read(trim, t) = h[N]  BY DEF Read, N
<1> HIDE DEF h
<1>10. ASSUME NEW n \in 0..N PROVE h[n] \in Reading
  <2> DEFINE p == {m \in 0..N : h[m] \in Reading}
  <2>1. 0 \in p  BY <1>1, <1>2, <1>8
  <2>2. ASSUME NEW m \in 1..N, m - 1 \in p PROVE m \in p
    <3>1. m \in 0..N /\ m # 0  BY <1>1
    <3>2. h[m] = ReadChar(trim, h[m - 1], t[m])  BY <1>8, <3>1
    <3>3. t[m] \in Char  BY ElementOfSeq DEF N
    <3>4. h[m] \in Reading  BY <2>2, <3>2, <3>3, ReadCharReads
    <3> QED  BY <3>1, <3>4
  <2> HIDE DEF p
  <2>3. n \in p  BY <1>1, <2>1, <2>2, Reaches
  <2> QED  BY <2>3 DEF p
<1>11. h \in [0..N -> Reading]  BY <1>8, <1>10
<1>12. h[0] = Unread  BY <1>1, <1>8
<1>13. ASSUME NEW n \in 1..N PROVE h[n] = ReadChar(trim, h[n - 1], t[n])
  <2>1. n \in 0..N /\ n # 0  BY <1>1
  <2> QED  BY <1>8, <2>1
<1>14. Reads(trim, t, h)  BY <1>11, <1>12, <1>13 DEF Reads, N
<1> QED  BY <1>9, <1>14 DEF N

\* A prefix of the text is read by the same steps.
LEMMA PrefixText ==
  ASSUME NEW t \in Seq(Char), NEW n \in 0..Len(t)
  PROVE  /\ SubSeq(t, 1, n) \in Seq(Char) /\ Len(SubSeq(t, 1, n)) = n
         /\ \A i \in 1..n : SubSeq(t, 1, n)[i] = t[i]
<1>1. Len(t) \in Nat /\ n \in Int /\ 1 \in Int  BY LenProperties
<1>2. \A i \in 1..n : i \in 1..Len(t)  BY <1>1
<1>3. \A i \in 1..n : t[i] \in Char  BY <1>2, ElementOfSeq
<1> DEFINE u == SubSeq(t, 1, n)
<1>4. u \in Seq(Char) /\ Len(u) = (IF 1 <= n THEN n - 1 + 1 ELSE 0)
      /\ \A i \in 1..(n - 1 + 1) : u[i] = t[1 + i - 1]
  BY <1>1, <1>3, SubSeqProperties
<1> HIDE DEF u
<1>5. Len(u) = n  BY <1>4
<1>6. ASSUME NEW i \in 1..n PROVE u[i] = t[i]
  <2>1. i \in 1..(n - 1 + 1) /\ 1 + i - 1 = i  OBVIOUS
  <2> QED  BY <1>4, <2>1
<1> QED  BY <1>4, <1>5, <1>6 DEF u

LEMMA ReadOfPrefix ==
  ASSUME NEW trim \in BOOLEAN, NEW t \in Seq(Char), NEW g, Reads(trim, t, g), NEW n \in 0..Len(t)
  PROVE  Read(trim, SubSeq(t, 1, n)) = g[n]
<1> DEFINE u == SubSeq(t, 1, n)
<1>1. u \in Seq(Char) /\ Len(u) = n /\ \A i \in 1..n : u[i] = t[i]  BY PrefixText
<1>2. Len(t) \in Nat /\ n \in Nat  BY LenProperties
<1> HIDE DEF u
<1>3. PICK h : Reads(trim, u, h) /\ Read(trim, u) = h[Len(u)]  BY <1>1, ReadTakesSteps
<1>4. h[0] = Unread /\ \A i \in 1..n : h[i] = ReadChar(trim, h[i - 1], t[i])
  BY <1>1, <1>3 DEF Reads
<1>5. g[0] = Unread /\ \A i \in 1..n : g[i] = ReadChar(trim, g[i - 1], t[i])
  BY <1>2 DEF Reads
<1> DEFINE p == {i \in 0..n : h[i] = g[i]}
<1>6. 0 \in p  BY <1>2, <1>4, <1>5
<1>7. ASSUME NEW i \in 1..n, i - 1 \in p PROVE i \in p
  BY <1>4, <1>5, <1>7
<1>8. n \in p => h[n] = g[n]  OBVIOUS
<1> HIDE DEF p
<1>9. n \in p  BY <1>2, <1>6, <1>7, Reaches
<1> QED  BY <1>1, <1>3, <1>8, <1>9 DEF u

\* Without a newline the open line goes on.
GoesOn(g, t, a, b) ==
  g[b].given = g[a].given /\ g[b].open = g[a].open \o SubSeq(t, a + 1, b)

LEMMA LineGoesOn ==
  ASSUME NEW trim \in BOOLEAN, NEW t \in Seq(Char), NEW g, Reads(trim, t, g),
         NEW a \in 0..Len(t), NEW b \in a..Len(t), \A i \in (a + 1)..b : t[i] # NL
  PROVE  GoesOn(g, t, a, b)
<1> DEFINE p == {k \in 0..(b - a) : GoesOn(g, t, a, a + k)}
<1>1. Len(t) \in Nat /\ b - a \in Nat /\ a + 0 = a /\ a + (b - a) = b  BY LenProperties
<1>2. g[a] \in Reading  BY DEF Reads
<1>3. g[a].open \in Seq(Char)  BY <1>2 DEF Reading
<1>4. 0 \in p
  <2>1. SubSeq(t, a + 1, a) = <<>>  BY <1>1, SubSeqEmpty, a + 1 \in Int, a \in Int, a < a + 1
  <2>2. g[a].open \o <<>> = g[a].open  BY <1>3, ConcatEmptySeq
  <2>3. GoesOn(g, t, a, a)  BY <2>1, <2>2 DEF GoesOn
  <2> QED  BY <1>1, <2>3
<1>5. ASSUME NEW k \in 1..(b - a), k - 1 \in p PROVE k \in p
  <2>1. a + (k - 1) = a + k - 1 /\ a + k \in 1..Len(t) /\ a + k \in (a + 1)..b
        /\ a + 1 \in 1..Len(t) /\ a + k \in (a + 1)..Len(t)
    BY <1>1
  <2>2. GoesOn(g, t, a, a + k - 1)  BY <1>5, <2>1
  <2>3. g[a + k] = ReadChar(trim, g[a + k - 1], t[a + k])  BY <2>1 DEF Reads
  <2>4. t[a + k] # NL /\ t[a + k] \in Char  BY <2>1, ElementOfSeq
  <2>5. g[a + k].given = g[a + k - 1].given /\ g[a + k].open = Append(g[a + k - 1].open, t[a + k])
    BY <2>3, <2>4 DEF ReadChar
  <2> DEFINE u == SubSeq(t, a + 1, a + k - 1)
             c == <<t[a + k]>>
  <2>6. SubSeq(t, a + 1, a + k) = u \o c
    BY <2>1, SubSeqRecursiveSecond
  <2>7. u \in Seq(Char)
    <3>1. \A i \in (a + 1)..(a + k - 1) : i \in 1..Len(t)  BY <2>1
    <3>2. \A i \in (a + 1)..(a + k - 1) : t[i] \in Char  BY <3>1, ElementOfSeq
    <3> QED  BY <3>2, SubSeqProperties, a + 1 \in Int, a + k - 1 \in Int
  <2>8. c \in Seq(Char)  BY <2>4
  <2>9. g[a + k - 1].open = g[a].open \o u  BY <2>2 DEF GoesOn
  <2>10. g[a + k].given = g[a].given  BY <2>2, <2>5 DEF GoesOn
  <2> HIDE DEF u
  <2>11. g[a].open \o u \in Seq(Char)  BY <1>3, <2>7, ConcatProperties
  <2>12. g[a + k].open = (g[a].open \o u) \o c
    BY <2>4, <2>5, <2>9, <2>11, AppendIsConcat
  <2> DEFINE o == g[a].open
  <2>13. o \in Seq(Char)  BY <1>3
  <2> HIDE DEF c, o
  <2>14. (o \o u) \o c = o \o (u \o c)  BY <2>7, <2>8, <2>13, ConcatAssociative, SMTT(30)
  <2>15. g[a + k].open = g[a].open \o (u \o c)  BY <2>12, <2>14 DEF o
  <2>16. GoesOn(g, t, a, a + k)  BY <2>6, <2>10, <2>15 DEF GoesOn
  <2> QED  BY <2>16
<1>6. b - a \in p => GoesOn(g, t, a, b)  BY <1>1
<1> HIDE DEF p
<1>7. b - a \in 0..(b - a)  BY <1>1
<1>8. b - a \in p  BY <1>1, <1>4, <1>5, <1>7, Reaches
<1> QED  BY <1>6, <1>8

\* The open line has no newline in it.
LEMMA OpenIsOneLine ==
  ASSUME NEW trim \in BOOLEAN, NEW t \in Seq(Char), NEW g, Reads(trim, t, g), NEW n \in 0..Len(t)
  PROVE  Newlines(g[n].open) = {}
<1> DEFINE p == {k \in 0..Len(t) : Newlines(g[k].open) = {}}
<1>1. Len(t) \in Nat  BY LenProperties
<1>2. Newlines(<<>>) = {}  BY DEF Newlines
<1>3. 0 \in p  BY <1>1, <1>2 DEF Reads, Unread
<1>4. ASSUME NEW k \in 1..Len(t), k - 1 \in p PROVE k \in p
  <2>1. k \in 0..Len(t) /\ k - 1 \in 0..Len(t)  BY <1>1
  <2>2. g[k] = ReadChar(trim, g[k - 1], t[k])  BY DEF Reads
  <2>3. CASE t[k] = NL
    <3>1. g[k].open = <<>>  BY <2>2, <2>3 DEF ReadChar
    <3> QED  BY <1>2, <2>1, <3>1
  <2>4. CASE t[k] # NL
    <3> DEFINE o == g[k - 1].open
    <3>1. g[k].open = Append(o, t[k])  BY <2>2, <2>4 DEF ReadChar
    <3>2. o \in Seq(Char)  BY <2>1 DEF Reads, Reading
    <3>3. Newlines(o) = {}  BY <1>4
    <3>4. t[k] \in Char  BY ElementOfSeq
    <3> HIDE DEF o
    <3> DEFINE e == Append(o, t[k])
    <3>5. /\ e \in Seq(Char) /\ Len(e) = Len(o) + 1 /\ Len(o) \in Nat
          /\ \A i \in 1..Len(o) : e[i] = o[i]
          /\ e[Len(o) + 1] = t[k]
      BY <3>2, <3>4, AppendProperties, LenProperties
    <3> HIDE DEF e
    <3>6. DOMAIN e = 1..(Len(o) + 1) /\ DOMAIN o = 1..Len(o)  BY <3>2, <3>5, LenProperties
    <3>7. \A i \in DOMAIN e : e[i] # NL
      <4> TAKE i \in DOMAIN e
      <4>1. CASE i = Len(o) + 1  BY <2>4, <3>5, <4>1
      <4>2. CASE i # Len(o) + 1
        <5>1. i \in 1..Len(o)  BY <3>5, <3>6, <4>2
        <5>2. o[i] # NL  BY <3>3, <3>6, <5>1 DEF Newlines
        <5> QED  BY <3>5, <5>1, <5>2
      <4> QED  BY <4>1, <4>2
    <3>8. Newlines(e) = {}  BY <3>7 DEF Newlines
    <3> QED  BY <2>1, <3>1, <3>8 DEF e
  <2> QED  BY <2>3, <2>4
<1>5. n \in p => Newlines(g[n].open) = {}  OBVIOUS
<1> HIDE DEF p
<1>6. n \in p  BY <1>1, <1>3, <1>4, Reaches
<1> QED  BY <1>5, <1>6

LEMMA JoinAny ==
  ASSUME NEW S, NEW a \in Seq(S), NEW b \in Seq(S), NEW c \in Seq(S)
  PROVE  (a \o b) \o c = a \o (b \o c)
BY ConcatAssociative

LEMMA JoinLines ==
  ASSUME NEW a \in Seq(Seq(Char)), NEW b \in Seq(Seq(Char)), NEW c \in Seq(Seq(Char))
  PROVE  (a \o b) \o c = a \o (b \o c)
<1>1. \A S : \A x, y, z \in Seq(S) : (x \o y) \o z = x \o (y \o z)  BY JoinAny
<1> QED  BY <1>1, SMTT(30)

LEMMA JoinedLines ==
  ASSUME NEW a \in Seq(Seq(Char)), NEW b \in Seq(Seq(Char))
  PROVE  a \o b \in Seq(Seq(Char)) /\ Len(a \o b) = Len(a) + Len(b)
<1> DEFINE S == Seq(Char)
<1>1. a \in Seq(S) /\ b \in Seq(S)  OBVIOUS
<1> HIDE DEF S
<1> QED  BY <1>1, ConcatProperties

\* The steps of Kept through the lines.
Keeps(trim, found, g) ==
  /\ g \in [0..Len(found) -> Seq(Seq(Char))]
  /\ g[0] = <<>>
  /\ \A k \in 1..Len(found) : g[k] = g[k - 1] \o Seen(trim, found[k])

\* What Kept does with a line is what the reference says of it.
KeepLine(trim, before, l) ==
  IF trim /\ Trimmed(l) = <<>> THEN before
  ELSE Append(before, IF trim THEN Trimmed(l) ELSE l)

LEMMA KeepsWhatIsSeen ==
  ASSUME NEW trim \in BOOLEAN, NEW before \in Seq(Seq(Char)), NEW l \in Seq(Char)
  PROVE  /\ KeepLine(trim, before, l) = before \o Seen(trim, l)
         /\ KeepLine(trim, before, l) \in Seq(Seq(Char))
<1>1. Trimmed(l) \in Seq(Char)  BY TrimmedText
<1>2. before \o <<>> = before  BY ConcatEmptySeq
<1>3. Append(before, l) = before \o <<l>>  BY AppendIsConcat
<1>4. Append(before, Trimmed(l)) = before \o <<Trimmed(l)>>  BY <1>1, AppendIsConcat
<1>5. KeepLine(trim, before, l) = before \o Seen(trim, l)
  BY <1>2, <1>3, <1>4 DEF KeepLine, Seen
<1>6. Seen(trim, l) \in Seq(Seq(Char))  BY SeenLines
<1>7. before \o Seen(trim, l) \in Seq(Seq(Char))  BY <1>6, ConcatProperties
<1> QED  BY <1>5, <1>7

LEMMA KeptTakesSteps ==
  ASSUME NEW trim \in BOOLEAN, NEW found \in Seq(Seq(Char))
  PROVE  \E g : Keeps(trim, found, g) /\ Kept(trim, found) = g[Len(found)]
<1> DEFINE N == Len(found)
           Lines == Seq(Seq(Char))
           F == [p \in (1..N) \X Lines |-> KeepLine(trim, p[2], found[p[1]])]
           Eq(g) == g = [k \in 0..N |-> IF k = 0 THEN <<>>
                                        ELSE IF trim /\ Trimmed(found[k]) = <<>> THEN g[k - 1]
                                        ELSE Append(g[k - 1], IF trim THEN Trimmed(found[k])
                                                              ELSE found[k])]
<1>1. N \in Nat  BY LenProperties
<1>2. <<>> \in Lines  OBVIOUS
<1>3. F \in [(1..N) \X Lines -> Lines]
  <2> SUFFICES ASSUME NEW p \in (1..N) \X Lines PROVE KeepLine(trim, p[2], found[p[1]]) \in Lines
    OBVIOUS
  <2>1. p[1] \in 1..Len(found) /\ p[2] \in Lines  OBVIOUS
  <2>2. found[p[1]] \in Seq(Char)  BY <2>1, ElementOfSeq
  <2> QED  BY <2>1, <2>2, KeepsWhatIsSeen
<1>4. \A i \in 1..N, r \in Lines : F[<<i, r>>] = KeepLine(trim, r, found[i])
  <2> TAKE i \in 1..N, r \in Lines
  <2>1. <<i, r>> \in (1..N) \X Lines /\ <<i, r>>[1] = i /\ <<i, r>>[2] = r  OBVIOUS
  <2> QED  BY <2>1
<1>5. \A i \in 1..N : found[i] \in Seq(Char)  BY ElementOfSeq
<1>6. \A g : Eq(g) <=> g = [k \in 0..N |-> IF k = 0 THEN <<>> ELSE KeepLine(trim, g[k - 1],
        found[k])]
  BY DEF KeepLine
<1> HIDE DEF F, N, Lines
<1>7. PICK g : Iteration(N, Lines, <<>>, F, g)  BY <1>1, <1>2, <1>3, Iterates
<1>8. ASSUME NEW n \in 0..N, n # 0 PROVE g[n] = KeepLine(trim, g[n - 1], found[n])
  <2>1. n \in 1..N /\ n - 1 \in 0..N  BY <1>1, <1>8
  <2>2. g[n - 1] \in Lines  BY <1>7, <2>1 DEF Iteration
  <2>3. g[n] = F[<<n, g[n - 1]>>]  BY <1>7, <2>1 DEF Iteration
  <2> QED  BY <1>4, <2>1, <2>2, <2>3
<1>9. g = [k \in 0..N |-> IF k = 0 THEN <<>> ELSE KeepLine(trim, g[k - 1], found[k])]
  BY <1>7, <1>8 DEF Iteration
<1>10. Eq(g)  BY <1>6, <1>9
<1> DEFINE h == CHOOSE f : Eq(f)
<1>11. Eq(h)  BY <1>10
<1>12. Kept(trim, found) = h[N]  BY DEF Kept, N
<1> HIDE DEF h
<1>13. h = [k \in 0..N |-> IF k = 0 THEN <<>> ELSE KeepLine(trim, h[k - 1], found[k])]
  BY <1>6, <1>11
<1> HIDE DEF Eq
<1>14. h[0] = <<>>  BY <1>1, <1>13
<1>15. ASSUME NEW k \in 1..N PROVE h[k] = KeepLine(trim, h[k - 1], found[k])
  <2>1. k \in 0..N /\ k # 0  BY <1>1
  <2> QED  BY <1>13, <2>1
<1>16. ASSUME NEW n \in 0..N PROVE h[n] \in Lines
  <2> DEFINE p == {m \in 0..N : h[m] \in Lines}
  <2>1. 0 \in p  BY <1>1, <1>2, <1>14
  <2>2. ASSUME NEW m \in 1..N, m - 1 \in p PROVE m \in p
    <3>1. m \in 0..N  BY <1>1
    <3>2. h[m] \in Lines  BY <1>5, <1>15, <2>2, KeepsWhatIsSeen, SMTT(30) DEF Lines
    <3> QED  BY <3>1, <3>2
  <2> HIDE DEF p
  <2>3. n \in p  BY <1>1, <2>1, <2>2, Reaches
  <2> QED  BY <2>3 DEF p
<1>17. h \in [0..N -> Lines]  BY <1>13, <1>16
<1>18. ASSUME NEW k \in 1..N PROVE h[k] = h[k - 1] \o Seen(trim, found[k])
  <2>1. k - 1 \in 0..N  BY <1>1
  <2>2. h[k - 1] \in Lines  BY <1>16, <2>1
  <2>3. h[k] = KeepLine(trim, h[k - 1], found[k])  BY <1>15
  <2> DEFINE before == h[k - 1]
             l == found[k]
  <2>4. before \in Seq(Seq(Char)) /\ l \in Seq(Char)  BY <1>5, <2>2 DEF Lines
  <2> HIDE DEF before, l
  <2>5. KeepLine(trim, before, l) = before \o Seen(trim, l)  BY <2>4, KeepsWhatIsSeen
  <2> QED  BY <2>3, <2>5 DEF before, l
<1>19. Keeps(trim, found, h)  BY <1>14, <1>17, <1>18 DEF Keeps, N, Lines
<1> QED  BY <1>12, <1>19 DEF N

LEMMA KeptLines ==
  ASSUME NEW trim \in BOOLEAN, NEW found \in Seq(Seq(Char))
  PROVE  Kept(trim, found) \in Seq(Seq(Char))
<1>1. PICK g : Keeps(trim, found, g) /\ Kept(trim, found) = g[Len(found)]  BY KeptTakesSteps
<1>2. Len(found) \in Nat  BY LenProperties
<1> QED  BY <1>1, <1>2 DEF Keeps

LEMMA KeptOne ==
  ASSUME NEW trim \in BOOLEAN, NEW x \in Seq(Char)
  PROVE  Kept(trim, <<x>>) = Seen(trim, x)
<1> DEFINE found == <<x>>
<1>1. found \in Seq(Seq(Char)) /\ Len(found) = 1 /\ found[1] = x  OBVIOUS
<1> HIDE DEF found
<1>2. PICK g : Keeps(trim, found, g) /\ Kept(trim, found) = g[Len(found)]
  BY <1>1, KeptTakesSteps
<1>3. g[1] = <<>> \o Seen(trim, x)
  <2>1. g[1] = g[1 - 1] \o Seen(trim, found[1])  BY <1>1, <1>2 DEF Keeps
  <2>2. g[0] = <<>>  BY <1>2 DEF Keeps
  <2>3. 1 - 1 = 0  OBVIOUS
  <2> QED  BY <1>1, <2>1, <2>2, <2>3
<1>4. Seen(trim, x) \in Seq(Seq(Char))  BY SeenLines
<1>5. <<>> \o Seen(trim, x) = Seen(trim, x)  BY <1>4, ConcatEmptySeq
<1> QED  BY <1>1, <1>2, <1>3, <1>5 DEF found

LEMMA KeptMore ==
  ASSUME NEW trim \in BOOLEAN, NEW x \in Seq(Char), NEW p \in Seq(Seq(Char))
  PROVE  Kept(trim, <<x>> \o p) = Seen(trim, x) \o Kept(trim, p)
<1> DEFINE found == <<x>> \o p
           first == <<x>>
           seen == Seen(trim, x)
<1>1. first \in Seq(Seq(Char)) /\ Len(first) = 1 /\ first[1] = x  OBVIOUS
<1>2. Len(p) \in Nat /\ \A k \in 1..Len(p) : p[k] \in Seq(Char)
  BY LenProperties, ElementOfSeq
<1> HIDE DEF first
<1>3. /\ found \in Seq(Seq(Char)) /\ Len(found) = 1 + Len(p)
      /\ \A i \in 1..1 + Len(p) : found[i] = IF i <= 1 THEN first[i] ELSE p[i - 1]
  BY <1>1, ConcatProperties DEF first
<1> HIDE DEF found
<1>4. found[1] = x  BY <1>1, <1>2, <1>3
<1>5. ASSUME NEW k \in 1..Len(p) PROVE found[k + 1] = p[k]
  <2> PICK m : m = k + 1  OBVIOUS
  <2>1. m \in 1..1 + Len(p) /\ ~(m <= 1) /\ m - 1 = k  BY <1>2
  <2>2. found[m] = p[m - 1]  BY <1>3, <2>1
  <2> QED  BY <2>1, <2>2
<1>6. PICK g : Keeps(trim, found, g) /\ Kept(trim, found) = g[Len(found)]
  BY <1>3, KeptTakesSteps
<1>7. PICK h : Keeps(trim, p, h) /\ Kept(trim, p) = h[Len(p)]
  BY KeptTakesSteps
<1>8. seen \in Seq(Seq(Char))  BY SeenLines
<1>9. g[0 + 1] = seen \o h[0]
  <2>1. 1 \in 1..Len(found)  BY <1>2, <1>3
  <2>2. g[1] = g[1 - 1] \o seen  BY <1>4, <1>6, <2>1 DEF Keeps
  <2>3. g[0] = <<>> /\ h[0] = <<>>  BY <1>6, <1>7 DEF Keeps
  <2> HIDE DEF seen
  <2>4. <<>> \o seen = seen /\ seen \o <<>> = seen  BY <1>8, ConcatEmptySeq
  <2>5. 1 - 1 = 0 /\ 0 + 1 = 1  OBVIOUS
  <2>6. g[1] = <<>> \o seen  BY <2>2, <2>3, <2>5
  <2> QED  BY <2>3, <2>4, <2>5, <2>6
<1> DEFINE q == {k \in 0..Len(p) : g[k + 1] = seen \o h[k]}
<1>10. 0 \in q  BY <1>2, <1>9
<1>11. ASSUME NEW k \in 1..Len(p), k - 1 \in q PROVE k \in q
  <2>1. k + 1 \in 1..Len(found) /\ k + 1 - 1 = k /\ k - 1 + 1 = k  BY <1>2, <1>3
  <2>2. found[k + 1] = p[k]  BY <1>5
  <2>3. PICK j \in 1..Len(found) : j = k + 1  BY <2>1
  <2>4. g[j] = g[j - 1] \o Seen(trim, found[j])  BY <1>6 DEF Keeps
  <2>5. j - 1 = k  BY <2>3
  <2>6. g[k + 1] = g[k] \o Seen(trim, p[k])  BY <2>2, <2>3, <2>4, <2>5
  <2>7. h[k] = h[k - 1] \o Seen(trim, p[k])  BY <1>7 DEF Keeps
  <2>8. g[k] = seen \o h[k - 1]  BY <1>11, <2>1
  <2> DEFINE a == h[k - 1]
             b == Seen(trim, p[k])
  <2>9. k - 1 \in 0..Len(p)  BY <1>2
  <2>10. a \in Seq(Seq(Char))  BY <1>7, <2>9 DEF Keeps
  <2>11. b \in Seq(Seq(Char))  BY <1>2, SeenLines
  <2> HIDE DEF a, b, seen
  <2>12. (seen \o a) \o b = seen \o (a \o b)  BY <1>8, <2>10, <2>11, JoinLines
  <2>13. g[k + 1] = seen \o h[k]  BY <2>6, <2>7, <2>8, <2>12 DEF a, b
  <2> QED  BY <1>2, <2>13
<1>12. Len(p) \in q => g[Len(p) + 1] = seen \o h[Len(p)]  OBVIOUS
<1> HIDE DEF q
<1>13. Len(p) \in 0..Len(p)  BY <1>2
<1>14. Len(p) \in q  BY <1>2, <1>10, <1>11, <1>13, Reaches
<1>15. Len(found) = Len(p) + 1  BY <1>2, <1>3
<1> QED  BY <1>6, <1>7, <1>12, <1>14, <1>15 DEF found, seen

\* The pieces of t from i on, given those from further on.
Cut(t, i, g) ==
  LET ahead == {j \in Newlines(t) : j >= i}
  IN  IF ahead = {} THEN <<SubSeq(t, i, Len(t))>>
      ELSE <<SubSeq(t, i, Min(ahead) - 1)>> \o g[Min(ahead) + 1]

SomeLines == Seq(Seq(Char)) \ {<<>>}

\* The steps of Pieces, from the end of the text.
Cuts(t, a, g) ==
  /\ g \in [a..Len(t) + 1 -> SomeLines]
  /\ \A i \in a..Len(t) + 1 : g[i] = Cut(t, i, g)

LEMMA PartOfText ==
  ASSUME NEW t \in Seq(Char), NEW a \in 1..Len(t) + 1, NEW b \in 0..Len(t)
  PROVE  SubSeq(t, a, b) \in Seq(Char)
<1>1. Len(t) \in Nat /\ a \in Int /\ b \in Int  BY LenProperties
<1>2. \A i \in a..b : i \in 1..Len(t)  BY <1>1
<1>3. \A i \in a..b : t[i] \in Char  BY <1>2, ElementOfSeq
<1> QED  BY <1>1, <1>3, SubSeqProperties

\* The next newline.
LEMMA NextNewline ==
  ASSUME NEW t \in Seq(Char), NEW i \in 1..Len(t) + 1,
         NEW ahead, ahead = {j \in Newlines(t) : j >= i}, ahead # {}
  PROVE  /\ Min(ahead) \in i..Len(t) /\ t[Min(ahead)] = NL
         /\ \A j \in i..Min(ahead) - 1 : t[j] # NL
<1>1. Len(t) \in Nat /\ DOMAIN t = 1..Len(t)  BY LenProperties
<1>2. \A j : j \in ahead <=> j \in 1..Len(t) /\ t[j] = NL /\ j >= i  BY <1>1 DEF Newlines
<1>3. ahead \in SUBSET Nat  BY <1>1, <1>2
<1>4. Min(ahead) \in ahead /\ \A o \in ahead : Min(ahead) <= o  BY <1>3, LeastOf
<1> DEFINE m == Min(ahead)
<1> HIDE DEF m
<1>5. m \in 1..Len(t) /\ t[m] = NL /\ m >= i  BY <1>2, <1>4 DEF m
<1>6. m \in i..Len(t)  BY <1>1, <1>5
<1>7. ASSUME NEW j \in i..m - 1 PROVE t[j] # NL
  <2>1. j \in 1..Len(t) /\ j >= i /\ ~(m <= j)  BY <1>1, <1>5
  <2>2. j \notin ahead  BY <1>4, <2>1 DEF m
  <2> QED  BY <1>2, <2>1, <2>2
<1> QED  BY <1>5, <1>6, <1>7 DEF m

LEMMA CutType ==
  ASSUME NEW t \in Seq(Char), NEW i \in 1..Len(t) + 1, NEW g,
         \A j \in i + 1..Len(t) + 1 : g[j] \in SomeLines
  PROVE  Cut(t, i, g) \in SomeLines
<1> DEFINE ahead == {j \in Newlines(t) : j >= i}
           m == Min(ahead)
<1>1. Len(t) \in Nat  BY LenProperties
<1>2. CASE ahead = {}
  <2>1. SubSeq(t, i, Len(t)) \in Seq(Char)  BY <1>1, PartOfText
  <2>2. Cut(t, i, g) = <<SubSeq(t, i, Len(t))>>  BY <1>2 DEF Cut
  <2> QED  BY <2>1, <2>2 DEF SomeLines
<1>3. CASE ahead # {}
  <2>1. m \in i..Len(t)  BY <1>3, NextNewline
  <2>2. m - 1 \in 0..Len(t) /\ m + 1 \in i + 1..Len(t) + 1  BY <1>1, <2>1
  <2> DEFINE u == <<SubSeq(t, i, m - 1)>>
             v == g[m + 1]
             w == u \o v
  <2>3. Cut(t, i, g) = w  BY <1>3 DEF Cut
  <2> HIDE DEF m
  <2>4. SubSeq(t, i, m - 1) \in Seq(Char)  BY <2>2, PartOfText
  <2>5. u \in Seq(Seq(Char)) /\ Len(u) = 1  BY <2>4
  <2>6. v \in Seq(Seq(Char))  BY <2>2 DEF SomeLines
  <2> HIDE DEF u, v
  <2>7. w \in Seq(Seq(Char)) /\ Len(w) = 1 + Len(v)  BY <2>5, <2>6, JoinedLines
  <2>8. Len(v) \in Nat  BY <2>6, LenProperties
  <2> HIDE DEF w
  <2>9. w # <<>>
    <3> SUFFICES ASSUME w = <<>> PROVE FALSE  OBVIOUS
    <3>1. Len(w) = 0  OBVIOUS
    <3> QED  BY <2>7, <2>8, <3>1
  <2> QED  BY <2>3, <2>7, <2>9 DEF SomeLines
<1> QED  BY <1>2, <1>3

LEMMA CutDepends ==
  ASSUME NEW t \in Seq(Char), NEW i \in 1..Len(t) + 1, NEW g, NEW h,
         \A j \in i + 1..Len(t) + 1 : g[j] = h[j]
  PROVE  Cut(t, i, g) = Cut(t, i, h)
<1> DEFINE ahead == {j \in Newlines(t) : j >= i}
           m == Min(ahead)
<1>1. Len(t) \in Nat  BY LenProperties
<1>2. CASE ahead = {}  BY <1>2 DEF Cut
<1>3. CASE ahead # {}
  <2>1. m \in i..Len(t)  BY <1>3, NextNewline
  <2>2. m + 1 \in i + 1..Len(t) + 1  BY <1>1, <2>1
  <2>3. g[m + 1] = h[m + 1]  BY <2>2
  <2> QED  BY <1>3, <2>3 DEF Cut
<1> QED  BY <1>2, <1>3

LEMMA PiecesTakesSteps ==
  ASSUME NEW t \in Seq(Char)
  PROVE  \E g : Cuts(t, 1, g) /\ Pieces(t) = g[1]
<1> DEFINE N == Len(t)
           Eq(g) == g = [i \in 1..N + 1 |->
                          LET ahead == {j \in Newlines(t) : j >= i}
                          IN  IF ahead = {} THEN <<SubSeq(t, i, Len(t))>>
                              ELSE <<SubSeq(t, i, Min(ahead) - 1)>> \o g[Min(ahead) + 1]]
           p == {m \in 0..N : \E g : Cuts(t, N + 1 - m, g)}
<1>1. N \in Nat  BY LenProperties
<1>2. \A g : Eq(g) <=> g = [i \in 1..N + 1 |-> Cut(t, i, g)]  BY DEF Cut
<1> HIDE DEF Eq
<1>3. 0 \in p
  <2> DEFINE g == [i \in N + 1..N + 1 |-> Cut(t, N + 1, t)]
  <2>1. N + 1 \in 1..Len(t) + 1 /\ N + 1 - 0 = N + 1 /\ 0 \in 0..N  BY <1>1
  <2>2. \A i \in N + 1..N + 1 : i = N + 1  BY <1>1
  <2>3. \A j \in N + 1 + 1..Len(t) + 1 : FALSE  BY <1>1
  <2>4. Cut(t, N + 1, t) \in SomeLines  BY <2>1, <2>3, CutType
  <2>5. Cut(t, N + 1, t) = Cut(t, N + 1, g)  BY <2>1, <2>3, CutDepends
  <2>6. g \in [N + 1..Len(t) + 1 -> SomeLines]  BY <2>4
  <2>7. ASSUME NEW i \in N + 1..Len(t) + 1 PROVE g[i] = Cut(t, i, g)  BY <2>2, <2>5
  <2> HIDE DEF g, N
  <2>8. Cuts(t, N + 1, g)  BY <2>6, <2>7 DEF Cuts, N
  <2> QED  BY <2>1, <2>8
<1>4. ASSUME NEW m \in 1..N, m - 1 \in p PROVE m \in p
  <2> DEFINE a == N + 1 - m
  <2>1. /\ N + 1 - (m - 1) = a + 1 /\ a \in 1..N /\ a \in 1..Len(t) + 1 /\ m \in 0..N
        /\ \A i \in a..Len(t) + 1 : i \in 1..Len(t) + 1 /\ (i # a => i \in a + 1..Len(t) + 1)
    BY <1>1
  <2>2. PICK g : Cuts(t, a + 1, g)  BY <1>4, <2>1
  <2> DEFINE h == [i \in a..N + 1 |-> IF i = a THEN Cut(t, a, g) ELSE g[i]]
  <2>3. /\ g \in [a + 1..Len(t) + 1 -> SomeLines]
        /\ \A i \in a + 1..Len(t) + 1 : g[i] = Cut(t, i, g)
    BY <2>2 DEF Cuts
  <2>4. Cut(t, a, g) \in SomeLines  BY <2>1, <2>3, CutType
  <2>5. h \in [a..Len(t) + 1 -> SomeLines]
    <3> SUFFICES ASSUME NEW i \in a..Len(t) + 1 PROVE h[i] \in SomeLines
      OBVIOUS
    <3> QED  BY <2>1, <2>3, <2>4
  <2>6. ASSUME NEW i \in a..Len(t) + 1 PROVE h[i] = Cut(t, i, h)
    <3>1. \A j \in i + 1..Len(t) + 1 : j \in a..N + 1 /\ j # a  BY <1>1, <2>1
    <3>2. \A j \in i + 1..Len(t) + 1 : g[j] = h[j]  BY <3>1
    <3>3. i \in 1..Len(t) + 1  BY <2>1
    <3>4. h[i] = Cut(t, i, g)  BY <2>1, <2>3
    <3> HIDE DEF h, a, N
    <3>5. Cut(t, i, g) = Cut(t, i, h)  BY <3>2, <3>3, CutDepends
    <3> QED  BY <3>4, <3>5
  <2> HIDE DEF h
  <2>7. Cuts(t, a, h)  BY <2>5, <2>6 DEF Cuts
  <2> QED  BY <2>1, <2>7
<1> HIDE DEF p
<1>5. N \in 0..N /\ N + 1 - N = 1  BY <1>1
<1>6. N \in p  BY <1>1, <1>3, <1>4, <1>5, Reaches
<1>7. PICK g : Cuts(t, 1, g)
  <2>1. \E g : Cuts(t, N + 1 - N, g)  BY <1>6 DEF p
  <2> QED  BY <1>5, <2>1
<1>8. g = [i \in 1..N + 1 |-> Cut(t, i, g)]  BY <1>7 DEF Cuts
<1>9. Eq(g)  BY <1>2, <1>8
<1> DEFINE h == CHOOSE f : Eq(f)
<1>10. Eq(h)  BY <1>9
<1>11. Pieces(t) = h[1]  BY DEF Pieces, Eq, N
<1> HIDE DEF h
<1>12. h = [i \in 1..N + 1 |-> Cut(t, i, h)]  BY <1>2, <1>10
<1> DEFINE q == {m \in 0..N : \A i \in N + 1 - m..N + 1 : h[i] \in SomeLines}
<1>13. 0 \in q
  <2>1. N + 1 \in 1..Len(t) + 1 /\ N + 1 - 0 = N + 1 /\ 0 \in 0..N  BY <1>1
  <2>2. \A j \in N + 1 + 1..Len(t) + 1 : FALSE  BY <1>1
  <2>3. Cut(t, N + 1, h) \in SomeLines  BY <2>1, <2>2, CutType
  <2>4. h[N + 1] \in SomeLines  BY <1>12, <2>1, <2>3
  <2>5. \A i \in N + 1..N + 1 : i = N + 1  BY <1>1
  <2> QED  BY <2>1, <2>4, <2>5
<1>14. ASSUME NEW m \in 1..N, m - 1 \in q PROVE m \in q
  <2> DEFINE a == N + 1 - m
  <2>1. /\ N + 1 - (m - 1) = a + 1 /\ a \in 1..Len(t) + 1 /\ m \in 0..N
        /\ \A i \in a..N + 1 : i # a => i \in a + 1..N + 1
    BY <1>1
  <2>2. \A j \in a + 1..N + 1 : h[j] \in SomeLines  BY <1>14, <2>1
  <2>3. Cut(t, a, h) \in SomeLines  BY <2>1, <2>2, CutType
  <2>4. h[a] \in SomeLines  BY <1>12, <2>1, <2>3
  <2>5. \A i \in a..N + 1 : h[i] \in SomeLines  BY <2>1, <2>2, <2>4
  <2> QED  BY <2>1, <2>5
<1> HIDE DEF q
<1>15. N \in q  BY <1>1, <1>5, <1>13, <1>14, Reaches
<1>16. \A i \in 1..N + 1 : h[i] \in SomeLines
  <2>1. \A i \in N + 1 - N..N + 1 : h[i] \in SomeLines  BY <1>15 DEF q
  <2> QED  BY <1>5, <2>1
<1>17. Cuts(t, 1, h)  BY <1>12, <1>16 DEF Cuts
<1> QED  BY <1>11, <1>17

\* The first piece continues the line in the buffer.
With(old, pieces) == [pieces EXCEPT ![1] = old \o @]

LEMMA WithNothing == ASSUME NEW p \in SomeLines PROVE With(<<>>, p) = p
<1>1. p \in Seq(Seq(Char)) /\ p # <<>> /\ Len(p) \in Nat /\ DOMAIN p = 1..Len(p)
  BY LenProperties DEF SomeLines
<1>2. Len(p) # 0  BY <1>1, EmptySeq
<1>3. p[1] \in Seq(Char)  BY <1>1, <1>2, ElementOfSeq
<1>4. <<>> \o p[1] = p[1]  BY <1>3, ConcatEmptySeq
<1>5. [p EXCEPT ![1] = p[1]] = p  BY <1>1
<1> QED  BY <1>4, <1>5 DEF With

LEMMA WithOne ==
  ASSUME NEW o \in Seq(Char), NEW l \in Seq(Char)
  PROVE  With(o, <<l>>) = <<o \o l>> /\ o \o l \in Seq(Char)
<1> DEFINE j == o \o l
<1>1. j \in Seq(Char)  BY ConcatProperties
<1>2. With(o, <<l>>) = [<<l>> EXCEPT ![1] = j]  BY DEF With
<1> HIDE DEF j
<1>3. [<<l>> EXCEPT ![1] = j] = <<j>>  OBVIOUS
<1> QED  BY <1>1, <1>2, <1>3 DEF j

LEMMA WithMore ==
  ASSUME NEW o \in Seq(Char), NEW l \in Seq(Char), NEW p \in Seq(Seq(Char))
  PROVE  With(o, <<l>> \o p) = <<o \o l>> \o p
<1> DEFINE j == o \o l
           u == <<l>>
           v == <<j>>
           all == u \o p
           rest == v \o p
<1>1. j \in Seq(Char)  BY ConcatProperties
<1>2. With(o, all) = [all EXCEPT ![1] = o \o all[1]]  BY DEF With
<1> HIDE DEF j
<1>3. u \in Seq(Seq(Char)) /\ Len(u) = 1 /\ u[1] = l  OBVIOUS
<1>4. v \in Seq(Seq(Char)) /\ Len(v) = 1 /\ v[1] = j  BY <1>1
<1> HIDE DEF u, v
<1>5. /\ all \in Seq(Seq(Char)) /\ Len(all) = Len(u) + Len(p)
      /\ \A i \in 1..Len(u) + Len(p) : all[i] = IF i <= Len(u) THEN u[i] ELSE p[i - Len(u)]
  BY <1>3, ConcatProperties
<1>6. /\ rest \in Seq(Seq(Char)) /\ Len(rest) = Len(v) + Len(p)
      /\ \A i \in 1..Len(v) + Len(p) : rest[i] = IF i <= Len(v) THEN v[i] ELSE p[i - Len(v)]
  BY <1>4, ConcatProperties
<1> HIDE DEF all, rest
<1>7. Len(p) \in Nat  BY LenProperties
<1>8. 1 \in 1..Len(u) + Len(p) /\ 1 <= Len(u)  BY <1>3, <1>7
<1>9. all[1] = l  BY <1>3, <1>5, <1>8
<1>10. 1 \in 1..Len(all)  BY <1>5, <1>8
<1> DEFINE w == [all EXCEPT ![1] = j]
<1>11. /\ w \in Seq(Seq(Char)) /\ Len(w) = Len(all)
       /\ \A i \in 1..Len(all) : w[i] = IF i = 1 THEN j ELSE all[i]
  BY <1>1, <1>5, <1>10, ExceptSeq
<1>12. With(o, all) = w  BY <1>2, <1>9 DEF j
<1> HIDE DEF w
<1>13. ASSUME NEW i \in 1..Len(w) PROVE w[i] = rest[i]
  <2>1. i \in 1..Len(all) /\ i \in 1..Len(u) + Len(p) /\ i \in 1..Len(v) + Len(p)
    BY <1>3, <1>4, <1>5, <1>11
  <2>2. CASE i = 1
    <3>1. i <= Len(v)  BY <1>4, <2>2
    <3>2. rest[i] = v[i]  BY <1>6, <2>1, <3>1
    <3> QED  BY <1>4, <1>11, <2>1, <2>2, <3>2
  <2>3. CASE i # 1
    <3>1. ~(i <= Len(u)) /\ ~(i <= Len(v))  BY <1>3, <1>4, <1>7, <2>1, <2>3
    <3>2. all[i] = p[i - Len(u)] /\ rest[i] = p[i - Len(v)]  BY <1>5, <1>6, <2>1, <3>1
    <3>3. i - Len(u) = i - Len(v)  BY <1>3, <1>4
    <3> QED  BY <1>11, <2>1, <2>3, <3>2, <3>3
  <2> QED  BY <2>2, <2>3
<1>14. Len(w) = Len(rest)  BY <1>3, <1>4, <1>5, <1>6, <1>11
<1>15. w = rest  BY <1>6, <1>11, <1>13, <1>14, SeqEqual
<1> QED  BY <1>12, <1>15 DEF all, rest, u, v, j

\* A newline ends the line that is open.
Ends(trim, g, t, a, b) ==
  /\ g[b + 1].given = g[a].given \o Seen(trim, g[a].open \o SubSeq(t, a + 1, b))
  /\ g[b + 1].open = <<>>

LEMMA LineEnds ==
  ASSUME NEW trim \in BOOLEAN, NEW t \in Seq(Char), NEW g, Reads(trim, t, g),
         NEW a \in 0..Len(t), NEW b \in a..Len(t) - 1,
         \A i \in (a + 1)..b : t[i] # NL, t[b + 1] = NL
  PROVE  Ends(trim, g, t, a, b)
<1>1. Len(t) \in Nat /\ b \in a..Len(t) /\ b + 1 \in 1..Len(t)  BY LenProperties
<1>2. b \in a..Len(t)  BY <1>1
<1>3. g[b].given = g[a].given /\ g[b].open = g[a].open \o SubSeq(t, a + 1, b)
  <2>1. GoesOn(g, t, a, b)  BY <1>2, LineGoesOn
  <2> QED  BY <2>1 DEF GoesOn
<1>4. PICK j \in 1..Len(t) : j = b + 1  BY <1>1
<1>5. g[j] = ReadChar(trim, g[j - 1], t[j])  BY DEF Reads
<1>6. j - 1 = b /\ t[j] = NL  BY <1>1, <1>4
<1> DEFINE w == g[b].given \o Seen(trim, g[b].open)
<1>7. g[j] = [given |-> w, open |-> <<>>]  BY <1>5, <1>6 DEF ReadChar
<1>8. w = g[a].given \o Seen(trim, g[a].open \o SubSeq(t, a + 1, b))  BY <1>3
<1> HIDE DEF w
<1>9. g[b + 1].given = w /\ g[b + 1].open = <<>>  BY <1>4, <1>7
<1> QED  BY <1>8, <1>9 DEF Ends

LEMMA PartOfPart ==
  ASSUME NEW t \in Seq(Char), NEW a \in 0..Len(t), NEW n \in 0..Len(t) - a,
         NEW i \in 1..n + 1, NEW e \in i - 1..n
  PROVE  SubSeq(SubSeq(t, a + 1, a + n), i, e) = SubSeq(t, a + i, a + e)
<1>1. Len(t) \in Nat /\ n \in Nat /\ i \in Nat /\ e \in Nat  BY LenProperties
<1>2. CASE e = i - 1
  <2>1. SubSeq(SubSeq(t, a + 1, a + n), i, e) = <<>>  BY <1>1, <1>2, SubSeqEmpty, e < i
  <2>2. SubSeq(t, a + i, a + e) = <<>>
    BY <1>1, <1>2, SubSeqEmpty, a + i \in Int, a + e \in Int, a + e < a + i
  <2> QED  BY <2>1, <2>2
<1>3. CASE e >= i
  <2>1. /\ a + 1 \in 1..Len(t) /\ a + n \in 1..Len(t)
        /\ i \in 1..(a + n) - (a + 1) + 1 /\ e \in 1..(a + n) - (a + 1) + 1
    BY <1>1, <1>3
  <2>2. SubSeq(SubSeq(t, a + 1, a + n), i, e) = SubSeq(t, (a + 1) + i - 1, (a + 1) + e - 1)
    BY <2>1, SubSeqOfSubSeq
  <2>3. (a + 1) + i - 1 = a + i /\ (a + 1) + e - 1 = a + e  BY <1>1
  <2> QED  BY <2>2, <2>3
<1> QED  BY <1>1, <1>2, <1>3

\* What the pieces from i on have to be for the reading to come to the same: the
\* data that are cut follow position a and end before the newline at a + m.
Agrees(trim, g, a, m, c, i) ==
  g[a + m].given = g[a + i - 1].given \o Kept(trim, With(g[a + i - 1].open, c[i]))

LEMMA LoopBody ==
  ASSUME NEW trim \in BOOLEAN, NEW t \in Seq(Char), NEW g, Reads(trim, t, g),
         NEW a \in 0..Len(t), NEW m \in 1..Len(t) - a, t[a + m] = NL,
         NEW d, d = SubSeq(t, a + 1, a + (m - 1)), NEW c, Cuts(d, 1, c), NEW i \in 1..m,
         \A k \in i + 1..m : Agrees(trim, g, a, m, c, k)
  PROVE  Agrees(trim, g, a, m, c, i)
<1> DEFINE x == a + i - 1
           o == g[x].open
           before == g[x].given
           ahead == {j \in Newlines(d) : j >= i}
<1>1. Len(t) \in Nat /\ m \in Nat /\ m - 1 \in 0..Len(t) - a /\ x \in 0..Len(t)  BY LenProperties
<1>2. d \in Seq(Char) /\ Len(d) = m - 1 /\ \A j \in 1..m - 1 : d[j] = t[a + j]
  <2>1. \A j \in a + 1..a + (m - 1) : j \in 1..Len(t)  BY <1>1
  <2>2. \A j \in a + 1..a + (m - 1) : t[j] \in Char  BY <2>1, ElementOfSeq
  <2>3. /\ d \in Seq(Char)
        /\ Len(d) = IF a + 1 <= a + (m - 1) THEN a + (m - 1) - (a + 1) + 1 ELSE 0
        /\ \A j \in 1..a + (m - 1) - (a + 1) + 1 : d[j] = t[a + 1 + j - 1]
    BY <1>1, <2>2, SubSeqProperties, a + 1 \in Int, a + (m - 1) \in Int
  <2>4. Len(d) = m - 1
    <3>1. CASE m = 1
      <4>1. ~(a + 1 <= a + (m - 1))  BY <1>1, <3>1
      <4> QED  BY <2>3, <3>1, <4>1
    <3>2. CASE m # 1
      <4>1. a + 1 <= a + (m - 1) /\ a + (m - 1) - (a + 1) + 1 = m - 1  BY <1>1, <3>2
      <4> QED  BY <2>3, <4>1
    <3> QED  BY <3>1, <3>2
  <2>5. ASSUME NEW j \in 1..m - 1 PROVE d[j] = t[a + j]
    <3>1. j \in 1..a + (m - 1) - (a + 1) + 1 /\ a + 1 + j - 1 = a + j  BY <1>1
    <3> QED  BY <2>3, <3>1
  <2> QED  BY <2>3, <2>4, <2>5
<1>3. DOMAIN d = 1..m - 1 /\ i \in 1..Len(d) + 1  BY <1>1, <1>2, LenProperties
<1>4. g[x] \in Reading  BY <1>1 DEF Reads
<1>5. o \in Seq(Char) /\ before \in Seq(Seq(Char))  BY <1>4 DEF Reading
<1>6. c[i] = Cut(d, i, c) /\ \A k \in 1..Len(d) + 1 : c[k] \in SomeLines
  BY <1>3 DEF Cuts
<1>7. \A e \in i - 1..m - 1 : SubSeq(d, i, e) = SubSeq(t, a + i, a + e)
  <2>1. i \in 1..(m - 1) + 1  BY <1>1
  <2> QED  BY <1>1, <2>1, PartOfPart
<1>8. CASE ahead = {}
  <2> DEFINE l == SubSeq(t, a + i, a + (m - 1))
  <2>1. m - 1 \in i - 1..m - 1  BY <1>1
  <2>2. c[i] = <<l>>  BY <1>2, <1>6, <1>7, <1>8, <2>1 DEF Cut
  <2>3. l \in Seq(Char)
    <3>1. a + i \in 1..Len(t) + 1 /\ a + (m - 1) \in 0..Len(t)  BY <1>1
    <3> QED  BY <3>1, PartOfText
  <2>4. \A j \in i..m - 1 : d[j] # NL
    <3> TAKE j \in i..m - 1
    <3>1. j \in DOMAIN d /\ j \notin ahead /\ j >= i  BY <1>1, <1>3, <1>8
    <3> QED  BY <3>1 DEF Newlines
  <2> DEFINE b == a + (m - 1)
  <2>5. ASSUME NEW j \in (x + 1)..b PROVE t[j] # NL
    <3>1. j - a \in i..m - 1 /\ j - a \in 1..m - 1 /\ a + (j - a) = j  BY <1>1
    <3> QED  BY <1>2, <2>4, <3>1
  <2>6. b \in x..Len(t) - 1 /\ b + 1 = a + m /\ x + 1 = a + i  BY <1>1
  <2>7. t[b + 1] = NL  BY <2>6
  <2>8. x \in 0..Len(t) /\ b \in x..Len(t) - 1  BY <1>1, <2>6
  <2>9. g[b + 1].given = before \o Seen(trim, o \o SubSeq(t, x + 1, b))
    <3>1. Ends(trim, g, t, x, b)  BY <2>5, <2>7, <2>8, LineEnds
    <3> QED  BY <3>1 DEF Ends
  <2>10. g[a + m].given = before \o Seen(trim, o \o l)  BY <2>6, <2>9
  <2> HIDE DEF l, o, before, x
  <2>11. With(o, c[i]) = <<o \o l>> /\ o \o l \in Seq(Char)  BY <1>5, <2>2, <2>3, WithOne
  <2>12. Kept(trim, With(o, c[i])) = Seen(trim, o \o l)  BY <2>11, KeptOne
  <2>13. g[a + m].given = before \o Kept(trim, With(o, c[i]))  BY <2>10, <2>12
  <2> QED  BY <2>13 DEF Agrees, o, before, x
<1>9. CASE ahead # {}
  <2> DEFINE e == Min(ahead)
             l == SubSeq(t, a + i, a + (e - 1))
             p == c[e + 1]
  <2>1. e \in i..m - 1 /\ d[e] = NL /\ \A j \in i..e - 1 : d[j] # NL
    <3>1. d \in Seq(Char) /\ Len(d) = m - 1  BY <1>2
    <3>2. /\ e \in i..Len(d) /\ d[e] = NL
          /\ \A j \in i..e - 1 : d[j] # NL
      BY <1>3, <1>9, <3>1, NextNewline
    <3> HIDE DEF e
    <3> QED  BY <3>1, <3>2
  <2>2. c[i] = <<SubSeq(d, i, e - 1)>> \o p  BY <1>6, <1>9 DEF Cut
  <2> HIDE DEF e
  <2>3. e - 1 \in i - 1..m - 1 /\ e + 1 \in i + 1..m /\ e + 1 \in 1..Len(d) + 1
        /\ e \in 1..m - 1 /\ a + (e + 1) - 1 = a + e
    BY <1>1, <1>2, <2>1
  <2>4. c[i] = <<l>> \o p  BY <1>7, <2>2, <2>3
  <2>5. p \in SomeLines  BY <1>6, <2>3
  <2>6. p \in Seq(Seq(Char))  BY <2>5 DEF SomeLines
  <2>7. l \in Seq(Char)
    <3>1. a + i \in 1..Len(t) + 1 /\ a + (e - 1) \in 0..Len(t)  BY <1>1, <2>1
    <3> QED  BY <3>1, PartOfText
  <2> DEFINE b == a + (e - 1)
  <2>8. ASSUME NEW j \in (x + 1)..b PROVE t[j] # NL
    <3>1. j - a \in i..e - 1 /\ j - a \in 1..m - 1 /\ a + (j - a) = j  BY <1>1, <2>1
    <3> QED  BY <1>2, <2>1, <3>1
  <2>9. b \in x..Len(t) - 1 /\ b + 1 = a + e /\ x + 1 = a + i  BY <1>1, <2>1
  <2>10. t[b + 1] = NL  BY <1>2, <2>1, <2>3, <2>9
  <2>11. x \in 0..Len(t) /\ b \in x..Len(t) - 1  BY <1>1, <2>9
  <2>12. /\ g[b + 1].given = before \o Seen(trim, o \o SubSeq(t, x + 1, b))
         /\ g[b + 1].open = <<>>
    <3>1. Ends(trim, g, t, x, b)  BY <2>8, <2>10, <2>11, LineEnds
    <3> QED  BY <3>1 DEF Ends
  <2>13. g[a + e].given = before \o Seen(trim, o \o l) /\ g[a + e].open = <<>>
    BY <2>9, <2>12
  <2>14. Agrees(trim, g, a, m, c, e + 1)  BY <2>3
  <2>15. g[a + m].given = g[a + e].given \o Kept(trim, With(g[a + e].open, p))
    BY <2>3, <2>14 DEF Agrees
  <2> HIDE DEF l, o, before, x, p
  <2>16. With(<<>>, p) = p  BY <2>5, WithNothing
  <2>17. g[a + m].given = (before \o Seen(trim, o \o l)) \o Kept(trim, p)
    BY <2>13, <2>15, <2>16
  <2>18. With(o, <<l>> \o p) = <<o \o l>> \o p  BY <1>5, <2>6, <2>7, WithMore
  <2>19. With(o, c[i]) = <<o \o l>> \o p  BY <2>4, <2>18
  <2>20. o \o l \in Seq(Char)  BY <1>5, <2>7, WithOne
  <2> DEFINE n == o \o l
             s == Seen(trim, n)
             k == Kept(trim, p)
  <2>21. s \in Seq(Seq(Char))  BY <2>20, SeenLines
  <2>22. k \in Seq(Seq(Char))  BY <2>6, KeptLines
  <2>23. Kept(trim, <<n>> \o p) = s \o k  BY <2>6, <2>20, KeptMore
  <2>24. g[a + m].given = (before \o s) \o k  BY <2>17
  <2>25. Kept(trim, With(o, c[i])) = s \o k  BY <2>19, <2>23
  <2> HIDE DEF n, s, k
  <2>26. (before \o s) \o k = before \o (s \o k)  BY <1>5, <2>21, <2>22, JoinLines
  <2>27. g[a + m].given = before \o Kept(trim, With(o, c[i]))  BY <2>24, <2>25, <2>26
  <2> QED  BY <2>27 DEF Agrees, o, before, x
<1> QED  BY <1>8, <1>9

\* The lines that a piece of data completes, and what is left of it.
Completes(trim, g, a, b, data) ==
  /\ Found(g[a].open, data) \in Seq(Seq(Char))
  /\ g[b].given = g[a].given \o Kept(trim, Found(g[a].open, data))
  /\ g[b].open = Rest(data)

LEMMA LinesFound ==
  ASSUME NEW trim \in BOOLEAN, NEW t \in Seq(Char), NEW g, Reads(trim, t, g),
         NEW a \in 0..Len(t), NEW b \in (a + 1)..Len(t),
         NEW data, data = SubSeq(t, a + 1, b), Newlines(data) # {}
  PROVE  Completes(trim, g, a, b, data)
<1> DEFINE m == Max(Newlines(data))
           d == SubSeq(data, 1, m - 1)
           o == g[a].open
<1>1. Len(t) \in Nat  BY LenProperties
<1>2. /\ data \in Seq(Char) /\ Len(data) = b - a
      /\ \A i \in 1..(b - a) : data[i] = t[a + i]
  BY PieceOfText
<1>3. DOMAIN data = 1..(b - a)  BY <1>2, LenProperties
<1>4. \A i : i \in Newlines(data) <=> i \in 1..(b - a) /\ t[a + i] = NL
  BY <1>2, <1>3 DEF Newlines
<1>5. b - a \in Nat /\ Newlines(data) \in SUBSET (1..(b - a))  BY <1>1, <1>4
<1>6. m \in Newlines(data) /\ \A i \in Newlines(data) : i <= m  BY <1>5, GreatestOf
<1> HIDE DEF m
<1>7. m \in 1..(b - a) /\ t[a + m] = NL /\ m \in 1..Len(t) - a /\ m \in Nat  BY <1>1, <1>4, <1>6
<1>8. d = SubSeq(t, a + 1, a + (m - 1))
  <2> DEFINE n == b - a
  <2>1. n \in 0..Len(t) - a /\ 1 \in 1..n + 1 /\ m - 1 \in 1 - 1..n /\ a + n = b
    BY <1>1, <1>7
  <2> HIDE DEF n
  <2>2. SubSeq(SubSeq(t, a + 1, a + n), 1, m - 1) = SubSeq(t, a + 1, a + (m - 1))
    BY <2>1, PartOfPart
  <2>3. SubSeq(t, a + 1, a + n) = data  BY <2>1
  <2> QED  BY <2>2, <2>3
<1>9. d \in Seq(Char) /\ Len(d) = m - 1
  <2>1. m - 1 \in 0..Len(data)  BY <1>1, <1>2, <1>7
  <2> QED  BY <1>2, <2>1, PrefixText
<1>10. Found(o, data) = With(o, Pieces(d))  BY DEF Found, With, m
<1>11. Rest(data) = SubSeq(data, m + 1, b - a)  BY <1>2 DEF Rest, m
<1> HIDE DEF d, o
<1>12. PICK c : Cuts(d, 1, c) /\ Pieces(d) = c[1]  BY <1>9, PiecesTakesSteps
<1>13. g[a] \in Reading  BY DEF Reads
<1>14. o \in Seq(Char) /\ g[a].given \in Seq(Seq(Char))  BY <1>13 DEF Reading, o
<1>15. Found(o, data) \in Seq(Seq(Char))
  <2>1. Len(d) \in Nat /\ 1 \in 1..Len(d) + 1  BY <1>9, LenProperties
  <2>2. c[1] \in SomeLines  BY <1>12, <2>1 DEF Cuts
  <2> DEFINE p == c[1]
  <2>3. p \in Seq(Seq(Char)) /\ p # <<>>  BY <2>2 DEF SomeLines
  <2> HIDE DEF p
  <2>4. 1 \in 1..Len(p)
    <3>1. Len(p) \in Nat \ {0}  BY <2>3, EmptySeq
    <3> QED  BY <3>1
  <2>5. p[1] \in Seq(Char)  BY <2>3, <2>4, ElementOfSeq
  <2>6. o \o p[1] \in Seq(Char)  BY <1>14, <2>5, ConcatProperties
  <2>7. [p EXCEPT ![1] = o \o p[1]] \in Seq(Seq(Char))  BY <2>3, <2>4, <2>6, ExceptSeq
  <2> QED  BY <1>10, <1>12, <2>7 DEF With, p
<1> DEFINE q == {k \in 0..m - 1 : \A i \in m - k..m : Agrees(trim, g, a, m, c, i)}
<1>16. 0 \in q
  <2>1. m \in 1..m /\ 0 \in 0..m - 1 /\ \A i \in m - 0..m : i = m  BY <1>7
  <2>2. \A k \in m + 1..m : FALSE  BY <1>7
  <2>3. Agrees(trim, g, a, m, c, m)  BY <1>7, <1>8, <1>12, <2>1, <2>2, LoopBody
  <2> QED  BY <2>1, <2>3
<1>17. ASSUME NEW k \in 1..m - 1, k - 1 \in q PROVE k \in q
  <2>1. \A i \in m - (k - 1)..m : Agrees(trim, g, a, m, c, i)  BY <1>17
  <2>2. m - k \in 1..m /\ k \in 0..m - 1 /\ m - (k - 1) = m - k + 1
        /\ \A i \in m - k..m : i # m - k => i \in m - k + 1..m
    BY <1>7
  <2>3. \A i \in m - k + 1..m : Agrees(trim, g, a, m, c, i)  BY <2>1, <2>2
  <2>4. Agrees(trim, g, a, m, c, m - k)  BY <1>7, <1>8, <1>12, <2>2, <2>3, LoopBody
  <2>5. \A i \in m - k..m : Agrees(trim, g, a, m, c, i)  BY <2>2, <2>3, <2>4
  <2> QED  BY <2>2, <2>5
<1>18. m - 1 \in q => Agrees(trim, g, a, m, c, 1)
  <2>1. 1 \in m - (m - 1)..m  BY <1>7
  <2> QED  BY <2>1
<1> HIDE DEF q
<1>19. m - 1 \in Nat /\ m - 1 \in 0..m - 1  BY <1>7
<1>20. m - 1 \in q  BY <1>16, <1>17, <1>19, Reaches
<1>21. g[a + m].given = g[a].given \o Kept(trim, Found(o, data))
  <2>1. Agrees(trim, g, a, m, c, 1)  BY <1>18, <1>20
  <2>2. a + 1 - 1 = a  OBVIOUS
  <2> QED  BY <1>10, <1>12, <2>1, <2>2 DEF Agrees, o
<1>22. g[a + m].open = <<>>
  <2>1. PICK j \in 1..Len(t) : j = a + m  BY <1>1, <1>7
  <2>2. g[j] = ReadChar(trim, g[j - 1], t[j])  BY DEF Reads
  <2> DEFINE w == g[j - 1].given \o Seen(trim, g[j - 1].open)
  <2>3. g[j] = [given |-> w, open |-> <<>>]  BY <1>7, <2>1, <2>2 DEF ReadChar
  <2> HIDE DEF w
  <2> QED  BY <2>1, <2>3
<1>23. GoesOn(g, t, a + m, b)
  <2>1. a + m \in 0..Len(t) /\ b \in a + m..Len(t)  BY <1>1, <1>7
  <2>2. ASSUME NEW i \in (a + m + 1)..b PROVE t[i] # NL
    <3>1. i - a \in 1..(b - a) /\ ~(i - a <= m) /\ a + (i - a) = i  BY <1>1, <1>7
    <3>2. i - a \notin Newlines(data)  BY <1>6, <3>1
    <3> QED  BY <1>4, <3>1, <3>2
  <2> QED  BY <2>1, <2>2, LineGoesOn
<1>24. SubSeq(t, a + m + 1, b) = Rest(data)  BY <1>7, <1>11, PieceOfPiece
<1>25. Rest(data) \in Seq(Char)
  <2>1. a + m + 1 \in 1..Len(t) + 1 /\ b \in 0..Len(t)  BY <1>1, <1>7
  <2>2. SubSeq(t, a + m + 1, b) \in Seq(Char)  BY <2>1, PartOfText
  <2> QED  BY <1>24, <2>2
<1>26. g[b].given = g[a + m].given /\ g[b].open = <<>> \o Rest(data)
  BY <1>22, <1>23, <1>24 DEF GoesOn
<1>27. <<>> \o Rest(data) = Rest(data)  BY <1>25, ConcatEmptySeq
<1> QED  BY <1>15, <1>21, <1>26, <1>27 DEF Completes, o


LEMMA ReadText ==
  ASSUME NEW trim \in BOOLEAN, NEW t \in Seq(Char)
  PROVE  Read(trim, t) \in Reading /\ Newlines(Read(trim, t).open) = {}
<1>1. PICK g : Reads(trim, t, g) /\ Read(trim, t) = g[Len(t)]  BY ReadTakesSteps
<1>2. Len(t) \in 0..Len(t)  BY LenProperties
<1>3. Newlines(g[Len(t)].open) = {}  BY <1>1, <1>2, OpenIsOneLine
<1> QED  BY <1>1, <1>2, <1>3 DEF Reads

LEMMA ReadNothing ==
  ASSUME NEW trim \in BOOLEAN PROVE Read(trim, <<>>) = Unread
<1> DEFINE t == <<>>
<1>1. t \in Seq(Char) /\ Len(t) = 0  OBVIOUS
<1> HIDE DEF t
<1>2. PICK g : Reads(trim, t, g) /\ Read(trim, t) = g[Len(t)]  BY <1>1, ReadTakesSteps
<1> QED  BY <1>1, <1>2 DEF Reads, t

-----------------------------------------------------------------------------
(* The steps.                                                              *)

LEMMA StreamsInit == Init => StreamsInv
<1> SUFFICES ASSUME Init PROVE StreamsInv
  OBVIOUS
<1>1. text \in [Output -> Seq(Char)]
  <2>1. PICK o \in OutTexts, e \in ErrTexts : text = [stdout |-> o, stderr |-> e]  BY DEF Init
  <2>2. o \in Seq(Char) /\ e \in Seq(Char)  BY TextAssumption
  <2> QED  BY <2>1, <2>2 DEF Output
<1>2. \A s \in Output : Len(text[s]) \in Nat  BY <1>1, LenProperties
<1>3. ReadInv
  <2>1. taken \in [Output -> Nat] /\ \A s \in Output : taken[s] = 0  BY DEF Init
  <2>2. \A s \in Output : taken[s] <= Len(text[s])  BY <1>2, <2>1
  <2>3. /\ call \in Calls /\ DOMAIN buffer = Output /\ DOMAIN lines = Output
        /\ stopped = FALSE /\ pc = "reading"
        /\ buffer = [s \in Output |-> buffer[s]] /\ lines = [s \in Output |-> lines[s]]
    BY DEF Init
  <2>4. text["stderr"] = <<>> \/ StderrPiped(call)  BY DEF Init
  <2> QED  BY <1>1, <2>1, <2>2, <2>3, <2>4 DEF ReadInv
<1>4. \A s \in Output : Start(s, 0) = <<>> /\ SubSeq(text[s], 1, 0) = <<>>
  BY SubSeqEmpty DEF Start
<1>5. ResultInv  BY <1>4 DEF Init, ResultInv, Before
<1>6. LinesInv
  <2> SUFFICES ASSUME NEW s \in Output PROVE StreamLines(s, SoFar(s))
    BY DEF LinesInv
  <2>1. call.trim \in BOOLEAN  BY CallAssumption DEF Init, Call
  <2>2. taken[s] = 0  BY DEF Init
  <2>3. SoFar(s) = Unread  BY <1>4, <2>1, <2>2, ReadNothing DEF SoFar
  <2>4. lines[s] = <<>> /\ buffer[s] = <<>> /\ pc \in Before(s)  BY DEF Init, Before
  <2> QED  BY <2>3, <2>4 DEF StreamLines, Unread
<1>7. EmptyInv  BY DEF Init, EmptyInv
<1> QED  BY <1>3, <1>5, <1>6, <1>7 DEF StreamsInv

LEMMA ReadStep == ReadInv /\ [Next]_vars => ReadInv'
<1> SUFFICES ASSUME ReadInv, [Next]_vars PROVE ReadInv'
  OBVIOUS
<1>1. ASSUME NEW s \in Output, ProcessData(s) PROVE ReadInv'
  <2>1. PICK n \in taken[s] + 1..Len(text[s]) : taken' = [taken EXCEPT ![s] = n]
    BY <1>1 DEF ProcessData
  <2>2. Len(text[s]) \in Nat /\ taken[s] \in Nat  BY LenProperties DEF ReadInv
  <2>3. taken' \in [Output -> Nat] /\ \A t \in Output : taken'[t] <= Len(text[t])
    BY <2>1, <2>2 DEF ReadInv
  <2>4. /\ call' = call /\ text' = text
        /\ DOMAIN buffer' = DOMAIN buffer /\ DOMAIN lines' = DOMAIN lines
        /\ (stopped' = stopped /\ pc' = pc) \/ (stopped' = TRUE /\ pc' = "last_stdout")
        /\ pc = "reading"
    BY <1>1 DEF ProcessData, Collect, Deliver
  <2>5. /\ stopped' \in BOOLEAN /\ pc' \in {"reading", "last_stdout", "last_stderr", "done"}
        /\ pc' = "reading" => ~stopped'
        /\ pc' # "reading" => stopped'
    <3>1. stopped \in BOOLEAN /\ ~stopped  BY <2>4 DEF ReadInv
    <3>2. CASE stopped' = stopped /\ pc' = pc  BY <2>4, <3>1, <3>2, Zenon
    <3>3. CASE stopped' = TRUE /\ pc' = "last_stdout"  BY <3>3
    <3> QED  BY <2>4, <3>2, <3>3
  <2>6. \/ buffer' = buffer \/ \E x : buffer' = [buffer EXCEPT ![s] = x]
    BY <1>1 DEF ProcessData, Collect, Deliver
  <2>7. \/ lines' = lines \/ \E x : lines' = [lines EXCEPT ![s] = x]
    BY <1>1 DEF ProcessData, Collect, Deliver
  <2>8. buffer' = [u \in Output |-> buffer'[u]] /\ lines' = [u \in Output |-> lines'[u]]
    BY <2>6, <2>7 DEF ReadInv
  <2> QED  BY <2>3, <2>4, <2>5, <2>8 DEF ReadInv, StderrPiped, ToNull, LoggedOnly
<1>2. CASE StreamsEnd
  BY <1>2 DEF StreamsEnd, ReadInv, StderrPiped, ToNull, LoggedOnly
<1>3. ASSUME NEW s \in Output, LastLine(s) PROVE ReadInv'
  <2>1. /\ call' = call /\ text' = text /\ taken' = taken /\ stopped' = stopped
        /\ DOMAIN buffer' = DOMAIN buffer /\ DOMAIN lines' = DOMAIN lines
        /\ pc # "reading" /\ pc' \in {"last_stderr", "done"}
    BY <1>3 DEF LastLine, LastStep, AfterLast, Output
  <2>2. \/ buffer' = buffer \/ \E x : buffer' = [buffer EXCEPT ![s] = x]
    BY <1>3 DEF LastLine
  <2>3. \/ lines' = lines \/ \E x : lines' = [lines EXCEPT ![s] = x]
    BY <1>3 DEF LastLine
  <2>4. buffer' = [u \in Output |-> buffer'[u]] /\ lines' = [u \in Output |-> lines'[u]]
    BY <2>2, <2>3 DEF ReadInv
  <2> QED  BY <2>1, <2>4 DEF ReadInv, StderrPiped, ToNull, LoggedOnly
<1>4. CASE UNCHANGED vars
  BY <1>4 DEF vars, ReadInv, StderrPiped, ToNull, LoggedOnly
<1> QED  BY <1>1, <1>2, <1>3, <1>4 DEF Next, Over

\* What a piece of data does to the buffers and the lines.
LEMMA PieceSteps ==
  ASSUME ReadInv, NEW s \in Output, NEW n \in taken[s] + 1..Len(text[s]),
         NEW data, data = SubSeq(text[s], taken[s] + 1, n)
  PROVE  /\ taken[s] \in 0..Len(text[s]) /\ n \in Nat /\ Len(text[s]) \in Nat
         /\ Len(data) = n - taken[s]
         /\ \A i \in 1..(n - taken[s]) : data[i] = text[s][taken[s] + i]
         /\ Newlines(data) = {i \in 1..(n - taken[s]) : text[s][taken[s] + i] = NL}
<1>1. text[s] \in Seq(Char) /\ taken[s] \in 0..Len(text[s]) /\ Len(text[s]) \in Nat
  BY LenProperties DEF ReadInv
<1>2. /\ data \in Seq(Char) /\ Len(data) = n - taken[s]
      /\ \A i \in 1..(n - taken[s]) : data[i] = text[s][taken[s] + i]
  BY <1>1, PieceOfText
<1>3. DOMAIN data = 1..(n - taken[s])  BY <1>2, LenProperties
<1>4. n \in Nat  BY <1>1
<1>5. Newlines(data) = {i \in 1..(n - taken[s]) : data[i] = NL}  BY <1>3 DEF Newlines
<1>6. {i \in 1..(n - taken[s]) : data[i] = NL}
        = {i \in 1..(n - taken[s]) : text[s][taken[s] + i] = NL}
  BY <1>2
<1> QED  BY <1>1, <1>2, <1>4, <1>5, <1>6

LEMMA ResultStep == ReadInv /\ ResultInv /\ [Next]_vars => ResultInv'
<1> SUFFICES ASSUME ReadInv, ResultInv, [Next]_vars, NEW s \in Output, ~HasCallback(s)'
             PROVE  /\ lines'[s] = <<>>
                    /\ pc' \in Before(s) => buffer'[s] = Start(s, taken[s])'
                    /\ pc' \notin Before(s) =>
                         buffer'[s] = IF call'.trim THEN Trimmed(Start(s, taken[s]))'
                                      ELSE Start(s, taken[s])'
  BY DEF ResultInv
<1>c. call' = call /\ text' = text
  BY DEF Next, StreamsEnd, Over, ProcessData, LastLine, vars
<1>h. ~HasCallback(s)  BY <1>c DEF HasCallback
<1>k. ASSUME lines'[s] = lines[s], buffer'[s] = buffer[s], taken'[s] = taken[s],
             pc' \in Before(s) <=> pc \in Before(s)
      PROVE  /\ lines'[s] = <<>>
             /\ pc' \in Before(s) => buffer'[s] = Start(s, taken[s])'
             /\ pc' \notin Before(s) =>
                  buffer'[s] = IF call'.trim THEN Trimmed(Start(s, taken[s]))'
                               ELSE Start(s, taken[s])'
  BY <1>k, <1>c, <1>h DEF ResultInv, Start, Trimmed
<1>1. ASSUME NEW t \in Output, ProcessData(t)
      PROVE  /\ lines'[s] = <<>>
             /\ pc' \in Before(s) => buffer'[s] = Start(s, taken[s])'
             /\ pc' \notin Before(s) =>
                  buffer'[s] = IF call'.trim THEN Trimmed(Start(s, taken[s]))'
                               ELSE Start(s, taken[s])'
  <2>1. pc = "reading" /\ pc' \in {"reading", "last_stdout"}
    BY <1>1 DEF ProcessData, Collect, Deliver
  <2>2. pc \in Before(s) /\ pc' \in Before(s)  BY <2>1 DEF Before
  <2>3. CASE t # s
    <3>1. lines'[s] = lines[s] /\ buffer'[s] = buffer[s] /\ taken'[s] = taken[s]
      BY <1>1, <2>3 DEF ProcessData, Collect, Deliver, ReadInv
    <3> QED  BY <2>2, <3>1, <1>k
  <2>4. CASE t = s
    <3>1. PICK n \in taken[s] + 1..Len(text[s]) :
            /\ taken' = [taken EXCEPT ![s] = n]
            /\ Collect(s, SubSeq(text[s], taken[s] + 1, n))
      BY <1>1, <1>h, <2>4 DEF ProcessData, Deliver
    <3> DEFINE data == SubSeq(text[s], taken[s] + 1, n)
    <3>2. taken[s] \in 0..Len(text[s]) /\ n \in Nat /\ Len(text[s]) \in Nat
      BY PieceSteps
    <3>3. text[s] \in Seq(Char)  BY DEF ReadInv
    <3>4. Start(s, taken[s]) \o data = SubSeq(text[s], 1, n)
      <4>1. 0 \in 0..Len(text[s]) /\ taken[s] \in 0..Len(text[s]) /\ n \in taken[s]..Len(text[s])
        BY <3>2
      <4>2. SubSeq(text[s], 0 + 1, taken[s]) \o SubSeq(text[s], taken[s] + 1, n)
              = SubSeq(text[s], 0 + 1, n)
        BY <3>3, <4>1, PieceAdds
      <4>3. 0 + 1 = 1  OBVIOUS
      <4> QED  BY <4>2, <4>3 DEF Start
    <3>5. buffer' = [buffer EXCEPT ![s] = @ \o data] /\ lines' = lines
      BY <3>1 DEF Collect
    <3>6. buffer[s] = Start(s, taken[s]) /\ lines[s] = <<>>
      BY <1>h, <2>2 DEF ResultInv
    <3>7. buffer'[s] = SubSeq(text[s], 1, n)
      BY <3>4, <3>5, <3>6 DEF ReadInv
    <3>8. taken'[s] = n  BY <3>1 DEF ReadInv
    <3> QED  BY <1>c, <2>2, <3>5, <3>6, <3>7, <3>8 DEF Start
  <2> QED  BY <2>3, <2>4
<1>2. CASE StreamsEnd
  BY <1>2, <1>k DEF StreamsEnd, Before
<1>3. ASSUME NEW t \in Output, LastLine(t)
      PROVE  /\ lines'[s] = <<>>
             /\ pc' \in Before(s) => buffer'[s] = Start(s, taken[s])'
             /\ pc' \notin Before(s) =>
                  buffer'[s] = IF call'.trim THEN Trimmed(Start(s, taken[s]))'
                               ELSE Start(s, taken[s])'
  <2>1. taken' = taken /\ pc = LastStep[t] /\ pc' = AfterLast[t]  BY <1>3 DEF LastLine
  <2>2. CASE t # s
    <3>1. lines'[s] = lines[s] /\ buffer'[s] = buffer[s]
      BY <1>3, <2>2 DEF LastLine, ReadInv
    <3>2. pc' \in Before(s) <=> pc \in Before(s)
      BY <2>1, <2>2 DEF LastStep, AfterLast, Before, Output
    <3> QED  BY <2>1, <3>1, <3>2, <1>k
  <2>3. CASE t = s
    <3>1. pc \in Before(s) /\ pc' \notin Before(s)
      BY <2>1, <2>3 DEF LastStep, AfterLast, Before, Output
    <3>2. /\ lines' = lines
          /\ buffer' = [buffer EXCEPT ![s] = IF call.trim THEN Trimmed(buffer[s]) ELSE buffer[s]]
      BY <1>3, <1>h, <2>3 DEF LastLine
    <3>3. buffer[s] = Start(s, taken[s]) /\ lines[s] = <<>>  BY <1>h, <3>1 DEF ResultInv
    <3>4. buffer'[s] = IF call.trim THEN Trimmed(Start(s, taken[s])) ELSE Start(s, taken[s])
      BY <3>2, <3>3 DEF ReadInv
    <3> QED  BY <1>c, <2>1, <3>1, <3>2, <3>3, <3>4 DEF Start, Trimmed
  <2> QED  BY <2>2, <2>3
<1>4. CASE UNCHANGED vars
  BY <1>4, <1>k DEF vars
<1> QED  BY <1>1, <1>2, <1>3, <1>4 DEF Next, Over

\* Beginnings of a sequence of lines.
LEMMA BeginsItself == ASSUME NEW l \in Seq(Seq(Char)) PROVE Begins(l, l)
<1>1. l \o <<>> = l  BY ConcatEmptySeq
<1>2. <<>> \in Seq(Seq(Char))  OBVIOUS
<1> QED  BY <1>1, <1>2 DEF Begins

LEMMA BeginsMore ==
  ASSUME NEW some, NEW all \in Seq(Seq(Char)), Begins(some, all), NEW new \in Seq(Seq(Char))
  PROVE  Begins(some, all \o new)
<1>1. PICK more \in Seq(Seq(Char)) : all = some \o more  BY DEF Begins
<1>2. some \in Seq(Seq(Char))  BY DEF Begins
<1>3. (some \o more) \o new = some \o (more \o new)  BY <1>2, JoinLines
<1>4. more \o new \in Seq(Seq(Char))  BY ConcatProperties
<1> DEFINE rest == more \o new
<1>5. all \o new = some \o rest  BY <1>1, <1>3
<1>6. rest \in Seq(Seq(Char))  BY <1>4
<1> HIDE DEF rest
<1> QED  BY <1>2, <1>5, <1>6 DEF Begins

LEMMA BeginsCut ==
  ASSUME NEW old \in Seq(Seq(Char)), NEW new \in Seq(Seq(Char)), NEW k \in 1..Len(new)
  PROVE  Begins(old \o SubSeq(new, 1, k), old \o new)
<1> DEFINE a == SubSeq(new, 1, k)
           b == SubSeq(new, k + 1, Len(new))
<1>1. Len(new) \in Nat  BY LenProperties
<1>2. 1 \in 1..Len(new) + 1 /\ k \in 1 - 1..Len(new) /\ Len(new) \in k..Len(new)  BY <1>1
<1>3. a \o b = SubSeq(new, 1, Len(new))  BY <1>2, ConcatAdjacentSubSeq
<1>4. SubSeq(new, 1, Len(new)) = new  BY SubSeqFull
<1>5. \A i \in 1..Len(new) : new[i] \in Seq(Char)  BY ElementOfSeq
<1>6. \A i \in 1..k : new[i] \in Seq(Char)  BY <1>1, <1>5
<1>7. \A i \in k + 1..Len(new) : new[i] \in Seq(Char)  BY <1>1, <1>5
<1>8. a \in Seq(Seq(Char))  BY <1>6, SubSeqProperties
<1>9. b \in Seq(Seq(Char))  BY <1>1, <1>7, SubSeqProperties, k + 1 \in Int
<1> HIDE DEF a, b
<1>10. a \o b = new  BY <1>3, <1>4
<1>11. (old \o a) \o b = old \o (a \o b)  BY <1>8, <1>9, JoinLines
<1>12. old \o a \in Seq(Seq(Char))  BY <1>8, ConcatProperties
<1> DEFINE some == old \o a
<1>13. some \in Seq(Seq(Char)) /\ old \o new = some \o b  BY <1>10, <1>11, <1>12
<1> HIDE DEF some
<1>14. Begins(some, old \o new)  BY <1>9, <1>13 DEF Begins
<1> QED  BY <1>14 DEF some, a

LEMMA BeginsIsPrefix ==
  ASSUME NEW some, NEW all, Begins(some, all) PROVE IsPrefix(some, all)
<1>1. some \in Seq(Seq(Char))  BY DEF Begins
<1>2. PICK more \in Seq(Seq(Char)) : all = some \o more  BY DEF Begins
<1> DEFINE w == some \o more
           n == Len(some)
<1>3. /\ w \in Seq(Seq(Char)) /\ Len(w) = Len(some) + Len(more)
      /\ \A i \in 1..Len(some) + Len(more) : w[i] = IF i <= Len(some) THEN some[i]
                                                    ELSE more[i - Len(some)]
  BY <1>1, ConcatProperties
<1>4. n \in Nat /\ Len(more) \in Nat  BY <1>1, LenProperties
<1> HIDE DEF w
<1>5. n <= Len(w)  BY <1>3, <1>4
<1>6. \A i \in 1..n : i \in 1..Len(w) /\ w[i] = some[i]  BY <1>3, <1>4
<1>7. \A i \in 1..n : some[i] \in Seq(Char) /\ w[i] \in Seq(Char)
  BY <1>1, <1>6, ElementOfSeq
<1> DEFINE u == SubSeq(some, 1, n)
           v == SubSeq(w, 1, n)
<1>8. /\ u \in Seq(Seq(Char)) /\ Len(u) = (IF 1 <= n THEN n - 1 + 1 ELSE 0)
      /\ \A i \in 1..n - 1 + 1 : u[i] = some[1 + i - 1]
  BY <1>4, <1>7, SubSeqProperties, 1 \in Int, n \in Int
<1>9. /\ v \in Seq(Seq(Char)) /\ Len(v) = (IF 1 <= n THEN n - 1 + 1 ELSE 0)
      /\ \A i \in 1..n - 1 + 1 : v[i] = w[1 + i - 1]
  BY <1>4, <1>7, SubSeqProperties, 1 \in Int, n \in Int
<1> HIDE DEF u, v, n
<1>10. Len(u) = Len(v) /\ \A i \in 1..Len(u) : i \in 1..n /\ i \in 1..n - 1 + 1 /\ 1 + i - 1 = i
  BY <1>4, <1>8, <1>9
<1>11. \A i \in 1..Len(u) : u[i] = v[i]  BY <1>6, <1>8, <1>9, <1>10
<1>12. u = v  BY <1>8, <1>9, <1>10, <1>11, SeqEqual
<1> QED  BY <1>2, <1>5, <1>12 DEF IsPrefix, u, v, n, w

\* A text read to its end.
LEMMA WholeLines ==
  ASSUME NEW trim \in BOOLEAN, NEW r \in Reading
  PROVE  /\ Begins(r.given, Whole(trim, r)) /\ Whole(trim, r) \in Seq(Seq(Char))
         /\ \A l : Begins(l, r.given) => Begins(l, Whole(trim, r))
<1>1. r.given \in Seq(Seq(Char)) /\ r.open \in Seq(Char)  BY DEF Reading
<1> DEFINE x == r.given
           y == Seen(trim, r.open)
<1>2. y \in Seq(Seq(Char))  BY <1>1, SeenLines
<1>3. Whole(trim, r) = x \/ Whole(trim, r) = x \o y  BY DEF Whole
<1>4. x \in Seq(Seq(Char))  BY <1>1
<1> HIDE DEF x, y
<1>5. Begins(x, x)  BY <1>4, BeginsItself
<1>6. \A l : Begins(l, x) => Begins(l, x \o y)  BY <1>2, <1>4, BeginsMore
<1>7. \A l : Begins(l, x) => Begins(l, Whole(trim, r))  BY <1>3, <1>6
<1>8. x \o y \in Seq(Seq(Char))  BY <1>2, <1>4, ConcatProperties
<1> QED  BY <1>3, <1>4, <1>5, <1>7, <1>8 DEF x

LEMMA StreamText ==
  ASSUME ReadInv, NEW s \in Output
  PROVE  /\ call.trim \in BOOLEAN /\ text[s] \in Seq(Char) /\ taken[s] \in 0..Len(text[s])
         /\ Start(s, taken[s]) \in Seq(Char) /\ SoFar(s) \in Reading
         /\ Newlines(SoFar(s).open) = {}
<1>1. call \in Call  BY CallAssumption DEF ReadInv
<1>2. call.trim \in BOOLEAN  BY <1>1 DEF Call
<1>3. text[s] \in Seq(Char)  BY DEF ReadInv
<1>4. taken[s] \in 0..Len(text[s])  BY <1>3, LenProperties DEF ReadInv
<1>5. Start(s, taken[s]) \in Seq(Char)  BY <1>3, <1>4, PrefixText DEF Start
<1>6. SoFar(s) \in Reading /\ Newlines(SoFar(s).open) = {}  BY <1>2, <1>5, ReadText DEF SoFar
<1> QED  BY <1>2, <1>3, <1>4, <1>5, <1>6

\* A piece of data for a stream with a callback.
LEMMA PieceRead ==
  ASSUME ReadInv, NEW s \in Output, HasCallback(s), pc = "reading", StreamLines(s, SoFar(s)),
         NEW n \in taken[s] + 1..Len(text[s]),
         NEW data, data = SubSeq(text[s], taken[s] + 1, n), Collect(s, data) \/ Deliver(s, data)
  PROVE  LET r == Read(call.trim, SubSeq(text[s], 1, n)) IN
         \/ lines'[s] = r.given /\ buffer'[s] = r.open /\ stopped' = stopped /\ pc' = pc
         \/ Begins(lines'[s], r.given) /\ buffer'[s] = <<>> /\ stopped' = TRUE
                 /\ pc' = "last_stdout"
<1> DEFINE t == text[s]
           a == taken[s]
           trim == call.trim
           r == Read(trim, SubSeq(t, 1, n))
<1>1. /\ trim \in BOOLEAN /\ t \in Seq(Char) /\ a \in 0..Len(t) /\ n \in (a + 1)..Len(t)
      /\ n \in 0..Len(t) /\ n \in a..Len(t) /\ Len(t) \in Nat
  BY StreamText, LenProperties
<1>2. /\ Newlines(data) = {i \in 1..(n - a) : t[a + i] = NL}
  BY PieceSteps
<1>3. DOMAIN lines = Output /\ DOMAIN buffer = Output  BY DEF ReadInv
<1>4. pc \in Before(s) /\ ~stopped  BY DEF Before, ReadInv
<1>5. lines[s] = SoFar(s).given /\ buffer[s] = SoFar(s).open  BY <1>4 DEF StreamLines
<1>6. SoFar(s) = Read(trim, SubSeq(t, 1, a))  BY DEF SoFar, Start
<1>7. data = SubSeq(t, a + 1, n)  OBVIOUS
<1>8. /\ Collect(s, data) => /\ Newlines(data) = {} /\ lines' = lines /\ stopped' = stopped
        /\ pc' = pc
                             /\ buffer' = [buffer EXCEPT ![s] = @ \o data]
      /\ Deliver(s, data) =>
           /\ Newlines(data) # {}
           /\ \/ /\ lines' = [lines EXCEPT ![s] = @ \o Kept(trim, Found(buffer[s], data))]
                 /\ buffer' = [buffer EXCEPT ![s] = Rest(data)] /\ stopped' = stopped /\ pc' = pc
              \/ /\ \E k \in DOMAIN Kept(trim, Found(buffer[s], data)) :
                      lines' = [lines EXCEPT ![s] =
                                  @ \o SubSeq(Kept(trim, Found(buffer[s], data)), 1, k)]
                 /\ buffer' = [buffer EXCEPT ![s] = <<>>]
                 /\ stopped' = TRUE /\ pc' = "last_stdout"
  BY DEF Collect, Deliver
<1> HIDE DEF t, a, trim
<1>9. PICK g : Reads(trim, t, g)  BY <1>1, ReadTakesSteps
<1>10. SoFar(s) = g[a] /\ r = g[n]  BY <1>1, <1>6, <1>9, ReadOfPrefix
<1>11. g[a] \in Reading  BY <1>1, <1>9 DEF Reads
<1>12. g[a].given \in Seq(Seq(Char)) /\ g[a].open \in Seq(Char)  BY <1>11 DEF Reading
<1> HIDE DEF r
<1>13. lines[s] = g[a].given /\ buffer[s] = g[a].open  BY <1>5, <1>10
<1>14. CASE Collect(s, data)
  <2>1. ASSUME NEW i \in (a + 1)..n PROVE t[i] # NL
    <3>1. i - a \in 1..(n - a) /\ a + (i - a) = i  BY <1>1
    <3>2. i - a \notin Newlines(data)  BY <1>8, <1>14
    <3> QED  BY <1>2, <3>1, <3>2
  <2>2. GoesOn(g, t, a, n)  BY <1>1, <1>9, <2>1, LineGoesOn
  <2>3. g[n].given = g[a].given /\ g[n].open = g[a].open \o data  BY <1>7, <2>2 DEF GoesOn
  <2>4. lines'[s] = lines[s] /\ buffer'[s] = buffer[s] \o data  BY <1>3, <1>8, <1>14
  <2>5. lines'[s] = r.given /\ buffer'[s] = r.open  BY <1>10, <1>13, <2>3, <2>4
  <2> QED  BY <1>8, <1>14, <2>5 DEF r, t, trim
<1>15. CASE Deliver(s, data)
  <2> DEFINE found == Found(buffer[s], data)
             new == Kept(trim, found)
  <2>1. Completes(trim, g, a, n, data)  BY <1>1, <1>7, <1>8, <1>9, <1>15, LinesFound
  <2>2. /\ found \in Seq(Seq(Char)) /\ r.given = lines[s] \o new /\ r.open = Rest(data)
    BY <1>10, <1>13, <2>1 DEF Completes
  <2> HIDE DEF found
  <2>3. new \in Seq(Seq(Char))  BY <1>1, <2>2, KeptLines
  <2>4. lines[s] \in Seq(Seq(Char))  BY <1>12, <1>13
  <2>5. CASE /\ lines' = [lines EXCEPT ![s] = @ \o new]
             /\ buffer' = [buffer EXCEPT ![s] = Rest(data)] /\ stopped' = stopped /\ pc' = pc
    <3>1. lines'[s] = r.given /\ buffer'[s] = r.open  BY <1>3, <2>2, <2>5
    <3> QED  BY <2>5, <3>1 DEF r, t, trim
  <2>6. CASE /\ \E k \in DOMAIN new : lines' = [lines EXCEPT ![s] = @ \o SubSeq(new, 1, k)]
             /\ buffer' = [buffer EXCEPT ![s] = <<>>]
             /\ stopped' = TRUE /\ pc' = "last_stdout"
    <3>1. PICK k \in DOMAIN new : lines' = [lines EXCEPT ![s] = @ \o SubSeq(new, 1, k)]
      BY <2>6
    <3>2. DOMAIN new = 1..Len(new)  BY <2>3, LenProperties
    <3> DEFINE old == lines[s]
    <3>3. lines'[s] = old \o SubSeq(new, 1, k)  BY <1>3, <3>1
    <3>4. r.given = old \o new  BY <2>2
    <3> HIDE DEF new, old
    <3>5. Begins(old \o SubSeq(new, 1, k), old \o new)
      BY <2>3, <2>4, <3>1, <3>2, BeginsCut DEF old
    <3>6. Begins(lines'[s], r.given)  BY <3>3, <3>4, <3>5
    <3>7. buffer'[s] = <<>>  BY <1>3, <2>6
    <3> QED  BY <2>6, <3>6, <3>7 DEF r, t, trim
  <2> QED  BY <1>8, <1>15, <2>5, <2>6 DEF found
<1> QED  BY <1>14, <1>15

\* What is left in the buffer in the end.
LEMMA LastRead ==
  ASSUME ReadInv, NEW s \in Output, HasCallback(s), LastLine(s), StreamLines(s, SoFar(s))
  PROVE  LET r == SoFar(s) IN
         /\ buffer'[s] = <<>> /\ Begins(lines'[s], Whole(call.trim, r))
         /\ ~stopped => lines'[s] = Whole(call.trim, r)
<1> DEFINE r == SoFar(s)
           trim == call.trim
           rest == IF trim THEN Trimmed(buffer[s]) ELSE buffer[s]
<1>1. trim \in BOOLEAN /\ r \in Reading  BY StreamText
<1>2. DOMAIN lines = Output /\ DOMAIN buffer = Output  BY DEF ReadInv
<1>3. pc \in Before(s)  BY DEF LastLine, LastStep, Before, Output
<1>4. \/ rest # <<>> /\ lines' = [lines EXCEPT ![s] = Append(@, rest)]
                     /\ buffer' = [buffer EXCEPT ![s] = <<>>]
      \/ rest = <<>> /\ lines' = lines /\ buffer' = [buffer EXCEPT ![s] = rest]
  BY DEF LastLine
<1>5. buffer'[s] = <<>>  BY <1>2, <1>4
<1>6. rest = <<>> => lines'[s] = lines[s]  BY <1>4
<1>7. rest # <<>> => lines'[s] = Append(lines[s], rest)  BY <1>2, <1>4
<1>8. r.given \in Seq(Seq(Char)) /\ r.open \in Seq(Char)  BY <1>1 DEF Reading
<1>9. CASE lines[s] = r.given /\ buffer[s] = r.open
  <2>1. Trimmed(r.open) \in Seq(Char)  BY <1>8, TrimmedText
  <2>2. rest \in Seq(Char)  BY <1>8, <1>9, <2>1
  <2>3. rest # <<>> => Seen(trim, r.open) = <<rest>> /\ r.open # <<>>
    BY <1>9, NothingTrimmed DEF Seen
  <2>4. rest = <<>> => r.open = <<>> \/ Seen(trim, r.open) = <<>>
    BY <1>9 DEF Seen
  <2> DEFINE w == Whole(trim, r)
  <2> HIDE DEF rest
  <2>5. ASSUME rest # <<>> PROVE lines'[s] = w
    <3> DEFINE x == r.given
    <3>1. x \in Seq(Seq(Char))  BY <1>8
    <3>2. w = x \o <<rest>>  BY <2>3, <2>5 DEF Whole
    <3>3. lines'[s] = Append(x, rest)  BY <1>7, <1>9, <2>5
    <3> HIDE DEF x, w
    <3>4. Append(x, rest) = x \o <<rest>>  BY <2>2, <3>1, AppendIsConcat
    <3> QED  BY <3>2, <3>3, <3>4
  <2>6. ASSUME rest = <<>> PROVE lines'[s] = w
    <3> DEFINE x == r.given
    <3>1. x \in Seq(Seq(Char))  BY <1>8
    <3>2. w = x \/ w = x \o <<>>  BY <2>4, <2>6 DEF Whole
    <3> HIDE DEF w
    <3>3. lines'[s] = x  BY <1>6, <1>9, <2>6
    <3> HIDE DEF x
    <3>4. x \o <<>> = x  BY <3>1, ConcatEmptySeq
    <3> QED  BY <3>2, <3>3, <3>4
  <2>7. lines'[s] = w  BY <2>5, <2>6
  <2>8. w \in Seq(Seq(Char))  BY <1>1, WholeLines
  <2> HIDE DEF w
  <2>9. Begins(w, w)  BY <2>8, BeginsItself
  <2> QED  BY <1>5, <2>7, <2>9 DEF w
<1>10. CASE stopped /\ Begins(lines[s], r.given) /\ buffer[s] = <<>>
  <2>1. rest = <<>>  BY <1>10, NothingTrimmed
  <2>2. lines'[s] = lines[s]  BY <1>6, <2>1
  <2>3. Begins(lines[s], Whole(trim, r))  BY <1>1, <1>10, WholeLines
  <2> QED  BY <1>5, <1>10, <2>2, <2>3
<1> QED  BY <1>3, <1>9, <1>10 DEF StreamLines

LEMMA LinesStep == ReadInv /\ LinesInv /\ [Next]_vars => LinesInv'
<1> SUFFICES ASSUME ReadInv, LinesInv, [Next]_vars, NEW s \in Output, HasCallback(s)'
             PROVE  StreamLines(s, SoFar(s))'
  BY DEF LinesInv
<1>c. call' = call /\ text' = text
  BY DEF Next, StreamsEnd, Over, ProcessData, LastLine, vars
<1>h. HasCallback(s)  BY <1>c DEF HasCallback
<1>b. StreamLines(s, SoFar(s))  BY <1>h DEF LinesInv
<1>t. SoFar(s)' = Read(call.trim, SubSeq(text[s], 1, taken'[s]))
  BY <1>c DEF SoFar, Start
<1>r. SoFar(s) = Read(call.trim, SubSeq(text[s], 1, taken[s]))  BY DEF SoFar, Start
<1>k. ASSUME lines'[s] = lines[s], buffer'[s] = buffer[s], taken'[s] = taken[s],
             pc' \in Before(s) <=> pc \in Before(s),
             stopped' = stopped \/ (stopped' = TRUE /\ pc \in Before(s))
      PROVE  StreamLines(s, SoFar(s))'
  <2>1. SoFar(s)' = SoFar(s)  BY <1>k, <1>t, <1>r
  <2> QED  BY <1>b, <1>c, <1>k, <2>1 DEF StreamLines
<1>1. ASSUME NEW u \in Output, ProcessData(u) PROVE StreamLines(s, SoFar(s))'
  <2>1. pc = "reading" /\ pc' \in {"reading", "last_stdout"}
        /\ (stopped' = stopped \/ stopped' = TRUE)
    BY <1>1 DEF ProcessData, Collect, Deliver
  <2>2. pc \in Before(s) /\ pc' \in Before(s)  BY <2>1 DEF Before
  <2>3. CASE u # s
    <3>1. lines'[s] = lines[s] /\ buffer'[s] = buffer[s] /\ taken'[s] = taken[s]
      BY <1>1, <2>3 DEF ProcessData, Collect, Deliver, ReadInv
    <3> QED  BY <2>1, <2>2, <3>1, <1>k
  <2>4. CASE u = s
    <3>1. PICK n \in taken[s] + 1..Len(text[s]) :
            /\ taken' = [taken EXCEPT ![s] = n]
            /\ \/ Collect(s, SubSeq(text[s], taken[s] + 1, n))
               \/ Deliver(s, SubSeq(text[s], taken[s] + 1, n))
      BY <1>1, <2>4 DEF ProcessData
    <3>2. taken'[s] = n  BY <3>1 DEF ReadInv
    <3> DEFINE r == Read(call.trim, SubSeq(text[s], 1, n))
    <3>3. \/ lines'[s] = r.given /\ buffer'[s] = r.open /\ stopped' = stopped /\ pc' = pc
          \/ Begins(lines'[s], r.given) /\ buffer'[s] = <<>> /\ stopped' = TRUE
                  /\ pc' = "last_stdout"
      BY <1>b, <1>h, <2>1, <3>1, PieceRead
    <3>4. SoFar(s)' = r  BY <1>t, <3>2
    <3> HIDE DEF r
    <3> QED  BY <2>2, <3>3, <3>4 DEF StreamLines
  <2> QED  BY <2>3, <2>4
<1>2. CASE StreamsEnd
  BY <1>2, <1>k DEF StreamsEnd, Before
<1>3. ASSUME NEW u \in Output, LastLine(u) PROVE StreamLines(s, SoFar(s))'
  <2>1. taken' = taken /\ stopped' = stopped /\ pc = LastStep[u] /\ pc' = AfterLast[u]
    BY <1>3 DEF LastLine
  <2>2. CASE u # s
    <3>1. lines'[s] = lines[s] /\ buffer'[s] = buffer[s]
      BY <1>3, <2>2 DEF LastLine, ReadInv
    <3>2. pc' \in Before(s) <=> pc \in Before(s)
      BY <2>1, <2>2 DEF LastStep, AfterLast, Before, Output
    <3> QED  BY <2>1, <3>1, <3>2, <1>k
  <2>3. CASE u = s
    <3>1. pc' \notin Before(s)
      BY <2>1, <2>3 DEF LastStep, AfterLast, Before, Output
    <3>2. LastLine(s)  BY <1>3, <2>3
    <3> DEFINE r == SoFar(s)
    <3>3. /\ buffer'[s] = <<>> /\ Begins(lines'[s], Whole(call.trim, r))
          /\ ~stopped => lines'[s] = Whole(call.trim, r)
      BY <1>b, <1>h, <3>2, LastRead
    <3>4. SoFar(s)' = r  BY <1>t, <1>r, <2>1
    <3> HIDE DEF r
    <3> QED  BY <1>c, <2>1, <3>1, <3>3, <3>4 DEF StreamLines
  <2> QED  BY <2>2, <2>3
<1>4. CASE UNCHANGED vars
  BY <1>4, <1>k DEF vars
<1> QED  BY <1>1, <1>2, <1>3, <1>4 DEF Next, Over

LEMMA EmptyStep == ReadInv /\ EmptyInv /\ [Next]_vars => EmptyInv'
<1> SUFFICES ASSUME ReadInv, EmptyInv, [Next]_vars, NEW s \in Output, text'[s] = <<>>
             PROVE  lines'[s] = <<>> /\ buffer'[s] = <<>>
  BY DEF EmptyInv
<1>c. text' = text
  BY DEF Next, StreamsEnd, Over, ProcessData, LastLine, vars
<1>e. text[s] = <<>> /\ lines[s] = <<>> /\ buffer[s] = <<>>
  BY <1>c DEF EmptyInv
<1>1. ASSUME NEW t \in Output, ProcessData(t) PROVE lines'[s] = <<>> /\ buffer'[s] = <<>>
  <2>1. \E n \in taken[t] + 1..Len(text[t]) : TRUE  BY <1>1 DEF ProcessData
  <2>2. t # s
    <3> SUFFICES ASSUME t = s PROVE FALSE  OBVIOUS
    <3>1. Len(text[s]) = 0 /\ taken[s] \in Nat  BY <1>e DEF ReadInv
    <3> QED  BY <2>1, <3>1
  <2> QED  BY <1>1, <1>e, <2>2 DEF ProcessData, Collect, Deliver, ReadInv
<1>2. CASE StreamsEnd
  BY <1>2, <1>e DEF StreamsEnd
<1>3. ASSUME NEW t \in Output, LastLine(t) PROVE lines'[s] = <<>> /\ buffer'[s] = <<>>
  <2>1. CASE t # s
    BY <1>3, <1>e, <2>1 DEF LastLine, ReadInv
  <2>2. CASE t = s
    <3>1. (IF call.trim THEN Trimmed(buffer[s]) ELSE buffer[s]) = <<>>
      BY <1>e, NothingTrimmed
    <3>2. lines' = lines /\ buffer' = [buffer EXCEPT ![s] = <<>>]
      BY <1>3, <2>2, <3>1 DEF LastLine
    <3> QED  BY <1>e, <3>2 DEF ReadInv
  <2> QED  BY <2>1, <2>2
<1>4. CASE UNCHANGED vars
  BY <1>4, <1>e DEF vars
<1> QED  BY <1>1, <1>2, <1>3, <1>4 DEF Next, Over

-----------------------------------------------------------------------------
(* Theorems.                                                               *)

\* The lines and the buffers are what they should be in every state, however the
\* data arrive.
THEOREM StreamsInvariant == Spec => []StreamsInv
<1>1. StreamsInv /\ [Next]_vars => StreamsInv'
  BY ReadStep, ResultStep, LinesStep, EmptyStep DEF StreamsInv
<1> QED  BY StreamsInit, <1>1, PTL DEF Spec

\* The state has its types, and the buffer for a callback never holds more than
\* a part of one line.
THEOREM TypeCorrect == Spec => []TypeOK
<1>1. StreamsInv => TypeOK
  <2> SUFFICES ASSUME StreamsInv PROVE TypeOK
    OBVIOUS
  <2>1. ReadInv /\ ResultInv /\ LinesInv  BY DEF StreamsInv
  <2>2. ASSUME NEW s \in Output
        PROVE  /\ buffer[s] \in Seq(Char) /\ lines[s] \in Seq(Seq(Char))
               /\ HasCallback(s) => Newlines(buffer[s]) = {}
    <3>1. /\ Start(s, taken[s]) \in Seq(Char) /\ SoFar(s) \in Reading
          /\ Newlines(SoFar(s).open) = {}
      BY <2>1, StreamText
    <3>2. <<>> \in Seq(Char) /\ <<>> \in Seq(Seq(Char)) /\ Newlines(<<>>) = {}
      BY DEF Newlines
    <3>3. CASE HasCallback(s)
      <4>1. StreamLines(s, SoFar(s))  BY <2>1, <3>3 DEF LinesInv
      <4>2. SoFar(s).given \in Seq(Seq(Char)) /\ SoFar(s).open \in Seq(Char)  BY <3>1 DEF Reading
      <4>3. \/ lines[s] = SoFar(s).given /\ buffer[s] = SoFar(s).open
            \/ lines[s] \in Seq(Seq(Char)) /\ buffer[s] = <<>>
        BY <4>1 DEF StreamLines, Begins
      <4> QED  BY <3>1, <3>2, <4>2, <4>3
    <3>4. CASE ~HasCallback(s)
      <4>1. /\ lines[s] = <<>>
            /\ buffer[s] = Start(s, taken[s]) \/ buffer[s] = Trimmed(Start(s, taken[s]))
        BY <2>1, <3>4 DEF ResultInv
      <4>2. Trimmed(Start(s, taken[s])) \in Seq(Char)  BY <3>1, TrimmedText
      <4> QED  BY <3>1, <3>2, <3>4, <4>1, <4>2
    <3> QED  BY <3>3, <3>4
  <2>3. buffer = [s \in Output |-> buffer[s]] /\ lines = [s \in Output |-> lines[s]]
    BY <2>1 DEF ReadInv
  <2>4. buffer \in [Output -> Seq(Char)] /\ lines \in [Output -> Seq(Seq(Char))]
    BY <2>2, <2>3
  <2> QED  BY <2>1, <2>2, <2>4 DEF ReadInv, TypeOK
<1> QED  BY <1>1, StreamsInvariant, PTL

\* However a child's output is cut into pieces, a callback is given exactly its
\* lines and the result has exactly its text: nothing is lost, doubled or torn at
\* the border of two pieces.
THEOREM PiecesNeverMatter == Spec => []PiecesDoNotMatter
<1>1. StreamsInv => NothingLost
  <2> SUFFICES ASSUME StreamsInv, NEW s \in Output
               PROVE  LET read == Read(call.trim, SubSeq(text[s], 1, taken[s])) IN
                      /\ pc = "reading" =>
                           IF HasCallback(s) THEN lines[s] = read.given /\ buffer[s] = read.open
                           ELSE lines[s] = <<>> /\ buffer[s] = SubSeq(text[s], 1, taken[s])
                      /\ pc = "last_stdout" /\ stopped => IsPrefix(lines[s], read.given)
                      /\ pc = "done" /\ stopped /\ HasCallback(s) =>
                           IsPrefix(lines[s], LinesOf(call.trim, SubSeq(text[s], 1, taken[s])))
    BY DEF NothingLost
  <2>1. ReadInv /\ ResultInv /\ LinesInv  BY DEF StreamsInv
  <2> DEFINE read == SoFar(s)
  <2>2. read = Read(call.trim, SubSeq(text[s], 1, taken[s]))  BY DEF SoFar, Start
  <2>3. LinesOf(call.trim, SubSeq(text[s], 1, taken[s])) = Whole(call.trim, read)
    BY <2>2 DEF LinesOf, Whole
  <2>4. read \in Reading  BY <2>1, StreamText
  <2>5. read.given \in Seq(Seq(Char))  BY <2>4 DEF Reading
  <2>6. /\ pc = "reading" => pc \in Before(s) /\ ~stopped
        /\ pc = "last_stdout" => pc \in Before(s)
        /\ pc = "done" => pc \notin Before(s)
    BY <2>1 DEF Before, ReadInv
  <2>7. CASE HasCallback(s)
    <3>1. StreamLines(s, read)  BY <2>1, <2>7 DEF LinesInv
    <3>2. pc = "reading" => lines[s] = read.given /\ buffer[s] = read.open
      BY <2>6, <3>1 DEF StreamLines
    <3>3. pc = "last_stdout" /\ stopped => IsPrefix(lines[s], read.given)
      <4> SUFFICES ASSUME pc = "last_stdout", stopped PROVE IsPrefix(lines[s], read.given)
        OBVIOUS
      <4>1. lines[s] = read.given \/ Begins(lines[s], read.given)  BY <2>6, <3>1 DEF StreamLines
      <4>2. Begins(lines[s], read.given)  BY <2>5, <4>1, BeginsItself
      <4> QED  BY <4>2, BeginsIsPrefix
    <3>4. pc = "done" => IsPrefix(lines[s], Whole(call.trim, read))
      BY <2>6, <3>1, BeginsIsPrefix DEF StreamLines
    <3> HIDE DEF read
    <3> QED  BY <2>2, <2>3, <2>7, <3>2, <3>3, <3>4
  <2>8. CASE ~HasCallback(s)
    <3>1. lines[s] = <<>> /\ (pc \in Before(s) => buffer[s] = Start(s, taken[s]))
      BY <2>1, <2>8 DEF ResultInv
    <3>2. <<>> \o read.given = read.given /\ <<>> \in Seq(Seq(Char))  BY <2>5, ConcatEmptySeq
    <3>3. Begins(<<>>, read.given)  BY <2>5, <3>2 DEF Begins
    <3>4. IsPrefix(<<>>, read.given)  BY <3>3, BeginsIsPrefix
    <3> HIDE DEF read
    <3> QED  BY <2>2, <2>6, <2>8, <3>1, <3>4 DEF Start
  <2> QED  BY <2>7, <2>8
<1>2. StreamsInv => AllDelivered
  <2> SUFFICES ASSUME StreamsInv, pc = "done", ~stopped, NEW s \in Output
               PROVE  IF HasCallback(s)
                      THEN lines[s] = LinesOf(call.trim, text[s]) /\ buffer[s] = <<>>
                      ELSE buffer[s] = IF call.trim THEN Trimmed(text[s]) ELSE text[s]
    BY DEF AllDelivered
  <2>1. ReadInv /\ ResultInv /\ LinesInv  BY DEF StreamsInv
  <2>2. pc \notin Before(s)  BY DEF Before
  <2>3. Start(s, taken[s]) = text[s]  BY <2>1, SubSeqFull DEF ReadInv, Start
  <2>4. CASE HasCallback(s)
    <3>1. StreamLines(s, SoFar(s))  BY <2>1, <2>4 DEF LinesInv
    <3>2. lines[s] = Whole(call.trim, SoFar(s)) /\ buffer[s] = <<>>  BY <2>2, <3>1 DEF StreamLines
    <3>3. Whole(call.trim, SoFar(s)) = LinesOf(call.trim, text[s])
      BY <2>3 DEF SoFar, Whole, LinesOf
    <3> QED  BY <2>4, <3>2, <3>3
  <2>5. CASE ~HasCallback(s)
    BY <2>1, <2>2, <2>3, <2>5 DEF ResultInv
  <2> QED  BY <2>4, <2>5
<1>3. StreamsInv => PiecesDoNotMatter  BY <1>1, <1>2 DEF PiecesDoNotMatter
<1> QED  BY <1>3, StreamsInvariant, PTL

\* A stream without a callback ends up in the result as a whole: all of its
\* text, trimmed if that was asked for, whatever the pieces were; if a callback
\* of the other stream stopped the call, what was read until then.
ResultIsWhole ==
  pc = "done" =>
    \A s \in Output : ~HasCallback(s) =>
      /\ lines[s] = <<>>
      /\ LET read == IF stopped THEN SubSeq(text[s], 1, taken[s]) ELSE text[s]
         IN  buffer[s] = IF call.trim THEN Trimmed(read) ELSE read

THEOREM ResultHasAll == Spec => []ResultIsWhole
<1>1. StreamsInv => ResultIsWhole
  <2> SUFFICES ASSUME StreamsInv, pc = "done", NEW s \in Output, ~HasCallback(s)
               PROVE  /\ lines[s] = <<>>
                      /\ LET read == IF stopped THEN SubSeq(text[s], 1, taken[s]) ELSE text[s]
                         IN  buffer[s] = IF call.trim THEN Trimmed(read) ELSE read
    BY DEF ResultIsWhole
  <2>1. /\ lines[s] = <<>>
        /\ buffer[s] = IF call.trim THEN Trimmed(Start(s, taken[s])) ELSE Start(s, taken[s])
    BY DEF StreamsInv, ResultInv, Before
  <2>2. ~stopped => Start(s, taken[s]) = text[s]
    BY SubSeqFull DEF StreamsInv, ReadInv, Start
  <2> QED  BY <2>1, <2>2 DEF Start
<1> QED  BY <1>1, StreamsInvariant, PTL

\* A callback never leaves anything behind for the result, and before that no
\* whole line waits in its buffer.
BufferIsUnfinished ==
  \A s \in Output : HasCallback(s) =>
    /\ pc = "reading" => \A i \in DOMAIN buffer[s] : buffer[s][i] # NL
    /\ pc = "done" => buffer[s] = <<>>

THEOREM NoLineWaits == Spec => []BufferIsUnfinished
<1>1. StreamsInv => BufferIsUnfinished
  <2> SUFFICES ASSUME StreamsInv, NEW s \in Output, HasCallback(s)
               PROVE  /\ pc = "reading" => \A i \in DOMAIN buffer[s] : buffer[s][i] # NL
                      /\ pc = "done" => buffer[s] = <<>>
    BY DEF BufferIsUnfinished
  <2>1. StreamLines(s, SoFar(s)) /\ ReadInv  BY DEF StreamsInv, LinesInv
  <2>2. pc = "done" => buffer[s] = <<>>  BY <2>1 DEF StreamLines, Before
  <2>3. pc = "reading" => buffer[s] = SoFar(s).open  BY <2>1 DEF StreamLines, Before, ReadInv
  <2>4. Newlines(SoFar(s).open) = {}  BY <2>1, StreamText
  <2> QED  BY <2>2, <2>3, <2>4 DEF Newlines
<1> QED  BY <1>1, StreamsInvariant, PTL

\* A caller that wants no stderr gets none: it is not read at all, or by the
\* callback that only logs it.
THEOREM StderrIsNotWanted == Spec => []NoUnwantedStderr
<1>1. StreamsInv => NoUnwantedStderr
  <2> SUFFICES ASSUME StreamsInv, pc = "done", ~call.toStdout,
                      call.toNull \/ (call.api = "each_line" /\ "stderr" \notin call.given)
               PROVE  /\ buffer["stderr"] = <<>>
                      /\ Sink(call, "stderr") = "caller" => lines["stderr"] = <<>>
    BY DEF NoUnwantedStderr
  <2>1. "stderr" \in Output  BY DEF Output
  <2>2. CASE ToNull(call)
    <3>1. text["stderr"] = <<>>  BY <2>2 DEF StreamsInv, ReadInv, StderrPiped
    <3> QED  BY <2>1, <3>1 DEF StreamsInv, EmptyInv
  <2>3. CASE LoggedOnly(call)
    <3>1. "stderr" \notin call.given /\ Sink(call, "stderr") = "nobody"
      BY <2>3 DEF LoggedOnly, Sink
    <3>2. HasCallback("stderr")  BY <3>1 DEF HasCallback
    <3>3. buffer["stderr"] = <<>>  BY <2>1, <3>2 DEF StreamsInv, LinesInv, StreamLines, Before
    <3> QED  BY <3>1, <3>3
  <2> QED  BY <2>2, <2>3 DEF ToNull
<1> QED  BY <1>1, StreamsInvariant, PTL
=============================================================================

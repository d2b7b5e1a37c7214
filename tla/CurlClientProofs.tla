-------------------------- MODULE CurlClientProofs --------------------------
(***************************************************************************)
(* What HTTP clients guarantee, for any number of clients, plans of any    *)
(* calls, scripts of any responses and bodies of any length.               *)
(***************************************************************************)
EXTENDS CurlClient, TLAPS

\* Every variable that has a value for each client is a function on the clients.
Shape ==
  /\ plan \in Plans /\ faults \in Faults
  /\ DOMAIN n = Clients /\ DOMAIN pc = Clients /\ DOMAIN options = Clients
  /\ DOMAIN at = Clients /\ DOMAIN given = Clients /\ DOMAIN passed = Clients
  /\ DOMAIN offset = Clients /\ DOMAIN uploaded = Clients /\ DOMAIN ended = Clients
  /\ DOMAIN status = Clients /\ DOMAIN headers = Clients /\ DOMAIN body = Clients
  /\ DOMAIN temp = Clients /\ DOMAIN fp = Clients /\ DOMAIN outcome = Clients

\* Values of client c that nothing else is said of.
Values(c) ==
  /\ pc[c] \in Points /\ outcome[c] \in {"none", "returned"} \cup Errors
  /\ status[c] \in 0..599 /\ headers[c] \in [Names -> Nat]

\* Where client c is in its plan, in its call and in the script.
Place(c) ==
  /\ n[c] \in 0..Len(plan[c])
  /\ pc[c] = "idle" <=> n[c] = 0
  /\ n[c] > 0 => at[c] \in 1..Len(Cur(c).script)
  /\ pc[c] \in {"open", "chmod", "close", "place", "cleanup"} => Download(c)
  /\ pc[c] \in {"open", "chmod", "setup", "send", "headers"} => passed[c] = 0
  /\ n[c] > 0 => passed[c] \in 0..Resp(c).length /\ offset[c] \in 0..Cur(c).body

\* What the handle was set to.
OptionsOf(c) ==
  /\ pc[c] \in {"open", "chmod", "setup"} => options[c] = Default
  /\ pc[c] \in {"send", "headers", "body"} =>
       options[c] = [o \in Option |-> IF o \in Wanted(Cur(c).method) THEN n[c] ELSE 0]
  /\ options[c] \in [Option -> 0..n[c]]

\* Between calls, and in the calls that need none, there is no temporary file.
NoTemp(c) ==
  pc[c] \in {"idle", "done", "open"} \/ (pc[c] # "killed" /\ ~Download(c)) =>
    ~fp[c] /\ ("cannot_remove" \notin faults => temp[c] = NoFile)

\* The temporary file of a download holds what was handed over; once it is closed
\* it holds a beginning of a body, all of it unless the disk is full.
Begun(c, f) ==
  \E k \in 0..Resp(c).length :
    f = Part(c, n[c], at[c], k) /\ ("disk_full" \notin faults => k = Resp(c).length)
TempHolds(c) ==
  /\ pc[c] \in {"chmod", "setup", "send", "headers", "body"} /\ Download(c) =>
       temp[c] = Part(c, n[c], at[c], passed[c])
  /\ pc[c] \in {"close", "place"} => Final(c) /\ Begun(c, temp[c])

\* The response object holds the status and the body of the response libcurl is at.
Answered(c) == pc[c] \in {"cleanup", "done"} /\ outcome[c] = "returned"
ResponseHolds(c) ==
  /\ pc[c] \in {"headers", "body"} /\ ~Download(c) => body[c] = Part(c, n[c], at[c], passed[c])
  /\ Answered(c) /\ ~Download(c) => Final(c) /\ body[c] = Received(c, Resp(c).length)
  /\ pc[c] \in {"headers", "body", "close", "place"} \/ Answered(c) =>
       (Resp(c).numbered => status[c] = Resp(c).status)
  /\ Answered(c) /\ Download(c) /\ Refused(c) => Begun(c, body[c])

\* The server was sent the first `offset' units.
Upto(k) == [u \in 1..k |-> u]
RequestHolds(c) ==
  /\ offset[c] \in Nat /\ uploaded[c] = Upto(offset[c])
  /\ ended[c] => n[c] > 0 /\ offset[c] = Cur(c).body

Inv(c) ==
  /\ Values(c) /\ Place(c) /\ OptionsOf(c) /\ NoTemp(c)
  /\ TempHolds(c) /\ ResponseHolds(c) /\ RequestHolds(c)

\* A body that was put in place: of a call that is over, or of the one that has
\* just returned and was not refused.
Placed(c, i, r, k) ==
  /\ i \in 1..n[c] /\ r \in DOMAIN plan[c][i].script
  /\ plan[c][i].method = "download" /\ plan[c][i].script[r].kind # "continue"
  /\ k \in 0..plan[c][i].script[r].length
  /\ "disk_full" \notin faults => k = plan[c][i].script[r].length
  /\ i = n[c] => /\ pc[c] \in {"cleanup", "done", "killed"} /\ outcome[c] = "returned"
                 /\ ~Refused(c)
  /\ target = Part(c, i, r, k)
TargetHolds == target = Old \/ \E c \in Clients, i, r, k \in Nat : Placed(c, i, r, k)

CurlInv == Shape /\ (\A c \in Clients : Inv(c)) /\ TargetHolds

-----------------------------------------------------------------------------
(* Bodies and calls.                                                       *)

\* The provers take a concatenation apart wherever they see one.
Join(s, t) == s \o t

\* A piece of a body continues what came before.
LEMMA PartExtends ==
  ASSUME NEW c, NEW i, NEW r, NEW j \in Nat, NEW k \in Nat
  PROVE  Join(Part(c, i, r, j), Part(c, i, r, k)) = Part(c, i, r, j + k)
<1> DEFINE e == From(c, i, r)
<1>1. /\ [u \in 1..j |-> e] \in Seq({e}) /\ Len([u \in 1..j |-> e]) = j
      /\ [u \in 1..k |-> e] \in Seq({e}) /\ Len([u \in 1..k |-> e]) = k
  OBVIOUS
<1> HIDE DEF e
<1>2. [u \in 1..j |-> e] \o [u \in 1..k |-> e] = [u \in 1..j + k |-> e]
  BY <1>1
<1>3. QED
  BY <1>2 DEF Part, Join, e

\* A body begins with nothing.
LEMMA PartEmpty == \A c, i, r : Part(c, i, r, 0) = <<>>
BY DEF Part

\* The same of the numbers of the units.
LEMMA CountExtends ==
  ASSUME NEW j \in Nat, NEW k \in Nat
  PROVE  Join(Upto(j), [u \in 1..k |-> j + u]) = Upto(j + k)
<1>1. /\ Upto(j) \in Seq(Nat) /\ Len(Upto(j)) = j
      /\ [u \in 1..k |-> j + u] \in Seq(Nat) /\ Len([u \in 1..k |-> j + u]) = k
  BY DEF Upto
<1>2. QED
  BY <1>1 DEF Join, Upto

\* Nothing was sent when no unit was read.
LEMMA UptoNothing == Upto(0) = <<>>
BY DEF Upto

\* A beginning of a part is a part.
LEMMA PartTruncated ==
  ASSUME NEW c, NEW i, NEW r, NEW j \in Nat, NEW k \in 0..j
  PROVE  SubSeq(Part(c, i, r, j), 1, k) = Part(c, i, r, k) /\ Len(Part(c, i, r, j)) = j
<1>1. Part(c, i, r, j) \in Seq({From(c, i, r)}) /\ Len(Part(c, i, r, j)) = j
  BY DEF Part
<1>2. QED
  BY <1>1 DEF Part

\* The call a client is at is one the constants allow.
LEMMA CallIsWellFormed ==
  ASSUME plan \in Plans, NEW c \in Clients, NEW i \in 1..Len(plan[c])
  PROVE  /\ plan[c] \in Seq(Call) /\ plan[c][i] \in Call
         /\ plan[c][i].script \in Seq(Response) /\ Len(plan[c][i].script) > 0
         /\ \A r \in 1..Len(plan[c][i].script) :
              /\ plan[c][i].script[r] \in Response
              /\ plan[c][i].script[r].kind = "continue" => plan[c][i].script[r].length = 0
         /\ plan[c][i].script[Len(plan[c][i].script)].kind = "final"
         /\ plan[c][i].body \in Nat /\ plan[c][i].method \in Methods
<1>1. plan[c] \in Seq(Call) /\ \A j \in DOMAIN plan[c] : WellFormed(plan[c][j])
  BY PlanAssumption
<1>2. DOMAIN plan[c] = 1..Len(plan[c])
  BY <1>1
<1>3. WellFormed(plan[c][i])
  BY <1>1, <1>2
<1>4. plan[c][i] \in Call /\ plan[c][i].script \in Seq(Response)
  BY <1>3 DEF WellFormed, Call
<1>5. /\ plan[c][i].method \in Methods /\ plan[c][i].body \in Nat
      /\ \A r \in 1..Len(plan[c][i].script) : plan[c][i].script[r] \in Response
  BY <1>4 DEF Call
<1>6. /\ Len(plan[c][i].script) > 0
      /\ plan[c][i].script[Len(plan[c][i].script)].kind = "final"
  BY <1>3, <1>4 DEF WellFormed
<1>7. \A r \in 1..Len(plan[c][i].script) :
        plan[c][i].script[r].kind = "continue" => plan[c][i].script[r].length = 0
  BY <1>3, <1>4 DEF WellFormed
<1>8. QED
  BY <1>1, <1>4, <1>5, <1>6, <1>7

-----------------------------------------------------------------------------
(* A step of one client.                                                   *)

\* f and g differ at client c only.
Keeps(c, f, g) == DOMAIN g = Clients /\ \A d \in Clients \ {c} : g[d] = f[d]

\* What an assignment to one client does, and what it leaves alone.
LEMMA SetOne ==
  ASSUME NEW c \in Clients, NEW f, NEW v, DOMAIN f = Clients
  PROVE  Set(f, c, v)[c] = v /\ Keeps(c, f, Set(f, c, v))
BY DEF Set, Keeps

\* Without an assignment nothing changes.
LEMMA SetNone ==
  ASSUME NEW c \in Clients, NEW f, DOMAIN f = Clients
  PROVE  Keeps(c, f, f)
BY DEF Keeps

\* A step changes nothing of another client.
KeepsAll(c) ==
  /\ Keeps(c, n, n') /\ Keeps(c, pc, pc') /\ Keeps(c, options, options')
  /\ Keeps(c, at, at') /\ Keeps(c, given, given') /\ Keeps(c, passed, passed')
  /\ Keeps(c, offset, offset') /\ Keeps(c, uploaded, uploaded') /\ Keeps(c, ended, ended')
  /\ Keeps(c, status, status') /\ Keeps(c, headers, headers') /\ Keeps(c, body, body')
  /\ Keeps(c, temp, temp') /\ Keeps(c, fp, fp') /\ Keeps(c, outcome, outcome')

\* Going back to the beginning of the body succeeds.
LEMMA Rewinds == ASSUME NEW c, Rewind(c) PROVE offset' = Set(offset, c, 0)
BY DEF Rewind, Seek

\* Each client has a handle, a response and a temporary file of its own.
LEMMA OthersStay ==
  ASSUME Shape, NEW c \in Clients, Step(c)
  PROVE  KeepsAll(c) /\ plan' = plan /\ faults' = faults
<1> USE SetOne, SetNone DEF Shape, Goto, KeepsAll
<1>1. CASE Begin(c)
  <2>1. /\ Keeps(c, n, n') /\ Keeps(c, pc, pc') /\ Keeps(c, options, options')
        /\ Keeps(c, at, at') /\ Keeps(c, given, given') /\ Keeps(c, passed, passed')
        /\ Keeps(c, outcome, outcome')
    BY <1>1 DEF Begin, Reset
  <2>2. /\ Keeps(c, offset, offset') /\ Keeps(c, uploaded, uploaded') /\ Keeps(c, ended, ended')
        /\ Keeps(c, status, status') /\ Keeps(c, headers, headers') /\ Keeps(c, body, body')
    BY <1>1 DEF Begin
  <2>3. Keeps(c, temp, temp') /\ Keeps(c, fp, fp') /\ UNCHANGED <<plan, faults>>
    BY <1>1 DEF Begin, fileVars
  <2>4. QED
    BY <2>1, <2>2, <2>3
<1>2. CASE OpenTemp(c)
  <2>1. \/ /\ temp' = Set(temp, c, <<>>) /\ fp' = Set(fp, c, TRUE) /\ outcome' = outcome
        \/ temp' = temp /\ fp' = fp /\ outcome' = Set(outcome, c, "file_error")
    BY <1>2 DEF OpenTemp
  <2>2. \E point : pc' = Set(pc, c, point)
    BY <1>2 DEF OpenTemp
  <2>3. UNCHANGED <<plan, faults, n, options, offset, uploaded, ended, at, given, passed>>
    BY <1>2 DEF OpenTemp, requestVars, replyVars
  <2>4. UNCHANGED <<status, headers, body>>
    BY <1>2 DEF OpenTemp, resultVars
  <2>5. Keeps(c, temp, temp') /\ Keeps(c, fp, fp') /\ Keeps(c, outcome, outcome')
    <3>1. CASE temp' = Set(temp, c, <<>>) /\ fp' = Set(fp, c, TRUE) /\ outcome' = outcome
      <4>1. Keeps(c, temp, temp')
        BY <3>1
      <4>2. Keeps(c, fp, fp')
        BY <3>1
      <4>3. Keeps(c, outcome, outcome')
        BY <3>1
      <4>4. QED
        BY <4>1, <4>2, <4>3
    <3>2. CASE temp' = temp /\ fp' = fp /\ outcome' = Set(outcome, c, "file_error")
      <4>1. Keeps(c, temp, temp') /\ Keeps(c, fp, fp')
        BY <3>2
      <4>2. Keeps(c, outcome, outcome')
        BY <3>2
      <4>3. QED
        BY <4>1, <4>2
    <3>3. QED
      BY <2>1, <3>1, <3>2
  <2>6. QED
    BY <2>2, <2>3, <2>4, <2>5
<1>3. CASE Chmod(c)
  BY <1>3 DEF Chmod, Throw, requestVars, replyVars, resultVars, fileVars
<1>4. CASE Setup(c)
  BY <1>4 DEF Setup, Throw, requestVars, replyVars, resultVars, fileVars
<1>5. CASE ReadBody(c)
  BY <1>5 DEF ReadBody, replyVars, resultVars, fileVars
<1>6. CASE StatusLine(c)
  BY <1>6 DEF StatusLine, ClearBody, requestVars, replyVars, fileVars
<1>7. CASE HeaderLine(c)
  BY <1>7 DEF HeaderLine, requestVars, fileVars
<1>8. CASE HeadersEnd(c)
  BY <1>8 DEF HeadersEnd, requestVars, replyVars, resultVars, fileVars
<1>9. CASE WriteBody(c)
  BY <1>9 DEF WriteBody, requestVars, fileVars
<1>10. CASE WriteFile(c)
  <2>1. Keeps(c, pc, pc') /\ Keeps(c, outcome, outcome')
    BY <1>10 DEF WriteFile, Throw
  <2>2. Keeps(c, passed, passed') /\ Keeps(c, temp, temp')
    BY <1>10 DEF WriteFile
  <2>3. QED
    BY <1>10, <2>1, <2>2 DEF WriteFile, requestVars, resultVars
<1>11. CASE NextResponse(c)
  <2>1. \/ /\ offset' = Set(offset, c, 0) /\ uploaded' = Set(uploaded, c, <<>>)
           /\ ended' = Set(ended, c, FALSE)
        \/ offset' = offset /\ uploaded' = uploaded /\ ended' = ended
    BY <1>11, Rewinds DEF NextResponse, requestVars
  <2>2. Keeps(c, offset, offset') /\ Keeps(c, uploaded, uploaded') /\ Keeps(c, ended, ended')
    <3>1. CASE ended' = ended /\ offset' = offset /\ uploaded' = uploaded
      BY <3>1
    <3>2. CASE /\ offset' = Set(offset, c, 0) /\ uploaded' = Set(uploaded, c, <<>>)
               /\ ended' = Set(ended, c, FALSE)
      BY <3>2
    <3>3. QED
      BY <2>1, <3>1, <3>2
  <2>3. UNCHANGED <<plan, faults, n, options, status, headers, body, temp, fp, outcome>>
    BY <1>11 DEF NextResponse, resultVars, fileVars
  <2>4. /\ Keeps(c, pc, pc') /\ Keeps(c, at, at')
        /\ Keeps(c, given, given') /\ Keeps(c, passed, passed')
    BY <1>11 DEF NextResponse
  <2>5. QED
    BY <2>2, <2>3, <2>4
<1>12. CASE Performed(c)
  BY <1>12 DEF Performed, requestVars, replyVars, resultVars, fileVars
<1>13. CASE PerformFails(c)
  BY <1>13 DEF PerformFails, Throw, requestVars, replyVars, resultVars, fileVars
<1>14. CASE CloseFp(c)
  BY <1>14 DEF CloseFp, requestVars, replyVars, resultVars
<1>15. CASE Rename(c)
  BY <1>15 DEF Rename, requestVars, replyVars, resultVars
<1>16. CASE ReadBack(c)
  BY <1>16 DEF ReadBack, requestVars, replyVars, fileVars
<1>17. CASE Cleanup(c)
  BY <1>17 DEF Cleanup, RemoveTemp, requestVars, replyVars, resultVars
<1>18. CASE Kill(c)
  BY <1>18 DEF Kill, requestVars, replyVars, resultVars
<1>19. QED
  BY <1>1, <1>2, <1>3, <1>4, <1>5, <1>6, <1>7, <1>8, <1>9, <1>10, <1>11, <1>12,
     <1>13, <1>14, <1>15, <1>16, <1>17, <1>18 DEF Step

\* Every step leaves a value for each client.
LEMMA ShapeStep ==
  ASSUME Shape, NEW c \in Clients, Step(c)
  PROVE  Shape'
BY OthersStay DEF Shape, KeepsAll, Keeps

\* What is true of a client stays so while others move.
LEMMA OtherInv ==
  ASSUME NEW c \in Clients, NEW d \in Clients \ {c}, Inv(d),
         KeepsAll(c), plan' = plan, faults' = faults
  PROVE  Inv(d)'
<1>1. /\ n'[d] = n[d] /\ pc'[d] = pc[d] /\ options'[d] = options[d] /\ at'[d] = at[d]
      /\ passed'[d] = passed[d] /\ offset'[d] = offset[d] /\ uploaded'[d] = uploaded[d]
      /\ ended'[d] = ended[d] /\ status'[d] = status[d] /\ headers'[d] = headers[d]
      /\ body'[d] = body[d] /\ temp'[d] = temp[d] /\ fp'[d] = fp[d] /\ outcome'[d] = outcome[d]
  BY DEF KeepsAll, Keeps
<1>2. Cur(d)' = Cur(d) /\ Resp(d)' = Resp(d)
  BY <1>1 DEF Cur, Resp
<1>3. (Download(d)' <=> Download(d)) /\ (Final(d)' <=> Final(d)) /\ (Refused(d)' <=> Refused(d))
  BY <1>1, <1>2 DEF Download, Final, Refused
<1>4. Values(d)' /\ Place(d)' /\ OptionsOf(d)' /\ NoTemp(d)'
  BY <1>1, <1>2, <1>3 DEF Inv, Values, Place, OptionsOf, NoTemp
<1>5. TempHolds(d)' /\ RequestHolds(d)'
  BY <1>1, <1>2, <1>3 DEF Inv, TempHolds, Begun, RequestHolds
<1>6. ResponseHolds(d)'
  BY <1>1, <1>2, <1>3 DEF Inv, ResponseHolds, Answered, Begun, Received
<1>7. QED
  BY <1>4, <1>5, <1>6 DEF Inv

\* The call and the response a client is at.
LEMMA CallNow ==
  ASSUME Shape, NEW c \in Clients, Place(c), pc[c] # "idle"
  PROVE  /\ n[c] > 0 /\ n[c] \in 1..Len(plan[c]) /\ at[c] \in 1..Len(Cur(c).script)
         /\ Cur(c).method \in Methods /\ Cur(c).body \in Nat /\ Resp(c) \in Response
         /\ Resp(c).length \in Nat /\ Resp(c).status \in 100..599 /\ Resp(c).names \subseteq Names
         /\ Resp(c).kind = "continue" => Resp(c).length = 0
         /\ Resp(c).kind # "final" => at[c] + 1 \in 1..Len(Cur(c).script)
<1>1. n[c] \in 1..Len(plan[c]) /\ at[c] \in 1..Len(Cur(c).script)
  BY DEF Place
<1>2. plan \in Plans
  BY DEF Shape
<1>3. /\ Cur(c).script \in Seq(Response) /\ Cur(c).method \in Methods /\ Cur(c).body \in Nat
      /\ Cur(c).script[Len(Cur(c).script)].kind = "final"
  BY <1>1, <1>2, CallIsWellFormed DEF Cur
<1>4. \A r \in 1..Len(Cur(c).script) :
        /\ Cur(c).script[r] \in Response
        /\ Cur(c).script[r].kind = "continue" => Cur(c).script[r].length = 0
  BY <1>1, <1>2, CallIsWellFormed DEF Cur
<1>5. /\ Resp(c) \in Response
      /\ Resp(c).kind = "continue" => Resp(c).length = 0
      /\ Resp(c).kind # "final" => at[c] # Len(Cur(c).script)
  BY <1>1, <1>3, <1>4 DEF Resp
<1>6. /\ Resp(c).length \in Nat /\ Resp(c).status \in 100..599 /\ Resp(c).names \subseteq Names
  BY <1>5 DEF Response
<1>7. Len(Cur(c).script) \in Nat
  BY <1>3
<1>8. Resp(c).kind # "final" => at[c] + 1 \in 1..Len(Cur(c).script)
  BY <1>1, <1>5, <1>7
<1>9. QED
  BY <1>1, <1>3, <1>5, <1>6, <1>8

\* The body begins.
LEMMA HeadersEndKeeps ==
  ASSUME Shape, NEW c \in Clients, Inv(c), HeadersEnd(c)
  PROVE  Inv(c)'
<1>1. /\ pc'[c] = "body"
  BY SetOne DEF HeadersEnd, Shape, Goto
<1>2. UNCHANGED <<plan, faults, n, options, at, passed, offset, uploaded, ended, status,
                  headers, body, temp, fp, outcome>>
  BY DEF HeadersEnd, requestVars, replyVars, resultVars, fileVars
<1>3. /\ Cur(c)' = Cur(c) /\ Resp(c)' = Resp(c) /\ (Download(c)' <=> Download(c))
      /\ (Final(c)' <=> Final(c)) /\ (Refused(c)' <=> Refused(c))
  BY <1>2 DEF Cur, Resp, Download, Final, Refused
<1>4. n[c] > 0 /\ Resp(c).length \in Nat /\ Cur(c).body \in Nat /\ Resp(c).status \in 100..599
  BY CallNow DEF HeadersEnd, Inv
<1>5. Values(c)' /\ Place(c)' /\ OptionsOf(c)'
  <2>1. Values(c)'
    BY <1>1, <1>2, <1>3, <1>4 DEF HeadersEnd, Inv, Values, Points, Errors
  <2>2. Place(c)'
    BY <1>1, <1>2, <1>3, <1>4 DEF HeadersEnd, Inv, Place
  <2>3. OptionsOf(c)'
    BY <1>1, <1>2, <1>3, <1>4 DEF HeadersEnd, Inv, OptionsOf
  <2>4. QED
    BY <2>1, <2>2, <2>3
<1>6. NoTemp(c)' /\ TempHolds(c)'
  BY <1>1, <1>2, <1>3, <1>4 DEF HeadersEnd, Inv, NoTemp, TempHolds, Begun
<1>7. ResponseHolds(c)'
  BY <1>1, <1>2, <1>3, <1>4 DEF HeadersEnd, Inv, ResponseHolds, Received, Begun, Answered,
     Errors
<1>8. RequestHolds(c)'
  BY <1>1, <1>2, <1>3, <1>4 DEF HeadersEnd, Inv, RequestHolds
<1>9. QED
  BY <1>5, <1>6, <1>7, <1>8 DEF Inv

\* Nothing is said of a client that was killed.
LEMMA KillKeeps ==
  ASSUME Shape, NEW c \in Clients, Inv(c), Kill(c)
  PROVE  Inv(c)'
<1>1. /\ pc'[c] = "killed"
      /\ fp'[c] = FALSE
  BY SetOne DEF Kill, Shape, Goto
<1>2. UNCHANGED <<plan, faults, n, options, at, passed, offset, uploaded, ended, status,
                  headers, body, temp, outcome>>
  BY DEF Kill, requestVars, replyVars, resultVars, fileVars
<1>3. /\ Cur(c)' = Cur(c) /\ Resp(c)' = Resp(c) /\ (Download(c)' <=> Download(c))
      /\ (Final(c)' <=> Final(c)) /\ (Refused(c)' <=> Refused(c))
  BY <1>2 DEF Cur, Resp, Download, Final, Refused
<1>4. n[c] > 0 /\ Resp(c).length \in Nat /\ Cur(c).body \in Nat /\ Resp(c).status \in 100..599
  BY CallNow DEF Kill, Inv
<1>5. Values(c)' /\ Place(c)' /\ OptionsOf(c)'
  <2>1. Values(c)'
    BY <1>1, <1>2, <1>3, <1>4 DEF Kill, Inv, Values, Points, Errors
  <2>2. Place(c)'
    BY <1>1, <1>2, <1>3, <1>4 DEF Kill, Inv, Place
  <2>3. OptionsOf(c)'
    BY <1>1, <1>2, <1>3, <1>4 DEF Kill, Inv, OptionsOf
  <2>4. QED
    BY <2>1, <2>2, <2>3
<1>6. NoTemp(c)' /\ TempHolds(c)'
  BY <1>1, <1>2, <1>3, <1>4 DEF Kill, Inv, NoTemp, TempHolds, Begun
<1>7. ResponseHolds(c)'
  BY <1>1, <1>2, <1>3, <1>4 DEF Kill, Inv, ResponseHolds, Received, Begun, Answered, Errors
<1>8. RequestHolds(c)'
  BY <1>1, <1>2, <1>3, <1>4 DEF Kill, Inv, RequestHolds
<1>9. QED
  BY <1>5, <1>6, <1>7, <1>8 DEF Inv

\* A response that was handed over is all there.
LEMMA PerformedKeeps ==
  ASSUME Shape, NEW c \in Clients, Inv(c), Performed(c)
  PROVE  Inv(c)'
<1>1. /\ pc'[c] = IF Download(c) THEN "close" ELSE "done"
      /\ outcome'[c] = IF Download(c) THEN outcome[c] ELSE "returned"
  BY SetOne DEF Performed, Shape, Goto
<1>2. UNCHANGED <<plan, faults, n, options, at, passed, offset, uploaded, ended, status,
                  headers, body, temp, fp>>
  BY DEF Performed, requestVars, replyVars, resultVars, fileVars
<1>3. /\ Cur(c)' = Cur(c) /\ Resp(c)' = Resp(c) /\ (Download(c)' <=> Download(c))
      /\ (Final(c)' <=> Final(c)) /\ (Refused(c)' <=> Refused(c))
  BY <1>2 DEF Cur, Resp, Download, Final, Refused
<1>4. n[c] > 0 /\ Resp(c).length \in Nat /\ Cur(c).body \in Nat /\ Resp(c).status \in 100..599
  BY CallNow DEF Performed, Inv
<1>5. ResponseHolds(c)'
  <2>1. CASE Download(c)
    BY <1>1, <1>2, <1>3, <1>4, <2>1 DEF Performed, Inv, ResponseHolds, Answered
  <2>2. CASE ~Download(c)
    <3>1. body'[c] = Part(c, n[c], at[c], Resp(c).length)
      BY <1>2, <1>4, <2>2 DEF Performed, Inv, ResponseHolds
    <3>2. Final(c)'
      BY <1>2, <1>3 DEF Performed, Final
    <3>3. QED
      BY <1>1, <1>2, <1>3, <1>4, <2>2, <3>1, <3>2
         DEF Performed, Inv, ResponseHolds, Answered, Received
  <2>3. QED
    BY <2>1, <2>2
<1>6. Values(c)' /\ Place(c)' /\ OptionsOf(c)'
  BY <1>1, <1>2, <1>3, <1>4 DEF Performed, Inv, Values, Place, OptionsOf, Points, Errors
<1>7. NoTemp(c)' /\ TempHolds(c)'
  BY <1>1, <1>2, <1>3, <1>4 DEF Performed, Inv, NoTemp, TempHolds, Begun
<1>8. RequestHolds(c)'
  BY <1>1, <1>2, <1>3, <1>4 DEF Performed, Inv, RequestHolds
<1>9. QED
  BY <1>5, <1>6, <1>7, <1>8 DEF Inv

\* A request that fails.
LEMMA PerformFailsKeeps ==
  ASSUME Shape, NEW c \in Clients, Inv(c), PerformFails(c)
  PROVE  Inv(c)'
<1>1. /\ pc'[c] = IF Download(c) THEN "cleanup" ELSE "done"
      /\ outcome'[c] \in Errors
  BY SetOne DEF PerformFails, Shape, Goto, Throw, Errors
<1>2. UNCHANGED <<plan, faults, n, options, at, passed, offset, uploaded, ended, status,
                  headers, body, temp, fp>>
  BY DEF PerformFails, requestVars, replyVars, resultVars, fileVars
<1>3. /\ Cur(c)' = Cur(c) /\ Resp(c)' = Resp(c) /\ (Download(c)' <=> Download(c))
      /\ (Final(c)' <=> Final(c)) /\ (Refused(c)' <=> Refused(c))
  BY <1>2 DEF Cur, Resp, Download, Final, Refused
<1>4. n[c] > 0 /\ Resp(c).length \in Nat /\ Cur(c).body \in Nat /\ Resp(c).status \in 100..599
  BY CallNow DEF PerformFails, Inv
<1>5. Values(c)' /\ Place(c)' /\ OptionsOf(c)'
  <2>1. Values(c)'
    BY <1>1, <1>2, <1>3, <1>4 DEF PerformFails, Inv, Values, Points, Errors
  <2>2. Place(c)'
    BY <1>1, <1>2, <1>3, <1>4 DEF PerformFails, Inv, Place
  <2>3. OptionsOf(c)'
    BY <1>1, <1>2, <1>3, <1>4 DEF PerformFails, Inv, OptionsOf
  <2>4. QED
    BY <2>1, <2>2, <2>3
<1>6. NoTemp(c)' /\ TempHolds(c)'
  BY <1>1, <1>2, <1>3, <1>4 DEF PerformFails, Inv, NoTemp, TempHolds, Begun
<1>7. ResponseHolds(c)'
  BY <1>1, <1>2, <1>3, <1>4 DEF PerformFails, Inv, ResponseHolds, Received, Begun, Answered,
     Errors
<1>8. RequestHolds(c)'
  BY <1>1, <1>2, <1>3, <1>4 DEF PerformFails, Inv, RequestHolds
<1>9. QED
  BY <1>5, <1>6, <1>7, <1>8 DEF Inv

\* The temporary file is still empty.
LEMMA ChmodKeeps ==
  ASSUME Shape, NEW c \in Clients, Inv(c), Chmod(c)
  PROVE  Inv(c)'
<1>1. /\ \/ pc'[c] = "setup" /\ outcome'[c] = outcome[c]
         \/ pc'[c] = "cleanup" /\ outcome'[c] \in Errors
      /\ pc[c] = "chmod" /\ Download(c)
  BY SetOne DEF Chmod, Shape, Goto, Throw, Errors, Inv, Place
<1>2. UNCHANGED <<plan, faults, n, options, at, passed, offset, uploaded, ended, status,
                  headers, body, temp, fp>>
  BY DEF Chmod, requestVars, replyVars, resultVars, fileVars
<1>3. /\ Cur(c)' = Cur(c) /\ Resp(c)' = Resp(c) /\ (Download(c)' <=> Download(c))
      /\ (Final(c)' <=> Final(c)) /\ (Refused(c)' <=> Refused(c))
  BY <1>2 DEF Cur, Resp, Download, Final, Refused
<1>4. n[c] > 0 /\ Resp(c).length \in Nat /\ Cur(c).body \in Nat /\ Resp(c).status \in 100..599
  BY CallNow DEF Chmod, Inv
<1>5. Values(c)' /\ Place(c)' /\ OptionsOf(c)'
  <2>1. Values(c)'
    BY <1>1, <1>2, <1>3, <1>4 DEF Chmod, Inv, Values, Points, Errors
  <2>2. Place(c)'
    BY <1>1, <1>2, <1>3, <1>4 DEF Chmod, Inv, Place
  <2>3. OptionsOf(c)'
    BY <1>1, <1>2, <1>3, <1>4 DEF Chmod, Inv, OptionsOf
  <2>4. QED
    BY <2>1, <2>2, <2>3
<1>6. NoTemp(c)' /\ TempHolds(c)'
  BY <1>1, <1>2, <1>3, <1>4 DEF Chmod, Inv, NoTemp, TempHolds, Begun
<1>7. ResponseHolds(c)'
  BY <1>1, <1>2, <1>3, <1>4 DEF Chmod, Inv, ResponseHolds, Received, Begun, Answered, Errors
<1>8. RequestHolds(c)'
  BY <1>1, <1>2, <1>3, <1>4 DEF Chmod, Inv, RequestHolds
<1>9. QED
  BY <1>5, <1>6, <1>7, <1>8 DEF Inv

\* A new file is empty; one that cannot be opened does not exist.
LEMMA OpenTempKeeps ==
  ASSUME Shape, NEW c \in Clients, Inv(c), OpenTemp(c)
  PROVE  Inv(c)'
<1>1. /\ \/ /\ temp'[c] = <<>> /\ pc'[c] \in {"chmod", "setup"} /\ outcome'[c] = outcome[c]
         \/ /\ temp'[c] = temp[c] /\ fp'[c] = fp[c]
            /\ pc'[c] = "done" /\ outcome'[c] = "file_error"
      /\ pc[c] = "open" /\ Download(c) /\ passed[c] = 0
  <2>1. pc[c] = "open" /\ Download(c) /\ passed[c] = 0
    BY DEF OpenTemp, Inv, Place
  <2>2. CASE /\ temp' = Set(temp, c, <<>>) /\ outcome' = outcome
             /\ pc' = Set(pc, c, IF Cur(c).perms THEN "chmod" ELSE "setup")
    <3>1. temp'[c] = <<>> /\ pc'[c] = IF Cur(c).perms THEN "chmod" ELSE "setup"
      BY <2>2, SetOne DEF Shape
    <3>2. QED
      BY <2>1, <2>2, <3>1
  <2>3. CASE /\ temp' = temp /\ fp' = fp /\ outcome' = Set(outcome, c, "file_error")
             /\ pc' = Set(pc, c, "done")
    BY <2>1, <2>3, SetOne DEF Shape
  <2>4. QED
    BY <2>2, <2>3 DEF OpenTemp, Goto
<1>2. UNCHANGED <<plan, faults, n, options, at, passed, offset, uploaded, ended, status,
                  headers, body>>
  BY DEF OpenTemp, requestVars, replyVars, resultVars
<1>3. /\ Cur(c)' = Cur(c) /\ Resp(c)' = Resp(c) /\ (Download(c)' <=> Download(c))
      /\ (Final(c)' <=> Final(c)) /\ (Refused(c)' <=> Refused(c))
  BY <1>2 DEF Cur, Resp, Download, Final, Refused
<1>4. n[c] > 0 /\ Resp(c).length \in Nat /\ Cur(c).body \in Nat /\ Resp(c).status \in 100..599
  BY CallNow DEF OpenTemp, Inv
<1>5. Values(c)' /\ Place(c)' /\ OptionsOf(c)'
  <2>1. Values(c)'
    BY <1>1, <1>2, <1>3, <1>4 DEF OpenTemp, Inv, Values, Points, Errors
  <2>2. Place(c)'
    BY <1>1, <1>2, <1>3, <1>4 DEF OpenTemp, Inv, Place
  <2>3. OptionsOf(c)'
    BY <1>1, <1>2, <1>3, <1>4 DEF OpenTemp, Inv, OptionsOf
  <2>4. QED
    BY <2>1, <2>2, <2>3
<1>6. NoTemp(c)'
  BY <1>1, <1>2, <1>3, <1>4 DEF OpenTemp, Inv, NoTemp
<1>7. TempHolds(c)'
  BY <1>1, <1>2, <1>3, <1>4, PartEmpty DEF OpenTemp, Inv, TempHolds, Begun
<1>8. ResponseHolds(c)'
  BY <1>1, <1>2, <1>3, <1>4 DEF OpenTemp, Inv, ResponseHolds, Received, Begun, Answered, Errors
<1>9. RequestHolds(c)'
  BY <1>1, <1>2, <1>3, <1>4 DEF OpenTemp, Inv, RequestHolds
<1>10. QED
  BY <1>5, <1>6, <1>7, <1>8, <1>9 DEF Inv

\* A status line empties the body and gives the status, if it has a minor version.
LEMMA StatusLineKeeps ==
  ASSUME Shape, NEW c \in Clients, Inv(c), StatusLine(c)
  PROVE  Inv(c)'
<1>1. /\ pc'[c] = "headers"
      /\ body'[c] = <<>>
      /\ Resp(c).numbered => status'[c] = Resp(c).status
      /\ ~Resp(c).numbered => status'[c] = status[c]
      /\ pc[c] = "send" /\ passed[c] = 0 /\ status[c] \in 0..599
  BY SetOne DEF StatusLine, Shape, Goto, ClearBody, Inv, Place, Values
<1>2. UNCHANGED <<plan, faults, n, options, at, passed, offset, uploaded, ended, headers,
                  temp, fp, outcome>>
  BY DEF StatusLine, requestVars, replyVars, resultVars, fileVars
<1>3. /\ Cur(c)' = Cur(c) /\ Resp(c)' = Resp(c) /\ (Download(c)' <=> Download(c))
      /\ (Final(c)' <=> Final(c))
  BY <1>2 DEF Cur, Resp, Download, Final
<1>4. n[c] > 0 /\ Resp(c).length \in Nat /\ Cur(c).body \in Nat /\ Resp(c).status \in 100..599
  <2>1. Place(c) /\ pc[c] # "idle"
    BY <1>1 DEF Inv
  <2>2. QED
    BY <2>1, CallNow
<1>5. Values(c)'
  <2>1. status'[c] \in 0..599
    <3>1. CASE Resp(c).numbered
      <4>1. status'[c] = Resp(c).status
        BY <1>1, <3>1
      <4>2. QED
        BY <1>4, <4>1
    <3>2. CASE ~Resp(c).numbered
      <4>1. status'[c] = status[c]
        BY <1>1, <3>2
      <4>2. status[c] \in 0..599
        BY <1>1
      <4>3. QED
        BY <4>1, <4>2
    <3>3. QED
      BY <3>1, <3>2
  <2>2. QED
    BY <1>1, <1>2, <2>1 DEF Inv, Values, Points
<1>6. Place(c)' /\ OptionsOf(c)'
  BY <1>1, <1>2, <1>3, <1>4 DEF StatusLine, Inv, Place, OptionsOf
<1>7. NoTemp(c)' /\ TempHolds(c)'
  BY <1>1, <1>2, <1>3, <1>4 DEF StatusLine, Inv, NoTemp, TempHolds, Begun
<1>8. ResponseHolds(c)'
  BY <1>1, <1>2, <1>3, <1>4, PartEmpty DEF StatusLine, Inv, ResponseHolds, Received, Begun,
     Answered, Errors
<1>9. RequestHolds(c)'
  BY <1>1, <1>2, <1>3, <1>4 DEF StatusLine, Inv, RequestHolds
<1>10. QED
  BY <1>5, <1>6, <1>7, <1>8, <1>9 DEF Inv

\* A header is one more number of a response.
LEMMA HeaderLineKeeps ==
  ASSUME Shape, NEW c \in Clients, Inv(c), HeaderLine(c)
  PROVE  Inv(c)'
<1>1. /\ headers'[c] \in [Names -> Nat]
  <2>1. Resp(c).names \in SUBSET Names /\ at[c] \in Nat
    BY CallNow DEF HeaderLine, Inv, Place
  <2>2. PICK name \in Names :
          headers' = Set(headers, c, [headers[c] EXCEPT ![name] = IF @ = 0 THEN at[c] ELSE @])
    BY <2>1 DEF HeaderLine
  <2>3. headers[c] \in [Names -> Nat]
    BY DEF Inv, Values
  <2>4. headers'[c] = [headers[c] EXCEPT ![name] = IF @ = 0 THEN at[c] ELSE @]
    BY <2>2, SetOne DEF Shape
  <2>5. QED
    BY <2>1, <2>3, <2>4
<1>2. UNCHANGED <<plan, faults, n, pc, options, at, passed, offset, uploaded, ended, status,
                  body, temp, fp, outcome>>
  BY DEF HeaderLine, requestVars, replyVars, resultVars, fileVars
<1>3. /\ Cur(c)' = Cur(c) /\ Resp(c)' = Resp(c) /\ (Download(c)' <=> Download(c))
      /\ (Final(c)' <=> Final(c)) /\ (Refused(c)' <=> Refused(c))
  BY <1>2 DEF Cur, Resp, Download, Final, Refused
<1>4. n[c] > 0 /\ Resp(c).length \in Nat /\ Cur(c).body \in Nat /\ Resp(c).status \in 100..599
  BY CallNow DEF HeaderLine, Inv
<1>5. Values(c)'
  BY <1>1, <1>2, <1>3, <1>4 DEF HeaderLine, Inv, Values, Points, Errors
<1>6. Place(c)' /\ OptionsOf(c)'
  BY <1>1, <1>2, <1>3, <1>4 DEF HeaderLine, Inv, Place, OptionsOf
<1>7. NoTemp(c)' /\ TempHolds(c)'
  BY <1>1, <1>2, <1>3, <1>4 DEF HeaderLine, Inv, NoTemp, TempHolds, Begun
<1>8. ResponseHolds(c)'
  BY <1>1, <1>2, <1>3, <1>4 DEF HeaderLine, Inv, ResponseHolds, Received, Begun, Answered,
     Errors
<1>9. RequestHolds(c)'
  BY <1>1, <1>2, <1>3, <1>4 DEF HeaderLine, Inv, RequestHolds
<1>10. QED
  BY <1>5, <1>6, <1>7, <1>8, <1>9 DEF Inv

\* A piece continues the body.
LEMMA WriteBodyKeeps ==
  ASSUME Shape, NEW c \in Clients, Inv(c), WriteBody(c)
  PROVE  Inv(c)'
<1>1. /\ passed'[c] \in 0..Resp(c).length
      /\ body'[c] = Part(c, n[c], at[c], passed'[c])
  <2>1. /\ Resp(c).length \in Nat /\ passed[c] \in 0..Resp(c).length
        /\ body[c] = Part(c, n[c], at[c], passed[c])
    BY CallNow DEF WriteBody, Inv, ResponseHolds, Place
  <2>2. PICK k \in 1..Resp(c).length - passed[c] :
          /\ passed' = Set(passed, c, passed[c] + k)
          /\ body' = Set(body, c, Join(body[c], Part(c, n[c], at[c], k)))
    BY DEF WriteBody, Piece, Received, Join
  <2>3. passed'[c] = passed[c] + k /\ body'[c] = Join(body[c], Part(c, n[c], at[c], k))
    BY <2>2, SetOne DEF Shape
  <2>4. k \in Nat /\ passed[c] \in Nat /\ passed[c] + k \in 0..Resp(c).length
    BY <2>1, <2>2
  <2>5. body'[c] = Part(c, n[c], at[c], passed[c] + k)
    BY <2>1, <2>3, <2>4, PartExtends
  <2>6. QED
    BY <2>3, <2>4, <2>5
<1>2. UNCHANGED <<plan, faults, n, pc, options, at, offset, uploaded, ended, status, headers,
                  temp, fp, outcome>>
  BY DEF WriteBody, requestVars, replyVars, resultVars, fileVars
<1>3. /\ Cur(c)' = Cur(c) /\ Resp(c)' = Resp(c) /\ (Download(c)' <=> Download(c))
      /\ (Final(c)' <=> Final(c)) /\ (Refused(c)' <=> Refused(c))
  BY <1>2 DEF Cur, Resp, Download, Final, Refused
<1>4. n[c] > 0 /\ Resp(c).length \in Nat /\ Cur(c).body \in Nat /\ Resp(c).status \in 100..599
  BY CallNow DEF WriteBody, Inv
<1>5. Values(c)' /\ Place(c)' /\ OptionsOf(c)'
  <2>1. Values(c)'
    BY <1>1, <1>2, <1>3, <1>4 DEF WriteBody, Inv, Values, Points, Errors
  <2>2. Place(c)'
    BY <1>1, <1>2, <1>3, <1>4 DEF WriteBody, Inv, Place
  <2>3. OptionsOf(c)'
    BY <1>1, <1>2, <1>3, <1>4 DEF WriteBody, Inv, OptionsOf
  <2>4. QED
    BY <2>1, <2>2, <2>3
<1>6. NoTemp(c)' /\ TempHolds(c)'
  BY <1>1, <1>2, <1>3, <1>4 DEF WriteBody, Inv, NoTemp, TempHolds, Begun
<1>7. ResponseHolds(c)'
  BY <1>1, <1>2, <1>3, <1>4 DEF WriteBody, Inv, ResponseHolds, Received, Begun, Answered, Errors
<1>8. RequestHolds(c)'
  BY <1>1, <1>2, <1>3, <1>4 DEF WriteBody, Inv, RequestHolds
<1>9. QED
  BY <1>5, <1>6, <1>7, <1>8 DEF Inv

\* The end may be missing only if the disk is full.
LEMMA CloseFpKeeps ==
  ASSUME Shape, NEW c \in Clients, Inv(c), CloseFp(c)
  PROVE  Inv(c)'
<1>1. /\ pc'[c] = "place" /\ pc[c] = "close" /\ Final(c)
      /\ Begun(c, temp'[c])
      /\ fp'[c] = FALSE
  <2>1. Final(c) /\ Begun(c, temp[c]) /\ Resp(c).length \in Nat
    BY CallNow DEF CloseFp, Inv, TempHolds
  <2>2. pc'[c] = "place" /\ fp'[c] = FALSE /\ pc[c] = "close"
    BY SetOne DEF CloseFp, Shape, Goto
  <2>3. CASE temp' = temp
    BY <2>1, <2>2, <2>3
  <2>4. CASE \E k \in 0..Len(temp[c]) : temp' = Set(temp, c, SubSeq(temp[c], 1, k))
    <3>1. "disk_full" \in faults \/ temp' = temp
      BY DEF CloseFp
    <3>2. PICK j \in 0..Resp(c).length : temp[c] = Part(c, n[c], at[c], j)
      BY <2>1 DEF Begun
    <3>3. PICK k \in 0..Len(temp[c]) : temp' = Set(temp, c, SubSeq(temp[c], 1, k))
      BY <2>4
    <3>4. j \in Nat /\ 0 \in 0..j /\ Len(temp[c]) = j
      BY <2>1, <3>2, PartTruncated
    <3>5. k \in 0..j /\ k \in 0..Resp(c).length
      BY <2>1, <3>2, <3>3, <3>4
    <3>6. SubSeq(Part(c, n[c], at[c], j), 1, k) = Part(c, n[c], at[c], k)
      BY <3>4, <3>5, PartTruncated
    <3>7. temp'[c] = SubSeq(temp[c], 1, k)
      BY <3>3, SetOne DEF Shape
    <3>8. temp'[c] = Part(c, n[c], at[c], k)
      BY <3>2, <3>6, <3>7, Zenon
    <3>9. QED
      BY <2>1, <2>2, <3>1, <3>5, <3>8 DEF Begun
  <2>5. QED
    BY <2>3, <2>4 DEF CloseFp
<1>2. UNCHANGED <<plan, faults, n, options, at, passed, offset, uploaded, ended, status,
                  headers, body, outcome>>
  BY DEF CloseFp, requestVars, replyVars, resultVars
<1>3. /\ Cur(c)' = Cur(c) /\ Resp(c)' = Resp(c) /\ (Download(c)' <=> Download(c))
      /\ (Final(c)' <=> Final(c)) /\ (Refused(c)' <=> Refused(c))
  BY <1>2 DEF Cur, Resp, Download, Final, Refused
<1>4. n[c] > 0 /\ Resp(c).length \in Nat /\ Cur(c).body \in Nat /\ Resp(c).status \in 100..599
  BY CallNow DEF CloseFp, Inv
<1>5. Values(c)' /\ Place(c)' /\ OptionsOf(c)'
  <2>1. Values(c)'
    BY <1>1, <1>2, <1>3, <1>4 DEF CloseFp, Inv, Values, Points, Errors
  <2>2. Place(c)'
    BY <1>1, <1>2, <1>3, <1>4 DEF CloseFp, Inv, Place
  <2>3. OptionsOf(c)'
    BY <1>1, <1>2, <1>3, <1>4 DEF CloseFp, Inv, OptionsOf
  <2>4. QED
    BY <2>1, <2>2, <2>3
<1>6. NoTemp(c)' /\ TempHolds(c)'
  <2>1. NoTemp(c)'
    BY <1>1, <1>2, <1>3, <1>4 DEF Inv, NoTemp, Place
  <2>2. TempHolds(c)'
    BY <1>1, <1>2, <1>3, <1>4 DEF TempHolds, Begun, Final
  <2>3. QED
    BY <2>1, <2>2
<1>7. ResponseHolds(c)'
  BY <1>1, <1>2, <1>3, <1>4 DEF CloseFp, Inv, ResponseHolds, Received, Begun, Answered, Errors
<1>8. RequestHolds(c)'
  BY <1>1, <1>2, <1>3, <1>4 DEF CloseFp, Inv, RequestHolds
<1>9. QED
  BY <1>5, <1>6, <1>7, <1>8 DEF Inv

\* The file is in place, or an exception leaves.
LEMMA RenameKeeps ==
  ASSUME Shape, NEW c \in Clients, Inv(c), Rename(c)
  PROVE  Inv(c)'
<1>1. /\ pc'[c] = "cleanup" /\ Download(c) /\ ~Refused(c)
      /\ outcome'[c] = "returned" \/ outcome'[c] \in Errors
  BY SetOne DEF Rename, Shape, Goto, Errors, Inv, Place
<1>2. UNCHANGED <<plan, faults, n, options, at, passed, offset, uploaded, ended, status,
                  headers, body, fp>>
  BY DEF Rename, requestVars, replyVars, resultVars, fileVars
<1>3. /\ Cur(c)' = Cur(c) /\ Resp(c)' = Resp(c) /\ (Download(c)' <=> Download(c))
      /\ (Final(c)' <=> Final(c)) /\ (Refused(c)' <=> Refused(c))
  BY <1>2 DEF Cur, Resp, Download, Final, Refused
<1>4. n[c] > 0 /\ Resp(c).length \in Nat /\ Cur(c).body \in Nat /\ Resp(c).status \in 100..599
  BY CallNow DEF Rename, Inv
<1>5. Values(c)' /\ Place(c)' /\ OptionsOf(c)'
  <2>1. Values(c)'
    BY <1>1, <1>2, <1>3, <1>4 DEF Rename, Inv, Values, Points, Errors
  <2>2. Place(c)'
    BY <1>1, <1>2, <1>3, <1>4 DEF Rename, Inv, Place
  <2>3. OptionsOf(c)'
    BY <1>1, <1>2, <1>3, <1>4 DEF Rename, Inv, OptionsOf
  <2>4. QED
    BY <2>1, <2>2, <2>3
<1>6. NoTemp(c)' /\ TempHolds(c)'
  BY <1>1, <1>2, <1>3, <1>4 DEF Rename, Inv, NoTemp, TempHolds, Place, Begun
<1>7. ResponseHolds(c)'
  BY <1>1, <1>2, <1>3, <1>4 DEF Rename, Inv, ResponseHolds, Received, Begun, Answered, Errors
<1>8. RequestHolds(c)'
  BY <1>1, <1>2, <1>3, <1>4 DEF Rename, Inv, RequestHolds
<1>9. QED
  BY <1>5, <1>6, <1>7, <1>8 DEF Inv

\* The body of an error is what was downloaded.
LEMMA ReadBackKeeps ==
  ASSUME Shape, NEW c \in Clients, Inv(c), ReadBack(c)
  PROVE  Inv(c)'
<1>1. /\ pc'[c] = "cleanup" /\ pc[c] = "place" /\ Download(c) /\ Begun(c, temp[c])
      /\ \/ outcome'[c] = "returned" /\ body'[c] = temp[c]
         \/ outcome'[c] = "file_error"
  BY SetOne DEF ReadBack, Shape, Goto, Inv, Place, TempHolds
<1>2. UNCHANGED <<plan, faults, n, options, at, passed, offset, uploaded, ended, status,
                  headers, temp, fp>>
  BY DEF ReadBack, requestVars, replyVars, resultVars, fileVars
<1>3. /\ Cur(c)' = Cur(c) /\ Resp(c)' = Resp(c) /\ (Download(c)' <=> Download(c))
      /\ (Final(c)' <=> Final(c)) /\ (Refused(c)' <=> Refused(c))
  BY <1>2 DEF Cur, Resp, Download, Final, Refused
<1>4. n[c] > 0 /\ Resp(c).length \in Nat /\ Cur(c).body \in Nat /\ Resp(c).status \in 100..599
  BY CallNow DEF ReadBack, Inv
<1>5. Values(c)' /\ Place(c)' /\ OptionsOf(c)'
  <2>1. Values(c)'
    BY <1>1, <1>2, <1>3, <1>4 DEF ReadBack, Inv, Values, Points, Errors
  <2>2. Place(c)'
    BY <1>1, <1>2, <1>3, <1>4 DEF ReadBack, Inv, Place
  <2>3. OptionsOf(c)'
    BY <1>1, <1>2, <1>3, <1>4 DEF ReadBack, Inv, OptionsOf
  <2>4. QED
    BY <2>1, <2>2, <2>3
<1>6. NoTemp(c)' /\ TempHolds(c)'
  BY <1>1, <1>2, <1>3, <1>4 DEF ReadBack, Inv, NoTemp, TempHolds, Begun
<1>7. ResponseHolds(c)'
  BY <1>1, <1>2, <1>3, <1>4 DEF ReadBack, Inv, ResponseHolds, Received, Begun, Answered, Errors
<1>8. RequestHolds(c)'
  BY <1>1, <1>2, <1>3, <1>4 DEF ReadBack, Inv, RequestHolds
<1>9. QED
  BY <1>5, <1>6, <1>7, <1>8 DEF Inv

\* Nothing stays, unless it cannot be removed.
LEMMA CleanupKeeps ==
  ASSUME Shape, NEW c \in Clients, Inv(c), Cleanup(c)
  PROVE  Inv(c)'
<1>1. /\ pc'[c] = "done" /\ pc[c] = "cleanup"
      /\ fp'[c] = FALSE
      /\ "cannot_remove" \notin faults => temp'[c] = NoFile
  <2>1. pc'[c] = "done" /\ pc[c] = "cleanup" /\ fp'[c] = FALSE
    BY SetOne DEF Cleanup, Shape, Goto
  <2>2. "cannot_remove" \notin faults => temp'[c] = NoFile
    BY SetOne DEF Cleanup, Shape, RemoveTemp
  <2>3. QED
    BY <2>1, <2>2
<1>2. UNCHANGED <<plan, faults, n, options, at, passed, offset, uploaded, ended, status,
                  headers, body, outcome>>
  BY DEF Cleanup, requestVars, replyVars, resultVars
<1>3. /\ Cur(c)' = Cur(c) /\ Resp(c)' = Resp(c) /\ (Download(c)' <=> Download(c))
      /\ (Final(c)' <=> Final(c)) /\ (Refused(c)' <=> Refused(c))
  BY <1>2 DEF Cur, Resp, Download, Final, Refused
<1>4. n[c] > 0 /\ Resp(c).length \in Nat /\ Cur(c).body \in Nat /\ Resp(c).status \in 100..599
  BY CallNow DEF Cleanup, Inv
<1>5. Values(c)' /\ Place(c)' /\ OptionsOf(c)'
  <2>1. Values(c)'
    BY <1>1, <1>2, <1>3, <1>4 DEF Cleanup, Inv, Values, Points, Errors
  <2>2. Place(c)'
    BY <1>1, <1>2, <1>3, <1>4 DEF Cleanup, Inv, Place
  <2>3. OptionsOf(c)'
    BY <1>1, <1>2, <1>3, <1>4 DEF Cleanup, Inv, OptionsOf
  <2>4. QED
    BY <2>1, <2>2, <2>3
<1>6. NoTemp(c)' /\ TempHolds(c)'
  BY <1>1, <1>2, <1>3, <1>4 DEF Cleanup, Inv, NoTemp, TempHolds, Begun
<1>7. ResponseHolds(c)'
  BY <1>1, <1>2, <1>3, <1>4 DEF Cleanup, Inv, ResponseHolds, Received, Begun, Answered, Errors
<1>8. RequestHolds(c)'
  BY <1>1, <1>2, <1>3, <1>4 DEF Cleanup, Inv, RequestHolds
<1>9. QED
  BY <1>5, <1>6, <1>7, <1>8 DEF Inv

\* A new call starts from nothing, with the handle of the one before.
LEMMA BeginKeeps ==
  ASSUME Shape, NEW c \in Clients, Inv(c), Begin(c)
  PROVE  Inv(c)'
<1> DEFINE call == plan[c][n[c] + 1]
<1>1. /\ n'[c] = n[c] + 1 /\ options'[c] = Default /\ outcome'[c] = "none"
      /\ at'[c] = 1 /\ passed'[c] = 0
      /\ pc'[c] = IF call.method = "download" THEN "open" ELSE "setup"
  BY SetOne DEF Begin, Reset, Shape, Goto
<1>2. /\ offset'[c] = 0 /\ uploaded'[c] = <<>> /\ ~ended'[c]
      /\ status'[c] = 0 /\ headers'[c] = NoHeaders
  <2>1. /\ offset' = Set(offset, c, 0) /\ uploaded' = Set(uploaded, c, <<>>)
        /\ ended' = Set(ended, c, FALSE)
        /\ status' = Set(status, c, 0) /\ headers' = Set(headers, c, NoHeaders)
    BY DEF Begin
  <2>2. offset'[c] = 0 /\ uploaded'[c] = <<>> /\ status'[c] = 0 /\ headers'[c] = NoHeaders
    BY <2>1, SetOne DEF Shape
  <2>3. ~ended'[c]
    BY <2>1, SetOne DEF Shape
  <2>4. QED
    BY <2>2, <2>3
<1>3. UNCHANGED <<plan, faults, temp, fp>>
  BY DEF Begin, fileVars
<1>4. n[c] \in Nat /\ n[c] + 1 \in 1..Len(plan[c]) /\ pc[c] \in {"idle", "done"}
  <2>1. n[c] \in 0..Len(plan[c]) /\ plan[c] \in Seq(Call)
    BY PlanAssumption DEF Inv, Place, Shape
  <2>2. QED
    BY <2>1 DEF Begin
<1>5. Cur(c)' = call /\ Resp(c)' = call.script[1] /\ (Download(c)' <=> call.method = "download")
  BY <1>1, <1>3 DEF Cur, Resp, Download
<1>6. /\ 1 \in 1..Len(call.script) /\ call.script[1] \in Response
      /\ call.body \in Nat
  <2>1. plan \in Plans
    BY DEF Shape
  <2>2. Len(call.script) \in Nat /\ Len(call.script) > 0
    <3>1. call.script \in Seq(Response) /\ Len(call.script) > 0
      BY <1>4, <2>1, CallIsWellFormed
    <3>2. QED
      BY <3>1
  <2>3. \A r \in 1..Len(call.script) : call.script[r] \in Response
    BY <1>4, <2>1, CallIsWellFormed
  <2>4. call.body \in Nat
    BY <1>4, <2>1, CallIsWellFormed
  <2>5. QED
    BY <2>2, <2>3, <2>4
<1>7. call.script[1].length \in Nat
  BY <1>6 DEF Response
<1> HIDE DEF call
<1>8. Values(c)'
  BY <1>1, <1>2 DEF Values, Points, NoHeaders
<1>9. Place(c)'
  BY <1>1, <1>2, <1>3, <1>4, <1>5, <1>6, <1>7 DEF Place
<1>10. OptionsOf(c)'
  BY <1>1, <1>4 DEF OptionsOf, Default
<1>11. NoTemp(c)'
  BY <1>1, <1>3, <1>4, <1>5 DEF Inv, NoTemp
<1>12. TempHolds(c)'
  BY <1>1, <1>5 DEF TempHolds
<1>13. ResponseHolds(c)'
  BY <1>1 DEF ResponseHolds, Answered
<1>14. RequestHolds(c)'
  BY <1>2, UptoNothing DEF RequestHolds
<1>15. QED
  BY <1>8, <1>9, <1>10, <1>11, <1>12, <1>13, <1>14 DEF Inv

\* The options that are set are the call's own, all of them unless one failed.
LEMMA SetupKeeps ==
  ASSUME Shape, NEW c \in Clients, Inv(c), Setup(c)
  PROVE  Inv(c)'
<1>1. PICK done \in SUBSET Wanted(Cur(c).method) :
        /\ options' = Set(options, c, [o \in Option |-> IF o \in done THEN n[c] ELSE options[c][o]])
        /\ \/ done = Wanted(Cur(c).method) /\ Goto(c, "send") /\ UNCHANGED outcome
           \/ Throw(c, "setup_error")
  BY DEF Setup
<1>2. /\ options'[c] = [o \in Option |-> IF o \in done THEN n[c] ELSE options[c][o]]
      /\ \/ /\ done = Wanted(Cur(c).method) /\ pc'[c] = "send" /\ outcome'[c] = outcome[c]
         \/ /\ pc'[c] = IF Download(c) THEN "cleanup" ELSE "done"
            /\ outcome'[c] = "setup_error"
  BY <1>1, SetOne DEF Shape, Goto, Throw
<1>3. pc[c] = "setup" /\ options[c] = Default /\ n[c] \in Nat /\ passed[c] = 0
  BY CallNow DEF Setup, Inv, OptionsOf, Place
<1>4. UNCHANGED <<plan, faults, n, at, passed, offset, uploaded, ended, status, headers, body,
                  temp, fp>>
  BY DEF Setup, requestVars, replyVars, resultVars, fileVars
<1>5. Cur(c)' = Cur(c) /\ Resp(c)' = Resp(c) /\ (Download(c)' <=> Download(c))
  BY <1>4 DEF Cur, Resp, Download
<1>6. Values(c)' /\ Place(c)'
  BY <1>2, <1>3, <1>4, <1>5 DEF Inv, Values, Place, Points, Errors
<1>7. OptionsOf(c)'
  <2>1. options'[c] = [o \in Option |-> IF o \in done THEN n[c] ELSE 0]
    BY <1>2, <1>3 DEF Default
  <2>2. QED
    BY <1>2, <1>3, <1>4, <1>5, <2>1 DEF OptionsOf
<1>8. NoTemp(c)' /\ TempHolds(c)'
  BY <1>2, <1>3, <1>4, <1>5 DEF Inv, NoTemp, TempHolds
<1>9. ResponseHolds(c)' /\ RequestHolds(c)'
  BY <1>2, <1>3, <1>4, <1>5 DEF Inv, ResponseHolds, Answered, RequestHolds
<1>10. QED
  BY <1>6, <1>7, <1>8, <1>9 DEF Inv

\* read_body continues where it was, and says that it is at the end when it is.
LEMMA ReadBodyKeeps ==
  ASSUME Shape, NEW c \in Clients, Inv(c), ReadBody(c)
  PROVE  Inv(c)'
<1>1. /\ pc[c] = "send" /\ n[c] > 0 /\ Cur(c).body \in Nat /\ offset[c] \in 0..Cur(c).body
      /\ uploaded[c] = Upto(offset[c])
  BY CallNow DEF ReadBody, Inv, Place, RequestHolds
<1>2. PICK k \in 1..Cur(c).body - offset[c] + 1 :
        LET m == Limit(k, Cur(c).body - offset[c]) IN
        /\ uploaded' = Set(uploaded, c, Join(uploaded[c], [u \in 1..m |-> offset[c] + u]))
        /\ offset' = Set(offset, c, offset[c] + m)
        /\ ended' = Set(ended, c, m = 0)
  BY DEF ReadBody, Join
<1> DEFINE m == Limit(k, Cur(c).body - offset[c])
<1>3. m \in 0..Cur(c).body - offset[c] /\ (m = 0 => offset[c] = Cur(c).body)
  BY <1>1 DEF Limit
<1> HIDE DEF m
<1>4. /\ uploaded'[c] = Join(uploaded[c], [u \in 1..m |-> offset[c] + u])
      /\ offset'[c] = offset[c] + m /\ (ended'[c] <=> m = 0)
  BY <1>2, SetOne DEF Shape, m
<1>5. UNCHANGED <<plan, faults, n, pc, options, at, passed, status, headers, body, temp, fp,
                  outcome>>
  BY DEF ReadBody, replyVars, resultVars, fileVars
<1>6. /\ Cur(c)' = Cur(c) /\ Resp(c)' = Resp(c) /\ (Download(c)' <=> Download(c))
      /\ (Final(c)' <=> Final(c)) /\ (Refused(c)' <=> Refused(c))
  BY <1>5 DEF Cur, Resp, Download, Final, Refused
<1>7. RequestHolds(c)'
  <2>1. offset[c] \in Nat /\ m \in Nat
    BY <1>1, <1>3
  <2>2. Join(Upto(offset[c]), [u \in 1..m |-> offset[c] + u]) = Upto(offset[c] + m)
    BY <2>1, CountExtends
  <2>3. uploaded'[c] = Upto(offset[c] + m)
    BY <1>1, <1>4, <2>2
  <2>4. QED
    BY <1>1, <1>3, <1>4, <1>5, <1>6, <2>1, <2>3 DEF RequestHolds
<1>8. Values(c)' /\ OptionsOf(c)' /\ NoTemp(c)'
  BY <1>5, <1>6 DEF Inv, Values, OptionsOf, NoTemp
<1>9. Place(c)'
  <2>1. n[c] > 0 => offset'[c] \in 0..Cur(c).body
    BY <1>1, <1>3, <1>4
  <2>2. Place(c)
    BY DEF Inv
  <2>3. QED
    BY <1>5, <1>6, <2>1, <2>2 DEF Place
<1>10. TempHolds(c)' /\ ResponseHolds(c)'
  BY <1>1, <1>5, <1>6 DEF Inv, TempHolds, ResponseHolds, Answered
<1>11. QED
  BY <1>7, <1>8, <1>9, <1>10 DEF Inv

\* A piece continues the file, or the disk is full.
LEMMA WriteFileKeeps ==
  ASSUME Shape, NEW c \in Clients, Inv(c), WriteFile(c)
  PROVE  Inv(c)'
<1>1. /\ pc[c] = "body" /\ Download(c) /\ n[c] > 0 /\ Resp(c).length \in Nat
      /\ passed[c] \in 0..Resp(c).length /\ temp[c] = Part(c, n[c], at[c], passed[c])
  BY CallNow DEF WriteFile, Inv, Place, TempHolds
<1>2. UNCHANGED <<plan, faults, n, options, at, offset, uploaded, ended, status, headers, body, fp>>
  BY DEF WriteFile, requestVars, resultVars
<1>3. /\ Cur(c)' = Cur(c) /\ Resp(c)' = Resp(c) /\ (Download(c)' <=> Download(c))
  BY <1>2 DEF Cur, Resp, Download
<1>4. \/ /\ pc'[c] = "body" /\ outcome'[c] = outcome[c] /\ passed'[c] \in 0..Resp(c).length
         /\ temp'[c] = Part(c, n[c], at[c], passed'[c])
      \/ /\ pc'[c] = "cleanup" /\ outcome'[c] = "file_error" /\ passed'[c] = passed[c]
  <2>1. PICK k \in 1..Resp(c).length - passed[c] :
          \/ /\ passed' = Set(passed, c, passed[c] + k)
             /\ temp' = Set(temp, c, Join(temp[c], Part(c, n[c], at[c], k)))
             /\ pc' = pc /\ outcome' = outcome
          \/ Throw(c, "file_error") /\ passed' = passed
    BY DEF WriteFile, Piece, Received, Join
  <2>2. k \in Nat /\ passed[c] \in Nat /\ passed[c] + k \in 0..Resp(c).length
    BY <1>1
  <2>3. CASE /\ passed' = Set(passed, c, passed[c] + k)
             /\ temp' = Set(temp, c, Join(temp[c], Part(c, n[c], at[c], k)))
             /\ pc' = pc /\ outcome' = outcome
    <3>1. passed'[c] = passed[c] + k /\ temp'[c] = Join(temp[c], Part(c, n[c], at[c], k))
      BY <2>3, SetOne DEF Shape
    <3>2. temp[c] = Part(c, n[c], at[c], passed[c])
      BY <1>1
    <3>3. Join(Part(c, n[c], at[c], passed[c]), Part(c, n[c], at[c], k))
            = Part(c, n[c], at[c], passed[c] + k)
      BY <2>2, PartExtends
    <3>4. temp'[c] = Part(c, n[c], at[c], passed[c] + k)
      BY <3>1, <3>2, <3>3
    <3>5. QED
      BY <1>1, <2>2, <2>3, <3>1, <3>4
  <2>4. CASE Throw(c, "file_error") /\ passed' = passed
    BY <1>1, <2>4, SetOne DEF Throw, Goto, Shape
  <2>5. QED
    BY <2>1, <2>3, <2>4
<1>5. Values(c)' /\ Place(c)' /\ OptionsOf(c)'
  <2>1. Values(c)'
    BY <1>1, <1>2, <1>3, <1>4 DEF Inv, Values, Points, Errors
  <2>2. Place(c)'
    BY <1>1, <1>2, <1>3, <1>4 DEF Inv, Place
  <2>3. OptionsOf(c)'
    BY <1>1, <1>2, <1>3, <1>4 DEF Inv, OptionsOf
  <2>4. QED
    BY <2>1, <2>2, <2>3
<1>6. NoTemp(c)' /\ TempHolds(c)'
  BY <1>1, <1>2, <1>3, <1>4 DEF Inv, NoTemp, TempHolds
<1>7. ResponseHolds(c)'
  BY <1>1, <1>2, <1>3, <1>4 DEF Inv, ResponseHolds, Answered
<1>8. RequestHolds(c)'
  BY <1>2, <1>3 DEF Inv, RequestHolds
<1>9. QED
  BY <1>5, <1>6, <1>7, <1>8 DEF Inv

\* A download meets interim responses only, which have no body.
LEMMA NextResponseKeeps ==
  ASSUME Shape, NEW c \in Clients, Inv(c), NextResponse(c)
  PROVE  Inv(c)'
<1>1. /\ pc[c] = "body" /\ n[c] > 0 /\ passed[c] = Resp(c).length /\ ~Final(c)
      /\ Resp(c).kind = "continue" => Resp(c).length = 0
      /\ Resp(c).kind \in {"continue", "redirect"} /\ at[c] + 1 \in 1..Len(Cur(c).script)
  BY CallNow DEF NextResponse, Inv, Final, Response
<1>2. pc'[c] = "send" /\ at'[c] = at[c] + 1 /\ passed'[c] = 0
  BY SetOne DEF NextResponse, Shape, Goto
<1>3. UNCHANGED <<plan, faults, n, options, status, headers, body, temp, fp, outcome>>
  BY DEF NextResponse, resultVars, fileVars
<1>4. \/ offset'[c] = 0 /\ uploaded'[c] = <<>> /\ ~ended'[c]
      \/ offset'[c] = offset[c] /\ uploaded'[c] = uploaded[c] /\ ended'[c] = ended[c]
  <2>1. CASE Resp(c).kind = "redirect"
    <3>1. /\ offset' = Set(offset, c, 0) /\ uploaded' = Set(uploaded, c, <<>>)
          /\ ended' = Set(ended, c, FALSE)
      BY <2>1, Rewinds DEF NextResponse
    <3>2. offset'[c] = 0 /\ uploaded'[c] = <<>>
      BY <3>1, SetOne DEF Shape
    <3>3. ~ended'[c]
      BY <3>1, SetOne DEF Shape
    <3>4. QED
      BY <3>2, <3>3
  <2>2. CASE Resp(c).kind # "redirect"
    BY <2>2 DEF NextResponse, requestVars
  <2>3. QED
    BY <2>1, <2>2
<1>5. Cur(c)' = Cur(c) /\ (Download(c)' <=> Download(c)) /\ Resp(c)' = Cur(c).script[at[c] + 1]
  BY <1>2, <1>3 DEF Cur, Resp, Download
<1>6. Resp(c)'.length \in Nat /\ Cur(c).body \in Nat
  <2>1. n[c] \in 1..Len(plan[c]) /\ plan \in Plans
    BY <1>1, CallNow DEF Inv, Shape
  <2>2. \A r \in 1..Len(Cur(c).script) : Cur(c).script[r] \in Response
    BY <2>1, CallIsWellFormed DEF Cur
  <2>3. Cur(c).body \in Nat
    BY <2>1, CallIsWellFormed DEF Cur
  <2>4. QED
    BY <1>1, <1>5, <2>2, <2>3 DEF Response
<1>7. Values(c)' /\ OptionsOf(c)'
  BY <1>1, <1>2, <1>3, <1>5 DEF Inv, Values, OptionsOf, Points
<1>8. Place(c)'
  BY <1>1, <1>2, <1>3, <1>4, <1>5, <1>6 DEF Inv, Place
<1>9. NoTemp(c)'
  BY <1>1, <1>2, <1>3, <1>5 DEF Inv, NoTemp
<1>10. TempHolds(c)'
  <2>1. CASE Download(c)
    <3>1. options[c]["follow"] = 0
      BY <1>1, <2>1 DEF Inv, OptionsOf, Option, Wanted, Download
    <3>2. passed[c] = 0
      BY <1>1, <3>1 DEF Final
    <3>3. temp[c] = <<>>
      BY <1>1, <2>1, <3>2, PartEmpty DEF Inv, TempHolds
    <3>4. QED
      BY <1>2, <1>3, <3>3, PartEmpty DEF TempHolds
  <2>2. CASE ~Download(c)
    BY <1>2, <1>5, <2>2 DEF TempHolds
  <2>3. QED
    BY <2>1, <2>2
<1>11. ResponseHolds(c)'
  BY <1>2 DEF ResponseHolds, Answered
<1>12. RequestHolds(c)'
  BY <1>1, <1>3, <1>4, <1>5, UptoNothing DEF Inv, RequestHolds
<1>13. QED
  BY <1>7, <1>8, <1>9, <1>10, <1>11, <1>12 DEF Inv

\* All steps of a client.
LEMMA OwnInv ==
  ASSUME Shape, NEW c \in Clients, Inv(c), Step(c)
  PROVE  Inv(c)'
BY BeginKeeps, OpenTempKeeps, ChmodKeeps, SetupKeeps, ReadBodyKeeps, StatusLineKeeps,
   HeaderLineKeeps, HeadersEndKeeps, WriteBodyKeeps, WriteFileKeeps, NextResponseKeeps,
   PerformedKeeps, PerformFailsKeeps, CloseFpKeeps, RenameKeeps, ReadBackKeeps, CleanupKeeps,
   KillKeeps DEF Step

-----------------------------------------------------------------------------
(* What the path holds.                                                    *)

\* Only a rename changes the path.
LEMMA OnlyRename ==
  ASSUME NEW c \in Clients, Step(c)
  PROVE  Rename(c) \/ target' = target
<1>1. CASE Begin(c) \/ Chmod(c) \/ Setup(c) \/ ReadBody(c) \/ StatusLine(c) \/ HeaderLine(c)
  BY <1>1 DEF Begin, Chmod, Setup, ReadBody, StatusLine, HeaderLine, fileVars
<1>2. CASE HeadersEnd(c) \/ WriteBody(c) \/ NextResponse(c) \/ Performed(c) \/ PerformFails(c)
  BY <1>2 DEF HeadersEnd, WriteBody, NextResponse, Performed, PerformFails, fileVars
<1>3. CASE OpenTemp(c) \/ WriteFile(c) \/ CloseFp(c) \/ ReadBack(c) \/ Cleanup(c) \/ Kill(c)
  BY <1>3 DEF OpenTemp, WriteFile, CloseFp, ReadBack, Cleanup, Kill, fileVars
<1>4. QED
  BY <1>1, <1>2, <1>3 DEF Step

\* After a call has returned nothing of it changes before the next begins.
LEMMA AfterReturn ==
  ASSUME Shape, NEW c \in Clients, Step(c), pc[c] \in {"cleanup", "done", "killed"}
  PROVE  \/ n'[c] = n[c] + 1
         \/ /\ pc'[c] \in {"cleanup", "done", "killed"} /\ n'[c] = n[c]
            /\ outcome'[c] = outcome[c] /\ status'[c] = status[c]
<1>1. CASE Begin(c)
  BY <1>1, SetOne DEF Begin, Shape
<1>2. CASE Cleanup(c)
  BY <1>2, SetOne DEF Cleanup, Goto, Shape, resultVars
<1>3. CASE Kill(c)
  BY <1>3, SetOne DEF Kill, Goto, Shape, resultVars
<1>4. Begin(c) \/ Cleanup(c) \/ Kill(c)
  BY DEF Step, OpenTemp, Chmod, Setup, ReadBody, StatusLine, HeaderLine, HeadersEnd, WriteBody,
         WriteFile, NextResponse, Performed, PerformFails, CloseFp, Rename, ReadBack
<1>5. QED
  BY <1>1, <1>2, <1>3, <1>4

\* A body that is in place stays whole while the path is not written.
LEMMA PlacedStays ==
  ASSUME Shape, NEW c \in Clients, Step(c), target' = target, KeepsAll(c),
         plan' = plan, faults' = faults,
         NEW d \in Clients, Place(d), NEW i \in Nat, NEW r \in Nat, NEW k \in Nat,
         Placed(d, i, r, k)
  PROVE  Placed(d, i, r, k)'
<1>1. n[d] \in Nat /\ i \in 1..n[d]
  BY PlanAssumption DEF Place, Placed, Shape
<1>2. /\ n'[d] \in Nat /\ n'[d] >= n[d]
      /\ i = n'[d] => /\ i = n[d] /\ pc'[d] \in {"cleanup", "done", "killed"}
                      /\ outcome'[d] = outcome[d] /\ status'[d] = status[d]
  <2>1. CASE d = c
    <3>1. CASE pc[c] \in {"cleanup", "done", "killed"}
      BY <1>1, <2>1, <3>1, AfterReturn
    <3>2. CASE pc[c] \notin {"cleanup", "done", "killed"}
      <4>1. i < n[c]
        BY <1>1, <2>1, <3>2 DEF Placed
      <4>2. n'[c] = n[c] \/ n'[c] = n[c] + 1
        <5>1. CASE Begin(c)
          BY <5>1, SetOne DEF Shape, Begin
        <5>2. CASE ~Begin(c)
          BY <5>2 DEF Step, OpenTemp, Chmod, Setup, ReadBody, StatusLine, HeaderLine, HeadersEnd,
             WriteBody, WriteFile, NextResponse, Performed, PerformFails, CloseFp, Rename,
             ReadBack, Cleanup, Kill
        <5>3. QED
          BY <5>1, <5>2
      <4>3. QED
        BY <1>1, <2>1, <4>1, <4>2
    <3>3. QED
      BY <3>1, <3>2
  <2>2. CASE d # c
    <3>1. n'[d] = n[d] /\ pc'[d] = pc[d] /\ outcome'[d] = outcome[d] /\ status'[d] = status[d]
      BY <2>2 DEF KeepsAll, Keeps
    <3>2. QED
      BY <1>1, <3>1 DEF Placed
  <2>3. QED
    BY <2>1, <2>2
<1>3. i \in 1..n'[d]
  BY <1>1, <1>2
<1>4. i = n'[d] => ~Refused(d)'
  BY <1>2 DEF Placed, Refused, Cur
<1>5. QED
  BY <1>2, <1>3, <1>4 DEF Placed

\* What a rename puts in place is a body of the call.
LEMMA RenamePlaces ==
  ASSUME Shape, NEW c \in Clients, Inv(c), Rename(c), target' # target
  PROVE  \E i, r, k \in Nat : Placed(c, i, r, k)'
<1>1. /\ pc[c] = "place" /\ n[c] > 0 /\ n[c] \in 1..Len(plan[c]) /\ Download(c) /\ Final(c)
      /\ at[c] \in 1..Len(Cur(c).script) /\ Begun(c, temp[c]) /\ Resp(c).length \in Nat
  BY CallNow DEF Rename, Inv, Place, TempHolds
<1>2. /\ target' = temp[c] /\ outcome' = Set(outcome, c, "returned") /\ pc' = Set(pc, c, "cleanup")
      /\ UNCHANGED <<plan, faults, n, status>> /\ ~Refused(c)
  BY DEF Rename, Goto, resultVars
<1>3. /\ n'[c] = n[c] /\ outcome'[c] = "returned" /\ pc'[c] = "cleanup"
  BY <1>2, SetOne DEF Shape
<1>4. ~Refused(c)'
  BY <1>2 DEF Refused, Cur
<1>5. PICK k \in 0..Resp(c).length :
        temp[c] = Part(c, n[c], at[c], k) /\ ("disk_full" \notin faults => k = Resp(c).length)
  BY <1>1 DEF Begun
<1>6. DOMAIN Cur(c).script = 1..Len(Cur(c).script)
  BY <1>1, CallIsWellFormed DEF Cur, Shape
<1>7. PICK i \in Nat, r \in Nat : i = n[c] /\ r = at[c]
  BY <1>1
<1>8. /\ i \in 1..n'[c] /\ r \in DOMAIN plan'[c][i].script /\ plan'[c][i].method = "download"
      /\ plan'[c][i].script[r].kind # "continue"
  <2>1. i \in 1..n'[c] /\ plan' = plan /\ Cur(c) = plan[c][i] /\ Resp(c) = Cur(c).script[r]
    BY <1>1, <1>2, <1>3, <1>7 DEF Resp, Cur
  <2>2. r \in DOMAIN Cur(c).script
    BY <1>1, <1>6, <1>7
  <2>3. Cur(c).method = "download" /\ Resp(c).kind # "continue"
    BY <1>1 DEF Final, Download
  <2>4. QED
    BY <2>1, <2>2, <2>3
<1>9. /\ k \in 0..plan'[c][i].script[r].length
      /\ "disk_full" \notin faults' => k = plan'[c][i].script[r].length
      /\ target' = Part(c, i, r, k)
  BY <1>2, <1>5, <1>7 DEF Resp, Cur
<1>10. Placed(c, i, r, k)'
  BY <1>3, <1>4, <1>8, <1>9 DEF Placed
<1>11. QED
  BY <1>5, <1>10

-----------------------------------------------------------------------------
(* The invariant.                                                          *)

\* The invariant holds before any call.
LEMMA InvInit == Init => CurlInv
<1> SUFFICES ASSUME Init PROVE CurlInv
  OBVIOUS
<1>1. Shape
  BY DEF Init, Shape
<1>2. ASSUME NEW c \in Clients PROVE Inv(c)
  <2>1. /\ n[c] = 0 /\ pc[c] = "idle" /\ options[c] = Default /\ passed[c] = 0 /\ offset[c] = 0
        /\ uploaded[c] = <<>> /\ ~ended[c] /\ status[c] = 0 /\ headers[c] = NoHeaders
        /\ temp[c] = NoFile /\ ~fp[c] /\ outcome[c] = "none"
    BY DEF Init
  <2>2. plan[c] \in Seq(Call)
    BY <1>1, PlanAssumption DEF Shape
  <2>3. 0 \in 0..Len(plan[c])
    BY <2>2
  <2>4. Values(c) /\ Place(c) /\ OptionsOf(c)
    BY <2>1, <2>3 DEF Values, Place, OptionsOf, Points, Default, NoHeaders
  <2>5. NoTemp(c) /\ TempHolds(c) /\ ResponseHolds(c) /\ RequestHolds(c)
    BY <2>1, UptoNothing DEF NoTemp, TempHolds, ResponseHolds, Answered, RequestHolds
  <2>6. QED
    BY <2>4, <2>5 DEF Inv
<1>3. TargetHolds
  BY DEF Init, TargetHolds
<1>4. QED
  BY <1>1, <1>2, <1>3 DEF CurlInv

\* Every step of every client keeps the invariant.
LEMMA InvStep == CurlInv /\ [Next]_vars => CurlInv'
<1> SUFFICES ASSUME CurlInv, [Next]_vars PROVE CurlInv'
  OBVIOUS
<1>1. Shape /\ (\A d \in Clients : Inv(d)) /\ TargetHolds
  BY DEF CurlInv
<1>2. ASSUME NEW c \in Clients, Step(c) PROVE CurlInv'
  <2>1. KeepsAll(c) /\ plan' = plan /\ faults' = faults /\ Shape'
    BY <1>1, <1>2, OthersStay, ShapeStep
  <2>2. ASSUME NEW d \in Clients PROVE Inv(d)'
    BY <1>1, <1>2, <2>1, OwnInv, OtherInv
  <2>3. TargetHolds'
    <3>1. CASE target' = target
      <4>1. CASE target = Old
        BY <3>1, <4>1 DEF TargetHolds, Old, From
      <4>2. CASE \E d \in Clients, i, r, k \in Nat : Placed(d, i, r, k)
        <5>1. PICK d \in Clients, i \in Nat, r \in Nat, k \in Nat : Placed(d, i, r, k)
          BY <4>2
        <5>2. Place(d)
          BY <1>1 DEF Inv
        <5>3. Placed(d, i, r, k)'
          BY <1>1, <1>2, <2>1, <3>1, <5>1, <5>2, PlacedStays
        <5>4. QED
          BY <5>3 DEF TargetHolds
      <4>3. QED
        BY <1>1, <4>1, <4>2 DEF TargetHolds
    <3>2. CASE target' # target
      <4>1. \E i, r, k \in Nat : Placed(c, i, r, k)'
        BY <1>1, <1>2, <3>2, OnlyRename, RenamePlaces
      <4>2. QED
        BY <4>1 DEF TargetHolds
    <3>3. QED
      BY <3>1, <3>2
  <2>4. QED
    BY <2>1, <2>2, <2>3 DEF CurlInv
<1>3. CASE UNCHANGED vars
  <2>1. /\ UNCHANGED <<plan, faults, n, pc, options, at, given, passed, offset, uploaded, ended>>
        /\ UNCHANGED <<status, headers, body, temp, fp, target, outcome>>
    BY <1>3 DEF vars, requestVars, replyVars, resultVars, fileVars
  <2>2. Shape'
    BY <1>1, <2>1 DEF Shape
  <2>3. ASSUME NEW d \in Clients PROVE Inv(d)'
    <3>1. Cur(d)' = Cur(d) /\ Resp(d)' = Resp(d)
      BY <2>1 DEF Cur, Resp
    <3>2. (Download(d)' <=> Download(d)) /\ (Final(d)' <=> Final(d)) /\ (Refused(d)' <=> Refused(d))
      BY <2>1, <3>1 DEF Download, Final, Refused
    <3>3. Values(d)' /\ Place(d)' /\ OptionsOf(d)' /\ NoTemp(d)'
      BY <1>1, <2>1, <3>1, <3>2 DEF Inv, Values, Place, OptionsOf, NoTemp
    <3>4. TempHolds(d)' /\ ResponseHolds(d)' /\ RequestHolds(d)'
      BY <1>1, <2>1, <3>1, <3>2 DEF Inv, TempHolds, Begun, ResponseHolds, Answered, Received,
         RequestHolds
    <3>5. QED
      BY <3>3, <3>4 DEF Inv
  <2>4. TargetHolds'
    <3>1. \A d \in Clients : Refused(d)' <=> Refused(d)
      BY <2>1 DEF Refused, Cur
    <3>2. ASSUME NEW d \in Clients, NEW i \in Nat, NEW r \in Nat, NEW k \in Nat, Placed(d, i, r, k)
          PROVE  Placed(d, i, r, k)'
      BY <2>1, <3>1, <3>2 DEF Placed
    <3>3. TargetHolds
      BY <1>1 DEF TargetHolds
    <3>4. QED
      BY <2>1, <3>2, <3>3 DEF TargetHolds
  <2>5. QED
    BY <2>2, <2>3, <2>4 DEF CurlInv
<1>4. QED
  BY <1>2, <1>3 DEF Next, Over

\* The invariant that the properties rest on: where each client is, what its handle
\* was set to, what its temporary file and its response hold, what the path holds.
THEOREM CurlInvariant == Spec => []CurlInv
<1>1. QED
  BY InvInit, InvStep, PTL DEF Spec

-----------------------------------------------------------------------------
(* What callers rely on.                                                   *)

\* Every variable has a value of its type.
THEOREM TypeCorrect == Spec => []TypeOK
<1>1. CurlInv => TypeOK
  BY DEF CurlInv, Shape, Inv, Values, Place, OptionsOf, TypeOK
<1>2. QED
  BY <1>1, CurlInvariant, PTL

\* A call that is over leaves no temporary file (download_temp_file's destructor
\* and constructor), unless it cannot be removed.
THEOREM TempIsRemoved == Spec => []NoTempLeft
<1>1. CurlInv => NoTempLeft
  BY DEF CurlInv, Inv, NoTemp, NoTempLeft
<1>2. QED
  BY <1>1, CurlInvariant, PTL

\* Readers of the path find the old file or all of one body, unless the disk
\* fills up (download_temp_file::write).
THEOREM TargetIsWhole == Spec => []TargetWhole
<1>1. CurlInv => TargetWhole
  <2> SUFFICES ASSUME CurlInv, "disk_full" \notin faults, target # Old PROVE target \in Bodies
    BY DEF TargetWhole
  <2>1. PICK c \in Clients, i \in Nat, r \in Nat, k \in Nat : Placed(c, i, r, k)
    BY DEF CurlInv, TargetHolds
  <2>2. /\ i \in {j \in 1..n[c] : plan[c][j].method = "download"}
        /\ r \in {s \in DOMAIN plan[c][i].script : plan[c][i].script[s].kind # "continue"}
        /\ target = Part(c, i, r, plan[c][i].script[r].length)
    BY <2>1 DEF Placed
  <2>3. QED
    BY <2>2 DEF Bodies
<1>2. QED
  BY <1>1, CurlInvariant, PTL

\* A download that throws has not replaced the file.
THEOREM ThrowKeepsTarget == Spec => []ThrowLeavesTarget
<1>1. CurlInv => ThrowLeavesTarget
  <2> SUFFICES ASSUME CurlInv, NEW d \in Clients, outcome[d] \in Errors, NEW u \in DOMAIN target,
                      target[u] = From(d, n[d], at[d])
               PROVE  FALSE
    BY DEF ThrowLeavesTarget
  <2>1. CASE target = Old
    BY <2>1, ClientAssumption DEF Old, From
  <2>2. CASE \E c \in Clients, i, r, k \in Nat : Placed(c, i, r, k)
    <3>1. PICK c \in Clients, i \in Nat, r \in Nat, k \in Nat : Placed(c, i, r, k)
      BY <2>2
    <3>2. target[u] = From(c, i, r)
      BY <3>1 DEF Placed, Part
    <3>3. c = d /\ i = n[d]
      BY <3>2 DEF From
    <3>4. QED
      BY <3>1, <3>3 DEF Placed, Errors
  <2>3. QED
    BY <2>1, <2>2 DEF CurlInv, TargetHolds
<1>2. QED
  BY <1>1, CurlInvariant, PTL

\* An error page does not become the file of a caller that asked for the response,
\* if servers speak HTTP/1 (download_file_helper).
THEOREM ErrorsAreKeptOut == Spec => []KeepsNumberedErrorsOut
<1>1. CurlInv => KeepsNumberedErrorsOut
  <2> SUFFICES ASSUME CurlInv, NEW c \in Clients, pc[c] = "done", outcome[c] = "returned", Error(c),
                      \A d \in Clients : n[d] > 0 => Numbered(d)
               PROVE  /\ \A u \in DOMAIN target : target[u] # From(c, n[c], at[c])
                      /\ "disk_full" \notin faults => body[c] = Received(c, Resp(c).length)
    BY DEF KeepsNumberedErrorsOut, KeepsErrorsOut
  <2>1. Shape /\ Inv(c) /\ n[c] > 0 /\ at[c] \in 1..Len(Cur(c).script)
    BY CallNow DEF CurlInv, Inv
  <2>2. Resp(c).numbered
    <3>1. DOMAIN Cur(c).script = 1..Len(Cur(c).script)
      BY <2>1, CallNow, CallIsWellFormed DEF Cur, Shape, Inv
    <3>2. QED
      BY <2>1, <3>1 DEF Numbered, Resp
  <2>3. status[c] = Resp(c).status
    BY <2>1, <2>2 DEF Inv, ResponseHolds, Answered
  <2>4. Refused(c) /\ Download(c)
    BY <2>3 DEF Error, Refused
  <2>5. Begun(c, body[c])
    BY <2>1, <2>4 DEF Inv, ResponseHolds, Answered
  <2>6. ASSUME NEW u \in DOMAIN target, target[u] = From(c, n[c], at[c]) PROVE FALSE
    <3>1. CASE target = Old
      BY <2>6, <3>1, ClientAssumption DEF Old, From
    <3>2. CASE \E d \in Clients, i, r, k \in Nat : Placed(d, i, r, k)
      <4>1. PICK d \in Clients, i \in Nat, r \in Nat, k \in Nat : Placed(d, i, r, k)
        BY <3>2
      <4>2. target[u] = From(d, i, r)
        BY <2>6, <4>1 DEF Placed, Part
      <4>3. c = d /\ i = n[c]
        BY <2>6, <4>2 DEF From
      <4>4. QED
        BY <2>4, <4>1, <4>3 DEF Placed
    <3>3. QED
      BY <3>1, <3>2 DEF CurlInv, TargetHolds
  <2>7. QED
    BY <2>5, <2>6 DEF Begun, Received
<1>2. QED
  BY <1>1, CurlInvariant, PTL

\* What a request returns is the body of the last response (write_header, write_body).
THEOREM BodyIsTheLast == Spec => []BodyIsLast
<1>1. CurlInv => BodyIsLast
  BY DEF CurlInv, Inv, ResponseHolds, Answered, BodyIsLast
<1>2. QED
  BY <1>1, CurlInvariant, PTL

\* The server is sent the request's body from its beginning (read_body, seek_body).
THEOREM UploadIsTheBody == Spec => []UploadIsBody
<1>1. CurlInv => UploadIsBody
  <2> SUFFICES ASSUME CurlInv, NEW c \in Clients
               PROVE  /\ uploaded[c] = [u \in 1..Len(uploaded[c]) |-> u]
                      /\ ended[c] => Len(uploaded[c]) = Cur(c).body
    BY DEF UploadIsBody
  <2>1. Shape /\ Inv(c)
    BY DEF CurlInv
  <2>2. offset[c] \in Nat
    BY <2>1 DEF Inv, RequestHolds
  <2>3. Len(Upto(offset[c])) = offset[c]
    BY <2>2 DEF Upto
  <2>4. QED
    BY <2>1, <2>3 DEF Inv, RequestHolds, Upto
<1>2. QED
  BY <1>1, CurlInvariant, PTL

\* A request runs with the options of its own call (curl_easy_reset).
THEOREM OptionsAreOwn == Spec => []OwnOptions
<1>1. CurlInv => OwnOptions
  BY DEF CurlInv, Inv, OptionsOf, OwnOptions
<1>2. QED
  BY <1>1, CurlInvariant, PTL

=============================================================================

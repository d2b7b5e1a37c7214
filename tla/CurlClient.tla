----------------------------- MODULE CurlClient -----------------------------
(***************************************************************************)
(* HTTP clients (curl/src/client.cc) that get, post, put and download to   *)
(* one path: setting up the libcurl handle, the callbacks that libcurl     *)
(* calls while it performs the request, and the temporary file of a        *)
(* download.  Each client is used by one thread of a process of its own    *)
(* and may be killed.  What servers and libcurl do is a script, with       *)
(* failures at every point.                                                *)
(***************************************************************************)
EXTENDS Integers, Sequences

CONSTANTS
  Clients,    \* the clients
  Plans,      \* for each client the calls it makes, one plan per exploration
  Names,      \* names of response headers
  Faults,     \* the sets of faults explored
  NoFile      \* stands for the contents of a file that does not exist

Methods == {"get", "post", "put", "download"}
Fault == {"disk_full", "cannot_remove"}

\* A response: "continue" is interim and has no body, "redirect" can be
\* followed, "final" ends the exchange.  `numbered' says that its status line
\* has a minor version (HTTP/1.1 200, but HTTP/2 200).
Response == [kind : {"continue", "redirect", "final"}, status : 100..599, numbered : BOOLEAN,
             names : SUBSET Names, length : Nat]

\* `body' is the length of the request's body; `withResponse' and `perms' are
\* the optional parameters of download_file.
Call == [method : Methods, body : Nat, withResponse : BOOLEAN, perms : BOOLEAN,
         script : Seq(Response)]

WellFormed(call) ==
  LET last == Len(call.script) IN
  /\ call \in Call
  /\ last > 0 /\ call.script[last].kind = "final"
  /\ \A r \in 1..last : call.script[r].kind = "continue" => call.script[r].length = 0

ASSUME PlanAssumption ==
  \A plan \in Plans : /\ DOMAIN plan = Clients
                      /\ \A c \in Clients : \A i \in DOMAIN plan[c] : WellFormed(plan[c][i])
                      /\ \A c \in Clients : plan[c] \in Seq(Call)
ASSUME FaultAssumption == Faults \subseteq SUBSET Fault
ASSUME ClientAssumption == "nobody" \notin Clients

\* The body of response r to call i of client c: each unit names where it is from.
From(c, i, r) == [client |-> c, call |-> i, response |-> r]
Part(c, i, r, k) == [u \in 1..k |-> From(c, i, r)]
Old == <<From("nobody", 0, 0)>>

Option == {"method", "follow", "read", "write", "errbuf"}

VARIABLES
  plan, faults,
  n,          \* the number of the call each client is at
  pc,         \* where the client is in it
  options,    \* the call that set each option of the handle, 0 for none
  at,         \* the response that libcurl is at
  offset,     \* read_offset
  uploaded,   \* the units of the request's body the server was sent
  ended,      \* and whether it was sent the end of it
  given,      \* the header lines of this response that were handed over
  passed,     \* the units of its body that were handed over
  status, headers, body,   \* what the response object holds
  temp,       \* what the temporary file holds
  fp,         \* the temporary file is open
  target,     \* what the path holds
  outcome     \* how the last call ended

requestVars == <<offset, uploaded, ended>>
replyVars == <<at, given, passed>>
resultVars == <<status, headers, body>>
fileVars == <<temp, fp, target>>
vars == <<plan, faults, n, pc, options, requestVars, replyVars, resultVars, fileVars, outcome>>

Cur(c) == plan[c][n[c]]
Resp(c) == Cur(c).script[at[c]]
Download(c) == Cur(c).method = "download"

Set(f, c, v) == [f EXCEPT ![c] = v]
Goto(c, point) == pc' = Set(pc, c, point)

Default == [o \in Option |-> 0]
NoHeaders == [name \in Names |-> 0]

Init ==
  /\ plan \in Plans /\ faults \in Faults
  /\ n = [c \in Clients |-> 0] /\ pc = [c \in Clients |-> "idle"]
  /\ options = [c \in Clients |-> Default]
  /\ at = [c \in Clients |-> 0] /\ given = [c \in Clients |-> {}]
  /\ passed = [c \in Clients |-> 0]
  /\ offset = [c \in Clients |-> 0] /\ uploaded = [c \in Clients |-> <<>>]
  /\ ended = [c \in Clients |-> FALSE]
  /\ status = [c \in Clients |-> 0] /\ headers = [c \in Clients |-> NoHeaders]
  /\ body = [c \in Clients |-> <<>>]
  /\ temp = [c \in Clients |-> NoFile] /\ fp = [c \in Clients |-> FALSE] /\ target = Old
  /\ outcome = [c \in Clients |-> "none"]

-----------------------------------------------------------------------------
(* perform and download_file_helper, up to curl_easy_perform.              *)

\* An exception.  It destroys the temporary file object, if there is one.
Throw(c, exception) ==
  /\ outcome' = Set(outcome, c, exception)
  /\ Goto(c, IF Download(c) THEN "cleanup" ELSE "done")

ResetNothing(c) == UNCHANGED options
\* curl_easy_reset
Reset(c) == options' = Set(options, c, Default)

\* A new response, a new context, and the handle of the calls before.
Begin(c) ==
  /\ pc[c] \in {"idle", "done"} /\ n[c] < Len(plan[c])
  /\ n' = Set(n, c, n[c] + 1)
  /\ Reset(c)
  /\ outcome' = Set(outcome, c, "none")
  /\ at' = Set(at, c, 1) /\ given' = Set(given, c, {}) /\ passed' = Set(passed, c, 0)
  /\ offset' = Set(offset, c, 0) /\ uploaded' = Set(uploaded, c, <<>>)
  /\ ended' = Set(ended, c, FALSE)
  /\ status' = Set(status, c, 0) /\ headers' = Set(headers, c, NoHeaders)
  /\ body' = Set(body, c, <<>>)
  /\ Goto(c, IF plan[c][n[c] + 1].method = "download" THEN "open" ELSE "setup")
  /\ UNCHANGED <<plan, faults, fileVars>>

\* The temporary file has a name of its own.  An exception of the constructor
\* leaves no object to destroy.
OpenTemp(c) ==
  /\ pc[c] = "open"
  /\ \/ /\ temp' = Set(temp, c, <<>>) /\ fp' = Set(fp, c, TRUE)
        /\ Goto(c, IF Cur(c).perms THEN "chmod" ELSE "setup")
        /\ UNCHANGED outcome
     \/ /\ outcome' = Set(outcome, c, "file_error")
        /\ Goto(c, "done")
        /\ UNCHANGED <<temp, fp>>
  /\ UNCHANGED <<plan, faults, n, options, requestVars, replyVars, resultVars, target>>

\* If it cannot get its permissions the constructor removes the file itself.
Chmod(c) ==
  /\ pc[c] = "chmod"
  /\ \/ Goto(c, "setup") /\ UNCHANGED outcome
     \/ Throw(c, "file_error")
  /\ UNCHANGED <<plan, faults, n, options, requestVars, replyVars, resultVars, fileVars>>

Wanted(method) ==
  CASE method = "get" -> {"follow", "read", "write"}
    [] method \in {"post", "put"} -> {"method", "follow", "read", "write"}
    [] method = "download" -> {"write", "errbuf"}

\* The options are set one by one, and any may fail.
Setup(c) ==
  /\ pc[c] = "setup"
  /\ \E done \in SUBSET Wanted(Cur(c).method) :
       /\ options' = Set(options, c, [o \in Option |-> IF o \in done THEN n[c] ELSE options[c][o]])
       /\ \/ done = Wanted(Cur(c).method) /\ Goto(c, "send") /\ UNCHANGED outcome
          \/ Throw(c, "setup_error")
  /\ UNCHANGED <<plan, faults, n, requestVars, replyVars, resultVars, fileVars>>

-----------------------------------------------------------------------------
(* curl_easy_perform: the request.                                         *)

LimitNothing(k, left) == k
Limit(k, left) == IF k > left THEN left ELSE k

\* read_body gives out at most what is left; nothing is the end.  A server may
\* answer before it has got it all.
ReadBody(c) ==
  /\ pc[c] = "send" /\ options[c]["method"] # 0 /\ ~ended[c]
  /\ LET left == Cur(c).body - offset[c] IN
     \E k \in 1..left + 1 :
       LET m == Limit(k, left) IN
       /\ uploaded' = Set(uploaded, c, uploaded[c] \o [u \in 1..m |-> offset[c] + u])
       /\ offset' = Set(offset, c, offset[c] + m)
       /\ ended' = Set(ended, c, m = 0)
  /\ UNCHANGED <<plan, faults, n, pc, options, replyVars, resultVars, fileVars, outcome>>

SeekNowhere(c, origin, o) == UNCHANGED offset
\* seek_body, which fails for what is not an offset from the beginning.
Seek(c, origin, o) ==
  IF origin = "SEEK_SET" /\ o >= 0 THEN offset' = Set(offset, c, o) ELSE UNCHANGED offset
\* To send a body again libcurl goes back to its beginning.
Rewind(c) == Seek(c, "SEEK_SET", 0)

-----------------------------------------------------------------------------
(* curl_easy_perform: the responses.                                       *)

KeepBody(c) == UNCHANGED body
ClearBody(c) == body' = Set(body, c, <<>>)

\* write_header with a status line: the regular expression asks for a minor version.
StatusLine(c) ==
  /\ pc[c] = "send"
  /\ ClearBody(c)
  /\ status' = IF Resp(c).numbered THEN Set(status, c, Resp(c).status) ELSE status
  /\ Goto(c, "headers")
  /\ UNCHANGED <<plan, faults, n, options, requestVars, replyVars, headers, fileVars, outcome>>

\* write_header with a header: add_header keeps what it has.
HeaderLine(c) ==
  /\ pc[c] = "headers"
  /\ \E name \in Resp(c).names \ given[c] :
       /\ given' = Set(given, c, given[c] \cup {name})
       /\ headers' = Set(headers, c, [headers[c] EXCEPT ![name] = IF @ = 0 THEN at[c] ELSE @])
  /\ UNCHANGED <<plan, faults, n, pc, options, requestVars, at, passed, status, body, fileVars,
                 outcome>>

HeadersEnd(c) ==
  /\ pc[c] = "headers" /\ given[c] = Resp(c).names
  /\ Goto(c, "body")
  /\ UNCHANGED <<plan, faults, n, options, requestVars, replyVars, resultVars, fileVars, outcome>>

Piece(c) == 1..Resp(c).length - passed[c]
Received(c, k) == Part(c, n[c], at[c], k)

\* write_body
WriteBody(c) ==
  /\ pc[c] = "body" /\ ~Download(c)
  /\ \E k \in Piece(c) : /\ passed' = Set(passed, c, passed[c] + k)
                        /\ body' = Set(body, c, body[c] \o Received(c, k))
  /\ UNCHANGED <<plan, faults, n, pc, options, requestVars, at, given, status, headers, fileVars,
                 outcome>>

\* write_file: a short count of fwrite is CURLE_WRITE_ERROR.
WriteFile(c) ==
  /\ pc[c] = "body" /\ Download(c)
  /\ \E k \in Piece(c) :
       \/ /\ passed' = Set(passed, c, passed[c] + k)
          /\ temp' = Set(temp, c, temp[c] \o Received(c, k))
          /\ UNCHANGED <<pc, outcome>>
       \/ "disk_full" \in faults /\ Throw(c, "file_error") /\ UNCHANGED <<passed, temp>>
  /\ UNCHANGED <<plan, faults, n, options, requestVars, at, given, resultVars, fp, target>>

\* Without CURLOPT_FOLLOWLOCATION a redirection is the answer.
Final(c) ==
  \/ Resp(c).kind = "final"
  \/ Resp(c).kind = "redirect" /\ options[c]["follow"] = 0

\* The next response, to the same request, or to the next, which may send the
\* body again.
NextResponse(c) ==
  /\ pc[c] = "body" /\ passed[c] = Resp(c).length /\ ~Final(c)
  /\ at' = Set(at, c, at[c] + 1) /\ given' = Set(given, c, {}) /\ passed' = Set(passed, c, 0)
  /\ IF Resp(c).kind = "redirect"
     THEN Rewind(c) /\ uploaded' = Set(uploaded, c, <<>>) /\ ended' = Set(ended, c, FALSE)
     ELSE UNCHANGED requestVars
  /\ Goto(c, "send")
  /\ UNCHANGED <<plan, faults, n, options, resultVars, fileVars, outcome>>

\* curl_easy_perform returns.
Performed(c) ==
  /\ pc[c] = "body" /\ passed[c] = Resp(c).length /\ Final(c)
  /\ IF Download(c) THEN Goto(c, "close") /\ UNCHANGED outcome
     ELSE Goto(c, "done") /\ outcome' = Set(outcome, c, "returned")
  /\ UNCHANGED <<plan, faults, n, options, requestVars, replyVars, resultVars, fileVars>>

FailureUnnoticed(c) ==
  /\ pc[c] \in {"send", "headers", "body"}
  /\ IF Download(c) THEN Goto(c, "close") /\ UNCHANGED outcome ELSE Throw(c, "request_error")
  /\ UNCHANGED <<plan, faults, n, options, requestVars, replyVars, resultVars, fileVars>>
\* A timeout, a lost connection, any other error.
PerformFails(c) ==
  /\ pc[c] \in {"send", "headers", "body"}
  /\ Throw(c, IF Download(c) THEN "download_error" ELSE "request_error")
  /\ UNCHANGED <<plan, faults, n, options, requestVars, replyVars, resultVars, fileVars>>

-----------------------------------------------------------------------------
(* download_temp_file after the request.                                   *)

\* close_fp: what fclose returns is not looked at, so that on a full disk the
\* end of the data may be missing.
CloseFp(c) ==
  /\ pc[c] = "close"
  /\ fp' = Set(fp, c, FALSE)
  /\ \/ UNCHANGED temp
     \/ /\ "disk_full" \in faults
        /\ \E k \in 0..Len(temp[c]) : temp' = Set(temp, c, SubSeq(temp[c], 1, k))
  /\ Goto(c, "place")
  /\ UNCHANGED <<plan, faults, n, options, requestVars, replyVars, resultVars, target, outcome>>

RefusedAbove(c) == status[c] > 400 /\ Cur(c).withResponse
\* The caller gets the body of a response of 400 or more, if it wants one.
Refused(c) == status[c] >= 400 /\ Cur(c).withResponse

RenameByCopying(c) ==
  /\ pc[c] = "place" /\ ~Refused(c)
  /\ target' = temp[c]
  /\ \E end \in {"returned", "file_error"} : outcome' = Set(outcome, c, end)
  /\ Goto(c, "cleanup")
  /\ UNCHANGED <<plan, faults, n, options, requestVars, replyVars, resultVars, temp, fp>>
\* write(): rename
Rename(c) ==
  /\ pc[c] = "place" /\ ~Refused(c)
  /\ \/ /\ target' = temp[c]
        /\ temp' = Set(temp, c, NoFile)
        /\ outcome' = Set(outcome, c, "returned")
     \/ outcome' = Set(outcome, c, "file_error") /\ UNCHANGED <<temp, target>>
  /\ Goto(c, "cleanup")
  /\ UNCHANGED <<plan, faults, n, options, requestVars, replyVars, resultVars, fp>>

\* write(response&): file_util::read
ReadBack(c) ==
  /\ pc[c] = "place" /\ Refused(c)
  /\ \/ body' = Set(body, c, temp[c]) /\ outcome' = Set(outcome, c, "returned")
     \/ outcome' = Set(outcome, c, "file_error") /\ UNCHANGED body
  /\ Goto(c, "cleanup")
  /\ UNCHANGED <<plan, faults, n, options, requestVars, replyVars, status, headers, fileVars>>

RemoveNothing(c) == UNCHANGED temp
RemoveTemp(c) == temp' = Set(temp, c, NoFile)

\* cleanup: a file that cannot be removed is logged.
Cleanup(c) ==
  /\ pc[c] = "cleanup"
  /\ fp' = Set(fp, c, FALSE)
  /\ \/ RemoveTemp(c)
     \/ "cannot_remove" \in faults /\ UNCHANGED temp
  /\ Goto(c, "done")
  /\ UNCHANGED <<plan, faults, n, options, requestVars, replyVars, resultVars, target, outcome>>

Kill(c) ==
  /\ pc[c] \notin {"idle", "done", "killed"}
  /\ fp' = Set(fp, c, FALSE)
  /\ Goto(c, "killed")
  /\ UNCHANGED <<plan, faults, n, options, requestVars, replyVars, resultVars, temp, target, outcome>>

Over ==
  /\ \A c \in Clients : pc[c] \in {"idle", "done"} => n[c] = Len(plan[c])
  /\ \A c \in Clients : pc[c] \in {"idle", "done", "killed"}
  /\ UNCHANGED vars

Step(c) ==
  \/ Begin(c) \/ OpenTemp(c) \/ Chmod(c) \/ Setup(c)
  \/ ReadBody(c) \/ StatusLine(c) \/ HeaderLine(c) \/ HeadersEnd(c) \/ WriteBody(c)
  \/ WriteFile(c) \/ NextResponse(c) \/ Performed(c) \/ PerformFails(c)
  \/ CloseFp(c) \/ Rename(c) \/ ReadBack(c) \/ Cleanup(c) \/ Kill(c)

Next == Over \/ \E c \in Clients : Step(c)

Spec == Init /\ [][Next]_vars

-----------------------------------------------------------------------------
(* Properties.                                                             *)

Points == {"idle", "open", "chmod", "setup", "send", "headers", "body", "close", "place",
           "cleanup", "done", "killed"}
Errors == {"file_error", "setup_error", "request_error", "download_error"}

TypeOK ==
  /\ plan \in Plans /\ faults \in Faults
  /\ \A c \in Clients :
       /\ n[c] \in 0..Len(plan[c]) /\ pc[c] \in Points
       /\ pc[c] # "idle" => n[c] > 0 /\ at[c] \in 1..Len(Cur(c).script)
       /\ outcome[c] \in {"none", "returned"} \cup Errors
       /\ \A o \in Option : options[c][o] \in 0..n[c]
       /\ n[c] > 0 => offset[c] \in 0..Cur(c).body /\ passed[c] \in 0..Resp(c).length
       /\ status[c] \in 0..599 /\ \A name \in Names : headers[c][name] \in Nat

\* Whatever downloads are under way, fail or are killed, whoever reads the path
\* finds the old file or all of one body.
Bodies ==
  UNION {UNION {{Part(c, i, r, plan[c][i].script[r].length) :
                   r \in {s \in DOMAIN plan[c][i].script : plan[c][i].script[s].kind # "continue"}} :
                i \in {j \in 1..n[c] : plan[c][j].method = "download"}} : c \in Clients}
TargetWhole == "disk_full" \notin faults => target \in Bodies \cup {Old}

\* A download that throws has not replaced the file.
ThrowLeavesTarget ==
  \A c \in Clients : outcome[c] \in Errors =>
    \A u \in DOMAIN target : target[u] # From(c, n[c], at[c])

\* A call that is over leaves no temporary file and nothing open.
NoTempLeft ==
  \A c \in Clients : pc[c] \in {"idle", "done"} =>
    ~fp[c] /\ ("cannot_remove" \notin faults => temp[c] = NoFile)

\* An error page does not become the file of a caller that asked for the
\* response ("The body will only be included if the response status is >= 400").
Error(c) == Resp(c).status >= 400 /\ Cur(c).withResponse /\ Download(c)
KeepsErrorsOut ==
  \A c \in Clients : pc[c] = "done" /\ outcome[c] = "returned" /\ Error(c) =>
    /\ \A u \in DOMAIN target : target[u] # From(c, n[c], at[c])
    /\ "disk_full" \notin faults => body[c] = Received(c, Resp(c).length)

\* The same, if servers speak HTTP/1.
Numbered(c) == \A r \in DOMAIN Cur(c).script : Cur(c).script[r].numbered
KeepsNumberedErrorsOut == (\A c \in Clients : n[c] > 0 => Numbered(c)) => KeepsErrorsOut

\* What a request returns is the body of the response that ended the exchange,
\* however many came before.
BodyIsLast ==
  \A c \in Clients : pc[c] = "done" /\ outcome[c] = "returned" /\ ~Download(c) =>
    body[c] = Received(c, Resp(c).length) /\ Final(c)

\* The server is sent the request's body from its beginning, in order, and told
\* of its end only when it has all of it, also after a redirection.
UploadIsBody ==
  \A c \in Clients :
    /\ uploaded[c] = [u \in 1..Len(uploaded[c]) |-> u]
    /\ ended[c] => Len(uploaded[c]) = Cur(c).body

\* A request runs with exactly the options of its own call, whatever the handle
\* was used for before.
OwnOptions ==
  \A c \in Clients : pc[c] \in {"send", "headers", "body"} =>
    \A o \in Option : options[c][o] = IF o \in Wanted(Cur(c).method) THEN n[c] ELSE 0
=============================================================================

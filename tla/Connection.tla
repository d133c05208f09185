----------------------------- MODULE Connection -----------------------------
(***************************************************************************)
(* One connection: what a client sends, in pieces of any size and at its   *)
(* own pace, and what process_job of worker.c makes of it each time the    *)
(* job is popped, until the job ends.  The stack the job waits on is       *)
(* module Server's; resolve_host is module Resolver's; fetching the page   *)
(* is module Exchange's, which extends this one.                           *)
(*                                                                         *)
(* recv returns all that has arrived and fits.  Only the part of the       *)
(* clock that matters is kept: how long until the job expires.             *)
(***************************************************************************)
EXTENDS Parsing

CONSTANTS
  Requests,      \* what clients ask for, see Text
  OkHosts, BlockedHosts, \* what resolve_host says; any other is not found
  Size,          \* JOB_REQUEST_BUFFER_SIZE, in symbols
  MAX_NAME_LENGTH, \* the longest name hostname has room for, in symbols
  KeepAlive,     \* KEEP_ALIVE_TIMEOUT
  Unset,         \* expiration_time = 0
  NoReply

-----------------------------------------------------------------------------
(* What clients send *)

OrNothing(condition, text) == IF condition THEN text ELSE <<>>

EOL == <<"\r", "\n">>

Url(r) == r.scheme \o r.host \o r.path

RequestLine(r) ==
  <<r.method>> \o OrNothing(Url(r) # <<>>, <<" ">> \o Url(r))
               \o OrNothing(r.version # "", <<" ", r.version>>) \o EOL

\* A request has a Host line when it is named; the line may be blank.
HeaderLines(r) ==
  OrNothing(r.named, <<"Host: ">> \o r.hostLine \o EOL)
    \o OrNothing(r.keepAlive, <<"Proxy-Connection: keep-alive">> \o EOL) \o EOL

Text(r) == RequestLine(r) \o HeaderLines(r)

Replies ==
  [status : {400, 403, 404, 405, 505}, version : {"DOT_ZERO", "DOT_ONE"}, close : BOOLEAN]

\* The parts of a request are what lies between its separators: a part that
\* held one would be other parts.  Names are taken to fit hostname, into which
\* parse_request_string copies them without looking.
Lacks(text, symbols) == \A k \in DOMAIN text : text[k] \notin symbols

WellFormed(r) ==
  /\ {r.method, r.version} \cap {" ", "\n"} = {} /\ Lacks(Url(r), {" ", "\n"})
  /\ Lacks(r.host, {"/"}) /\ Lacks(r.hostLine, {"\n"})
  /\ Len(r.host) <= MAX_NAME_LENGTH /\ Len(r.hostLine) <= MAX_NAME_LENGTH
  /\ r.path # <<>> => Head(r.path) = "/"
  /\ Url(r) # <<>> =>
       /\ Head(Url(r)) = "http://" <=> r.scheme = <<"http://">>
       /\ r.version = "" => Head(Url(r)) \notin {"HTTP/1.1", "HTTP/1.0", "HTTP/"}

ASSUME ConnectionAssumption ==
  /\ Size \in Nat \ {0, 1} /\ KeepAlive \in Nat
  /\ MAX_URL_SIZE \in Nat \ {0} /\ MAX_NAME_LENGTH \in Nat
  /\ Unset \notin Int /\ NoReply \notin Replies
  /\ \A r \in Requests : Text(r) \in Seq(STRING)

ASSUME RequestsAssumption ==
  /\ Requests \subseteq [method : STRING, scheme : Seq(STRING), host : Seq(STRING),
       path : Seq(STRING), version : STRING,
       named : BOOLEAN, hostLine : Seq(STRING), keepAlive : BOOLEAN]
  /\ \A r \in Requests : WellFormed(r)
  /\ OkHosts \subseteq Seq(STRING)
  /\ \A host \in OkHosts : Lacks(host, {" ", "\n", "/"}) /\ Len(host) <= MAX_NAME_LENGTH

-----------------------------------------------------------------------------

VARIABLES
  asked,   \* the request the client sends
  sent,    \* how much of it has arrived
  client,  \* the client's end of the socket
  tail,    \* request_tail
  left,    \* expiration_time, as the time left (-1: it has passed)
  stage,   \* "queued" while the job is on the stack, then what became of it
  reply,   \* the error the client gets
  target   \* hostname and path of the page it gets instead

connection == <<asked, sent, client, tail, left, reply, target>>

InitConnection ==
  /\ asked \in Requests
  /\ sent = 0 /\ client = "open"
  /\ tail = 0 /\ left = Unset
  /\ stage = "queued" /\ reply = NoReply /\ target = <<>>

Arrived(n) == SubSeq(Text(asked), 1, n)

-----------------------------------------------------------------------------
(* The client *)

\* The next piece, as slow-client.c sends them, or all of it.
ClientSends ==
  /\ stage = "queued" /\ client = "open"
  /\ sent' \in sent + 1 .. Len(Text(asked))
  /\ UNCHANGED <<asked, client, tail, left, stage, reply, target>>

\* The client gives up, or has its answer another way.
ClientLeaves ==
  /\ stage = "queued" /\ client = "open"
  /\ client' = "closed"
  /\ UNCHANGED <<asked, sent, tail, left, stage, reply, target>>

SecondPasses ==
  /\ stage = "queued" /\ left \in Nat
  /\ left' = left - 1
  /\ UNCHANGED <<asked, sent, client, tail, stage, reply, target>>

-----------------------------------------------------------------------------
(* process_job *)

Expired == left = -1

\* TERMINATE without an answer.
Terminates ==
  /\ stage' = "ended"
  /\ UNCHANGED <<asked, sent, client, tail, left, reply, target>>

\* An expired job is ended before its socket is looked at.
VisitExpired ==
  /\ stage = "queued" /\ Expired
  /\ Terminates

\* recv gives -1: ENQUEUE.
NothingToRead == sent = tail /\ client = "open"

\* Mutation of VisitNothing: the expiration is put off by every visit.
VisitProlongs ==
  /\ stage = "queued" /\ ~Expired /\ NothingToRead
  /\ left' = IF left = Unset THEN left ELSE KeepAlive
  /\ UNCHANGED <<asked, sent, client, tail, stage, reply, target>>

VisitNothing ==
  /\ stage = "queued" /\ ~Expired /\ NothingToRead
  /\ UNCHANGED <<asked, sent, client, tail, left, stage, reply, target>>

\* Mutation of VisitHangup: nothing to read is taken for the end.
VisitHangupOrNothing ==
  /\ stage = "queued" /\ ~Expired
  /\ sent = tail \/ tail = Size
  /\ Terminates

\* recv gives 0: the client has closed and all is read, or there is something
\* to read and no room for it.
VisitHangup ==
  /\ stage = "queued" /\ ~Expired /\ ~NothingToRead
  /\ sent = tail \/ tail = Size
  /\ Terminates

\* The answer is lost when the client has left and nothing is unread, which
\* try_send_in_chunks sees before it sends.
Answers(status, version, close) ==
  /\ stage' = "ended"
  /\ reply' = IF client = "closed" /\ tail' = sent THEN NoReply
              ELSE [status |-> status, version |-> version, close |-> close]
  /\ UNCHANGED target

resolve_host(host) ==
  IF host \in BlockedHosts THEN "blocked" ELSE IF host \in OkHosts THEN "ok" ELSE "not_found"

\* A well-formed request: an error, or the page is fetched.
Serve(parsed) ==
  LET answer(status) == Answers(status, parsed.outcome, parsed.keepAlive)
      host_status == resolve_host(parsed.host)
  IN \/ ~parsed.isGet /\ answer(405)
     \/ parsed.isGet /\ host_status = "blocked" /\ answer(403)
     \/ parsed.isGet /\ host_status = "not_found" /\ answer(404)
     \/ /\ parsed.isGet /\ host_status = "ok"
        /\ stage' = "fetch"
        /\ target' = [host |-> parsed.host, path |-> parsed.path]
        /\ UNCHANGED reply

\* What parse_request_string has found in the buffer decides: ENQUEUE, an
\* answer, or the end of the process.
Process(parsed) ==
  \/ /\ parsed.outcome = "FAIL" /\ tail' # Size - 1
     /\ UNCHANGED <<stage, reply, target>>
  \/ /\ parsed.outcome = "FAIL" /\ tail' = Size - 1
     /\ Answers(400, "DOT_ONE", FALSE)
  \/ parsed.outcome = "MALFORMED" /\ Answers(400, "DOT_ONE", FALSE)
  \/ parsed.outcome = "NOT_SUPPORTED" /\ Answers(505, "DOT_ONE", FALSE)
  \/ parsed.outcome \in {"DOT_ZERO", "DOT_ONE"} /\ Serve(parsed)
  \/ /\ parsed.outcome = "crash"
     /\ stage' = "crashed"
     /\ UNCHANGED <<reply, target>>

\* Mutation of VisitReads: the first piece gets no expiration time, only what
\* comes after it does.
VisitReadsOnce ==
  /\ stage = "queued" /\ ~Expired
  /\ tail < sent /\ tail < Size
  /\ tail' = IF sent < Size THEN sent ELSE Size
  /\ left' = IF tail > 0 THEN KeepAlive ELSE left
  /\ Process(parse_request_string(Arrived(tail')))
  /\ UNCHANGED <<asked, sent, client>>

\* Mutation of VisitReads: recv is given the size of the whole buffer.
VisitReadsBeyond ==
  /\ stage = "queued" /\ ~Expired
  /\ tail < sent /\ tail < Size
  /\ tail' = IF sent - tail < Size THEN sent ELSE tail + Size
  /\ left' = KeepAlive
  /\ Process(parse_request_string(Arrived(tail')))
  /\ UNCHANGED <<asked, sent, client>>

\* What has arrived is appended, the expiration is put off.
VisitReads ==
  /\ stage = "queued" /\ ~Expired
  /\ tail < sent /\ tail < Size
  /\ tail' = IF sent < Size THEN sent ELSE Size
  /\ left' = KeepAlive
  /\ Process(parse_request_string(Arrived(tail')))
  /\ UNCHANGED <<asked, sent, client>>

Visit == VisitExpired \/ VisitNothing \/ VisitHangup \/ VisitReads

=============================================================================

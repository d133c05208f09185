------------------------------ MODULE Exchange ------------------------------
(***************************************************************************)
(* A whole exchange: a request is received (module Connection), the page   *)
(* it asks for is received from its server, stored and relayed             *)
(* (handle_valid_request), and searched for links to prefetch              *)
(* (dispatch_prefetch_jobs, find_href).                                    *)
(*                                                                         *)
(* Here a page is its symbols, and recv cuts it anywhere; module Relay has *)
(* the concurrency and the failures of the same functions.                 *)
(***************************************************************************)
EXTENDS Connection

CONSTANTS
  Pages,    \* what servers answer, see PageText
  Memory,   \* what may lie behind the block in file_buffer of find_href
  NoPage

VARIABLES
  page,     \* what the server sends
  file,     \* the cache file: what has been received, stored and relayed
  header,   \* response_header_length, response_content_length
  missing,  \* response_content_length - response_content_read
  pos,      \* position in the cache file
  jobs      \* the prefetch jobs, by their requests

transfer == <<page, file, header, missing>>
scanning == <<pos, jobs>>
vars == <<connection, stage, transfer, scanning>>

Init ==
  /\ InitConnection
  /\ page = NoPage /\ file = <<>> /\ missing = 0
  /\ header = [header |-> -1, content |-> -1]
  /\ pos = 0 /\ jobs = {}

-----------------------------------------------------------------------------
(* What servers send: a page is a sequence of links with fillers between   *)
(* them; a link is a host (none for a link within the host) and a path.    *)

LinkText(link) ==
  IF link.host = <<>> THEN link.path ELSE <<"http://">> \o link.host \o link.path

Content(p) ==
  FlattenSeq([i \in DOMAIN p.links |->
     [k \in 1 .. p.gap |-> "."] \o <<"href=", "\"">> \o LinkText(p.links[i]) \o <<"\"">>])

HeaderText(p) ==
  <<"200 OK">> \o EOL \o OrNothing(p.announced, <<"Content-length: ">> \o EOL) \o EOL

PageText(p) == HeaderText(p) \o Content(p)

\* A link has a host and a path, or is relative.
IsLink(link) ==
  /\ Lacks(link.host, {" ", "\n", "/"}) /\ Lacks(link.path, {" ", "\n"})
  /\ Lacks(LinkText(link), {"\"", "href="}) /\ Len(link.host) <= MAX_NAME_LENGTH
  /\ link.path # <<>> =>
       IF link.host # <<>> THEN Head(link.path) = "/" ELSE Head(link.path) # "http://"

ASSUME ExchangeAssumption ==
  /\ NoPage \notin Pages
  /\ \A p \in Pages : Content(p) \in Seq(STRING) /\ PageText(p) \in Seq(STRING)
  /\ Memory \subseteq Seq(STRING)

ASSUME LinksAssumption ==
  \A p \in Pages :
    /\ p.gap \in Nat /\ p.links \in Seq([host : Seq(STRING), path : Seq(STRING)])
    /\ \A i \in DOMAIN p.links : IsLink(p.links[i])

-----------------------------------------------------------------------------
(* Receiving a page *)

\* connect fails, or sending the request does: FAIL, and no answer.
ServerUnreachable ==
  /\ stage = "fetch"
  /\ stage' = "ended"
  /\ UNCHANGED <<connection, transfer, scanning>>

\* Up to JOB_REQUEST_BUFFER_SIZE of what the server has still to send.
Received(p, from) == 1 .. (IF Len(PageText(p)) - from < Size THEN Len(PageText(p)) - from ELSE Size)

\* The first recv, which parse_response_header looks at.  Without any line
\* end the length of the header is arbitrary.
FirstRecv ==
  \E p \in Pages : \E n \in Received(p, 0) :
    LET text == SubSeq(PageText(p), 1, n)
        found == parse_response_header(text, Len(Content(p)))
    IN /\ stage = "fetch"
       /\ stage' = "relay"
       /\ page' = p /\ file' = text /\ header' = found
       /\ missing' \in IF Find(text, "\n", 1) = 0 THEN 0 .. Len(PageText(p)) + 1
                       ELSE {IF n < found.header + found.content
                             THEN found.content - (n - found.header) ELSE 0}
       /\ UNCHANGED <<connection, scanning>>

NextRecv ==
  /\ stage = "relay" /\ missing > 0
  /\ \E n \in Received(page, Len(file)) :
       /\ file' = file \o SubSeq(PageText(page), Len(file) + 1, Len(file) + n)
       /\ missing' = missing - n
  /\ UNCHANGED <<connection, stage, page, header, scanning>>

\* The server has closed: recv gives 0 for ever.
Spins ==
  /\ stage = "relay" /\ missing > 0 /\ file = PageText(page)
  /\ stage' = "spins"
  /\ UNCHANGED <<connection, transfer, scanning>>

\* A page that has a cache record is searched for links, from its start.
Relayed ==
  /\ stage = "relay" /\ missing <= 0
  /\ stage' \in {"scan", "ended"}
  /\ pos' = 0
  /\ UNCHANGED <<connection, transfer, jobs>>

-----------------------------------------------------------------------------
(* Looking for links *)

\* Mutation of PrefetchRequest: every link is taken for one within the host.
PrefetchRequestOfHost(link) ==
  <<"GET", " ", "http://">> \o target.host \o link \o <<" ", "HTTP/1.1">> \o EOL \o EOL

\* The prefetch job of a link: its request is complete, and parsed when
\* a prefetch worker gets it.  Other links are ignored.
PrefetchRequest(link) ==
  <<"GET", " ">> \o OrNothing(matches_command(link, "/"), <<"http://">> \o target.host) \o link
    \o <<" ", "HTTP/1.1">> \o EOL \o EOL

Dispatch(link) ==
  jobs' = IF matches_command(link, "/") \/ matches_command(link, "http://")
          THEN jobs \cup {PrefetchRequest(link)} ELSE jobs

Block ==
  SubSeq(file, pos + 1, IF pos + MAX_URL_SIZE < Len(file) THEN pos + MAX_URL_SIZE ELSE Len(file))

\* What find_href makes of a block, with whatever the buffer holds behind it.
Found == {find_href(Block \o rest, Len(Block)) : rest \in Memory}

ScanBlock ==
  /\ stage = "scan" /\ pos < Len(file)
  /\ \E found \in Found :
       /\ pos' = pos + found.moved
       /\ IF found.result = "SUCCESS" THEN Dispatch(found.link) ELSE UNCHANGED jobs
  /\ UNCHANGED <<connection, stage, transfer>>

\* Nothing is left to read: FINISHED.
ScanEnds ==
  /\ stage = "scan" /\ pos >= Len(file)
  /\ stage' = "ended"
  /\ UNCHANGED <<connection, transfer, scanning>>

-----------------------------------------------------------------------------

ProcessJob == Visit /\ UNCHANGED <<transfer, scanning>>

Client == (ClientSends \/ ClientLeaves) /\ UNCHANGED <<transfer, scanning>>

Clock == SecondPasses /\ UNCHANGED <<transfer, scanning>>

Fetch == ServerUnreachable \/ FirstRecv

Relay == NextRecv \/ Spins \/ Relayed

Scan == ScanBlock \/ ScanEnds

Over == stage \in {"ended", "spins", "crashed"} /\ UNCHANGED vars

Next == Client \/ Clock \/ ProcessJob \/ Fetch \/ Relay \/ Scan \/ Over

Spec == Init /\ [][Next]_vars

\* An expired job is popped again (Server!HeardIsClosed), time passes, and the
\* server of a page that has begun to come sends the rest.  Nothing is assumed
\* of clients.
Fairness ==
  /\ WF_vars(VisitExpired /\ UNCHANGED <<transfer, scanning>>)
  /\ WF_vars(Clock) /\ WF_vars(Relay) /\ WF_vars(Scan)

FairSpec == Spec /\ Fairness

-----------------------------------------------------------------------------
(* Properties *)

Stages == {"queued", "fetch", "relay", "scan", "spins", "ended", "crashed"}

TypeOK ==
  /\ asked \in Requests
  /\ sent \in 0..Len(Text(asked)) /\ client \in {"open", "closed"}
  /\ tail \in 0..sent /\ tail <= Size
  /\ left \in {Unset} \cup -1..KeepAlive
  /\ stage \in Stages
  /\ reply \in Replies \cup {NoReply}
  /\ page \in Pages \cup {NoPage}
  /\ file \in Seq(STRING) /\ pos \in Nat
  /\ missing \in Int

\* A job goes back onto the stack only while its buffer holds no whole line:
\* nothing would look at the line again before more arrives.
QueuedIsIncomplete ==
  stage = "queued" => \A k \in 1..tail : Text(asked)[k] # "\n"

\* A connection that has sent something can always expire: no piece leaves it
\* without a time.  worker.c says so of every job that it puts back ("expire
\* time already set during `process_job`"); of one that has sent nothing it is
\* not true (VisitNothing), and nothing is said here.
HeardExpires == tail > 0 => left # Unset

\* A connection that never gets as far as a page is ended without an answer
\* only when it has expired, the client has left, or the buffer is full to the
\* last byte (FullBufferIsBadRequest).  Who is to get a page and cannot gets
\* no answer at all: ServerUnreachable.
NoSilentEnd ==
  stage = "ended" /\ reply = NoReply /\ target = <<>> =>
    Expired \/ client = "closed" \/ tail = Size

\* worker.c on the test of the buffer: "no CRLF found and buffer filled, Bad
\* Request, Bad!"
FullBufferIsBadRequest ==
  stage = "ended" /\ tail = Size /\ client = "open" /\ ~Expired
    /\ (\A k \in 1..Size : Text(asked)[k] # "\n") =>
    reply # NoReply /\ reply.status = 400

\* What a request may get, by its parts.  An https URL is refused, which is all
\* that is said of it: the code gives 400, and parsing-test.c expects
\* NOT_SUPPORTED, which would be 505.
Deserved(r) ==
  IF r.version \notin {"HTTP/1.1", "HTTP/1.0", "HTTP/"} THEN {400}
  ELSE IF r.version = "HTTP/" THEN {505}
  ELSE IF r.method \notin OtherMethods \cup {"GET"} THEN {400}
  ELSE IF r.scheme = <<"https://">> THEN {400, 505}
  ELSE IF r.scheme # <<"http://">> THEN {400}
  ELSE IF r.method # "GET" THEN {405}
  ELSE IF r.host \in BlockedHosts THEN {403}
  ELSE IF r.host \in OkHosts THEN {200} ELSE {404}

\* However a request is cut by the network, it gets the answer it deserves, of
\* its own version, and the page that is fetched is the one it names, as far
\* as MAX_URL_SIZE lets it be named; only a line that leaves no room in the
\* buffer gets 400 whatever it says.  A Host line, which may come too late to
\* be seen, changes nothing when it names the host of the URL.
SameHost(r) == r.named => r.hostLine = r.host

RightAnswer ==
  SameHost(asked) =>
    /\ reply # NoReply =>
         \/ /\ reply.status \in Deserved(asked)
            /\ reply.status \in {403, 404, 405} =>
                 reply.version = IF asked.version = "HTTP/1.0" THEN "DOT_ZERO" ELSE "DOT_ONE"
            /\ reply.close => asked.keepAlive
         \/ reply.status = 400 /\ tail = Size - 1 /\ Len(RequestLine(asked)) >= Size
    /\ target # <<>> =>
         /\ Deserved(asked) = {200}
         /\ target = [host |-> asked.host,
                      path |-> StripSlash(Cut(asked.path, 1, MAX_URL_SIZE))]

\* The process dies only of a request without a path or with a blank Host
\* line; parse_request_string takes for granted that there is a path and that
\* there is a name.
BlankHost(r) == r.named /\ \A k \in DOMAIN r.hostLine : r.hostLine[k] = " "

CrashNeedsBlank == stage = "crashed" => asked.path = <<>> \/ BlankHost(asked)

\* A job that has got something ends in bounded time: each visit either finds
\* news, of which the buffer holds only so much, or lets the expiration come
\* nearer.  (Server assumes it of every connection, as SF_vars(Ends(j)).)
HeardEnds == tail > 0 ~> stage # "queued"

\* When the whole header is in the first chunk, the page in the cache is the
\* page of the server, however the rest is cut.
WholePage ==
  stage = "scan" /\ header.header > 0 /\ header.content >= 0 =>
    file = PageText(page)

\* A page is done with in the end, whatever lies behind the blocks: each block
\* that is searched leaves the file further on, or at its end.  Only recv may
\* be called for ever, for bytes the server does not send.
PageEnds == stage = "relay" ~> stage = "ended" \/ stage = "spins"

\* If every link ends within a block of where the one before ends, every
\* link of the stored page that can be prefetched is.
LinkEnd(i) == Find(file, "\"", i + 2)

LinkStarts == {i \in DOMAIN file : file[i] = "href="}

WithinBlocks ==
  \A i \in LinkStarts :
    LinkEnd(i) < MAX_URL_SIZE + Max({1} \cup {LinkEnd(k) : k \in {k \in LinkStarts : k < i}})

CloseLinksAreFound ==
  stage = "ended" /\ pos > 0 /\ file = PageText(page) /\ WithinBlocks =>
    \A i \in DOMAIN page.links :
      LET link == LinkText(page.links[i])
      IN matches_command(link, "/") \/ matches_command(link, "http://") =>
           PrefetchRequest(link) \in jobs

\* A prefetch job for a link of the page asks for what the link names, as far
\* as MAX_URL_SIZE lets it.  (A job for a link that was left in the buffer by
\* an earlier page is of no link of this page, and not spoken of.)
PrefetchesAreRight ==
  \A i \in (IF jobs = {} THEN {} ELSE DOMAIN page.links) :
    LET link   == page.links[i]
        parsed == parse_request_string(PrefetchRequest(LinkText(link)))
    IN PrefetchRequest(LinkText(link)) \in jobs =>
         IF link.path = <<>> THEN parsed.outcome = "crash"
         ELSE /\ parsed.outcome = "DOT_ONE" /\ parsed.isGet
              /\ parsed.host = (IF link.host = <<>> THEN target.host ELSE link.host)
              /\ parsed.path = StripSlash(Cut(link.path, 1, MAX_URL_SIZE))

\* worker.c on the loop: "keep receiving, caching and sending untill done".
CachedPageIsWhole ==
  stage = "scan" /\ page.announced => file = PageText(page)

=============================================================================

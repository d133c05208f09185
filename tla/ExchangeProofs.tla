--------------------------- MODULE ExchangeProofs ---------------------------
(***************************************************************************)
(* The types of Exchange, and four properties of a connection, for all     *)
(* requests, pages and sizes: which jobs go back onto the stack, which of  *)
(* them will expire, which connections end without an answer, and that the *)
(* page in the cache file is the page of its server when the header is in  *)
(* the first chunk.                                                        *)
(*                                                                         *)
(* Of the parser of requests only this is used here: it says FAIL only for *)
(* a text without a line end, and the positions it returns are numbers.    *)
(* What it finds is the subject of AnswerProofs.                           *)
(***************************************************************************)
EXTENDS Exchange, WellFoundedInduction, SequenceTheorems, TLAPS

\* TypeOK, of the connection and of the page.
Types ==
  /\ asked \in Requests
  /\ sent \in 0..Len(Text(asked)) /\ client \in {"open", "closed"}
  /\ tail \in 0..sent /\ tail <= Size
  /\ left \in {Unset} \cup -1..KeepAlive
  /\ stage \in Stages
  /\ reply \in Replies \cup {NoReply}

PageTypes ==
  /\ page \in Pages \cup {NoPage}
  /\ file \in Seq(STRING) /\ pos \in Nat
  /\ missing \in Int

\* Who is served has named a page, and a page that is relayed or searched is
\* there.
Fetched ==
  /\ stage \in {"fetch", "relay", "scan"} => target # <<>>
  /\ stage \in {"relay", "scan"} => page # NoPage

IInv == Types /\ PageTypes /\ Fetched /\ QueuedIsIncomplete /\ HeardExpires /\ NoSilentEnd

-----------------------------------------------------------------------------
(* Positions in texts *)

\* A set of naturals has a least element,
LEMMA Smallest ==
  ASSUME NEW S, S \subseteq Nat, S # {}
  PROVE  \E x \in S : \A y \in S : x <= y
<1> DEFINE R == OpToRel(<, Nat)
<1>1. IsWellFoundedOn(R, Nat)
  BY NatLessThanWellFounded
<1>2. ASSUME NEW x \in Nat, NEW y \in Nat
      PROVE  y < x => <<y, x>> \in R
  BY DEF OpToRel
<1> HIDE DEF R
<1>3. PICK x \in S : \A y \in S : ~ (<<y, x>> \in R)
  BY <1>1, WFMin
<1>4. ASSUME NEW y \in S
      PROVE  x <= y
  <2>1. x \in Nat /\ y \in Nat
    OBVIOUS
  <2>2. ~ (y < x)
    BY <1>2, <1>3, <2>1
  <2> QED
    BY <2>1, <2>2
<1> QED
  BY <1>4

\* which Min is;
LEMMA MinIn ==
  ASSUME NEW S, S \subseteq Nat, S # {}
  PROVE  Min(S) \in S
BY Smallest DEF Min

\* and a bounded one a greatest, which Max is.
LEMMA MaxIn ==
  ASSUME NEW n \in Nat, NEW S, S \subseteq 1..n, S # {}
  PROVE  Max(S) \in S /\ \A y \in S : Max(S) >= y
<1> DEFINE T == {n - x : x \in S}
<1>1. T \subseteq Nat /\ T # {}
  <2>1. \A x \in S : x \in 1..n /\ n - x \in Nat
    OBVIOUS
  <2>2. T \subseteq Nat
    BY <2>1
  <2>3. PICK x \in S : TRUE
    OBVIOUS
  <2>4. n - x \in T
    OBVIOUS
  <2> QED
    BY <2>2, <2>4
<1>2. PICK t \in T : \A y \in T : t <= y
  BY <1>1, Smallest
<1>3. PICK x \in S : t = n - x
  OBVIOUS
<1>4. ASSUME NEW y \in S
      PROVE  x >= y
  <2>1. x \in 1..n /\ y \in 1..n
    OBVIOUS
  <2>2. n - y \in T
    OBVIOUS
  <2>3. t <= n - y
    BY <1>2, <2>2
  <2> QED
    BY <1>3, <2>1, <2>3
<1> QED
  BY <1>4 DEF Max

\* strchr finds a position from i on, or none.
LEMMA FindType ==
  ASSUME NEW text \in Seq(STRING), NEW symbol, NEW i \in Nat
  PROVE  Find(text, symbol, i) \in Nat /\ (Find(text, symbol, i) # 0 => Find(text, symbol, i) >= i)
<1> DEFINE at == {k \in i..Len(text) : text[k] = symbol}
<1>1. at \subseteq Nat /\ \A k \in at : k >= i
  OBVIOUS
<1>2. Find(text, symbol, i) = IF at = {} THEN 0 ELSE Min(at)
  BY DEF Find
<1> HIDE DEF at
<1>3. CASE at = {}
  BY <1>2, <1>3
<1>4. CASE at # {}
  <2>1. Min(at) \in at
    BY <1>1, <1>4, MinIn
  <2>2. Find(text, symbol, i) \in at
    BY <1>2, <1>4, <2>1
  <2> QED
    BY <1>1, <2>2
<1> QED
  BY <1>3, <1>4

\* strrchr the same.
LEMMA FindLastType ==
  ASSUME NEW text \in Seq(STRING), NEW symbol
  PROVE  FindLast(text, symbol) \in Nat
<1> DEFINE at == {k \in 1..Len(text) : text[k] = symbol}
<1>1. at \subseteq 1..Len(text) /\ Len(text) \in Nat /\ at \subseteq Nat
  OBVIOUS
<1>2. FindLast(text, symbol) = IF at = {} THEN 0 ELSE Max(at)
  BY DEF FindLast
<1> HIDE DEF at
<1>3. CASE at = {}
  BY <1>2, <1>3
<1>4. CASE at # {}
  <2>1. Max(at) \in at
    BY <1>1, <1>4, MaxIn
  <2>2. FindLast(text, symbol) \in at
    BY <1>2, <1>4, <2>1
  <2> QED
    BY <1>1, <2>2
<1> QED
  BY <1>3, <1>4

\* parse_response_header returns numbers, whatever it is given.
LEMMA LengthsType ==
  ASSUME NEW text \in Seq(STRING), NEW announced \in Int
  PROVE  /\ parse_response_header(text, announced).header \in Int
         /\ parse_response_header(text, announced).content \in Int
<1> DEFINE hasLength == \E k \in 1..Len(text) :
             /\ text[k] = "\n"
             /\ matches_command(SubSeq(text, LineStart(text, k), k), "Content-length: ")
           blanks == {k \in 1 .. Len(text) - 3 : SubSeq(text, k, k + 3) = <<"\r", "\n", "\r", "\n">>}
           found == parse_response_header(text, announced)
<1>1. found = IF hasLength
              THEN [header |-> IF blanks = {} THEN -1 ELSE Min(blanks) + 3, content |-> announced]
              ELSE [header |-> FindLast(text, "\n"), content |-> -1]
  BY DEF parse_response_header
<1>2. blanks \subseteq Nat
  OBVIOUS
<1> HIDE DEF hasLength, blanks, found
<1>3. blanks # {} => Min(blanks) \in Nat
  BY <1>2, MinIn
<1>4. FindLast(text, "\n") \in Nat
  BY FindLastType
<1>5. found.header \in Int /\ found.content \in Int
  BY <1>1, <1>3, <1>4
<1> QED
  BY <1>5 DEF found

\* find_href never moves the file backwards.
LEMMA MovedType ==
  ASSUME NEW buffer \in Seq(STRING), NEW size \in Nat
  PROVE  find_href(buffer, size).moved \in Nat
<1> DEFINE href  == Find(buffer, "href=", 1)
           quote == Find(buffer, "\"", href + 2)
           link  == SubSeq(buffer, href + 2, quote - 1)
           found == find_href(buffer, size)
<1>1. href \in Nat
  BY FindType
<1>2. found = IF href = 0 THEN [result |-> "CONTINUE", link |-> <<>>, moved |-> size]
              ELSE IF quote = 0 THEN [result |-> "FAIL", link |-> <<>>, moved |-> size]
              ELSE [result |-> "SUCCESS", link |-> link, moved |-> quote - 1]
  BY DEF find_href
<1>3. quote \in Nat
  <2> HIDE DEF href
  <2>1. href + 2 \in Nat
    BY <1>1
  <2> QED
    BY <2>1, FindType
<1> HIDE DEF href, quote, link, found
<1>4. found.moved \in Nat
  BY <1>2, <1>3
<1> QED
  BY <1>4 DEF found

-----------------------------------------------------------------------------
(* The parser *)

Versions == {"DOT_ONE", "DOT_ZERO", "NOT_SUPPORTED", "MALFORMED"}

\* A flag is a flag, and a line that is there is not FAIL.
Decided(parsed) == parsed.keepAlive \in BOOLEAN /\ parsed.outcome # "FAIL"

\* A line that is given up.
LEMMA ParsedIsDecided ==
  ASSUME NEW outcome, outcome # "FAIL"
  PROVE  Decided(Parsed(outcome))
BY DEF Parsed, Decided

\* The header lines do not make a line undecided,
LEMMA HeadersAreDecided ==
  ASSUME NEW text, NEW eol, NEW parsed, Decided(parsed)
  PROVE  Decided(HeadersParsed(text, eol, parsed))
<1> DEFINE starts(field) ==
      {k \in HeaderEnds(text, eol) :
         matches_command(SubSeq(text, LineStart(text, k), k), field)}
    name == LET k == CHOOSE k \in starts("Host: ") : TRUE
            IN SkipSpaces(SubSeq(text, LineStart(text, k) + 1, k - 1))
    host == IF starts("Host: ") = {} THEN parsed.host ELSE CaptureHost(parsed.host, name)
    alive == starts("Proxy-Connection: keep-alive") # {}
    found == [outcome |-> parsed.outcome, isGet |-> parsed.isGet, path |-> parsed.path,
              host |-> host, keepAlive |-> alive]
<1>1. HeadersParsed(text, eol, parsed) =
        IF starts("Host: ") # {} /\ Len(name) < 2 THEN Parsed("crash") ELSE found
  BY DEF HeadersParsed
<1> HIDE DEF starts, name, host
<1>2. Decided(found)
  BY DEF Decided
<1> HIDE DEF found
<1> QED
  BY <1>1, <1>2, ParsedIsDecided

\* nor does the version,
LEMMA VersionIsDecided ==
  ASSUME NEW word
  PROVE  http_version(word) \in Versions
BY DEF http_version, Versions

\* nor anything else in the request line.
LEMMA LineIsDecided ==
  ASSUME NEW text, NEW eol
  PROVE  Decided(RequestLineParsed(text, eol))
<1> DEFINE line  == SubSeq(text, 1, eol - 1)
           first == Find(line, " ", 1)
           last  == FindLast(line, " ")
           version == IF last = Len(line) THEN "MALFORMED" ELSE http_version(line[last + 1])
           url   == SubSeq(line, first + 1, last - 1)
           slash == Find(url, "/", 2)
           isGet == matches_command(line, "GET")
           host  == SubSeq(url, 2, slash - 1)
           path  == CopiedPath(SubSeq(url, slash, Len(url)))
           other == url = <<>> \/ \A m \in OtherMethods \cup {"GET"} : ~matches_command(line, m)
           found == [outcome |-> version, isGet |-> isGet, host |-> host, path |-> path,
                     keepAlive |-> FALSE]
<1>1. RequestLineParsed(text, eol) =
        IF last = 0 THEN Parsed("MALFORMED")
        ELSE IF version \in {"MALFORMED", "NOT_SUPPORTED"} THEN Parsed(version)
        ELSE IF other THEN Parsed("MALFORMED")
        ELSE IF ~matches_command(url, "http://")
             THEN HeadersParsed(text, eol, Parsed("MALFORMED"))
        ELSE IF slash = 0 THEN Parsed("crash")
        ELSE HeadersParsed(text, eol, found)
  BY DEF RequestLineParsed
<1>2. version # "FAIL"
  BY VersionIsDecided DEF Versions
<1> HIDE DEF line, first, last, version, url, slash, isGet, host, path, other
<1>3. Decided(found)
  BY <1>2 DEF Decided
<1> HIDE DEF found
<1>4. Decided(Parsed("MALFORMED")) /\ Decided(Parsed("crash")) /\ Decided(Parsed(version))
  BY <1>2, ParsedIsDecided
<1>5. /\ Decided(HeadersParsed(text, eol, Parsed("MALFORMED")))
      /\ Decided(HeadersParsed(text, eol, found))
  BY <1>3, <1>4, HeadersAreDecided
<1> QED
  BY <1>1, <1>4, <1>5

\* FAIL is for texts without a line end, and nothing else.
LEMMA FailIsNoLine ==
  ASSUME NEW text
  PROVE  /\ parse_request_string(text).keepAlive \in BOOLEAN
         /\ parse_request_string(text).outcome = "FAIL" =>
              \A k \in 1..Len(text) : text[k] # "\n"
<1>1. CASE \A k \in 1..Len(text) : text[k] # "\n"
  BY <1>1 DEF parse_request_string, Parsed
<1>2. CASE ~ \A k \in 1..Len(text) : text[k] # "\n"
  BY <1>2, LineIsDecided DEF parse_request_string, Decided
<1> QED
  BY <1>1, <1>2


-----------------------------------------------------------------------------
(* Steps *)

\* A connection that has sent nothing.
LEMMA InitHolds == Init => IInv
<1> SUFFICES ASSUME Init
             PROVE  IInv
  OBVIOUS
<1>1. Types
  <2>1. Len(Text(asked)) \in Nat /\ asked \in Requests
    BY ConnectionAssumption DEF Init, InitConnection
  <2>2. /\ sent = 0 /\ client = "open" /\ tail = 0 /\ left = Unset /\ stage = "queued"
        /\ reply = NoReply
    BY DEF Init, InitConnection
  <2>3. Size \in Nat
    BY ConnectionAssumption
  <2> QED
    BY <2>1, <2>2, <2>3 DEF Types, Stages
<1>2. PageTypes
  BY DEF Init, PageTypes
<1>3. Fetched /\ QueuedIsIncomplete /\ HeardExpires /\ NoSilentEnd
  BY DEF Init, InitConnection, Fetched, QueuedIsIncomplete, HeardExpires, NoSilentEnd
<1> QED
  BY <1>1, <1>2, <1>3 DEF IInv

\* What is read.
LEMMA ReadFacts ==
  ASSUME Types, NEW n \in 0..sent
  PROVE  /\ Len(Arrived(n)) = n
         /\ \A k \in 1..n : Arrived(n)[k] = Text(asked)[k]
BY ConnectionAssumption DEF Types, Arrived

\* The request stays the same text.
LEMMA SameText ==
  ASSUME asked' = asked
  PROVE  Text(asked)' = Text(asked)
BY DEF Text, RequestLine, HeaderLines, Url

\* The client sends or leaves; what it has sent only grows.
LEMMA ClientKeeps ==
  ASSUME IInv, Client
  PROVE  IInv'
<1>1. /\ asked' = asked /\ stage = "queued" /\ tail' = tail /\ left' = left
      /\ stage' = stage /\ reply' = reply /\ target' = target
      /\ client' \in {"open", "closed"}
      /\ sent' = sent \/ sent' \in sent + 1 .. Len(Text(asked))
      /\ UNCHANGED <<page, file, header, missing, pos, jobs>>
  BY DEF Client, ClientSends, ClientLeaves, transfer, scanning, IInv, Types
<1>2. Text(asked)' = Text(asked) /\ Len(Text(asked)) \in Nat
  BY <1>1, SameText, ConnectionAssumption DEF IInv, Types
<1>3. Types'
  BY <1>1, <1>2 DEF IInv, Types
<1>4. PageTypes' /\ Fetched'
  BY <1>1 DEF IInv, PageTypes, Fetched
<1>5. QueuedIsIncomplete' /\ HeardExpires' /\ NoSilentEnd'
  BY <1>1, <1>2 DEF IInv, QueuedIsIncomplete, HeardExpires, NoSilentEnd
<1> QED
  BY <1>3, <1>4, <1>5 DEF IInv

\* Time brings the expiration nearer.
LEMMA ClockKeeps ==
  ASSUME IInv, Clock
  PROVE  IInv'
BY ConnectionAssumption
  DEF Clock, SecondPasses, transfer, scanning, IInv, Types, PageTypes, Fetched, Text,
      QueuedIsIncomplete, HeardExpires, NoSilentEnd, Expired

\* TERMINATE without an answer leaves everything as it is but the stage.
LEMMA TerminatesKeeps ==
  ASSUME IInv, Terminates, UNCHANGED <<transfer, scanning>>,
         Expired \/ client = "closed" \/ tail = Size
  PROVE  IInv'
<1>1. /\ stage' = "ended" /\ asked' = asked /\ sent' = sent /\ client' = client
      /\ tail' = tail /\ left' = left /\ reply' = reply
      /\ UNCHANGED <<page, file, header, missing, pos, jobs>>
  BY DEF Terminates, transfer, scanning
<1>2. Text(asked)' = Text(asked)
  BY <1>1, SameText
<1>3. Types'
  BY <1>1, <1>2 DEF IInv, Types, Stages
<1>4. PageTypes' /\ Fetched'
  BY <1>1 DEF IInv, PageTypes, Fetched
<1>5. QueuedIsIncomplete' /\ HeardExpires' /\ NoSilentEnd'
  BY <1>1 DEF IInv, QueuedIsIncomplete, HeardExpires, NoSilentEnd, Expired
<1> QED
  BY <1>3, <1>4, <1>5 DEF IInv

\* The bytes that are read are news, and set the expiration time.
LEMMA ReadIsHeard ==
  ASSUME Types, VisitReads
  PROVE  /\ asked' = asked /\ sent' = sent /\ client' = client
         /\ tail' \in 1..sent /\ tail' <= Size /\ left' = KeepAlive /\ left' # Unset
BY ConnectionAssumption DEF VisitReads, Types, HeardExpires, Text, Stages

\* An answer is one of Replies, or there is nobody to get it.
LEMMA AnswersAnswer ==
  ASSUME NEW status \in {400, 403, 404, 405, 505}, NEW version \in {"DOT_ZERO", "DOT_ONE"},
         NEW close \in BOOLEAN, Answers(status, version, close)
  PROVE  /\ stage' = "ended" /\ reply' \in Replies \cup {NoReply}
         /\ reply' = NoReply => client = "closed"
<1>1. [status |-> status, version |-> version, close |-> close] \in Replies
  BY DEF Replies
<1> QED
  BY <1>1, ConnectionAssumption DEF Answers

\* process_job with news: the job is queued again only on FAIL, and each other
\* outcome has its answer.
LEMMA VisitReadsKeeps ==
  ASSUME IInv, VisitReads, UNCHANGED <<transfer, scanning>>
  PROVE  IInv'
<1> DEFINE parsed == parse_request_string(Arrived(tail'))
<1>1. /\ asked' = asked /\ sent' = sent /\ client' = client
      /\ tail' \in 1..sent /\ tail' <= Size /\ left' = KeepAlive /\ left' # Unset
  BY ReadIsHeard DEF IInv
<1>2. stage = "queued" /\ Process(parsed)
  BY DEF VisitReads
<1>3. /\ parsed.keepAlive \in BOOLEAN
      /\ parsed.outcome = "FAIL" => \A k \in 1..tail' : Text(asked)[k] # "\n"
  <2>1. /\ Len(Arrived(tail')) = tail'
        /\ \A k \in 1..tail' : Arrived(tail')[k] = Text(asked)[k]
    BY <1>1, ReadFacts DEF IInv, Types
  <2> QED
    BY <2>1, FailIsNoLine
<1> HIDE DEF parsed
\* Where the job may be after the visit.
<1> DEFINE Outcome ==
      /\ stage' \in {"queued", "ended", "fetch", "crashed"}
      /\ stage' = "queued" => parsed.outcome = "FAIL"
      /\ stage' = "ended" /\ reply' = NoReply => client = "closed"
      /\ stage' = "fetch" => target' # <<>>
      /\ reply' \in Replies \cup {NoReply}
<1>4. Outcome
  <2>0. reply \in Replies \cup {NoReply}
    BY DEF IInv, Types
  <2>1. CASE parsed.outcome = "FAIL" /\ tail' # Size - 1 /\ UNCHANGED <<stage, reply, target>>
    BY <2>0, <2>1, <1>2
  <2>2. CASE Answers(400, "DOT_ONE", FALSE)
    <3>0. [status |-> 400, version |-> "DOT_ONE", close |-> FALSE] \in Replies
      BY DEF Replies
    <3>1. /\ stage' = "ended" /\ reply' \in Replies \cup {NoReply}
          /\ reply' = NoReply => client = "closed"
      BY <2>2, <3>0, ConnectionAssumption DEF Answers
    <3> QED
      BY <3>1
  <2>3. CASE Answers(505, "DOT_ONE", FALSE)
    <3>0. [status |-> 505, version |-> "DOT_ONE", close |-> FALSE] \in Replies
      BY DEF Replies
    <3>1. /\ stage' = "ended" /\ reply' \in Replies \cup {NoReply}
          /\ reply' = NoReply => client = "closed"
      BY <2>3, <3>0, ConnectionAssumption DEF Answers
    <3> QED
      BY <3>1
  <2>4. CASE parsed.outcome \in {"DOT_ZERO", "DOT_ONE"} /\ Serve(parsed)
    <3>1. CASE Answers(405, parsed.outcome, parsed.keepAlive)
      BY <3>1, <2>4, <1>3, AnswersAnswer
    <3>2. CASE Answers(403, parsed.outcome, parsed.keepAlive)
      BY <3>2, <2>4, <1>3, AnswersAnswer
    <3>3. CASE Answers(404, parsed.outcome, parsed.keepAlive)
      BY <3>3, <2>4, <1>3, AnswersAnswer
    <3>4. CASE /\ stage' = "fetch" /\ UNCHANGED reply
               /\ target' = [host |-> parsed.host, path |-> parsed.path]
      <4>1. target' # <<>>
        BY <3>4
      <4> QED
        BY <2>0, <3>4, <4>1
    <3> QED
      BY <2>4, <3>1, <3>2, <3>3, <3>4 DEF Serve
  <2>5. CASE stage' = "crashed" /\ UNCHANGED reply
    BY <2>0, <2>5
  <2> QED
    BY <1>2, <2>1, <2>2, <2>3, <2>4, <2>5 DEF Process
<1>5. QueuedIsIncomplete'
  <2>1. Text(asked)' = Text(asked)
    BY <1>1, SameText
  <2> QED
    BY <1>3, <1>4, <2>1 DEF QueuedIsIncomplete
<1>6. Types' /\ HeardExpires'
  <2>1. Text(asked)' = Text(asked)
    BY <1>1, SameText
  <2> QED
    BY <1>1, <1>4, <2>1, ConnectionAssumption
    DEF IInv, Types, HeardExpires, Stages
<1>7. PageTypes' /\ Fetched' /\ NoSilentEnd'
  BY <1>1, <1>2, <1>4 DEF transfer, scanning, IInv, PageTypes, Fetched, NoSilentEnd
<1> QED
  BY <1>5, <1>6, <1>7 DEF IInv

\* process_job.
LEMMA VisitKeeps ==
  ASSUME IInv, ProcessJob
  PROVE  IInv'
<1>1. CASE VisitExpired
  BY <1>1, TerminatesKeeps DEF VisitExpired, ProcessJob
<1>2. CASE VisitNothing
  BY <1>2
  DEF ProcessJob, VisitNothing, transfer, scanning, IInv, Types, PageTypes, Fetched, Text,
      QueuedIsIncomplete, HeardExpires, NoSilentEnd, Expired
<1>3. CASE VisitHangup
  BY <1>3, TerminatesKeeps DEF VisitHangup, NothingToRead, ProcessJob, IInv, Types
<1>4. CASE VisitReads
  BY <1>4, VisitReadsKeeps DEF ProcessJob
<1> QED
  BY <1>1, <1>2, <1>3, <1>4 DEF ProcessJob, Visit

\* From the request on, the connection is not touched, and what ends has named
\* a page.
LEMMA LaterKeeps ==
  ASSUME IInv, UNCHANGED connection, PageTypes', stage \in {"fetch", "relay", "scan"},
         stage' \in {"relay", "scan", "ended", "spins"},
         stage' \in {"relay", "scan"} => page' # NoPage
  PROVE  IInv'
BY DEF connection, IInv, Types, Fetched, Text, Stages, QueuedIsIncomplete, HeardExpires,
       NoSilentEnd

\* The first chunk of a page, and the lengths it gives.
LEMMA FirstRecvKeeps ==
  ASSUME IInv, FirstRecv
  PROVE  IInv'
<1>1. PICK p \in Pages : \E n \in Received(p, 0) :
        LET text == SubSeq(PageText(p), 1, n)
            found == parse_response_header(text, Len(Content(p)))
        IN /\ stage = "fetch" /\ stage' = "relay"
           /\ page' = p /\ file' = text
           /\ missing' \in IF Find(text, "\n", 1) = 0 THEN 0 .. Len(PageText(p)) + 1
                           ELSE {IF n < found.header + found.content
                                 THEN found.content - (n - found.header) ELSE 0}
           /\ UNCHANGED <<connection, scanning>>
  BY DEF FirstRecv
<1>2. PICK n \in Received(p, 0) :
        LET text == SubSeq(PageText(p), 1, n)
            found == parse_response_header(text, Len(Content(p)))
        IN /\ stage = "fetch" /\ stage' = "relay"
           /\ page' = p /\ file' = text
           /\ missing' \in IF Find(text, "\n", 1) = 0 THEN 0 .. Len(PageText(p)) + 1
                           ELSE {IF n < found.header + found.content
                                 THEN found.content - (n - found.header) ELSE 0}
           /\ UNCHANGED <<connection, scanning>>
  BY <1>1
<1> DEFINE text == SubSeq(PageText(p), 1, n)
           found == parse_response_header(text, Len(Content(p)))
<1>3. /\ PageText(p) \in Seq(STRING) /\ Len(PageText(p)) \in Nat
      /\ Len(Content(p)) \in Nat /\ p # NoPage
  BY ExchangeAssumption
<1>4. n \in 1..Len(PageText(p))
  BY <1>3, ConnectionAssumption DEF Received
<1>5. text \in Seq(STRING)
  BY <1>3, <1>4
<1> HIDE DEF text
<1>6. found.header \in Int /\ found.content \in Int
  BY <1>3, <1>5, LengthsType
<1> HIDE DEF found
<1>7. missing' \in Int
  <2>1. CASE missing' \in 0 .. Len(PageText(p)) + 1
    BY <2>1
  <2>2. CASE missing' = IF n < found.header + found.content
                        THEN found.content - (n - found.header) ELSE 0
    BY <2>2, <1>4, <1>6
  <2> QED
    BY <1>2, <2>1, <2>2 DEF text, found
<1>8. PageTypes'
  BY <1>2, <1>5, <1>7 DEF IInv, PageTypes, scanning, text
<1> QED
  BY <1>2, <1>3, <1>8, LaterKeeps

\* The others.
LEMMA NextRecvKeeps ==
  ASSUME IInv, NextRecv
  PROVE  IInv'
<1>1. PICK n \in Received(page, Len(file)) :
        /\ file' = file \o SubSeq(PageText(page), Len(file) + 1, Len(file) + n)
        /\ missing' = missing - n
  BY DEF NextRecv
<1>2. page \in Pages /\ PageText(page) \in Seq(STRING) /\ file \in Seq(STRING)
  BY ExchangeAssumption DEF NextRecv, IInv, PageTypes, Fetched
<1>3. n \in Nat /\ Len(file) + n <= Len(PageText(page))
  BY <1>2, ConnectionAssumption DEF Received
<1>4. SubSeq(PageText(page), Len(file) + 1, Len(file) + n) \in Seq(STRING)
  BY <1>2, <1>3
<1>5. PageTypes'
  BY <1>1, <1>2, <1>3, <1>4 DEF NextRecv, scanning, IInv, PageTypes
<1> QED
  BY <1>5, LaterKeeps DEF NextRecv, IInv, Fetched

\* A block of the file is searched.
LEMMA ScanBlockKeeps ==
  ASSUME IInv, ScanBlock
  PROVE  IInv'
<1>1. PICK rest \in Memory : pos' = pos + find_href(Block \o rest, Len(Block)).moved
  BY DEF ScanBlock, Found
<1>2. Block \in Seq(STRING)
  <2>1. file \in Seq(STRING) /\ pos \in Nat /\ pos < Len(file) /\ MAX_URL_SIZE \in Nat
    BY ConnectionAssumption DEF ScanBlock, IInv, PageTypes
  <2> QED
    BY <2>1 DEF Block
<1>3. Block \o rest \in Seq(STRING) /\ Len(Block) \in Nat
  BY <1>2, ExchangeAssumption
<1>4. pos' \in Nat
  <2>1. find_href(Block \o rest, Len(Block)).moved \in Nat
    BY <1>3, MovedType
  <2> QED
    BY <1>1, <2>1 DEF IInv, PageTypes
<1>5. PageTypes'
  BY <1>4 DEF ScanBlock, transfer, IInv, PageTypes
<1> QED
  BY <1>5, LaterKeeps DEF ScanBlock, transfer, IInv, Fetched

\* handle_valid_request and dispatch_prefetch_jobs.
LEMMA TransferKeeps ==
  ASSUME IInv, Fetch \/ Relay \/ Scan
  PROVE  IInv'
<1>1. CASE Spins
  BY <1>1, LaterKeeps DEF Spins, transfer, scanning, IInv, PageTypes, Fetched
<1>2. CASE Relayed
  BY <1>2, LaterKeeps DEF Relayed, transfer, IInv, PageTypes, Fetched
<1>3. CASE ScanEnds
  BY <1>3, LaterKeeps DEF ScanEnds, transfer, scanning, IInv, PageTypes, Fetched
<1>4. CASE ServerUnreachable
  BY <1>4, LaterKeeps DEF ServerUnreachable, transfer, scanning, IInv, PageTypes
<1> QED
  BY <1>1, <1>2, <1>3, <1>4, FirstRecvKeeps, NextRecvKeeps, ScanBlockKeeps
  DEF Fetch, Relay, Scan

\* Nothing happens.
LEMMA StillKeeps ==
  ASSUME IInv, UNCHANGED vars
  PROVE  IInv'
BY DEF vars, connection, transfer, scanning, IInv, Types, PageTypes, Fetched, Text, QueuedIsIncomplete,
       HeardExpires, NoSilentEnd, Expired

-----------------------------------------------------------------------------
(* Theorems *)

\* IInv is inductive.
THEOREM InductiveInvariant == Spec => []IInv
<1>1. ASSUME IInv, [Next]_vars
      PROVE  IInv'
  BY <1>1, ClientKeeps, ClockKeeps, VisitKeeps, TransferKeeps, StillKeeps DEF Next, Over
<1> QED
  BY InitHolds, <1>1, PTL DEF Spec

\* The state keeps its types; in particular no length or position is computed
\* that is not a number, however the network cuts a page.
THEOREM ExchangeTypeCorrect == Spec => []TypeOK
<1>1. IInv => TypeOK
  BY ConnectionAssumption DEF IInv, Types, PageTypes, TypeOK
<1> QED
  BY <1>1, InductiveInvariant, PTL

\* process_job returns ENQUEUE only for a job whose buffer holds no whole line,
\* whatever the sizes and the requests.
THEOREM QueuedNeedsMore == Spec => []QueuedIsIncomplete
<1>1. IInv => QueuedIsIncomplete
  BY DEF IInv
<1> QED
  BY <1>1, InductiveInvariant, PTL

\* Every connection that has sent something has an expiration time.
THEOREM HeardIsTimed == Spec => []HeardExpires
<1>1. IInv => HeardExpires
  BY DEF IInv
<1> QED
  BY <1>1, InductiveInvariant, PTL

\* A connection that ends without answer, and has not got as far as a page, has
\* expired, has been left by its client, or has filled the buffer to the last
\* byte.
THEOREM EndsAreAnswered == Spec => []NoSilentEnd
<1>1. IInv => NoSilentEnd
  BY DEF IInv
<1> QED
  BY <1>1, InductiveInvariant, PTL

-----------------------------------------------------------------------------
(* The page in the cache file.  The loop of handle_valid_request counts    *)
(* down the length it has computed from the first chunk: this length is    *)
(* that of the page, from the place of the first empty line.               *)

\* The symbols of headers by names, since the provers reason better about
\* members of an unknown set than about strings.
OK == "200 OK"
CL == "Content-length: "
CR == "\r"
LF == "\n"
Symbols == STRING \cup {OK, CL, CR, LF}
Blank == <<CR, LF, CR, LF>>

\* They are symbols, and the two that end a line are told from the others.
LEMMA SymbolsOfHeaders ==
  /\ OK \in Symbols /\ CL \in Symbols /\ CR \in Symbols /\ LF \in Symbols
  /\ OK # CR /\ LF # CR /\ CL # CR
  /\ EOL = <<CR, LF>>
  /\ Seq(STRING) \subseteq Seq(Symbols)
<1>1. STRING \subseteq Symbols
  BY DEF Symbols
<1>2. Seq(STRING) \subseteq Seq(Symbols)
  BY <1>1, SeqMonotonic
<1>3. OK \in Symbols /\ CL \in Symbols /\ CR \in Symbols /\ LF \in Symbols
  BY DEF Symbols
<1>4. OK # CR /\ LF # CR /\ CL # CR /\ EOL = <<CR, LF>>
  BY DEF OK, CL, CR, LF, EOL
<1> QED
  BY <1>2, <1>3, <1>4

\* Where the symbols of two texts are when one follows the other.
LEMMA Joined ==
  ASSUME NEW S, NEW text \in Seq(S), NEW more \in Seq(S)
  PROVE  /\ text \o more \in Seq(S) /\ Len(text \o more) = Len(text) + Len(more)
         /\ \A k \in 1..Len(text) : (text \o more)[k] = text[k]
         /\ \A k \in 1..Len(more) : (text \o more)[Len(text) + k] = more[k]
OBVIOUS

\* A line of two symbols more.
LEMMA LineLength ==
  ASSUME NEW text \in Seq(Symbols)
  PROVE  /\ text \o EOL \in Seq(Symbols) /\ Len(text \o EOL) = Len(text) + 2
         /\ \A k \in 1..Len(text) : (text \o EOL)[k] = text[k]
         /\ (text \o EOL)[Len(text) + 1] = CR /\ (text \o EOL)[Len(text) + 2] = LF
<1>1. EOL \in Seq(Symbols) /\ Len(EOL) = 2 /\ EOL[1] = CR /\ EOL[2] = LF
  BY SymbolsOfHeaders
<1>2. /\ text \o EOL \in Seq(Symbols) /\ Len(text \o EOL) = Len(text) + Len(EOL)
      /\ \A k \in 1..Len(text) : (text \o EOL)[k] = text[k]
      /\ \A k \in 1..Len(EOL) : (text \o EOL)[Len(text) + k] = EOL[k]
  <2>1. EOL \in Seq(Symbols)
    BY <1>1
  <2> QED
    BY <2>1, Joined
<1>3. 1 \in 1..Len(EOL) /\ 2 \in 1..Len(EOL)
  BY <1>1
<1>4. (text \o EOL)[Len(text) + 1] = EOL[1] /\ (text \o EOL)[Len(text) + 2] = EOL[2]
  BY <1>2, <1>3
<1> QED
  BY <1>1, <1>2, <1>4

\* And one of one symbol.
LEMMA FirstLine ==
  ASSUME NEW symbol \in Symbols
  PROVE  /\ <<symbol>> \o EOL \in Seq(Symbols) /\ Len(<<symbol>> \o EOL) = 3
         /\ (<<symbol>> \o EOL)[1] = symbol
         /\ (<<symbol>> \o EOL)[2] = CR /\ (<<symbol>> \o EOL)[3] = LF
<1> DEFINE text == <<symbol>>
<1>1. text \in Seq(Symbols) /\ Len(text) = 1 /\ text[1] = symbol
  OBVIOUS
<1> HIDE DEF text
<1>2. /\ text \o EOL \in Seq(Symbols) /\ Len(text \o EOL) = 3
      /\ (text \o EOL)[1] = symbol
      /\ (text \o EOL)[2] = CR /\ (text \o EOL)[3] = LF
  <2>1. Len(text) + 1 = 2 /\ Len(text) + 2 = 3
    BY <1>1
  <2>2. (text \o EOL)[2] = CR /\ (text \o EOL)[3] = LF
    BY <1>1, <2>1, LineLength
  <2> QED
    BY <1>1, <2>2, LineLength
<1> QED
  BY <1>2 DEF text

\* The header of a page ends with an empty line, and has no other.
LEMMA HeaderShape ==
  ASSUME NEW p \in Pages
  PROVE  LET text == HeaderText(p)
             h    == Len(text)
         IN /\ text \in Seq(Symbols) /\ h \in {5, 8}
            /\ text[h - 3] = CR /\ text[h - 2] = LF /\ text[h - 1] = CR /\ text[h] = LF
            /\ \A k \in 1 .. h - 4 : ~ (text[k] = CR /\ text[k + 2] = CR)
<1> DEFINE first == <<OK>> \o EOL
           second == <<CL>> \o EOL
           text == HeaderText(p)
<1>1. /\ first \in Seq(Symbols) /\ Len(first) = 3
      /\ first[1] = OK /\ first[2] = CR /\ first[3] = LF
  BY SymbolsOfHeaders, FirstLine
<1>2. /\ second \in Seq(Symbols) /\ Len(second) = 3
      /\ second[1] = CL /\ second[2] = CR /\ second[3] = LF
  BY SymbolsOfHeaders, FirstLine
<1>3. text = (first \o (IF p.announced THEN second ELSE <<>>)) \o EOL
  BY Zenon DEF HeaderText, OrNothing, OK, CL
<1> HIDE DEF first, second, text
<1>4. CASE p.announced
  <2> DEFINE both == first \o second
  <2>1. text = both \o EOL
    BY <1>3, <1>4
  <2>2. /\ both \in Seq(Symbols) /\ Len(both) = 6
        /\ both[1] = OK /\ both[2] = CR /\ both[3] = LF
        /\ both[4] = CL /\ both[5] = CR /\ both[6] = LF
    <3>1. /\ both \in Seq(Symbols) /\ Len(both) = Len(first) + Len(second)
          /\ \A k \in 1..Len(first) : both[k] = first[k]
          /\ \A k \in 1..Len(second) : both[Len(first) + k] = second[k]
      <4>1. first \in Seq(Symbols) /\ second \in Seq(Symbols)
        BY <1>1, <1>2
      <4> QED
        BY <4>1, Joined
    <3>2. both[1] = first[1] /\ both[2] = first[2] /\ both[3] = first[3]
      BY <1>1, <3>1
    <3>3. both[4] = second[1] /\ both[5] = second[2] /\ both[6] = second[3]
      <4>1. \A k \in 1..3 : both[3 + k] = second[k]
        <5>1. Len(first) = 3 /\ Len(second) = 3
          BY <1>1, <1>2
        <5> HIDE DEF both
        <5> QED
          BY <5>1, <3>1
      <4>2. both[3 + 1] = second[1] /\ both[3 + 2] = second[2] /\ both[3 + 3] = second[3]
        <5> HIDE DEF both
        <5> QED
          BY <4>1
      <4>3. 3 + 1 = 4 /\ 3 + 2 = 5 /\ 3 + 3 = 6
        OBVIOUS
      <4> HIDE DEF both
      <4> QED
        BY <4>2, <4>3
    <3> QED
      BY <1>1, <1>2, <3>1, <3>2, <3>3
  <2> HIDE DEF both
  <2>3. /\ text \in Seq(Symbols) /\ Len(text) = 8
        /\ text[7] = CR /\ text[8] = LF
        /\ \A k \in 1..6 : text[k] = both[k]
    <3>1. Len(both) + 1 = 7 /\ Len(both) + 2 = 8
      BY <2>2
    <3>2. text[7] = CR /\ text[8] = LF
      BY <2>1, <2>2, <3>1, LineLength
    <3>3. /\ text \in Seq(Symbols) /\ Len(text) = Len(both) + 2
          /\ \A k \in 1..Len(both) : text[k] = both[k]
      BY <2>1, <2>2, LineLength
    <3> QED
      BY <2>2, <3>2, <3>3
  <2>4. text[1] = OK /\ text[3] = LF /\ text[4] = CL /\ text[5] = CR /\ text[6] = LF
    BY <2>2, <2>3
  <2>5. \A k \in 1..4 : ~ (text[k] = CR /\ text[k + 2] = CR)
    <3>1. \A k \in 1..4 : k = 1 \/ k = 2 \/ k = 3 \/ k = 4
      OBVIOUS
    <3> QED
      BY <2>4, <3>1, SymbolsOfHeaders
  <2>6. Len(text) - 4 = 4 /\ Len(text) - 3 = 5 /\ Len(text) - 2 = 6 /\ Len(text) - 1 = 7
    BY <2>3
  <2> QED
    BY <2>3, <2>4, <2>5, <2>6 DEF text
<1>5. CASE ~p.announced
  <2>1. text = first \o EOL
    BY <1>1, <1>3, <1>5
  <2>2. /\ text \in Seq(Symbols) /\ Len(text) = 5
        /\ text[4] = CR /\ text[5] = LF
        /\ text[1] = OK /\ text[2] = CR /\ text[3] = LF
    <3>1. Len(first) + 1 = 4 /\ Len(first) + 2 = 5
      BY <1>1
    <3>2. text[4] = CR /\ text[5] = LF
      BY <1>1, <2>1, <3>1, LineLength
    <3>3. /\ text \in Seq(Symbols) /\ Len(text) = Len(first) + 2
          /\ \A k \in 1..Len(first) : text[k] = first[k]
      BY <1>1, <2>1, LineLength
    <3>4. text[1] = first[1] /\ text[2] = first[2] /\ text[3] = first[3]
      BY <1>1, <3>3
    <3> QED
      BY <1>1, <3>2, <3>3, <3>4
  <2>3. \A k \in 1..1 : ~ (text[k] = CR /\ text[k + 2] = CR)
    BY <2>2, SymbolsOfHeaders
  <2>4. Len(text) - 4 = 1 /\ Len(text) - 3 = 2 /\ Len(text) - 2 = 3 /\ Len(text) - 1 = 4
    BY <2>2
  <2> QED
    BY <2>2, <2>3, <2>4 DEF text
<1> QED
  BY <1>4, <1>5

\* What Min is.
LEMMA MinIs ==
  ASSUME NEW S, S \subseteq Nat, NEW m \in S, \A k \in S : m <= k
  PROVE  Min(S) = m
<1>1. m \in Nat /\ \A x \in S : (\A y \in S : x <= y) => x = m
  OBVIOUS
<1> QED
  BY <1>1 DEF Min

\* So when the header is found in what has come of a page, and its length with
\* it, both are right.
LEMMA LengthsAreRight ==
  ASSUME NEW p \in Pages, NEW n \in 1..Len(PageText(p)),
         parse_response_header(SubSeq(PageText(p), 1, n), Len(Content(p))).header > 0,
         parse_response_header(SubSeq(PageText(p), 1, n), Len(Content(p))).content >= 0
  PROVE  LET text  == SubSeq(PageText(p), 1, n)
             found == parse_response_header(text, Len(Content(p)))
         IN /\ found.content = Len(Content(p))
            /\ found.header + found.content = Len(PageText(p))
            /\ \E k \in 1..Len(text) : text[k] = LF
<1> DEFINE text == SubSeq(PageText(p), 1, n)
           h == Len(HeaderText(p))
           found == parse_response_header(text, Len(Content(p)))
           hasLength == \E k \in 1..Len(text) :
             /\ text[k] = LF
             /\ matches_command(SubSeq(text, LineStart(text, k), k), "Content-length: ")
           blanks == {k \in 1 .. Len(text) - 3 : SubSeq(text, k, k + 3) = Blank}
<1>1. found = IF hasLength
              THEN [header |-> IF blanks = {} THEN -1 ELSE Min(blanks) + 3,
                    content |-> Len(Content(p))]
              ELSE [header |-> FindLast(text, LF), content |-> -1]
  BY DEF parse_response_header, Blank, CR, LF
<1>2. /\ PageText(p) \in Seq(Symbols) /\ Content(p) \in Seq(Symbols)
      /\ h \in {5, 8} /\ HeaderText(p) \in Seq(Symbols)
      /\ HeaderText(p)[h - 3] = CR /\ HeaderText(p)[h - 2] = LF
      /\ HeaderText(p)[h - 1] = CR /\ HeaderText(p)[h] = LF
      /\ \A k \in 1 .. h - 4 : ~ (HeaderText(p)[k] = CR /\ HeaderText(p)[k + 2] = CR)
  BY ExchangeAssumption, HeaderShape, SymbolsOfHeaders
<1>3. /\ Len(PageText(p)) = h + Len(Content(p))
      /\ \A k \in 1..h : PageText(p)[k] = HeaderText(p)[k]
  BY <1>2 DEF PageText
<1>4. text \in Seq(Symbols) /\ Len(text) = n /\ \A k \in 1..n : text[k] = PageText(p)[k]
  BY <1>2
<1>5. ASSUME NEW k \in blanks
      PROVE  k \in 1 .. n - 3 /\ text[k] = CR /\ text[k + 1] = LF /\ text[k + 2] = CR
  <2>1. k \in 1 .. n - 3 /\ SubSeq(text, k, k + 3) = Blank
    BY <1>4
  <2>2. \A i \in 1..4 : SubSeq(text, k, k + 3)[i] = text[k + i - 1]
    BY <1>4, <2>1
  <2>3. text[k] = Blank[1] /\ text[k + 1] = Blank[2] /\ text[k + 2] = Blank[3]
    <3> HIDE DEF text
    <3>1. text[k] = Blank[1]
      BY <2>1, <2>2
    <3>2. text[k + 1] = Blank[2]
      BY <2>1, <2>2
    <3>3. text[k + 2] = Blank[3]
      BY <2>1, <2>2
    <3> QED
      BY <3>1, <3>2, <3>3
  <2> QED
    BY <2>1, <2>3 DEF Blank
<1> HIDE DEF text, hasLength, blanks
<1>6. hasLength /\ blanks # {} /\ found = [header |-> Min(blanks) + 3, content |-> Len(Content(p))]
  <2>1. found.header > 0 /\ found.content >= 0
    BY DEF text
  <2> QED
    BY <1>1, <2>1
<1>7. \A k \in blanks : k >= h - 3
  <2> SUFFICES ASSUME NEW k \in blanks, k < h - 3
               PROVE  FALSE
    BY <1>2, <1>5
  <2>1. k \in 1 .. h - 4 /\ k + 2 \in 1..h /\ k \in 1..n /\ k + 2 \in 1..n
    <3>1. n \in Nat /\ h \in Nat /\ k \in Nat /\ k >= 1
      BY <1>2, <1>5
    <3> QED
      BY <1>2, <1>5, <3>1
  <2>2. HeaderText(p)[k] = CR /\ HeaderText(p)[k + 2] = CR
    BY <1>3, <1>4, <1>5, <2>1
  <2> QED
    BY <1>2, <2>1, <2>2
<1>8. h <= n /\ h - 3 \in 1..h /\ h - 2 \in 1..h /\ h - 1 \in 1..h /\ h \in 1..h
  <2>1. PICK k \in blanks : TRUE
    BY <1>6
  <2>2. k \in 1 .. n - 3 /\ k >= h - 3
    BY <1>5, <1>7, <2>1
  <2>3. h \in {5, 8}
    BY <1>2
  <2> HIDE DEF h
  <2> QED
    BY <2>2, <2>3
<1>9. h - 3 \in blanks
  <2>1. /\ text[h - 3] = CR /\ text[h - 2] = LF /\ text[h - 1] = CR /\ text[h] = LF
        /\ h - 3 \in 1 .. Len(text) - 3
    <3>1. \A k \in 1..h : k \in 1..n /\ text[k] = HeaderText(p)[k]
      <4> HIDE DEF h
      <4> QED
        BY <1>2, <1>3, <1>4, <1>8
    <3>2. h - 3 \in 1 .. Len(text) - 3
      BY <1>2, <1>4, <1>8
    <3> QED
      BY <1>2, <1>8, <3>1, <3>2
  <2>2. SubSeq(text, h - 3, (h - 3) + 3) = Blank
    <3> DEFINE s == SubSeq(text, h - 3, (h - 3) + 3)
    <3> HIDE DEF h
    <3>1. /\ s \in Seq(Symbols) /\ Len(s) = 4
          /\ s[1] = text[h - 3] /\ s[2] = text[h - 2] /\ s[3] = text[h - 1] /\ s[4] = text[h]
      BY <1>2, <1>4, <2>1
    <3>2. Blank \in Seq(Symbols) /\ Len(Blank) = 4 /\ Blank[1] = CR /\ Blank[2] = LF
          /\ Blank[3] = CR /\ Blank[4] = LF
      BY SymbolsOfHeaders DEF Blank
    <3> HIDE DEF s
    <3>3. \A i \in 1..4 : i = 1 \/ i = 2 \/ i = 3 \/ i = 4
      OBVIOUS
    <3>4. \A i \in 1..4 : s[i] = Blank[i]
      BY <2>1, <3>1, <3>2, <3>3
    <3>5. s = Blank
      BY <3>1, <3>2, <3>4, SeqEqual
    <3> QED
      BY <3>5 DEF s
  <2> QED
    BY <2>1, <2>2 DEF blanks
<1>10. Min(blanks) = h - 3
  <2>1. blanks \subseteq Nat
    BY <1>5
  <2> QED
    BY <1>7, <1>9, <2>1, MinIs
<1>11. \E k \in 1..Len(text) : text[k] = LF
  <2>1. h \in 1..Len(text) /\ h \in 1..n
    BY <1>2, <1>4, <1>8
  <2>2. text[h] = LF
    BY <1>2, <1>3, <1>4, <2>1
  <2> QED
    BY <2>1, <2>2
<1>12. found.content = Len(Content(p)) /\ found.header = h
  BY <1>2, <1>6, <1>10
<1> QED
  BY <1>3, <1>11, <1>12 DEF text

\* strchr finds a line end that is there.
LEMMA FoundLine ==
  ASSUME NEW text \in Seq(STRING), \E k \in 1..Len(text) : text[k] = LF
  PROVE  Find(text, "\n", 1) # 0
<1> DEFINE at == {k \in 1..Len(text) : text[k] = "\n"}
<1>1. at \subseteq Nat /\ at # {} /\ 0 \notin at
  BY DEF LF
<1>2. Find(text, "\n", 1) = IF at = {} THEN 0 ELSE Min(at)
  BY DEF Find
<1> HIDE DEF at
<1>3. Min(at) \in at
  BY <1>1, MinIn
<1> QED
  BY <1>1, <1>2, <1>3

-----------------------------------------------------------------------------
(* The transfer *)

\* The file is what the server has sent up to now.
Pieces ==
  page # NoPage =>
    /\ Len(file) <= Len(PageText(page))
    /\ file = SubSeq(PageText(page), 1, Len(file))

\* What the loop waits for is what is still to come.
Counted ==
  page # NoPage /\ header.header > 0 /\ header.content >= 0 =>
    missing = Len(PageText(page)) - Len(file)

\* The links are looked for when the loop is over.
Done == stage = "scan" => missing <= 0

WholeInv == Pieces /\ Counted /\ Done

\* The first chunk gives the right lengths, if any.
LEMMA FirstRecvWhole ==
  ASSUME IInv, FirstRecv
  PROVE  WholeInv'
<1>1. PICK p \in Pages : \E n \in Received(p, 0) :
        LET text == SubSeq(PageText(p), 1, n)
            found == parse_response_header(text, Len(Content(p)))
        IN /\ stage' = "relay"
           /\ page' = p /\ file' = text /\ header' = found
           /\ missing' \in IF Find(text, "\n", 1) = 0 THEN 0 .. Len(PageText(p)) + 1
                           ELSE {IF n < found.header + found.content
                                 THEN found.content - (n - found.header) ELSE 0}
  BY DEF FirstRecv
<1>2. PICK n \in Received(p, 0) :
        LET text == SubSeq(PageText(p), 1, n)
            found == parse_response_header(text, Len(Content(p)))
        IN /\ stage' = "relay"
           /\ page' = p /\ file' = text /\ header' = found
           /\ missing' \in IF Find(text, "\n", 1) = 0 THEN 0 .. Len(PageText(p)) + 1
                           ELSE {IF n < found.header + found.content
                                 THEN found.content - (n - found.header) ELSE 0}
  BY <1>1
<1> DEFINE text == SubSeq(PageText(p), 1, n)
           found == parse_response_header(text, Len(Content(p)))
<1>3. /\ PageText(p) \in Seq(STRING) /\ Len(PageText(p)) \in Nat
      /\ Len(Content(p)) \in Nat
  BY ExchangeAssumption
<1>4. n \in 1..Len(PageText(p))
  BY <1>3, ConnectionAssumption DEF Received
<1>5. text \in Seq(STRING) /\ Len(text) = n
  BY <1>3, <1>4
<1>6. PageText(page)' = PageText(p)
  BY <1>2 DEF PageText, HeaderText, Content, LinkText
<1>7. Pieces'
  BY <1>2, <1>4, <1>5, <1>6 DEF Pieces
<1>8. ASSUME found.header > 0, found.content >= 0
      PROVE  missing' = Len(PageText(p)) - n
  <2>1. /\ found.header + found.content = Len(PageText(p))
        /\ \E k \in 1..Len(text) : text[k] = LF
    BY <1>4, <1>8, LengthsAreRight
  <2>2. Find(text, "\n", 1) # 0
    BY <1>5, <2>1, FoundLine
  <2>3. found.header \in Int /\ found.content \in Int
    <3> HIDE DEF text
    <3> QED
      BY <1>3, <1>5, LengthsType
  <2>4. missing' = IF n < found.header + found.content
                   THEN found.content - (n - found.header) ELSE 0
    BY <1>2, <2>2
  <2>5. Len(PageText(p)) \in Int /\ n \in Int /\ n <= Len(PageText(p))
    BY <1>3, <1>4
  <2> HIDE DEF found, text
  <2> QED
    BY <2>1, <2>3, <2>4, <2>5
<1>9. header' = found /\ file' = text
  BY <1>2
<1> HIDE DEF found, text
<1>10. Counted'
  BY <1>5, <1>6, <1>8, <1>9 DEF Counted
<1>11. Done'
  BY <1>2 DEF Done
<1> QED
  BY <1>7, <1>10, <1>11 DEF WholeInv

\* What comes next is counted.
LEMMA NextRecvWhole ==
  ASSUME IInv, WholeInv, NextRecv
  PROVE  WholeInv'
<1> DEFINE text == PageText(page)
<1>1. PICK n \in Received(page, Len(file)) :
        /\ file' = file \o SubSeq(text, Len(file) + 1, Len(file) + n)
        /\ missing' = missing - n
  BY DEF NextRecv
<1>2. page \in Pages /\ page # NoPage /\ text \in Seq(STRING) /\ file \in Seq(STRING)
  BY ExchangeAssumption DEF NextRecv, IInv, PageTypes, Fetched
<1>3. n \in Nat /\ n >= 1 /\ Len(file) + n <= Len(text)
  BY <1>2, ConnectionAssumption DEF Received
<1>4. page' = page /\ header' = header /\ stage' = stage /\ stage = "relay" /\ text' = text
  BY DEF NextRecv, PageText, HeaderText, Content, LinkText
<1>5. file' = SubSeq(text, 1, Len(file) + n) /\ Len(file') = Len(file) + n
  <2> HIDE DEF text
  <2>1. file = SubSeq(text, 1, Len(file)) /\ Len(file) <= Len(text) /\ Len(file) \in Nat
    BY <1>2 DEF text, WholeInv, Pieces
  <2>2. SubSeq(text, 1, Len(file)) \o SubSeq(text, Len(file) + 1, Len(file) + n)
          = SubSeq(text, 1, Len(file) + n)
    <3>1. /\ text \in Seq(STRING) /\ 1 \in 1 .. Len(text) + 1
          /\ Len(file) \in 1 - 1 .. Len(text) /\ Len(file) + n \in Len(file) .. Len(text)
      BY <1>2, <1>3, <2>1 DEF text
    <3> QED
      BY <3>1, ConcatAdjacentSubSeq
  <2>3. file' = SubSeq(text, 1, Len(file) + n)
    BY <1>1, <2>1, <2>2
  <2>4. Len(SubSeq(text, 1, Len(file) + n)) = Len(file) + n
    BY <1>2, <1>3, <2>1
  <2> QED
    BY <2>3, <2>4
<1> HIDE DEF text
<1>6. Pieces'
  BY <1>3, <1>4, <1>5 DEF Pieces, text
<1>7. Counted'
  <2>1. page # NoPage /\ header.header > 0 /\ header.content >= 0 =>
          missing = Len(text) - Len(file)
    BY DEF WholeInv, Counted, text
  <2>2. Len(text) \in Nat /\ Len(file) \in Nat
    BY <1>2
  <2>3. page # NoPage /\ header.header > 0 /\ header.content >= 0 =>
          missing' = Len(text) - Len(file')
    BY <1>1, <1>3, <1>5, <2>1, <2>2
  <2> QED
    BY <1>4, <2>3 DEF Counted, text
<1>8. Done'
  BY <1>4 DEF Done
<1> QED
  BY <1>6, <1>7, <1>8 DEF WholeInv

\* Every other step leaves the transfer alone, and only Relayed goes on to the
\* links.
LEMMA OthersWhole ==
  ASSUME WholeInv, UNCHANGED transfer, stage' = "scan" => stage = "scan" \/ missing <= 0
  PROVE  WholeInv'
<1>1. PageText(page)' = PageText(page)
  BY DEF transfer, PageText, HeaderText, Content, LinkText
<1> QED
  BY <1>1 DEF transfer, WholeInv, Pieces, Counted, Done

\* All steps together.
LEMMA StepsWhole ==
  ASSUME IInv, WholeInv, [Next]_vars
  PROVE  WholeInv'
<1>1. CASE FirstRecv
  BY <1>1, FirstRecvWhole
<1>2. CASE NextRecv
  BY <1>2, NextRecvWhole
<1>3. CASE ServerUnreachable \/ Relayed \/ Spins \/ Scan
  BY <1>3, OthersWhole DEF ServerUnreachable, Relayed, Spins, Scan, ScanBlock, ScanEnds
<1>4. CASE Client \/ Clock
  BY <1>4, OthersWhole DEF Client, ClientSends, ClientLeaves, Clock, SecondPasses
<1>5. CASE ProcessJob
  <2>1. stage' # "scan" \/ stage' = stage
    BY <1>5 DEF ProcessJob, Visit, VisitExpired, VisitNothing, VisitHangup, VisitReads,
                Terminates, Process, Answers, Serve
  <2> QED
    BY <1>5, <2>1, OthersWhole DEF ProcessJob
<1>6. CASE UNCHANGED vars
  BY <1>6, OthersWhole DEF vars
<1> QED
  BY <1>1, <1>2, <1>3, <1>4, <1>5, <1>6 DEF Next, Fetch, Relay, Over

\* When the whole header is in the first recv, the cached page is the page of
\* the server, however the rest of it is cut and whatever its length.
THEOREM PagesAreWhole == Spec => []WholePage
<1>1. Init => WholeInv
  BY DEF Init, InitConnection, WholeInv, Pieces, Counted, Done
<1>2. IInv /\ WholeInv /\ [Next]_vars => WholeInv'
  BY StepsWhole
<1>3. IInv /\ WholeInv => WholePage
  <2> SUFFICES ASSUME IInv, WholeInv, stage = "scan", header.header > 0, header.content >= 0
               PROVE  file = PageText(page)
    BY DEF WholePage
  <2>1. page \in Pages /\ page # NoPage /\ PageText(page) \in Seq(STRING) /\ file \in Seq(STRING)
    BY ExchangeAssumption DEF IInv, PageTypes, Fetched
  <2>2. Len(file) = Len(PageText(page))
    <3>1. Len(file) \in Nat /\ Len(PageText(page)) \in Nat
      BY <2>1
    <3> QED
      BY <2>1, <3>1 DEF WholeInv, Pieces, Counted, Done
  <2>3. file = SubSeq(PageText(page), 1, Len(PageText(page)))
    BY <2>1, <2>2 DEF WholeInv, Pieces
  <2> QED
    BY <2>1, <2>3
<1> QED
  BY <1>1, <1>2, <1>3, InductiveInvariant, PTL DEF Spec

=============================================================================

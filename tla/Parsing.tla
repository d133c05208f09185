------------------------------- MODULE Parsing -------------------------------
(***************************************************************************)
(* The functions of parsing.c on texts.  A text is a sequence of symbols,  *)
(* each a character or a piece of text that the code compares as a whole   *)
(* ("GET", "http://", "Host: ", "HTTP/1.1", ...; comparisons are made      *)
(* without case where the code does so).  Positions count from 1.          *)
(***************************************************************************)
EXTENDS Integers, SequencesExt

CONSTANT MAX_URL_SIZE    \* how much of a path is kept, in symbols

\* strchr from position i on, and strrchr; 0 for NULL.
Find(text, symbol, i) ==
  LET at == {k \in i..Len(text) : text[k] = symbol}
  IN IF at = {} THEN 0 ELSE Min(at)

FindLast(text, symbol) ==
  LET at == {k \in 1..Len(text) : text[k] = symbol}
  IN IF at = {} THEN 0 ELSE Max(at)

\* A text from one position to another, as far as there is any.
Cut(text, from, to) == SubSeq(text, from, IF to > Len(text) THEN Len(text) ELSE to)

\* A text without the spaces it begins with.
SkipSpaces(text) ==
  LET spaces == {k \in DOMAIN text : \A j \in 1..k : text[j] = " "}
  IN SubSeq(text, 1 + Max({0} \cup spaces), Len(text))

\* Whether a text begins with a command.
matches_command(target, command) == target # <<>> /\ Head(target) = command

-----------------------------------------------------------------------------
(* parse_request_string *)

OtherMethods == {"HEAD", "POST", "PUT", "DELETE", "CONNECT", "TRACE", "PATCH", "OPTIONS"}

\* enum http_version, from what follows the last space of the request line.
http_version(word) ==
  IF word = "HTTP/1.1" THEN "DOT_ONE"
  ELSE IF word = "HTTP/1.0" THEN "DOT_ZERO"
  ELSE IF word = "HTTP/" THEN "NOT_SUPPORTED" ELSE "MALFORMED"

\* What the function hands back.  outcome is FAIL (no complete line yet) or
\* the version, with SUCCESS; "crash" is the strncpy with a negative length,
\* which no process survives.
Parsed(outcome) ==
  [outcome |-> outcome, isGet |-> FALSE, host |-> <<>>, path |-> <<>>, keepAlive |-> FALSE]

\* One trailing '/' is stripped, unless it is the whole path.
StripSlash(path) ==
  IF Len(path) > 1 /\ Last(path) = "/" THEN Front(path) ELSE path

\* path has room for MAX_URL_SIZE; of a longer one the rest is dropped.
CopiedPath(path) == StripSlash(Cut(path, 1, MAX_URL_SIZE))

\* A Host line overwrites hostname, which holds the URL's host: name ends in
\* '\r', all but the last two characters are copied, and the terminator is
\* put one further, so that one old character stays before it.
CaptureHost(host, name) ==
  Cut(name, 1, Len(name) - 2) \o Cut(host, Len(name) - 1, Len(name) - 1)

\* Mutation of HeaderEnds: what there is of the last line is a line.
HeaderEndsAtLast(text, eol) ==
  {k \in eol + 1 .. Len(text) : text[k] = "\n" \/ k = Len(text)}

\* The header lines that are complete, by the positions of their ends, and
\* where they start.  A request has at most one Host line.
HeaderEnds(text, eol) ==
  {k \in eol + 1 .. Len(text) : text[k] = "\n"}

LineStart(text, end) ==
  1 + Max({0} \cup {k \in 1 .. end - 1 : text[k] = "\n"})

HeadersParsed(text, eol, parsed) ==
  LET starts(header) ==
        {k \in HeaderEnds(text, eol) :
           matches_command(SubSeq(text, LineStart(text, k), k), header)}
      name == LET k == CHOOSE k \in starts("Host: ") : TRUE
              IN SkipSpaces(SubSeq(text, LineStart(text, k) + 1, k - 1))
  IN IF starts("Host: ") # {} /\ Len(name) < 2 THEN Parsed("crash")
     ELSE [outcome |-> parsed.outcome, isGet |-> parsed.isGet, path |-> parsed.path,
           host |-> IF starts("Host: ") = {} THEN parsed.host
                    ELSE CaptureHost(parsed.host, name),
           keepAlive |-> starts("Proxy-Connection: keep-alive") # {}]

\* The request line without its end, eol being where it ends.
RequestLineParsed(text, eol) ==
  LET line  == SubSeq(text, 1, eol - 1)
      first == Find(line, " ", 1)
      last  == FindLast(line, " ")
      version == IF last = Len(line) THEN "MALFORMED" ELSE http_version(line[last + 1])
      url   == SubSeq(line, first + 1, last - 1)
      slash == Find(url, "/", 2)
  IN IF last = 0 THEN Parsed("MALFORMED")
     ELSE IF version \in {"MALFORMED", "NOT_SUPPORTED"} THEN Parsed(version)
     ELSE IF url = <<>> \/ \A m \in OtherMethods \cup {"GET"} : ~matches_command(line, m)
          THEN Parsed("MALFORMED")
     ELSE IF ~matches_command(url, "http://")
          THEN HeadersParsed(text, eol, Parsed("MALFORMED"))
     ELSE IF slash = 0 THEN Parsed("crash")
     ELSE HeadersParsed(text, eol,
            [outcome |-> version, isGet |-> matches_command(line, "GET"),
             host |-> SubSeq(url, 2, slash - 1),
             path |-> CopiedPath(SubSeq(url, slash, Len(url))), keepAlive |-> FALSE])

\* Mutation of parse_request_string: what there is of the line is parsed.
ParseIncompleteLine(text) ==
  RequestLineParsed(text, Find(text \o <<"\n">>, "\n", 1))

\* Mutation of parse_request_string: waits for the empty line.
ParseWholeHeader(text) ==
  IF \A k \in 4..Len(text) : SubSeq(text, k - 3, k) # <<"\r", "\n", "\r", "\n">>
  THEN Parsed("FAIL")
  ELSE RequestLineParsed(text, Find(text, "\n", 1))

parse_request_string(text) ==
  IF \A k \in 1..Len(text) : text[k] # "\n"
  THEN Parsed("FAIL")
  ELSE RequestLineParsed(text, Find(text, "\n", 1))

-----------------------------------------------------------------------------
(* parse_response_header *)

\* Mutation of parse_response_header: the first '\r' '\n' ends the header.
HeaderEndsAtFirstLine(text, announced) ==
  [header |-> Find(text, "\n", 1), content |-> announced]

\* The lengths of the header and of the content in the first bytes of a
\* response.  announced is the number in its "Content-length: " line.  Without
\* any line end the length of the header, computed from NULL, is arbitrary
\* (Exchange!FirstRecv).
parse_response_header(text, announced) ==
  LET hasLength == \E k \in 1..Len(text) :
        /\ text[k] = "\n"
        /\ matches_command(SubSeq(text, LineStart(text, k), k), "Content-length: ")
      blanks == {k \in 1 .. Len(text) - 3 : SubSeq(text, k, k + 3) = <<"\r", "\n", "\r", "\n">>}
  IN IF hasLength
     THEN [header |-> IF blanks = {} THEN -1 ELSE Min(blanks) + 3, content |-> announced]
     ELSE [header |-> FindLast(text, "\n"), content |-> -1]

-----------------------------------------------------------------------------
(* find_href *)

\* Mutation of find_href: the file is left at the end of the block.
FindHrefStaysAtBlockEnd(buffer, size) ==
  LET href  == Find(buffer, "href=", 1)
      quote == Find(buffer, "\"", href + 2)
  IN IF href = 0 \/ quote = 0 THEN [result |-> "CONTINUE", link |-> <<>>, moved |-> size]
     ELSE [result |-> "SUCCESS", link |-> SubSeq(buffer, href + 2, quote - 1), moved |-> size]

\* Mutation of find_href: the file is left where the link begins.
FindHrefStaysAtLink(buffer, size) ==
  LET href  == Find(buffer, "href=", 1)
      quote == Find(buffer, "\"", href + 2)
  IN IF href = 0 \/ quote = 0 THEN [result |-> "CONTINUE", link |-> <<>>, moved |-> size]
     ELSE [result |-> "SUCCESS", link |-> SubSeq(buffer, href + 2, quote - 1), moved |-> href - 1]

\* One block of the file in file_buffer: result, the link, and how far from the
\* start of the block the file is left.  size is the number of symbols read,
\* the rest of the buffer is what was there before.
find_href(buffer, size) ==
  LET href  == Find(buffer, "href=", 1)
      quote == Find(buffer, "\"", href + 2)
  IN IF href = 0 THEN [result |-> "CONTINUE", link |-> <<>>, moved |-> size]
     ELSE IF quote = 0 THEN [result |-> "FAIL", link |-> <<>>, moved |-> size]
     ELSE [result |-> "SUCCESS", link |-> SubSeq(buffer, href + 2, quote - 1),
           moved |-> quote - 1]

=============================================================================

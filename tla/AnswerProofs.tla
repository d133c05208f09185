---------------------------- MODULE AnswerProofs ----------------------------
(***************************************************************************)
(* The answer to a request, for all requests whose parts hold no           *)
(* separators (Connection!RequestsAssumption), all sizes of the buffer and *)
(* all ways of cutting what is sent: parse_request_string finds the parts  *)
(* as soon as the request line is there, and says FAIL before.             *)
(*                                                                         *)
(* The text of a request is what stands at each of its positions; from     *)
(* these follow what strchr and strrchr find in it, and from what they     *)
(* find what the parser makes of it.                                       *)
(***************************************************************************)
EXTENDS ExchangeProofs

\* Symbols of requests.
SP == " "
SLASH == "/"
HTTP == "http://"
HOST == "Host: "
ALIVE == "Proxy-Connection: keep-alive"
Letters == STRING \cup {CR, LF, SP, SLASH, HTTP, HOST, ALIVE, "GET", "HTTP/1.1"}

\* They are symbols, and told apart.
LEMMA LettersOfRequests ==
  /\ CR \in Letters /\ LF \in Letters /\ SP \in Letters /\ SLASH \in Letters /\ HTTP \in Letters
  /\ HOST \in Letters /\ ALIVE \in Letters /\ "GET" \in Letters /\ "HTTP/1.1" \in Letters
  /\ CR # LF /\ CR # SP /\ CR # HOST /\ CR # ALIVE /\ HOST # ALIVE /\ HOST # LF /\ ALIVE # LF
  /\ SP # LF /\ SLASH # HTTP
  /\ EOL = <<CR, LF>>
  /\ Seq(STRING) \subseteq Seq(Letters) /\ STRING \subseteq Letters
<1>1. STRING \subseteq Letters
  BY DEF Letters
<1>2. Seq(STRING) \subseteq Seq(Letters)
  BY <1>1, SeqMonotonic
<1>3. /\ CR \in Letters /\ LF \in Letters /\ SP \in Letters /\ SLASH \in Letters /\ HTTP \in Letters
      /\ HOST \in Letters /\ ALIVE \in Letters /\ "GET" \in Letters /\ "HTTP/1.1" \in Letters
  BY DEF Letters
<1>4. /\ CR # LF /\ CR # SP /\ CR # HOST /\ CR # ALIVE /\ HOST # ALIVE /\ HOST # LF /\ ALIVE # LF
      /\ SP # LF /\ SLASH # HTTP
  BY DEF CR, LF, SP, HOST, ALIVE, SLASH, HTTP
<1>5. EOL = <<CR, LF>>
  BY DEF EOL, CR, LF
<1> QED
  BY <1>1, <1>2, <1>3, <1>4, <1>5

\* Of what strchr finds.
LEMMA FindIs ==
  ASSUME NEW S, NEW text \in Seq(S), NEW symbol, NEW i \in Nat, NEW m \in i..Len(text),
         text[m] = symbol, \A k \in i..m - 1 : text[k] # symbol
  PROVE  Find(text, symbol, i) = m
<1> DEFINE at == {k \in i..Len(text) : text[k] = symbol}
<1>1. at \subseteq Nat /\ m \in at
  OBVIOUS
<1>2. \A k \in at : m <= k
  OBVIOUS
<1>3. Find(text, symbol, i) = IF at = {} THEN 0 ELSE Min(at)
  BY DEF Find
<1> HIDE DEF at
<1>4. Min(at) = m
  BY <1>1, <1>2, MinIs
<1> QED
  BY <1>1, <1>3, <1>4

\* Or does not find.
LEMMA FindsNone ==
  ASSUME NEW S, NEW text \in Seq(S), NEW symbol, NEW i \in Nat,
         \A k \in i..Len(text) : text[k] # symbol
  PROVE  Find(text, symbol, i) = 0
<1>1. {k \in i..Len(text) : text[k] = symbol} = {}
  OBVIOUS
<1> QED
  BY <1>1 DEF Find

\* What Max is.
LEMMA MaxIs ==
  ASSUME NEW S, S \subseteq Nat, NEW m \in S, \A k \in S : k <= m
  PROVE  Max(S) = m
<1>1. m \in Nat /\ \A x \in S : (\A y \in S : x >= y) => x = m
  OBVIOUS
<1>2. \A y \in S : m >= y
  OBVIOUS
<1> QED
  BY <1>1, <1>2 DEF Max

\* The same of strrchr.
LEMMA FindLastIs ==
  ASSUME NEW S, NEW text \in Seq(S), NEW symbol, NEW m \in 1..Len(text),
         text[m] = symbol, \A k \in m + 1 .. Len(text) : text[k] # symbol
  PROVE  FindLast(text, symbol) = m
<1> DEFINE at == {k \in 1..Len(text) : text[k] = symbol}
<1>1. at \subseteq Nat /\ m \in at
  OBVIOUS
<1>2. \A k \in at : k <= m
  OBVIOUS
<1>3. FindLast(text, symbol) = IF at = {} THEN 0 ELSE Max(at)
  BY DEF FindLast
<1> HIDE DEF at
<1>4. Max(at) = m
  BY <1>1, <1>2, MaxIs
<1> QED
  BY <1>1, <1>3, <1>4

\* No symbol, no last one.
LEMMA FindsNoLast ==
  ASSUME NEW S, NEW text \in Seq(S), NEW symbol,
         \A k \in 1..Len(text) : text[k] # symbol
  PROVE  FindLast(text, symbol) = 0
<1>1. {k \in 1..Len(text) : text[k] = symbol} = {}
  OBVIOUS
<1> QED
  BY <1>1 DEF FindLast

-----------------------------------------------------------------------------
(* The texts of requests *)

\* Requests over these symbols.
LetterRequests ==
  [method : Letters, scheme : Seq(Letters), host : Seq(Letters), path : Seq(Letters),
   version : Letters, named : BOOLEAN, hostLine : Seq(Letters), keepAlive : BOOLEAN]

\* Those that clients send are.
LEMMA RequestsAreTexts ==
  ASSUME NEW r \in Requests
  PROVE  r \in LetterRequests /\ WellFormed(r)
<1>1. r \in [method : STRING, scheme : Seq(STRING), host : Seq(STRING),
             path : Seq(STRING), version : STRING, named : BOOLEAN,
             hostLine : Seq(STRING), keepAlive : BOOLEAN]
  BY RequestsAssumption
<1>2. STRING \subseteq Letters /\ Seq(STRING) \subseteq Seq(Letters)
  BY LettersOfRequests
<1>3. r \in LetterRequests
  BY <1>1, <1>2 DEF LetterRequests
<1>4. WellFormed(r)
  BY RequestsAssumption
<1> QED
  BY <1>3, <1>4

\* The parts of a request.
LEMMA PartsOfRequests ==
  ASSUME NEW r \in LetterRequests, WellFormed(r)
  PROVE  /\ r.method \in Letters /\ r.version \in Letters
         /\ r.method # SP /\ r.method # LF /\ r.version # SP /\ r.version # LF
         /\ r.scheme \in Seq(Letters) /\ r.host \in Seq(Letters) /\ r.path \in Seq(Letters)
         /\ r.hostLine \in Seq(Letters) /\ Url(r) \in Seq(Letters)
         /\ \A k \in 1..Len(Url(r)) : Url(r)[k] # SP /\ Url(r)[k] # LF
         /\ \A k \in 1..Len(r.host) : r.host[k] # SLASH
         /\ \A k \in 1..Len(r.hostLine) : r.hostLine[k] # LF
         /\ r.keepAlive \in BOOLEAN /\ r.named \in BOOLEAN
<1>1. /\ r.method \in Letters /\ r.version \in Letters
      /\ r.keepAlive \in BOOLEAN /\ r.named \in BOOLEAN
      /\ r.scheme \in Seq(Letters) /\ r.host \in Seq(Letters) /\ r.path \in Seq(Letters)
      /\ r.hostLine \in Seq(Letters)
  BY DEF LetterRequests
<1>2. Url(r) \in Seq(Letters)
  BY <1>1 DEF Url
<1>3. r.method # SP /\ r.method # LF /\ r.version # SP /\ r.version # LF
  BY DEF WellFormed, SP, LF
<1>4. /\ \A k \in DOMAIN Url(r) : Url(r)[k] # SP /\ Url(r)[k] # LF
      /\ \A k \in DOMAIN r.host : r.host[k] # SLASH
      /\ \A k \in DOMAIN r.hostLine : r.hostLine[k] # LF
  BY DEF WellFormed, Lacks, SP, LF, SLASH
<1>5. /\ DOMAIN Url(r) = 1..Len(Url(r)) /\ DOMAIN r.host = 1..Len(r.host)
      /\ DOMAIN r.hostLine = 1..Len(r.hostLine)
  BY <1>1, <1>2
<1> QED
  BY <1>1, <1>2, <1>3, <1>4, <1>5

\* A text and one symbol more in front.
LEMMA Preceded ==
  ASSUME NEW S, NEW symbol \in S, NEW text \in Seq(S)
  PROVE  /\ <<symbol>> \o text \in Seq(S) /\ Len(<<symbol>> \o text) = 1 + Len(text)
         /\ (<<symbol>> \o text)[1] = symbol
         /\ \A k \in 1..Len(text) : (<<symbol>> \o text)[1 + k] = text[k]
<1> DEFINE one == <<symbol>>
<1>1. one \in Seq(S) /\ Len(one) = 1 /\ one[1] = symbol
  OBVIOUS
<1> HIDE DEF one
<1>2. /\ one \o text \in Seq(S) /\ Len(one \o text) = Len(one) + Len(text)
      /\ \A k \in 1..Len(one) : (one \o text)[k] = one[k]
      /\ \A k \in 1..Len(text) : (one \o text)[Len(one) + k] = text[k]
  <2>1. one \in Seq(S)
    BY <1>1
  <2> QED
    BY <2>1, Joined
<1>3. (one \o text)[1] = symbol
  BY <1>1, <1>2
<1>4. \A k \in 1..Len(text) : (one \o text)[1 + k] = text[k]
  BY <1>1, <1>2
<1> QED
  BY <1>1, <1>2, <1>3, <1>4 DEF one

\* Or the end of a line behind it.
LEMMA EndedLine ==
  ASSUME NEW text \in Seq(Letters)
  PROVE  /\ text \o EOL \in Seq(Letters) /\ Len(text \o EOL) = Len(text) + 2
         /\ \A k \in 1..Len(text) : (text \o EOL)[k] = text[k]
         /\ (text \o EOL)[Len(text) + 1] = CR /\ (text \o EOL)[Len(text) + 2] = LF
<1>1. EOL \in Seq(Letters) /\ Len(EOL) = 2 /\ EOL[1] = CR /\ EOL[2] = LF
  BY LettersOfRequests
<1>2. EOL \in Seq(Letters)
  BY <1>1
<1>3. /\ text \o EOL \in Seq(Letters) /\ Len(text \o EOL) = Len(text) + Len(EOL)
      /\ \A k \in 1..Len(text) : (text \o EOL)[k] = text[k]
      /\ \A k \in 1..Len(EOL) : (text \o EOL)[Len(text) + k] = EOL[k]
  BY <1>2, Joined
<1>4. 1 \in 1..Len(EOL) /\ 2 \in 1..Len(EOL)
  BY <1>1
<1>5. (text \o EOL)[Len(text) + 1] = EOL[1] /\ (text \o EOL)[Len(text) + 2] = EOL[2]
  BY <1>3, <1>4
<1> QED
  BY <1>1, <1>3, <1>5

\* The words of a request line.
Words(r) ==
  <<r.method>> \o OrNothing(Url(r) # <<>>, <<SP>> \o Url(r))
               \o OrNothing(r.version # "", <<SP, r.version>>)

\* Where they are.
LEMMA WordsOfLine ==
  ASSUME NEW r \in LetterRequests, WellFormed(r)
  PROVE  LET url   == Url(r)
             words == Words(r)
             n     == Len(words)
             u     == IF url = <<>> THEN 1 ELSE Len(url) + 2
         IN /\ words \in Seq(Letters) /\ n >= 1
            /\ words[1] = r.method
            /\ n = IF r.version = "" THEN u ELSE u + 2
            /\ url # <<>> => words[2] = SP /\ \A k \in 1..Len(url) : words[2 + k] = url[k]
            /\ r.version # "" => words[u + 1] = SP /\ words[u + 2] = r.version
<1> DEFINE url   == Url(r)
           words == Words(r)
           n     == Len(words)
           u     == IF url = <<>> THEN 1 ELSE Len(url) + 2
           second == IF url = <<>> THEN <<>> ELSE <<SP>> \o url
           both == <<r.method>> \o second
           named == r.version # ""
           third == IF named THEN <<SP, r.version>> ELSE <<>>
<1>1. /\ r.method \in Letters /\ r.version \in Letters /\ url \in Seq(Letters)
      /\ SP \in Letters /\ Len(url) \in Nat /\ <<>> \in Seq(Letters) /\ Len(<<>>) = 0
  BY PartsOfRequests, LettersOfRequests
<1>2. words = both \o third
  BY DEF Words, OrNothing
<1> HIDE DEF url, words, named
<1>3. /\ second \in Seq(Letters) /\ Len(second) = u - 1
      /\ url # <<>> => second[1] = SP /\ \A k \in 1..Len(url) : second[1 + k] = url[k]
  <2>1. CASE url = <<>>
    BY <1>1, <2>1
  <2>2. CASE url # <<>>
    <3>1. /\ <<SP>> \o url \in Seq(Letters) /\ Len(<<SP>> \o url) = 1 + Len(url)
          /\ (<<SP>> \o url)[1] = SP
          /\ \A k \in 1..Len(url) : (<<SP>> \o url)[1 + k] = url[k]
      BY <1>1, Preceded
    <3>2. second = <<SP>> \o url
      BY <2>2
    <3> HIDE DEF second
    <3> QED
      BY <1>1, <2>2, <3>1, <3>2
  <2> QED
    BY <2>1, <2>2
<1> HIDE DEF second
<1>4. /\ both \in Seq(Letters) /\ Len(both) = u /\ both[1] = r.method
      /\ url # <<>> => both[2] = SP /\ \A k \in 1..Len(url) : both[2 + k] = url[k]
  <2>1. /\ both \in Seq(Letters) /\ Len(both) = 1 + Len(second) /\ both[1] = r.method
        /\ \A k \in 1..Len(second) : both[1 + k] = second[k]
    BY <1>1, <1>3, Preceded
  <2> HIDE DEF both
  <2>2. Len(both) = u
    BY <1>1, <1>3, <2>1
  <2>3. ASSUME url # <<>>
        PROVE  both[2] = SP /\ \A k \in 1..Len(url) : both[2 + k] = url[k]
    <3>1. Len(second) = Len(url) + 1
      BY <1>1, <1>3, <2>3
    <3>2. both[1 + 1] = second[1]
      BY <1>1, <2>1, <3>1
    <3>3. ASSUME NEW k \in 1..Len(url)
          PROVE  both[2 + k] = url[k]
      <4>1. 1 + k \in 1..Len(second) /\ 1 + (1 + k) = 2 + k
        BY <1>1, <3>1
      <4>2. both[1 + (1 + k)] = second[1 + k]
        BY <2>1, <4>1
      <4> QED
        BY <1>3, <2>3, <4>1, <4>2
    <3> QED
      BY <1>3, <2>3, <3>2, <3>3
  <2> QED
    BY <2>1, <2>2, <2>3
<1>5. /\ third \in Seq(Letters) /\ Len(third) = IF named THEN 2 ELSE 0
      /\ named => third[1] = SP /\ third[2] = r.version
  BY <1>1
<1> HIDE DEF both, third
<1>6. /\ both \o third \in Seq(Letters) /\ Len(both \o third) = Len(both) + Len(third)
      /\ \A k \in 1..Len(both) : (both \o third)[k] = both[k]
      /\ \A k \in 1..Len(third) : (both \o third)[Len(both) + k] = third[k]
  <2>1. both \in Seq(Letters) /\ third \in Seq(Letters)
    BY <1>4, <1>5
  <2> QED
    BY <2>1, Joined
<1>7. u \in Nat /\ u >= 1 /\ (url # <<>> => u = Len(url) + 2)
  BY <1>1
<1> HIDE DEF u
<1>8. /\ words \in Seq(Letters) /\ n >= 1 /\ words[1] = r.method
      /\ n = IF named THEN u + 2 ELSE u
  BY <1>2, <1>4, <1>5, <1>6, <1>7
<1>9. ASSUME url # <<>>
      PROVE  words[2] = SP /\ \A k \in 1..Len(url) : words[2 + k] = url[k]
  <2>1. \A k \in 1..u : words[k] = both[k]
    BY <1>2, <1>4, <1>6
  <2>2. 2 \in 1..u /\ \A k \in 1..Len(url) : 2 + k \in 1..u
    BY <1>1, <1>7, <1>9
  <2> QED
    BY <1>4, <1>9, <2>1, <2>2
<1>10. ASSUME named
       PROVE  words[u + 1] = SP /\ words[u + 2] = r.version
  <2>1. 1 \in 1..Len(third) /\ 2 \in 1..Len(third)
    BY <1>5, <1>10
  <2>2. words[u + 1] = third[1] /\ words[u + 2] = third[2]
    BY <1>2, <1>4, <1>6, <2>1
  <2> QED
    BY <1>5, <1>10, <2>2
<1> QED
  BY <1>8, <1>9, <1>10 DEF u, url, words, named

\* Which of them are spaces; none ends a line.
LEMMA SpacesOfLine ==
  ASSUME NEW r \in LetterRequests, WellFormed(r)
  PROVE  LET url   == Url(r)
             words == Words(r)
             n     == Len(words)
             u     == IF url = <<>> THEN 1 ELSE Len(url) + 2
         IN /\ \A k \in 1..n : words[k] # LF
            /\ \A k \in 1..n : words[k] = SP => k = 2 \/ k = u + 1
            /\ url = <<>> /\ r.version = "" => \A k \in 1..n : words[k] # SP
            /\ url # <<>> \/ r.version # "" => n >= 2 /\ words[2] = SP
<1> DEFINE url   == Url(r)
           words == Words(r)
           n     == Len(words)
           u     == IF url = <<>> THEN 1 ELSE Len(url) + 2
           named == r.version # ""
<1>1. /\ words \in Seq(Letters) /\ n >= 1 /\ n \in Nat
      /\ words[1] = r.method
      /\ n = IF named THEN u + 2 ELSE u
      /\ url # <<>> => words[2] = SP /\ \A k \in 1..Len(url) : words[2 + k] = url[k]
      /\ named => words[u + 1] = SP /\ words[u + 2] = r.version
  <2>1. /\ words \in Seq(Letters) /\ n >= 1
        /\ words[1] = r.method
        /\ n = IF r.version = "" THEN u ELSE u + 2
        /\ url # <<>> => words[2] = SP /\ \A k \in 1..Len(url) : words[2 + k] = url[k]
        /\ named => words[u + 1] = SP /\ words[u + 2] = r.version
    BY WordsOfLine
  <2> HIDE DEF words, u, url
  <2>2. n \in Nat
    <3>1. words \in Seq(Letters)
      BY <2>1
    <3> QED
      BY <3>1
  <2>3. n = IF named THEN u + 2 ELSE u
    BY <2>1
  <2> QED
    BY <2>1, <2>2, <2>3
<1>2. /\ r.method # SP /\ r.method # LF /\ r.version # SP /\ r.version # LF
      /\ url \in Seq(Letters) /\ \A k \in 1..Len(url) : url[k] # SP /\ url[k] # LF
  BY PartsOfRequests
<1> HIDE DEF url, words, named
<1>3. /\ Len(url) \in Nat /\ u \in Nat /\ SP # LF
      /\ url = <<>> => u = 1
      /\ url # <<>> => u = Len(url) + 2 /\ u >= 3
  BY <1>2, LettersOfRequests
<1> HIDE DEF u
<1>4. ASSUME NEW k \in 1..n, k # 1
      PROVE  IF named /\ k = u + 1 THEN words[k] = SP
             ELSE IF named /\ k = u + 2 THEN words[k] = r.version
             ELSE /\ url # <<>> /\ words[k] # LF
                  /\ words[k] = SP => k = 2
  <2>1. CASE named /\ (k = u + 1 \/ k = u + 2)
    BY <2>1, <1>1, <1>3
  <2>2. CASE ~ (named /\ (k = u + 1 \/ k = u + 2))
    <3>1. k \in 2..u
      BY <1>1, <1>3, <1>4, <2>2
    <3>2. url # <<>> /\ (k = 2 \/ k - 2 \in 1..Len(url))
      BY <1>3, <3>1
    <3>3. CASE k = 2
      BY <1>1, <1>3, <2>2, <3>2, <3>3
    <3>4. CASE k - 2 \in 1..Len(url)
      <4>1. words[2 + (k - 2)] = url[k - 2] /\ 2 + (k - 2) = k
        BY <1>1, <3>2, <3>4
      <4> QED
        BY <1>2, <2>2, <3>2, <3>4, <4>1
    <3> QED
      BY <3>2, <3>3, <3>4
  <2> QED
    BY <2>1, <2>2
<1>5. \A k \in 1..n : words[k] # LF
  BY <1>1, <1>2, <1>3, <1>4
<1>6. \A k \in 1..n : words[k] = SP => k = 2 \/ k = u + 1
  BY <1>1, <1>2, <1>3, <1>4
<1>7. url = <<>> /\ ~named => \A k \in 1..n : words[k] # SP
  BY <1>1, <1>2, <1>4
<1>8. url # <<>> \/ named => n >= 2 /\ words[2] = SP
  <2>1. CASE url # <<>>
    BY <1>1, <1>3, <2>1
  <2>2. CASE url = <<>> /\ named
    BY <1>1, <1>3, <2>2
  <2> QED
    BY <2>1, <2>2
<1> QED
  BY <1>5, <1>6, <1>7, <1>8 DEF u, url, words, named

\* The request line is these words and its end.
LEMMA EndOfLine ==
  ASSUME NEW r \in LetterRequests, WellFormed(r)
  PROVE  LET line == RequestLine(r)
             n    == Len(Words(r))
         IN /\ line \in Seq(Letters) /\ Len(line) = n + 2 /\ n \in Nat /\ n >= 1
            /\ \A k \in 1..n : line[k] = Words(r)[k]
            /\ line[n + 1] = CR /\ line[n + 2] = LF
            /\ \A k \in 1..n + 1 : line[k] # LF
<1> DEFINE words == Words(r)
           n == Len(words)
           line == RequestLine(r)
<1>1. words \in Seq(Letters) /\ n >= 1 /\ \A k \in 1..n : words[k] # LF
  BY WordsOfLine, SpacesOfLine
<1>2. line = words \o EOL
  BY Zenon DEF RequestLine, Words, SP
<1> HIDE DEF words, line
<1>3. /\ line \in Seq(Letters) /\ Len(line) = n + 2
      /\ \A k \in 1..n : line[k] = words[k]
      /\ line[n + 1] = CR /\ line[n + 2] = LF
  BY <1>1, <1>2, EndedLine
<1>4. n \in Nat
  BY <1>1
<1>5. \A k \in 1..n + 1 : line[k] # LF
  BY <1>1, <1>3, <1>4, LettersOfRequests
<1> QED
  BY <1>1, <1>3, <1>4, <1>5 DEF words, line

\* Where the Host line and the line about the connection end, if there are any.
HostEnd(r) == IF r.named THEN Len(r.hostLine) + 3 ELSE 0

AliveEnd(r) == IF r.keepAlive THEN HostEnd(r) + 3 ELSE HostEnd(r)

\* The header lines: a Host line, if any, up to position a, a line that asks to
\* keep the connection, if any, up to b, and an empty line.
LEMMA HeaderPositions ==
  ASSUME NEW r \in LetterRequests, WellFormed(r)
  PROVE  LET h == HeaderLines(r)
             a == HostEnd(r)
             b == AliveEnd(r)
         IN /\ h \in Seq(Letters) /\ a \in Nat /\ b \in Nat /\ Len(h) = b + 2
            /\ r.named =>
                 /\ h[1] = HOST /\ h[a - 1] = CR /\ h[a] = LF
                 /\ \A k \in 1..Len(r.hostLine) : h[1 + k] = r.hostLine[k]
            /\ r.keepAlive => h[a + 1] = ALIVE /\ h[a + 2] = CR /\ h[a + 3] = LF
            /\ h[b + 1] = CR /\ h[b + 2] = LF
<1> DEFINE h == HeaderLines(r)
           a == HostEnd(r)
           b == AliveEnd(r)
           named == r.named
           name == r.hostLine
           alive == r.keepAlive
           first == IF named THEN (<<HOST>> \o name) \o EOL ELSE <<>>
           second == IF alive THEN <<ALIVE>> \o EOL ELSE <<>>
           both == first \o second
<1>1. /\ name \in Seq(Letters) /\ Len(name) \in Nat /\ <<>> \in Seq(Letters) /\ Len(<<>>) = 0
      /\ HOST \in Letters /\ ALIVE \in Letters /\ alive \in BOOLEAN /\ named \in BOOLEAN
  <2>1. alive \in BOOLEAN /\ named \in BOOLEAN
    BY PartsOfRequests
  <2> HIDE DEF alive, named
  <2> QED
    BY <2>1, PartsOfRequests, LettersOfRequests
<1>2. h = both \o EOL
  BY Zenon DEF HeaderLines, OrNothing, HOST, ALIVE
<1>3. /\ a = IF named THEN Len(name) + 3 ELSE 0
      /\ b = IF alive THEN a + 3 ELSE a
  BY DEF HostEnd, AliveEnd
<1> HIDE DEF h, a, b, name, alive, named
<1>4. /\ first \in Seq(Letters) /\ Len(first) = a
      /\ named =>
           /\ first[1] = HOST /\ first[a - 1] = CR /\ first[a] = LF
           /\ \A k \in 1..Len(name) : first[1 + k] = name[k]
  <2>1. CASE ~named
    BY <1>1, <1>3, <2>1
  <2>2. CASE named
    <3> DEFINE line == <<HOST>> \o name
    <3>1. /\ line \in Seq(Letters) /\ Len(line) = 1 + Len(name)
          /\ line[1] = HOST /\ \A k \in 1..Len(name) : line[1 + k] = name[k]
      BY <1>1, Preceded
    <3>2. first = line \o EOL
      BY <2>2
    <3> HIDE DEF line, first
    <3>3. /\ first \in Seq(Letters) /\ Len(first) = Len(line) + 2
          /\ \A k \in 1..Len(line) : first[k] = line[k]
          /\ first[Len(line) + 1] = CR /\ first[Len(line) + 2] = LF
      BY <3>1, <3>2, EndedLine
    <3>4. a = Len(line) + 2 /\ a - 1 = Len(line) + 1 /\ 1 \in 1..Len(line)
          /\ \A k \in 1..Len(name) : 1 + k \in 1..Len(line)
      BY <1>1, <1>3, <2>2, <3>1
    <3> QED
      BY <3>1, <3>3, <3>4
  <2> QED
    BY <2>1, <2>2
<1> HIDE DEF first
<1>5. /\ second \in Seq(Letters) /\ Len(second) = b - a
      /\ alive => second[1] = ALIVE /\ second[2] = CR /\ second[3] = LF
  <2>0. a \in Nat
    BY <1>1, <1>3
  <2>1. CASE alive
    <3> DEFINE line == <<ALIVE>>
    <3>1. line \in Seq(Letters) /\ Len(line) = 1 /\ line[1] = ALIVE
      BY <1>1
    <3>2. second = line \o EOL
      BY <2>1
    <3> HIDE DEF line, second
    <3>3. /\ second \in Seq(Letters) /\ Len(second) = Len(line) + 2
          /\ \A k \in 1..Len(line) : second[k] = line[k]
          /\ second[Len(line) + 1] = CR /\ second[Len(line) + 2] = LF
      BY <3>1, <3>2, EndedLine
    <3> QED
      BY <1>3, <2>0, <2>1, <3>1, <3>3
  <2>2. CASE ~alive
    BY <1>1, <1>3, <2>0, <2>2
  <2> QED
    BY <2>1, <2>2
<1> HIDE DEF second
<1>6. /\ both \in Seq(Letters) /\ Len(both) = Len(first) + Len(second)
      /\ \A k \in 1..Len(first) : both[k] = first[k]
      /\ \A k \in 1..Len(second) : both[Len(first) + k] = second[k]
  <2>1. first \in Seq(Letters) /\ second \in Seq(Letters)
    BY <1>4, <1>5
  <2> QED
    BY <2>1, Joined
<1> HIDE DEF both
<1>7. /\ h \in Seq(Letters) /\ Len(h) = Len(both) + 2
      /\ \A k \in 1..Len(both) : h[k] = both[k]
      /\ h[Len(both) + 1] = CR /\ h[Len(both) + 2] = LF
  BY <1>2, <1>6, EndedLine
<1>8. /\ a \in Nat /\ b \in Nat /\ Len(both) = b /\ a <= b
      /\ named => a = Len(name) + 3
      /\ alive => b = a + 3
  BY <1>1, <1>3, <1>4, <1>5, <1>6
<1>9. \A k \in 1..a : h[k] = first[k]
  BY <1>4, <1>6, <1>7, <1>8
<1>10. \A k \in 1 .. b - a : h[a + k] = second[k]
  BY <1>4, <1>5, <1>6, <1>7, <1>8
<1>11. ASSUME named
       PROVE  /\ h[1] = HOST /\ h[a - 1] = CR /\ h[a] = LF
              /\ \A k \in 1..Len(name) : h[1 + k] = name[k]
  <2>1. 1 \in 1..a /\ a - 1 \in 1..a /\ a \in 1..a /\ \A k \in 1..Len(name) : 1 + k \in 1..a
    BY <1>1, <1>8, <1>11
  <2> QED
    BY <1>4, <1>9, <1>11, <2>1
<1>12. ASSUME alive
       PROVE  h[a + 1] = ALIVE /\ h[a + 2] = CR /\ h[a + 3] = LF
  <2>1. 1 \in 1 .. b - a /\ 2 \in 1 .. b - a /\ 3 \in 1 .. b - a
    BY <1>8, <1>12
  <2> QED
    BY <1>5, <1>10, <1>12, <2>1
<1> QED
  BY <1>7, <1>8, <1>11, <1>12 DEF h, a, b, name, alive, named

\* Where its lines end, and what they begin with.
LEMMA HeaderLinesOf ==
  ASSUME NEW r \in LetterRequests, WellFormed(r)
  PROVE  LET h == HeaderLines(r)
         IN \A k \in 1..Len(h) :
              /\ h[k] = LF <=> k \in {HostEnd(r), AliveEnd(r), AliveEnd(r) + 2}
              /\ k = 1 \/ h[k - 1] = LF =>
                   /\ h[k] = HOST => k = 1 /\ r.named
                   /\ h[k] = ALIVE => r.keepAlive
<1> DEFINE h == HeaderLines(r)
           a == HostEnd(r)
           b == AliveEnd(r)
           named == r.named
           name == r.hostLine
           alive == r.keepAlive
<1>1. /\ h \in Seq(Letters) /\ a \in Nat /\ b \in Nat /\ Len(h) = b + 2
      /\ named =>
           /\ h[1] = HOST /\ h[a - 1] = CR /\ h[a] = LF
           /\ \A k \in 1..Len(name) : h[1 + k] = name[k]
      /\ alive => h[a + 1] = ALIVE /\ h[a + 2] = CR /\ h[a + 3] = LF
      /\ h[b + 1] = CR /\ h[b + 2] = LF
  BY HeaderPositions
<1>2. /\ name \in Seq(Letters) /\ \A k \in 1..Len(name) : name[k] # LF
      /\ CR # LF /\ HOST # LF /\ ALIVE # LF /\ HOST # ALIVE /\ CR # HOST /\ CR # ALIVE
      /\ alive \in BOOLEAN /\ named \in BOOLEAN
  BY PartsOfRequests, LettersOfRequests
<1>3. /\ a = IF named THEN Len(name) + 3 ELSE 0
      /\ b = IF alive THEN a + 3 ELSE a
  BY DEF HostEnd, AliveEnd
<1> HIDE DEF h, a, b, name, alive, named
<1>4. Len(name) \in Nat /\ a <= b
  BY <1>1, <1>2, <1>3
<1>5. ASSUME NEW k \in 1..b + 2
      PROVE  h[k] = LF <=> k \in {a, b, b + 2}
  <2>1. CASE k <= a
    <3>1. named /\ a = Len(name) + 3
      BY <1>1, <1>3, <2>1
    <3>2. k = 1 \/ k - 1 \in 1..Len(name) \/ k = a - 1 \/ k = a
      BY <1>4, <2>1, <3>1
    <3>3. ASSUME k - 1 \in 1..Len(name)
          PROVE  h[k] = name[k - 1]
      <4>1. h[1 + (k - 1)] = name[k - 1] /\ 1 + (k - 1) = k
        BY <1>1, <3>1, <3>3
      <4> QED
        BY <4>1
    <3> QED
      BY <1>1, <1>2, <1>4, <2>1, <3>1, <3>2, <3>3
  <2>2. CASE k > a /\ k <= b
    <3>1. alive /\ (k = a + 1 \/ k = a + 2 \/ k = a + 3) /\ b = a + 3
      BY <1>1, <1>2, <1>3, <2>2
    <3> QED
      BY <1>1, <1>2, <2>2, <3>1
  <2>3. CASE k > b
    <3>1. k = b + 1 \/ k = b + 2
      BY <1>1, <2>3
    <3> QED
      BY <1>1, <1>2, <1>4, <2>3, <3>1
  <2> QED
    BY <1>1, <2>1, <2>2, <2>3
<1>6. ASSUME NEW k \in 1..b + 2, k = 1 \/ h[k - 1] = LF
      PROVE  /\ h[k] = HOST => k = 1 /\ named
             /\ h[k] = ALIVE => alive
  <2>1. k = 1 \/ k = a + 1 \/ k = b + 1
    <3>1. CASE k = 1
      BY <3>1
    <3>2. CASE k # 1
      <4>1. k - 1 \in 1..b + 2 /\ h[k - 1] = LF
        BY <1>1, <1>6, <3>2
      <4>2. k - 1 \in {a, b, b + 2}
        BY <1>5, <4>1
      <4> QED
        BY <1>1, <4>2
    <3> QED
      BY <3>1, <3>2
  <2>2. CASE k = 1 /\ named
    BY <1>1, <1>2, <2>2
  <2>3. CASE k = a + 1
    <3>1. CASE alive
      BY <1>1, <1>2, <2>3, <3>1
    <3>2. CASE ~alive
      <4>1. a = b
        BY <1>2, <1>3, <3>2
      <4> QED
        BY <1>1, <1>2, <2>3, <4>1
    <3> QED
      BY <1>2, <3>1, <3>2
  <2>4. CASE k = b + 1
    BY <1>1, <1>2, <2>4
  <2>5. CASE k = 1 /\ ~named
    <3>1. k = a + 1
      BY <1>3, <2>5
    <3> QED
      BY <2>3, <3>1
  <2> QED
    BY <2>1, <2>2, <2>3, <2>4, <2>5
<1> QED
  BY <1>1, <1>5, <1>6 DEF h, a, b, name, alive, named

-----------------------------------------------------------------------------
(* What the parser makes of them *)

\* What has arrived, once the request line has.
LEMMA ArrivedText ==
  ASSUME NEW r \in LetterRequests, WellFormed(r), NEW n \in Len(RequestLine(r)) .. Len(Text(r))
  PROVE  LET text == SubSeq(Text(r), 1, n)
             line == RequestLine(r)
             h    == HeaderLines(r)
             eol  == Len(line)
         IN /\ text \in Seq(Letters) /\ Len(text) = n /\ eol \in 3..n /\ n - eol \in 0..Len(h)
            /\ \A k \in 1..eol : text[k] = line[k]
            /\ \A k \in 1 .. n - eol : text[eol + k] = h[k]
<1> DEFINE line == RequestLine(r)
           h == HeaderLines(r)
           eol == Len(line)
           whole == Text(r)
           text == SubSeq(whole, 1, n)
<1>1. line \in Seq(Letters) /\ h \in Seq(Letters)
  BY EndOfLine, HeaderPositions
<1>2. eol >= 3
  BY EndOfLine
<1>3. whole = line \o h
  BY DEF Text
<1> HIDE DEF line, h, whole
<1>4. /\ whole \in Seq(Letters) /\ Len(whole) = Len(line) + Len(h)
      /\ \A k \in 1..Len(line) : whole[k] = line[k]
      /\ \A k \in 1..Len(h) : whole[Len(line) + k] = h[k]
  BY <1>1, <1>3, Joined
<1>5. n \in eol..Len(whole) /\ Len(h) \in Nat /\ eol \in Nat
  BY <1>1 DEF line, whole
<1>6. text \in Seq(Letters) /\ Len(text) = n /\ \A k \in 1..n : text[k] = whole[k]
  BY <1>4, <1>5
<1> HIDE DEF text, eol
<1>7. eol \in 3..n /\ n - eol \in 0..Len(h)
  BY <1>2, <1>4, <1>5 DEF eol
<1>8. \A k \in 1..eol : text[k] = line[k]
  <2>1. \A k \in 1..eol : k \in 1..n /\ k \in 1..Len(line)
    BY <1>5, <1>7 DEF eol
  <2> QED
    BY <1>4, <1>6, <2>1
<1>9. \A k \in 1 .. n - eol : text[eol + k] = h[k]
  <2>1. \A k \in 1 .. n - eol : k \in 1..Len(h) /\ eol + k \in 1..n
    BY <1>5, <1>7
  <2>2. \A k \in 1..Len(h) : whole[eol + k] = h[k]
    BY <1>4 DEF eol
  <2> QED
    BY <1>6, <2>1, <2>2
<1> QED
  BY <1>6, <1>7, <1>8, <1>9 DEF text, eol, line, h, whole

\* Where a line starts that has others before it.
LEMMA LineStartIs ==
  ASSUME NEW text \in Seq(Letters), NEW k \in 1..Len(text), NEW e \in 1 .. k - 1, text[e] = LF
  PROVE  /\ LineStart(text, k) \in e + 1 .. k
         /\ text[LineStart(text, k) - 1] = LF
         /\ \A j \in LineStart(text, k) .. k - 1 : text[j] # LF
<1> DEFINE ends == {j \in 1 .. k - 1 : text[j] = "\n"}
           all == {0} \cup ends
           m == Max(ends)
<1>1. ends \subseteq 1 .. k - 1 /\ e \in ends /\ k - 1 \in Nat
  BY DEF LF
<1>2. LineStart(text, k) = 1 + Max(all)
  BY DEF LineStart
<1>3. \A j \in 1 .. k - 1 : j \in ends <=> text[j] = LF
  BY DEF LF
<1> HIDE DEF ends
<1>4. m \in ends /\ \A y \in ends : m >= y
  BY <1>1, MaxIn
<1> HIDE DEF m
<1>5. m \in 1 .. k - 1 /\ e <= m
  BY <1>1, <1>4
<1>6. all \subseteq Nat /\ m \in all /\ \A y \in all : y <= m
  BY <1>1, <1>4, <1>5
<1> HIDE DEF all
<1>7. LineStart(text, k) = 1 + m
  BY <1>2, <1>6, MaxIs
<1>8. text[m] = LF
  BY <1>3, <1>4, <1>5
<1>9. \A j \in m + 1 .. k - 1 : text[j] # LF
  BY <1>3, <1>4, <1>5
<1> QED
  BY <1>5, <1>7, <1>8, <1>9

\* The header lines that are there begin and end as they were sent.
LEMMA HeaderLinesSeen ==
  ASSUME NEW r \in LetterRequests, WellFormed(r), NEW n \in Len(RequestLine(r)) .. Len(Text(r)),
         NEW k \in HeaderEnds(SubSeq(Text(r), 1, n), Len(RequestLine(r)))
  PROVE  LET text == SubSeq(Text(r), 1, n)
             m    == LineStart(text, k)
         IN /\ m \in 1..k
            /\ matches_command(SubSeq(text, m, k), "Host: ") =>
                 r.named /\ SubSeq(text, m + 1, k - 1) = r.hostLine \o <<CR>>
            /\ matches_command(SubSeq(text, m, k), "Proxy-Connection: keep-alive") => r.keepAlive
<1> DEFINE text == SubSeq(Text(r), 1, n)
           h == HeaderLines(r)
           eol == Len(RequestLine(r))
           m == LineStart(text, k)
           a == HostEnd(r)
           b == AliveEnd(r)
           named == r.named
           name == r.hostLine
           line == SubSeq(text, m, k)
<1>1. /\ text \in Seq(Letters) /\ Len(text) = n /\ eol \in 3..n /\ n - eol \in 0..Len(h)
      /\ \A j \in 1 .. n - eol : text[eol + j] = h[j]
      /\ text[eol] = LF
  <2>1. /\ text \in Seq(Letters) /\ Len(text) = n /\ eol \in 3..n /\ n - eol \in 0..Len(h)
        /\ \A j \in 1 .. n - eol : text[eol + j] = h[j]
        /\ \A j \in 1..eol : text[j] = RequestLine(r)[j]
    BY ArrivedText
  <2>2. RequestLine(r)[eol] = LF
    BY EndOfLine
  <2>3. eol \in 1..eol
    BY <2>1
  <2> QED
    BY <2>1, <2>2, <2>3
<1>2. k \in eol + 1 .. n /\ text[k] = LF
  <2>1. k \in eol + 1 .. Len(text) /\ text[k] = "\n"
    BY DEF HeaderEnds
  <2> QED
    BY <1>1, <2>1 DEF LF
<1>3. /\ \A j \in 1..Len(h) :
           /\ h[j] = LF <=> j \in {a, b, b + 2}
           /\ j = 1 \/ h[j - 1] = LF =>
                /\ h[j] = HOST => j = 1 /\ named
                /\ h[j] = ALIVE => r.keepAlive
  BY HeaderLinesOf
<1>4. /\ h \in Seq(Letters) /\ a \in Nat /\ b \in Nat /\ Len(h) = b + 2 /\ a <= b
      /\ named => h[a - 1] = CR /\ \A j \in 1..Len(name) : h[1 + j] = name[j]
  BY HeaderPositions DEF HostEnd, AliveEnd
<1>5. name \in Seq(Letters) /\ (named => a = Len(name) + 3) /\ CR \in Letters
  BY PartsOfRequests, LettersOfRequests DEF HostEnd
<1> HIDE DEF text, h, eol, a, b, name, named
<1>6. m \in eol + 1 .. k /\ text[m - 1] = LF /\ \A j \in m .. k - 1 : text[j] # LF
  <2>1. k \in 1..Len(text) /\ eol \in 1 .. k - 1
    BY <1>1, <1>2
  <2> QED
    BY <1>1, <2>1, LineStartIs
<1> HIDE DEF m
<1>0. /\ eol \in Nat /\ n \in Nat /\ k \in Nat /\ m \in Nat /\ eol >= 3
      /\ eol + 1 <= m /\ m <= k /\ k <= n
  BY <1>1, <1>2, <1>6
<1>7. /\ m - eol \in 1..Len(h) /\ text[m] = h[m - eol]
      /\ m - eol = 1 \/ h[m - eol - 1] = LF
  <2>1. m - eol \in 1 .. n - eol /\ eol + (m - eol) = m
    BY <1>1, <1>2, <1>6
  <2>2. text[eol + (m - eol)] = h[m - eol]
    BY <1>1, <2>1
  <2>3. CASE m - eol # 1
    <3>1. m - eol - 1 \in 1 .. n - eol /\ eol + (m - eol - 1) = m - 1
      BY <1>0, <2>3
    <3>2. text[eol + (m - eol - 1)] = h[m - eol - 1]
      BY <1>1, <3>1
    <3> QED
      BY <1>1, <1>6, <2>1, <2>2, <3>1, <3>2
  <2> QED
    BY <1>1, <2>1, <2>2, <2>3
<1>8. line # <<>> => Head(line) = text[m]
  BY <1>1, <1>2, <1>6
<1> HIDE DEF line
<1>9. ASSUME matches_command(line, "Proxy-Connection: keep-alive")
      PROVE  r.keepAlive
  <2>1. h[m - eol] = ALIVE
    BY <1>7, <1>8, <1>9 DEF matches_command, ALIVE
  <2> QED
    BY <1>3, <1>7, <2>1
<1>10. ASSUME matches_command(line, "Host: ")
       PROVE  named /\ SubSeq(text, m + 1, k - 1) = name \o <<CR>>
  <2>1. h[m - eol] = HOST
    BY <1>7, <1>8, <1>10 DEF matches_command, HOST
  <2>2. m = eol + 1 /\ named
    BY <1>1, <1>3, <1>6, <1>7, <2>1
  <2>3. Len(name) \in Nat /\ a = Len(name) + 3
    BY <1>5, <2>2
  <2>4. k - eol \in 1 .. n - eol /\ k - eol \in 1..Len(h) /\ h[k - eol] = LF
    <3>1. k - eol \in 1 .. n - eol /\ eol + (k - eol) = k
      BY <1>1, <1>2
    <3>2. k - eol \in 1..Len(h)
      BY <1>1, <1>4, <3>1
    <3> QED
      BY <1>1, <1>2, <3>1, <3>2
  <2>5. k = eol + a
    <3>1. k - eol >= a
      BY <1>3, <1>4, <2>4
    <3>2. CASE k - eol > a
      <4>1. a \in 1 .. n - eol /\ a \in 1..Len(h) /\ eol + a \in m .. k - 1
        <5>1. a \in Nat /\ a >= 3 /\ k - eol > a /\ m = eol + 1 /\ k - eol <= Len(h)
              /\ Len(h) \in Nat
          BY <1>4, <2>2, <2>3, <2>4, <3>2
        <5> QED
          BY <1>0, <5>1
      <4>2. text[eol + a] = h[a] /\ h[a] = LF
        BY <1>1, <1>3, <4>1
      <4> QED
        BY <1>6, <4>1, <4>2
    <3> QED
      BY <1>1, <1>2, <1>4, <3>1, <3>2
  <2> DEFINE given == SubSeq(text, m + 1, k - 1)
             sent_name == name \o <<CR>>
  <2>6. /\ given \in Seq(Letters) /\ Len(given) = Len(name) + 1
        /\ \A j \in 1 .. Len(name) + 1 : given[j] = text[eol + (1 + j)]
    <3>1. m + 1 = eol + 2 /\ k - 1 = eol + Len(name) + 2 /\ k - 1 <= Len(text) /\ eol \in Nat
      BY <1>1, <1>2, <2>2, <2>3, <2>5
    <3>2. given = SubSeq(text, eol + 2, eol + Len(name) + 2)
      BY <3>1
    <3>3. eol + Len(name) + 2 <= Len(text)
      BY <3>1
    <3> HIDE DEF given
    <3> QED
      BY <1>1, <2>3, <3>1, <3>2, <3>3
  <2>7. /\ sent_name \in Seq(Letters) /\ Len(sent_name) = Len(name) + 1
        /\ \A j \in 1..Len(name) : sent_name[j] = name[j]
        /\ sent_name[Len(name) + 1] = CR
    BY <1>5
  <2>8. \A j \in 1 .. Len(name) + 1 : 1 + j \in 1 .. n - eol /\ text[eol + (1 + j)] = h[1 + j]
    <3>1. \A j \in 1 .. Len(name) + 1 : 1 + j \in 1 .. n - eol
      BY <1>1, <1>2, <2>3, <2>5
    <3> QED
      BY <1>1, <3>1
  <2> HIDE DEF given, sent_name
  <2>9. \A j \in 1 .. Len(name) + 1 : given[j] = sent_name[j]
    <3>1. 1 + (Len(name) + 1) = a - 1 /\ h[a - 1] = CR
      BY <1>4, <2>2, <2>3
    <3>2. given[Len(name) + 1] = CR
      BY <2>3, <2>6, <2>8, <3>1
    <3>3. \A j \in 1..Len(name) : given[j] = name[j]
      <4> SUFFICES ASSUME NEW j \in 1..Len(name)
                   PROVE  given[j] = name[j]
        OBVIOUS
      <4>1. j \in 1 .. Len(name) + 1
        BY <1>4
      <4>2. given[j] = h[1 + j]
        BY <2>6, <2>8, <4>1
      <4>3. h[1 + j] = name[j]
        BY <1>4, <2>2, <2>3
      <4> QED
        BY <4>2, <4>3
    <3>4. ASSUME NEW j \in 1 .. Len(name) + 1
          PROVE  j = Len(name) + 1 \/ j \in 1..Len(name)
      <4>1. Len(name) \in Nat
        BY <1>4
      <4> QED
        BY <4>1
    <3> QED
      BY <2>7, <3>2, <3>3, <3>4
  <2>10. given = sent_name
    BY <2>6, <2>7, <2>9, SeqEqual
  <2> QED
    BY <2>2, <2>10 DEF given, sent_name
<1>11. m \in 1..k
  BY <1>1, <1>2, <1>6
<1> QED
  BY <1>9, <1>10, <1>11 DEF line, m, text, name, named

\* A Host line that names the host there is changes nothing.
LEMMA SameCapture ==
  ASSUME NEW host \in Seq(Letters), host # <<>>
  PROVE  CaptureHost(host, host \o <<CR>>) = host
<1> DEFINE name == host \o <<CR>>
           n == Len(host)
<1>1. n \in Nat /\ n >= 1
  OBVIOUS
<1>2. name \in Seq(Letters) /\ Len(name) = n + 1 /\ \A k \in 1..n : name[k] = host[k]
  BY LettersOfRequests
<1> HIDE DEF name
<1>3. CaptureHost(host, name) = SubSeq(name, 1, n - 1) \o SubSeq(host, n, n)
  <2>1. Len(name) - 2 = n - 1 /\ Len(name) - 1 = n /\ n - 1 <= Len(name)
    BY <1>1, <1>2
  <2>2. Cut(name, 1, Len(name) - 2) = SubSeq(name, 1, n - 1)
    <3>1. ~ (n - 1 > Len(name))
      BY <1>1, <1>2
    <3>2. Cut(name, 1, n - 1) = SubSeq(name, 1, n - 1)
      BY <3>1 DEF Cut
    <3> QED
      BY <2>1, <3>2
  <2>3. Cut(host, Len(name) - 1, Len(name) - 1) = SubSeq(host, n, n)
    BY <1>1, <2>1 DEF Cut
  <2> QED
    BY <2>2, <2>3 DEF CaptureHost
<1> HIDE DEF n
<1>4. SubSeq(name, 1, n - 1) = SubSeq(host, 1, n - 1)
  <2> DEFINE s == SubSeq(name, 1, n - 1)
             t == SubSeq(host, 1, n - 1)
  <2>1. s \in Seq(Letters) /\ Len(s) = n - 1 /\ \A k \in 1 .. n - 1 : s[k] = name[k]
    BY <1>1, <1>2
  <2>2. t \in Seq(Letters) /\ Len(t) = n - 1 /\ \A k \in 1 .. n - 1 : t[k] = host[k]
    <3>1. n - 1 \in Nat /\ n - 1 <= Len(host)
      BY <1>1 DEF n
    <3> QED
      BY <3>1
  <2> HIDE DEF s, t
  <2>3. \A k \in 1 .. n - 1 : s[k] = t[k]
    BY <1>1, <1>2, <2>1, <2>2
  <2>4. s = t
    BY <2>1, <2>2, <2>3, SeqEqual
  <2> QED
    BY <2>4 DEF s, t
<1>5. SubSeq(host, 1, n - 1) \o SubSeq(host, n - 1 + 1, n) = SubSeq(host, 1, n)
  <2>1. /\ host \in Seq(Letters) /\ 1 \in 1 .. Len(host) + 1
        /\ n - 1 \in 1 - 1 .. Len(host) /\ n \in n - 1 .. Len(host)
    BY <1>1 DEF n
  <2> QED
    BY <2>1, ConcatAdjacentSubSeq
<1>6. SubSeq(host, 1, n) = host /\ n - 1 + 1 = n
  BY <1>1 DEF n
<1> QED
  BY <1>3, <1>4, <1>5, <1>6 DEF name

\* The spaces in front are none of a text's other symbols.
LEMMA SpacesSkipped ==
  ASSUME NEW text \in Seq(Letters), NEW j \in 1..Len(text), text[j] # SP
  PROVE  \E i \in 1..j : SkipSpaces(text) = SubSeq(text, i, Len(text))
<1> DEFINE n == Len(text)
           spaces == {k \in DOMAIN text : \A m \in 1..k : text[m] = " "}
           all == {0} \cup spaces
<1>1. n \in Nat /\ j \in 1..n /\ DOMAIN text = 1..n
  OBVIOUS
<1>2. SkipSpaces(text) = SubSeq(text, 1 + Max(all), n)
  BY DEF SkipSpaces
<1>3. spaces \subseteq 1..n /\ \A k \in spaces : k < j
  <2>1. \A k \in spaces : k \in 1..n /\ \A m \in 1..k : text[m] = SP
    BY <1>1 DEF SP
  <2> HIDE DEF spaces, n
  <2> QED
    BY <1>1, <2>1
<1> HIDE DEF spaces, n
<1>4. PICK e \in 0 .. j - 1 : e \in all /\ \A y \in all : y <= e
  <2>1. CASE spaces = {}
    BY <1>1, <2>1
  <2>2. CASE spaces # {}
    <3> DEFINE e == Max(spaces)
    <3>1. e \in spaces /\ \A y \in spaces : e >= y
      BY <1>1, <1>3, <2>2, MaxIn
    <3> HIDE DEF e
    <3>2. e \in 0 .. j - 1 /\ e \in all /\ \A y \in all : y <= e
      BY <1>1, <1>3, <3>1
    <3> QED
      BY <3>2
  <2> QED
    BY <2>1, <2>2
<1>5. all \subseteq Nat
  BY <1>1, <1>3
<1> HIDE DEF all
<1>6. Max(all) = e
  BY <1>4, <1>5, MaxIs
<1>7. 1 + e \in 1..j
  BY <1>1, <1>4
<1> QED
  BY <1>2, <1>6, <1>7 DEF n

\* Of a line that is not blank a symbol is left, and the end of the line.
LEMMA NameIsLeft ==
  ASSUME NEW name \in Seq(Letters), NEW j \in 1..Len(name), name[j] # SP
  PROVE  Len(SkipSpaces(name \o <<CR>>)) \in Nat /\ Len(SkipSpaces(name \o <<CR>>)) >= 2
<1> DEFINE text == name \o <<CR>>
           n == Len(name)
<1>1. /\ text \in Seq(Letters) /\ Len(text) = n + 1 /\ n \in Nat /\ j \in 1..n
      /\ \A k \in 1..n : text[k] = name[k]
  BY LettersOfRequests
<1> HIDE DEF text, n
<1>2. j \in 1..Len(text) /\ text[j] # SP
  BY <1>1
<1>3. PICK i \in 1..j : SkipSpaces(text) = SubSeq(text, i, Len(text))
  BY <1>1, <1>2, SpacesSkipped
<1>4. Len(SubSeq(text, i, Len(text))) = n + 1 - i + 1
  BY <1>1
<1>5. n + 1 - i + 1 \in Nat /\ n + 1 - i + 1 >= 2
  BY <1>1
<1> QED
  BY <1>3, <1>4, <1>5 DEF text

\* A line that begins with another symbol is left as it is.
LEMMA NameIsKept ==
  ASSUME NEW name \in Seq(Letters), name # <<>>, name[1] # SP
  PROVE  SkipSpaces(name \o <<CR>>) = name \o <<CR>>
<1> DEFINE text == name \o <<CR>>
<1>1. /\ text \in Seq(Letters) /\ Len(text) = Len(name) + 1 /\ Len(name) \in Nat
      /\ Len(name) >= 1 /\ text[1] = name[1]
  BY LettersOfRequests
<1> HIDE DEF text
<1>2. 1 \in 1..Len(text)
  BY <1>1
<1>3. PICK i \in 1..1 : SkipSpaces(text) = SubSeq(text, i, Len(text))
  BY <1>1, <1>2, SpacesSkipped
<1>4. SubSeq(text, 1, Len(text)) = text /\ i = 1
  BY <1>1
<1> QED
  BY <1>3, <1>4 DEF text

\* Of an empty line the end is left.
LEMMA CarriageReturn == Len(SkipSpaces(<<CR>>)) = 1
<1> DEFINE text == <<CR>>
<1>1. text \in Seq(Letters) /\ Len(text) = 1 /\ text[1] = CR /\ CR # SP
  BY LettersOfRequests
<1> HIDE DEF text
<1>2. 1 \in 1..Len(text)
  BY <1>1
<1>3. PICK i \in 1..1 : SkipSpaces(text) = SubSeq(text, i, Len(text))
  BY <1>1, <1>2, SpacesSkipped
<1>4. SubSeq(text, 1, Len(text)) = text /\ i = 1
  BY <1>1
<1> QED
  BY <1>1, <1>3, <1>4 DEF text

\* The header lines leave the request line's parts as they are: a keep-alive
\* was asked for, and the host changes only if the Host line is another.  A
\* blank one ends the process.
LEMMA HeadersSeen ==
  ASSUME NEW r \in LetterRequests, WellFormed(r), NEW n \in Len(RequestLine(r)) .. Len(Text(r)), NEW parsed,
         parsed.host \in Seq(Letters), \A k \in 1..Len(parsed.host) : parsed.host[k] # SP
  PROVE  LET found == HeadersParsed(SubSeq(Text(r), 1, n), Len(RequestLine(r)), parsed)
         IN \/ found = Parsed("crash") /\ BlankHost(r)
            \/ /\ found.outcome = parsed.outcome /\ found.isGet = parsed.isGet
               /\ found.path = parsed.path
               /\ found.keepAlive => r.keepAlive
               /\ (r.named => r.hostLine = parsed.host) => found.host = parsed.host
<1> DEFINE text == SubSeq(Text(r), 1, n)
           eol == Len(RequestLine(r))
           starts(field) ==
             {k \in HeaderEnds(text, eol) :
                matches_command(SubSeq(text, LineStart(text, k), k), field)}
           hosts == starts("Host: ")
           alives == starts("Proxy-Connection: keep-alive")
           name == LET k == CHOOSE k \in hosts : TRUE
                   IN SkipSpaces(SubSeq(text, LineStart(text, k) + 1, k - 1))
           host == IF hosts = {} THEN parsed.host ELSE CaptureHost(parsed.host, name)
           alive == alives # {}
           given == [outcome |-> parsed.outcome, isGet |-> parsed.isGet, path |-> parsed.path,
                     host |-> host, keepAlive |-> alive]
           found == HeadersParsed(text, eol, parsed)
<1>1. found = IF hosts # {} /\ Len(name) < 2 THEN Parsed("crash") ELSE given
  BY DEF HeadersParsed
<1>2. ASSUME hosts # {}
      PROVE  r.named /\ name = SkipSpaces(r.hostLine \o <<CR>>)
  <2> DEFINE k == CHOOSE k \in hosts : TRUE
  <2>1. k \in hosts
    BY <1>2
  <2>2. name = SkipSpaces(SubSeq(text, LineStart(text, k) + 1, k - 1))
    OBVIOUS
  <2>3. k \in HeaderEnds(text, eol) /\ matches_command(SubSeq(text, LineStart(text, k), k), "Host: ")
    BY <2>1
  <2> HIDE DEF k, name
  <2>4. r.named /\ SubSeq(text, LineStart(text, k) + 1, k - 1) = r.hostLine \o <<CR>>
    BY <2>3, HeaderLinesSeen
  <2> QED
    BY <2>2, <2>4
<1>3. alive => r.keepAlive
  <2> SUFFICES ASSUME NEW k \in alives
               PROVE  r.keepAlive
    OBVIOUS
  <2>1. /\ k \in HeaderEnds(text, eol)
        /\ matches_command(SubSeq(text, LineStart(text, k), k), "Proxy-Connection: keep-alive")
    OBVIOUS
  <2> HIDE DEF alives
  <2> QED
    BY <2>1, HeaderLinesSeen
<1> HIDE DEF starts, hosts, alives, name
<1>4. r.hostLine \in Seq(Letters) /\ DOMAIN r.hostLine = 1..Len(r.hostLine)
  <2>1. r.hostLine \in Seq(Letters)
    BY PartsOfRequests
  <2> QED
    BY <2>1
<1>5. CASE hosts # {} /\ Len(name) < 2
  <2>1. found = Parsed("crash")
    BY <1>1, <1>5
  <2> HIDE DEF found
  <2>2. ASSUME NEW j \in 1..Len(r.hostLine), r.hostLine[j] # SP
        PROVE  FALSE
    <3> DEFINE m == Len(name)
    <3>1. m \in Nat /\ m >= 2
      BY <1>2, <1>4, <1>5, <2>2, NameIsLeft
    <3>2. m < 2
      BY <1>5
    <3> HIDE DEF m
    <3> QED
      BY <3>1, <3>2
  <2>3. BlankHost(r)
    BY <1>2, <1>4, <1>5, <2>2 DEF BlankHost, SP
  <2> QED
    BY <2>1, <2>3 DEF found, text, eol
<1>6. CASE ~ (hosts # {} /\ Len(name) < 2)
  <2>1. found = given
    BY <1>1, <1>6
  <2>2. ASSUME r.named => r.hostLine = parsed.host
        PROVE  host = parsed.host
    <3>1. CASE hosts = {}
      BY <3>1
    <3>2. CASE hosts # {}
      <4>1. r.hostLine = parsed.host /\ name = SkipSpaces(parsed.host \o <<CR>>)
        BY <1>2, <2>2, <3>2
      <4>2. parsed.host # <<>>
        <5> SUFFICES ASSUME parsed.host = <<>>
                     PROVE  FALSE
          OBVIOUS
        <5>1. parsed.host \o <<CR>> = <<CR>>
          BY LettersOfRequests
        <5>2. name = SkipSpaces(<<CR>>)
          BY <4>1, <5>1
        <5> DEFINE m == Len(name)
        <5>3. m = 1
          BY <5>2, CarriageReturn
        <5>4. ~ (m < 2)
          BY <1>6, <3>2
        <5> HIDE DEF m
        <5> QED
          BY <5>3, <5>4
      <4>3. parsed.host[1] # SP
        <5>1. Len(parsed.host) \in Nat /\ Len(parsed.host) # 0
          BY <4>2
        <5>2. 1 \in 1..Len(parsed.host)
          BY <5>1
        <5> QED
          BY <5>2
      <4>4. name = parsed.host \o <<CR>>
        BY <4>1, <4>2, <4>3, NameIsKept
      <4>5. CaptureHost(parsed.host, name) = parsed.host
        BY <4>2, <4>4, SameCapture
      <4> QED
        BY <3>2, <4>5
    <3> QED
      BY <3>1, <3>2
  <2> HIDE DEF found, host, alive
  <2> QED
    BY <1>3, <2>1, <2>2 DEF found, text, eol
<1> QED
  BY <1>5, <1>6

\* The request line without its end, and its dividers.
LEMMA DividersSeen ==
  ASSUME NEW r \in LetterRequests, WellFormed(r), NEW n \in Len(RequestLine(r)) .. Len(Text(r))
  PROVE  LET line == SubSeq(SubSeq(Text(r), 1, n), 1, Len(RequestLine(r)) - 1)
             url  == Url(r)
             u    == IF url = <<>> THEN 1 ELSE Len(url) + 2
         IN /\ line # <<>> /\ Head(line) = r.method
            /\ url = <<>> /\ r.version = "" => FindLast(line, " ") = 0
            /\ url # <<>> /\ r.version = "" =>
                 FindLast(line, " ") = 2 /\ Len(line) > 2 /\ line[3] = Head(url)
            /\ r.version # "" =>
                 /\ Find(line, " ", 1) = 2 /\ FindLast(line, " ") = u + 1
                 /\ Len(line) = u + 3 /\ line[u + 2] = r.version
                 /\ SubSeq(line, 3, u) = url
<1> DEFINE text == SubSeq(Text(r), 1, n)
           all == RequestLine(r)
           line == SubSeq(text, 1, Len(all) - 1)
           url == Url(r)
           u == IF url = <<>> THEN 1 ELSE Len(url) + 2
           words == Words(r)
           w == Len(words)
           named == r.version # ""
<1>1. /\ words \in Seq(Letters) /\ w >= 1
      /\ words[1] = r.method
      /\ url # <<>> => words[2] = SP /\ \A k \in 1..Len(url) : words[2 + k] = url[k]
      /\ named => words[u + 1] = SP /\ words[u + 2] = r.version
  BY WordsOfLine
<1>6. w = IF named THEN u + 2 ELSE u
  <2>1. w = IF r.version = "" THEN u ELSE u + 2
    BY WordsOfLine
  <2> QED
    BY <2>1
<1>2. /\ \A k \in 1..w : words[k] = SP => k = 2 \/ k = u + 1
      /\ url = <<>> /\ ~named => \A k \in 1..w : words[k] # SP
      /\ url # <<>> \/ named => w >= 2 /\ words[2] = SP
  BY SpacesOfLine
<1>3. /\ text \in Seq(Letters) /\ Len(text) = n /\ Len(all) \in 3..n
      /\ \A k \in 1..Len(all) : text[k] = all[k]
  BY ArrivedText
<1>4. /\ Len(all) = w + 2 /\ w \in Nat
      /\ \A k \in 1..w : all[k] = words[k]
      /\ all[w + 1] = CR
  BY EndOfLine
<1>5. url \in Seq(Letters) /\ CR # SP
  BY PartsOfRequests, LettersOfRequests
<1> HIDE DEF text, all, words, named, url
<1>7. /\ line \in Seq(Letters) /\ Len(line) = w + 1
      /\ \A k \in 1..w : line[k] = words[k]
      /\ line[w + 1] = CR
  <2>1. Len(all) - 1 = w + 1 /\ w + 1 <= Len(text)
    BY <1>3, <1>4
  <2>2. line = SubSeq(text, 1, w + 1)
    BY <2>1
  <2> HIDE DEF line, w
  <2>3. line \in Seq(Letters) /\ Len(line) = w + 1 /\ \A k \in 1 .. w + 1 : line[k] = text[k]
    BY <1>3, <1>4, <2>1, <2>2
  <2>4. \A k \in 1 .. w + 1 : text[k] = all[k]
    BY <1>3, <1>4
  <2>5. /\ \A k \in 1..w : k \in 1 .. w + 1
        /\ w + 1 \in 1 .. w + 1
    BY <1>4
  <2> QED
    BY <1>4, <2>3, <2>4, <2>5
<1> HIDE DEF line
<1>8. /\ Len(url) \in Nat /\ u \in Nat
      /\ url = <<>> => u = 1
      /\ url # <<>> => u = Len(url) + 2 /\ u >= 3 /\ Head(url) = url[1]
  BY <1>5
<1> HIDE DEF u, w
<1>9. line # <<>> /\ Head(line) = r.method
  <2>1. line # <<>> /\ Head(line) = line[1]
    BY <1>4, <1>7
  <2>2. line[1] = words[1]
    BY <1>1, <1>4, <1>7
  <2> QED
    BY <1>1, <2>1, <2>2
<1>10. ASSUME url = <<>>, ~named
       PROVE  FindLast(line, SP) = 0
  <2>1. \A k \in 1..Len(line) : line[k] # SP
    BY <1>2, <1>4, <1>5, <1>7, <1>10
  <2> QED
    BY <1>7, <2>1, FindsNoLast
<1>11. ASSUME url # <<>>, ~named
       PROVE  FindLast(line, SP) = 2 /\ Len(line) > 2 /\ line[3] = Head(url)
  <2>1. w = u /\ u >= 3 /\ u = Len(url) + 2
    BY <1>6, <1>8, <1>11
  <2>2. 2 \in 1..Len(line) /\ line[2] = SP
    BY <1>1, <1>4, <1>7, <1>11, <2>1
  <2>3. \A k \in 2 + 1 .. Len(line) : line[k] # SP
    BY <1>2, <1>4, <1>5, <1>7, <2>1
  <2>4. FindLast(line, SP) = 2
    BY <1>7, <2>2, <2>3, FindLastIs
  <2>5. line[3] = Head(url)
    <3>1. 1 \in 1..Len(url) /\ 3 \in 1..w /\ 2 + 1 = 3
      BY <1>8, <2>1
    <3> QED
      BY <1>1, <1>7, <1>8, <1>11, <3>1
  <2> QED
    BY <1>7, <1>8, <2>1, <2>4, <2>5
<1>12. ASSUME named
       PROVE  /\ Find(line, SP, 1) = 2 /\ FindLast(line, SP) = u + 1
              /\ Len(line) = u + 3 /\ line[u + 2] = r.version
              /\ SubSeq(line, 3, u) = url
  <2>1. w = u + 2 /\ u >= 1
    BY <1>6, <1>8, <1>12
  <2>2. Len(line) = u + 3 /\ line[u + 2] = r.version /\ line[u + 1] = SP
    <3>1. u + 1 \in 1..w /\ u + 2 \in 1..w /\ u + 3 = w + 1
      BY <1>8, <2>1
    <3>2. line[u + 1] = words[u + 1] /\ line[u + 2] = words[u + 2] /\ Len(line) = w + 1
      BY <1>7, <3>1
    <3>3. words[u + 1] = SP /\ words[u + 2] = r.version
      BY <1>1, <1>12
    <3> QED
      BY <3>1, <3>2, <3>3
  <2>3. Find(line, SP, 1) = 2
    <3>1. 2 \in 1..Len(line) /\ line[2] = SP
      BY <1>2, <1>7, <1>8, <1>12, <2>1
    <3>2. \A k \in 1 .. 2 - 1 : line[k] # SP
      <4>1. line[1] # SP
        BY <1>2, <1>7, <1>8, <2>1
      <4> QED
        BY <4>1
    <3> QED
      BY <1>7, <3>1, <3>2, FindIs
  <2>4. FindLast(line, SP) = u + 1
    <3>1. u + 1 \in 1..Len(line)
      BY <1>8, <2>1, <2>2
    <3>2. \A k \in u + 1 + 1 .. Len(line) : line[k] # SP
      <4>1. ASSUME NEW k \in u + 2 .. u + 3
            PROVE  line[k] # SP
        <5>1. CASE k = u + 2
          <6>1. words[k] # SP
            BY <1>2, <1>8, <2>1, <5>1
          <6> QED
            BY <1>7, <1>8, <2>1, <5>1, <6>1
        <5>2. CASE k = u + 3
          BY <1>5, <1>7, <1>8, <2>1, <5>2
        <5> QED
          BY <1>8, <5>1, <5>2
      <4> QED
        BY <1>8, <2>2, <4>1
    <3> QED
      BY <1>7, <2>2, <3>1, <3>2, FindLastIs
  <2>5. SubSeq(line, 3, u) = url
    <3>1. CASE url = <<>>
      BY <1>7, <1>8, <3>1
    <3>2. CASE url # <<>>
      <4> DEFINE s == SubSeq(line, 3, u)
      <4>1. u = Len(url) + 2 /\ u <= Len(line)
        BY <1>8, <2>2, <3>2
      <4>2. s \in Seq(Letters) /\ Len(s) = Len(url) /\ \A k \in 1..Len(url) : s[k] = line[2 + k]
        BY <1>7, <1>8, <4>1
      <4>3. \A k \in 1..Len(url) : 2 + k \in 1..w
        BY <1>8, <2>1, <4>1
      <4> HIDE DEF s
      <4>4. \A k \in 1..Len(url) : s[k] = url[k]
        BY <1>1, <1>7, <3>2, <4>2, <4>3
      <4>5. s = url
        BY <1>5, <4>2, <4>4, SeqEqual
      <4> QED
        BY <4>5 DEF s
    <3> QED
      BY <3>1, <3>2
  <2> QED
    BY <2>2, <2>3, <2>4, <2>5
<1> QED
  BY <1>9, <1>10, <1>11, <1>12 DEF line, text, all, url, u, named, SP

\* A URL that names a host ends where its path begins.
LEMMA HostSeen ==
  ASSUME NEW r \in LetterRequests, WellFormed(r), r.scheme = <<"http://">>
  PROVE  LET url   == Url(r)
             slash == Find(url, "/", 2)
         IN /\ r.path = <<>> => slash = 0
            /\ r.path # <<>> =>
                 /\ slash # 0
                 /\ SubSeq(url, 2, slash - 1) = r.host
                 /\ SubSeq(url, slash, Len(url)) = r.path
<1> DEFINE url == Url(r)
           host == r.host
           path == r.path
           front == <<HTTP>> \o host
           h == Len(host)
<1>1. /\ host \in Seq(Letters) /\ path \in Seq(Letters) /\ HTTP \in Letters
      /\ \A k \in 1..Len(host) : host[k] # SLASH
  BY PartsOfRequests, LettersOfRequests
<1>2. url = front \o path
  BY DEF Url, HTTP
<1>3. path # <<>> => Head(path) = SLASH
  BY DEF WellFormed, SLASH
<1> HIDE DEF url, host, path
<1>4. /\ front \in Seq(Letters) /\ Len(front) = 1 + h /\ h \in Nat
      /\ \A k \in 1..h : front[1 + k] = host[k]
  BY <1>1, Preceded
<1> HIDE DEF front
<1>5. /\ url \in Seq(Letters) /\ Len(url) = Len(front) + Len(path)
      /\ \A k \in 1..Len(front) : url[k] = front[k]
      /\ \A k \in 1..Len(path) : url[Len(front) + k] = path[k]
  <2>1. front \in Seq(Letters) /\ path \in Seq(Letters)
    BY <1>1, <1>4
  <2> QED
    BY <1>2, <2>1, Joined
<1>6. Len(path) \in Nat
  BY <1>1
<1>7. \A k \in 2 .. h + 1 : url[k] = host[k - 1] /\ url[k] # SLASH
  <2> SUFFICES ASSUME NEW k \in 2 .. h + 1
               PROVE  url[k] = host[k - 1] /\ url[k] # SLASH
    OBVIOUS
  <2>1. k - 1 \in 1..h /\ 1 + (k - 1) = k /\ k \in 1..Len(front)
    BY <1>4
  <2>2. front[1 + (k - 1)] = host[k - 1]
    BY <1>4, <2>1
  <2> QED
    BY <1>1, <1>5, <2>1, <2>2
<1>8. \A k \in 1..Len(path) : url[1 + h + k] = path[k]
  BY <1>4, <1>5
<1>9. ASSUME path = <<>>
      PROVE  Find(url, SLASH, 2) = 0
  <2>1. Len(path) = 0
    BY <1>9
  <2>2. \A k \in 2..Len(url) : url[k] # SLASH
    BY <1>4, <1>5, <1>7, <2>1
  <2> QED
    BY <1>5, <2>2, FindsNone
<1>10. ASSUME path # <<>>
       PROVE  /\ Find(url, SLASH, 2) = h + 2
              /\ SubSeq(url, 2, h + 1) = host
              /\ SubSeq(url, h + 2, Len(url)) = path
  <2>1. Len(path) >= 1 /\ path[1] = SLASH
    BY <1>1, <1>3, <1>10
  <2>2. h + 2 \in 2..Len(url) /\ url[h + 2] = SLASH /\ Len(url) = h + 1 + Len(path)
    <3>1. 1 \in 1..Len(path) /\ 1 + h + 1 = h + 2
      BY <1>4, <1>6, <2>1
    <3>2. url[1 + h + 1] = path[1]
      BY <1>8, <3>1
    <3> QED
      BY <1>4, <1>5, <1>6, <2>1, <3>1, <3>2
  <2>3. Find(url, SLASH, 2) = h + 2
    <3>1. \A k \in 2 .. h + 2 - 1 : url[k] # SLASH
      BY <1>4, <1>7
    <3>2. url \in Seq(Letters)
      BY <1>5
    <3>3. h + 2 \in 2..Len(url) /\ url[h + 2] = SLASH
      BY <2>2
    <3> DEFINE m == h + 2
    <3>4. m \in 2..Len(url) /\ url[m] = SLASH /\ \A k \in 2 .. m - 1 : url[k] # SLASH
      BY <3>1, <3>3
    <3> HIDE DEF m
    <3>5. Find(url, SLASH, 2) = m
      BY <3>2, <3>4, FindIs
    <3> QED
      BY <3>5 DEF m
  <2>4. SubSeq(url, 2, h + 1) = host
    <3> DEFINE s == SubSeq(url, 2, h + 1)
    <3>1. h + 1 <= Len(url)
      BY <1>4, <1>6, <2>2
    <3>2. s \in Seq(Letters) /\ Len(s) = h /\ \A k \in 1..h : s[k] = url[1 + k]
      BY <1>4, <1>5, <3>1
    <3> HIDE DEF s
    <3>3. \A k \in 1..h : s[k] = host[k]
      <4>1. \A k \in 1..h : 1 + k \in 2 .. h + 1 /\ (1 + k) - 1 = k
        BY <1>4
      <4>2. \A k \in 1..h : url[1 + k] = host[(1 + k) - 1]
        BY <1>7, <4>1
      <4> QED
        BY <3>2, <4>1, <4>2
    <3>4. s = host
      BY <1>1, <3>2, <3>3, SeqEqual
    <3> QED
      BY <3>4 DEF s
  <2>5. SubSeq(url, h + 2, Len(url)) = path
    <3> DEFINE s == SubSeq(url, h + 2, Len(url))
    <3>1. /\ s \in Seq(Letters) /\ Len(s) = Len(path)
          /\ \A k \in 1..Len(path) : s[k] = url[1 + h + k]
      BY <1>4, <1>5, <1>6, <2>2
    <3> HIDE DEF s
    <3>2. \A k \in 1..Len(path) : s[k] = path[k]
      BY <1>8, <3>1
    <3>3. s = path
      BY <1>1, <3>1, <3>2, SeqEqual
    <3> QED
      BY <3>3 DEF s
  <2> QED
    BY <2>3, <2>4, <2>5
<1>11. h + 2 # 0 /\ h + 2 - 1 = h + 1
  BY <1>4
<1> DEFINE slash == Find(url, SLASH, 2)
<1>12. path = <<>> => slash = 0
  BY <1>9
<1>13. ASSUME path # <<>>
       PROVE  /\ slash # 0
              /\ SubSeq(url, 2, slash - 1) = host
              /\ SubSeq(url, slash, Len(url)) = path
  <2>1. slash = h + 2
    BY <1>10, <1>13
  <2>2. SubSeq(url, 2, h + 1) = host /\ SubSeq(url, h + 2, Len(url)) = path
    BY <1>10, <1>13
  <2>3. slash # 0 /\ slash - 1 = h + 1
    BY <1>11, <2>1
  <2> HIDE DEF slash, h
  <2>4. SubSeq(url, 2, slash - 1) = host
    BY <2>2, <2>3
  <2>5. SubSeq(url, slash, Len(url)) = path
    BY <2>1, <2>2
  <2> QED
    BY <2>3, <2>4, <2>5
<1> QED
  BY <1>12, <1>13 DEF slash, url, host, path, SLASH

\* The line that is there is taken for what its parts say.
LEMMA RequestLineSeen ==
  ASSUME NEW r \in LetterRequests, WellFormed(r), NEW n \in Len(RequestLine(r)) .. Len(Text(r))
  PROVE  LET text == SubSeq(Text(r), 1, n)
             eol  == Len(RequestLine(r))
         IN RequestLineParsed(text, eol) =
              IF r.version \notin {"HTTP/1.1", "HTTP/1.0", "HTTP/"} THEN Parsed("MALFORMED")
              ELSE IF r.version = "HTTP/" THEN Parsed("NOT_SUPPORTED")
              ELSE IF Url(r) = <<>> \/ r.method \notin OtherMethods \cup {"GET"}
                   THEN Parsed("MALFORMED")
              ELSE IF r.scheme # <<"http://">>
                   THEN HeadersParsed(text, eol, Parsed("MALFORMED"))
              ELSE IF r.path = <<>> THEN Parsed("crash")
              ELSE HeadersParsed(text, eol,
                     [outcome |-> http_version(r.version), isGet |-> r.method = "GET",
                      host |-> r.host, path |-> CopiedPath(r.path), keepAlive |-> FALSE])
<1> DEFINE text == SubSeq(Text(r), 1, n)
           eol == Len(RequestLine(r))
           line == SubSeq(text, 1, eol - 1)
           first == Find(line, " ", 1)
           last == FindLast(line, " ")
           version == IF last = Len(line) THEN "MALFORMED" ELSE http_version(line[last + 1])
           url == SubSeq(line, first + 1, last - 1)
           slash == Find(url, "/", 2)
           u == IF Url(r) = <<>> THEN 1 ELSE Len(Url(r)) + 2
           known == {"HTTP/1.1", "HTTP/1.0", "HTTP/"}
           isGet == matches_command(line, "GET")
           other == \A m \in OtherMethods \cup {"GET"} : ~matches_command(line, m)
           plain == matches_command(url, "http://")
           found == [outcome |-> version, isGet |-> isGet, host |-> SubSeq(url, 2, slash - 1),
                     path |-> CopiedPath(SubSeq(url, slash, Len(url))), keepAlive |-> FALSE]
<1>1. RequestLineParsed(text, eol) =
        IF last = 0 THEN Parsed("MALFORMED")
        ELSE IF version \in {"MALFORMED", "NOT_SUPPORTED"} THEN Parsed(version)
        ELSE IF url = <<>> \/ other THEN Parsed("MALFORMED")
        ELSE IF ~plain THEN HeadersParsed(text, eol, Parsed("MALFORMED"))
        ELSE IF slash = 0 THEN Parsed("crash")
        ELSE HeadersParsed(text, eol, found)
  BY DEF RequestLineParsed
<1>2. /\ line # <<>> /\ Head(line) = r.method
      /\ Url(r) = <<>> /\ r.version = "" => last = 0
      /\ Url(r) # <<>> /\ r.version = "" => last = 2 /\ Len(line) > 2 /\ line[3] = Head(Url(r))
      /\ r.version # "" =>
           /\ first = 2 /\ last = u + 1
           /\ Len(line) = u + 3 /\ line[u + 2] = r.version
           /\ SubSeq(line, 3, u) = Url(r)
  BY DividersSeen
<1>3. Url(r) \in Seq(Letters) /\ u \in Nat
  BY PartsOfRequests
<1>4. /\ isGet = (r.method = "GET")
      /\ other <=> r.method \notin OtherMethods \cup {"GET"}
  BY <1>2 DEF matches_command
<1> HIDE DEF text, eol, line, first, last, isGet, other, u
<1>5. CASE r.version = "" /\ Url(r) = <<>>
  BY <1>1, <1>2, <1>5 DEF text, eol
<1>6. CASE r.version = "" /\ Url(r) # <<>>
  <2>1. last = 2 /\ Len(line) > 2 /\ line[3] = Head(Url(r))
    BY <1>2, <1>6
  <2>2. last # 0 /\ last + 1 = 3 /\ last # Len(line)
    BY <2>1
  <2>3. Head(Url(r)) \notin known
    BY <1>6 DEF WellFormed
  <2>4. version = "MALFORMED"
    BY <2>1, <2>2, <2>3 DEF http_version
  <2> HIDE DEF version
  <2> QED
    BY <1>1, <1>6, <2>2, <2>4 DEF text, eol
<1>7. CASE r.version # ""
  <2>1. first = 2 /\ last = u + 1 /\ Len(line) = u + 3 /\ line[u + 2] = r.version
    BY <1>2, <1>7
  <2>2. last # 0 /\ last # Len(line) /\ last + 1 = u + 2 /\ first + 1 = 3 /\ last - 1 = u
    BY <1>3, <2>1
  <2>3. version = http_version(r.version)
    BY <2>1, <2>2
  <2>4. url = Url(r)
    BY <1>2, <1>7, <2>2
  <2> HIDE DEF version, url
  <2>5. CASE r.version \notin known
    <3>1. version = "MALFORMED"
      BY <2>3, <2>5 DEF http_version
    <3> QED
      BY <1>1, <2>2, <2>5, <3>1 DEF text, eol
  <2>6. CASE r.version = "HTTP/"
    <3>1. version = "NOT_SUPPORTED"
      BY <2>3, <2>6 DEF http_version
    <3> QED
      BY <1>1, <2>2, <2>6, <3>1 DEF text, eol
  <2>7. CASE r.version \in known /\ r.version # "HTTP/"
    <3>1. version \notin {"MALFORMED", "NOT_SUPPORTED"}
      BY <2>3, <2>7 DEF http_version
    <3>2. url # <<>> => (plain <=> r.scheme = <<"http://">>)
      BY <2>4 DEF WellFormed, matches_command
    <3>3. CASE url = <<>> \/ other
      BY <1>1, <1>4, <2>2, <2>4, <2>7, <3>1, <3>3 DEF text, eol
    <3>4. CASE ~ (url = <<>> \/ other) /\ r.scheme # <<"http://">>
      <4>1. ~plain
        BY <3>2, <3>4
      <4> HIDE DEF plain
      <4> QED
        BY <1>1, <1>4, <2>2, <2>4, <2>7, <3>1, <3>4, <4>1 DEF text, eol
    <3>5. CASE ~ (url = <<>> \/ other) /\ r.scheme = <<"http://">>
      <4>1. plain
        BY <3>2, <3>5
      <4>2. /\ r.path = <<>> => slash = 0
            /\ r.path # <<>> =>
                 /\ slash # 0
                 /\ SubSeq(url, 2, slash - 1) = r.host
                 /\ SubSeq(url, slash, Len(url)) = r.path
        BY <2>4, <3>5, HostSeen
      <4> HIDE DEF plain, slash
      <4>3. CASE r.path = <<>>
        BY <1>1, <1>4, <2>2, <2>4, <2>7, <3>1, <3>5, <4>1, <4>2, <4>3 DEF text, eol
      <4>4. CASE r.path # <<>>
        <5>1. found = [outcome |-> http_version(r.version), isGet |-> r.method = "GET",
                       host |-> r.host, path |-> CopiedPath(r.path), keepAlive |-> FALSE]
          BY <1>4, <2>3, <4>2, <4>4
        <5> HIDE DEF found
        <5> QED
          BY <1>1, <1>4, <2>2, <2>4, <2>7, <3>1, <3>5, <4>1, <4>2, <4>4, <5>1 DEF text, eol
      <4> QED
        BY <4>3, <4>4
    <3> QED
      BY <3>3, <3>4, <3>5
  <2> QED
    BY <2>5, <2>6, <2>7
<1> QED
  BY <1>5, <1>6, <1>7

\* A host is part of the URL.
LEMMA HostHasNoSpace ==
  ASSUME NEW r \in LetterRequests, WellFormed(r)
  PROVE  r.host \in Seq(Letters) /\ \A k \in 1..Len(r.host) : r.host[k] # SP
<1> DEFINE scheme == r.scheme
           host == r.host
           path == r.path
           url == Url(r)
           first == scheme \o host
<1>1. scheme \in Seq(Letters) /\ host \in Seq(Letters) /\ path \in Seq(Letters)
  BY PartsOfRequests
<1>2. url = first \o path
  BY DEF Url
<1>3. \A k \in DOMAIN url : url[k] # SP
  BY DEF WellFormed, Lacks, SP
<1> HIDE DEF scheme, host, path, url
<1>4. /\ first \in Seq(Letters) /\ Len(first) = Len(scheme) + Len(host)
      /\ \A k \in 1..Len(host) : first[Len(scheme) + k] = host[k]
  BY <1>1, Joined
<1> HIDE DEF first
<1>5. /\ url \in Seq(Letters) /\ Len(url) = Len(first) + Len(path)
      /\ \A k \in 1..Len(first) : url[k] = first[k]
  <2>1. first \in Seq(Letters) /\ path \in Seq(Letters)
    BY <1>1, <1>4
  <2> QED
    BY <1>2, <2>1, Joined
<1>6. ASSUME NEW k \in 1..Len(host)
      PROVE  host[k] # SP
  <2>1. Len(scheme) \in Nat /\ Len(host) \in Nat /\ Len(path) \in Nat
    BY <1>1
  <2>2. Len(scheme) + k \in 1..Len(first) /\ Len(scheme) + k \in 1..Len(url)
    BY <1>4, <1>5, <2>1
  <2>3. url[Len(scheme) + k] = host[k]
    BY <1>4, <1>5, <2>2
  <2>4. DOMAIN url = 1..Len(url)
    BY <1>5
  <2> QED
    BY <1>3, <2>2, <2>3, <2>4
<1> QED
  BY <1>1, <1>6 DEF host

\* The requests that are neither refused nor fatal.
Served(r) ==
  /\ r.version \in {"HTTP/1.1", "HTTP/1.0"} /\ r.method \in OtherMethods \cup {"GET"}
  /\ r.scheme = <<"http://">> /\ r.path # <<>>

\* So the parser says what the parts say, as soon as the request line is there,
LEMMA ParserIsRight ==
  ASSUME NEW r \in LetterRequests, WellFormed(r), NEW n \in Len(RequestLine(r)) .. Len(Text(r))
  PROVE  LET parsed == parse_request_string(SubSeq(Text(r), 1, n))
         IN /\ r.version \notin {"HTTP/1.1", "HTTP/1.0", "HTTP/"} => parsed.outcome = "MALFORMED"
            /\ r.version = "HTTP/" => parsed.outcome = "NOT_SUPPORTED"
            /\ r.version \in {"HTTP/1.1", "HTTP/1.0"} =>
                 IF r.method \notin OtherMethods \cup {"GET"} THEN parsed.outcome = "MALFORMED"
                 ELSE IF r.scheme # <<"http://">>
                 THEN parsed.outcome = "MALFORMED" \/ (parsed.outcome = "crash" /\ BlankHost(r))
                 ELSE r.path = <<>> => parsed.outcome = "crash"
            /\ Served(r) =>
                 \/ parsed.outcome = "crash" /\ BlankHost(r)
                 \/ /\ parsed.outcome = http_version(r.version)
                    /\ parsed.isGet = (r.method = "GET")
                    /\ parsed.path = CopiedPath(r.path)
                    /\ parsed.keepAlive => r.keepAlive
                    /\ SameHost(r) => parsed.host = r.host
<1> DEFINE text == SubSeq(Text(r), 1, n)
           eol == Len(RequestLine(r))
           parsed == parse_request_string(text)
           bad == Parsed("MALFORMED")
           good == [outcome |-> http_version(r.version), isGet |-> r.method = "GET",
                    host |-> r.host, path |-> CopiedPath(r.path), keepAlive |-> FALSE]
           known == {"HTTP/1.1", "HTTP/1.0", "HTTP/"}
           methods == OtherMethods \cup {"GET"}
<1>1. parsed = RequestLineParsed(text, eol)
  <2>1. /\ text \in Seq(Letters) /\ Len(text) = n /\ eol \in 3..n
        /\ \A k \in 1..eol : text[k] = RequestLine(r)[k]
    BY ArrivedText
  <2>2. /\ RequestLine(r)[eol] = LF /\ \A k \in 1 .. eol - 1 : RequestLine(r)[k] # LF
    <3>1. /\ eol = Len(Words(r)) + 2 /\ Len(Words(r)) \in Nat
          /\ RequestLine(r)[Len(Words(r)) + 2] = LF
          /\ \A k \in 1 .. Len(Words(r)) + 1 : RequestLine(r)[k] # LF
      BY EndOfLine
    <3>2. eol - 1 = Len(Words(r)) + 1
      BY <3>1
    <3> QED
      BY <3>1, <3>2
  <2> HIDE DEF text, eol
  <2>3. eol \in 1..Len(text) /\ text[eol] = LF /\ \A k \in 1 .. eol - 1 : text[k] # LF
    BY <2>1, <2>2
  <2>4. Find(text, LF, 1) = eol
    BY <2>1, <2>3, FindIs
  <2>5. ~ \A k \in 1..Len(text) : text[k] # "\n"
    BY <2>3 DEF LF
  <2> QED
    BY <2>4, <2>5 DEF parse_request_string, LF
<1>2. RequestLineParsed(text, eol) =
        IF r.version \notin known THEN bad
        ELSE IF r.version = "HTTP/" THEN Parsed("NOT_SUPPORTED")
        ELSE IF Url(r) = <<>> \/ r.method \notin methods THEN bad
        ELSE IF r.scheme # <<"http://">> THEN HeadersParsed(text, eol, bad)
        ELSE IF r.path = <<>> THEN Parsed("crash")
        ELSE HeadersParsed(text, eol, good)
  BY RequestLineSeen
<1>3. /\ bad.outcome = "MALFORMED" /\ bad.host = <<>>
      /\ Parsed("NOT_SUPPORTED").outcome = "NOT_SUPPORTED"
      /\ Parsed("crash").outcome = "crash"
  BY DEF Parsed
<1> DEFINE refused == HeadersParsed(text, eol, bad)
<1>4. refused.outcome = "MALFORMED" \/ (refused.outcome = "crash" /\ BlankHost(r))
  <2>1. bad.host = <<>>
    BY DEF Parsed
  <2> HIDE DEF bad
  <2>2. bad.host \in Seq(Letters) /\ \A k \in 1..Len(bad.host) : bad.host[k] # SP
    BY <2>1
  <2>3. (refused = Parsed("crash") /\ BlankHost(r)) \/ refused.outcome = bad.outcome
    BY <2>2, HeadersSeen
  <2> HIDE DEF refused
  <2> QED
    BY <1>3, <2>3
<1> DEFINE seen == HeadersParsed(text, eol, good)
<1>5. \/ seen.outcome = "crash" /\ BlankHost(r)
      \/ /\ seen.outcome = http_version(r.version) /\ seen.isGet = (r.method = "GET")
         /\ seen.path = CopiedPath(r.path)
         /\ seen.keepAlive => r.keepAlive
         /\ SameHost(r) => seen.host = r.host
  <2>1. /\ good.outcome = http_version(r.version) /\ good.isGet = (r.method = "GET")
        /\ good.path = CopiedPath(r.path) /\ good.host = r.host
    OBVIOUS
  <2>2. good.host \in Seq(Letters) /\ \A k \in 1..Len(good.host) : good.host[k] # SP
    BY HostHasNoSpace
  <2> HIDE DEF good
  <2>3. \/ seen = Parsed("crash") /\ BlankHost(r)
        \/ /\ seen.outcome = good.outcome /\ seen.isGet = good.isGet
           /\ seen.path = good.path
           /\ seen.keepAlive => r.keepAlive
           /\ (r.named => r.hostLine = good.host) => seen.host = good.host
    BY <2>2, HeadersSeen
  <2> HIDE DEF seen
  <2> QED
    BY <1>3, <2>1, <2>3 DEF SameHost
<1>6. r.scheme = <<"http://">> => Url(r) # <<>>
  <2>1. r.scheme \in Seq(Letters) /\ r.host \in Seq(Letters) /\ r.path \in Seq(Letters)
    BY PartsOfRequests
  <2>2. Len(Url(r)) = Len(r.scheme) + Len(r.host) + Len(r.path)
    BY <2>1 DEF Url
  <2>3. r.scheme = <<HTTP>> => Len(r.scheme) = 1
    OBVIOUS
  <2>4. ASSUME r.scheme = <<HTTP>>
        PROVE  Url(r) # <<>>
    <3>1. Len(r.host) \in Nat /\ Len(r.path) \in Nat /\ Len(r.scheme) = 1
      BY <2>1, <2>3, <2>4
    <3> DEFINE i == Len(r.host)
               j == Len(r.path)
               all == Len(Url(r))
    <3>4. i \in Nat /\ j \in Nat /\ all = 1 + i + j
      BY <2>2, <3>1
    <3> HIDE DEF i, j, all
    <3>5. all # 0
      BY <3>4
    <3>2. Len(Url(r)) # 0
      BY <3>5 DEF all
    <3>3. Len(<<>>) = 0
      OBVIOUS
    <3> QED
      BY <3>2, <3>3
  <2> QED
    BY <2>4, Zenon DEF HTTP
<1> HIDE DEF text, eol, parsed, bad, good, refused, seen
<1>7. CASE r.version \notin known
  BY <1>1, <1>2, <1>3, <1>7 DEF Served, text, parsed
<1>8. CASE r.version = "HTTP/"
  BY <1>1, <1>2, <1>3, <1>8 DEF Served, text, parsed
<1>9. CASE r.version \in {"HTTP/1.1", "HTTP/1.0"} /\ r.method \notin methods
  BY <1>1, <1>2, <1>3, <1>9 DEF Served, text, parsed
<1>10. CASE r.version \in {"HTTP/1.1", "HTTP/1.0"} /\ r.method \in methods /\ r.scheme # <<"http://">>
  BY <1>1, <1>2, <1>3, <1>4, <1>6, <1>10 DEF Served, refused, text, parsed
<1>11. CASE /\ r.version \in {"HTTP/1.1", "HTTP/1.0"} /\ r.method \in methods
            /\ r.scheme = <<"http://">> /\ r.path = <<>>
  BY <1>1, <1>2, <1>3, <1>6, <1>11 DEF Served, text, parsed
<1>12. CASE Served(r)
  <2>1. parsed = seen
    BY <1>1, <1>2, <1>6, <1>12 DEF Served, seen
  <2>2. /\ r.version \in {"HTTP/1.1", "HTTP/1.0"} /\ r.path # <<>> /\ r.version # "HTTP/"
        /\ r.method \in methods /\ r.scheme = <<"http://">>
    BY <1>12 DEF Served
  <2> QED
    BY <1>5, <1>12, <2>1, <2>2 DEF text, parsed
<1> QED
  BY <1>7, <1>8, <1>9, <1>10, <1>11, <1>12 DEF Served

\* and says FAIL before.
LEMMA ParserWaits ==
  ASSUME NEW r \in LetterRequests, WellFormed(r), NEW n \in 0 .. Len(RequestLine(r)) - 1
  PROVE  parse_request_string(SubSeq(Text(r), 1, n)).outcome = "FAIL"
<1> DEFINE line == RequestLine(r)
           h == HeaderLines(r)
           w == Len(Words(r))
           text == SubSeq(Text(r), 1, n)
<1>1. /\ line \in Seq(Letters) /\ h \in Seq(Letters) /\ Len(line) = w + 2 /\ w \in Nat
      /\ \A k \in 1 .. w + 1 : line[k] # LF
  BY EndOfLine, HeaderPositions
<1>2. Text(r) = line \o h
  BY DEF Text
<1> HIDE DEF line, h, w
<1>3. /\ Text(r) \in Seq(Letters) /\ Len(Text(r)) = Len(line) + Len(h)
      /\ \A k \in 1..Len(line) : Text(r)[k] = line[k]
  <2>1. line \in Seq(Letters) /\ h \in Seq(Letters)
    BY <1>1
  <2> QED
    BY <1>2, <2>1, Joined
<1>4. n \in Nat /\ n <= w + 1 /\ n <= Len(Text(r))
  BY <1>1, <1>3 DEF line
<1>5. Len(text) = n /\ \A k \in 1..n : text[k] = Text(r)[k]
  BY <1>3, <1>4
<1> HIDE DEF text
<1>6. \A k \in 1..Len(text) : text[k] # LF
  BY <1>1, <1>3, <1>4, <1>5
<1>7. \A k \in 1..Len(text) : text[k] # "\n"
  BY <1>6 DEF LF
<1>8. parse_request_string(text) = Parsed("FAIL")
  BY <1>7 DEF parse_request_string
<1> QED
  BY <1>8 DEF Parsed, text

-----------------------------------------------------------------------------
(* Answers *)

\* What is waited with has no answer yet.
Unanswered == stage = "queued" => reply = NoReply /\ target = <<>>

AnswerInv == Unanswered /\ RightAnswer /\ CrashNeedsBlank

\* The answer that process_job gives is the one the request deserves.
LEMMA VisitReadsAnswers ==
  ASSUME IInv, Unanswered, VisitReads
  PROVE  AnswerInv'
<1> DEFINE parsed == parse_request_string(Arrived(tail'))
           eol == Len(RequestLine(asked))
           v == asked.version
           known == asked.method \in OtherMethods \cup {"GET"}
           told(status, version, close) ==
             reply' = NoReply \/ reply' = [status |-> status, version |-> version, close |-> close]
<1>1. /\ asked' = asked /\ sent' = sent /\ client' = client
      /\ tail' \in 1..sent /\ tail' <= Size /\ left' = KeepAlive /\ left' # Unset
  BY ReadIsHeard DEF IInv
<1>2. stage = "queued" /\ Process(parsed) /\ reply = NoReply /\ target = <<>>
  BY DEF VisitReads, Unanswered
<1>3. asked \in LetterRequests /\ WellFormed(asked) /\ eol \in Nat
  <2>1. asked \in LetterRequests /\ WellFormed(asked)
    <3>1. asked \in Requests
      BY DEF IInv, Types
    <3> QED
      BY <3>1, RequestsAreTexts
  <2> QED
    BY <2>1, EndOfLine
<1>4. tail' \in Nat /\ tail' <= Len(Text(asked)) /\ Len(Text(asked)) \in Nat
  <2>1. sent \in 0..Len(Text(asked)) /\ Text(asked) \in Seq(STRING)
    BY ConnectionAssumption DEF IInv, Types
  <2> QED
    BY <1>1, <2>1
<1>5. /\ RequestLine(asked)' = RequestLine(asked) /\ Deserved(asked)' = Deserved(asked)
      /\ SameHost(asked)' = SameHost(asked) /\ BlankHost(asked)' = BlankHost(asked)
  BY <1>1 DEF RequestLine, Url, Deserved, SameHost, BlankHost
<1>6. Unanswered' /\ (tail' < eol => AnswerInv')
  <2>1. stage' = "queued" => reply' = reply /\ target' = target
    BY <1>2 DEF Process, Serve, Answers
  <2>2. Unanswered'
    BY <1>2, <2>1 DEF Unanswered
  <2>3. ASSUME tail' < eol
        PROVE  RightAnswer' /\ CrashNeedsBlank'
    <3>1. parsed.outcome = "FAIL"
      <4>1. tail' \in 0 .. eol - 1
        BY <1>3, <1>4, <2>3
      <4> QED
        BY <1>3, <4>1, ParserWaits DEF Arrived
    <3> HIDE DEF parsed
    <3>2. CASE tail' # Size - 1 /\ UNCHANGED <<stage, reply, target>>
      BY <1>2, <3>2 DEF RightAnswer, CrashNeedsBlank
    <3>3. CASE tail' = Size - 1 /\ Answers(400, "DOT_ONE", FALSE)
      <4>1. told(400, "DOT_ONE", FALSE) /\ target' = <<>> /\ stage' = "ended"
        BY <1>2, <3>3 DEF Answers
      <4>2. Len(RequestLine(asked)) >= Size
        <5>1. Size \in Nat /\ eol \in Nat /\ Size - 1 < eol
          BY ConnectionAssumption, <1>3, <2>3, <3>3
        <5> HIDE DEF eol
        <5>2. eol >= Size
          BY <5>1
        <5> QED
          BY <5>2 DEF eol
      <4> QED
        BY <1>5, <3>3, <4>1, <4>2 DEF RightAnswer, CrashNeedsBlank
    <3> QED
      BY <1>2, <3>1, <3>2, <3>3 DEF Process
  <2> QED
    BY <2>2, <2>3 DEF AnswerInv
<1>7. CASE tail' >= eol
  <2>1. /\ v \notin {"HTTP/1.1", "HTTP/1.0", "HTTP/"} => parsed.outcome = "MALFORMED"
        /\ v = "HTTP/" => parsed.outcome = "NOT_SUPPORTED"
        /\ v \in {"HTTP/1.1", "HTTP/1.0"} =>
             IF ~known THEN parsed.outcome = "MALFORMED"
             ELSE IF asked.scheme # <<"http://">>
             THEN parsed.outcome = "MALFORMED" \/ (parsed.outcome = "crash" /\ BlankHost(asked))
             ELSE asked.path = <<>> => parsed.outcome = "crash"
        /\ Served(asked) =>
             \/ parsed.outcome = "crash" /\ BlankHost(asked)
             \/ /\ parsed.outcome = http_version(v)
                /\ parsed.isGet = (asked.method = "GET")
                /\ parsed.path = CopiedPath(asked.path)
                /\ parsed.keepAlive => asked.keepAlive
                /\ SameHost(asked) => parsed.host = asked.host
    <3>1. tail' \in eol .. Len(Text(asked))
      BY <1>3, <1>4, <1>7
    <3> QED
      BY <1>3, <3>1, ParserIsRight DEF Arrived
  <2> HIDE DEF parsed
  <2>2. CASE parsed.outcome = "MALFORMED"
    <3>1. told(400, "DOT_ONE", FALSE) /\ target' = <<>> /\ stage' = "ended"
      BY <1>2, <2>2 DEF Process, Answers
    <3>2. 400 \in Deserved(asked)
      <4>1. ~ Served(asked)
        BY <2>1, <2>2 DEF Served, http_version
      <4>2. v # "HTTP/"
        BY <2>1, <2>2
      <4>3. v \in {"HTTP/1.1", "HTTP/1.0"} => ~known \/ asked.scheme # <<"http://">>
        BY <2>1, <2>2, <4>1 DEF Served
      <4> QED
        BY <4>2, <4>3 DEF Deserved
    <3> QED
      BY <1>5, <1>6, <3>1, <3>2 DEF AnswerInv, RightAnswer, CrashNeedsBlank
  <2>3. CASE parsed.outcome = "NOT_SUPPORTED"
    <3>1. told(505, "DOT_ONE", FALSE) /\ target' = <<>> /\ stage' = "ended"
      BY <1>2, <2>3 DEF Process, Answers
    <3>2. 505 \in Deserved(asked)
      <4>1. v \in {"HTTP/1.1", "HTTP/1.0", "HTTP/"}
        BY <2>1, <2>3
      <4>2. v = "HTTP/"
        BY <2>1, <2>3, <4>1 DEF Served, http_version
      <4> QED
        BY <4>2 DEF Deserved
    <3> QED
      BY <1>5, <1>6, <3>1, <3>2 DEF AnswerInv, RightAnswer, CrashNeedsBlank
  <2>4. CASE parsed.outcome = "crash"
    <3>1. stage' = "crashed" /\ reply' = NoReply /\ target' = <<>>
      BY <1>2, <2>4 DEF Process
    <3>2. asked.path = <<>> \/ BlankHost(asked)
      <4>1. v \in {"HTTP/1.1", "HTTP/1.0"} /\ known
        BY <2>1, <2>4
      <4> QED
        BY <2>1, <2>4, <4>1 DEF Served, http_version
    <3> QED
      BY <1>1, <1>5, <1>6, <3>1, <3>2 DEF AnswerInv, RightAnswer, CrashNeedsBlank
  <2>5. CASE Served(asked) /\ parsed.outcome \in {"DOT_ZERO", "DOT_ONE"}
    <3>1. /\ parsed.outcome = http_version(v)
          /\ parsed.isGet = (asked.method = "GET")
          /\ parsed.path = CopiedPath(asked.path)
          /\ parsed.keepAlive => asked.keepAlive
          /\ SameHost(asked) => parsed.host = asked.host
      BY <2>1, <2>5
    <3>2. Serve(parsed) /\ stage' # "crashed"
      BY <1>2, <2>5 DEF Process, Serve, Answers
    <3>3. parsed.outcome = IF v = "HTTP/1.0" THEN "DOT_ZERO" ELSE "DOT_ONE"
      BY <2>5, <3>1 DEF Served, http_version
    <3>4. Deserved(asked) = IF asked.method # "GET" THEN {405}
                            ELSE IF asked.host \in BlockedHosts THEN {403}
                            ELSE IF asked.host \in OkHosts THEN {200} ELSE {404}
      BY <2>5 DEF Served, Deserved
    <3> DEFINE answered(status) ==
          told(status, parsed.outcome, parsed.keepAlive) /\ target' = <<>>
    <3>5. ASSUME NEW status \in {403, 404, 405}, answered(status),
                 SameHost(asked) => Deserved(asked) = {status}
          PROVE  AnswerInv'
      <4>1. SameHost(asked) /\ reply' # NoReply =>
              /\ reply'.status \in Deserved(asked)
              /\ reply'.version = IF v = "HTTP/1.0" THEN "DOT_ZERO" ELSE "DOT_ONE"
              /\ reply'.close => asked.keepAlive
        BY <3>1, <3>3, <3>5
      <4> QED
        BY <1>1, <1>5, <1>6, <3>2, <3>5, <4>1 DEF AnswerInv, RightAnswer, CrashNeedsBlank
    <3>6. CASE ~parsed.isGet /\ Answers(405, parsed.outcome, parsed.keepAlive)
      <4>1. answered(405) /\ (SameHost(asked) => Deserved(asked) = {405})
        BY <1>2, <3>1, <3>4, <3>6 DEF Answers
      <4> QED
        BY <3>5, <4>1
    <3>7. CASE /\ parsed.isGet /\ resolve_host(parsed.host) = "blocked"
               /\ Answers(403, parsed.outcome, parsed.keepAlive)
      <4>1. answered(403) /\ (SameHost(asked) => Deserved(asked) = {403})
        BY <1>2, <3>1, <3>4, <3>7 DEF Answers, resolve_host
      <4> QED
        BY <3>5, <4>1
    <3>8. CASE /\ parsed.isGet /\ resolve_host(parsed.host) = "not_found"
               /\ Answers(404, parsed.outcome, parsed.keepAlive)
      <4>1. answered(404) /\ (SameHost(asked) => Deserved(asked) = {404})
        BY <1>2, <3>1, <3>4, <3>8 DEF Answers, resolve_host
      <4> QED
        BY <3>5, <4>1
    <3>9. CASE /\ parsed.isGet /\ resolve_host(parsed.host) = "ok"
               /\ target' = [host |-> parsed.host, path |-> parsed.path]
               /\ UNCHANGED reply
      <4>1. SameHost(asked) => Deserved(asked) = {200}
        BY <3>1, <3>4, <3>9 DEF resolve_host
      <4>2. SameHost(asked) =>
              target' = [host |-> asked.host,
                         path |-> StripSlash(Cut(asked.path, 1, MAX_URL_SIZE))]
        BY <3>1, <3>9 DEF CopiedPath
      <4> QED
        BY <1>1, <1>2, <1>5, <1>6, <3>2, <3>9, <4>1, <4>2
           DEF AnswerInv, RightAnswer, CrashNeedsBlank
    <3> QED
      BY <3>2, <3>6, <3>7, <3>8, <3>9 DEF Serve
  <2>6. \/ parsed.outcome \in {"MALFORMED", "NOT_SUPPORTED", "crash"}
        \/ Served(asked) /\ parsed.outcome \in {"DOT_ZERO", "DOT_ONE"}
    BY <2>1 DEF Served, http_version
  <2> QED
    BY <2>2, <2>3, <2>4, <2>5, <2>6
<1> QED
  BY <1>3, <1>4, <1>6, <1>7

\* Nothing else gives one.
LEMMA OthersAnswer ==
  ASSUME AnswerInv, UNCHANGED <<asked, tail, reply, target>>,
         stage' = "queued" => stage = "queued", stage' = "crashed" => stage = "crashed"
  PROVE  AnswerInv'
<1>1. /\ RequestLine(asked)' = RequestLine(asked) /\ Deserved(asked)' = Deserved(asked)
      /\ SameHost(asked)' = SameHost(asked) /\ BlankHost(asked)' = BlankHost(asked)
  BY DEF RequestLine, Url, Deserved, SameHost, BlankHost
<1>2. Unanswered'
  BY DEF AnswerInv, Unanswered
<1>3. RightAnswer'
  BY <1>1 DEF AnswerInv, RightAnswer
<1>4. CrashNeedsBlank'
  BY DEF AnswerInv, CrashNeedsBlank
<1> QED
  BY <1>2, <1>3, <1>4 DEF AnswerInv

\* All steps together.
LEMMA StepsAnswer ==
  ASSUME IInv, AnswerInv, [Next]_vars
  PROVE  AnswerInv'
<1>1. CASE VisitReads
  BY <1>1, VisitReadsAnswers DEF AnswerInv
<1>2. CASE VisitExpired \/ VisitHangup \/ VisitNothing
  BY <1>2, OthersAnswer DEF VisitExpired, VisitHangup, VisitNothing, Terminates, connection
<1>3. CASE Client \/ Clock
  BY <1>3, OthersAnswer DEF Client, ClientSends, ClientLeaves, Clock, SecondPasses
<1>4. CASE Fetch \/ Relay \/ Scan
  BY <1>4, OthersAnswer
     DEF Fetch, ServerUnreachable, FirstRecv, Relay, NextRecv, Spins, Relayed, Scan, ScanBlock, ScanEnds, connection
<1>5. CASE UNCHANGED vars
  BY <1>5, OthersAnswer DEF vars, connection
<1> QED
  BY <1>1, <1>2, <1>3, <1>4, <1>5 DEF Next, ProcessJob, Visit, Over

\* AnswerInv is an invariant.
LEMMA AnswersInvariant == Spec => []AnswerInv
<1>1. Init => AnswerInv
  BY DEF Init, InitConnection, AnswerInv, Unanswered, RightAnswer, CrashNeedsBlank
<1>2. IInv /\ AnswerInv /\ [Next]_vars => AnswerInv'
  BY StepsAnswer
<1> QED
  BY <1>1, <1>2, InductiveInvariant, PTL DEF Spec

\* Whatever a request says and however the network cuts it, its client gets an
\* answer it deserves (for an https URL 400 is one of two, see Deserved), or
\* the page it names, as far as MAX_URL_SIZE lets it be named, is fetched.
THEOREM AnswersAreRight == Spec => []RightAnswer
<1>1. AnswerInv => RightAnswer
  BY DEF AnswerInv
<1> QED
  BY <1>1, AnswersInvariant, PTL

\* The process dies of no request but one without a path or with a blank Host
\* line: the two lengths that parse_request_string takes for positive.
THEOREM OnlyBlanksCrash == Spec => []CrashNeedsBlank
<1>1. AnswerInv => CrashNeedsBlank
  BY DEF AnswerInv
<1> QED
  BY <1>1, AnswersInvariant, PTL

=============================================================================

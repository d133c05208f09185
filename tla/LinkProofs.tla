----------------------------- MODULE LinkProofs -----------------------------
(***************************************************************************)
(* The prefetch jobs of a page, for all pages and all sizes of the block:  *)
(* what they ask for (PrefetchesAreRight), and that no link is left out    *)
(* (CloseLinksAreFound).                                                   *)
(***************************************************************************)
EXTENDS AnswerProofs

-----------------------------------------------------------------------------
(* What prefetch jobs ask for *)

\* Short texts.
LEMMA ShortTexts ==
  ASSUME NEW S, NEW a \in S, NEW b \in S
  PROVE  /\ <<>> \in Seq(S) /\ <<a>> \in Seq(S) /\ <<a, b>> \in Seq(S)
         /\ <<a>> \o <<b>> = <<a, b>>
         /\ Len(<<a, b>>) = 2 /\ <<a, b>>[1] = a
<1>1. <<>> \in Seq(S) /\ <<a>> \in Seq(S) /\ <<a, b>> \in Seq(S)
  OBVIOUS
<1>2. Len(<<a, b>>) = 2 /\ <<a, b>>[1] = a
  OBVIOUS
<1> DEFINE one == <<a>>
           two == <<b>>
           both == <<a, b>>
<1>3. /\ one \in Seq(S) /\ two \in Seq(S) /\ both \in Seq(S)
      /\ Len(one) = 1 /\ one[1] = a /\ Len(two) = 1 /\ two[1] = b
      /\ Len(both) = 2 /\ both[1] = a /\ both[2] = b
  BY <1>1
<1> HIDE DEF one, two, both
<1>4. /\ one \o two \in Seq(S) /\ Len(one \o two) = 2
      /\ (one \o two)[1] = a /\ (one \o two)[2] = b
  <2>1. /\ one \o two \in Seq(S) /\ Len(one \o two) = Len(one) + Len(two)
        /\ \A k \in 1..Len(one) : (one \o two)[k] = one[k]
        /\ \A k \in 1..Len(two) : (one \o two)[Len(one) + k] = two[k]
    <3>1. one \in Seq(S) /\ two \in Seq(S)
      BY <1>3
    <3> QED
      BY <3>1, Joined
  <2>2. (one \o two)[1] = one[1]
    BY <1>3, <2>1
  <2>3. (one \o two)[1 + 1] = two[1]
    BY <1>3, <2>1
  <2>4. 1 + 1 = 2
    OBVIOUS
  <2> QED
    BY <1>3, <2>1, <2>2, <2>3, <2>4
<1>5. \A k \in 1..2 : (one \o two)[k] = both[k]
  <2>1. \A k \in 1..2 : k = 1 \/ k = 2
    OBVIOUS
  <2> QED
    BY <1>3, <1>4, <2>1
<1>6. one \o two = both
  BY <1>3, <1>4, <1>5, SeqEqual
<1> QED
  BY <1>1, <1>2, <1>6 DEF one, two, both

\* The request of a prefetch job.
RequestOf(host, path) ==
  [method |-> "GET", scheme |-> <<"http://">>, host |-> host, path |-> path,
   version |-> "HTTP/1.1", named |-> FALSE, hostLine |-> <<>>, keepAlive |-> FALSE]

\* What is not in its parts is not in its URL.
LEMMA UrlOfParts ==
  ASSUME NEW host \in Seq(Letters), NEW path \in Seq(Letters)
  PROVE  LET url == (<<HTTP>> \o host) \o path
         IN /\ url \in Seq(Letters) /\ url # <<>> /\ Head(url) = HTTP
            /\ \A bad : /\ bad # HTTP /\ \A k \in 1..Len(host) : host[k] # bad
                        /\ \A k \in 1..Len(path) : path[k] # bad
                        => \A k \in 1..Len(url) : url[k] # bad
<1> DEFINE front == <<HTTP>> \o host
           url == front \o path
<1>1. HTTP \in Letters
  BY LettersOfRequests
<1>2. /\ front \in Seq(Letters) /\ Len(front) = 1 + Len(host) /\ front[1] = HTTP
      /\ \A k \in 1..Len(host) : front[1 + k] = host[k]
  BY <1>1, Preceded
<1> HIDE DEF front
<1>3. /\ url \in Seq(Letters) /\ Len(url) = Len(front) + Len(path)
      /\ \A k \in 1..Len(front) : url[k] = front[k]
      /\ \A k \in 1..Len(path) : url[Len(front) + k] = path[k]
  <2>1. front \in Seq(Letters)
    BY <1>2
  <2> QED
    BY <2>1, Joined
<1> HIDE DEF url
<1>4. Len(host) \in Nat /\ Len(path) \in Nat
  OBVIOUS
<1>5. ASSUME NEW bad, bad # HTTP, \A k \in 1..Len(host) : host[k] # bad,
             \A k \in 1..Len(path) : path[k] # bad, NEW k \in 1..Len(url)
      PROVE  url[k] # bad
  <2>1. CASE k = 1
    <3>1. 1 \in 1..Len(front)
      BY <1>2, <1>4
    <3> QED
      BY <1>2, <1>3, <1>5, <2>1, <3>1
  <2>2. CASE k \in 2..Len(front)
    <3>1. k - 1 \in 1..Len(host) /\ 1 + (k - 1) = k /\ k \in 1..Len(front)
      BY <1>2, <1>4, <2>2
    <3>2. front[1 + (k - 1)] = host[k - 1]
      BY <1>2, <3>1
    <3> QED
      BY <1>3, <1>5, <3>1, <3>2
  <2>3. CASE k > Len(front)
    <3>1. k - Len(front) \in 1..Len(path) /\ Len(front) + (k - Len(front)) = k
      BY <1>2, <1>3, <1>4, <2>3
    <3>2. url[Len(front) + (k - Len(front))] = path[k - Len(front)]
      BY <1>3, <3>1
    <3> QED
      BY <1>5, <3>1, <3>2
  <2> QED
    BY <1>2, <1>3, <1>4, <2>1, <2>2, <2>3
<1>6. Len(url) >= 1 /\ 1 \in 1..Len(front)
  BY <1>2, <1>3, <1>4
<1>7. url[1] = HTTP
  BY <1>2, <1>3, <1>6
<1>8. url # <<>> /\ Head(url) = HTTP
  BY <1>3, <1>6, <1>7
<1>9. \A bad : /\ bad # HTTP /\ \A k \in 1..Len(host) : host[k] # bad
               /\ \A k \in 1..Len(path) : path[k] # bad
               => \A k \in 1..Len(url) : url[k] # bad
  BY <1>5
<1> QED
  BY <1>3, <1>8, <1>9 DEF url, front

\* Names of hosts and paths on them.
IsHost(host) ==
  host \in Seq(Letters) /\ Lacks(host, {" ", "\n", "/"}) /\ Len(host) <= MAX_NAME_LENGTH

IsPath(path) ==
  path \in Seq(Letters) /\ Lacks(path, {" ", "\n"}) /\ (path # <<>> => Head(path) = "/")

\* It is one that a client could send.
LEMMA PrefetchIsRequest ==
  ASSUME NEW host, IsHost(host), NEW path, IsPath(path)
  PROVE  RequestOf(host, path) \in LetterRequests /\ WellFormed(RequestOf(host, path))
<1> DEFINE r == RequestOf(host, path)
           url == (<<HTTP>> \o host) \o path
<1>1. /\ r.method = "GET" /\ r.scheme = <<HTTP>> /\ r.host = host /\ r.path = path
      /\ r.version = "HTTP/1.1" /\ r.named = FALSE /\ r.hostLine = <<>> /\ r.keepAlive = FALSE
  BY DEF RequestOf, HTTP
<1>0. host \in Seq(Letters) /\ path \in Seq(Letters)
  BY DEF IsHost, IsPath
<1>2. r \in LetterRequests
  <2>1. HTTP \in Letters
    BY LettersOfRequests
  <2>2. <<HTTP>> \in Seq(Letters) /\ <<>> \in Seq(Letters)
    BY <2>1, ShortTexts
  <2>3. <<"http://">> \in Seq(Letters)
    BY <2>2, Zenon DEF HTTP
  <2>4. "GET" \in Letters /\ "HTTP/1.1" \in Letters
    BY LettersOfRequests
  <2> QED
    BY <1>0, <2>2, <2>3, <2>4 DEF RequestOf, LetterRequests
<1>3. Url(r) = url
  BY <1>1 DEF Url
<1>4. /\ url \in Seq(Letters) /\ url # <<>> /\ Head(url) = HTTP
      /\ \A bad : /\ bad # HTTP /\ \A k \in 1..Len(host) : host[k] # bad
                  /\ \A k \in 1..Len(path) : path[k] # bad
                  => \A k \in 1..Len(url) : url[k] # bad
  BY <1>0, UrlOfParts
<1> HIDE DEF r, url
<1>5. DOMAIN url = 1..Len(url) /\ DOMAIN host = 1..Len(host) /\ DOMAIN path = 1..Len(path)
  BY <1>0, <1>4
<1>6. Lacks(url, {" ", "\n"})
  <2>1. /\ \A k \in 1..Len(host) : host[k] # " " /\ host[k] # "\n"
        /\ \A k \in 1..Len(path) : path[k] # " " /\ path[k] # "\n"
    BY <1>5, Zenon DEF IsHost, IsPath, Lacks
  <2>2. " " # HTTP /\ "\n" # HTTP
    BY DEF HTTP
  <2>3. \A k \in 1..Len(url) : url[k] # " "
    BY <1>4, <2>1, <2>2, Zenon
  <2>4. \A k \in 1..Len(url) : url[k] # "\n"
    BY <1>4, <2>1, <2>2, Zenon
  <2> QED
    BY <1>5, <2>3, <2>4, Zenon DEF Lacks
<1>7. Lacks(host, {"/"}) /\ Lacks(<<>>, {"\n"})
  <2>1. DOMAIN <<>> = {}
    OBVIOUS
  <2>2. Lacks(<<>>, {"\n"})
    BY <2>1, Zenon DEF Lacks
  <2>3. Lacks(host, {"/"})
    BY DEF IsHost, Lacks
  <2> QED
    BY <2>2, <2>3
<1>8. WellFormed(r)
  <2>1. {r.method, r.version} \cap {" ", "\n"} = {}
    BY <1>1
  <2>2. r.scheme = <<"http://">> /\ Head(url) = "http://"
    BY <1>1, <1>4, Zenon DEF HTTP
  <2>3. r.version # ""
    BY <1>1
  <2>4. r.path # <<>> => Head(r.path) = "/"
    BY <1>1, Zenon DEF IsPath
  <2>5. Lacks(r.host, {"/"}) /\ Lacks(r.hostLine, {"\n"})
    BY <1>1, <1>7, Zenon
  <2>6. Len(r.host) <= MAX_NAME_LENGTH
    BY <1>1, Zenon DEF IsHost
  <2>7. Len(r.hostLine) <= MAX_NAME_LENGTH
    <3>1. Len(<<>>) = 0 /\ MAX_NAME_LENGTH \in Nat
      BY ConnectionAssumption
    <3>2. 0 <= MAX_NAME_LENGTH
      BY <3>1
    <3> QED
      BY <1>1, <3>1, <3>2, Zenon
  <2> QED
    BY <1>3, <1>6, <2>1, <2>2, <2>3, <2>4, <2>5, <2>6, <2>7, Zenon DEF WellFormed
<1> QED
  BY <1>2, <1>8 DEF r

\* And its text is what dispatch_prefetch_jobs writes.
LEMMA PrefetchText ==
  ASSUME NEW host \in Seq(Letters), NEW path \in Seq(Letters)
  PROVE  LET front == <<HTTP>> \o host
             end   == <<SP, "HTTP/1.1">>
         IN /\ Text(RequestOf(host, path)) =
                 ((((<<"GET", SP>> \o front) \o path) \o end) \o EOL) \o EOL
            /\ Text(RequestOf(host, path)) =
                 (((<<"GET", SP>> \o (front \o path)) \o end) \o EOL) \o EOL
<1> DEFINE r == RequestOf(host, path)
           get == "GET"
           version == "HTTP/1.1"
           front == <<HTTP>> \o host
           url == front \o path
           end == <<SP, version>>
<1>1. /\ r.method = get /\ Url(r) = url
      /\ r.version = version /\ ~ r.named /\ ~ r.keepAlive
  BY DEF RequestOf, HTTP, Url
<1>2. version # ""
  OBVIOUS
<1>3. HTTP \in Letters /\ get \in Letters /\ version \in Letters /\ SP \in Letters
      /\ EOL \in Seq(Letters)
  BY LettersOfRequests
<1> HIDE DEF get, version
<1>4. front \in Seq(Letters) /\ url \in Seq(Letters) /\ url # <<>>
  <2>1. front \in Seq(Letters) /\ Len(front) = 1 + Len(host)
    BY <1>3, Preceded
  <2> HIDE DEF front
  <2>2. url \in Seq(Letters) /\ Len(url) = 1 + Len(host) + Len(path)
    BY <2>1
  <2>3. Len(host) \in Nat /\ Len(path) \in Nat
    OBVIOUS
  <2> HIDE DEF url
  <2>4. Len(url) # 0
    BY <2>2, <2>3
  <2> QED
    BY <2>1, <2>2, <2>4
<1>5. RequestLine(r) = ((<<get>> \o (<<SP>> \o url)) \o end) \o EOL
  <2>1. RequestLine(r) = ((<<get>> \o OrNothing(url # <<>>, <<SP>> \o url))
                            \o OrNothing(version # "", <<SP, version>>)) \o EOL
    BY <1>1, Zenon DEF RequestLine, SP
  <2>2. OrNothing(url # <<>>, <<SP>> \o url) = <<SP>> \o url
    BY <1>4 DEF OrNothing
  <2>3. OrNothing(version # "", <<SP, version>>) = end
    BY <1>2 DEF OrNothing
  <2> HIDE DEF end, url
  <2> QED
    BY <2>1, <2>2, <2>3 DEF end
<1>6. HeaderLines(r) = EOL
  <2>1. HeaderLines(r) = (<<>> \o <<>>) \o EOL
    BY <1>1 DEF HeaderLines, OrNothing
  <2>2. <<>> \o <<>> = <<>> /\ <<>> \o EOL = EOL
    BY <1>3
  <2> QED
    BY <2>1, <2>2
<1> DEFINE one == <<get>>
           two == <<SP>>
           both == <<get, SP>>
<1>7. one \in Seq(Letters) /\ two \in Seq(Letters) /\ one \o two = both /\ both \in Seq(Letters)
  <2>1. get \in Letters /\ SP \in Letters
    BY <1>3
  <2> QED
    BY <2>1, ShortTexts
<1>8. one \o (two \o url) = both \o url
  <2>1. one \in Seq(Letters) /\ two \in Seq(Letters) /\ url \in Seq(Letters)
    BY <1>4, <1>7
  <2> HIDE DEF r, one, two, both, front, url, end
  <2>2. (one \o two) \o url = one \o (two \o url)
    BY <2>1, ConcatAssociative
  <2> QED
    BY <1>7, <2>2
<1>9. both \o url = (both \o front) \o path
  <2>1. both \in Seq(Letters) /\ front \in Seq(Letters) /\ path \in Seq(Letters)
    BY <1>4, <1>7
  <2>2. url = front \o path
    OBVIOUS
  <2> HIDE DEF r, one, two, both, front, url, end
  <2>3. (both \o front) \o path = both \o (front \o path)
    BY <2>1, ConcatAssociative
  <2> QED
    BY <2>2, <2>3
<1>10. Text(r) = (((both \o url) \o end) \o EOL) \o EOL
  <2>1. Text(r) = RequestLine(r) \o HeaderLines(r)
    BY DEF Text
  <2> HIDE DEF r, one, two, both, url, end
  <2>2. <<get>> \o (<<SP>> \o url) = both \o url
    BY <1>8 DEF one, two
  <2>3. RequestLine(r) = ((both \o url) \o end) \o EOL
    BY <1>5, <2>2
  <2>4. HeaderLines(r) = EOL
    BY <1>6
  <2> QED
    BY <2>1, <2>3, <2>4
<1> HIDE DEF r, both, url, front, end
<1> QED
  BY <1>9, <1>10 DEF r, both, url, front, end, get, version

\* The first symbol behind "GET " says whether a URL follows.
LEMMA PrefetchThird ==
  ASSUME target.host \in Seq(Letters), NEW link \in Seq(Letters)
  PROVE  PrefetchRequest(link)[3] =
           IF link = <<>> THEN SP ELSE IF Head(link) = "/" THEN HTTP ELSE Head(link)
<1> DEFINE get == "GET"
           version == "HTTP/1.1"
           within == link # <<>> /\ Head(link) = "/"
           front == <<HTTP>> \o target.host
           middle == IF within THEN front ELSE <<>>
           both == <<get, SP>>
           end == <<SP, version>>
           third == IF link = <<>> THEN SP ELSE IF within THEN HTTP ELSE Head(link)
<1>1. PrefetchRequest(link) = ((((both \o middle) \o link) \o end) \o EOL) \o EOL
  BY Zenon DEF PrefetchRequest, OrNothing, matches_command, SP, HTTP
<1>2. HTTP \in Letters /\ get \in Letters /\ version \in Letters /\ SP \in Letters
      /\ EOL \in Seq(Letters) /\ <<>> \in Seq(Letters)
  BY LettersOfRequests
<1>3. within => link # <<>>
  OBVIOUS
<1> HIDE DEF get, version, within
<1>4. /\ front \in Seq(Letters) /\ Len(front) = 1 + Len(target.host) /\ front[1] = HTTP
  BY <1>2, Preceded
<1> HIDE DEF front
<1>5. both \in Seq(Letters) /\ Len(both) = 2 /\ end \in Seq(Letters) /\ Len(end) = 2 /\ end[1] = SP
  BY <1>2
<1>6. middle \in Seq(Letters) /\ (~within => Len(middle) = 0) /\ (within => middle[1] = HTTP /\ Len(middle) >= 1)
  <2>1. Len(target.host) \in Nat /\ Len(<<>>) = 0
    OBVIOUS
  <2> QED
    BY <1>2, <1>4, <2>1
<1> HIDE DEF both, end, middle
<1> DEFINE x == both \o middle
<1>7. x \in Seq(Letters) /\ Len(x) = 2 + Len(middle) /\ Len(middle) \in Nat /\ (within => x[3] = HTTP)
  <2>1. /\ x \in Seq(Letters) /\ Len(x) = Len(both) + Len(middle)
        /\ \A k \in 1..Len(middle) : x[Len(both) + k] = middle[k]
    <3>1. both \in Seq(Letters) /\ middle \in Seq(Letters)
      BY <1>5, <1>6
    <3> QED
      BY <3>1, Joined
  <2> HIDE DEF x
  <2>2. Len(middle) \in Nat
    BY <1>6
  <2>3. ASSUME within
        PROVE  x[3] = HTTP
    <3>1. 1 \in 1..Len(middle)
      BY <1>6, <2>2, <2>3
    <3>2. x[Len(both) + 1] = middle[1]
      BY <2>1, <3>1
    <3>3. Len(both) + 1 = 3
      BY <1>5
    <3> QED
      BY <1>6, <2>3, <3>2, <3>3
  <2> QED
    BY <1>5, <2>1, <2>2, <2>3
<1> HIDE DEF x
<1> DEFINE y == x \o link
<1>8. /\ y \in Seq(Letters) /\ Len(y) = Len(x) + Len(link)
      /\ link # <<>> => y[3] = third
  <2>1. /\ y \in Seq(Letters) /\ Len(y) = Len(x) + Len(link)
        /\ \A k \in 1..Len(x) : y[k] = x[k]
        /\ \A k \in 1..Len(link) : y[Len(x) + k] = link[k]
    <3>1. x \in Seq(Letters)
      BY <1>7
    <3> QED
      BY <3>1, Joined
  <2> HIDE DEF y
  <2>2. ASSUME link # <<>>, within
        PROVE  y[3] = third
    <3>1. Len(x) >= 3 /\ 3 \in 1..Len(x)
      BY <1>6, <1>7, <2>2
    <3> QED
      BY <1>7, <2>1, <2>2, <3>1
  <2>3. ASSUME link # <<>>, ~within
        PROVE  y[3] = third
    <3>1. Len(x) = 2 /\ 1 \in 1..Len(link) /\ Head(link) = link[1]
      BY <1>6, <1>7, <2>3
    <3>2. y[Len(x) + 1] = link[1]
      BY <2>1, <3>1
    <3>3. Len(x) + 1 = 3
      BY <3>1
    <3> QED
      BY <2>3, <3>1, <3>2, <3>3
  <2> QED
    BY <2>1, <2>2, <2>3
<1> HIDE DEF y
<1> DEFINE z == y \o end
<1>9. z \in Seq(Letters) /\ Len(z) >= 3 /\ z[3] = third
  <2>1. /\ z \in Seq(Letters) /\ Len(z) = Len(y) + Len(end)
        /\ \A k \in 1..Len(y) : z[k] = y[k]
        /\ \A k \in 1..Len(end) : z[Len(y) + k] = end[k]
    <3>1. y \in Seq(Letters) /\ end \in Seq(Letters)
      BY <1>5, <1>8
    <3> QED
      BY <3>1, Joined
  <2> HIDE DEF z
  <2>2. CASE link # <<>>
    <3>1. Len(link) >= 1 /\ Len(link) \in Nat
      BY <2>2
    <3>2. Len(y) >= 3 /\ Len(y) \in Nat /\ 3 \in 1..Len(y)
      BY <1>7, <1>8, <3>1
    <3> QED
      BY <1>5, <1>8, <2>1, <2>2, <3>2
  <2>3. CASE link = <<>>
    <3>1. Len(link) = 0 /\ Len(y) = 2 /\ third = SP
      BY <1>3, <1>6, <1>7, <1>8, <2>3
    <3>2. z[Len(y) + 1] = end[1] /\ Len(y) + 1 = 3
      <4>1. 1 \in 1..Len(end)
        BY <1>5
      <4>2. z[Len(y) + 1] = end[1]
        BY <2>1, <4>1
      <4> QED
        BY <3>1, <4>2
    <3> QED
      BY <1>5, <2>1, <3>1, <3>2
  <2> QED
    BY <2>2, <2>3
<1> HIDE DEF z, third
<1>10. ((z \o EOL) \o EOL)[3] = third
  <2> DEFINE w == z \o EOL
  <2>1. w \in Seq(Letters) /\ Len(w) = Len(z) + 2 /\ \A k \in 1..Len(z) : w[k] = z[k]
    BY <1>9, EndedLine
  <2>2. 3 \in 1..Len(z) /\ 3 \in 1..Len(w)
    BY <1>9, <2>1
  <2> HIDE DEF w
  <2>3. \A k \in 1..Len(w) : (w \o EOL)[k] = w[k]
    BY <2>1, EndedLine
  <2> QED
    BY <1>9, <2>1, <2>2, <2>3 DEF w
<1>11. PrefetchRequest(link) = (z \o EOL) \o EOL
  BY <1>1 DEF z, y, x
<1> QED
  BY <1>10, <1>11 DEF third, within

\* strchr finds the first.
LEMMA FoundFirst ==
  ASSUME NEW S, NEW text \in Seq(S), NEW symbol, NEW i \in Nat, Find(text, symbol, i) # 0
  PROVE  /\ Find(text, symbol, i) \in i..Len(text) /\ text[Find(text, symbol, i)] = symbol
         /\ \A k \in i .. Find(text, symbol, i) - 1 : text[k] # symbol
<1> DEFINE at == {k \in i..Len(text) : text[k] = symbol}
           m == Min(at)
<1>1. at \subseteq Nat /\ \A k : k \in at <=> k \in i..Len(text) /\ text[k] = symbol
  OBVIOUS
<1>2. Find(text, symbol, i) = IF at = {} THEN 0 ELSE m
  BY DEF Find
<1> HIDE DEF at
<1>3. at # {}
  BY <1>2
<1>4. PICK x \in at : \A y \in at : x <= y
  BY <1>1, <1>3, Smallest
<1>5. m = x
  BY <1>1, <1>4, MinIs
<1> HIDE DEF m
<1>6. m \in i..Len(text) /\ text[m] = symbol
  BY <1>1, <1>4, <1>5
<1>7. \A k \in i .. m - 1 : text[k] # symbol
  <2>1. ASSUME NEW k \in i .. m - 1, text[k] = symbol
        PROVE  FALSE
    <3>1. k \in i..Len(text) /\ k < m
      BY <1>6, <2>1
    <3>2. m <= k
      BY <1>1, <1>4, <1>5, <2>1, <3>1
    <3> QED
      BY <1>6, <3>1, <3>2
  <2> QED
    BY <2>1
<1> QED
  BY <1>2, <1>3, <1>6, <1>7

\* What find_href finds is a text.
LEMMA LinkIsText ==
  ASSUME NEW buffer \in Seq(STRING), NEW size \in Nat
  PROVE  find_href(buffer, size).link \in Seq(STRING)
<1> DEFINE href  == Find(buffer, "href=", 1)
           quote == Find(buffer, "\"", href + 2)
           link  == SubSeq(buffer, href + 2, quote - 1)
           found == find_href(buffer, size)
<1>1. href \in Nat
  BY FindType
<1>2. found = IF href = 0 THEN [result |-> "CONTINUE", link |-> <<>>, moved |-> size]
              ELSE IF quote = 0 THEN [result |-> "FAIL", link |-> <<>>, moved |-> size]
              ELSE [result |-> "SUCCESS", link |-> link, moved |-> quote - 1]
  BY DEF find_href
<1>3. quote # 0 => quote \in href + 2 .. Len(buffer)
  <2> HIDE DEF href
  <2>1. href + 2 \in Nat
    BY <1>1
  <2> QED
    BY <2>1, FoundFirst
<1> HIDE DEF href, quote
<1>4. quote # 0 => link \in Seq(STRING)
  BY <1>1, <1>3
<1> HIDE DEF link, found
<1>5. found.link \in Seq(STRING)
  <2>1. <<>> \in Seq(STRING)
    OBVIOUS
  <2>2. found.link = <<>> \/ (quote # 0 /\ found.link = link)
    BY <1>2, Zenon
  <2> QED
    BY <1>4, <2>1, <2>2, Zenon
<1> QED
  BY <1>5 DEF found

\* A page is fetched from a host that was resolved, its links are dispatched
\* once it has been, and the jobs have URLs.
PrefetchInv ==
  /\ stage = "queued" => jobs = {}
  /\ stage \in {"fetch", "relay", "scan"} \/ jobs # {} => target.host \in OkHosts
  /\ jobs # {} => page # NoPage
  /\ \A job \in jobs : job[3] = HTTP

\* process_job resolves the host first.
LEMMA VisitReadsResolves ==
  ASSUME PrefetchInv, VisitReads, UNCHANGED <<transfer, scanning>>
  PROVE  PrefetchInv'
<1> DEFINE parsed == parse_request_string(Arrived(tail'))
<1>1. jobs = {} /\ jobs' = {} /\ Process(parsed)
  BY DEF VisitReads, PrefetchInv, scanning
<1> HIDE DEF parsed
<1>2. \/ stage' \in {"queued", "ended", "crashed"}
      \/ stage' = "fetch" /\ target'.host \in OkHosts
  <2>1. CASE parsed.outcome \in {"DOT_ZERO", "DOT_ONE"} /\ Serve(parsed)
    <3>1. CASE /\ resolve_host(parsed.host) = "ok" /\ stage' = "fetch"
               /\ target' = [host |-> parsed.host, path |-> parsed.path]
      BY <3>1 DEF resolve_host
    <3> QED
      BY <2>1, <3>1 DEF Serve, Answers
  <2>2. CASE parsed.outcome = "FAIL" /\ UNCHANGED stage
    BY <2>2 DEF VisitReads
  <2> QED
    BY <1>1, <2>1, <2>2 DEF Process, Answers
<1> QED
  BY <1>1, <1>2 DEF PrefetchInv

\* Only links with a scheme or within the host are dispatched.
LEMMA ScanBlockDispatches ==
  ASSUME IInv, PrefetchInv, ScanBlock
  PROVE  PrefetchInv'
<1>1. /\ stage = "scan" /\ stage' = stage /\ page # NoPage /\ page' = page
      /\ target' = target /\ target.host \in OkHosts
  BY DEF ScanBlock, connection, transfer, IInv, Fetched, PrefetchInv
<1>2. PICK rest \in Memory :
        LET found == find_href(Block \o rest, Len(Block))
        IN IF found.result = "SUCCESS" THEN Dispatch(found.link) ELSE UNCHANGED jobs
  BY DEF ScanBlock, Found
<1> DEFINE link == find_href(Block \o rest, Len(Block)).link
<1>3. link \in Seq(Letters)
  <2>1. Block \in Seq(STRING)
    <3>1. file \in Seq(STRING) /\ pos \in Nat /\ pos < Len(file) /\ MAX_URL_SIZE \in Nat
      BY ConnectionAssumption DEF ScanBlock, IInv, PageTypes
    <3> QED
      BY <3>1 DEF Block
  <2>2. Block \o rest \in Seq(STRING) /\ Len(Block) \in Nat
    BY <2>1, ExchangeAssumption
  <2>3. link \in Seq(STRING)
    BY <2>2, LinkIsText
  <2> QED
    BY <2>3, LettersOfRequests
<1>4. target.host \in Seq(Letters)
  BY <1>1, RequestsAssumption, LettersOfRequests
<1> HIDE DEF link
<1>5. jobs' \subseteq jobs \cup {PrefetchRequest(link)}
      /\ (jobs' = jobs \/ matches_command(link, "/") \/ matches_command(link, "http://"))
  BY <1>2 DEF Dispatch, link
<1>6. matches_command(link, "/") \/ matches_command(link, "http://") =>
        PrefetchRequest(link)[3] = HTTP
  BY <1>3, <1>4, PrefetchThird DEF matches_command, HTTP
<1>7. \A job \in jobs' : job[3] = HTTP
  BY <1>5, <1>6 DEF PrefetchInv
<1> QED
  BY <1>1, <1>7 DEF PrefetchInv

\* All steps together.
LEMMA StepsDispatch ==
  ASSUME IInv, PrefetchInv, [Next]_vars
  PROVE  PrefetchInv'
<1>1. CASE ProcessJob
  <2>1. CASE VisitExpired \/ VisitHangup \/ VisitNothing
    BY <1>1, <2>1 DEF ProcessJob, VisitExpired, VisitHangup, VisitNothing, Terminates, connection,
         transfer, scanning, PrefetchInv
  <2> QED
    BY <1>1, <2>1, VisitReadsResolves DEF ProcessJob, Visit
<1>2. CASE Client \/ Clock
  BY <1>2 DEF Client, ClientSends, ClientLeaves, Clock, SecondPasses, transfer, scanning, PrefetchInv
<1>3. CASE FirstRecv
  <2>1. /\ page' # NoPage /\ jobs' = jobs /\ target' = target
        /\ stage = "fetch" /\ stage' = "relay"
    BY <1>3, ExchangeAssumption DEF FirstRecv, connection, scanning
  <2> QED
    BY <2>1 DEF PrefetchInv
<1>4. CASE ServerUnreachable \/ NextRecv \/ Spins \/ Relayed \/ ScanEnds
  BY <1>4 DEF ServerUnreachable, NextRecv, Spins, Relayed, ScanEnds, connection, transfer, scanning, PrefetchInv
<1>5. CASE UNCHANGED vars
  BY <1>5 DEF vars, connection, transfer, scanning, PrefetchInv
<1> QED
  BY <1>1, <1>2, <1>3, <1>4, <1>5, ScanBlockDispatches DEF Next, Over, Fetch, Relay, Scan

\* PrefetchInv is an invariant.
LEMMA PrefetchInvariant == Spec => []PrefetchInv
<1>1. Init => PrefetchInv
  BY DEF Init, InitConnection, PrefetchInv
<1>2. IInv /\ PrefetchInv /\ [Next]_vars => PrefetchInv'
  BY StepsDispatch
<1> QED
  BY <1>1, <1>2, InductiveInvariant, PTL DEF Spec

\* What a prefetch worker makes of such a job.
LEMMA PrefetchIsParsed ==
  ASSUME NEW host, IsHost(host), NEW path, IsPath(path)
  PROVE  LET parsed == parse_request_string(Text(RequestOf(host, path)))
         IN IF path = <<>> THEN parsed.outcome = "crash"
            ELSE /\ parsed.outcome = "DOT_ONE" /\ parsed.isGet
                 /\ parsed.host = host /\ parsed.path = CopiedPath(path)
<1> DEFINE r == RequestOf(host, path)
           text == Text(r)
           n == Len(text)
           parsed == parse_request_string(text)
           seen == parse_request_string(SubSeq(text, 1, n))
<1>1. r \in LetterRequests /\ WellFormed(r)
  BY PrefetchIsRequest
<1>2. /\ r.method = "GET" /\ r.scheme = <<"http://">> /\ r.host = host /\ r.path = path
      /\ r.version = "HTTP/1.1" /\ SameHost(r) /\ ~ BlankHost(r)
  BY DEF RequestOf, SameHost, BlankHost
<1> HIDE DEF r
<1>3. text \in Seq(Letters) /\ n \in Len(RequestLine(r)) .. n
  <2>1. RequestLine(r) \in Seq(Letters) /\ HeaderLines(r) \in Seq(Letters)
    BY <1>1, EndOfLine, HeaderPositions
  <2>2. text \in Seq(Letters) /\ n = Len(RequestLine(r)) + Len(HeaderLines(r))
    BY <2>1, Joined DEF Text
  <2>3. Len(RequestLine(r)) \in Nat /\ Len(HeaderLines(r)) \in Nat
    BY <2>1
  <2> HIDE DEF n
  <2> QED
    BY <2>2, <2>3
<1>4. SubSeq(text, 1, n) = text
  <2>1. text \in Seq(Letters)
    BY <1>3
  <2> HIDE DEF text
  <2> QED
    BY <2>1
<1>5. /\ r.version \in {"HTTP/1.1", "HTTP/1.0"} =>
           IF r.method \notin OtherMethods \cup {"GET"} THEN seen.outcome = "MALFORMED"
           ELSE IF r.scheme # <<"http://">>
           THEN seen.outcome = "MALFORMED" \/ (seen.outcome = "crash" /\ BlankHost(r))
           ELSE r.path = <<>> => seen.outcome = "crash"
      /\ Served(r) =>
           \/ seen.outcome = "crash" /\ BlankHost(r)
           \/ /\ seen.outcome = http_version(r.version)
              /\ seen.isGet = (r.method = "GET")
              /\ seen.path = CopiedPath(r.path)
              /\ SameHost(r) => seen.host = r.host
  BY <1>1, <1>3, ParserIsRight
<1>6. seen = parsed
  BY <1>4
<1> HIDE DEF seen, parsed, text
<1>7. path = <<>> => parsed.outcome = "crash"
  BY <1>2, <1>5, <1>6
<1>8. path # <<>> =>
        /\ parsed.outcome = "DOT_ONE" /\ parsed.isGet
        /\ parsed.host = host /\ parsed.path = CopiedPath(path)
  BY <1>2, <1>5, <1>6 DEF Served, http_version
<1> QED
  BY <1>7, <1>8 DEF parsed, text, r

\* So each prefetch job for a link of the page asks for what the link names, as
\* far as MAX_URL_SIZE lets it; one for a host alone is a request that the
\* process does not survive.
THEOREM PrefetchesNameLinks == Spec => []PrefetchesAreRight
<1>1. ASSUME IInv, PrefetchInv
      PROVE  PrefetchesAreRight
  <2> SUFFICES ASSUME jobs # {}, NEW i \in DOMAIN page.links,
                      PrefetchRequest(LinkText(page.links[i])) \in jobs
               PROVE  LET link   == page.links[i]
                          parsed == parse_request_string(PrefetchRequest(LinkText(link)))
                      IN IF link.path = <<>> THEN parsed.outcome = "crash"
                         ELSE /\ parsed.outcome = "DOT_ONE" /\ parsed.isGet
                              /\ parsed.host = (IF link.host = <<>> THEN target.host ELSE link.host)
                              /\ parsed.path = StripSlash(Cut(link.path, 1, MAX_URL_SIZE))
    BY DEF PrefetchesAreRight
  <2> DEFINE link == page.links[i]
             text == LinkText(link)
             host == IF link.host = <<>> THEN target.host ELSE link.host
             path == link.path
  <2>1. page \in Pages
    BY <1>1 DEF IInv, PageTypes, PrefetchInv
  <2>2. link \in [host : Seq(STRING), path : Seq(STRING)] /\ IsLink(link)
    <3>1. page.links \in Seq([host : Seq(STRING), path : Seq(STRING)])
          /\ \A j \in DOMAIN page.links : IsLink(page.links[j])
      BY <2>1, LinksAssumption
    <3>2. page.links[i] \in [host : Seq(STRING), path : Seq(STRING)]
      <4> DEFINE links == page.links
                 Links == [host : Seq(STRING), path : Seq(STRING)]
      <4>1. links \in Seq(Links) /\ i \in DOMAIN links
        BY <3>1
      <4> HIDE DEF links, Links
      <4>2. links[i] \in Links
        BY <4>1
      <4> QED
        BY <4>2 DEF links, Links
    <3> QED
      BY <3>1, <3>2
  <2>3. IsHost(target.host) /\ target.host \in Seq(Letters)
    BY <1>1, RequestsAssumption, LettersOfRequests DEF PrefetchInv, IsHost
  <2>4. /\ IsHost(link.host) /\ link.host \in Seq(Letters) /\ path \in Seq(Letters)
        /\ (link.host # <<>> \/ path = <<>> \/ Head(path) = "/") => IsPath(path)
        /\ path # <<>> /\ link.host = <<>> => Head(path) # HTTP
    <3>1. link.host \in Seq(Letters) /\ path \in Seq(Letters)
      BY <2>2, LettersOfRequests
    <3> QED
      BY <2>2, <3>1 DEF IsLink, IsHost, IsPath, HTTP
  <2>5. PrefetchRequest(text)[3] = HTTP
    BY <1>1 DEF PrefetchInv
  <2> HIDE DEF link
  <2>6. text = IF link.host = <<>> THEN path ELSE (<<HTTP>> \o link.host) \o path
    BY Zenon DEF LinkText, HTTP
  <2>7. PrefetchRequest(text) = Text(RequestOf(host, path)) /\ IsPath(path)
    <3> DEFINE version == "HTTP/1.1"
               get == "GET"
               end == <<SP, version>>
    <3>1. PrefetchRequest(text) =
            ((((<<get, SP>> \o (IF text # <<>> /\ Head(text) = "/" THEN <<HTTP>> \o target.host ELSE <<>>))
               \o text) \o end) \o EOL) \o EOL
      BY Zenon DEF PrefetchRequest, OrNothing, matches_command, SP, HTTP
    <3>2. CASE link.host = <<>>
      <4>1. text \in Seq(Letters) /\ text = path
        BY <2>4, <2>6, <3>2
      <4>2. text # <<>> /\ Head(text) = "/"
        <5>1. IF text = <<>> THEN SP = HTTP ELSE (Head(text) = "/" \/ Head(text) = HTTP)
          BY <2>3, <2>5, <4>1, PrefetchThird
        <5>2. SP # HTTP
          BY DEF SP, HTTP
        <5> QED
          BY <2>4, <3>2, <4>1, <5>1, <5>2
      <4>3. PrefetchRequest(text) =
              ((((<<get, SP>> \o (<<HTTP>> \o target.host)) \o path) \o end) \o EOL) \o EOL
        BY <3>1, <4>1, <4>2
      <4>4. Text(RequestOf(target.host, path)) =
              ((((<<get, SP>> \o (<<HTTP>> \o target.host)) \o path) \o end) \o EOL) \o EOL
        BY <2>3, <2>4, PrefetchText
      <4> QED
        BY <2>4, <3>2, <4>1, <4>2, <4>3, <4>4
    <3>3. CASE link.host # <<>>
      <4> DEFINE front == <<HTTP>> \o link.host
      <4>1. /\ HTTP \in Letters /\ SP \in Letters /\ get \in Letters
        BY LettersOfRequests
      <4> HIDE DEF get, version
      <4>2. front \in Seq(Letters) /\ Len(front) = 1 + Len(link.host) /\ front[1] = HTTP
        BY <2>4, <4>1, Preceded
      <4>3. text = front \o path
        BY <2>6, <3>3
      <4> HIDE DEF front, text
      <4>4. /\ text \in Seq(Letters) /\ Len(text) = Len(front) + Len(path)
            /\ \A k \in 1..Len(front) : text[k] = front[k]
        <5>1. front \in Seq(Letters) /\ path \in Seq(Letters)
          BY <2>4, <4>2
        <5> HIDE DEF path
        <5> QED
          BY <5>1, <4>3, Joined
      <4>5. text # <<>> /\ Head(text) = HTTP
        <5> DEFINE name == link.host
        <5>0. name \in Seq(Letters) /\ path \in Seq(Letters) /\ Len(front) = 1 + Len(name)
          BY <2>4, <4>2
        <5> HIDE DEF name, path
        <5>1. Len(name) \in Nat /\ Len(path) \in Nat
          BY <5>0
        <5>2. Len(text) >= 1 /\ 1 \in 1..Len(front)
          BY <4>4, <5>0, <5>1
        <5>3. text[1] = HTTP
          BY <4>2, <4>4, <5>2
        <5> QED
          BY <4>4, <5>2, <5>3
      <4>6. Head(text) # "/"
        BY <4>5 DEF HTTP
      <4>7. PrefetchRequest(text) = (((<<get, SP>> \o text) \o end) \o EOL) \o EOL
        <5>1. <<get, SP>> \o <<>> = <<get, SP>>
          BY <4>1
        <5> QED
          BY <3>1, <4>6, <5>1
      <4>8. Text(RequestOf(link.host, path)) =
              (((<<get, SP>> \o (front \o path)) \o end) \o EOL) \o EOL
        BY <2>4, PrefetchText DEF front, get, version
      <4> QED
        BY <2>4, <3>3, <4>3, <4>7, <4>8 DEF text
    <3> QED
      BY <3>2, <3>3
  <2>8. IsHost(host)
    BY <2>3, <2>4
  <2> HIDE DEF text, host, path
  <2>9. LET parsed == parse_request_string(Text(RequestOf(host, path)))
        IN IF path = <<>> THEN parsed.outcome = "crash"
           ELSE /\ parsed.outcome = "DOT_ONE" /\ parsed.isGet
                /\ parsed.host = host /\ parsed.path = CopiedPath(path)
    BY <2>7, <2>8, PrefetchIsParsed
  <2> QED
    BY <2>7, <2>9 DEF text, host, path, link, CopiedPath
<1> QED
  BY <1>1, InductiveInvariant, PrefetchInvariant, PTL

-----------------------------------------------------------------------------
(* Where the links of a page are *)

HREF == "href="
QUOTE == "\""

\* A link from s to e: no other begins in it, and its name is link.
LinkAt(text, s, e) ==
  /\ text[s] = HREF /\ text[e] = QUOTE
  /\ \A k \in s + 2 .. e - 1 : text[k] # QUOTE
  /\ \A k \in s + 1 .. e : text[k] # HREF

\* All links of a text end.
Linked(text) ==
  \A s \in 1..Len(text) : text[s] = HREF =>
    \E e \in s + 2 .. Len(text) : LinkAt(text, s, e)

\* One of them has this name.
Shows(text, link) ==
  \E s \in 1..Len(text) : \E e \in s + 2 .. Len(text) :
    /\ LinkAt(text, s, e)
    /\ e = s + 2 + Len(link) /\ \A k \in 1..Len(link) : text[s + 1 + k] = link[k]

\* A link stays one when a text is put before it or behind it.
LEMMA LinkIsJoined ==
  ASSUME NEW S, NEW text \in Seq(S), NEW more \in Seq(S)
  PROVE  /\ \A s \in 1..Len(text) : \A e \in s + 2 .. Len(text) :
              LinkAt(text, s, e) => LinkAt(text \o more, s, e)
         /\ \A s \in 1..Len(more) : \A e \in s + 2 .. Len(more) :
              LinkAt(more, s, e) => LinkAt(text \o more, Len(text) + s, Len(text) + e)
<1> DEFINE both == text \o more
           n == Len(text)
<1>1. /\ both \in Seq(S) /\ Len(both) = n + Len(more)
      /\ \A k \in 1..n : both[k] = text[k]
      /\ \A k \in 1..Len(more) : both[n + k] = more[k]
      /\ n \in Nat /\ Len(more) \in Nat
  BY Joined
<1> HIDE DEF both
<1>2. ASSUME NEW s \in 1..n, NEW e \in s + 2 .. n, LinkAt(text, s, e)
      PROVE  LinkAt(both, s, e)
  <2>1. \A k \in s..e : k \in 1..n /\ both[k] = text[k]
    BY <1>1
  <2>2. \A k \in s + 2 .. e - 1 : k \in s..e
    BY <1>1
  <2>3. \A k \in s + 1 .. e : k \in s..e
    BY <1>1
  <2>4. s \in s..e /\ e \in s..e
    BY <1>1
  <2> HIDE DEF n
  <2> QED
    BY <1>2, <2>1, <2>2, <2>3, <2>4 DEF LinkAt
<1>3. ASSUME NEW s \in 1..Len(more), NEW e \in s + 2 .. Len(more), LinkAt(more, s, e)
      PROVE  LinkAt(both, n + s, n + e)
  <2> HIDE DEF n
  <2>1. ASSUME NEW k \in n + s .. n + e
        PROVE  k - n \in s..e /\ both[k] = more[k - n]
    <3>1. k - n \in s..e /\ k - n \in 1..Len(more) /\ n + (k - n) = k
      BY <1>1
    <3>2. both[n + (k - n)] = more[k - n]
      BY <1>1, <3>1
    <3> QED
      BY <3>1, <3>2
  <2>2. both[n + s] = HREF /\ both[n + e] = QUOTE
    <3>1. s \in 1..Len(more) /\ e \in 1..Len(more)
      BY <1>1
    <3>2. both[n + s] = more[s] /\ both[n + e] = more[e]
      BY <1>1, <3>1
    <3> QED
      BY <1>3, <3>2 DEF LinkAt
  <2>3. ASSUME NEW k \in n + s + 2 .. n + e - 1
        PROVE  both[k] # QUOTE
    <3>1. k \in n + s .. n + e /\ k - n \in s + 2 .. e - 1
      BY <1>1
    <3> QED
      BY <1>3, <2>1, <3>1 DEF LinkAt
  <2>4. ASSUME NEW k \in n + s + 1 .. n + e
        PROVE  both[k] # HREF
    <3>1. k \in n + s .. n + e /\ k - n \in s + 1 .. e
      BY <1>1
    <3> QED
      BY <1>3, <2>1, <3>1 DEF LinkAt
  <2> DEFINE i == n + s
             j == n + e
  <2>5. /\ both[i] = HREF /\ both[j] = QUOTE
        /\ \A k \in i + 2 .. j - 1 : both[k] # QUOTE
        /\ \A k \in i + 1 .. j : both[k] # HREF
    <3>1. n \in Nat /\ s \in Nat /\ e \in Nat
      BY <1>1
    <3> QED
      BY <2>2, <2>3, <2>4, <3>1
  <2> HIDE DEF i, j
  <2>6. LinkAt(both, i, j)
    BY <2>5 DEF LinkAt
  <2> QED
    BY <2>6 DEF i, j
<1> QED
  BY <1>2, <1>3 DEF both, n

\* So the links of two texts are those of the text they make.
LEMMA LinksAreJoined ==
  ASSUME NEW S, NEW text \in Seq(S), NEW more \in Seq(S), Linked(text), Linked(more)
  PROVE  Linked(text \o more)
<1> DEFINE both == text \o more
           n == Len(text)
           m == Len(more)
<1>1. /\ both \in Seq(S) /\ Len(both) = n + m
      /\ \A k \in 1..n : both[k] = text[k]
      /\ \A k \in 1..m : both[n + k] = more[k]
      /\ n \in Nat /\ m \in Nat
  BY Joined
<1>2. /\ \A s \in 1..n : \A e \in s + 2 .. n : LinkAt(text, s, e) => LinkAt(both, s, e)
      /\ \A s \in 1..m : \A e \in s + 2 .. m : LinkAt(more, s, e) => LinkAt(both, n + s, n + e)
  BY LinkIsJoined
<1>3. /\ \A s \in 1..n : text[s] = HREF => \E e \in s + 2 .. n : LinkAt(text, s, e)
      /\ \A s \in 1..m : more[s] = HREF => \E e \in s + 2 .. m : LinkAt(more, s, e)
  BY DEF Linked
<1> HIDE DEF both, n, m
<1>4. ASSUME NEW s \in 1 .. n + m, both[s] = HREF
      PROVE  \E e \in s + 2 .. n + m : LinkAt(both, s, e)
  <2>1. CASE s <= n
    <3>1. s \in 1..n /\ text[s] = HREF
      BY <1>1, <1>4, <2>1
    <3>2. PICK e \in s + 2 .. n : LinkAt(text, s, e)
      BY <1>3, <3>1
    <3>3. e \in s + 2 .. n + m
      BY <1>1, <3>1, <3>2
    <3> QED
      BY <1>2, <3>1, <3>2, <3>3
  <2>2. CASE s > n
    <3>1. s - n \in 1..m /\ n + (s - n) = s
      BY <1>1, <2>2
    <3>2. more[s - n] = HREF
      BY <1>1, <1>4, <3>1
    <3>3. PICK e \in s - n + 2 .. m : LinkAt(more, s - n, e)
      BY <1>3, <3>1, <3>2
    <3>4. LinkAt(both, n + (s - n), n + e)
      BY <1>2, <3>1, <3>3
    <3>5. n + e \in s + 2 .. n + m
      BY <1>1, <3>1, <3>3
    <3> QED
      BY <3>1, <3>4, <3>5
  <2> QED
    BY <1>1, <2>1, <2>2
<1> QED
  BY <1>1, <1>4 DEF both, Linked

\* What a text shows, it still shows with another before or behind it.
LEMMA NamesAreJoined ==
  ASSUME NEW S, NEW text \in Seq(S), NEW more \in Seq(S), NEW link \in Seq(S)
  PROVE  Shows(text, link) \/ Shows(more, link) => Shows(text \o more, link)
<1> DEFINE both == text \o more
           n == Len(text)
           m == Len(more)
           l == Len(link)
<1>1. /\ both \in Seq(S) /\ Len(both) = n + m
      /\ \A k \in 1..n : both[k] = text[k]
      /\ \A k \in 1..m : both[n + k] = more[k]
      /\ n \in Nat /\ m \in Nat /\ l \in Nat
  BY Joined
<1>2. /\ \A s \in 1..n : \A e \in s + 2 .. n : LinkAt(text, s, e) => LinkAt(both, s, e)
      /\ \A s \in 1..m : \A e \in s + 2 .. m : LinkAt(more, s, e) => LinkAt(both, n + s, n + e)
  BY LinkIsJoined
<1>3. ASSUME Shows(text, link)
      PROVE  Shows(both, link)
  <2>1. PICK s \in 1..n : \E e \in s + 2 .. n :
          /\ LinkAt(text, s, e)
          /\ e = s + 2 + l /\ \A k \in 1..l : text[s + 1 + k] = link[k]
    BY <1>3 DEF Shows
  <2>2. PICK e \in s + 2 .. n :
          /\ LinkAt(text, s, e)
          /\ e = s + 2 + l /\ \A k \in 1..l : text[s + 1 + k] = link[k]
    BY <2>1
  <2> HIDE DEF both, n, m, l
  <2>3. \A k \in 1..l : s + 1 + k \in 1..n
    BY <1>1, <2>2
  <2>4. \A k \in 1..l : both[s + 1 + k] = link[k]
    BY <1>1, <2>2, <2>3
  <2>5. s \in 1 .. n + m /\ e \in s + 2 .. n + m
    BY <1>1, <2>2
  <2> QED
    BY <1>1, <1>2, <2>2, <2>4, <2>5 DEF Shows, l
<1>4. ASSUME Shows(more, link)
      PROVE  Shows(both, link)
  <2>1. PICK s \in 1..m : \E e \in s + 2 .. m :
          /\ LinkAt(more, s, e)
          /\ e = s + 2 + l /\ \A k \in 1..l : more[s + 1 + k] = link[k]
    BY <1>4 DEF Shows
  <2>2. PICK e \in s + 2 .. m :
          /\ LinkAt(more, s, e)
          /\ e = s + 2 + l /\ \A k \in 1..l : more[s + 1 + k] = link[k]
    BY <2>1
  <2> HIDE DEF both, n, m, l
  <2>3. ASSUME NEW k \in 1..l
        PROVE  both[n + s + 1 + k] = link[k]
    <3>1. s + 1 + k \in 1..m /\ n + (s + 1 + k) = n + s + 1 + k
      BY <1>1, <2>2
    <3>2. both[n + (s + 1 + k)] = more[s + 1 + k]
      BY <1>1, <3>1
    <3> QED
      BY <2>2, <3>1, <3>2
  <2>4. /\ n + s \in 1 .. n + m /\ n + e \in n + s + 2 .. n + m
        /\ n + e = n + s + 2 + l
    BY <1>1, <2>2
  <2>5. LinkAt(both, n + s, n + e)
    BY <1>2, <2>2
  <2> QED
    BY <1>1, <2>3, <2>4, <2>5 DEF Shows, l
<1> QED
  BY <1>3, <1>4 DEF both

\* A text without links.
LEMMA NoLinks ==
  ASSUME NEW text, \A k \in 1..Len(text) : text[k] # HREF
  PROVE  Linked(text)
BY DEF Linked

\* One with a single link, behind other symbols.
LEMMA OneLink ==
  ASSUME NEW S, NEW filler \in Seq(S), NEW link \in Seq(S), HREF \in S, QUOTE \in S,
         \A k \in 1..Len(filler) : filler[k] # HREF,
         \A k \in 1..Len(link) : link[k] # HREF /\ link[k] # QUOTE
  PROVE  LET text == ((filler \o <<HREF, QUOTE>>) \o link) \o <<QUOTE>>
         IN text \in Seq(S) /\ Linked(text) /\ Shows(text, link)
<1> DEFINE begin == <<HREF, QUOTE>>
           end == <<QUOTE>>
           x == filler \o begin
           y == x \o link
           text == y \o end
           g == Len(filler)
           l == Len(link)
           s == g + 1
           e == s + 2 + l
<1>1. /\ begin \in Seq(S) /\ Len(begin) = 2 /\ begin[1] = HREF /\ begin[2] = QUOTE
      /\ end \in Seq(S) /\ Len(end) = 1 /\ end[1] = QUOTE
  OBVIOUS
<1>2. HREF # QUOTE
  BY DEF HREF, QUOTE
<1> HIDE DEF begin, end
<1>3. begin \in Seq(S) /\ end \in Seq(S)
  BY <1>1
<1>4. /\ x \in Seq(S) /\ Len(x) = g + Len(begin)
      /\ \A k \in 1..g : x[k] = filler[k]
      /\ \A k \in 1..Len(begin) : x[g + k] = begin[k]
  BY <1>3, Joined
<1> HIDE DEF x
<1>5. /\ y \in Seq(S) /\ Len(y) = Len(x) + l
      /\ \A k \in 1..Len(x) : y[k] = x[k]
      /\ \A k \in 1..l : y[Len(x) + k] = link[k]
  <2>1. x \in Seq(S)
    BY <1>4
  <2> QED
    BY <2>1, Joined
<1> HIDE DEF y
<1>6. /\ text \in Seq(S) /\ Len(text) = Len(y) + Len(end)
      /\ \A k \in 1..Len(y) : text[k] = y[k]
      /\ \A k \in 1..Len(end) : text[Len(y) + k] = end[k]
  <2>1. y \in Seq(S) /\ end \in Seq(S)
    BY <1>3, <1>5
  <2> QED
    BY <2>1, Joined
<1>0. g \in Nat /\ l \in Nat
  OBVIOUS
<1> HIDE DEF text, g, l
<1>7. Len(x) = g + 2 /\ Len(y) = g + 2 + l /\ Len(text) = e /\ e = g + 3 + l
  BY <1>0, <1>1, <1>4, <1>5, <1>6
<1>8. \A k \in 1..g : text[k] = filler[k]
  <2>1. \A k \in 1..g : k \in 1..Len(x) /\ k \in 1..Len(y)
    BY <1>0, <1>7
  <2> QED
    BY <1>4, <1>5, <1>6, <2>1
<1>9. text[s] = HREF /\ text[s + 1] = QUOTE
  <2>1. /\ s \in 1..Len(x) /\ s \in 1..Len(y) /\ s + 1 \in 1..Len(x) /\ s + 1 \in 1..Len(y)
        /\ s + 1 = g + 2 /\ 1 \in 1..Len(begin) /\ 2 \in 1..Len(begin)
    BY <1>0, <1>1, <1>7
  <2>2. x[g + 1] = HREF /\ x[g + 2] = QUOTE
    BY <1>1, <1>4, <2>1
  <2> QED
    BY <1>5, <1>6, <2>1, <2>2
<1>10. \A k \in 1..l : text[s + 1 + k] = link[k]
  <2> SUFFICES ASSUME NEW k \in 1..l
               PROVE  text[s + 1 + k] = link[k]
    OBVIOUS
  <2>1. s + 1 + k = Len(x) + k /\ s + 1 + k \in 1..Len(y)
    BY <1>0, <1>7
  <2> QED
    BY <1>5, <1>6, <2>1
<1>11. text[e] = QUOTE
  <2>1. 1 \in 1..Len(end) /\ Len(y) + 1 = e
    BY <1>0, <1>1, <1>7
  <2> QED
    BY <1>1, <1>6, <2>1
<1>12. s \in Nat /\ e \in Nat /\ s \in 1..e /\ e \in s + 2 .. e
  BY <1>0
<1>13. ASSUME NEW k \in s + 2 .. e - 1
       PROVE  text[k] # QUOTE /\ text[k] # HREF
  <2>1. k - s - 1 \in 1..l /\ s + 1 + (k - s - 1) = k
    BY <1>0
  <2>2. text[s + 1 + (k - s - 1)] = link[k - s - 1]
    BY <1>10, <2>1
  <2>3. link[k - s - 1] # QUOTE /\ link[k - s - 1] # HREF
    BY <2>1 DEF l
  <2> QED
    BY <2>1, <2>2, <2>3
<1>14. LinkAt(text, s, e)
  <2>1. ASSUME NEW k \in s + 1 .. e
        PROVE  text[k] # HREF
    <3>1. k = s + 1 \/ k \in s + 2 .. e - 1 \/ k = e
      BY <1>12
    <3> QED
      BY <1>2, <1>9, <1>11, <1>13, <3>1
  <2>2. \A k \in s + 2 .. e - 1 : text[k] # QUOTE
    BY <1>13
  <2> HIDE DEF s, e
  <2> QED
    BY <1>9, <1>11, <2>1, <2>2 DEF LinkAt
<1>15. Shows(text, link)
  <2>1. e = s + 2 + Len(link) /\ \A k \in 1..Len(link) : text[s + 1 + k] = link[k]
    BY <1>10 DEF l
  <2> HIDE DEF s, e
  <2> QED
    BY <1>7, <1>12, <1>14, <2>1 DEF Shows
<1>16. Linked(text)
  <2> SUFFICES ASSUME NEW i \in 1..e, text[i] = HREF
               PROVE  \E j \in i + 2 .. e : LinkAt(text, i, j)
    BY <1>7 DEF Linked
  <2>1. i \notin 1..g
    BY <1>8 DEF g
  <2>2. i = s \/ i \in s + 1 .. e
    BY <1>0, <1>12, <2>1
  <2>3. i = s
    BY <1>14, <2>2 DEF LinkAt
  <2> HIDE DEF s, e
  <2> QED
    BY <1>12, <1>14, <2>3
<1> QED
  BY <1>6, <1>15, <1>16 DEF text, y, x, begin, end

\* FlattenSeq joins them one by one.
LEMMA FlattenExists ==
  ASSUME NEW seqs, NEW n \in Nat
  PROVE  \E f : f = [i \in 1..n |-> IF i = 1 THEN seqs[i] ELSE f[i - 1] \o seqs[i]]
<1> DEFINE Is(f, m) == f = [i \in 1..m |-> IF i = 1 THEN seqs[i] ELSE f[i - 1] \o seqs[i]]
           without == {m \in Nat : ~ \E f : Is(f, m)}
<1>1. SUFFICES ASSUME without # {}
               PROVE  FALSE
  OBVIOUS
<1>2. PICK m \in without : \A k \in without : m <= k
  <2>1. without \subseteq Nat
    OBVIOUS
  <2> HIDE DEF without
  <2> QED
    BY <1>1, <2>1, Smallest
<1>3. m # 0
  <2> DEFINE f == [i \in {} |-> i]
  <2>1. Is(f, 0)
    OBVIOUS
  <2> QED
    BY <2>1
<1>4. m - 1 \in Nat /\ m - 1 \notin without
  <2>1. m \in Nat
    OBVIOUS
  <2>2. m - 1 \in Nat /\ ~ (m <= m - 1)
    BY <1>3, <2>1
  <2> HIDE DEF without
  <2> QED
    BY <1>2, <2>2
<1>5. PICK f : Is(f, m - 1)
  BY <1>4
<1> DEFINE g == [i \in 1..m |-> IF i = 1 THEN seqs[i] ELSE f[i - 1] \o seqs[i]]
<1>6. \A i \in 1 .. m - 1 : g[i] = f[i]
  <2>1. \A i \in 1 .. m - 1 : f[i] = IF i = 1 THEN seqs[i] ELSE f[i - 1] \o seqs[i]
    BY <1>5
  <2>2. \A i \in 1 .. m - 1 : i \in 1..m
    BY <1>4
  <2> QED
    BY <2>1, <2>2
<1>7. Is(g, m)
  <2>1. \A i \in 1..m : i # 1 => i - 1 \in 1 .. m - 1
    BY <1>4
  <2>2. \A i \in 1..m :
          g[i] = IF i = 1 THEN seqs[i] ELSE f[i - 1] \o seqs[i]
    OBVIOUS
  <2>3. \A i \in 1..m :
          (IF i = 1 THEN seqs[i] ELSE f[i - 1] \o seqs[i]) =
          (IF i = 1 THEN seqs[i] ELSE g[i - 1] \o seqs[i])
    <3> HIDE DEF g
    <3> QED
      BY <1>6, <2>1
  <2> QED
    BY <2>3
<1>8. m \notin without
  BY <1>7
<1> QED
  BY <1>8

\* So a text that is put together from texts with a link each has all of them.
LEMMA FlattenShows ==
  ASSUME NEW S, NEW seqs, NEW names, Len(seqs) \in Nat \ {0},
         \A i \in 1..Len(seqs) :
           /\ seqs[i] \in Seq(S) /\ Linked(seqs[i])
           /\ names[i] \in Seq(S) /\ Shows(seqs[i], names[i])
  PROVE  /\ FlattenSeq(seqs) \in Seq(S) /\ Linked(FlattenSeq(seqs))
         /\ \A i \in 1..Len(seqs) : Shows(FlattenSeq(seqs), names[i])
<1> DEFINE n == Len(seqs)
           F == CHOOSE f : f = [i \in 1..n |-> IF i = 1 THEN seqs[i] ELSE f[i - 1] \o seqs[i]]
           Good(m) == /\ F[m] \in Seq(S) /\ Linked(F[m])
                      /\ \A i \in 1..m : Shows(F[m], names[i])
           bad == {m \in 1..n : ~Good(m)}
<1>1. FlattenSeq(seqs) = F[n]
  BY DEF FlattenSeq
<1>2. F = [i \in 1..n |-> IF i = 1 THEN seqs[i] ELSE F[i - 1] \o seqs[i]]
  <2>1. \E f : f = [i \in 1..n |-> IF i = 1 THEN seqs[i] ELSE f[i - 1] \o seqs[i]]
    BY FlattenExists
  <2> QED
    BY <2>1
<1> HIDE DEF F
<1>3. ASSUME bad # {}
      PROVE  FALSE
  <2>1. PICK m \in bad : \A k \in bad : m <= k
    <3>1. bad \subseteq Nat
      OBVIOUS
    <3> HIDE DEF bad
    <3> QED
      BY <1>3, <3>1, Smallest
  <2>2. m \in 1..n /\ ~Good(m)
    OBVIOUS
  <2>3. /\ seqs[m] \in Seq(S) /\ Linked(seqs[m])
        /\ names[m] \in Seq(S) /\ Shows(seqs[m], names[m])
    BY <2>2
  <2>4. F[m] = IF m = 1 THEN seqs[m] ELSE F[m - 1] \o seqs[m]
    BY <1>2, <2>2
  <2>5. CASE m = 1
    <3>1. F[m] = seqs[m] /\ \A i \in 1..m : i = m
      BY <2>4, <2>5
    <3> QED
      BY <2>2, <2>3, <3>1
  <2>6. CASE m # 1
    <3>1. m - 1 \in 1..n /\ m - 1 \notin bad
      <4>1. m - 1 \in 1..n /\ ~ (m <= m - 1)
        BY <2>2, <2>6
      <4> HIDE DEF bad
      <4> QED
        BY <2>1, <4>1
    <3>2. Good(m - 1)
      BY <3>1
    <3>3. F[m] = F[m - 1] \o seqs[m]
      BY <2>4, <2>6
    <3> DEFINE before == F[m - 1]
    <3>4. before \in Seq(S) /\ Linked(before) /\ \A i \in 1 .. m - 1 : Shows(before, names[i])
      BY <3>2
    <3> HIDE DEF before, bad, Good
    <3>5. F[m] \in Seq(S) /\ Linked(F[m])
      <4>1. F[m] = before \o seqs[m]
        BY <3>3 DEF before
      <4>2. before \o seqs[m] \in Seq(S)
        BY <2>3, <3>4, Joined
      <4>3. Linked(before \o seqs[m])
        BY <2>3, <3>4, LinksAreJoined
      <4> QED
        BY <4>1, <4>2, <4>3
    <3>6. ASSUME NEW i \in 1..m
          PROVE  Shows(F[m], names[i])
      <4>1. i = m \/ i \in 1 .. m - 1
        BY <2>2
      <4>2. names[i] \in Seq(S)
        BY <2>2
      <4>3. Shows(before, names[i]) \/ Shows(seqs[m], names[i])
        BY <2>3, <3>4, <4>1
      <4>4. Shows(before \o seqs[m], names[i])
        BY <2>3, <3>4, <4>2, <4>3, NamesAreJoined
      <4> QED
        BY <3>3, <4>4 DEF before
    <3> QED
      BY <2>2, <3>5, <3>6 DEF Good
  <2> QED
    BY <2>5, <2>6
<1>4. Good(n)
  BY <1>3
<1> QED
  BY <1>1, <1>4

\* The header has no links.
LEMMA HeaderHasNoLinks ==
  ASSUME NEW p \in Pages
  PROVE  HeaderText(p) \in Seq(Symbols) /\ Linked(HeaderText(p))
<1> DEFINE first == <<OK>> \o EOL
           second == <<CL>> \o EOL
           none == <<>>
           middle == IF p.announced THEN second ELSE none
           both == first \o middle
<1>1. OK \in Symbols /\ CL \in Symbols /\ CR \in Symbols /\ LF \in Symbols /\ EOL = <<CR, LF>>
  BY SymbolsOfHeaders
<1>2. OK # HREF /\ CL # HREF /\ CR # HREF /\ LF # HREF
  BY DEF OK, CL, CR, LF, HREF
<1>3. EOL \in Seq(Symbols) /\ Linked(EOL)
  <2>1. EOL \in Seq(Symbols) /\ Len(EOL) = 2 /\ EOL[1] = CR /\ EOL[2] = LF
    BY <1>1
  <2>2. \A k \in 1..2 : k = 1 \/ k = 2
    OBVIOUS
  <2> QED
    BY <1>2, <2>1, <2>2, NoLinks
<1>4. ASSUME NEW symbol \in Symbols, symbol # HREF
      PROVE  <<symbol>> \o EOL \in Seq(Symbols) /\ Linked(<<symbol>> \o EOL)
  <2> DEFINE one == <<symbol>>
  <2>1. one \in Seq(Symbols) /\ Len(one) = 1 /\ one[1] = symbol
    OBVIOUS
  <2> HIDE DEF one
  <2>2. Linked(one)
    BY <1>4, <2>1, NoLinks
  <2>3. one \o EOL \in Seq(Symbols)
    BY <1>3, <2>1, Joined
  <2>4. Linked(one \o EOL)
    BY <1>3, <2>1, <2>2, LinksAreJoined
  <2> QED
    BY <2>3, <2>4 DEF one
<1>5. first \in Seq(Symbols) /\ Linked(first) /\ second \in Seq(Symbols) /\ Linked(second)
  BY <1>1, <1>2, <1>4
<1>6. none \in Seq(Symbols) /\ Linked(none)
  <2>1. none \in Seq(Symbols) /\ Len(none) = 0
    OBVIOUS
  <2> QED
    BY <2>1 DEF Linked
<1>7. HeaderText(p) = both \o EOL
  BY Zenon DEF HeaderText, OrNothing, OK, CL
<1> HIDE DEF first, second, none
<1>8. middle \in Seq(Symbols) /\ Linked(middle)
  BY <1>5, <1>6
<1> HIDE DEF middle
<1>9. both \in Seq(Symbols) /\ Linked(both)
  <2>1. both \in Seq(Symbols)
    BY <1>5, <1>8, Joined
  <2> QED
    BY <1>5, <1>8, <2>1, LinksAreJoined
<1> HIDE DEF both
<1>10. both \o EOL \in Seq(Symbols) /\ Linked(both \o EOL)
  <2>1. both \o EOL \in Seq(Symbols)
    BY <1>3, <1>9, Joined
  <2> QED
    BY <1>3, <1>9, <2>1, LinksAreJoined
<1> QED
  BY <1>7, <1>10

DOT == "."
Marks == Symbols \cup {HREF, QUOTE, DOT, HTTP}

\* The symbols of pages, told apart.
LEMMA MarksOfPages ==
  /\ HREF \in Marks /\ QUOTE \in Marks /\ DOT \in Marks /\ HTTP \in Marks
  /\ DOT # HREF
  /\ Seq(STRING) \subseteq Seq(Marks) /\ Seq(Symbols) \subseteq Seq(Marks)
<1>1. HREF \in Marks /\ QUOTE \in Marks /\ DOT \in Marks /\ HTTP \in Marks
  BY DEF Marks
<1>2. DOT # HREF
  BY DEF DOT, HREF
<1>3. STRING \subseteq Marks /\ Symbols \subseteq Marks
  BY DEF Marks, Symbols
<1>4. Seq(STRING) \subseteq Seq(Marks)
  BY <1>3, SeqMonotonic
<1>5. Seq(Symbols) \subseteq Seq(Marks)
  BY <1>3, SeqMonotonic
<1> QED
  BY <1>1, <1>2, <1>4, <1>5

\* The name of a link is a text without the symbols around it.
LEMMA NameOfLink ==
  ASSUME NEW p \in Pages, NEW i \in DOMAIN p.links
  PROVE  LET name == LinkText(p.links[i])
         IN name \in Seq(Marks) /\ \A k \in 1..Len(name) : name[k] # HREF /\ name[k] # QUOTE
<1> DEFINE links == p.links
           Links == [host : Seq(STRING), path : Seq(STRING)]
           link == links[i]
           name == LinkText(link)
<1>1. links \in Seq(Links) /\ i \in DOMAIN links /\ IsLink(link)
  BY LinksAssumption
<1>2. link \in Links
  <2> HIDE DEF links, Links
  <2> QED
    BY <1>1
<1>3. link.host \in Seq(Marks) /\ link.path \in Seq(Marks) /\ HTTP \in Marks
  BY <1>2, MarksOfPages
<1> DEFINE host == link.host
           path == link.path
           front == <<HTTP>> \o host
<1>4. name = IF host = <<>> THEN path ELSE front \o path
  BY Zenon DEF LinkText, HTTP
<1>5. \A k \in DOMAIN name : name[k] # HREF /\ name[k] # QUOTE
  BY <1>1 DEF IsLink, Lacks, HREF, QUOTE
<1> HIDE DEF name, host, path
<1>6. front \in Seq(Marks)
  BY <1>3, Preceded DEF host
<1> HIDE DEF front
<1>7. front \o path \in Seq(Marks)
  <2>1. path \in Seq(Marks)
    BY <1>3 DEF path
  <2> QED
    BY <1>6, <2>1, Joined
<1>8. name \in Seq(Marks)
  <2>1. path \in Seq(Marks)
    BY <1>3 DEF path
  <2> QED
    BY <1>4, <1>7, <2>1
<1>9. DOMAIN name = 1..Len(name)
  BY <1>8
<1> QED
  BY <1>5, <1>8, <1>9 DEF name, link, links

\* Every link of a page is in its text, and every link of the text ends.
LEMMA PageShowsLinks ==
  ASSUME NEW p \in Pages
  PROVE  /\ PageText(p) \in Seq(Marks) /\ Linked(PageText(p))
         /\ \A i \in DOMAIN p.links : Shows(PageText(p), LinkText(p.links[i]))
<1> DEFINE links == p.links
           n == Len(links)
           gap == p.gap
           filler == [k \in 1..gap |-> DOT]
           name(i) == LinkText(links[i])
           piece(i) == ((filler \o <<HREF, QUOTE>>) \o name(i)) \o <<QUOTE>>
           seqs == [i \in DOMAIN links |-> piece(i)]
           names == [i \in DOMAIN links |-> name(i)]
           h == HeaderText(p)
           c == Content(p)
<1>1. gap \in Nat /\ DOMAIN links = 1..n /\ n \in Nat
  <2> DEFINE Links == [host : Seq(STRING), path : Seq(STRING)]
  <2>1. gap \in Nat /\ links \in Seq(Links)
    BY LinksAssumption
  <2> HIDE DEF links, Links
  <2> QED
    BY <2>1
<1>2. c = FlattenSeq(seqs)
  BY Zenon DEF Content, HREF, QUOTE, DOT
<1>3. h \in Seq(Marks) /\ Linked(h) /\ c \in Seq(Marks)
  BY HeaderHasNoLinks, MarksOfPages, ExchangeAssumption
<1>4. \A i \in 1..n :
        LET link == name(i)
        IN link \in Seq(Marks) /\ \A k \in 1..Len(link) : link[k] # HREF /\ link[k] # QUOTE
  BY <1>1, NameOfLink
<1> HIDE DEF links, name
<1>5. /\ filler \in Seq(Marks) /\ \A k \in 1..Len(filler) : filler[k] # HREF
  <2>1. \A k \in 1..gap : DOT \in Marks
    BY MarksOfPages
  <2>2. filler \in Seq(Marks) /\ Len(filler) = gap /\ \A k \in 1..gap : filler[k] = DOT
    BY <1>1, <2>1
  <2> QED
    BY <2>2, MarksOfPages
<1> HIDE DEF filler
<1>6. ASSUME NEW i \in 1..n
      PROVE  piece(i) \in Seq(Marks) /\ Linked(piece(i)) /\ Shows(piece(i), name(i))
  <2> DEFINE link == name(i)
  <2>1. link \in Seq(Marks) /\ \A k \in 1..Len(link) : link[k] # HREF /\ link[k] # QUOTE
    BY <1>4
  <2> HIDE DEF link
  <2>2. LET text == ((filler \o <<HREF, QUOTE>>) \o link) \o <<QUOTE>>
        IN text \in Seq(Marks) /\ Linked(text) /\ Shows(text, link)
    <3>1. HREF \in Marks /\ QUOTE \in Marks
      BY MarksOfPages
    <3> QED
      BY <1>5, <2>1, <3>1, OneLink
  <2> QED
    BY <2>2 DEF link
<1> HIDE DEF piece
<1>7. Linked(c) /\ \A i \in 1..n : Shows(c, name(i))
  <2>1. CASE n = 0
    <3>1. DOMAIN links = {}
      BY <1>1, <2>1
    <3>2. Len(seqs) = 0
      BY <3>1
    <3>3. FlattenSeq(seqs) = seqs
      BY <3>2 DEF FlattenSeq
    <3>4. Len(c) = 0
      BY <1>2, <3>2, <3>3
    <3> QED
      BY <2>1, <3>4 DEF Linked
  <2>2. CASE n # 0
    <3>1. Len(seqs) = n /\ n \in Nat \ {0}
      BY <1>1, <2>2
    <3>2. \A i \in 1..n : seqs[i] = piece(i) /\ names[i] = name(i)
      BY <1>1
    <3> HIDE DEF seqs, names
    <3>3. \A i \in 1..Len(seqs) :
            /\ seqs[i] \in Seq(Marks) /\ Linked(seqs[i])
            /\ names[i] \in Seq(Marks) /\ Shows(seqs[i], names[i])
      BY <1>4, <1>6, <3>1, <3>2
    <3>4. Linked(FlattenSeq(seqs)) /\ \A i \in 1..Len(seqs) : Shows(FlattenSeq(seqs), names[i])
      BY <3>1, <3>3, FlattenShows
    <3> QED
      BY <1>2, <3>1, <3>2, <3>4
  <2> QED
    BY <2>1, <2>2
<1>8. PageText(p) = h \o c
  BY DEF PageText
<1> HIDE DEF h, c
<1>9. PageText(p) \in Seq(Marks) /\ Linked(PageText(p))
  <2>1. h \o c \in Seq(Marks)
    BY <1>3, Joined
  <2>2. Linked(h \o c)
    BY <1>3, <1>7, LinksAreJoined
  <2> QED
    BY <1>8, <2>1, <2>2
<1>10. ASSUME NEW i \in 1..n
       PROVE  Shows(PageText(p), name(i))
  <2>1. name(i) \in Seq(Marks)
    BY <1>4
  <2>2. Shows(c, name(i))
    BY <1>7
  <2> DEFINE link == name(i)
  <2> HIDE DEF link
  <2>3. Shows(h \o c, link)
    BY <1>3, <2>1, <2>2, NamesAreJoined DEF link
  <2> QED
    BY <1>8, <2>3 DEF link
<1> QED
  BY <1>1, <1>9, <1>10 DEF name, links

-----------------------------------------------------------------------------
(* Looking for them *)

\* The link from i to e of a text is found, from a position before it.
Finds(found, text, i, e, from) ==
  /\ found.result = "SUCCESS" /\ found.moved = e - from - 1
  /\ found.link = SubSeq(text, i + 2, e - 1)

\* find_href finds the first link behind a position when it ends in the block,
\* whatever lies behind the block, and leaves the file at its end.
LEMMA BlockFinds ==
  ASSUME NEW S, NEW text \in Seq(S), NEW rest \in Seq(S), NEW from \in Nat, NEW size \in Nat,
         from + size <= Len(text),
         NEW i \in from + 1 .. from + size, NEW e \in i + 2 .. from + size, LinkAt(text, i, e),
         \A k \in from + 1 .. i - 1 : text[k] # HREF
  PROVE  Finds(find_href(SubSeq(text, from + 1, from + size) \o rest, size), text, i, e, from)
<1> DEFINE part == SubSeq(text, from + 1, from + size)
           buffer == part \o rest
           href == i - from
           quote == e - from
           link == SubSeq(buffer, href + 2, quote - 1)
<1>1. part \in Seq(S) /\ Len(part) = size /\ \A k \in 1..size : part[k] = text[from + k]
  BY Len(text) \in Nat
<1> HIDE DEF part
<1>2. /\ buffer \in Seq(S) /\ Len(buffer) = Len(part) + Len(rest)
      /\ \A k \in 1..Len(part) : buffer[k] = part[k]
  <2>1. part \in Seq(S)
    BY <1>1
  <2> QED
    BY <2>1, Joined
<1> HIDE DEF buffer
<1>3. Len(rest) \in Nat /\ Len(text) \in Nat
  OBVIOUS
<1>4. \A k \in 1..size : k \in 1..Len(buffer) /\ buffer[k] = text[from + k]
  BY <1>1, <1>2, <1>3
<1>5. /\ href \in 1..size /\ quote \in href + 2 .. size
      /\ from + href = i /\ from + quote = e
  OBVIOUS
<1>6. /\ text[i] = HREF /\ text[e] = QUOTE
      /\ \A k \in i + 2 .. e - 1 : text[k] # QUOTE
  BY DEF LinkAt
<1> HIDE DEF href, quote
<1>7. href \in Nat /\ quote \in Nat /\ href >= 1 /\ quote >= href + 2 /\ quote <= size
  BY <1>5
<1>8. Find(buffer, HREF, 1) = href
  <2>1. href \in 1..Len(buffer) /\ buffer[href] = HREF
    BY <1>4, <1>5, <1>6
  <2>2. ASSUME NEW k \in 1 .. href - 1
        PROVE  buffer[k] # HREF
    <3>1. k \in 1..size /\ from + k \in from + 1 .. i - 1
      BY <1>5, <1>7
    <3> QED
      BY <1>4, <3>1
  <2>3. \A k \in 1 .. href - 1 : buffer[k] # HREF
    BY <2>2
  <2> QED
    BY <1>2, <2>1, <2>3, FindIs
<1>9. Find(buffer, QUOTE, href + 2) = quote
  <2>1. /\ href + 2 \in Nat /\ quote \in href + 2 .. Len(buffer) /\ buffer[quote] = QUOTE
    <3>1. quote \in 1..size
      BY <1>7
    <3>2. quote \in 1..Len(buffer) /\ buffer[quote] = text[from + quote]
      BY <1>4, <3>1
    <3> QED
      BY <1>5, <1>6, <1>7, <3>2
  <2>2. ASSUME NEW k \in href + 2 .. quote - 1
        PROVE  buffer[k] # QUOTE
    <3>1. k \in 1..size /\ from + k \in i + 2 .. e - 1
      BY <1>5, <1>7
    <3> QED
      BY <1>4, <1>6, <3>1
  <2>3. \A k \in href + 2 .. quote - 1 : buffer[k] # QUOTE
    BY <2>2
  <2> QED
    BY <1>2, <2>1, <2>3, FindIs
<1>10. find_href(buffer, size) =
         [result |-> "SUCCESS", link |-> link, moved |-> quote - 1]
  <2>1. Find(buffer, "href=", 1) = href /\ Find(buffer, "\"", href + 2) = quote
    BY <1>8, <1>9 DEF HREF, QUOTE
  <2>2. href # 0 /\ quote # 0
    BY <1>7
  <2> QED
    BY <2>1, <2>2, Zenon DEF find_href
<1>11. link = SubSeq(text, i + 2, e - 1)
  <2> DEFINE there == SubSeq(text, i + 2, e - 1)
             n == e - i - 2
  <2>1. n \in Nat /\ n = quote - href - 2 /\ Len(buffer) \in Nat
    BY <1>2, <1>5, <1>7
  <2>2. quote - 1 <= Len(buffer) /\ e - 1 <= Len(text)
    BY <1>1, <1>2, <1>3, <1>7
  <2>3. /\ there \in Seq(S) /\ Len(there) = n
        /\ \A k \in 1..n : there[k] = text[i + 1 + k]
    BY <2>1, <2>2
  <2>4. /\ link \in Seq(S) /\ Len(link) = n
        /\ \A k \in 1..n : link[k] = buffer[href + 1 + k]
    BY <1>2, <1>7, <2>1, <2>2
  <2> HIDE DEF there, link, n
  <2>5. ASSUME NEW k \in 1..n
        PROVE  link[k] = there[k]
    <3>1. href + 1 + k \in 1..size /\ from + (href + 1 + k) = i + 1 + k
      BY <1>5, <1>7, <2>1 DEF n
    <3>2. buffer[href + 1 + k] = text[from + (href + 1 + k)]
      BY <1>4, <3>1
    <3> QED
      BY <2>3, <2>4, <3>1, <3>2
  <2>6. link = there
    BY <2>3, <2>4, <2>5, SeqEqual
  <2> QED
    BY <2>6 DEF there
<1> HIDE DEF link
<1>12. quote - 1 = e - from - 1
  BY DEF quote
<1> QED
  BY <1>10, <1>11, <1>12 DEF buffer, part, Finds

\* The link at i, if it can be prefetched, is.
Taken(i) ==
  LET link == SubSeq(file, i + 2, LinkEnd(i) - 1)
  IN matches_command(link, "/") \/ matches_command(link, "http://") =>
       PrefetchRequest(link) \in jobs

\* No link that begins before the position ends behind it, and all are taken.
Searched == \A i \in LinkStarts : i <= pos => LinkEnd(i) <= pos + 1 /\ Taken(i)

LinksInv ==
  /\ stage = "scan" \/ pos > 0 => page # NoPage /\ stage \in {"scan", "ended"}
  /\ stage = "ended" /\ pos > 0 => pos >= Len(file)
  /\ (stage = "scan" \/ pos > 0) /\ file = PageText(page) /\ WithinBlocks => Searched

\* The end of a link is where it ends.
LEMMA LinkEndIs ==
  ASSUME NEW S, file \in Seq(S), NEW s \in Nat, NEW e \in s + 2 .. Len(file), LinkAt(file, s, e)
  PROVE  LinkEnd(s) = e
<1>1. /\ s + 2 \in Nat /\ file[e] = QUOTE
      /\ \A k \in s + 2 .. e - 1 : file[k] # QUOTE
  BY DEF LinkAt
<1>2. Find(file, QUOTE, s + 2) = e
  BY <1>1, FindIs
<1> QED
  BY <1>2 DEF LinkEnd, QUOTE

\* All links of a stored page end, and not in another.
LEMMA StoredLinks ==
  ASSUME IInv, page # NoPage, file = PageText(page)
  PROVE  /\ file \in Seq(Marks) /\ LinkStarts \subseteq 1..Len(file)
         /\ \A i \in LinkStarts : LinkEnd(i) \in i + 2 .. Len(file) /\ LinkAt(file, i, LinkEnd(i))
         /\ \A i \in 1..Len(file) : i \in LinkStarts <=> file[i] = HREF
<1>1. page \in Pages
  BY DEF IInv, PageTypes
<1>2. file \in Seq(Marks) /\ Linked(file)
  BY <1>1, PageShowsLinks
<1>3. LinkStarts = {i \in 1..Len(file) : file[i] = HREF}
  <2>1. DOMAIN file = 1..Len(file)
    BY <1>2
  <2> QED
    BY <2>1 DEF LinkStarts, HREF
<1>4. ASSUME NEW i \in LinkStarts
      PROVE  LinkEnd(i) \in i + 2 .. Len(file) /\ LinkAt(file, i, LinkEnd(i))
  <2>1. i \in 1..Len(file) /\ file[i] = HREF /\ i \in Nat
    BY <1>3
  <2>2. PICK e \in i + 2 .. Len(file) : LinkAt(file, i, e)
    BY <1>2, <2>1 DEF Linked
  <2>3. LinkEnd(i) = e
    BY <1>2, <2>1, <2>2, LinkEndIs
  <2> QED
    BY <2>2, <2>3
<1> QED
  BY <1>2, <1>3, <1>4

\* The first link behind the position ends in the block.
LEMMA NextLinkIsNear ==
  ASSUME IInv, page # NoPage, file = PageText(page), WithinBlocks, Searched,
         NEW i \in LinkStarts, i > pos, \A k \in LinkStarts : k > pos => i <= k
  PROVE  LinkEnd(i) <= pos + MAX_URL_SIZE
<1> DEFINE ends == {LinkEnd(k) : k \in {k \in LinkStarts : k < i}}
           all == {1} \cup ends
           n == Len(file)
<1>1. /\ LinkStarts \subseteq 1..n /\ \A k \in LinkStarts : LinkEnd(k) \in k + 2 .. n
      /\ file \in Seq(Marks)
  BY StoredLinks
<1>2. pos \in Nat /\ MAX_URL_SIZE \in Int /\ n \in Nat
  BY <1>1, ConnectionAssumption DEF IInv, PageTypes
<1>3. LinkEnd(i) < MAX_URL_SIZE + Max(all)
  BY DEF WithinBlocks
<1> HIDE DEF n
<1>4. ASSUME NEW y \in ends
      PROVE  y \in 1..n /\ y <= pos + 1
  <2>1. PICK k \in LinkStarts : k < i /\ y = LinkEnd(k)
    OBVIOUS
  <2>2. k \in 1..n /\ i \in 1..n
    BY <1>1
  <2>3. k <= pos
    BY <1>2, <2>1, <2>2
  <2>4. LinkEnd(k) <= pos + 1
    BY <2>3 DEF Searched
  <2>5. LinkEnd(k) \in k + 2 .. n
    BY <1>1
  <2> QED
    BY <1>2, <2>1, <2>2, <2>4, <2>5
<1> HIDE DEF ends
<1>5. n >= 1
  BY <1>1, <1>2
<1>6. all \subseteq 1..n /\ all # {}
  BY <1>2, <1>4, <1>5
<1>7. \A y \in all : y <= pos + 1
  BY <1>2, <1>4
<1> HIDE DEF all
<1>8. Max(all) \in all
  BY <1>2, <1>6, MaxIn
<1>9. Max(all) <= pos + 1 /\ Max(all) \in 1..n
  BY <1>6, <1>7, <1>8
<1>10. LinkEnd(i) \in i + 2 .. n /\ i \in 1..n
  BY <1>1
<1> QED
  BY <1>2, <1>3, <1>9, <1>10

\* What was taken stays taken while the position moves on.
LEMMA TakenStay ==
  ASSUME IInv, Searched, page # NoPage, file = PageText(page),
         UNCHANGED <<file, target>>, jobs \subseteq jobs', pos' \in Nat, pos <= pos'
  PROVE  /\ LinkStarts' = LinkStarts
         /\ \A i \in LinkStarts : i <= pos => LinkEnd(i)' <= pos' + 1 /\ Taken(i)'
<1>1. LinkStarts' = LinkStarts
  BY DEF LinkStarts
<1>2. ASSUME NEW i \in LinkStarts, i <= pos
      PROVE  LinkEnd(i)' <= pos' + 1 /\ Taken(i)'
  <2>1. LinkEnd(i) <= pos + 1 /\ Taken(i)
    BY <1>2 DEF Searched
  <2>2. LinkEnd(i)' = LinkEnd(i)
    BY DEF LinkEnd
  <2>3. LinkEnd(i) \in Int /\ pos \in Nat
    <3>1. LinkEnd(i) \in i + 2 .. Len(file)
      BY <1>2, StoredLinks
    <3> QED
      BY <3>1 DEF IInv, PageTypes
  <2>4. Taken(i)'
    <3> DEFINE link == SubSeq(file, i + 2, LinkEnd(i) - 1)
    <3>1. link' = link
      BY <2>2
    <3>2. PrefetchRequest(link)' = PrefetchRequest(link)
      BY <3>1 DEF PrefetchRequest
    <3>3. matches_command(link, "/") \/ matches_command(link, "http://") =>
            PrefetchRequest(link) \in jobs
      BY <2>1 DEF Taken
    <3> HIDE DEF link
    <3>4. matches_command(link, "/")' \/ matches_command(link, "http://")' =>
            PrefetchRequest(link)' \in jobs'
      BY <3>1, <3>2, <3>3
    <3> QED
      BY <3>4 DEF Taken, link
  <2>5. LinkEnd(i) <= pos' + 1
    BY <2>1, <2>3
  <2> QED
    BY <2>2, <2>4, <2>5
<1> QED
  BY <1>1, <1>2

\* A block leaves none behind.
LEMMA ScanBlockSearches ==
  ASSUME IInv, LinksInv, ScanBlock
  PROVE  LinksInv'
<1>1. /\ stage = "scan" /\ stage' = "scan" /\ pos < Len(file) /\ page # NoPage
      /\ page' = page /\ file' = file /\ target' = target
  BY DEF ScanBlock, connection, transfer, LinksInv
<1>2. PICK rest \in Memory :
        LET found == find_href(Block \o rest, Len(Block))
        IN /\ pos' = pos + found.moved
           /\ IF found.result = "SUCCESS" THEN Dispatch(found.link) ELSE UNCHANGED jobs
  BY DEF ScanBlock, Found
<1> DEFINE size == Len(Block)
           found == find_href(Block \o rest, size)
           n == Len(file)
           p == pos
<1>3. /\ file \in Seq(STRING) /\ pos \in Nat /\ n \in Nat /\ p < n
      /\ MAX_URL_SIZE \in Nat /\ rest \in Seq(STRING) /\ p \in Nat
  BY <1>1, ConnectionAssumption, ExchangeAssumption DEF IInv, PageTypes
<1>4. /\ size \in Nat /\ p + size <= n
      /\ size = IF p + MAX_URL_SIZE < n THEN MAX_URL_SIZE ELSE n - p
      /\ Block = SubSeq(file, p + 1, p + size) /\ Block \in Seq(STRING)
  <2> DEFINE to == IF p + MAX_URL_SIZE < n THEN p + MAX_URL_SIZE ELSE n
  <2>1. Block = SubSeq(file, p + 1, to)
    BY DEF Block
  <2>2. to \in p .. n
    BY <1>3
  <2> HIDE DEF to
  <2>3. Block \in Seq(STRING) /\ size = to - p
    BY <1>3, <2>1, <2>2
  <2> HIDE DEF size
  <2>4. to = p + size
    BY <1>3, <2>2, <2>3
  <2> QED
    BY <1>3, <2>1, <2>2, <2>3, <2>4 DEF to
<1>5. /\ pos' = p + found.moved /\ found.moved \in Nat
      /\ found.result = "SUCCESS" => Dispatch(found.link)
      /\ jobs \subseteq jobs'
  <2>1. Block \o rest \in Seq(STRING)
    BY <1>3, <1>4, Joined
  <2>2. found.moved \in Nat
    BY <1>4, <2>1, MovedType
  <2> HIDE DEF found
  <2> QED
    BY <1>2, <2>2 DEF Dispatch, found
<1>6. pos' \in Nat /\ p <= pos'
  <2> HIDE DEF found
  <2> QED
    BY <1>3, <1>5
<1>7. ASSUME file' = PageText(page'), WithinBlocks'
      PROVE  Searched'
  <2>1. file = PageText(page) /\ WithinBlocks /\ Searched
    <3>1. file = PageText(page)
      BY <1>1, <1>7
    <3>2. WithinBlocks
      BY <1>1, <1>7 DEF WithinBlocks, LinkStarts, LinkEnd
    <3> QED
      BY <1>1, <3>1, <3>2 DEF LinksInv
  <2>2. /\ LinkStarts' = LinkStarts
        /\ \A i \in LinkStarts : i <= p => LinkEnd(i)' <= pos' + 1 /\ Taken(i)'
    BY <1>1, <1>5, <1>6, <2>1, TakenStay
  <2>3. /\ file \in Seq(Marks) /\ LinkStarts \subseteq 1..n
        /\ \A i \in LinkStarts : LinkEnd(i) \in i + 2 .. n /\ LinkAt(file, i, LinkEnd(i))
        /\ \A i \in 1..n : i \in LinkStarts <=> file[i] = HREF
    BY <1>1, <2>1, StoredLinks
  <2> DEFINE later == {i \in LinkStarts : i > p}
  <2>4. CASE later = {}
    <3>1. \A i \in LinkStarts : i <= p
      BY <1>3, <2>3, <2>4
    <3> QED
      BY <2>2, <3>1 DEF Searched
  <2>5. CASE later # {}
    <3>1. PICK i \in Nat : i \in later /\ \A k \in later : i <= k
      <4>1. 1..n \subseteq Nat
        BY <1>3
      <4>2. later \subseteq Nat
        BY <2>3, <4>1
      <4> HIDE DEF later
      <4> QED
        BY <2>5, <4>2, Smallest
    <3>2. i \in LinkStarts /\ i > p /\ \A k \in LinkStarts : k > p => i <= k
      BY <3>1
    <3>12. PICK e \in Nat : e = LinkEnd(i)
      BY <1>3, <2>3, <3>2
    <3>3. e <= p + MAX_URL_SIZE
      BY <1>1, <2>1, <3>2, <3>12, NextLinkIsNear
    <3>4. e \in i + 2 .. n /\ LinkAt(file, i, e) /\ i \in 1..n
      BY <2>3, <3>2, <3>12
    <3> HIDE DEF n, p, later
    <3>5. i \in p + 1 .. p + size /\ e \in i + 2 .. p + size
      BY <1>3, <1>4, <3>2, <3>3, <3>4
    <3>6. ASSUME NEW k \in p + 1 .. i - 1
          PROVE  file[k] # HREF
      <4>1. k \in 1..n /\ k > p /\ ~ (i <= k)
        BY <1>3, <3>4
      <4> QED
        BY <2>3, <3>2, <4>1
    <3>7. /\ found.result = "SUCCESS" /\ found.moved = e - p - 1
          /\ found.link = SubSeq(file, i + 2, e - 1)
      <4>1. rest \in Seq(Marks)
        BY <1>3, MarksOfPages
      <4>2. p + size <= Len(file)
        BY <1>4 DEF n
      <4>3. \A k \in p + 1 .. i - 1 : file[k] # HREF
        BY <3>6
      <4>4. Finds(find_href(SubSeq(file, p + 1, p + size) \o rest, size), file, i, e, p)
        <5> HIDE DEF size
        <5>1. file \in Seq(Marks) /\ LinkAt(file, i, e)
          BY <2>3, <3>4
        <5>2. p \in Nat /\ size \in Nat
          BY <1>3, <1>4
        <5> QED
          BY <3>5, <4>1, <4>2, <4>3, <5>1, <5>2, BlockFinds
      <4> QED
        BY <1>4, <4>4 DEF Finds
    <3> HIDE DEF found
    <3>8. pos' = e - 1 /\ p < pos'
      <4>1. e \in Int /\ i \in Int /\ e >= i + 2 /\ i > p
        BY <1>3, <3>2, <3>4, <3>5
      <4> QED
        BY <1>3, <1>5, <3>7, <4>1
    <3>9. LinkEnd(i)' = e
      BY <1>1, <3>12 DEF LinkEnd
    <3>10. Taken(i)'
      <4> DEFINE link == SubSeq(file, i + 2, e - 1)
      <4>1. Dispatch(link)
        BY <1>5, <3>7
      <4>2. link' = link
        BY <1>1, <3>9
      <4>3. PrefetchRequest(link)' = PrefetchRequest(link)
        BY <1>1, <4>2 DEF PrefetchRequest
      <4> HIDE DEF link
      <4>4. matches_command(link, "/")' \/ matches_command(link, "http://")' =>
              PrefetchRequest(link)' \in jobs'
        BY <4>1, <4>2, <4>3 DEF Dispatch
      <4> QED
        BY <1>1, <3>9, <4>4 DEF Taken, link
    <3>11. ASSUME NEW k \in LinkStarts, k <= pos'
           PROVE  LinkEnd(k)' <= pos' + 1 /\ Taken(k)'
      <4>1. k \in 1..n /\ file[k] = HREF
        BY <2>3
      <4>2. CASE k <= p
        BY <2>2, <4>2 DEF p
      <4>3. CASE k = i
        <5>1. e <= pos' + 1
          BY <1>6, <3>8
        <5> QED
          BY <3>9, <3>10, <4>3, <5>1
      <4>4. CASE k > p /\ k # i
        <5>1. k \in i + 1 .. e
          <6>1. i <= k /\ k # i
            BY <3>2, <4>1, <4>4 DEF p
          <6>2. k \in Int /\ i \in Int /\ e \in Int /\ pos' \in Int
            BY <1>3, <1>6, <3>4, <4>1
          <6>3. k <= pos' /\ pos' = e - 1
            BY <3>8, <3>11
          <6>4. k <= e
            BY <6>2, <6>3
          <6>5. i + 1 <= k
            BY <6>1, <6>2
          <6> HIDE DEF size
          <6> QED
            BY <6>2, <6>4, <6>5
        <5> QED
          BY <3>4, <4>1, <5>1 DEF LinkAt
      <4> QED
        BY <1>3, <4>1, <4>2, <4>3, <4>4
    <3> QED
      BY <2>2, <3>11 DEF Searched
  <2> QED
    BY <2>4, <2>5
<1> QED
  BY <1>1, <1>7 DEF LinksInv

\* Outside of the search nothing is required.
LEMMA OthersSearch ==
  ASSUME IInv, LinksInv, UNCHANGED <<pos, page>>, stage \notin {"scan", "ended"}, stage' # "scan"
  PROVE  LinksInv'
<1>1. pos = 0
  BY DEF LinksInv, IInv, PageTypes
<1> QED
  BY <1>1 DEF LinksInv

\* The search begins with nothing left behind.
LEMMA RelayedSearches ==
  ASSUME IInv, LinksInv, Relayed
  PROVE  LinksInv'
<1>1. /\ page # NoPage /\ page' = page /\ file' = file /\ pos' = 0
      /\ stage' \in {"scan", "ended"}
  BY DEF IInv, Fetched, Relayed, transfer
<1>2. Searched'
  <2>1. file \in Seq(STRING)
    BY DEF IInv, PageTypes
  <2>2. \A i \in LinkStarts' : i \in 1..Len(file)
    BY <1>1, <2>1 DEF LinkStarts
  <2>3. \A i \in LinkStarts' : ~ (i <= pos')
    BY <1>1, <2>1, <2>2
  <2> QED
    BY <2>3 DEF Searched
<1> QED
  BY <1>1, <1>2 DEF LinksInv

\* A file that is searched stays so, until another is.
LEMMA SearchedStay ==
  ASSUME IInv, LinksInv, UNCHANGED <<page, file, pos, jobs, target>>,
         stage' \in {stage, "ended"}, stage = "scan" /\ stage' = "ended" => pos >= Len(file),
         stage # "scan" => stage' = stage
  PROVE  LinksInv'
<1>1. ASSUME stage = "scan" \/ pos > 0, file = PageText(page), WithinBlocks'
      PROVE  Searched'
  <2>1. WithinBlocks
    <3>1. file' = file
      OBVIOUS
    <3>2. LinkStarts' = LinkStarts
      BY <3>1 DEF LinkStarts
    <3>3. \A i : LinkEnd(i)' = LinkEnd(i)
      BY <3>1 DEF LinkEnd
    <3> QED
      BY <1>1, <3>2, <3>3 DEF WithinBlocks
  <2>2. Searched /\ page # NoPage
    BY <1>1, <2>1 DEF LinksInv
  <2>3. pos' = pos /\ pos \in Nat /\ jobs \subseteq jobs'
    BY DEF IInv, PageTypes
  <2>4. /\ LinkStarts' = LinkStarts
        /\ \A i \in LinkStarts : i <= pos => LinkEnd(i)' <= pos' + 1 /\ Taken(i)'
    BY <1>1, <2>2, <2>3, TakenStay
  <2> QED
    BY <2>3, <2>4 DEF Searched
<1> QED
  BY <1>1 DEF LinksInv

\* All steps together.
LEMMA StepsSearch ==
  ASSUME IInv, LinksInv, [Next]_vars
  PROVE  LinksInv'
<1>1. CASE ProcessJob
  <2>1. stage = "queued" /\ stage' # "scan" /\ UNCHANGED <<pos, page>>
    <3>1. CASE VisitExpired \/ VisitHangup \/ VisitNothing
      BY <1>1, <3>1 DEF ProcessJob, VisitExpired, VisitHangup, VisitNothing, Terminates, transfer,
           scanning
    <3>2. CASE VisitReads
      <4> DEFINE parsed == parse_request_string(Arrived(tail'))
      <4>1. stage = "queued" /\ Process(parsed) /\ UNCHANGED <<pos, page>>
        BY <1>1, <3>2 DEF ProcessJob, VisitReads, transfer, scanning
      <4> HIDE DEF parsed
      <4>2. stage' # "scan"
        BY <3>2, <4>1 DEF VisitReads, Process, Serve, Answers
      <4> QED
        BY <4>1, <4>2
    <3> QED
      BY <1>1, <3>1, <3>2 DEF ProcessJob, Visit
  <2> QED
    BY <2>1, OthersSearch
<1>2. CASE Client \/ Clock \/ UNCHANGED vars
  <2>1. UNCHANGED <<stage, page, file, pos, jobs, target>>
    BY <1>2 DEF Client, ClientSends, ClientLeaves, Clock, SecondPasses, transfer, scanning, vars,
         connection
  <2> QED
    BY <2>1, SearchedStay
<1>3. CASE FirstRecv
  <2>1. stage = "fetch" /\ stage' = "relay" /\ pos' = pos
    BY <1>3 DEF FirstRecv, scanning
  <2>2. pos = 0
    BY <2>1 DEF LinksInv, IInv, PageTypes
  <2> QED
    BY <2>1, <2>2 DEF LinksInv
<1>4. CASE ServerUnreachable \/ NextRecv \/ Spins
  BY <1>4, OthersSearch DEF ServerUnreachable, NextRecv, Spins, transfer, scanning
<1>5. CASE ScanEnds
  <2>1. /\ stage = "scan" /\ stage' = "ended" /\ pos >= Len(file)
        /\ UNCHANGED <<page, file, pos, jobs, target>>
    BY <1>5 DEF ScanEnds, transfer, scanning, connection
  <2> QED
    BY <2>1, SearchedStay
<1> QED
  BY <1>1, <1>2, <1>3, <1>4, <1>5, ScanBlockSearches, RelayedSearches DEF Next, Over, Fetch, Relay, Scan

\* LinksInv is an invariant.
LEMMA LinksInvariant == Spec => []LinksInv
<1>1. Init => LinksInv
  BY DEF Init, InitConnection, LinksInv
<1>2. IInv /\ LinksInv /\ [Next]_vars => LinksInv'
  BY StepsSearch
<1> QED
  BY <1>1, <1>2, InductiveInvariant, PTL DEF Spec

\* CloseLinksAreFound: scan_for_links makes a prefetch job of every link it
\* can, when each ends within a block of where the one before ends.
THEOREM LinksAreFound == Spec => []CloseLinksAreFound
<1>1. IInv /\ LinksInv => CloseLinksAreFound
  <2> SUFFICES ASSUME IInv, LinksInv, stage = "ended", pos > 0, file = PageText(page),
                      WithinBlocks, NEW i \in DOMAIN page.links
               PROVE  LET link == LinkText(page.links[i])
                      IN matches_command(link, "/") \/ matches_command(link, "http://") =>
                           PrefetchRequest(link) \in jobs
    BY DEF CloseLinksAreFound
  <2> DEFINE link == LinkText(page.links[i])
  <2>1. page # NoPage /\ page \in Pages /\ pos >= Len(file) /\ Searched
    BY DEF LinksInv, IInv, PageTypes
  <2>2. file \in Seq(Marks) /\ Shows(file, link)
    BY <2>1, PageShowsLinks
  <2>3. link \in Seq(Marks)
    BY <2>1, NameOfLink
  <2> HIDE DEF link
  <2>4. PICK s \in 1..Len(file) : \E e \in s + 2 .. Len(file) :
          /\ LinkAt(file, s, e) /\ e = s + 2 + Len(link)
          /\ \A k \in 1..Len(link) : file[s + 1 + k] = link[k]
    BY <2>2 DEF Shows
  <2>5. PICK e \in s + 2 .. Len(file) :
          /\ LinkAt(file, s, e) /\ e = s + 2 + Len(link)
          /\ \A k \in 1..Len(link) : file[s + 1 + k] = link[k]
    BY <2>4
  <2>6. SubSeq(file, s + 2, e - 1) = link
    <3> DEFINE name == SubSeq(file, s + 2, e - 1)
               n == Len(link)
    <3>1. n \in Nat /\ e - 1 = s + 1 + n /\ e - 1 <= Len(file) /\ s \in Nat /\ s >= 1
      BY <2>2, <2>3, <2>5
    <3>2. name \in Seq(Marks) /\ Len(name) = n /\ \A k \in 1..n : name[k] = file[s + 1 + k]
      BY <2>2, <3>1
    <3> HIDE DEF name
    <3>3. \A k \in 1..Len(link) : name[k] = link[k]
      BY <2>5, <3>2
    <3>4. name = link
      BY <2>3, <3>2, <3>3, SeqEqual
    <3> QED
      BY <3>4 DEF name
  <2>7. s \in LinkStarts /\ s <= pos
    <3>1. file[s] = HREF
      BY <2>5 DEF LinkAt
    <3>2. s \in LinkStarts
      BY <2>1, <3>1, StoredLinks
    <3>3. Len(file) \in Nat /\ pos \in Nat
      BY <2>2 DEF IInv, PageTypes
    <3> QED
      BY <2>1, <3>2, <3>3
  <2>8. LinkEnd(s) = e
    BY <2>2, <2>5, LinkEndIs
  <2>9. Taken(s)
    BY <2>1, <2>7 DEF Searched
  <2> QED
    BY <2>6, <2>8, <2>9 DEF Taken, link
<1> QED
  BY <1>1, InductiveInvariant, LinksInvariant, PTL

===============================================================================

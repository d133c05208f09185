----------------------------- MODULE MCExchange -----------------------------
(***************************************************************************)
(* A small instance of Exchange for TLC: the requests of parsing-test.c    *)
(* and of the clients in this repository, with each part varied, and pages *)
(* of up to two links.                                                     *)
(***************************************************************************)
EXTENDS Exchange

Request(method, scheme, host, path, version, named, hostLine, keepAlive) ==
  [method |-> method, scheme |-> scheme, host |-> host, path |-> path,
   version |-> version, named |-> named, hostLine |-> hostLine, keepAlive |-> keepAlive]

Unknown == <<"u", "n">>
Known   == <<"o", "k">>
Blocked == <<"b", "l">>

MCOkHosts == {Known}
MCBlockedHosts == {Blocked}

\* Every request line, for a host that is not found.
MCLines ==
  {Request(m, s, Unknown, p, v, FALSE, <<>>, FALSE) :
     m \in {"GET", "POST", "HELLO"}, s \in {<<"http://">>, <<"https://">>, <<>>},
     p \in {<<>>, <<"/">>, <<"/", "p">>}, v \in {"HTTP/1.1", "HTTP/1.0", "HTTP/", ""}}

\* Header lines; a Host line with another name, or with none; a line that
\* fills the buffer, exactly or not; and lines without a URL.
MCHeaders ==
  {Request("GET", <<"http://">>, h, <<"/", "p">>, "HTTP/1.1", TRUE, l, k) :
     h \in {Unknown, Blocked}, l \in {Unknown, Blocked, <<" ", "u", "n", "x">>}, k \in BOOLEAN}
  \cup {Request("GET", <<"http://">>, Unknown, <<"/", "p">>, "HTTP/1.1", FALSE, <<>>, TRUE)}

MCBlank ==
  {Request("GET", s, Unknown, <<"/">>, "HTTP/1.1", TRUE, l, FALSE) :
     s \in {<<"http://">>, <<"https://">>}, l \in {<<>>, <<" ">>}}

MCOthers ==
  {Request("GET", <<"http://">>, Unknown, <<"/", "p">> \o [k \in 1..n |-> "q"], "HTTP/1.1", FALSE, <<>>, FALSE) :
     n \in 7..10}
  \cup {Request("HELLO", <<>>, <<>>, <<>>, v, FALSE, <<>>, FALSE) : v \in {"HTTP/1.1", ""}}

\* Pages are fetched for these; the second has a path that is cut, to one that
\* ends in '/'.
MCPages ==
  {Request("GET", <<"http://">>, Known, p, "HTTP/1.1", FALSE, <<>>, FALSE) :
     p \in {<<"/", "p", "/">>, <<"/">> \o [k \in 1..8 |-> "q"] \o <<"/", "q">>}}

MCRequests == MCLines \cup MCHeaders \cup MCBlank \cup MCOthers \cup MCPages

Link(host, path) == [host |-> host, path |-> path]

MCLinks ==
  {Link(<<>>, <<"/">>), Link(<<>>, <<"/", "p", "/">>), Link(Known, <<"/", "p">>),
   Link(Known, <<>>), Link(<<>>, <<"p">>), Link(<<>>, <<>>)}

MCTwoLinks == <<Link(<<>>, <<"/">>), Link(<<>>, <<"/", "p", "/">>)>>

MCPageSet ==
  [announced : {TRUE}, gap : {0, 2}, links : {<<>>, MCTwoLinks} \cup {<<l>> : l \in MCLinks}]
  \cup [announced : {FALSE}, gap : {0, 5}, links : {MCTwoLinks, <<Link(Known, <<"/", "p">>)>>}]

\* Nothing, a quote, or a whole link of an earlier page.
MCMemory == {<<>>, <<"\"">>, <<".", "href=", "\"", "/", "z", "\"">>}

=============================================================================

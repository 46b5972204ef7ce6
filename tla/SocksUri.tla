----------------------------- MODULE SocksUri -----------------------------
(***************************************************************************)
(* uri::parse (src/src/socks/impl/uri.ipp) with the checks of a host       *)
(* (src/src/socks/detail/host.hpp): what WSSession::start and              *)
(* HttpSession::start make of the proxy setting.  The parser reads a text  *)
(* symbol by symbol.  The symbols stand for the classes of characters it   *)
(* tells apart (src/src/socks/detail/char_type.hpp): "a" for the letters   *)
(* that are hexadecimal digits but f, "9" for the digits but 0, three      *)
(* whole words that only schemes consist of; every other symbol is itself. *)
(* So numbers have neither a prefix nor leading zeros, no IPv6 address ends *)
(* in an IPv4 address, and that ishexdigit takes every letter for a digit  *)
(* is not seen: the letters after f occur in the words of schemes only.    *)
(* Path, query and fragment are recognised but not kept, for nobody asks   *)
(* for them.                                                               *)
(***************************************************************************)
EXTENDS SequencesExt, Integers

Alpha == {"a", "socks4", "socks5", "file"}
Unreserved == Alpha \cup {"9", "-", ".", "_", "~"}
SubDelims == {"!", "$", "'", "(", ")", "*", "+", ",", "="}
HSegment == Unreserved \cup {";", "?", "&", "=", ":", "@"}

---------------------------------------------------------------------------
(* Hosts.                                                                  *)

\* The parts of s between its separators; the code sees no part after a
\* separator that ends s, but has that separator in the last part.
Parts(s, sep) ==
  LET ends == {i \in 1 .. Len(s) : s[i] = sep \/ i = Len(s)}
      from(i) == Max({0} \cup {j \in ends : j < i}) + 1
      part(i) == SubSeq(s, from(i), IF i = Len(s) THEN i ELSE i - 1)
  IN  [k \in 1 .. Cardinality(ends) |->
         part(CHOOSE i \in ends : Cardinality({j \in ends : j <= i}) = k)]

\* The value of a part in decimal: nothing but "9" has one.  Bound: nine digits.
Decimal(s) == IF \A i \in DOMAIN s : s[i] = "9" THEN 10 ^ Len(s) - 1 ELSE -1

\* is_ipv4_host(s) = host_invalid: an address with a number too large.  What
\* is no address at all may be a name.
BadIpv4(s) ==
  LET parts == Parts(s, ".")
      n == Len(parts)
      value == [k \in 1 .. n |-> Decimal(parts[k])]
  IN  \/ s = <<>>
      \/ /\ n <= 4 /\ \A k \in 1 .. n : value[k] >= 0
         /\ \/ \E k \in 1 .. n : value[k] > 255 /\ value[k] > value[n]
            \/ n > 1 /\ value[n] >= 256 ^ (5 - n)

\* is_ipv6_host(s) = host_invalid.  The last character is looked at only as
\* part of a number.  A part is too large when it has five digits.
BadIpv6(s) ==
  LET parts == Parts(s, ":")
      colons == Cardinality({i \in 2 .. Len(s) : s[i] = ":" /\ s[i - 1] = ":"})
      large(p) == Len(p) > 4 /\ \A i \in DOMAIN p : p[i] \in {"a", "9"}
  IN  \/ \E i \in 1 .. Len(s) - 1 : s[i] \notin {"a", "9", ":"}
      \/ \E k \in DOMAIN parts : large(parts[k])
      \/ colons > 1
      \/ Len(parts) > 8
      \/ Len(parts) < 8 /\ colons = 0

CheckHost(h, six) == IF six THEN ~BadIpv6(h) ELSE ~BadIpv4(h)

---------------------------------------------------------------------------
(* The parser's state.                                                     *)

Fresh ==
  [state |-> "scheme_start", verdict |-> "none", from |-> 1, next |-> 1,
   six |-> FALSE, v6start |-> 0, v6end |-> 0,
   probe |-> <<>>, portAt |-> 0, hasPort |-> FALSE, portValid |-> FALSE,
   scheme |-> <<>>, username |-> <<>>, password |-> <<>>, host |-> <<>>, port |-> <<>>]

Refuse(p) == [p EXCEPT !.verdict = "refused"]
Accept(p) == [p EXCEPT !.verdict = IF @ = "none" THEN "accepted" ELSE @]

\* The next part starts at k, where reading goes on.
Enter(p, state, k) == [p EXCEPT !.state = state, !.from = k, !.next = k]

WithHost(p, h) == IF CheckHost(h, p.six) THEN [p EXCEPT !.host = h] ELSE Refuse(p)

---------------------------------------------------------------------------
(* The states, entered with the symbol at i.                               *)

SchemeStart(t, p, i) == IF t[i] \in Alpha THEN [p EXCEPT !.state = "scheme"] ELSE Refuse(p)

Scheme(t, p, i) ==
  CASE t[i] \in Alpha \cup {"9", "+", "-", "."} -> p
    [] t[i] = ":" -> [p EXCEPT !.state = "slash_start", !.scheme = SubSeq(t, 1, i - 1)]
    [] OTHER -> Refuse(p)

\* Both of these end a text that ends in them.
Section(t, p, i) ==
  LET q == Enter(p, IF t[i] = "?" THEN "query" ELSE "fragment", i + 1)
  IN  IF i = Len(t) THEN Accept(q) ELSE q

Urn(t, p, i) ==
  CASE i = Len(t) -> Accept(p)
    [] i < Len(t) /\ t[i] = "?" -> Enter(p, "query", i + 1)
    [] OTHER -> p

Path(t, p, i) ==
  CASE t[i] \in {"?", "#"} -> Section(t, p, i)
    [] t[i] \notin {"?", "#"} /\ i = Len(t) -> Accept(p)
    [] t[i] \in Unreserved \cup SubDelims \cup {"%", "/", "&", ":"} /\ i < Len(t) -> p
    [] OTHER -> Refuse(p)

Query(t, p, i) ==
  CASE t[i] = "#" -> Section(t, p, i)
    [] t[i] # "#" /\ i = Len(t) -> Accept(p)
    [] t[i] \in (HSegment \cup SubDelims \cup {"/"}) /\ i < Len(t) -> p
    [] OTHER -> Refuse(p)

Fragment(t, p, i) ==
  CASE i = Len(t) -> Accept(p)
    [] t[i] \in (HSegment \cup SubDelims \cup {"/"}) /\ i < Len(t) -> p
    [] OTHER -> Refuse(p)

\* A symbol that does not belong to the scheme's slashes is read again.
SlashStart(t, p, i) ==
  IF t[i] = "/" THEN [p EXCEPT !.state = "slash"] ELSE Urn(t, Enter(p, "urn", i), i)

Slash(t, p, i) ==
  CASE t[i] # "/" -> Refuse(p)
    [] t[i] = "/" /\ p.scheme = <<"file">> /\ i < Len(t) /\ t[i + 1] = "/" -> Enter(p, "path", i + 1)
    [] OTHER -> Enter(p, "probe", i + 1)

\* A symbol of {"/", "?", "#"} ends the host or the port.
AfterHost(t, p, i) ==
  CASE p.verdict = "refused" -> p
    [] p.verdict = "none" /\ t[i] = "/" -> Path(t, Enter(p, "path", i), i)
    [] OTHER -> Section(t, p, i)

\* Mutant: the first group of an address stays in the probe.
BracketKeepsProbe(t, p, i) ==
  LET closes == p.six /\ p.v6end = 0
  IN  CASE t[i] = "[" -> [p EXCEPT !.six = p.v6start = 0, !.v6start = IF @ = 0 THEN i + 1 ELSE @]
        [] t[i] = "]" -> [p EXCEPT !.six = closes, !.v6end = IF closes THEN i ELSE @]
        [] OTHER -> p

\* What a bracket does to a text that may be user information or a host.
Bracket(t, p, i) ==
  LET closes == p.six /\ p.v6end = 0
  IN  CASE t[i] = "[" -> [p EXCEPT !.six = p.v6start = 0, !.v6start = IF @ = 0 THEN i + 1 ELSE @]
        [] t[i] = "]" -> [p EXCEPT !.six = closes, !.v6end = IF closes THEN i ELSE @,
                                   !.probe = IF closes THEN <<>> ELSE @]
        [] OTHER -> p

\* There was no user information: the text up to e is host and port.
Authority(t, p, e) ==
  LET port == SubSeq(t, p.portAt, e)
  IN  CASE p.six ->
             IF p.v6end <= p.v6start \/ (p.probe # <<>> /\ ~p.portValid) THEN Refuse(p)
             ELSE WithHost([p EXCEPT !.port = IF p.probe # <<>> THEN port ELSE <<>>],
                           SubSeq(t, p.v6start, p.v6end - 1))
        [] ~p.six /\ p.v6start = 0 /\ p.v6end = 0 /\ p.hasPort ->
             IF p.portValid THEN WithHost([p EXCEPT !.port = port], p.probe) ELSE Refuse(p)
        [] ~p.six /\ p.v6start = 0 /\ p.v6end = 0 /\ ~p.hasPort ->
             WithHost(p, SubSeq(t, p.from, e))
        [] OTHER -> Refuse(p)

\* Up to an "@" everything was user information, the probe the name.
UserInfo(t, p, i) ==
  [Enter(p, "host", i + 1) EXCEPT
     !.username = IF p.probe # <<>> THEN p.probe ELSE SubSeq(t, p.from, i - 1),
     !.password = IF p.probe # <<>> THEN SubSeq(t, p.portAt, i - 1) ELSE <<>>,
     !.v6start = 0, !.v6end = 0, !.six = FALSE]

\* probe_userinfo_hostname.
Probe(t, b, i) ==
  LET p == Bracket(t, b, i)
      q == [p EXCEPT !.portValid = @ /\ t[i] = "9"]
  IN  CASE t[i] = "@" -> UserInfo(t, p, i)
        [] t[i] = ":" /\ i = Len(t) -> Accept(WithHost(p, SubSeq(t, p.from, i - 1)))
        [] t[i] = ":" /\ i < Len(t) /\ p.probe = <<>> ->
             [p EXCEPT !.probe = SubSeq(t, p.from, i - 1), !.portAt = i + 1,
                       !.hasPort = TRUE, !.portValid = TRUE]
        [] t[i] \in {"/", "?", "#"} -> AfterHost(t, Authority(t, p, i - 1), i)
        [] i = Len(t) /\ t[i] \notin {"@", ":", "/", "?", "#"} -> Accept(Authority(t, q, i))
        [] i < Len(t) /\ (t[i] \in Unreserved \cup SubDelims \cup {"%", " ", "[", "]"}
                            \/ (t[i] = ":" /\ p.probe # <<>>)) -> q
        [] OTHER -> Refuse(p)

\* An address in brackets has ended at i, and the symbol after it decides.
HostEnds(t, p, i) ==
  CASE p.verdict = "refused" -> p
    [] p.verdict = "none" /\ i = Len(t) -> Accept(p)
    [] p.verdict = "none" /\ i < Len(t) ->
         CASE t[i + 1] = ":" -> Enter(p, "port", i + 2)
           [] t[i + 1] = "/" -> Enter(p, "path", i + 1)
           [] t[i + 1] = "?" -> Enter(p, "query", i + 2)
           [] t[i + 1] = "#" -> Enter(p, "fragment", i + 2)
           [] OTHER -> Refuse(p)

Host(t, p, i) ==
  LET before == WithHost(p, SubSeq(t, p.from, i - 1))
  IN  CASE t[i] = "[" ->
             IF p.v6start # 0 THEN Refuse(p) ELSE [p EXCEPT !.six = TRUE, !.v6start = i + 1]
        [] t[i] = "]" /\ p.six -> HostEnds(t, WithHost(p, SubSeq(t, p.v6start, i - 1)), i)
        [] t[i] = "/" /\ p.six -> Refuse(p)
        [] t[i] = ":" /\ ~p.six ->
             IF before.verdict = "refused" THEN before ELSE Enter(before, "port", i + 1)
        [] t[i] \in {"?", "#"} \/ (t[i] = "/" /\ ~p.six) -> AfterHost(t, before, i)
        [] OTHER ->
             CASE i = Len(t) -> Accept(WithHost(p, SubSeq(t, p.from, i)))
               [] i < Len(t) /\ t[i] \in Unreserved \cup SubDelims \cup {"%", ":", "@"} -> p
               [] OTHER -> Refuse(p)

\* The last symbol of a port that ends the text is not looked at.
Port(t, p, i) ==
  CASE t[i] \in {"/", "?", "#"} -> AfterHost(t, [p EXCEPT !.port = SubSeq(t, p.from, i - 1)], i)
    [] i = Len(t) /\ t[i] \notin {"/", "?", "#"} -> Accept([p EXCEPT !.port = SubSeq(t, p.from, i)])
    [] i < Len(t) /\ t[i] = "9" -> p
    [] OTHER -> Refuse(p)

Read(t, p, i) ==
  CASE p.state = "scheme_start" -> SchemeStart(t, p, i)
    [] p.state = "scheme"       -> Scheme(t, p, i)
    [] p.state = "slash_start"  -> SlashStart(t, p, i)
    [] p.state = "slash"        -> Slash(t, p, i)
    [] p.state = "urn"          -> Urn(t, p, i)
    [] p.state = "probe"        -> Probe(t, p, i)
    [] p.state = "host"         -> Host(t, p, i)
    [] p.state = "port"         -> Port(t, p, i)
    [] p.state = "path"         -> Path(t, p, i)
    [] p.state = "query"        -> Query(t, p, i)
    [] p.state = "fragment"     -> Fragment(t, p, i)

\* One turn of the loop.
Turn(t, p, i) == IF p.verdict = "none" /\ i >= p.next THEN Read(t, p, i) ELSE p

\* The parser after each symbol of t.
Run(t) ==
  LET run[i \in 0 .. Len(t)] == IF i = 0 THEN Fresh ELSE Turn(t, run[i - 1], i) IN run

\* A text that ends where more is expected is refused.
Parse(t) ==
  LET end == Run(t)[Len(t)]
  IN  [accepted |-> end.verdict = "accepted",
       scheme |-> end.scheme, username |-> end.username, password |-> end.password,
       host |-> end.host, port |-> end.port]

\* What start makes of u, which parse returned for the text t.
SchemeOf(t, u) ==
  CASE t = <<>> -> "none"
    [] t # <<>> /\ u.accepted /\ u.scheme \in {<<"socks4">>, <<"socks5">>} -> u.scheme[1]
    [] OTHER -> "other"

---------------------------------------------------------------------------
(* What a proxy setting says, read from its form: scheme://user:password@  *)
(* host:port, of which user, password and port may be missing, an IPv6     *)
(* address stands in brackets, and a path, a query or a fragment that is   *)
(* not empty may follow: an empty one the parser accepts after some forms  *)
(* of the host only.                                                       *)

FirstOf(t, S) == Min({i \in DOMAIN t : t[i] \in S} \cup {Len(t) + 1})
Over(t, S) == \A i \in DOMAIN t : t[i] \in S

Prefix == 4    \* the scheme's word, and "://"

AuthorityOf(t) ==
  LET behind == SubSeq(t, Prefix + 1, Len(t))
  IN  SubSeq(behind, 1, FirstOf(behind, {"/", "?", "#"}) - 1)

HasInfo(t) == \E i \in DOMAIN AuthorityOf(t) : AuthorityOf(t)[i] = "@"

InfoOf(t) ==
  LET a == AuthorityOf(t) IN IF HasInfo(t) THEN SubSeq(a, 1, FirstOf(a, {"@"}) - 1) ELSE <<>>

ServerOf(t) ==
  LET a == AuthorityOf(t) IN IF HasInfo(t) THEN SubSeq(a, FirstOf(a, {"@"}) + 1, Len(a)) ELSE a

Bracketed(t) == ServerOf(t) # <<>> /\ ServerOf(t)[1] = "["

HostOf(t) ==
  LET s == ServerOf(t)
  IN  IF Bracketed(t) THEN SubSeq(s, 2, FirstOf(s, {"]"}) - 1)
                      ELSE SubSeq(s, 1, FirstOf(s, {":"}) - 1)

\* The colon and the port.
PortPart(t) ==
  LET s == ServerOf(t)
  IN  SubSeq(s, Len(HostOf(t)) + (IF Bracketed(t) THEN 3 ELSE 1), Len(s))

AsWritten(t) ==
  LET info == InfoOf(t)
      colon == FirstOf(info, {":"})
  IN  [accepted |-> TRUE, scheme |-> <<t[1]>>,
       username |-> SubSeq(info, 1, colon - 1), password |-> SubSeq(info, colon + 1, Len(info)),
       host |-> HostOf(t), port |-> IF PortPart(t) = <<>> THEN <<>> ELSE Tail(PortPart(t))]

\* A name, or four numbers of at most two digits.
GoodName(h) ==
  /\ h # <<>> /\ Over(h, Unreserved)
  /\ \/ ~Over(h, {"9", "."})
     \/ LET parts == Parts(h, ".")
        IN  Len(parts) = 4 /\ \A k \in 1 .. 4 : Len(parts[k]) \in 1 .. 2 /\ Over(parts[k], {"9"})

\* Groups of at most four digits, some of them left out once.
GoodIpv6(h) ==
  /\ Over(h, {"a", "9", ":"})
  /\ Cardinality({i \in DOMAIN h : h[i] = ":"}) <= 7
  /\ Cardinality({i \in 2 .. Len(h) : h[i - 1] = ":" /\ h[i] = ":"}) = 1
  /\ \A i \in 1 .. Len(h) - 4 : \E j \in i .. i + 4 : h[j] = ":"

WellFormed(t) ==
  /\ Len(t) > Prefix /\ t[1] \in Alpha \ {"file"} /\ SubSeq(t, 2, Prefix) = <<":", "/", "/">>
  /\ InfoOf(t) # <<>> => InfoOf(t)[1] # ":"
  /\ Over(InfoOf(t), Unreserved \cup SubDelims \cup {"%", ":"})
  /\ IF Bracketed(t) THEN GoodIpv6(HostOf(t)) /\ "]" \in Range(ServerOf(t)) ELSE GoodName(HostOf(t))
  /\ PortPart(t) # <<>> =>
       PortPart(t)[1] = ":" /\ Len(PortPart(t)) > 1 /\ Over(Tail(PortPart(t)), {"9"})
  /\ Over(SubSeq(t, Prefix + Len(AuthorityOf(t)) + 2, Len(t)), Unreserved \cup {"/"})
  /\ t[Len(t)] \notin {"?", "#"}
===========================================================================

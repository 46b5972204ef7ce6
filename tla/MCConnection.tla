--------------------------- MODULE MCConnection ---------------------------
(* Both kinds of session, with every proxy setting of the usual form with  *)
(* parts of a few symbols, every text of up to four symbols behind the     *)
(* scheme, and some that are none of these.                                *)
EXTENDS Connection

\* The names on both sides of the ten bytes that are read first, and the longest.
NameLengths == {0, 1, 2, 3, 4, 5, 11, 254, 255}

Behind(word) == <<word, ":", "/", "/">>

Infos ==
  {<<>>, <<"a", "@">>, <<"a", ":", "@">>, <<"a", ":", "9", "9", "@">>,
   <<"9", ":", "a", ":", "%", "@">>}
Hosts ==
  {<<"a">>, <<"a", ".", "9">>, <<"9", ".", "9", "9", ".", "9", ".", "9">>,
   <<"[", ":", ":", "9", "]">>, <<"[", "9", "a", ":", "a", ":", ":", "]">>}
Ports == {<<>>, <<":", "9">>, <<":", "9", "9", "9">>}
Rests == {<<>>, <<"/">>, <<"/", "a">>, <<"?", "9">>, <<"#">>}

Usual ==
  {Behind("socks5") \o info \o host \o port \o rest :
     info \in Infos, host \in Hosts, port \in Ports, rest \in Rests}
Short == {Behind("socks4") \o s : s \in BoundedSeq({"a", "9", ":", "/", "@", "[", "]", "?"}, 4)}
Odd ==
  {<<>>, <<"9">>, <<"a", ":">>, <<"socks5", ":", "a">>, <<"socks5", ":", "a", "?", "a">>,
   <<"socks5", ":", "/", "a">>, <<"a", "+", "socks5", ":", "/", "/", "a">>,
   Behind("file") \o <<"/", "a", "#", "a">>, Behind("file") \o <<"a", "/">>,
   Behind("socks5") \o <<"9", "9", "9", ".", "9">>, Behind("socks5") \o <<"a", "#", "%", "a">>,
   Behind("socks5") \o <<"a", "@", "[", ":", ":", "]", ":", "9">>}

AllSettings == Usual \cup Short \cup Odd
===========================================================================

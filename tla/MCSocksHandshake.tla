------------------------ MODULE MCSocksHandshake ------------------------
(* Both versions, with the domain names of a few lengths.                  *)
EXTENDS SocksHandshake

\* The names on both sides of the ten bytes that are read first, and the longest.
NameLengths == {0, 1, 2, 3, 4, 5, 11, 254, 255}
===========================================================================

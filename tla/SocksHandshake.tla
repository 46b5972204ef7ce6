-------------------------- MODULE SocksHandshake --------------------------
(***************************************************************************)
(* The client side of the SOCKS handshakes (src/src/socks/impl/            *)
(* handshake.hpp): socks4_op and socks5_op, one action for each entry of   *)
(* their operator().  Only one operation on the stream is pending at a     *)
(* time.  A read asks for an exact number of bytes, so what matters of a   *)
(* server's answer is what its fields say and how many bytes it has: a     *)
(* read that asks for too few leaves bytes to the TLS handshake that       *)
(* follows, one that asks for too many waits for ever.                     *)
(***************************************************************************)
EXTENDS Integers

CONSTANTS
  Versions,       \* versions of the protocol the proxy setting may name
  DomainLengths   \* lengths of the domain names the server may reply with

ASSUME SocksAssumption ==
  /\ Versions \subseteq {4, 5}
  /\ DomainLengths \subseteq 0 .. 255

VARIABLES
  version,   \* which of the two operations runs
  user,      \* a username is configured
  literal,   \* the host is an IPv4 address, not a name
  step,      \* step_
  op,        \* the pending operation: "write", "read" or, at the end, "none"
  need,      \* bytes the pending read asks for
  got,       \* bytes in response_
  outcome,   \* "none" yet, "ok", or the error the handler gets
  \* The server (external).
  left,      \* bytes it has sent that have not been read
  method,    \* its answer to the greeting
  auth,      \* its answer to username and password
  reply      \* its answer to the request

config == <<version, user, literal>>
server == <<left, method, auth, reply>>
vars == <<config, step, op, need, got, outcome, server>>

Methods == {"noauth", "password", "unacceptable", "malformed"}
Auths == {"accepted", "refused", "malformed"}
AddressTypes == {"ipv4", "domain", "ipv6", "unknown"}

\* rep is REP of a SOCKS5 reply or CD of a SOCKS4 reply.
Replies ==
  IF version = 4
  THEN [wellFormed : {TRUE}, rep : 90 .. 94, atyp : {"ipv4"}, len : {0}]
  ELSE [wellFormed : BOOLEAN, rep : 0 .. 9, atyp : AddressTypes \ {"domain"}, len : {0}]
         \cup [wellFormed : BOOLEAN, rep : 0 .. 9, atyp : {"domain"}, len : DomainLengths]

NoReply == [wellFormed |-> FALSE, rep |-> 255, atyp |-> "unknown", len |-> 0]

\* The bytes of a reply.  SOCKS5: four fields, the address (a domain name
\* after its length) and the port.
ReplySize(r) ==
  IF version = 4 THEN 8
  ELSE CASE r.atyp = "domain" -> 4 + 1 + r.len + 2
         [] r.atyp = "ipv6"   -> 4 + 16 + 2
         [] OTHER             -> 4 + 4 + 2

Init ==
  /\ version \in Versions /\ user \in BOOLEAN /\ literal \in BOOLEAN
  /\ step = 0 /\ op = "none" /\ need = 0 /\ got = 0 /\ outcome = "none"
  /\ left = 0 /\ method = "none" /\ auth = "none" /\ reply = NoReply

---------------------------------------------------------------------------
(* What an entry of operator() ends in.                                    *)

Write(next) == step' = next /\ op' = "write" /\ UNCHANGED <<need, outcome>>

AskFor(n, next) == step' = next /\ op' = "read" /\ need' = n /\ UNCHANGED outcome

Complete(result) == outcome' = result /\ op' = "none" /\ UNCHANGED <<step, need>>

\* Case 0 of both: the greeting, or the SOCKS4 request, whose address must
\* be a literal.
Start ==
  /\ step = 0 /\ outcome = "none"
  /\ IF version = 4 /\ ~literal THEN Complete("invalid_argument") ELSE Write(1)
  /\ UNCHANGED <<config, got, server>>

\* Cases 1, 3 and 6, and case 1 of SOCKS4: something is written, its answer
\* is to be read into an empty buffer.
Written ==
  /\ op = "write"
  /\ \/ version = 4 /\ AskFor(8, 2)
     \/ version = 5 /\ step = 1 /\ AskFor(2, 2)
     \/ version = 5 /\ step = 3 /\ AskFor(2, 4)
     \/ version = 5 /\ step = 6 /\ AskFor(10, 7)
  /\ got' = 0
  /\ UNCHANGED <<config, server>>

\* The pending read has all the bytes it asked for.
Received(at) ==
  /\ op = "read" /\ step = at
  /\ need <= left
  /\ left' = left - need
  /\ got' = got + need
  /\ UNCHANGED <<config, method, auth, reply>>

\* Case 2: the server has chosen a method; no authentication leads straight
\* to case 5, the request.
ReadMethod ==
  /\ version = 5 /\ Received(2)
  /\ \/ method = "malformed" /\ Complete("unsupported_version")
     \/ method = "password" /\ user /\ Write(3)
     \/ method = "password" /\ ~user /\ Complete("username_required")
     \/ method = "noauth" /\ Write(6)
     \/ method = "unacceptable" /\ Complete("unsupported_authentication_version")

\* Mutant: a refusal is not looked at.
ReadAuthBlindly ==
  /\ version = 5 /\ Received(4)
  /\ \/ auth = "malformed" /\ Complete("unsupported_authentication_version")
     \/ auth # "malformed" /\ Write(6)

\* Case 4, and case 5 if the server lets the client in.
ReadAuth ==
  /\ version = 5 /\ Received(4)
  /\ \/ auth = "malformed" /\ Complete("unsupported_authentication_version")
     \/ auth = "refused" /\ Complete("authentication_error")
     \/ auth = "accepted" /\ Write(6)

\* What the code calls the refusals of a server.
ErrorOf(rep) ==
  IF version = 4
  THEN CASE rep = 91 -> "request_rejected_or_failed"
         [] rep = 92 -> "request_rejected_cannot_connect"
         [] rep = 93 -> "request_rejected_incorrect_userid"
         [] OTHER    -> "unknown_error"
  ELSE CASE rep = 1 -> "general_failure"
         [] rep = 2 -> "connection_not_allowed_by_ruleset"
         [] rep = 3 -> "network_unreachable"
         [] rep = 4 -> "connection_refused"
         [] rep = 5 -> "ttl_expired"
         [] rep = 6 -> "command_not_supported"
         [] rep = 7 -> "address_type_not_supported"
         [] OTHER   -> "unassigned"

Granted(rep) == rep = IF version = 4 THEN 90 ELSE 0

\* Case 8, and case 2 of SOCKS4.
Conclude == Complete(IF Granted(reply.rep) THEN "ok" ELSE ErrorOf(reply.rep))

\* Mutant: the length byte is counted in.
ReadReplyShort ==
  /\ version = 5 /\ Received(7)
  /\ \/ ~reply.wellFormed /\ Complete("unsupported_version")
     \/ reply.wellFormed /\ reply.atyp = "unknown" /\ Complete("general_failure")
     \/ reply.wellFormed /\ reply.atyp = "domain" /\ AskFor(reply.len - 4, 8)
     \/ reply.wellFormed /\ reply.atyp = "ipv6" /\ AskFor(12, 8)
     \/ reply.wellFormed /\ reply.atyp = "ipv4" /\ Conclude

\* Mutant: the rest of a domain name is taken to be all of it.
ReadReplyFull ==
  /\ version = 5 /\ Received(7)
  /\ \/ ~reply.wellFormed /\ Complete("unsupported_version")
     \/ reply.wellFormed /\ reply.atyp = "unknown" /\ Complete("general_failure")
     \/ reply.wellFormed /\ reply.atyp = "domain" /\ AskFor(reply.len, 8)
     \/ reply.wellFormed /\ reply.atyp = "ipv6" /\ AskFor(12, 8)
     \/ reply.wellFormed /\ reply.atyp = "ipv4" /\ Conclude

\* Case 7: ten bytes are there, which is all of an IPv4 reply; the rest of a
\* longer one is asked for.
ReadReply ==
  /\ version = 5 /\ Received(7)
  /\ \/ ~reply.wellFormed /\ Complete("unsupported_version")
     \/ reply.wellFormed /\ reply.atyp = "unknown" /\ Complete("general_failure")
     \/ reply.wellFormed /\ reply.atyp = "domain" /\ AskFor(reply.len - 3, 8)
     \/ reply.wellFormed /\ reply.atyp = "ipv6" /\ AskFor(12, 8)
     \/ reply.wellFormed /\ reply.atyp = "ipv4" /\ Conclude

ReadRest == version = 5 /\ Received(8) /\ Conclude

ReadReply4 == version = 4 /\ Received(2) /\ Conclude

Client ==
  Start \/ Written \/ ReadMethod \/ ReadAuth \/ ReadReply \/ ReadRest \/ ReadReply4

---------------------------------------------------------------------------
(* The server and the network (external).                                  *)

\* The server answers what was written, all bytes of the answer at once.
Answer ==
  /\ op = "read" /\ got = 0 /\ left = 0
  /\ \/ /\ version = 5 /\ step = 2
        /\ method' \in Methods /\ left' = 2
        /\ UNCHANGED <<auth, reply>>
     \/ /\ version = 5 /\ step = 4
        /\ auth' \in Auths /\ left' = 2
        /\ UNCHANGED <<method, reply>>
     \/ /\ version = 4 \/ step = 7
        /\ reply' \in Replies /\ left' = ReplySize(reply')
        /\ UNCHANGED <<method, auth>>
  /\ UNCHANGED <<config, step, op, need, got, outcome>>

\* A pending operation fails, the connection's timeout among the reasons.
Lost ==
  /\ op # "none"
  /\ Complete("lost")
  /\ UNCHANGED <<config, got, server>>

Next == Client \/ Answer \/ Lost

\* The io_context runs its handlers and the server answers.
Spec == Init /\ [][Next]_vars /\ WF_vars(Client) /\ WF_vars(Answer)
---------------------------------------------------------------------------
(* Properties.                                                             *)

Errors ==
  {"invalid_argument", "unsupported_version", "username_required",
   "unsupported_authentication_version", "authentication_error", "lost",
   "request_rejected_or_failed", "request_rejected_cannot_connect",
   "request_rejected_incorrect_userid", "unknown_error", "general_failure",
   "connection_not_allowed_by_ruleset", "network_unreachable", "connection_refused",
   "ttl_expired", "command_not_supported", "address_type_not_supported", "unassigned"}

\* The shape of the state.
TypeOK ==
  /\ version \in Versions /\ user \in BOOLEAN /\ literal \in BOOLEAN
  /\ step \in {0, 1, 2, 3, 4, 6, 7, 8} /\ op \in {"none", "write", "read"}
  /\ need \in Nat /\ got \in Nat /\ left \in Nat
  /\ outcome \in {"none", "ok"} \cup Errors
  /\ method \in Methods \cup {"none"} /\ auth \in Auths \cup {"none"}
  /\ reply \in Replies \cup {NoReply}

\* When the handshake succeeds, the reply has been read to its last byte and
\* not one byte further: the TLS handshake that follows on the same stream
\* starts on a message boundary.
NothingLeftOver == outcome = "ok" => left = 0 /\ got = ReplySize(reply)

\* It succeeds only if the server granted the request, and accepted the
\* username and password if it asked for them.
SuccessIsGranted ==
  outcome = "ok" =>
    /\ Granted(reply.rep)
    /\ version = 5 => method = "noauth" \/ (method = "password" /\ user /\ auth = "accepted")

\* The reply names a host of no more than two letters: it has seven to nine
\* bytes, and the code asks for ten (handshake.hpp:393).
ShortName == version = 5 /\ step = 7 /\ reply.atyp = "domain" /\ reply.len < 3

\* A read asks for no more than the rest of the answer it is to read, of any
\* kind and length but that of a short name: no other answer makes the
\* handshake wait for bytes that no server sends.
ReadsWhatComes == (op = "read" /\ (left > 0 \/ got > 0)) /\ ~ShortName => need <= left

\* error.hpp's comments: the error a refusal gives rise to is the reason the
\* server gave, in the numbering of the protocol.
Reason ==
  << "general_failure", "connection_not_allowed_by_ruleset", "network_unreachable",
     "host_unreachable", "connection_refused", "ttl_expired", "command_not_supported",
     "address_type_not_supported" >>

RefusalIsNamed ==
  (/\ version = 5 /\ outcome \notin {"none", "ok", "lost"}
   /\ reply.wellFormed /\ reply.atyp # "unknown")
    => outcome = IF reply.rep \in 1 .. 8 THEN Reason[reply.rep] ELSE "unassigned"
===========================================================================

------------------------ MODULE SocksHandshake_proofs ------------------------
(***************************************************************************)
(* Proofs about SocksHandshake: a handshake that succeeds has consumed     *)
(* exactly the reply of a server that granted it, for every address a      *)
(* server may reply with.                                                  *)
(***************************************************************************)
EXTENDS SocksHandshake, TLAPS

\* What the server may have let the client in with.
LetIn == method = "noauth" \/ (method = "password" /\ user /\ auth = "accepted")

\* Where the bytes are while a read is pending.
Reading ==
  op = "read" =>
    \/ version = 4 /\ step = 2 /\ need = 8 /\ got = 0 /\ left = 0
    \/ version = 4 /\ step = 2 /\ need = 8 /\ got = 0 /\ left = 8 /\ reply \in Replies
    \/ version = 5 /\ step \in {2, 4} /\ need = 2 /\ got = 0 /\ left \in {0, 2}
    \/ version = 5 /\ step = 7 /\ need = 10 /\ got = 0 /\ left = 0
    \/ /\ version = 5 /\ step = 7 /\ need = 10 /\ got = 0
       /\ reply \in Replies /\ left = ReplySize(reply)
    \/ /\ version = 5 /\ step = 8 /\ got = 10
       /\ reply \in Replies /\ reply.atyp \in {"domain", "ipv6"}
       /\ need = ReplySize(reply) - 10 /\ left = need

\* How the handshake got where it is.
Progress ==
  /\ op = "write" => left = 0 /\ step \in {1, 3, 6}
  /\ step = 0 => op = "none" /\ left = 0
  /\ outcome = "none" \/ op = "none"
  /\ version = 5 /\ step \in {3, 4} => method = "password" /\ user
  /\ version = 5 /\ step \in {6, 7, 8} => LetIn

\* The operation has not begun.
Idle ==
  /\ step = 0 /\ op = "none" /\ need = 0 /\ got = 0 /\ outcome = "none"
  /\ method = "none" /\ auth = "none" /\ reply = NoReply

IInv == TypeOK /\ Reading /\ Progress /\ NothingLeftOver /\ SuccessIsGranted

\* Every reply but that of a short name has at least the ten bytes that are
\* read first.
LEMMA ReplyTenBytes ==
  ASSUME version = 5, NEW r \in Replies
  PROVE  /\ ReplySize(r) \in Nat
         /\ ReplySize(r) >= 10 \/ (r.atyp = "domain" /\ r.len < 3)
         /\ r.atyp = "domain" => ReplySize(r) = 10 + (r.len - 3)
         /\ r.atyp = "ipv6" => ReplySize(r) = 22
         /\ r.atyp = "ipv4" => ReplySize(r) = 10
         /\ r.len \in Nat /\ r.atyp \in AddressTypes
BY SocksAssumption DEF Replies, ReplySize, AddressTypes

LEMMA ReplyFour ==
  ASSUME version = 4, NEW r
  PROVE  ReplySize(r) = 8
BY DEF Replies, ReplySize

LEMMA Verdict ==
  ASSUME NEW rep
  PROVE  /\ ErrorOf(rep) \in Errors /\ ErrorOf(rep) # "ok" /\ ErrorOf(rep) # "none"
         /\ "ok" \notin Errors /\ "none" \notin Errors
BY Zenon DEF ErrorOf, Errors

\* An operation that ends in an error keeps the invariant.
LEMMA FailureKeeps ==
  ASSUME IInv, NEW e \in Errors, Complete(e), left' \in Nat, got' \in Nat, step # 0 \/ left' = 0,
         UNCHANGED <<config, method, auth, reply>>
  PROVE  IInv'
<1> USE DEF IInv
<1>1. "ok" \notin Errors
  BY DEF Errors
<1>2. TypeOK'
  BY DEF TypeOK, Complete, config, Replies
<1>3. Reading'
  BY DEF Reading, Complete
<1>4. Progress'
  BY DEF Progress, Complete, config, LetIn
<1>5. (NothingLeftOver /\ SuccessIsGranted)'
  BY <1>1 DEF NothingLeftOver, SuccessIsGranted, Complete
<1> QED
  BY <1>2, <1>3, <1>4, <1>5

\* A reply that has been read to its end keeps it, whatever the server says.
LEMMA ConclusionKeeps ==
  ASSUME IInv, Conclude, left' = 0, got' = ReplySize(reply), got' \in Nat, step # 0,
         version = 5 => LetIn, UNCHANGED <<config, method, auth, reply>>
  PROVE  IInv'
<1> USE DEF IInv
<1>1. CASE Granted(reply.rep)
  <2>1. Complete("ok")
    BY <1>1 DEF Conclude
  <2>2. TypeOK'
    BY <2>1 DEF TypeOK, Complete, config, Replies
  <2>3. Reading' /\ Progress'
    BY <2>1 DEF Reading, Progress, Complete, config, LetIn
  <2>4. NothingLeftOver'
    BY DEF NothingLeftOver, config, ReplySize
  <2>5. SuccessIsGranted'
    BY <1>1 DEF SuccessIsGranted, config, Granted, LetIn
  <2> QED
    BY <2>2, <2>3, <2>4, <2>5
<1>2. CASE ~Granted(reply.rep)
  <2>1. Complete(ErrorOf(reply.rep))
    BY <1>2 DEF Conclude
  <2> QED
    BY <2>1, Verdict, FailureKeeps
<1> QED
  BY <1>1, <1>2

\* Going on to write, or to read, keeps it.
LEMMA WritingKeeps ==
  ASSUME IInv, outcome = "none", NEW next \in {1, 3, 6}, Write(next), left' = 0, got' \in Nat,
         version = 5 => /\ next = 3 => method = "password" /\ user
                        /\ next = 6 => LetIn,
         UNCHANGED <<config, method, auth, reply>>
  PROVE  IInv'
<1> USE DEF IInv
<1>1. TypeOK'
  BY DEF TypeOK, Write, config, Replies
<1>2. Reading' /\ Progress'
  BY DEF Reading, Progress, Write, config, LetIn
<1>3. (NothingLeftOver /\ SuccessIsGranted)'
  BY DEF NothingLeftOver, SuccessIsGranted, Write
<1> QED
  BY <1>1, <1>2, <1>3

\* A new operation, on a stream from which nothing is to be read.
LEMMA FreshHolds ==
  ASSUME Idle, left = 0, version \in Versions, user \in BOOLEAN, literal \in BOOLEAN
  PROVE  IInv
<1>1. TypeOK
  BY DEF Idle, TypeOK
<1>2. Reading /\ Progress /\ NothingLeftOver /\ SuccessIsGranted
  BY DEF Idle, Reading, Progress, NothingLeftOver, SuccessIsGranted
<1> QED
  BY <1>1, <1>2 DEF IInv

\* Every step keeps the invariant.
LEMMA StepKeeps ==
  ASSUME IInv, [Next]_vars
  PROVE  IInv'
<1> USE DEF IInv
<1>1. CASE Start
  <2>1. CASE version = 4 /\ ~literal
    BY <1>1, <2>1, FailureKeeps DEF Start, TypeOK, Progress, Errors, config, server
  <2>2. CASE ~(version = 4 /\ ~literal)
    BY <1>1, <2>2, WritingKeeps DEF Start, TypeOK, Progress, config, server
  <2> QED
    BY <2>1, <2>2
<1>2. CASE Written
  <2>1. TypeOK'
    <3>1. /\ step' \in {2, 4, 7} /\ need' \in Nat /\ got' = 0
          /\ op' = "read" /\ UNCHANGED <<version, user, literal, outcome, left, method, auth, reply>>
      BY <1>2 DEF Written, AskFor, config, server
    <3>2. Replies' = Replies
      BY <3>1 DEF Replies
    <3> QED
      BY <3>1, <3>2 DEF TypeOK
  <2>2. Reading'
    BY <1>2 DEF Written, AskFor, TypeOK, Progress, Reading, config, server
  <2>3. Progress'
    BY <1>2 DEF Written, AskFor, TypeOK, Progress, config, server, LetIn
  <2>4. (NothingLeftOver /\ SuccessIsGranted)'
    BY <1>2 DEF Written, AskFor, Progress, NothingLeftOver, SuccessIsGranted
  <2> QED
    BY <2>1, <2>2, <2>3, <2>4
<1>3. CASE ReadMethod
  <2>1. /\ left' = 0 /\ got' = 2 /\ step = 2 /\ outcome = "none"
        /\ UNCHANGED <<config, method, auth, reply>>
    BY <1>3 DEF ReadMethod, Received, Reading, Progress
  <2>2. CASE \E e \in Errors : Complete(e)
    BY <2>1, <2>2, FailureKeeps
  <2>3. CASE method = "password" /\ user /\ Write(3)
    BY <2>1, <2>3, WritingKeeps
  <2>4. CASE method = "noauth" /\ Write(6)
    BY <2>1, <2>4, WritingKeeps DEF LetIn
  <2> QED
    BY <1>3, <2>2, <2>3, <2>4 DEF ReadMethod, Errors
<1>4. CASE ReadAuth
  <2>1. /\ left' = 0 /\ got' = 2 /\ step = 4 /\ outcome = "none" /\ version = 5
        /\ UNCHANGED <<config, method, auth, reply>>
    BY <1>4 DEF ReadAuth, Received, Reading, Progress
  <2>2. CASE \E e \in Errors : Complete(e)
    BY <2>1, <2>2, FailureKeeps
  <2>3. CASE auth = "accepted" /\ Write(6)
    BY <2>1, <2>3, WritingKeeps DEF LetIn, Progress
  <2> QED
    BY <1>4, <2>2, <2>3 DEF ReadAuth, Errors
<1>5. CASE ReadReply
  <2>1. /\ got' = 10 /\ step = 7 /\ outcome = "none" /\ version = 5 /\ LetIn
        /\ reply \in Replies /\ left = ReplySize(reply) /\ left' = left - 10
        /\ UNCHANGED <<config, method, auth, reply>>
    BY <1>5 DEF ReadReply, Received, Reading, Progress, TypeOK
  <2>2. left >= 10
    BY <1>5 DEF ReadReply, Received, Reading
  <2>3. /\ left \in Nat /\ left >= 10 /\ left' \in Nat
        /\ reply.atyp = "domain" => left = 10 + (reply.len - 3)
        /\ reply.atyp = "ipv6" => left = 22
        /\ reply.atyp = "ipv4" => left = 10
    BY <2>1, <2>2, ReplyTenBytes
  <2>4. CASE \E e \in Errors : Complete(e)
    BY <2>1, <2>3, <2>4, FailureKeeps
  <2>5. CASE reply.atyp = "ipv4" /\ Conclude
    BY <2>1, <2>3, <2>5, ConclusionKeeps
  <2>6. CASE reply.atyp \in {"domain", "ipv6"} /\ AskFor(left - 10, 8)
    <3>1. TypeOK'
      BY <2>1, <2>3, <2>6 DEF AskFor, TypeOK, config, Replies
    <3>2. ReplySize(reply)' = ReplySize(reply) /\ Replies' = Replies
      BY <2>1 DEF config, ReplySize, Replies
    <3>3. Reading'
      BY <2>1, <2>3, <2>6, <3>2 DEF AskFor, Reading, config
    <3>4. Progress'
      BY <1>5, <2>1, <2>6 DEF ReadReply, Received, AskFor, Progress, LetIn, config
    <3>5. (NothingLeftOver /\ SuccessIsGranted)'
      BY <2>1, <2>6 DEF AskFor, NothingLeftOver, SuccessIsGranted
    <3> QED
      BY <3>1, <3>3, <3>4, <3>5
  <2>7. /\ reply.atyp = "domain" => reply.len - 3 = left - 10
        /\ reply.atyp = "ipv6" => 12 = left - 10
    BY <2>1, <2>3, ReplyTenBytes
  <2>8. \/ Complete("unsupported_version") \/ Complete("general_failure")
        \/ reply.atyp = "ipv4" /\ Conclude
        \/ reply.atyp = "domain" /\ AskFor(reply.len - 3, 8)
        \/ reply.atyp = "ipv6" /\ AskFor(12, 8)
    BY <1>5 DEF ReadReply
  <2>9. {"unsupported_version", "general_failure"} \subseteq Errors
    BY DEF Errors
  <2> QED
    BY <2>4, <2>5, <2>6, <2>7, <2>8, <2>9
<1>6. CASE ReadRest
  <2>1. /\ version = 5 /\ step = 8 /\ left' = 0 /\ LetIn
        /\ got = 10 /\ need = ReplySize(reply) - 10 /\ got' = got + need /\ reply \in Replies
        /\ UNCHANGED <<config, method, auth, reply>>
    BY <1>6 DEF ReadRest, Received, Reading, Progress, TypeOK
  <2>2. got' = ReplySize(reply) /\ got' \in Nat
    BY <2>1, ReplyTenBytes
  <2> QED
    BY <1>6, <2>1, <2>2, ConclusionKeeps DEF ReadRest
<1>7. CASE ReadReply4
  <2>1. /\ version = 4 /\ step = 2 /\ left' = 0 /\ got' = 8
        /\ UNCHANGED <<config, method, auth, reply>>
    BY <1>7 DEF ReadReply4, Received, Reading
  <2> QED
    BY <1>7, <2>1, ReplyFour, ConclusionKeeps DEF ReadReply4
<1>8. CASE Answer
  <2>1. op = "read" /\ left = 0 /\ got = 0 /\ outcome = "none"
    BY <1>8 DEF Answer, Progress
  <2>2. CASE version = 5 /\ step = 2 /\ method' \in Methods /\ left' = 2
             /\ UNCHANGED <<auth, reply>>
    <3>1. TypeOK' /\ Progress'
      BY <1>8, <2>1, <2>2 DEF Answer, TypeOK, Progress, config, Replies
    <3>2. Reading' /\ NothingLeftOver' /\ SuccessIsGranted'
      BY <1>8, <2>1, <2>2 DEF Answer, Reading, NothingLeftOver, SuccessIsGranted, config
    <3> QED
      BY <3>1, <3>2
  <2>3. CASE version = 5 /\ step = 4 /\ auth' \in Auths /\ left' = 2
             /\ UNCHANGED <<method, reply>>
    <3>1. TypeOK' /\ Progress'
      BY <1>8, <2>1, <2>3 DEF Answer, TypeOK, Progress, config, Replies
    <3>2. Reading' /\ NothingLeftOver' /\ SuccessIsGranted'
      BY <1>8, <2>1, <2>3 DEF Answer, Reading, NothingLeftOver, SuccessIsGranted, config
    <3> QED
      BY <3>1, <3>2
  <2>4. CASE (version = 4 \/ step = 7) /\ reply' \in Replies /\ left' = ReplySize(reply')
             /\ UNCHANGED <<method, auth>>
    <3>1. /\ version' = version /\ UNCHANGED <<user, literal, step, op, need, got, outcome>>
          /\ Replies' = Replies /\ ReplySize(reply)' = ReplySize(reply')
      BY <1>8 DEF Answer, config, Replies, ReplySize
    <3>2. (version = 4 /\ step = 2 /\ need = 8) \/ (version = 5 /\ step = 7 /\ need = 10)
      <4>1. CASE version = 4
        BY <2>1, <4>1 DEF Reading
      <4>2. CASE version # 4 /\ step = 7
        BY <2>1, <4>2 DEF Reading
      <4> QED
        BY <2>4, <4>1, <4>2
    <3>3. left' \in Nat /\ (version = 4 => left' = 8)
      BY <2>4, <3>2, ReplyFour, ReplyTenBytes
    <3>4. TypeOK' /\ Progress'
      BY <2>1, <2>4, <3>1, <3>3 DEF TypeOK, Progress, LetIn
    <3>5. Reading'
      BY <2>1, <2>4, <3>1, <3>2, <3>3 DEF Reading
    <3>6. (NothingLeftOver /\ SuccessIsGranted)'
      BY <2>1, <3>1 DEF NothingLeftOver, SuccessIsGranted
    <3> QED
      BY <3>4, <3>5, <3>6
  <2> QED
    BY <1>8, <2>2, <2>3, <2>4 DEF Answer
<1>9. CASE Lost
  BY <1>9, FailureKeeps DEF Lost, Progress, TypeOK, Errors, config, server
<1>10. CASE UNCHANGED vars
  <2>1. Replies' = Replies /\ ReplySize(reply)' = ReplySize(reply)
    BY <1>10 DEF vars, config, server, Replies, ReplySize
  <2>2. TypeOK' /\ Progress'
    BY <1>10, <2>1 DEF vars, config, server, TypeOK, Progress, LetIn
  <2>3. Reading'
    BY <1>10, <2>1 DEF vars, config, server, Reading
  <2>4. NothingLeftOver' /\ SuccessIsGranted'
    BY <1>10, <2>1 DEF vars, config, server, NothingLeftOver, SuccessIsGranted, Granted
  <2> QED
    BY <2>2, <2>3, <2>4
<1> QED
  BY <1>1, <1>2, <1>3, <1>4, <1>5, <1>6, <1>7, <1>8, <1>9, <1>10 DEF Next, Client

THEOREM HandshakeInvariant == Spec => []IInv
<1>1. Init => IInv
  BY FreshHolds DEF Init, Idle
<1>2. IInv /\ [Next]_vars => IInv'
  BY StepKeeps
<1> QED
  BY <1>1, <1>2, PTL DEF Spec

\* When the handshake succeeds the reply has been read to its last byte and
\* not further, whatever address of the server it carries.
THEOREM StreamLeftClean == Spec => []NothingLeftOver
<1>1. IInv => NothingLeftOver
  BY DEF IInv
<1> QED
  BY <1>1, HandshakeInvariant, PTL

\* The handshake succeeds only with a server that granted it and let the
\* client in.
THEOREM OnlyIfGranted == Spec => []SuccessIsGranted
<1>1. IInv => SuccessIsGranted
  BY DEF IInv
<1> QED
  BY <1>1, HandshakeInvariant, PTL

\* A read that is pending asks for more than is on its way for a short name only.
LEMMA ReadsBounded ==
  ASSUME IInv
  PROVE  ReadsWhatComes
<1> SUFFICES ASSUME op = "read", left > 0 \/ got > 0, ~ShortName PROVE need <= left
  BY DEF ReadsWhatComes
<1>1. Reading /\ TypeOK
  BY DEF IInv
<1>2. reply \in Replies /\ version = 5 /\ step = 7 => ReplySize(reply) >= 10
  BY ReplyTenBytes DEF ShortName
<1> QED
  BY <1>1, <1>2 DEF Reading, TypeOK

\* No read asks for more bytes than the server's answer still has, but for the
\* ten that are asked of the reply with a short name.
THEOREM NoEndlessRead == Spec => []ReadsWhatComes
BY ReadsBounded, HandshakeInvariant, PTL
===============================================================================

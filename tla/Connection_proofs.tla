--------------------------- MODULE Connection_proofs ---------------------------
(***************************************************************************)
(* Proofs about Connection.  Whatever the proxy answers and however the    *)
(* two threads of a session interleave: the TLS handshake starts on a      *)
(* stream whose proxy has granted the connection and left nothing to read, *)
(* the chain of callbacks ends in one verdict, and no more than one read   *)
(* is outstanding.                                                         *)
(***************************************************************************)
EXTENDS Connection, SocksHandshake_proofs, SocksUri_proofs

\* The operation exists between the two callbacks around it only, and its
\* stream has not been read from before.
OperationInv ==
  /\ version \in Versions /\ user \in BOOLEAN /\ literal \in BOOLEAN /\ left \in Nat
  /\ at \in {"none", "proxy_resolve", "proxy_connect"} => Idle /\ left = 0
  /\ at = "proxy_handshake" => IInv
  /\ at \notin {"none", "proxy_resolve", "proxy_connect", "proxy_handshake"} => Idle

\* A connection has a verdict once its chain is over, and none before; the
\* caller uses a session that is connected, and nobody reads before that.
VerdictInv ==
  /\ at # "over" => ~ec /\ ~connected
  /\ ~(ec /\ connected)
  /\ at = "over" /\ kind = "ws" /\ scheme # "other" => ec \/ connected
  /\ at = "none" <=> caller = "new"
  /\ caller \in {"using", "draining", "closed"} => connected
  /\ handler = "flag" => called
  /\ IF called THEN posted = (IF handler = "flag" THEN 0 ELSE 1) ELSE posted = 0

SessionInv == S!TypeOK /\ VerdictInv

---------------------------------------------------------------------------
(* The handshake.                                                          *)

\* The steps of a session that are none of its handshake's leave it at its
\* place in the chain, or take it on.
LEMMA ChainMoves ==
  ASSUME S!Connecting
  PROVE  /\ UNCHANGED <<kind, scheme>>
         /\ at' = "proxy_handshake" => at = "proxy_connect"
         /\ at' \in {"none", "proxy_resolve"} => FALSE
         /\ at' = "proxy_connect" => at = "proxy_resolve"
         /\ at # "none"
BY DEF S!Connecting, S!OnProxyResolve, S!OnProxyConnect, S!OnProxyHandshake, S!OnResolve,
       S!OnConnect, S!OnSslHandshake, S!OnHandshake, S!Stream, S!Go, S!OnFail, S!Succeed, S!setup

\* Every step of a connection keeps what is known of its handshake.
LEMMA OperationKeeps ==
  ASSUME OperationInv, SessionInv, [ConnNext]_connVars
  PROVE  OperationInv'
<1> USE DEF OperationInv
<1>1. CASE ReadSetting
  <2>1. /\ at = "none" /\ at' \in {"proxy_resolve", "resolve", "over"}
        /\ version' \in {4, 5} /\ user' \in BOOLEAN
        /\ UNCHANGED <<literal, operation, server>>
    BY <1>1 DEF ReadSetting, S!Start, SessionInv, VerdictInv
  <2>2. Idle' /\ left' = 0 /\ literal' \in BOOLEAN
    BY <2>1 DEF Idle, operation, server, NoReply
  <2> QED
    BY <2>1, <2>2, ConnectionAssumption
<1>2. CASE Handshaking
  <2>1. at' = at /\ at = "proxy_handshake" /\ Next
    BY <1>2 DEF Handshaking, session
  <2>2. IInv'
    BY <2>1, StepKeeps
  <2>3. version' \in Versions /\ user' \in BOOLEAN /\ literal' \in BOOLEAN /\ left' \in Nat
    BY <2>2 DEF IInv, TypeOK
  <2> QED
    BY <2>1, <2>2, <2>3
<1>3. CASE HandOver
  <2>1. /\ outcome # "none" /\ Idle' /\ UNCHANGED <<config, left>> /\ S!Connecting
    BY <1>3 DEF HandOver, Idle, NoReply
  <2>2. at \notin {"none", "proxy_resolve", "proxy_connect"}
    BY <2>1 DEF Idle
  <2>3. at' \notin {"none", "proxy_resolve", "proxy_connect", "proxy_handshake"}
    BY <2>1, <2>2, ChainMoves
  <2> QED
    BY <2>1, <2>3 DEF config
<1>4. CASE Callback
  <2>1. at # "proxy_handshake" /\ S!Connecting /\ UNCHANGED vars
    BY <1>4 DEF Callback
  <2>2. UNCHANGED <<version, user, literal, left>> /\ (Idle => Idle')
    BY <2>1 DEF vars, config, server, Idle, NoReply
  <2>3. CASE at' = "proxy_handshake"
    <3>1. Idle /\ left = 0
      BY <2>1, <2>3, ChainMoves
    <3>2. IInv
      BY <3>1, FreshHolds
    <3>3. IInv'
      BY <2>1, <3>2, StepKeeps
    <3> QED
      BY <2>2, <2>3, <3>3
  <2>4. CASE at' # "proxy_handshake"
    BY <2>1, <2>2, <2>4, ChainMoves
  <2> QED
    BY <2>3, <2>4
<1>5. CASE Await \/ PostRead \/ TakeIn \/ ReadMessage \/ Peer \/ UNCHANGED connVars
  <2>1. UNCHANGED <<vars, at>>
    BY <1>5 DEF Await, PostRead, TakeIn, ReadMessage, Peer, connVars, session, S!Wait, S!WakeUp,
                S!Return, S!AsyncRead, S!TakeIn, S!Reading, S!ReadDone, S!HandlerFlag,
                S!HandlerTake, S!PeerSends, S!PeerEnds, S!chain
  <2>2. IInv => IInv'
    BY <2>1, StepKeeps
  <2>3. UNCHANGED <<version, user, literal, left, at>> /\ (Idle => Idle')
    BY <2>1 DEF vars, config, server, Idle, NoReply
  <2> QED
    BY <2>2, <2>3
<1> QED
  BY <1>1, <1>2, <1>3, <1>4, <1>5 DEF ConnNext
---------------------------------------------------------------------------
(* The session.                                                            *)

\* What the chain of callbacks does to the verdict.
LEMMA ConnectingKeeps ==
  ASSUME SessionInv, S!Connecting
  PROVE  SessionInv'
<1> USE DEF SessionInv
<1>1. UNCHANGED <<kind, scheme, sent, ended, called, posted, handler, failed, coming, inq>>
  BY DEF S!Connecting, S!setup, S!peer, S!reads
<1>2. at # "over" /\ at # "none" /\ ~ec /\ ~connected
  BY DEF S!Connecting, S!OnProxyResolve, S!OnProxyConnect, S!OnProxyHandshake, S!OnResolve,
         S!OnConnect, S!OnSslHandshake, S!OnHandshake, VerdictInv
<1>3. \/ S!OnFail \/ S!Succeed \/ (kind = "http" /\ S!Go("over"))
      \/ S!Go("proxy_connect") \/ S!Go("proxy_handshake") \/ S!Go("connect") \/ S!Go("ssl")
      \/ S!Go("ws")
  BY DEF S!Connecting, S!OnProxyResolve, S!OnProxyConnect, S!OnProxyHandshake, S!OnResolve,
         S!OnConnect, S!OnSslHandshake, S!OnHandshake, S!Stream
<1>4. caller' \in {caller, "woken"} /\ (caller' # caller => caller = "waiting")
  BY <1>3 DEF S!Go, S!OnFail, S!Succeed, S!Notified
<1>5. CASE S!OnFail
  BY <1>1, <1>2, <1>4, <1>5 DEF S!OnFail, S!TypeOK, VerdictInv
<1>6. CASE S!Succeed
  BY <1>1, <1>2, <1>4, <1>6 DEF S!Succeed, S!TypeOK, VerdictInv
<1>7. CASE kind = "http" /\ S!Go("over")
  BY <1>1, <1>2, <1>7 DEF S!Go, S!TypeOK, VerdictInv
<1>8. CASE \/ S!Go("proxy_connect") \/ S!Go("proxy_handshake") \/ S!Go("connect") \/ S!Go("ssl")
           \/ S!Go("ws")
  BY <1>1, <1>2, <1>8 DEF S!Go, S!TypeOK, VerdictInv
<1> QED
  BY <1>3, <1>5, <1>6, <1>7, <1>8

\* The reads, and the peer.
LEMMA ReadingKeeps ==
  ASSUME SessionInv, S!AsyncRead \/ S!TakeIn \/ S!Reading \/ S!PeerSends \/ S!PeerEnds
  PROVE  SessionInv'
<1> USE DEF SessionInv
<1>1. UNCHANGED <<kind, scheme, at, ec, connected>>
  BY DEF S!AsyncRead, S!TakeIn, S!Reading, S!ReadDone, S!HandlerFlag, S!HandlerTake,
         S!PeerSends, S!PeerEnds, S!setup, S!chain
<1>2. CASE S!AsyncRead
  BY <1>1, <1>2 DEF S!AsyncRead, S!Streaming, S!peer, S!TypeOK, VerdictInv
<1>3. CASE S!TakeIn
  BY <1>1, <1>3 DEF S!TakeIn, S!Streaming, S!peer, S!TypeOK, VerdictInv
<1>4. CASE S!ReadDone
  <2>1. /\ posted > 0 /\ posted' = posted - 1 /\ handler = "idle" /\ handler' = "flag"
        /\ coming' \in {coming, coming - 1} /\ coming' >= 0 /\ failed' \in BOOLEAN
        /\ UNCHANGED <<caller, sent, ended, called, inq>>
    <3>1. coming \in Nat
      BY DEF S!TypeOK
    <3> HIDE DEF SessionInv
    <3>2. posted > 0 /\ handler = "idle" /\ UNCHANGED <<caller, sent, ended, called, inq>>
      BY <1>4 DEF S!ReadDone, S!peer
    <3>3. failed' \in BOOLEAN /\ posted' = posted - 1 /\ handler' = "flag"
      BY <1>4, Zenon DEF S!ReadDone
    <3>4. coming' \in {coming, coming - 1} /\ coming' >= 0
      BY <1>4, <3>1 DEF S!ReadDone
    <3> QED
      BY <3>2, <3>3, <3>4
  <2>2. called /\ posted = 1
    BY <2>1 DEF S!TypeOK, VerdictInv
  <2>3. S!TypeOK'
    BY <1>1, <2>1, <2>2 DEF S!TypeOK
  <2>4. VerdictInv'
    BY <1>1, <2>1, <2>2 DEF VerdictInv
  <2> QED
    BY <2>3, <2>4
<1>5. CASE S!HandlerFlag
  BY <1>1, <1>5 DEF S!HandlerFlag, S!peer, S!TypeOK, VerdictInv
<1>6. CASE S!HandlerTake
  BY <1>1, <1>6 DEF S!HandlerTake, S!peer, S!TypeOK, VerdictInv
<1>7. CASE S!PeerSends
  BY <1>1, <1>7, ConnectionAssumption DEF S!PeerSends, S!TypeOK, VerdictInv
<1>8. CASE S!PeerEnds
  BY <1>1, <1>8 DEF S!PeerEnds, S!reads, S!TypeOK, VerdictInv
<1> QED
  BY <1>2, <1>3, <1>4, <1>5, <1>6, <1>7, <1>8 DEF S!Reading

\* Every step of a connection keeps what is known of its session.
LEMMA SessionKeeps ==
  ASSUME SessionInv, OperationInv, [ConnNext]_connVars
  PROVE  SessionInv'
<1> USE DEF SessionInv
<1>1. CASE ReadSetting
  <2>1. /\ at = "none" /\ caller = "new" /\ caller' = "started"
        /\ scheme' \in Schemes /\ at' \in {"proxy_resolve", "resolve", "over"}
        /\ at' = "over" => scheme' = "other"
        /\ UNCHANGED <<kind, ec, connected, S!peer, S!reads>>
    BY <1>1 DEF ReadSetting, S!Start, VerdictInv, Schemes
  <2>2. S!TypeOK'
    BY <2>1 DEF S!TypeOK, S!peer, S!reads, Schemes
  <2>3. VerdictInv'
    BY <2>1 DEF S!TypeOK, S!peer, S!reads, VerdictInv
  <2> QED
    BY <2>2, <2>3
<1>2. CASE HandOver \/ Callback
  BY <1>2, ConnectingKeeps DEF HandOver, Callback
<1>3. CASE Await
  <2>1. /\ UNCHANGED <<kind, scheme, at, ec, connected, S!peer, S!reads>>
        /\ caller \in {"started", "waiting", "woken"}
        /\ caller' \in {"waiting", "woken", "gone", "using"}
        /\ caller' = "using" => connected
    BY <1>3 DEF Await, S!Wait, S!WakeUp, S!Return, S!setup, S!chain
  <2> QED
    BY <2>1 DEF S!TypeOK, S!peer, S!reads, VerdictInv
<1>4. CASE PostRead \/ TakeIn \/ ReadMessage \/ Peer
  BY <1>4, ReadingKeeps DEF PostRead, TakeIn, ReadMessage, Peer
<1>5. CASE Handshaking \/ UNCHANGED connVars
  BY <1>5 DEF Handshaking, connVars, session, S!TypeOK, VerdictInv
<1> QED
  BY <1>1, <1>2, <1>3, <1>4, <1>5 DEF ConnNext

---------------------------------------------------------------------------
(* Both.                                                                   *)

ConnInv == OperationInv /\ SessionInv

\* What holds of the operation and of the session holds of both together.
THEOREM ConnectionInvariant == ConnSpec => []ConnInv
<1>1. ConnInit => ConnInv
  <2> SUFFICES ASSUME ConnInit PROVE ConnInv
    OBVIOUS
  <2>1. OperationInv
    BY DEF ConnInit, Init, S!Init, OperationInv, Idle
  <2>2. S!TypeOK
    <3>1. S!Init /\ inq \in [data : Nat, empty : Nat]
      BY DEF ConnInit, S!Init
    <3>2. sent \in 0 .. MaxMsgs /\ coming \in 0 .. sent /\ posted \in 0 .. 1
      BY <3>1, ConnectionAssumption DEF S!Init
    <3> QED
      BY <3>1, <3>2 DEF S!Init, S!TypeOK
  <2>3. VerdictInv
    BY DEF ConnInit, S!Init, VerdictInv
  <2> QED
    BY <2>1, <2>2, <2>3 DEF ConnInv, SessionInv
<1>2. ConnInv /\ [ConnNext]_connVars => ConnInv'
  BY OperationKeeps, SessionKeeps DEF ConnInv
<1> QED
  BY <1>1, <1>2, PTL DEF ConnSpec

\* A session goes on to TLS only over a proxy that has granted the
\* connection, on a stream the handshake has left clean.
THEOREM ProxyLeftClean == ConnSpec => [](NothingLeftOver /\ SuccessIsGranted)
<1>1. ConnInv => NothingLeftOver /\ SuccessIsGranted
  BY DEF ConnInv, OperationInv, SessionInv, S!TypeOK, IInv, Idle, NothingLeftOver, SuccessIsGranted
<1> QED
  BY <1>1, ConnectionInvariant, PTL

\* Nor does a handshake wait, on the session's stream, for bytes that no proxy
\* sends, unless the proxy replies with a short name.
THEOREM NoEndlessWait == ConnSpec => []ReadsWhatComes
<1>1. ConnInv => ReadsWhatComes
  BY ReadsBounded DEF ConnInv, OperationInv, SessionInv, S!TypeOK, Idle, ReadsWhatComes
<1> QED
  BY <1>1, ConnectionInvariant, PTL

\* The state of a connection keeps its shape.
THEOREM ConnTypeCorrect == ConnSpec => []ConnTypeOK
<1> DEFINE TextOK == setting.text \in Settings \cup {<<>>}
<1>1. ConnInit => TextOK
  BY DEF ConnInit, Setting
<1>2. TextOK /\ [ConnNext]_connVars => TextOK'
  <2> SUFFICES ASSUME TextOK, [ConnNext]_connVars PROVE TextOK'
    OBVIOUS
  <2>1. CASE ReadSetting
    BY <2>1 DEF ReadSetting, Setting
  <2>2. CASE UNCHANGED setting
    BY <2>2
  <2> QED
    BY <2>1, <2>2 DEF ConnNext, Handshaking, HandOver, Callback, Await, PostRead, TakeIn,
                      ReadMessage, Peer, connVars
<1>3. ConnInv => TypeOK /\ S!TypeOK
  <2> SUFFICES ASSUME ConnInv PROVE TypeOK
    BY DEF ConnInv, SessionInv
  <2>1. CASE Idle
    BY <2>1 DEF ConnInv, OperationInv, Idle, TypeOK
  <2>2. CASE IInv
    BY <2>2 DEF IInv
  <2> QED
    BY <2>1, <2>2 DEF ConnInv, OperationInv
<1> HIDE DEF TextOK
<1>4. ConnInv /\ TextOK => ConnTypeOK
  BY <1>3 DEF ConnTypeOK, TextOK
<1> QED
  BY <1>1, <1>2, <1>4, ConnectionInvariant, PTL DEF ConnSpec

\* The chain of callbacks ends in one verdict.
THEOREM EndsInOneVerdict == ConnSpec => []OneVerdict
<1>1. ConnInv => OneVerdict
  BY DEF ConnInv, SessionInv, VerdictInv, OneVerdict, S!OneVerdict, S!TypeOK
<1> QED
  BY <1>1, ConnectionInvariant, PTL

\* Only a session that is connected is used.
THEOREM NoUseBeforeConnected == ConnSpec => []UsedWhenConnected
<1>1. ConnInv => UsedWhenConnected
  BY DEF ConnInv, SessionInv, VerdictInv, UsedWhenConnected, S!UsedWhenConnected
<1> QED
  BY <1>1, ConnectionInvariant, PTL

\* The caller's loop and the handlers never have two reads outstanding.
THEOREM ReadsDoNotOverlap == ConnSpec => []OneRead
<1>1. ConnInv => OneRead
  BY DEF ConnInv, SessionInv, VerdictInv, OneRead, S!OneRead, S!TypeOK
<1> QED
  BY <1>1, ConnectionInvariant, PTL

---------------------------------------------------------------------------
(* The setting.                                                            *)

\* A proxy setting of the usual form, whatever its length, is read as it is
\* written: start finds in it the scheme, the user and the password, the host
\* and the port that stand there.
THEOREM SettingsAreRead == ConnSpec => []SettingRead
<1> DEFINE ReadAsParsed == setting.text \in Settings \cup {<<>>} /\ setting = Setting(setting.text)
<1>1. ConnInit => ReadAsParsed
  BY DEF ConnInit, Setting
<1>2. ReadAsParsed /\ [ConnNext]_connVars => ReadAsParsed'
  <2> SUFFICES ASSUME ReadAsParsed, [ConnNext]_connVars PROVE ReadAsParsed'
    OBVIOUS
  <2>1. CASE ReadSetting
    BY <2>1 DEF ReadSetting, Setting
  <2>2. CASE UNCHANGED setting
    BY <2>2
  <2> QED
    BY <2>1, <2>2 DEF ConnNext, Handshaking, HandOver, Callback, Await, PostRead, TakeIn,
                      ReadMessage, Peer, connVars
<1>3. ReadAsParsed => SettingRead
  <2> SUFFICES ASSUME ReadAsParsed, WellFormed(setting.text)
               PROVE  setting.uri = AsWritten(setting.text)
    BY DEF SettingRead
  <2>1. setting.uri = Parse(setting.text)
    BY DEF Setting
  <2>2. setting.text \in Seq(STRING)
    <3>1. <<>> \in Seq(STRING)
      OBVIOUS
    <3> QED
      BY <3>1, ConnectionAssumption
  <2> QED
    BY <2>1, <2>2, ParseWritten
<1> HIDE DEF ReadAsParsed
<1> QED
  BY <1>1, <1>2, <1>3, PTL DEF ConnSpec
===============================================================================

---------------------------- MODULE Connection ----------------------------
(***************************************************************************)
(* A session that is made, with the handshake of its proxy: Session,       *)
(* SocksHandshake and the parser of the proxy setting (SocksUri) put       *)
(* together as start and the callbacks of WSSession and HttpSession put    *)
(* them.  The handshake runs on the session's io thread, between the       *)
(* callback that has connected to the proxy and on_socks_proxy_handshake;  *)
(* its operation object does not outlive it.  The bytes of the server that *)
(* it has not read stay in the stream.                                     *)
(***************************************************************************)
EXTENDS SocksHandshake, SocksUri

CONSTANTS
  Kinds,      \* classes of session: see Session
  Settings,   \* the texts of the proxy setting
  MaxMsgs     \* bound: messages of the peer

ASSUME ConnectionAssumption ==
  /\ Versions = {4, 5}
  /\ Kinds \subseteq {"ws", "http"}
  /\ Settings \subseteq Seq(STRING)
  /\ MaxMsgs \in Nat

VARIABLES
  setting,    \* socks_server_ and what parse makes of it, until start has read it
  kind, scheme, at, ec, connected, caller, called, posted, handler, failed, sent, coming,
  ended, inq  \* of the session

Schemes == {"none", "socks4", "socks5", "other"}

S == INSTANCE Session

operation == <<step, op, need, got, outcome>>
session ==
  <<kind, scheme, at, ec, connected, caller, called, posted, handler, failed, sent, coming,
    ended, inq>>
connVars == <<vars, setting, session>>

Setting(text) == [text |-> text, uri |-> Parse(text)]

\* The handshake's version and user are read from the setting.
ConnInit ==
  /\ S!Init
  /\ setting \in {Setting(text) : text \in Settings}
  /\ Init /\ version = 5 /\ ~user

\* A step of the handshake.
Handshaking ==
  /\ at = "proxy_handshake" /\ outcome = "none"
  /\ Next
  /\ UNCHANGED <<setting, session>>

\* start reads the setting.
ReadSetting ==
  /\ S!Start
  /\ scheme' = SchemeOf(setting.text, setting.uri)
  /\ version' = IF scheme' = "socks4" THEN 4 ELSE 5
  /\ user' = (setting.uri.username # <<>>)
  /\ setting' = Setting(<<>>)
  /\ UNCHANGED <<literal, operation, server>>

\* on_socks_proxy_handshake gets the outcome of the operation, which is gone
\* afterwards.
HandOver ==
  /\ outcome # "none"
  /\ S!Connecting
  /\ outcome # "ok" => at' = "over" /\ ec'
  /\ step' = 0 /\ op' = "none" /\ need' = 0 /\ got' = 0 /\ outcome' = "none"
  /\ method' = "none" /\ auth' = "none" /\ reply' = NoReply
  /\ UNCHANGED <<config, left, setting>>

\* The other callbacks that make the connection.
Callback == at # "proxy_handshake" /\ S!Connecting /\ UNCHANGED <<vars, setting>>

Await == (S!Wait \/ S!WakeUp \/ S!Return) /\ UNCHANGED <<vars, setting>>
PostRead == S!AsyncRead /\ UNCHANGED <<vars, setting>>
TakeIn == S!TakeIn /\ UNCHANGED <<vars, setting>>
ReadMessage == S!Streaming /\ S!Reading /\ UNCHANGED <<vars, setting>>
Peer == (S!PeerSends \/ S!PeerEnds) /\ UNCHANGED <<vars, setting>>

ConnNext ==
  \/ ReadSetting \/ Handshaking \/ HandOver \/ Callback
  \/ Await \/ PostRead \/ TakeIn \/ ReadMessage \/ Peer

\* Both threads are scheduled, every wait has a timeout, and a proxy answers;
\* nothing else on the network need do so.
ConnSpec ==
  /\ ConnInit /\ [][ConnNext]_connVars
  /\ WF_connVars(ReadSetting) /\ WF_connVars(Await)
  /\ WF_connVars(Handshaking /\ Client) /\ WF_connVars(Handshaking /\ Answer)
  /\ WF_connVars(HandOver)
  /\ WF_connVars(PostRead) /\ WF_connVars(TakeIn) /\ WF_connVars(ReadMessage)
---------------------------------------------------------------------------
(* Properties: those of SocksHandshake, of Session and of all together.    *)

\* The shape of the state.
ConnTypeOK == TypeOK /\ S!TypeOK /\ setting.text \in Settings \cup {<<>>}

\* See Session.
OneVerdict == S!OneVerdict
UsedWhenConnected == S!UsedWhenConnected
OneRead == S!OneRead
WaitEnds == S!WaitEnds
EndNoticed == S!EndNoticed

\* A setting of the usual form is read as it is written, whatever colons,
\* brackets and numbers the user information, the host and the port have.
SettingRead == WellFormed(setting.text) => setting.uri = AsWritten(setting.text)

\* The handshake is performed to its end, and its end is the session's, with
\* no timeout to help it and whatever the server answers but a short name,
\* which it does not get over (see SocksHandshake).
HandshakeEnds == at = "proxy_handshake" ~> (at # "proxy_handshake" \/ ShortName)
===========================================================================

------------------------------ MODULE Session ------------------------------
(***************************************************************************)
(* WSSession (src/src/ws_session.cpp) and HttpSession                      *)
(* (src/src/http_session.cpp), which differ in the last stages of making a *)
(* connection and in what they do with it.  Two threads meet in a session: *)
(* the io thread runs the chain of callbacks that connects it, and later   *)
(* the handlers of its reads; the caller starts it, waits for the verdict  *)
(* and, on a WSSession, posts a read in every turn of its loop (Channel).  *)
(* Connection puts these actions together with those of the handshake.     *)
(*                                                                         *)
(* The network is external: each stage succeeds or fails, the peer sends   *)
(* messages, whose content does not matter here, and closes.  The wait has *)
(* no predicate: it ends by a notify that comes while it lasts, spuriously *)
(* or by its timeout.  A read that outlives its session is not modelled.   *)
(***************************************************************************)
EXTENDS Naturals

CONSTANTS
  Kinds,      \* of "ws" and "http"
  Schemes,    \* of the proxy setting: "none" (empty), "socks4", "socks5", "other"
  MaxMsgs     \* bound: messages of the peer

VARIABLES
  kind,       \* which of the two classes
  scheme,     \* of the proxy setting, "unread" before start
  at,         \* what the io thread is to call back next
  ec,         \* ec_ is set
  connected,  \* connected_
  caller,     \* where the caller is
  called,     \* async_read_called_
  posted,     \* reads that are posted on the stream
  handler,    \* the read handler: "idle", or its halves "flag" and "take"
  failed,     \* the handler's error code is set
  sent,       \* messages of the peer so far
  coming,     \* those of them that are still to be read
  ended,      \* the peer has closed, or the connection is lost
  inq         \* what the handlers have passed on, by kind

setup == <<kind, scheme>>
chain == <<at, ec, connected>>
peer == <<sent, ended>>
reads == <<called, posted, handler, failed, coming, inq>>

Init ==
  /\ kind \in Kinds /\ scheme = "unread"
  /\ at = "none" /\ ec = FALSE /\ connected = FALSE
  /\ caller = "new"
  /\ called = FALSE /\ posted = 0 /\ handler = "idle" /\ failed = FALSE
  /\ sent = 0 /\ coming = 0 /\ ended = FALSE
  /\ inq = [data |-> 0, empty |-> 0]

\* notify_one: the caller is the only one who waits.
Notified == IF caller = "waiting" THEN "woken" ELSE caller

---------------------------------------------------------------------------
(* The caller, up to the verdict.                                          *)

\* start.  A proxy setting that is not understood starts nothing.
Start ==
  /\ caller = "new"
  /\ caller' = "started"
  /\ scheme' \in Schemes
  /\ at' = CASE scheme' = "none"  -> "resolve"
             [] scheme' = "other" -> "over"
             [] OTHER             -> "proxy_resolve"
  /\ UNCHANGED <<kind, ec, connected, peer, reads>>

\* waitUtilConnected: only a failure is looked for before the wait.
Wait ==
  /\ caller = "started"
  /\ caller' = IF ec THEN "gone" ELSE "waiting"
  /\ UNCHANGED <<setup, chain, peer, reads>>

\* The timeout, or a spurious wakeup.
WakeUp ==
  /\ caller = "waiting"
  /\ caller' = "woken"
  /\ UNCHANGED <<setup, chain, peer, reads>>

\* Mutant: the end of the wait is taken for the connection, unless it failed.
ReturnHopeful ==
  /\ caller = "woken"
  /\ caller' = IF ec THEN "gone" ELSE "using"
  /\ UNCHANGED <<setup, chain, peer, reads>>

\* Mutant: who is not connected yet waits again, with no deadline.
ReturnOrWait ==
  /\ caller = "woken"
  /\ caller' = IF connected THEN "using" ELSE "waiting"
  /\ UNCHANGED <<setup, chain, peer, reads>>

Return ==
  /\ caller = "woken"
  /\ caller' = IF connected THEN "using" ELSE "gone"
  /\ UNCHANGED <<setup, chain, peer, reads>>

---------------------------------------------------------------------------
(* The chain of callbacks.                                                 *)

Go(next) == at' = next /\ UNCHANGED <<ec, connected, caller>>

\* on_fail.
OnFail == at' = "over" /\ ec' = TRUE /\ caller' = Notified /\ UNCHANGED connected

Succeed == at' = "over" /\ connected' = TRUE /\ caller' = Notified /\ UNCHANGED ec

OnProxyResolve == at = "proxy_resolve" /\ (Go("proxy_connect") \/ OnFail)

OnProxyConnect == at = "proxy_connect" /\ (Go("proxy_handshake") \/ OnFail)

OnResolve == at = "resolve" /\ (Go("connect") \/ OnFail)

\* The stream stands.  Setting the host name for TLS may fail: an HttpSession
\* then just returns.
Stream == Go("ssl") \/ OnFail \/ (kind = "http" /\ Go("over"))

OnConnect == at = "connect" /\ (Stream \/ OnFail)

\* on_socks_proxy_handshake, after the handshake the scheme names; Connection
\* says which of the two follows.
OnProxyHandshake == at = "proxy_handshake" /\ (Stream \/ OnFail)

\* Mutant: a failed TLS handshake is not the end.
OnSslHandshakeOn ==
  /\ at = "ssl"
  /\ \/ kind = "ws" /\ at' = "ws" /\ ec' \in BOOLEAN /\ UNCHANGED <<connected, caller>>
     \/ kind = "http" /\ (Succeed \/ OnFail)

OnSslHandshake ==
  /\ at = "ssl"
  /\ OnFail \/ (kind = "ws" /\ Go("ws")) \/ (kind = "http" /\ Succeed)

OnHandshake == at = "ws" /\ (Succeed \/ OnFail)

Connecting ==
  /\ OnProxyResolve \/ OnProxyConnect \/ OnProxyHandshake \/ OnResolve \/ OnConnect
       \/ OnSslHandshake \/ OnHandshake
  /\ UNCHANGED <<setup, peer, reads>>

---------------------------------------------------------------------------
(* Reading from a WSSession.                                               *)

Streaming == caller \in {"using", "draining"} /\ kind = "ws"

\* Mutant: the flag is not raised.
AsyncReadUnflagged ==
  /\ Streaming /\ caller = "using"
  /\ caller' = "draining"
  /\ posted' = IF called THEN posted ELSE posted + 1
  /\ UNCHANGED <<setup, chain, peer, called, handler, failed, coming, inq>>

\* async_read, which the caller's loop calls in every turn.
AsyncRead ==
  /\ Streaming /\ caller = "using"
  /\ caller' = "draining"
  /\ called' = TRUE
  /\ posted' = IF called THEN posted ELSE posted + 1
  /\ UNCHANGED <<setup, chain, peer, handler, failed, coming, inq>>

\* A message, or an error at the end, completes the read.
ReadDone ==
  /\ posted > 0 /\ handler = "idle"
  /\ \/ coming > 0 /\ coming' = coming - 1 /\ failed' = FALSE
     \/ coming = 0 /\ ended /\ failed' = TRUE /\ UNCHANGED coming
  /\ posted' = posted - 1 /\ handler' = "flag"
  /\ UNCHANGED <<setup, chain, caller, peer, called, inq>>

\* Mutant: the flag stays up after an empty read.
HandlerFlagKept ==
  /\ handler = "flag"
  /\ handler' = "take" /\ called' = (called /\ coming = 0)
  /\ UNCHANGED <<setup, chain, caller, peer, posted, failed, coming, inq>>

\* The first half of the handler, under the mutex.  From here on the next
\* read may be posted, though buffer_ has not been taken yet.
HandlerFlag ==
  /\ handler = "flag"
  /\ handler' = "take" /\ called' = FALSE
  /\ UNCHANGED <<setup, chain, caller, peer, posted, failed, coming, inq>>

\* The second half passes the message on, or the empty string for an error.
HandlerTake ==
  /\ handler = "take"
  /\ handler' = "idle"
  /\ inq' = IF failed THEN [inq EXCEPT !.empty = @ + 1] ELSE [inq EXCEPT !.data = @ + 1]
  /\ UNCHANGED <<setup, chain, caller, peer, called, posted, failed, coming>>

\* The rest of the turn drains inq_ in order; the empty string, which comes
\* after all messages, ends the session.
TakeIn ==
  /\ Streaming /\ caller = "draining"
  /\ \/ inq.data > 0 /\ inq' = [inq EXCEPT !.data = @ - 1] /\ UNCHANGED caller
     \/ inq.data = 0 /\ inq.empty > 0 /\ caller' = "closed" /\ UNCHANGED inq
     \/ inq.data = 0 /\ inq.empty = 0 /\ caller' = "using" /\ UNCHANGED inq
  /\ UNCHANGED <<setup, chain, peer, called, posted, handler, failed, coming>>

Reading == ReadDone \/ HandlerFlag \/ HandlerTake

\* The peer (external).
PeerSends ==
  /\ Streaming /\ ~ended /\ sent < MaxMsgs
  /\ sent' = sent + 1 /\ coming' = coming + 1
  /\ UNCHANGED <<setup, chain, caller, ended, called, posted, handler, failed, inq>>

PeerEnds ==
  /\ connected /\ ~ended
  /\ ended' = TRUE
  /\ UNCHANGED <<setup, chain, caller, sent, reads>>

---------------------------------------------------------------------------
(* Properties.                                                             *)

\* The shape of the state.
TypeOK ==
  /\ kind \in Kinds /\ scheme \in Schemes \cup {"unread"}
  /\ at \in {"none", "proxy_resolve", "proxy_connect", "proxy_handshake", "resolve", "connect",
             "ssl", "ws", "over"}
  /\ ec \in BOOLEAN /\ connected \in BOOLEAN
  /\ caller \in {"new", "started", "waiting", "woken", "gone", "using", "draining", "closed"}
  /\ called \in BOOLEAN /\ posted \in 0 .. 1 /\ handler \in {"idle", "flag", "take"}
  /\ failed \in BOOLEAN /\ sent \in 0 .. MaxMsgs /\ coming \in 0 .. sent /\ ended \in BOOLEAN
  /\ inq \in [data : Nat, empty : Nat]

\* The chain of a WSSession that was started ends with exactly one verdict:
\* nobody waits for a callback that is not to come, and none comes after a
\* failure.
OneVerdict ==
  kind = "ws" /\ scheme # "other" => (IF at = "over" THEN ec # connected ELSE ~ec /\ ~connected)

\* However the timeout, spurious wakeups and the callbacks race, a session
\* is used only once it is connected.
UsedWhenConnected == caller \in {"using", "draining", "closed"} => connected

\* The caller always gets its answer.
WaitEnds == caller = "started" ~> caller \in {"gone", "using", "draining", "closed"}

\* At most one read is outstanding, the handler's first half included, which
\* is what the stream demands and async_read_called_ is for.
OneRead == posted + (IF handler = "flag" THEN 1 ELSE 0) <= 1

\* A connection that has ended is noticed: the flag never stays up with no
\* read outstanding, so a read fails and its empty string ends the session.
EndNoticed == (Streaming /\ ended) ~> caller = "closed"
===========================================================================

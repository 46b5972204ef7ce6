------------------------------ MODULE Channel ------------------------------
(***************************************************************************)
(* A channel to the exchange: Channel (src/src/channel.cpp), the login and *)
(* the subscriptions of PrivateChannel (src/src/private_channel.cpp), the  *)
(* subscriptions of PublicChannel (src/src/public_channel.cpp), which has  *)
(* no login and no commands, and the classification of answers in          *)
(* Command::parseReceivedData.  One thread runs Channel::run; others only  *)
(* append to outq_, and main (src/src/main.cpp) starts those after it has  *)
(* waited for each channel.  The exchange is external: it serves the       *)
(* requests of a session in order, answers each, and asks for a login on   *)
(* the private channel when it has not seen one in that session.           *)
(*                                                                         *)
(* A request is "login", "sub" (the subscriptions of a channel, which are  *)
(* sent and answered alike, stand as one) or a command of a caller.  Only  *)
(* commands carry an id; the others match an answer by their op alone.     *)
(***************************************************************************)
EXTENDS SequencesExt

CONSTANTS
  Kinds,       \* of "private" and "public"
  Cmds,        \* commands handed to sendCmd by other threads
  MaxBreaks,   \* bound: connections lost
  MaxBusy,     \* bound: "system busy" answers
  MaxRefusals, \* bound: logins and subscriptions refused
  MaxPile,     \* bound: requests and Close commands left over from a session
  MaxRuns      \* bound: up to here it is counted how often a command is carried out

ASSUME ChannelAssumption ==
  /\ Kinds \subseteq {"private", "public"}
  /\ Cmds \cap {"login", "sub", "close", "none"} = {}
  /\ MaxBreaks \in Nat /\ MaxBusy \in Nat /\ MaxRefusals \in Nat
  /\ MaxPile \in Nat /\ MaxRuns \in Nat \ {0}

VARIABLES
  kind,       \* which of the two channels
  link,       \* "down": no session; "up"; "cut": lost, run does not know yet
  turn,       \* the inner loop of run: at outq_ ("out") or at inq_ ("in")
  outq,       \* outq_, requests and Close commands
  waiting,    \* waiting_resp_q_
  inq,        \* answers of the session, on their way or in inq_
  logined,    \* logined_, what waitLogined waits for
  sent,       \* commands handed to sendCmd so far
  calls,      \* calls[c]: how often the callback of c has run
  inited,     \* what the channel's subscriptions push has come in once
  main,       \* main, before and in waitLogined, polling, or "ready"
  \* The exchange.
  wire,       \* requests of the session it has not served yet
  auth,       \* it has accepted a login in this session
  subscribed, \* it pushes to this session
  executed,   \* executed[c]: how often it has carried out c
  faults,     \* breaks, busy answers and refusals so far
  loginAgain  \* history: a login has been among the requests sent again

startup == <<kind, inited, main>>
clientVars == <<turn, outq, waiting, inq, logined, sent, calls>>
exchangeVars == <<wire, auth, subscribed, executed>>
history == <<faults, loginAgain>>
vars == <<startup, link, clientVars, exchangeVars, history>>

NoId == {"login", "sub"}

\* An answer: "ok", "refused", "busy" (parseReceivedData returns -2) or
\* "relogin" (it returns -1), or the empty string that ends a session.
Answer(req, code) == [to |-> req, code |-> code]
Closed == Answer("none", "closed")

\* The first push that follows a subscription: the account, or the
\* instruments and a trade.
Push == Answer("none", "push")

Occurrences(r, s) == {i \in DOMAIN s : s[i] = r}

Init ==
  /\ kind \in Kinds
  /\ inited = FALSE /\ main = IF kind = "private" THEN "start" ELSE "poll"
  /\ link = "down" /\ turn = "out"
  /\ outq = <<>> /\ waiting = <<>> /\ inq = <<>>
  /\ logined = FALSE
  /\ sent = {} /\ calls = [c \in Cmds |-> 0]
  /\ wire = <<>> /\ auth = FALSE /\ subscribed = FALSE
  /\ executed = [c \in Cmds |-> 0] /\ loginAgain = FALSE
  /\ faults = [breaks |-> 0, busy |-> 0, refusals |-> 0]

---------------------------------------------------------------------------
(* Other threads.                                                          *)

\* Mutant: waitLogined waits, whether the login has been or not.
WaitUnchecked ==
  /\ main = "start" /\ main' = "wait"
  /\ UNCHANGED <<kind, inited, link, clientVars, exchangeVars, history>>

\* waitLogined, in which nothing is looked at after the wait.
WaitLogined ==
  /\ main = "start"
  /\ main' = IF logined THEN "poll" ELSE "wait"
  /\ UNCHANGED <<kind, inited, link, clientVars, exchangeVars, history>>

SpuriousWakeup ==
  /\ main = "wait" /\ main' = "poll"
  /\ UNCHANGED <<kind, inited, link, clientVars, exchangeVars, history>>

\* Mutant: the wait is taken for the login.
PollNothing ==
  /\ main = "poll" /\ main' = "ready"
  /\ UNCHANGED <<kind, inited, link, clientVars, exchangeVars, history>>

\* The loop that follows it, as far as it is about this channel.
Poll ==
  /\ main = "poll" /\ inited
  /\ main' = "ready"
  /\ UNCHANGED <<kind, inited, link, clientVars, exchangeVars, history>>

\* sendCmd.  The threads that hand commands over start after that.
Send(c) ==
  /\ kind = "private" /\ main = "ready" /\ c \notin sent
  /\ sent' = sent \cup {c}
  /\ outq' = Append(outq, c)
  /\ UNCHANGED <<startup, link, turn, waiting, inq, logined, calls, exchangeVars, history>>

---------------------------------------------------------------------------
(* Channel::run.                                                           *)

\* Mutant: who has been served once is known to the exchange.
GreetOnce(q) == IF inited THEN q ELSE Append(q, IF kind = "private" THEN "login" ELSE "sub")

\* onConnected of either class.
Greet(q) == Append(q, IF kind = "private" THEN "login" ELSE "sub")

\* A connection is made only while MaxPile allows it; the code has no bound.
Reconnectable == link = "down" /\ Len(outq) + Len(waiting) <= MaxPile

\* Mutant: the requests without an answer are forgotten.
ConnectAfresh ==
  /\ Reconnectable
  /\ link' = "up" /\ turn' = "out"
  /\ loginAgain' = (loginAgain \/ "login" \in Range(waiting))
  /\ outq' = Greet(outq)
  /\ inq' = <<>> /\ waiting' = <<>> /\ wire' = <<>>
  /\ UNCHANGED <<startup, logined, sent, calls, auth, subscribed, executed, faults>>

\* Mutant: answers of the last session are kept.
ConnectKeepsInq ==
  /\ Reconnectable
  /\ link' = "up" /\ turn' = "out"
  /\ loginAgain' = (loginAgain \/ "login" \in Range(waiting))
  /\ outq' = Greet(outq)
  /\ wire' = waiting
  /\ UNCHANGED <<startup, inq, waiting, logined, sent, calls, auth, subscribed, executed, faults>>

\* Mutant: the login is sent ahead of what is sent again.
ConnectLoginFirst ==
  /\ Reconnectable
  /\ link' = "up" /\ turn' = "out"
  /\ loginAgain' = (loginAgain \/ "login" \in Range(waiting))
  /\ waiting' = IF kind = "private" THEN <<"login">> \o waiting ELSE waiting
  /\ outq' = IF kind = "private" THEN outq ELSE Greet(outq)
  /\ inq' = <<>>
  /\ wire' = waiting'
  /\ UNCHANGED <<startup, logined, sent, calls, auth, subscribed, executed, faults>>

\* A new session: the login, or the subscription, is queued, what has had no
\* answer is sent again.
Connect ==
  /\ Reconnectable
  /\ link' = "up" /\ turn' = "out"
  /\ loginAgain' = (loginAgain \/ "login" \in Range(waiting))
  /\ outq' = Greet(outq)
  /\ inq' = <<>>
  /\ wire' = waiting
  /\ UNCHANGED <<startup, waiting, logined, sent, calls, auth, subscribed, executed, faults>>

\* The session is over, for one reason or another; run starts again.
EndSession ==
  /\ link' = "down"
  /\ wire' = <<>> /\ auth' = FALSE /\ subscribed' = FALSE
  /\ UNCHANGED executed

\* Mutant: a Close command waits for an answer.
PopOutAnything ==
  /\ link # "down" /\ turn = "out" /\ outq # <<>>
  /\ outq' = Tail(outq)
  /\ waiting' = Append(waiting, Head(outq))
  /\ wire' = IF link = "up" THEN Append(wire, Head(outq)) ELSE wire
  /\ UNCHANGED <<startup, link, turn, inq, logined, sent, calls, auth, subscribed, executed, history>>

\* One command of outq_ is taken.  Writing to a lost connection may throw.
PopOut ==
  /\ link # "down" /\ turn = "out" /\ outq # <<>>
  /\ outq' = Tail(outq)
  /\ \/ /\ Head(outq) = "close"
        /\ EndSession
        /\ UNCHANGED waiting
     \/ /\ Head(outq) # "close"
        /\ waiting' = Append(waiting, Head(outq))
        /\ \/ /\ link = "up"
              /\ wire' = Append(wire, Head(outq))
              /\ UNCHANGED <<link, auth, subscribed, executed>>
           \/ link = "cut" /\ UNCHANGED <<link, exchangeVars>>
           \/ link = "cut" /\ EndSession
  /\ UNCHANGED <<startup, turn, inq, logined, sent, calls, history>>

\* Each queue is drained before the loop turns to the other.
OutEmpty ==
  /\ link # "down" /\ turn = "out" /\ outq = <<>>
  /\ turn' = "in"
  /\ UNCHANGED <<startup, link, outq, waiting, inq, logined, sent, calls, exchangeVars, history>>

InEmpty ==
  /\ link # "down" /\ turn = "in" /\ inq = <<>>
  /\ turn' = "out"
  /\ UNCHANGED <<startup, link, outq, waiting, inq, logined, sent, calls, exchangeVars, history>>

\* The waiting request an answer belongs to: that with its id, or the first
\* without an id whose op it has; an error event without an id has no op.
Matches(a, req) ==
  IF a.to \in NoId
  THEN IF a.code = "ok" THEN req = a.to ELSE req \in NoId
  ELSE req = a.to

MatchAt(a) == SelectInSeq(waiting, LAMBDA req : Matches(a, req))

\* Mutant: only the first login subscribes.
RunCallbackOnce(req) ==
  /\ calls' = IF req \in Cmds THEN [calls EXCEPT ![req] = @ + 1] ELSE calls
  /\ outq' = IF req = "login" /\ ~logined THEN Append(outq, "sub") ELSE outq
  /\ logined' = (logined \/ req = "login")
  /\ main' = IF req = "login" /\ main = "wait" THEN "poll" ELSE main

\* What the callback of a request does on success; onLogined notifies main.
RunCallback(req) ==
  /\ calls' = IF req \in Cmds THEN [calls EXCEPT ![req] = @ + 1] ELSE calls
  /\ outq' = IF req = "login" THEN Append(outq, "sub") ELSE outq
  /\ logined' = (logined \/ req = "login")
  /\ main' = IF req = "login" /\ main = "wait" THEN "poll" ELSE main

\* Mutant: a busy system is taken for an answer.
RetryAsAnswer(i) ==
  /\ RunCallback(waiting[i])
  /\ waiting' = RemoveAt(waiting, i)

\* Mutant: a busy system is not asked again.
RetryNever(i) ==
  /\ waiting' = RemoveAt(waiting, i)
  /\ UNCHANGED <<outq, logined, calls, main>>

\* A request that was answered with "system busy" is queued again.  It keeps
\* its id, because the fresh one is given to the copy that is not sent.
Retry(i) ==
  /\ outq' = Append(outq, waiting[i])
  /\ waiting' = RemoveAt(waiting, i)
  /\ UNCHANGED <<logined, calls, main>>

\* parseIncomeData.  A refused login or subscription makes the callback throw
\* before the request is erased.
Handle(a) ==
  LET i == MatchAt(a)
  IN  \/ /\ a = Closed
         /\ EndSession
         /\ UNCHANGED <<outq, waiting, logined, calls, main>>
      \/ /\ a.code = "relogin"
         /\ outq' = Append(outq, "close")
         /\ UNCHANGED <<link, waiting, logined, calls, main, exchangeVars>>
      \/ /\ a = Push \/ (a.code \in {"ok", "refused", "busy"} /\ i = 0)
         /\ UNCHANGED <<link, outq, waiting, logined, calls, main, exchangeVars>>
      \/ /\ a.code = "busy" /\ i # 0
         /\ Retry(i)
         /\ UNCHANGED <<link, exchangeVars>>
      \/ /\ a.code = "refused" /\ i # 0
         /\ EndSession
         /\ UNCHANGED <<outq, waiting, logined, calls, main>>
      \/ /\ a.code = "ok" /\ i # 0
         /\ RunCallback(waiting[i])
         /\ waiting' = RemoveAt(waiting, i)
         /\ UNCHANGED <<link, exchangeVars>>

Drain ==
  /\ link # "down" /\ turn = "in" /\ inq # <<>>
  /\ inq' = Tail(inq)
  /\ Handle(Head(inq))
  /\ inited' = (inited \/ Head(inq) = Push)
  /\ UNCHANGED <<kind, turn, sent, history>>

Run == Connect \/ PopOut \/ OutEmpty \/ InEmpty \/ Drain

---------------------------------------------------------------------------
(* The exchange and the network.                                           *)

\* How the exchange may answer the request it serves next.
Codes(req) ==
  IF kind = "private" /\ req # "login" /\ ~auth
  THEN {"relogin"}
  ELSE {"ok"}
         \cup (IF faults.busy < MaxBusy THEN {"busy"} ELSE {})
         \cup (IF faults.refusals < MaxRefusals /\ req \in NoId THEN {"refused"} ELSE {})

CarriedOutAgain(n) == IF n < MaxRuns THEN n + 1 ELSE n

Serve ==
  /\ link = "up" /\ wire # <<>>
  /\ \E code \in Codes(Head(wire)) :
       /\ inq' = inq \o <<Answer(Head(wire), code)>>
                   \o (IF Head(wire) = "sub" /\ code = "ok" THEN <<Push>> ELSE <<>>)
       /\ auth' = (auth \/ (Head(wire) = "login" /\ code = "ok"))
       /\ subscribed' = (subscribed \/ (Head(wire) = "sub" /\ code = "ok"))
       /\ executed' = IF Head(wire) \in Cmds /\ code = "ok"
                      THEN [executed EXCEPT ![Head(wire)] = CarriedOutAgain(@)] ELSE executed
       /\ faults' = [faults EXCEPT !.busy = IF code = "busy" THEN @ + 1 ELSE @,
                                   !.refusals = IF code = "refused" THEN @ + 1 ELSE @]
  /\ wire' = Tail(wire)
  /\ UNCHANGED <<startup, link, turn, outq, waiting, logined, sent, calls, loginAgain>>

\* The connection is lost with what is under way in both directions; the
\* read that is posted reports it.
Break ==
  /\ link = "up" /\ faults.breaks < MaxBreaks
  /\ link' = "cut"
  /\ \E k \in 0 .. Len(inq) : inq' = Append(SubSeq(inq, 1, k), Closed)
  /\ wire' = <<>> /\ auth' = FALSE /\ subscribed' = FALSE
  /\ faults' = [faults EXCEPT !.breaks = @ + 1]
  /\ UNCHANGED <<startup, turn, outq, waiting, logined, sent, calls, executed, loginAgain>>

Next ==
  \/ WaitLogined \/ SpuriousWakeup \/ Poll
  \/ (\E c \in Cmds : Send(c))
  \/ Run \/ Serve \/ Break

\* The threads of main and of run are scheduled, a connection can be made, and
\* the exchange serves what it gets.
Spec ==
  /\ Init /\ [][Next]_vars
  /\ WF_vars(WaitLogined) /\ WF_vars(Poll) /\ WF_vars(Run) /\ WF_vars(Serve)
---------------------------------------------------------------------------
(* Properties.                                                             *)

Requests == Cmds \cup NoId

\* The shape of the state.
TypeOK ==
  /\ kind \in Kinds /\ inited \in BOOLEAN /\ main \in {"start", "wait", "poll", "ready"}
  /\ link \in {"down", "up", "cut"} /\ turn \in {"out", "in"}
  /\ outq \in Seq(Requests \cup {"close"}) /\ waiting \in Seq(Requests)
  /\ wire \in Seq(Requests)
  /\ inq \in Seq([to : Requests \cup {"none"},
                  code : {"ok", "refused", "busy", "relogin", "closed", "push"}])
  /\ logined \in BOOLEAN /\ auth \in BOOLEAN /\ subscribed \in BOOLEAN
  /\ sent \subseteq Cmds /\ executed \in [Cmds -> Nat] /\ calls \in [Cmds -> Nat]
  /\ loginAgain \in BOOLEAN

\* However connections break and retries cross reconnections, a command is
\* in exactly one place until its callback has run, and in none after it:
\* nothing is lost and no copy is left behind to be answered a second time.
Conserved ==
  \A c \in sent :
    Cardinality(Occurrences(c, outq)) + Cardinality(Occurrences(c, waiting)) + calls[c] = 1

\* Within a session a command is on its way once at most, there or back, and
\* what is on its way is waited for: no answer is without an addressee.
AnswersHaveAddressee ==
  link = "up" =>
    \A c \in Cmds :
      LET underWay == Cardinality(Occurrences(c, wire))
                        + Cardinality({i \in DOMAIN inq : inq[i].to = c})
      IN  underWay <= Cardinality(Occurrences(c, waiting))

\* No thread that hands commands over runs before the login, though the wait
\* for it may end without one (private_channel.cpp:93): the account that main
\* polls for is only pushed to who has logged in.
ReadyAfterLogin == kind = "private" /\ main = "ready" => logined

\* The broker's view of a command.
Stage(c) ==
  IF calls[c] > 0 THEN "answered"
  ELSE IF executed[c] > 0 THEN "executed"
  ELSE IF c \in sent THEN "pending" ELSE "new"

Broker == INSTANCE Requests WITH stage <- [c \in Cmds |-> Stage(c)], runs <- executed

\* The channel implements Requests: a command's callback runs once, after the
\* command has been carried out, and nothing that is sent again carries it out
\* after that.
RequestsSpec == Broker!Spec

\* A command whose answer was lost is sent again, but not carried out a second
\* time: it reaches the exchange before the login of its session and is turned
\* away.  Only with an earlier login, unanswered too, that is sent again ahead
\* of it can that happen.
CarriedOutOnce == ~loginAgain => \A c \in Cmds : executed[c] <= 1

\* What is left over from the sessions so far exceeds the bound.
PiledUp == link = "down" /\ ~Reconnectable

\* A command that was handed over is answered, if the bound does not end it.
RequestAnswered == \A c \in Cmds : c \in sent ~> (calls[c] > 0 \/ PiledUp)

\* It is answered, busy answers and all, unless a session ends before: what
\* RequestAnswered claims fails for the sessions that end only.
AnsweredInSession ==
  \A c \in Cmds : c \in sent ~> (calls[c] > 0 \/ faults.breaks > 0 \/ faults.refusals > 0)

\* main gets through both of its waits, the notify before the wait and all,
\* unless the private channel's session ends before.
Starts ==
  <>(\/ main = "ready"
     \/ kind = "private" /\ (faults.breaks > 0 \/ faults.refusals > 0))

\* The public channel needs no login, so it recovers from everything: in the
\* end it is subscribed and stays so.
PublicRecovers == kind = "public" => <>[]subscribed

\* However often the connection has been lost or the login refused: a channel
\* that has nothing but logins left over when it connects again ends up
\* subscribed to the pushes of the exchange, unless it is lost again or refused
\* before.
QuietReconnect ==
  \A j \in 0 .. MaxBreaks, k \in 0 .. MaxRefusals :
    (/\ link = "down" /\ Range(outq \o waiting) \subseteq {"login"} /\ sent = Cmds
     /\ faults.breaks = j /\ faults.refusals = k)
      ~> (subscribed \/ faults.breaks > j \/ faults.refusals > k)
===========================================================================

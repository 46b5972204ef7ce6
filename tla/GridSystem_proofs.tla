-------------------------- MODULE GridSystem_proofs --------------------------
(***************************************************************************)
(* Proofs about GridSystem: whatever the threads, the exchange and the     *)
(* network do, the grid changes only as GridStrategy says, so that every   *)
(* theorem about the grid is one about the system.                         *)
(*                                                                         *)
(* And whatever pushes the network loses and however the threads race, an  *)
(* order that answers a fill exists only once the exchange has filled the  *)
(* order it answers, as long as no order was filled in part.  The          *)
(* argument: the word "filled" reaches the grid on two ways, a push that   *)
(* the feed thread handles and the list that the check thread asked for,   *)
(* and all that is under way on either names orders that were filled; what *)
(* is filled stays filled; so does what was answered.                      *)
(***************************************************************************)
EXTENDS GridSystem, GridStrategy_proofs, FiniteSetTheorems

\* A grid that runs, one that is being closed out, and one that waits to be
\* started again were all asked for with a grid_count that is tried.
OptionIsMeant ==
  (\/ size > 0 \/ rebuilds > 0
   \/ \E t \in Threads \ {"console"} : pc[t] \in {"closeout", "cancel"}) => option \in GridCounts

SysInv == pc \in [Threads -> Steps] /\ rebuilds \in Nat /\ OptionIsMeant

\* The grid is left alone, and no thread but the console's begins a closeout.
Aside(t) ==
  /\ UNCHANGED <<vars, rebuilds>>
  /\ pc' \in [Threads -> Steps]
  /\ \A u \in Threads \ {t} : pc'[u] = pc[u]
  /\ t = "console" \/ pc'[t] \notin {"closeout", "cancel"}

LEMMA SysInitHolds == SysInit => SysInv
  <1> SUFFICES ASSUME SysInit
               PROVE  SysInv
    OBVIOUS
  <1>1. size = 0 /\ rebuilds = 0 /\ pc = [t \in Threads |-> "idle"]
    BY DEF SysInit, Init
  <1> QED
    BY <1>1 DEF SysInv, OptionIsMeant, Steps

LEMMA AsideKeeps ==
  ASSUME SysInv, NEW t \in Threads, Aside(t)
  PROVE  SysInv' /\ UNCHANGED vars
  BY DEF SysInv, OptionIsMeant, Aside, vars

\* A step of none of the threads.
LEMMA ElsewhereKeeps ==
  ASSUME SysInv, UNCHANGED <<vars, pc, rebuilds>>
  PROVE  SysInv' /\ UNCHANGED vars
  BY DEF SysInv, OptionIsMeant, vars

\* startGrid, with an option that is tried.
LEMMA StartKeeps ==
  ASSUME SysInv, NEW t \in Threads, NEW n \in GridCounts, Start(t, n),
         rebuilds' \in Nat, rebuilds' <= rebuilds
  PROVE  SysInv' /\ [Next]_vars
  <1>1. pc' \in [Threads -> Steps] /\ \A u \in Threads \ {t} : pc'[u] = pc[u]
    BY DEF Steps, Start, Goto, SysInv
  <1>2. pc'[t] \notin {"closeout", "cancel"}
    BY DEF Steps, Start, Goto, SysInv
  <1>3. [Next]_vars
    BY DEF Steps, Start, Next
  <1>4. option' = n \/ UNCHANGED vars
    BY DEF Steps, Start, StartGridOk, StartGridFails
  <1>5. OptionIsMeant'
    <2>1. CASE option' = n
      BY <2>1 DEF OptionIsMeant
    <2>2. CASE UNCHANGED vars
      BY <2>2, <1>1, <1>2 DEF OptionIsMeant, SysInv, vars
    <2> QED
      BY <1>4, <2>1, <2>2
  <1> QED
    BY <1>1, <1>3, <1>5 DEF SysInv

LEMMA WorkKeeps ==
  ASSUME SysInv, NEW t \in Threads, Work(t)
  PROVE  SysInv' /\ [Next]_vars
  <1>1. CASE Pass(t)
    <2>1. pc' \in [Threads -> Steps] /\ \A u \in Threads \ {t} : pc'[u] = pc[u]
      BY <1>1 DEF Steps, Pass, Goto, SysInv
    <2>2. CASE size = 0 /\ pc'[t] = "idle" /\ UNCHANGED <<vars, rebuilds>>
      BY <2>1, <2>2, AsideKeeps DEF Aside
    <2>3. CASE UpdateGrid /\ UNCHANGED rebuilds
      BY <2>1, <2>3 DEF UpdateGrid, SysInv, OptionIsMeant, Next
    <2>4. \/ size = 0 /\ pc'[t] = "idle" /\ UNCHANGED <<vars, rebuilds>>
          \/ UpdateGrid /\ UNCHANGED rebuilds
      BY <1>1 DEF Steps, Pass, Goto, SysInv
    <2> QED
      BY <2>2, <2>3, <2>4
  <1>2. CASE Send(t)
    <2>1. Aside(t)
      BY <1>2 DEF Steps, Send, Goto, SysInv, Aside
    <2> QED
      BY <2>1, AsideKeeps
  <1>3. CASE Clear(t)
    <2>1. pc' \in [Threads -> Steps] /\ \A u \in Threads \ {t} : pc'[u] = pc[u]
      BY <1>3 DEF Steps, Clear, Goto, SysInv
    <2>2. pc[t] = "closeout" /\ ClearGrid /\ UNCHANGED rebuilds
      BY <1>3 DEF Clear
    <2>3. size' = 0 /\ option' = option
      BY <2>2 DEF ClearGrid, NoGrid
    <2> QED
      BY <2>1, <2>2, <2>3 DEF SysInv, OptionIsMeant, Next
  <1>4. CASE Cancel(t)
    <2>1. pc' \in [Threads -> Steps] /\ \A u \in Threads \ {t} : pc'[u] = pc[u]
      BY <1>4 DEF Steps, Cancel, Goto, SysInv
    <2>2. pc[t] = "cancel" /\ pc'[t] \in {"idle", "cancel"} /\ UNCHANGED vars
      BY <1>4 DEF Steps, Cancel, Goto, SysInv
    <2>3. rebuilds' = rebuilds \/ (t # "console" /\ rebuilds' = rebuilds + 1)
      BY <1>4 DEF Cancel
    <2> QED
      BY <2>1, <2>2, <2>3 DEF SysInv, OptionIsMeant, vars
  <1> QED
    BY <1>1, <1>2, <1>3, <1>4 DEF Work

\* Marking is a region of code under the lock, with a status of the exchange.
LEMMA MarkIsARegion ==
  ASSUME Reports = Statuses, NEW id, NEW status \in Statuses, Mark(id, status)
  PROVE  [Next]_vars /\ UNCHANGED <<option, size>>
  <1>1. CASE UNCHANGED vars
    BY <1>1 DEF vars
  <1>2. CASE SetStatus(id, status)
    <2>1. PICK o \in orders : o.id = id
      BY <1>2 DEF SetStatus
    <2>2. SetStatus(o.id, status)
      BY <1>2, <2>1
    <2> QED
      BY <2>2 DEF Next, SetStatus
  <1> QED
    BY <1>1, <1>2 DEF Mark

LEMMA MarkKeeps ==
  ASSUME Reports = Statuses, SysInv, NEW t \in Threads, NEW status \in Statuses,
         MarkOne(t, status), UNCHANGED <<pc, rebuilds>>
  PROVE  SysInv' /\ [Next]_vars
  <1>1. PICK id \in todo[t] : Mark(id, status)
    BY DEF MarkOne
  <1> QED
    BY <1>1, MarkIsARegion DEF SysInv, OptionIsMeant

LEMMA FeedKeeps ==
  ASSUME Reports = Statuses, SysInv, Feed
  PROVE  SysInv' /\ [Next]_vars
  <1>1. CASE MarkFeed
    <2>1. StatusOf(Head(inbox)) \in Statuses
      BY DEF StatusOf, Statuses
    <2> QED
      BY <1>1, <2>1, MarkKeeps DEF MarkFeed, Threads
  <1>2. CASE Receive \/ MarkedPass \/ Retry
    <2>1. Aside("feed")
      BY <1>2 DEF Steps, Receive, MarkedPass, Retry, Goto, SysInv, Aside
    <2> QED
      BY <2>1, AsideKeeps DEF Threads
  <1>3. CASE Connect \/ Relogin
    BY <1>3, ElsewhereKeeps DEF Connect, Relogin
  <1> QED
    BY <1>1, <1>2, <1>3 DEF Feed

LEMMA CheckerKeeps ==
  ASSUME Reports = Statuses, SysInv, Checker \/ Amend
  PROVE  SysInv' /\ [Next]_vars
  <1>1. CASE Check \/ Query
    <2>1. Aside("check")
      BY <1>1 DEF Steps, Check, Query, Goto, SysInv, Aside
    <2> QED
      BY <2>1, AsideKeeps DEF Threads
  <1>2. CASE MarkCheck /\ MarkOne("check", "Filled")
    <2>1. UNCHANGED <<pc, rebuilds>>
      BY <1>2 DEF MarkCheck, MarkOne
    <2> QED
      BY <1>2, <2>1, MarkKeeps DEF Threads, Statuses
  <1>3. CASE MarkCheck /\ ~MarkOne("check", "Filled")
    <2>1. Aside("check")
      BY <1>3 DEF Steps, MarkCheck, Goto, SysInv, Aside
    <2> QED
      BY <2>1, AsideKeeps DEF Threads
  <1>4. CASE Amend
    <2>1. CheckLongUnfilledOrder /\ UNCHANGED <<pc, rebuilds>>
      BY <1>4 DEF Amend, sysVars
    <2>2. UNCHANGED <<option, size>>
      BY <2>1 DEF CheckLongUnfilledOrder, GiveUp
    <2> QED
      BY <2>1, <2>2 DEF SysInv, OptionIsMeant, Next
  <1> QED
    BY <1>1, <1>2, <1>3, <1>4 DEF Checker

LEMMA ConsoleKeeps ==
  ASSUME SysInv,
         ConsoleStop \/ Rebuild \/ \E n \in GridCounts : ConsoleStart(n) \/ ConsoleTest(n)
  PROVE  SysInv' /\ [Next]_vars
  <1>1. CASE ConsoleStop
    <2>1. Aside("console")
      BY <1>1 DEF Steps, ConsoleStop, Goto, SysInv, Aside
    <2> QED
      BY <2>1, AsideKeeps DEF Threads
  <1>2. CASE Rebuild
    <2>1. option \in GridCounts /\ rebuilds' \in Nat /\ rebuilds' <= rebuilds
      BY <1>2 DEF Rebuild, SysInv, OptionIsMeant
    <2>2. Start("rebuild", option)
      BY <1>2 DEF Rebuild
    <2> QED
      BY <2>1, <2>2, StartKeeps DEF Threads
  <1>3. ASSUME NEW n \in GridCounts, ConsoleStart(n)
        PROVE  SysInv' /\ [Next]_vars
    BY <1>3, StartKeeps DEF ConsoleStart, Threads, SysInv
  <1>4. ASSUME NEW n \in GridCounts, ConsoleTest(n)
        PROVE  SysInv' /\ [Next]_vars
    <2>1. option' = n /\ UNCHANGED <<pc, rebuilds>>
      BY <1>4 DEF ConsoleTest, StartGridOk, StartGridFails
    <2>2. [Next]_vars
      BY <1>4 DEF ConsoleTest, Next
    <2> QED
      BY <2>1, <2>2 DEF SysInv, OptionIsMeant
  <1> QED
    BY <1>1, <1>2, <1>3, <1>4

LEMMA OutsideKeeps ==
  ASSUME SysInv, Serve \/ Break \/ \E id \in live : Fill(id) \/ FillInPart(id)
  PROVE  SysInv' /\ [Next]_vars
  <1>1. UNCHANGED <<vars, pc, rebuilds>>
    BY DEF Serve, Break, Fill, FillInPart
  <1> QED
    BY <1>1, ElsewhereKeeps

LEMMA SysNextKeeps ==
  ASSUME Reports = Statuses, SysInv, [SysNext]_allVars
  PROVE  SysInv' /\ [Next]_vars
  <1>1. CASE SysNext
    BY <1>1, WorkKeeps, FeedKeeps, CheckerKeeps, ConsoleKeeps, OutsideKeeps DEF SysNext
  <1>2. CASE UNCHANGED allVars
    BY <1>2, ElsewhereKeeps DEF allVars, sysVars
  <1> QED
    BY <1>1, <1>2

\* However the threads' steps, the exchange's answers and the losses of the
\* connection interleave, the grid is changed only by the regions of code
\* under its lock, in the circumstances GridStrategy gives them.
LEMMA ThreadsKeepToStrategy ==
  ASSUME Reports = Statuses
  PROVE  SysSpec => Spec
<1>1. SysInit => Init
  BY DEF SysInit
<1>2. SysInv /\ [SysNext]_allVars => SysInv' /\ [Next]_vars
  BY SysNextKeeps
<1> QED
  BY <1>1, <1>2, SysInitHolds, PTL DEF SysSpec, Spec

\* So in the whole system no level is ever bought twice, every order rests
\* on the level of its chain, and every fill finds the level of its answer.
THEOREM SystemBuysOnce ==
  ASSUME Reports = Statuses
  PROVE  SysSpec => [](OneOrderPerChain /\ OrdersOnLevel /\ FillsAreAnswered)
<1> QED
  BY ThreadsKeepToStrategy, NoDoubleOrder, LevelsRespected, EveryFillAnswered, PTL

---------------------------------------------------------------------------
(* The shape of the state.                                                 *)

\* The feed thread keeps the message it marks orders of.
HasMessage == pc["feed"] = "mark" => inbox # <<>>

LEMMA IdsTyped ==
  ASSUME NEW S, S \subseteq Order
  PROVE  Ids(S) \subseteq ChainId
  BY DEF Ids, Order

LEMMA OpenersTyped ==
  ASSUME NEW S \in SUBSET ChainId
  PROVE  OpenersOf(S) \subseteq ChainId
  <1> SUFFICES ASSUME NEW id \in S, ~Opens(id)
               PROVE  Opener(id) \in ChainId
    BY DEF OpenersOf
  <1>1. id.hop \in Nat /\ id.hop # 0
    BY DEF ChainId, Opens
  <1> QED
    BY <1>1 DEF Opener, ChainId

LEMMA BatchWithin ==
  ASSUME NEW S, NEW B \in Batches(S)
  PROVE  B \subseteq S
  BY DEF Batches, Some

LEMMA RequestTyped ==
  ASSUME NEW op \in {"place", "cancel", "close", "sub"}, NEW ids \in SUBSET ChainId,
         NEW close \in SUBSET ChainId
  PROVE  Request(op, ids, close) \in Requests
  BY DEF Request, Requests

LEMMA AnswerTyped ==
  ASSUME NEW kind \in Statuses \cup {"refused", "busy", "answer"}, NEW ids \in SUBSET ChainId,
         NEW known \in SUBSET ChainId, NEW again \in Seq(Requests)
  PROVE  Answer(kind, ids, known, again) \in Messages
  BY DEF Answer, Messages

LEMMA MessageTyped ==
  ASSUME NEW kind \in Statuses \cup {"refused", "busy", "answer"}, NEW ids \in SUBSET ChainId
  PROVE  Message(kind, ids) \in Messages
  <1>1. <<>> \in Seq(Requests)
    OBVIOUS
  <1> QED
    BY <1>1, AnswerTyped DEF Message

\* An event more.
LEMMA CountsTyped ==
  ASSUME NEW c \in Counts, NEW n \in Nat
  PROVE  /\ [c EXCEPT !.partials = @ + 1] \in Counts
         /\ [c EXCEPT !.refused = @ + n] \in Counts
         /\ [c EXCEPT !.refused = @ + n, !.busy = @ + 1] \in Counts
         /\ [c EXCEPT !.busy = @ + 1] \in Counts
         /\ [c EXCEPT !.breaks = @ + 1] \in Counts
         /\ [c EXCEPT !.stops = @ + 1] \in Counts
         /\ [c EXCEPT !.tests = @ + 1] \in Counts
  <1>1. [c EXCEPT !.partials = @ + 1] \in Counts
    BY DEF Counts
  <1>2. [c EXCEPT !.refused = @ + n] \in Counts
    BY DEF Counts
  <1>3. [c EXCEPT !.refused = @ + n, !.busy = @ + 1] \in Counts
    <2> DEFINE d == [c EXCEPT !.refused = @ + n]
    <2>1. d \in Counts /\ d.busy = c.busy
      BY <1>2 DEF Counts
    <2>2. [d EXCEPT !.busy = @ + 1] \in Counts
      <3> HIDE DEF d
      <3> QED
        BY <2>1 DEF Counts
    <2>3. [c EXCEPT !.refused = @ + n, !.busy = @ + 1] = [d EXCEPT !.busy = @ + 1]
      OBVIOUS
    <2> QED
      BY <2>2, <2>3
  <1>4. [c EXCEPT !.busy = @ + 1] \in Counts
    BY DEF Counts
  <1>5. [c EXCEPT !.breaks = @ + 1] \in Counts
    BY DEF Counts
  <1>6. [c EXCEPT !.tests = @ + 1] \in Counts
    BY DEF Counts
  <1>7. [c EXCEPT !.stops = @ + 1] \in Counts
    BY DEF Counts
  <1> QED
    BY <1>1, <1>2, <1>3, <1>4, <1>5, <1>6, <1>7

LEMMA LetGoTyped ==
  ASSUME wire \in Seq(Requests), NEW task \in SUBSET ChainId, NEW t, NEW n, LetGo(task, t, n)
  PROVE  wire' \in Seq(Requests)
  <1>1. Request("close", task, {}) \in Requests
    BY RequestTyped
  <1> QED
    BY <1>1 DEF LetGo

\* What is known of the exchange and its history.
BooksTyped ==
  {live, part, filled, closed, forgotten, overtaken, stranded, unheeded} \subseteq SUBSET ChainId

LEMMA BooksKept ==
  ASSUME SysTypeOK, UNCHANGED <<exchange, forgotten, overtaken, stranded, unheeded>>
  PROVE  BooksTyped'
  BY DEF SysTypeOK, BooksTyped, exchange

\* What a region of code leaves of the rest of the system.
LEMMA StartTyped ==
  ASSUME SysTypeOK, TypeOK', NEW t \in Threads, NEW n, Start(t, n), UNCHANGED history,
         rebuilds' \in Nat
  PROVE  SysTypeOK'
  <1>1. pc' \in [Threads -> Steps]
    BY DEF SysTypeOK, Start, Goto, Steps
  <1>2. todo' \in [Threads -> SUBSET ChainId]
    <2>1. Ids(orders') \subseteq ChainId
      BY IdsTyped DEF TypeOK
    <2> QED
      BY <2>1 DEF SysTypeOK, Start
  <1> QED
    BY <1>1, <1>2 DEF SysTypeOK, Start, network, exchange, history

LEMMA PassTyped ==
  ASSUME SysTypeOK, TypeOK', NEW t \in Threads, Pass(t)
  PROVE  SysTypeOK'
  <1>1. pc' \in [Threads -> Steps]
    BY DEF SysTypeOK, Pass, Goto, Steps
  <1>2. todo' \in [Threads -> SUBSET ChainId]
    <2>1. CASE UNCHANGED todo
      BY <2>1 DEF SysTypeOK
    <2>2. CASE UpdateGrid /\ todo' = [todo EXCEPT ![t] = Ids(Placed)]
      <3>1. Placed \subseteq orders'
        BY <2>2 DEF UpdateGrid
      <3>2. Ids(Placed) \subseteq ChainId
        BY <3>1, IdsTyped DEF TypeOK
      <3> QED
        BY <2>2, <3>2 DEF SysTypeOK
    <2> QED
      BY <2>1, <2>2 DEF Pass
  <1> QED
    BY <1>1, <1>2 DEF SysTypeOK, Pass, network, exchange, history

LEMMA SendTyped ==
  ASSUME SysTypeOK, TypeOK', NEW t \in Threads, Send(t)
  PROVE  SysTypeOK'
  <1>1. pc' \in [Threads -> Steps]
    BY DEF SysTypeOK, Send, Goto, Steps
  <1>2. /\ todo' \in [Threads -> SUBSET ChainId] /\ wire' \in Seq(Requests)
        /\ overtaken' \in SUBSET ChainId
    <2>1. CASE UNCHANGED <<todo, wire, overtaken>>
      BY <2>1 DEF SysTypeOK
    <2>2. ASSUME NEW B \in Batches(todo[t]),
                 wire' = Append(wire, Request("place", B, {})),
                 todo' = [todo EXCEPT ![t] = @ \ B],
                 overtaken' = overtaken \cup (B \ Ids(orders))
          PROVE  /\ todo' \in [Threads -> SUBSET ChainId] /\ wire' \in Seq(Requests)
                 /\ overtaken' \in SUBSET ChainId
      <3>1. B \in SUBSET ChainId
        BY BatchWithin DEF SysTypeOK
      <3>2. Request("place", B, {}) \in Requests
        BY <3>1, RequestTyped
      <3> QED
        BY <2>2, <3>1, <3>2 DEF SysTypeOK
    <2> QED
      BY <2>1, <2>2 DEF Send
  <1> QED
    BY <1>1, <1>2 DEF SysTypeOK, Send, exchange, history

LEMMA ClearTyped ==
  ASSUME SysTypeOK, TypeOK', NEW t \in Threads, Clear(t)
  PROVE  SysTypeOK'
  <1>1. pc' \in [Threads -> Steps]
    BY DEF SysTypeOK, Clear, Goto, Steps
  <1>2. orders \subseteq Order
    BY DEF SysTypeOK, TypeOK
  <1>3. Ids(Cancelled) \subseteq ChainId /\ Ids(Closable) \subseteq ChainId
        /\ Ids({o \in orders : ~IsExit(o)}) \subseteq ChainId
    BY <1>2, IdsTyped DEF Cancelled, Closable
  <1>4. closing' \in [Threads -> SUBSET ChainId] /\ stranded' \in SUBSET ChainId
    <2>1. PICK B \in Batches(Ids(Closable)) :
            /\ closing' = [closing EXCEPT ![t] = B]
            /\ stranded' = stranded \cup Ids({o \in orders : ~IsExit(o)})
                             \cup OpenersOf(Ids(Closable) \ B)
      BY DEF Clear
    <2>2. B \in SUBSET ChainId
      BY <1>3, BatchWithin
    <2>3. OpenersOf(Ids(Closable) \ B) \subseteq ChainId
      BY <1>3, OpenersTyped
    <2> QED
      BY <1>3, <2>1, <2>2, <2>3 DEF SysTypeOK
  <1> QED
    BY <1>1, <1>3, <1>4 DEF SysTypeOK, Clear, network, exchange

LEMMA CancelTyped ==
  ASSUME SysTypeOK, TypeOK', NEW t \in Threads, Cancel(t)
  PROVE  SysTypeOK'
  <1>1. pc' \in [Threads -> Steps]
    BY DEF SysTypeOK, Cancel, Goto, Steps
  <1>2. closing[t] \in SUBSET ChainId
    BY DEF SysTypeOK
  <1>3. /\ todo' \in [Threads -> SUBSET ChainId] /\ closing' \in [Threads -> SUBSET ChainId]
        /\ wire' \in Seq(Requests)
    <2>1. CASE /\ LetGo(closing[t], t, 0) /\ UNCHANGED todo
               /\ closing' = [closing EXCEPT ![t] = {}]
      BY <1>2, <2>1, LetGoTyped DEF SysTypeOK
    <2>2. ASSUME NEW B \in Batches(todo[t]), UNCHANGED closing,
                 wire' = Append(wire, Request("cancel", B, closing[t])),
                 todo' = [todo EXCEPT ![t] = @ \ B]
          PROVE  /\ todo' \in [Threads -> SUBSET ChainId]
                 /\ closing' \in [Threads -> SUBSET ChainId] /\ wire' \in Seq(Requests)
      <3>1. B \in SUBSET ChainId
        BY BatchWithin DEF SysTypeOK
      <3>2. Request("cancel", B, closing[t]) \in Requests
        BY <1>2, <3>1, RequestTyped
      <3> QED
        BY <2>2, <3>2 DEF SysTypeOK
    <2> QED
      BY <2>1, <2>2 DEF Cancel
  <1>4. rebuilds' \in Nat
    BY DEF Cancel, SysTypeOK
  <1> QED
    BY <1>1, <1>3, <1>4 DEF SysTypeOK, Cancel, exchange, history

LEMMA WorkTyped ==
  ASSUME SysTypeOK, TypeOK', NEW t \in Threads, Work(t)
  PROVE  SysTypeOK'
  BY PassTyped, SendTyped, ClearTyped, CancelTyped DEF Work

LEMMA MarkOneTyped ==
  ASSUME SysTypeOK, NEW t \in Threads, NEW status, MarkOne(t, status)
  PROVE  todo' \in [Threads -> SUBSET ChainId]
  BY DEF SysTypeOK, MarkOne

LEMMA FeedTyped ==
  ASSUME SysTypeOK, TypeOK', HasMessage, Feed
  PROVE  SysTypeOK'
  <1>1. "feed" \in Threads /\ inbox \in Seq(Messages) /\ wire \in Seq(Requests)
    BY DEF Threads, SysTypeOK
  <1>2. ASSUME inbox # <<>>
        PROVE  Head(inbox) \in Messages /\ Tail(inbox) \in Seq(Messages)
    BY <1>1, <1>2
  <1>3. CASE Receive
    <2>1. pc' \in [Threads -> Steps]
      BY <1>3 DEF SysTypeOK, Receive, Goto, Steps
    <2>2. Head(inbox).ids \in SUBSET ChainId /\ Marked(Head(inbox)) \in SUBSET ChainId
      BY <1>2, <1>3 DEF Receive, Messages, Marked
    <2>3. wire' \in Seq(Requests)
      BY <1>1, <1>3, <2>2, LetGoTyped DEF Receive
    <2>4. todo' \in [Threads -> SUBSET ChainId] /\ inbox' \in Seq(Messages)
      BY <1>1, <1>2, <1>3, <2>2 DEF Receive, SysTypeOK
    <2> QED
      BY <1>3, <2>1, <2>3, <2>4 DEF SysTypeOK, Receive, exchange, history
  <1>4. CASE MarkFeed
    BY <1>1, <1>4, MarkOneTyped DEF SysTypeOK, MarkFeed, network, exchange, history
  <1>5. CASE MarkedPass /\ inbox # <<>>
    BY <1>1, <1>2, <1>5 DEF SysTypeOK, MarkedPass, Goto, Steps, exchange, history
  <1>6. CASE Retry /\ inbox # <<>>
    <2>1. Head(inbox).again \in Seq(Requests)
      BY <1>2, <1>6 DEF Messages
    <2>2. wire' \in Seq(Requests) /\ inbox' \in Seq(Messages)
      BY <1>1, <1>2, <1>6, <2>1 DEF Retry
    <2>3. forgotten' \in SUBSET ChainId
      <3>1. \A i \in DOMAIN Head(inbox).again : Head(inbox).again[i].ids \in SUBSET ChainId
        <4> SUFFICES ASSUME NEW i \in DOMAIN Head(inbox).again
                     PROVE  Head(inbox).again[i].ids \in SUBSET ChainId
          OBVIOUS
        <4>1. Head(inbox).again[i] \in Requests
          BY <2>1
        <4> QED
          BY <4>1 DEF Requests
      <3> DEFINE again == Head(inbox).again
                 asked == {again[i].ids \ (again[i].known \cup Ids(Kept)) :
                             i \in {j \in DOMAIN again : again[j].op = "place"}}
      <3>2. UNION asked \subseteq ChainId
        BY <3>1
      <3>3. forgotten' = forgotten \cup UNION asked
        BY <1>6 DEF Retry
      <3> HIDE DEF asked
      <3> QED
        BY <3>2, <3>3 DEF SysTypeOK
    <2>4. pc' \in [Threads -> Steps]
      BY <1>6 DEF Retry, Goto, Steps, SysTypeOK
    <2> QED
      BY <1>6, <2>2, <2>3, <2>4 DEF SysTypeOK, Retry, exchange
  <1>7. CASE Connect
    BY <1>7 DEF SysTypeOK, Connect, exchange, history
  <1>8. CASE Relogin
    <2>1. Request("sub", {}, {}) \in Requests
      BY RequestTyped
    <2>2. wire' \in Seq(Requests) /\ dirty' \in BOOLEAN /\ conn' = "login"
      BY <1>1, <1>8, <2>1 DEF Relogin, SysTypeOK
    <2> QED
      BY <1>8, <2>2 DEF SysTypeOK, Relogin, exchange, history
  <1> QED
    BY <1>3, <1>4, <1>5, <1>6, <1>7, <1>8 DEF Feed, MarkedPass, Retry, HasMessage

LEMMA CheckerTyped ==
  ASSUME SysTypeOK, TypeOK', Checker \/ Amend
  PROVE  SysTypeOK'
  <1>1. "check" \in Threads
    BY DEF Threads
  <1>2. CASE Check
    BY <1>1, <1>2 DEF SysTypeOK, Check, Goto, Steps, network, exchange, history
  <1>3. CASE Query
    <2>1. ASSUME NEW listed \in Some(filled \cup part, FillsListed)
          PROVE  listed \cap Ids(orders) \in SUBSET ChainId
      BY <2>1 DEF Some, SysTypeOK
    <2>2. todo' \in [Threads -> SUBSET ChainId]
      BY <1>3, <2>1 DEF Query, SysTypeOK
    <2>3. pc' \in [Threads -> Steps]
      BY <1>3 DEF Query, Goto, Steps, SysTypeOK
    <2> QED
      BY <1>3, <2>2, <2>3 DEF SysTypeOK, Query, network, exchange, history
  <1>4. CASE MarkCheck
    <2>1. pc' \in [Threads -> Steps] /\ dirty' \in BOOLEAN
      BY <1>4 DEF MarkCheck, Goto, Steps, SysTypeOK
    <2>2. todo' \in [Threads -> SUBSET ChainId]
      BY <1>1, <1>4, MarkOneTyped DEF MarkCheck, SysTypeOK
    <2> QED
      BY <1>4, <2>1, <2>2 DEF SysTypeOK, MarkCheck, network, exchange, history
  <1>5. CASE Amend
    BY <1>5 DEF SysTypeOK, Amend, sysVars, network, exchange, history
  <1> QED
    BY <1>2, <1>3, <1>4, <1>5 DEF Checker

LEMMA ConsoleTyped ==
  ASSUME SysTypeOK, TypeOK',
         ConsoleStop \/ Rebuild \/ \E n \in GridCounts : ConsoleStart(n) \/ ConsoleTest(n)
  PROVE  SysTypeOK'
  <1>1. CASE ConsoleStop
    <2>1. count' \in Counts
      BY <1>1, CountsTyped DEF ConsoleStop, SysTypeOK
    <2>2. pc' \in [Threads -> Steps]
      BY <1>1 DEF ConsoleStop, SysTypeOK, Goto, Steps
    <2>3. BooksTyped'
      BY <1>1, BooksKept DEF ConsoleStop
    <2> QED
      BY <1>1, <2>1, <2>2, <2>3 DEF SysTypeOK, ConsoleStop, network, BooksTyped
  <1>2. CASE Rebuild
    <2>1. rebuilds' \in Nat
      BY <1>2 DEF Rebuild, SysTypeOK
    <2> QED
      BY <1>2, <2>1, StartTyped DEF Rebuild, Threads
  <1>3. ASSUME NEW n \in GridCounts, ConsoleStart(n)
        PROVE  SysTypeOK'
    BY <1>3, StartTyped DEF ConsoleStart, Threads, SysTypeOK
  <1>4. ASSUME NEW n \in GridCounts, ConsoleTest(n)
        PROVE  SysTypeOK'
    <2>1. count' \in Counts
      BY <1>4, CountsTyped DEF ConsoleTest, SysTypeOK
    <2>2. BooksTyped'
      BY <1>4, BooksKept DEF ConsoleTest
    <2> QED
      BY <1>4, <2>1, <2>2 DEF SysTypeOK, ConsoleTest, network, BooksTyped
  <1> QED
    BY <1>1, <1>2, <1>3, <1>4

LEMMA PushedTyped ==
  ASSUME inbox \in Seq(Messages), NEW ids \in SUBSET ChainId, NEW status \in Statuses
  PROVE  Pushed(ids, status) \in Seq(Messages)
  <1>1. Message(status, ids) \in Messages
    BY MessageTyped
  <1> QED
    BY <1>1 DEF Pushed

LEMMA Joined ==
  ASSUME NEW S, NEW s \in Seq(S), NEW t \in Seq(S)
  PROVE  /\ s \o t \in Seq(S) /\ Len(s \o t) = Len(s) + Len(t)
         /\ \A i \in 1 .. Len(s) + Len(t) :
              (s \o t)[i] = IF i <= Len(s) THEN s[i] ELSE t[i - Len(s)]
  OBVIOUS

\* Serving adds at most two messages: a push, then an answer.
Adds(m, n) ==
  inbox' \in {inbox, Append(inbox, m), Append(inbox, n), Append(Append(inbox, m), n)}

LEMMA OneMore ==
  ASSUME NEW s \in Seq(Messages), NEW m \in Messages
  PROVE  /\ Append(s, m) \in Seq(Messages)
         /\ \A i \in DOMAIN Append(s, m) :
              Append(s, m)[i] = m \/ \E j \in DOMAIN s : Append(s, m)[i] = s[j]
         /\ Append(s, m) # <<>> /\ (s # <<>> => Head(Append(s, m)) = Head(s))
  OBVIOUS

LEMMA InboxAdds ==
  ASSUME inbox \in Seq(Messages), NEW m \in Messages, NEW n \in Messages, Adds(m, n)
  PROVE  /\ inbox' \in Seq(Messages)
         /\ \A i \in DOMAIN inbox' :
              inbox'[i] \in {m, n} \/ \E j \in DOMAIN inbox : inbox'[i] = inbox[j]
         /\ inbox # <<>> => inbox' # <<>> /\ Head(inbox') = Head(inbox)
  <1> DEFINE one == Append(inbox, m)
  <1>1. /\ one \in Seq(Messages)
        /\ \A i \in DOMAIN one : one[i] = m \/ \E j \in DOMAIN inbox : one[i] = inbox[j]
        /\ one # <<>> /\ (inbox # <<>> => Head(one) = Head(inbox))
    BY OneMore
  <1>2. inbox' \in {inbox, one, Append(inbox, n), Append(one, n)}
    BY DEF Adds
  <1> HIDE DEF one
  <1>3. CASE inbox' \in {inbox, one}
    BY <1>1, <1>3
  <1>4. CASE inbox' = Append(inbox, n)
    BY <1>4, OneMore
  <1>5. CASE inbox' = Append(one, n)
    <2>1. /\ inbox' \in Seq(Messages)
          /\ \A i \in DOMAIN inbox' : inbox'[i] = n \/ \E j \in DOMAIN one : inbox'[i] = one[j]
          /\ inbox' # <<>> /\ (one # <<>> => Head(inbox') = Head(one))
      BY <1>1, <1>5, OneMore
    <2> QED
      BY <1>1, <2>1
  <1> QED
    BY <1>2, <1>3, <1>4, <1>5

\* The request that a busy answer asks to send again is the one it answers.
SameRequest(q, r) == q \in Requests /\ q.op = r.op /\ q.ids = r.ids /\ q.close = r.close

\* The exchange serves r: it pushes m and answers n, if anything.  No push
\* says of an order of the grid that it was filled.
Says(r, m, n) ==
  /\ {m, n} \subseteq Messages /\ Adds(m, n)
  /\ m.kind \in Statuses /\ m.again = <<>> /\ (m.kind = "Filled" => m.ids = {})
  /\ n.kind \notin Statuses
  /\ n.again = <<>> \/ \E q : SameRequest(q, r) /\ n.again = <<q>>

\* The push is one message or none.
LEMMA PushSaid ==
  ASSUME SysTypeOK, NEW ids \in SUBSET ChainId, NEW status \in Statuses
  PROVE  /\ Pushed(ids, status) \in {inbox, Append(inbox, Message(status, ids))}
         /\ Message(status, ids) \in Messages
         /\ Message(status, ids).kind = status /\ Message(status, ids).ids = ids
         /\ Message(status, ids).again = <<>>
  BY MessageTyped DEF Pushed, Message, Answer

LEMMA TradeSaid ==
  ASSUME SysTypeOK, NEW ids
  PROVE  /\ Traded(ids) \in {inbox, Append(inbox, Message("Filled", {}))}
         /\ Message("Filled", {}) \in Messages
         /\ Message("Filled", {}).kind = "Filled" /\ Message("Filled", {}).ids = {}
         /\ Message("Filled", {}).again = <<>>
  BY MessageTyped DEF Traded, Message, Answer, Statuses

LEMMA ServePlaceSays ==
  ASSUME SysTypeOK, NEW r \in Requests, ServePlace(r)
  PROVE  \E m, n : Says(r, m, n)
  <1>1. PICK R \in SUBSET (r.ids \ r.known) :
          LET pushes == Pushed(r.ids \ (r.known \cup R), "Live")
          IN  inbox' = IF R \cup r.known = {} THEN pushes
                       ELSE Append(pushes, Answer("refused", R \cup r.known, r.known, <<>>))
    BY DEF ServePlace
  <1> DEFINE placed == r.ids \ (r.known \cup R)
             m == Message("Live", placed)
             n == Answer("refused", R \cup r.known, r.known, <<>>)
  <1>2. placed \in SUBSET ChainId /\ R \cup r.known \in SUBSET ChainId /\ r.known \in SUBSET ChainId
    BY DEF Requests
  <1>3. /\ Pushed(placed, "Live") \in {inbox, Append(inbox, m)}
        /\ m \in Messages /\ m.kind = "Live" /\ m.again = <<>>
    BY <1>2, PushSaid DEF Statuses
  <1>4. n \in Messages /\ n.kind \notin Statuses /\ n.again = <<>>
    <2>1. <<>> \in Seq(Requests)
      OBVIOUS
    <2> QED
      BY <1>2, <2>1, AnswerTyped DEF Answer, Statuses
  <1>5. inbox' \in {Pushed(placed, "Live"), Append(Pushed(placed, "Live"), n)}
    BY <1>1
  <1> HIDE DEF m, n, placed
  <1>6. Adds(m, n)
    BY <1>3, <1>5 DEF Adds
  <1>7. Says(r, m, n)
    BY <1>3, <1>4, <1>6 DEF Says, Statuses
  <1> QED
    BY <1>7

LEMMA ServePlaceBusySays ==
  ASSUME SysTypeOK, NEW r \in Requests, ServePlaceBusy(r)
  PROVE  \E m, n : Says(r, m, n)
  <1>1. PICK U \in SUBSET (r.ids \ r.known), R \in SUBSET (r.ids \ r.known) :
          inbox' = Append(Pushed(r.ids \ (r.known \cup R \cup U), "Live"),
                          Answer("busy", R \cup r.known, r.known,
                                 << [r EXCEPT !.known = r.ids \ (R \cup U)] >>))
    BY DEF ServePlaceBusy
  <1> DEFINE placed == r.ids \ (r.known \cup R \cup U)
             q == [r EXCEPT !.known = r.ids \ (R \cup U)]
             m == Message("Live", placed)
             n == Answer("busy", R \cup r.known, r.known, <<q>>)
  <1>2. placed \in SUBSET ChainId /\ R \cup r.known \in SUBSET ChainId /\ r.known \in SUBSET ChainId
    BY DEF Requests
  <1>3. /\ Pushed(placed, "Live") \in {inbox, Append(inbox, m)}
        /\ m \in Messages /\ m.kind = "Live" /\ m.again = <<>>
    BY <1>2, PushSaid DEF Statuses
  <1>4. SameRequest(q, r)
    BY DEF SameRequest, Requests
  <1>5. inbox' = Append(Pushed(placed, "Live"), n)
    BY <1>1
  <1> HIDE DEF q
  <1>6. n \in Messages /\ n.kind \notin Statuses /\ n.again = <<q>>
    <2>1. <<q>> \in Seq(Requests)
      BY <1>4 DEF SameRequest
    <2> QED
      BY <1>2, <2>1, AnswerTyped DEF Answer, Statuses
  <1> HIDE DEF m, n, placed
  <1>7. Adds(m, n)
    BY <1>3, <1>5 DEF Adds
  <1>8. Says(r, m, n)
    BY <1>3, <1>4, <1>6, <1>7 DEF Says, Statuses
  <1> QED
    BY <1>8

LEMMA ServeCloseSays ==
  ASSUME SysTypeOK, NEW r \in Requests, ServeClose(r) \/ ServeCloseBusy(r)
  PROVE  \E m, n : Says(r, m, n)
  <1> DEFINE m == Message("Filled", {})
  <1>1. /\ \A ids : Traded(ids) \in {inbox, Append(inbox, m)}
        /\ m \in Messages /\ m.kind = "Filled" /\ m.ids = {} /\ m.again = <<>>
    BY TradeSaid
  <1>2. <<>> \in Seq(Requests)
    OBVIOUS
  <1>3. CASE ServeClose(r)
    <2> DEFINE n == Message("refused", {})
    <2>1. n \in Messages /\ n.kind \notin Statuses /\ n.again = <<>>
      BY <1>2, AnswerTyped DEF Answer, Message, Statuses
    <2>2. \E ids : inbox' \in {Traded(ids), Append(Traded(ids), n)}
      BY <1>3 DEF ServeClose
    <2> HIDE DEF m, n
    <2>3. Adds(m, n)
      BY <1>1, <2>2 DEF Adds
    <2>4. Says(r, m, n)
      BY <1>1, <2>1, <2>3 DEF Says, Statuses
    <2> QED
      BY <2>4
  <1>4. CASE ServeCloseBusy(r)
    <2>1. PICK U \in SUBSET (r.ids \ r.known) :
            inbox' = Append(Traded(r.ids \ (r.known \cup U)),
                            Answer("busy", {}, {}, << [r EXCEPT !.known = r.ids \ U] >>))
      BY <1>4 DEF ServeCloseBusy
    <2> DEFINE q == [r EXCEPT !.known = r.ids \ U]
               n == Answer("busy", {}, {}, <<q>>)
    <2>2. SameRequest(q, r)
      BY DEF SameRequest, Requests
    <2>3. inbox' = Append(Traded(r.ids \ (r.known \cup U)), n)
      BY <2>1
    <2> HIDE DEF q
    <2>4. n \in Messages /\ n.kind \notin Statuses /\ n.again = <<q>>
      <3>1. <<q>> \in Seq(Requests)
        BY <2>2 DEF SameRequest
      <3> QED
        BY <3>1, AnswerTyped DEF Answer, Statuses
    <2> HIDE DEF m, n
    <2>5. Adds(m, n)
      BY <1>1, <2>3 DEF Adds
    <2>6. Says(r, m, n)
      BY <1>1, <2>2, <2>4, <2>5 DEF Says, Statuses
    <2> QED
      BY <2>6
  <1> QED
    BY <1>3, <1>4

LEMMA ServeBusySays ==
  ASSUME SysTypeOK, NEW r \in Requests,
         ServeBusy(r) \/ ServeFailed(r) \/ ServeSubscription(r)
  PROVE  \E m, n : Says(r, m, n)
  <1> DEFINE m == Message("Live", {})
             n == Answer("busy", {}, {}, <<r>>)
  <1>1. m \in Messages /\ m.kind = "Live" /\ m.again = <<>>
    BY PushSaid DEF Statuses
  <1>2. n \in Messages /\ n.kind \notin Statuses /\ n.again = <<r>>
    <2>1. <<r>> \in Seq(Requests)
      OBVIOUS
    <2> QED
      BY <2>1, AnswerTyped DEF Answer, Statuses
  <1>3. inbox' \in {inbox, Append(inbox, n)}
    BY DEF ServeBusy, ServeFailed, ServeSubscription
  <1> HIDE DEF m, n
  <1>4. Adds(m, n)
    BY <1>3 DEF Adds
  <1>5. SameRequest(r, r)
    BY DEF SameRequest
  <1>6. Says(r, m, n)
    BY <1>1, <1>2, <1>4, <1>5 DEF Says, Statuses
  <1> QED
    BY <1>6

LEMMA ServeCancelSays ==
  ASSUME SysTypeOK, NEW r \in Requests, ServeCancel(r)
  PROVE  \E m, n : Says(r, m, n)
  <1>1. PICK R \in SUBSET (live \cap r.ids) :
          LET pushes == Pushed((live \cap r.ids) \ R, "Canceled")
          IN  inbox' = IF r.close = {} THEN pushes ELSE Append(pushes, Message("answer", r.close))
    BY DEF ServeCancel
  <1> DEFINE gone == (live \cap r.ids) \ R
             m == Message("Canceled", gone)
             n == Message("answer", r.close)
  <1>2. gone \in SUBSET ChainId /\ r.close \in SUBSET ChainId
    BY DEF Requests
  <1>3. /\ Pushed(gone, "Canceled") \in {inbox, Append(inbox, m)}
        /\ m \in Messages /\ m.kind = "Canceled" /\ m.again = <<>>
    BY <1>2, PushSaid DEF Statuses
  <1>4. n \in Messages /\ n.kind \notin Statuses /\ n.again = <<>>
    <2>1. <<>> \in Seq(Requests)
      OBVIOUS
    <2> QED
      BY <1>2, <2>1, AnswerTyped DEF Answer, Message, Statuses
  <1>5. inbox' \in {Pushed(gone, "Canceled"), Append(Pushed(gone, "Canceled"), n)}
    BY <1>1
  <1> HIDE DEF m, n, gone
  <1>6. Adds(m, n)
    BY <1>3, <1>5 DEF Adds
  <1>7. Says(r, m, n)
    BY <1>3, <1>4, <1>6 DEF Says, Statuses
  <1> QED
    BY <1>7

\* What serving a request r can be.
Serving(r) ==
  \/ ServePlace(r) \/ ServePlaceBusy(r) \/ ServeClose(r) \/ ServeCloseBusy(r)
  \/ ServeFailed(r) \/ ServeBusy(r) \/ ServeCancel(r) \/ ServeSubscription(r)

LEMMA ServeSays ==
  ASSUME SysTypeOK, NEW r \in Requests, Serving(r)
  PROVE  \E m, n : Says(r, m, n)
  BY ServePlaceSays, ServePlaceBusySays, ServeCloseSays, ServeBusySays, ServeCancelSays DEF Serving

LEMMA ServingBooks ==
  ASSUME SysTypeOK, NEW r \in Requests, Serving(r)
  PROVE  BooksTyped' /\ conn' \in {"off", "up", "login", "on"}
  <1>1. r.ids \in SUBSET ChainId /\ r.known \in SUBSET ChainId
    BY DEF Requests
  <1>2. \A R \in SUBSET r.ids : OpenersOf(R) \subseteq ChainId
    BY <1>1, OpenersTyped
  <1>3. ASSUME NEW R \in SUBSET (r.ids \ r.known), NEW U, PlaceSome(r, R, U) \/ CloseSome(r, R, U)
        PROVE  BooksTyped' /\ UNCHANGED conn
    BY <1>1, <1>2, <1>3 DEF PlaceSome, CloseSome, SysTypeOK, BooksTyped
  <1>4. CASE ServePlace(r) \/ ServeClose(r)
    BY <1>3, <1>4 DEF ServePlace, ServeClose, SysTypeOK
  <1>5. CASE ServePlaceBusy(r)
    <2>1. PICK U, R \in SUBSET (r.ids \ r.known) : PlaceSome(r, R, U)
      BY <1>5 DEF ServePlaceBusy
    <2> QED
      BY <1>3, <2>1 DEF SysTypeOK
  <1>6. CASE ServeCloseBusy(r)
    <2>1. PICK U : CloseSome(r, {}, U)
      BY <1>6 DEF ServeCloseBusy
    <2> QED
      BY <1>3, <2>1 DEF SysTypeOK
  <1>7. CASE ServeFailed(r)
    <2>1. unheeded' \in SUBSET ChainId /\ stranded' \in SUBSET ChainId
      BY <1>1, <1>2, <1>7 DEF ServeFailed, SysTypeOK
    <2> QED
      BY <1>7, <2>1 DEF ServeFailed, SysTypeOK, BooksTyped, exchange
  <1>8. CASE ServeBusy(r) \/ ServeSubscription(r)
    BY <1>8, BooksKept DEF ServeBusy, ServeSubscription, history, SysTypeOK
  <1>9. CASE ServeCancel(r)
    BY <1>1, <1>9 DEF ServeCancel, SysTypeOK, BooksTyped
  <1> QED
    BY <1>4, <1>5, <1>6, <1>7, <1>8, <1>9 DEF Serving

LEMMA ServingCounts ==
  ASSUME SysTypeOK, NEW r, Serving(r)
  PROVE  count' \in Counts
  <1>1. \A R : CountRefused(R) \in Nat
    BY DEF CountRefused
  <1>2. count \in Counts
    BY DEF SysTypeOK
  <1>3. \/ \E R : count' = [count EXCEPT !.refused = @ + CountRefused(R)]
        \/ \E R : count' = [count EXCEPT !.refused = @ + CountRefused(R), !.busy = @ + 1]
        \/ count' = [count EXCEPT !.busy = @ + 1]
        \/ count' = [count EXCEPT !.refused = @ + 1]
        \/ count' = count
    BY DEF Serving, ServePlace, ServePlaceBusy, ServeClose, ServeCloseBusy, ServeFailed, ServeBusy,
       ServeCancel, ServeSubscription, history
  <1> QED
    BY <1>1, <1>2, <1>3, CountsTyped

LEMMA ServeTyped ==
  ASSUME SysTypeOK, TypeOK', Serve
  PROVE  SysTypeOK'
  <1> DEFINE r == Head(wire)
  <1>1. r \in Requests /\ wire' \in Seq(Requests) /\ inbox \in Seq(Messages)
    BY DEF Serve, SysTypeOK
  <1>2. Serving(r)
    BY DEF Serve, Serving
  <1> HIDE DEF r
  <1>3. PICK m, n : Says(r, m, n)
    BY <1>1, <1>2, ServeSays
  <1>4. inbox' \in Seq(Messages)
    BY <1>1, <1>3, InboxAdds DEF Says
  <1>5. BooksTyped' /\ conn' \in {"off", "up", "login", "on"} /\ count' \in Counts
    BY <1>1, <1>2, ServingBooks, ServingCounts
  <1> QED
    BY <1>1, <1>4, <1>5 DEF Serve, SysTypeOK, BooksTyped

\* A lost connection leaves a part of the messages, the one being handled first.
LEMMA BreakKeepsMessages ==
  ASSUME inbox \in Seq(Messages), HasMessage, Break
  PROVE  /\ inbox' \in Seq(Messages)
         /\ \A i \in DOMAIN inbox' : \E j \in DOMAIN inbox : inbox'[i] = inbox[j]
         /\ pc["feed"] = "mark" => inbox' # <<>> /\ Head(inbox') = Head(inbox)
  <1>1. PICK n \in (IF pc["feed"] = "mark" THEN 1 ELSE 0) .. Len(inbox) :
          LET kept == {i \in n + 1 .. Len(inbox) : inbox[i].kind \notin Statuses}
          IN  \E from \in [1 .. Cardinality(kept) -> kept] :
                inbox' = SubSeq(inbox, 1, n) \o [i \in DOMAIN from |-> inbox[from[i]]]
    BY DEF Break
  <1> DEFINE kept == {i \in n + 1 .. Len(inbox) : inbox[i].kind \notin Statuses}
  <1>2. PICK from \in [1 .. Cardinality(kept) -> kept] :
          inbox' = SubSeq(inbox, 1, n) \o [i \in DOMAIN from |-> inbox[from[i]]]
    BY <1>1
  <1>3. n \in Nat /\ n <= Len(inbox) /\ Len(inbox) \in Nat /\ (pc["feed"] = "mark" => n >= 1)
    OBVIOUS
  <1>4. Cardinality(kept) \in Nat
    <2>1. IsFiniteSet(n + 1 .. Len(inbox))
      BY <1>3, FS_Interval
    <2>2. kept \subseteq n + 1 .. Len(inbox)
      OBVIOUS
    <2> QED
      BY <2>1, <2>2, FS_Subset, FS_CardinalityType
  <1>5. \A i \in kept : i \in DOMAIN inbox
    BY <1>3
  <1> DEFINE first == SubSeq(inbox, 1, n)
             rest == [i \in DOMAIN from |-> inbox[from[i]]]
  <1>6. first \in Seq(Messages) /\ Len(first) = n /\ \A i \in 1 .. n : first[i] = inbox[i]
    BY <1>3
  <1>7. /\ rest \in Seq(Messages) /\ Len(rest) = Cardinality(kept)
        /\ \A i \in DOMAIN rest : \E j \in DOMAIN inbox : rest[i] = inbox[j]
    <2> HIDE DEF kept
    <2>1. DOMAIN from = 1 .. Cardinality(kept) /\ \A i \in DOMAIN from : from[i] \in DOMAIN inbox
      BY <1>5
    <2>2. \A j \in DOMAIN inbox : inbox[j] \in Messages
      OBVIOUS
    <2>3. rest \in [1 .. Cardinality(kept) -> Messages]
      BY <2>1, <2>2
    <2> QED
      BY <1>4, <2>1, <2>3
  <1> HIDE DEF first, rest, kept
  <1>8. inbox' = first \o rest
    BY <1>2 DEF first, rest, kept
  <1>9. /\ inbox' \in Seq(Messages) /\ Len(inbox') = n + Len(rest)
        /\ \A i \in DOMAIN inbox' :
             inbox'[i] = IF i <= n THEN first[i] ELSE rest[i - n]
    <2> DEFINE whole == first \o rest
    <2>1. /\ whole \in Seq(Messages) /\ Len(whole) = Len(first) + Len(rest)
          /\ \A i \in 1 .. Len(first) + Len(rest) :
               whole[i] = IF i <= Len(first) THEN first[i] ELSE rest[i - Len(first)]
      BY <1>6, <1>7, Joined
    <2> HIDE DEF whole
    <2>2. DOMAIN whole = 1 .. Len(whole)
      BY <2>1
    <2> QED
      BY <1>6, <1>8, <2>1, <2>2 DEF whole
  <1>10. ASSUME NEW i \in DOMAIN inbox'
        PROVE  \E j \in DOMAIN inbox : inbox'[i] = inbox[j]
    <2>1. CASE i <= n
      BY <1>3, <1>6, <1>9, <2>1
    <2>2. CASE i > n
      <3>1. i - n \in DOMAIN rest /\ inbox'[i] = rest[i - n]
        BY <1>3, <1>7, <1>9, <2>2
      <3> QED
        BY <1>7, <3>1
    <2>3. i \in Nat /\ n \in Nat
      BY <1>3, <1>9
    <2> QED
      BY <2>1, <2>2, <2>3
  <1>11. pc["feed"] = "mark" => inbox' # <<>> /\ Head(inbox') = Head(inbox)
    <2>1. Len(rest) \in Nat /\ Len(inbox') = n + Len(rest)
      BY <1>4, <1>7, <1>9
    <2>2. n >= 1 => 1 \in DOMAIN inbox'
      BY <1>3, <1>9, <2>1
    <2>3. n >= 1 => inbox'[1] = inbox[1]
      BY <1>3, <1>6, <1>9, <2>2
    <2> QED
      BY <1>3, <1>9, <2>2, <2>3 DEF HasMessage
  <1> QED
    BY <1>9, <1>10, <1>11

LEMMA OutsideTyped ==
  ASSUME SysTypeOK, TypeOK', HasMessage,
         Break \/ \E id \in live : Fill(id) \/ FillInPart(id)
  PROVE  SysTypeOK'
  <1>1. CASE Break
    <2>1. inbox' \in Seq(Messages)
      BY <1>1, BreakKeepsMessages DEF SysTypeOK
    <2>2. count' \in Counts
      BY <1>1, CountsTyped DEF Break, SysTypeOK
    <2>3. BooksTyped'
      BY <1>1, BooksKept DEF Break
    <2> QED
      BY <1>1, <2>1, <2>2, <2>3 DEF Break, SysTypeOK, BooksTyped
  <1>2. ASSUME NEW id \in live, Fill(id)
        PROVE  SysTypeOK'
    <2>1. {id} \in SUBSET ChainId /\ inbox \in Seq(Messages)
      BY DEF SysTypeOK
    <2>2. inbox' \in Seq(Messages)
      BY <1>2, <2>1, PushedTyped DEF Fill, Statuses
    <2> QED
      BY <1>2, <2>1, <2>2 DEF Fill, SysTypeOK, history
  <1>3. ASSUME NEW id \in live, FillInPart(id)
        PROVE  SysTypeOK'
    <2>1. {id} \in SUBSET ChainId /\ inbox \in Seq(Messages)
      BY DEF SysTypeOK
    <2>2. inbox' \in Seq(Messages)
      BY <1>3, <2>1, PushedTyped DEF FillInPart, Statuses
    <2>3. count' \in Counts
      BY <1>3, CountsTyped DEF FillInPart, SysTypeOK
    <2> QED
      BY <1>3, <2>1, <2>2, <2>3 DEF FillInPart, SysTypeOK
  <1> QED
    BY <1>1, <1>2, <1>3

\* The message that is being handled is taken off by the feed thread only.
LEMMA MessageStays ==
  ASSUME SysTypeOK, HasMessage, [SysNext]_allVars
  PROVE  HasMessage'
  <1>1. inbox \in Seq(Messages) /\ pc \in [Threads -> Steps] /\ "feed" \in Threads
    BY DEF SysTypeOK, Threads
  <1>2. CASE UNCHANGED <<pc, inbox>>
    BY <1>2 DEF HasMessage
  <1>3. ASSUME NEW t \in Threads, Work(t)
        PROVE  HasMessage'
    BY <1>1, <1>3 DEF HasMessage, Work, Pass, Send, Clear, Cancel, Goto, network, exchange
  <1>4. CASE Feed
    BY <1>1, <1>4 DEF HasMessage, Feed, Receive, MarkFeed, MarkedPass, Retry, Connect, Relogin, Goto,
         network
  <1>5. CASE Checker \/ Amend
    BY <1>1, <1>5 DEF HasMessage, Checker, Amend, Check, Query, MarkCheck, Goto, network, sysVars
  <1>6. CASE ConsoleStop \/ Rebuild \/ \E n \in GridCounts : ConsoleStart(n) \/ ConsoleTest(n)
    BY <1>1, <1>6 DEF HasMessage, ConsoleStop, Rebuild, ConsoleStart, ConsoleTest, Start, Goto,
         network
  <1>7. ASSUME NEW m, inbox' = Append(inbox, m), UNCHANGED pc
        PROVE  HasMessage'
    BY <1>1, <1>7 DEF HasMessage
  <1>8. CASE Serve
    <2> DEFINE r == Head(wire)
    <2>1. UNCHANGED pc /\ r \in Requests /\ Serving(r)
      BY <1>8 DEF Serve, Serving, SysTypeOK
    <2> HIDE DEF r
    <2>2. PICK m, n : Says(r, m, n)
      BY <2>1, ServeSays
    <2>3. inbox # <<>> => inbox' # <<>>
      BY <1>1, <2>2, InboxAdds DEF Says
    <2> QED
      BY <2>1, <2>3 DEF HasMessage
  <1>9. CASE Break
    BY <1>1, <1>9, BreakKeepsMessages DEF HasMessage, Break
  <1>10. ASSUME NEW id \in live, Fill(id) \/ FillInPart(id)
         PROVE  HasMessage'
    BY <1>2, <1>7, <1>10 DEF Fill, FillInPart, Pushed
  <1> QED
    BY <1>2, <1>3, <1>4, <1>5, <1>6, <1>8, <1>9, <1>10 DEF SysNext, allVars, sysVars, network

LEMMA SysNextTyped ==
  ASSUME SysTypeOK, HasMessage, TypeOK', [SysNext]_allVars
  PROVE  SysTypeOK'
  <1>1. CASE SysNext
    BY <1>1, WorkTyped, FeedTyped, CheckerTyped, ConsoleTyped, ServeTyped, OutsideTyped
       DEF SysNext
  <1>2. CASE UNCHANGED allVars
    BY <1>2 DEF allVars, sysVars, network, exchange, history, SysTypeOK
  <1> QED
    BY <1>1, <1>2

LEMMA InitTyped ==
  ASSUME SysInit, TypeOK
  PROVE  SysTypeOK /\ HasMessage
  <1>1. <<>> \in Seq(Requests) /\ <<>> \in Seq(Messages)
    OBVIOUS
  <1>2. count \in Counts
    BY DEF SysInit, Counts
  <1>3. pc \in [Threads -> Steps] /\ HasMessage
    BY DEF SysInit, Steps, HasMessage, Threads
  <1> QED
    BY <1>1, <1>2, <1>3 DEF SysInit, SysTypeOK

LEMMA SysKeepsType ==
  ASSUME Reports = Statuses
  PROVE  SysSpec => [](SysTypeOK /\ HasMessage)
  <1>1. SysInit /\ TypeOK => SysTypeOK /\ HasMessage
    BY InitTyped
  <1>2. SysTypeOK /\ HasMessage /\ TypeOK' /\ [SysNext]_allVars => SysTypeOK' /\ HasMessage'
    BY MessageStays, SysNextTyped
  <1>3. SysSpec => []TypeOK
    BY ThreadsKeepToStrategy, TypeCorrect, PTL
  <1> QED
    BY <1>1, <1>2, <1>3, PTL DEF SysSpec

\* Type correctness of the threads, the requests, the messages and the exchange.
THEOREM SysTypeCorrect ==
  ASSUME Reports = Statuses
  PROVE  SysSpec => []SysTypeOK
<1> QED
  BY SysKeepsType, PTL

---------------------------------------------------------------------------
(* Fills: what they say of orders.                                         *)

\* The orders that these answer have been filled.
Answered(S) == \A id \in S : id.hop > 0 => Opener(id) \in filled

RequestAnswers(r) == r.op = "place" => Answered(r.ids)

MessageHolds(m) ==
  /\ m.kind = "Filled" => m.ids \subseteq filled
  /\ \A k \in DOMAIN m.again : RequestAnswers(m.again[k])

GridHolds ==
  /\ \A o \in orders : o.status = "Filled" => o.id \in filled
  /\ Answered(Ids(orders))

ThreadsHold ==
  /\ pc["feed"] = "mark" => todo["feed"] \subseteq Head(inbox).ids
  /\ pc["check"] = "markfilled" => todo["check"] \subseteq filled
  /\ \A t \in Threads : pc[t] = "send" => Answered(todo[t])

InboxHolds == \A i \in DOMAIN inbox : MessageHolds(inbox[i])
WireHolds == \A i \in DOMAIN wire : RequestAnswers(wire[i])

ExchangeHolds == part = {} /\ Answered(live) /\ Answered(filled)

FillInv == GridHolds /\ ThreadsHold /\ InboxHolds /\ WireHolds /\ ExchangeHolds

\* What the steps are taken from.
Whole == SysTypeOK /\ HasMessage /\ FillInv

---------------------------------------------------------------------------
(* Fills: messages and requests.                                           *)

LEMMA InboxKept ==
  ASSUME InboxHolds, UNCHANGED filled,
         \A i \in DOMAIN inbox' : \E j \in DOMAIN inbox : inbox'[i] = inbox[j]
  PROVE  InboxHolds'
  BY DEF InboxHolds, MessageHolds, RequestAnswers, Answered

LEMMA InboxGrows ==
  ASSUME inbox \in Seq(Messages), InboxHolds, UNCHANGED filled, NEW m \in Messages, MessageHolds(m),
         inbox' = Append(inbox, m)
  PROVE  InboxHolds'
  <1>1. ASSUME NEW i \in DOMAIN inbox'
        PROVE  inbox'[i] = m \/ \E j \in DOMAIN inbox : inbox'[i] = inbox[j]
    BY <1>1
  <1> QED
    BY <1>1 DEF InboxHolds, MessageHolds, RequestAnswers, Answered

LEMMA WireKept ==
  ASSUME WireHolds, UNCHANGED filled,
         \A i \in DOMAIN wire' : \E j \in DOMAIN wire : wire'[i] = wire[j]
  PROVE  WireHolds'
  BY DEF WireHolds, RequestAnswers, Answered

LEMMA WireGrows ==
  ASSUME wire \in Seq(Requests), WireHolds, UNCHANGED filled, NEW r \in Requests, RequestAnswers(r),
         wire' = Append(wire, r)
  PROVE  WireHolds'
  <1>1. ASSUME NEW i \in DOMAIN wire'
        PROVE  wire'[i] = r \/ \E j \in DOMAIN wire : wire'[i] = wire[j]
    BY <1>1
  <1> QED
    BY <1>1 DEF WireHolds, RequestAnswers, Answered

LEMMA LetGoHolds ==
  ASSUME wire \in Seq(Requests), WireHolds, UNCHANGED filled,
         NEW task \in SUBSET ChainId, NEW t, NEW n, LetGo(task, t, n)
  PROVE  WireHolds'
  <1>1. Request("close", task, {}) \in Requests /\ RequestAnswers(Request("close", task, {}))
    BY RequestTyped DEF Request, RequestAnswers
  <1> QED
    BY <1>1, WireKept, WireGrows DEF LetGo

---------------------------------------------------------------------------
(* The regions of code under the lock.                                     *)

LEMMA FreshHolds ==
  ASSUME \A o \in orders' : o.status = "Live" /\ o.id.hop = 0
  PROVE  GridHolds'
  BY DEF GridHolds, Answered, Ids

LEMMA StartHolds ==
  ASSUME NEW n, StartGridOk(n)
  PROVE  GridHolds'
  <1>1. orders' = StartOrders(n, LevelCount(n), gen + 1)
    BY DEF StartGridOk
  <1>2. \A o \in StartOrders(n, LevelCount(n), gen + 1) : o.status = "Live" /\ o.id.hop = 0
    BY DEF StartOrders, EntryOrder, NewOrder
  <1> QED
    BY <1>1, <1>2, FreshHolds

LEMMA OpenerOfCloser ==
  ASSUME NEW id \in ChainId
  PROVE  Opener(Closer(id)) = id
  <1> DEFINE next == [id EXCEPT !.hop = @ + 1]
  <1>1. next \in ChainId /\ next.hop - 1 = id.hop
    BY DEF ChainId
  <1>2. [next EXCEPT !.hop = @ - 1] = id
    BY <1>1 DEF ChainId
  <1> QED
    BY <1>2 DEF Opener, Closer

LEMMA PassHolds ==
  ASSUME orders \subseteq Order, GridHolds, UpdateGrid, UNCHANGED filled
  PROVE  GridHolds' /\ \A id \in Ids(Placed) : id.hop > 0 => Opener(id) \in filled
  <1>1. ASSUME NEW o \in Countered
        PROVE  Opener(CounterOrder(o).id) \in filled /\ CounterOrder(o).status = "Live"
    <2>1. o \in orders /\ o.id \in ChainId /\ o.id \in filled
      BY DEF Countered, AutoFilled, GridHolds, Order
    <2>2. CounterOrder(o).id = Closer(o.id)
      BY <2>1 DEF CounterOrder, NewOrder, Closer
    <2>3. Opener(CounterOrder(o).id) = o.id
      BY <2>1, <2>2, OpenerOfCloser
    <2> QED
      BY <2>1, <2>3 DEF CounterOrder, NewOrder
  <1>2. \A pos \in Pos, l \in Levels :
          EntryOrder(gen, pos, l).id.hop = 0 /\ EntryOrder(gen, pos, l).status = "Live"
    BY DEF EntryOrder, NewOrder
  <1>3. ASSUME NEW o \in Placed
        PROVE  o.status = "Live" /\ (o.id.hop > 0 => Opener(o.id) \in filled)
    BY <1>1, <1>2 DEF Placed, Armed, Pos
  <1>4. orders' = Kept \cup Placed /\ Kept \subseteq orders
    BY DEF UpdateGrid, Kept
  <1> QED
    BY <1>3, <1>4 DEF GridHolds, Answered, Ids

\* The same orders as before, whatever became of their status but filled.
LEMMA MarkHolds ==
  ASSUME GridHolds, UNCHANGED filled, NEW id, NEW status, Mark(id, status),
         status = "Filled" => id \in filled
  PROVE  GridHolds'
  <1>1. CASE UNCHANGED vars
    BY <1>1 DEF GridHolds, Answered, Ids, vars
  <1>2. CASE SetStatus(id, status)
    <2>1. ASSUME NEW o \in orders'
          PROVE  \E q \in orders : o.id = q.id /\ (o.status = q.status \/ (o.id = id /\ o.status = status))
      <3>1. PICK q \in orders : o = IF q.id = id /\ q.status # "Canceled"
                                    THEN [q EXCEPT !.status = status] ELSE q
        BY <1>2 DEF SetStatus
      <3> QED
        BY <3>1
    <2> QED
      BY <2>1 DEF GridHolds, Answered, Ids
  <1> QED
    BY <1>1, <1>2 DEF Mark

LEMMA AmendHolds ==
  ASSUME orders \subseteq Order, GridHolds, UNCHANGED filled, CheckLongUnfilledOrder
  PROVE  GridHolds'
  <1>1. PICK A : orders' = {IF o \in A THEN [o EXCEPT !.auto = FALSE] ELSE o : o \in orders}
    BY DEF CheckLongUnfilledOrder, GiveUp
  <1>2. ASSUME NEW o \in orders'
        PROVE  \E q \in orders : o.id = q.id /\ o.status = q.status
    <2>1. PICK q \in orders : o = IF q \in A THEN [q EXCEPT !.auto = FALSE] ELSE q
      BY <1>1
    <2>2. q \in Order
      OBVIOUS
    <2> QED
      BY <2>1, <2>2 DEF Order
  <1> QED
    BY <1>2 DEF GridHolds, Answered, Ids

---------------------------------------------------------------------------
(* The threads.                                                            *)

\* A step of t that changes nothing of the exchange, nor what other threads do.
Alone(t) ==
  /\ UNCHANGED <<filled, live, part>>
  /\ pc' \in [Threads -> Steps]
  /\ \A u \in Threads \ {t} : pc'[u] = pc[u] /\ todo'[u] = todo[u]

LEMMA AloneHolds ==
  ASSUME Whole, NEW t \in Threads, Alone(t), GridHolds', InboxHolds', WireHolds',
         pc'[t] = "send" => Answered(todo'[t]),
         pc'["feed"] = "mark" => todo'["feed"] \subseteq Head(inbox').ids,
         pc'["check"] = "markfilled" => todo'["check"] \subseteq filled
  PROVE  FillInv'
  <1>1. ThreadsHold'
    BY DEF Alone, ThreadsHold, Whole, FillInv, Answered
  <1>2. ExchangeHolds'
    BY DEF Alone, ExchangeHolds, Whole, FillInv, Answered
  <1> QED
    BY <1>1, <1>2 DEF FillInv

LEMMA GridKept ==
  ASSUME GridHolds, UNCHANGED <<vars, filled>>
  PROVE  GridHolds'
  BY DEF GridHolds, vars, Answered, Ids

LEMMA NetKept ==
  ASSUME InboxHolds, WireHolds, UNCHANGED <<inbox, wire, filled>>
  PROVE  InboxHolds' /\ WireHolds'
  BY InboxKept, WireKept

LEMMA WorkHolds ==
  ASSUME Whole, NEW t \in Threads, Work(t)
  PROVE  FillInv'
  <1>1. /\ wire \in Seq(Requests) /\ inbox \in Seq(Messages) /\ orders \subseteq Order
        /\ pc \in [Threads -> Steps] /\ todo \in [Threads -> SUBSET ChainId]
        /\ "feed" \in Threads /\ "check" \in Threads
    BY DEF Whole, SysTypeOK, TypeOK, Threads
  <1>2. GridHolds /\ ThreadsHold /\ InboxHolds /\ WireHolds
    BY DEF Whole, FillInv
  <1>3. CASE Pass(t)
    <2>1. UNCHANGED <<filled, live, part, inbox, wire>>
      BY <1>3 DEF Pass, network, exchange
    <2>2. InboxHolds' /\ WireHolds'
      BY <1>2, <2>1, NetKept
    <2>3. /\ GridHolds'
          /\ pc'[t] = "send" => Answered(todo'[t])
      <3>1. CASE pc' = [pc EXCEPT ![t] = "idle"] /\ UNCHANGED vars
        BY <1>1, <1>2, <2>1, <3>1, GridKept
      <3>2. CASE UpdateGrid /\ pc' = [pc EXCEPT ![t] = "closeout"]
        BY <1>1, <1>2, <2>1, <3>2, PassHolds
      <3>3. CASE UpdateGrid /\ todo' = [todo EXCEPT ![t] = Ids(Placed)]
        BY <1>1, <1>2, <2>1, <3>3, PassHolds DEF Answered
      <3> QED
        BY <1>3, <3>1, <3>2, <3>3 DEF Pass, Goto
    <2>4. Alone(t) /\ pc'[t] \notin {"mark", "markfilled"}
      BY <1>1, <1>3, <2>1 DEF Pass, Goto, Alone, Steps
    <2> QED
      BY <1>1, <1>2, <2>1, <2>2, <2>3, <2>4, AloneHolds DEF Alone, ThreadsHold
  <1>4. CASE Send(t)
    <2>1. UNCHANGED <<filled, live, part, inbox, vars>>
      BY <1>4 DEF Send, exchange
    <2>2. Alone(t) /\ pc'[t] \notin {"mark", "markfilled"}
      BY <1>1, <1>4, <2>1 DEF Send, Goto, Alone, Steps
    <2>3. pc[t] = "send" /\ todo'[t] \subseteq todo[t] /\ Answered(todo[t])
      BY <1>1, <1>2, <1>4 DEF Send, ThreadsHold
    <2>4. WireHolds'
      <3>1. CASE UNCHANGED wire
        BY <1>2, <2>1, <3>1, NetKept
      <3>2. ASSUME NEW B \in Batches(todo[t]), wire' = Append(wire, Request("place", B, {}))
            PROVE  WireHolds'
        <4>1. B \subseteq todo[t] /\ B \in SUBSET ChainId
          BY <1>1, BatchWithin
        <4>2. Request("place", B, {}) \in Requests
          BY <4>1, RequestTyped
        <4>3. RequestAnswers(Request("place", B, {}))
          BY <2>3, <4>1 DEF RequestAnswers, Request, Answered
        <4> QED
          BY <1>1, <1>2, <2>1, <3>2, <4>2, <4>3, WireGrows
      <3> QED
        BY <1>4, <3>1, <3>2 DEF Send
    <2>5. GridHolds' /\ InboxHolds'
      BY <1>2, <2>1, GridKept, InboxKept
    <2>6. Answered(todo'[t])
      BY <2>3 DEF Answered
    <2> QED
      BY <1>1, <1>2, <2>1, <2>2, <2>4, <2>5, <2>6, AloneHolds DEF Alone, ThreadsHold
  <1>5. CASE Clear(t)
    <2>1. UNCHANGED <<filled, live, part, inbox, wire>> /\ orders' = {}
      BY <1>5 DEF Clear, ClearGrid, NoGrid, network, exchange
    <2>2. Alone(t) /\ pc'[t] = "cancel"
      BY <1>1, <1>5, <2>1 DEF Clear, Goto, Alone, Steps
    <2>3. GridHolds' /\ InboxHolds' /\ WireHolds'
      BY <1>2, <2>1, FreshHolds, NetKept
    <2> QED
      BY <1>1, <1>2, <2>1, <2>2, <2>3, AloneHolds DEF Alone, ThreadsHold
  <1>6. CASE Cancel(t)
    <2>1. UNCHANGED <<filled, live, part, inbox, vars>>
      BY <1>6 DEF Cancel, exchange
    <2>2. Alone(t) /\ pc'[t] \in {"idle", "cancel"}
      BY <1>1, <1>6, <2>1 DEF Cancel, Goto, Alone, Steps
    <2>3. closing[t] \in SUBSET ChainId
      BY DEF Whole, SysTypeOK
    <2>4. WireHolds'
      <3>1. CASE LetGo(closing[t], t, 0)
        BY <1>1, <1>2, <2>1, <2>3, <3>1, LetGoHolds
      <3>2. ASSUME NEW B \in Batches(todo[t]), wire' = Append(wire, Request("cancel", B, closing[t]))
            PROVE  WireHolds'
        <4>1. B \in SUBSET ChainId
          BY <1>1, BatchWithin
        <4>2. Request("cancel", B, closing[t]) \in Requests
          BY <2>3, <4>1, RequestTyped
        <4>3. RequestAnswers(Request("cancel", B, closing[t]))
          BY DEF RequestAnswers, Request
        <4> QED
          BY <1>1, <1>2, <2>1, <3>2, <4>2, <4>3, WireGrows
      <3> QED
        BY <1>6, <3>1, <3>2 DEF Cancel
    <2>5. GridHolds' /\ InboxHolds'
      BY <1>2, <2>1, GridKept, InboxKept
    <2> QED
      BY <1>1, <1>2, <2>1, <2>2, <2>4, <2>5, AloneHolds DEF Alone, ThreadsHold
  <1> QED
    BY <1>3, <1>4, <1>5, <1>6 DEF Work

LEMMA TailHolds ==
  ASSUME inbox \in Seq(Messages), inbox # <<>>, InboxHolds, UNCHANGED filled, inbox' = Tail(inbox)
  PROVE  InboxHolds' /\ MessageHolds(Head(inbox))
  <1>1. \A i \in DOMAIN inbox' : i + 1 \in DOMAIN inbox /\ inbox'[i] = inbox[i + 1]
    OBVIOUS
  <1>2. 1 \in DOMAIN inbox /\ Head(inbox) = inbox[1]
    OBVIOUS
  <1> QED
    BY <1>1, <1>2, InboxKept DEF InboxHolds

LEMMA FeedHolds ==
  ASSUME Whole, Feed
  PROVE  FillInv'
  <1>1. /\ wire \in Seq(Requests) /\ inbox \in Seq(Messages) /\ orders \subseteq Order
        /\ pc \in [Threads -> Steps] /\ todo \in [Threads -> SUBSET ChainId]
        /\ "feed" \in Threads /\ "check" \in Threads
    BY DEF Whole, SysTypeOK, TypeOK, Threads
  <1>2. GridHolds /\ ThreadsHold /\ InboxHolds /\ WireHolds /\ HasMessage
    BY DEF Whole, FillInv
  <1>3. CASE Receive
    <2>1. UNCHANGED <<filled, live, part, vars>> /\ pc["feed"] = "idle" /\ inbox # <<>>
      BY <1>3 DEF Receive, exchange
    <2>2. Alone("feed") /\ pc'["feed"] # "send"
      BY <1>1, <1>3, <2>1 DEF Receive, Goto, Alone, Steps
    <2>3. InboxHolds'
      BY <1>1, <1>2, <1>3, <2>1, TailHolds, InboxKept DEF Receive
    <2>4. WireHolds'
      <3>1. Head(inbox) \in Messages
        BY <1>1, <2>1
      <3>2. Head(inbox).ids \in SUBSET ChainId
        BY <3>1 DEF Messages
      <3> QED
        BY <1>1, <1>2, <1>3, <2>1, <3>2, LetGoHolds, WireKept DEF Receive
    <2>5. pc'["feed"] = "mark" => todo'["feed"] \subseteq Head(inbox').ids
      BY <1>1, <1>3, <2>1 DEF Receive, Marked
    <2> QED
      BY <1>1, <1>2, <2>1, <2>2, <2>3, <2>4, <2>5, GridKept, AloneHolds DEF Alone, ThreadsHold
  <1>4. CASE MarkFeed
    <2>1. /\ UNCHANGED <<filled, live, part, inbox, wire, pc>> /\ pc["feed"] = "mark"
          /\ inbox # <<>>
      BY <1>2, <1>4 DEF MarkFeed, exchange, network, HasMessage
    <2>2. PICK id \in todo["feed"] : /\ Mark(id, StatusOf(Head(inbox)))
                                     /\ todo' = [todo EXCEPT !["feed"] = @ \ {id}]
      BY <1>4 DEF MarkFeed, MarkOne
    <2>3. StatusOf(Head(inbox)) = "Filled" => id \in filled
      <3>1. MessageHolds(Head(inbox)) /\ id \in Head(inbox).ids
        BY <1>1, <1>2, <2>1 DEF InboxHolds, ThreadsHold
      <3> QED
        BY <3>1 DEF MessageHolds, StatusOf, Statuses
    <2>4. GridHolds'
      BY <1>2, <2>1, <2>2, <2>3, MarkHolds
    <2>5. Alone("feed") /\ todo'["feed"] \subseteq todo["feed"]
      BY <1>1, <2>1, <2>2 DEF Alone
    <2> QED
      BY <1>1, <1>2, <2>1, <2>4, <2>5, NetKept, AloneHolds DEF Alone, ThreadsHold
  <1>5. CASE MarkedPass
    <2>1. UNCHANGED <<filled, live, part, wire, vars>> /\ inbox # <<>> /\ inbox' = Tail(inbox)
      BY <1>2, <1>5 DEF MarkedPass, exchange, HasMessage
    <2>2. Alone("feed") /\ pc'["feed"] = "pass"
      BY <1>1, <1>5, <2>1 DEF MarkedPass, Goto, Alone, Steps
    <2> QED
      BY <1>1, <1>2, <2>1, <2>2, GridKept, TailHolds, WireKept, AloneHolds DEF Alone, ThreadsHold
  <1>6. CASE Retry
    <2>1. UNCHANGED <<filled, live, part, vars>> /\ inbox # <<>> /\ inbox' = Tail(inbox)
      BY <1>2, <1>6 DEF Retry, exchange, HasMessage
    <2>2. Alone("feed") /\ pc'["feed"] = "idle"
      BY <1>1, <1>6, <2>1 DEF Retry, Goto, Alone, Steps
    <2>3. InboxHolds' /\ MessageHolds(Head(inbox))
      BY <1>1, <1>2, <2>1, TailHolds
    <2> DEFINE again == Head(inbox).again
    <2>4. again \in Seq(Requests) /\ wire' = wire \o again
      <3>1. Head(inbox) \in Messages
        BY <1>1, <2>1
      <3>2. again \in Seq(Requests)
        BY <3>1 DEF Messages
      <3> QED
        BY <1>6, <3>2 DEF Retry
    <2>5. \A k \in DOMAIN again : RequestAnswers(again[k])
      BY <2>3 DEF MessageHolds
    <2>6. WireHolds'
      <3> HIDE DEF again
      <3>1. ASSUME NEW i \in DOMAIN wire'
            PROVE  \/ \E j \in DOMAIN wire : wire'[i] = wire[j]
                   \/ \E k \in DOMAIN again : wire'[i] = again[k]
        <4>1. /\ wire' \in Seq(Requests) /\ Len(wire') = Len(wire) + Len(again)
              /\ \A j \in 1 .. Len(wire) + Len(again) :
                   wire'[j] = IF j <= Len(wire) THEN wire[j] ELSE again[j - Len(wire)]
          BY <1>1, <2>4, Joined
        <4>2. CASE i <= Len(wire)
          BY <1>1, <4>1, <4>2
        <4>3. CASE ~(i <= Len(wire))
          <5>1. i - Len(wire) \in DOMAIN again
            BY <1>1, <2>4, <4>1, <4>3
          <5> QED
            BY <4>1, <4>3, <5>1
        <4> QED
          BY <4>2, <4>3
      <3> QED
        BY <1>2, <2>1, <2>5, <3>1 DEF WireHolds, RequestAnswers, Answered
    <2> QED
      BY <1>1, <1>2, <2>1, <2>2, <2>3, <2>6, GridKept, AloneHolds DEF Alone, ThreadsHold
  <1>7. CASE Connect \/ Relogin
    <2>1. UNCHANGED <<vars, filled, live, part, inbox, pc, todo>>
      BY <1>7 DEF Connect, Relogin, exchange
    <2>2. Alone("feed")
      BY <1>1, <2>1 DEF Alone
    <2>3. WireHolds'
      <3>1. CASE UNCHANGED wire
        BY <1>2, <2>1, <3>1, WireKept
      <3>2. CASE wire' = Append(wire, Request("sub", {}, {}))
        <4>1. Request("sub", {}, {}) \in Requests /\ RequestAnswers(Request("sub", {}, {}))
          BY RequestTyped DEF Request, RequestAnswers
        <4> QED
          BY <1>1, <1>2, <2>1, <3>2, <4>1, WireGrows
      <3> QED
        BY <1>7, <3>1, <3>2 DEF Connect, Relogin
    <2> QED
      BY <1>1, <1>2, <2>1, <2>2, <2>3, GridKept, InboxKept, AloneHolds DEF ThreadsHold, Answered
  <1> QED
    BY <1>3, <1>4, <1>5, <1>6, <1>7 DEF Feed

LEMMA CheckerHolds ==
  ASSUME Whole, Checker \/ Amend
  PROVE  FillInv'
  <1>1. /\ orders \subseteq Order
        /\ pc \in [Threads -> Steps] /\ todo \in [Threads -> SUBSET ChainId]
        /\ "feed" \in Threads /\ "check" \in Threads
    BY DEF Whole, SysTypeOK, TypeOK, Threads
  <1>2. GridHolds /\ ThreadsHold /\ InboxHolds /\ WireHolds /\ part = {}
    BY DEF Whole, FillInv, ExchangeHolds
  <1>3. UNCHANGED <<filled, live, part, inbox, wire>>
    BY DEF Checker, Check, Query, MarkCheck, Amend, sysVars, exchange, network
  <1>4. InboxHolds' /\ WireHolds'
    BY <1>2, <1>3, NetKept
  <1>5. CASE Check
    <2>1. Alone("check") /\ UNCHANGED <<vars, todo>> /\ pc'["check"] = "query"
      BY <1>1, <1>3, <1>5 DEF Check, Goto, Alone, Steps
    <2> QED
      BY <1>1, <1>2, <1>3, <1>4, <2>1, GridKept, AloneHolds DEF Alone, ThreadsHold
  <1>6. CASE Query
    <2>1. /\ Alone("check") /\ UNCHANGED vars /\ pc'["check"] # "send"
          /\ pc'["check"] = "markfilled" => todo'["check"] \subseteq filled
      BY <1>1, <1>2, <1>3, <1>6 DEF Query, Goto, Alone, Steps, Some
    <2> QED
      BY <1>1, <1>2, <1>3, <1>4, <2>1, GridKept, AloneHolds DEF Alone, ThreadsHold
  <1>7. CASE MarkCheck
    <2>1. CASE MarkOne("check", "Filled") /\ UNCHANGED pc
      <3>1. PICK id \in todo["check"] : /\ Mark(id, "Filled")
                                        /\ todo' = [todo EXCEPT !["check"] = @ \ {id}]
        BY <2>1 DEF MarkOne
      <3>2. pc["check"] = "markfilled" /\ todo["check"] \subseteq filled
        BY <1>2, <1>7 DEF MarkCheck, ThreadsHold
      <3>3. GridHolds'
        BY <1>2, <1>3, <3>1, <3>2, MarkHolds
      <3>4. Alone("check") /\ todo'["check"] \subseteq filled
        BY <1>1, <1>3, <2>1, <3>1, <3>2 DEF Alone
      <3> QED
        BY <1>1, <1>2, <1>3, <1>4, <2>1, <3>2, <3>3, <3>4, AloneHolds DEF Alone, ThreadsHold
    <2>2. CASE pc' = [pc EXCEPT !["check"] = "pass"] /\ UNCHANGED <<vars, todo>>
      <3>1. Alone("check") /\ pc'["check"] = "pass"
        BY <1>1, <1>3, <2>2 DEF Alone, Steps
      <3> QED
        BY <1>1, <1>2, <1>3, <1>4, <2>2, <3>1, GridKept, AloneHolds DEF Alone, ThreadsHold
    <2> QED
      BY <1>7, <2>1, <2>2 DEF MarkCheck, Goto
  <1>8. CASE Amend
    <2>1. GridHolds'
      BY <1>1, <1>2, <1>3, <1>8, AmendHolds DEF Amend
    <2>2. Alone("check") /\ UNCHANGED <<pc, todo>>
      BY <1>1, <1>3, <1>8 DEF Alone, Amend, sysVars
    <2> QED
      BY <1>1, <1>2, <1>3, <1>4, <2>1, <2>2, AloneHolds DEF ThreadsHold, Answered
  <1> QED
    BY <1>5, <1>6, <1>7, <1>8 DEF Checker

LEMMA ConsoleHolds ==
  ASSUME Whole,
         ConsoleStop \/ Rebuild \/ \E n \in GridCounts : ConsoleStart(n) \/ ConsoleTest(n)
  PROVE  FillInv'
  <1>1. /\ pc \in [Threads -> Steps] /\ todo \in [Threads -> SUBSET ChainId]
        /\ {"feed", "check", "console", "rebuild"} \subseteq Threads
    BY DEF Whole, SysTypeOK, Threads
  <1>2. GridHolds /\ ThreadsHold /\ InboxHolds /\ WireHolds
    BY DEF Whole, FillInv
  <1>3. UNCHANGED <<filled, live, part, inbox, wire>>
    BY DEF ConsoleStop, Rebuild, ConsoleStart, ConsoleTest, Start, exchange, network
  <1>4. InboxHolds' /\ WireHolds'
    BY <1>2, <1>3, NetKept
  <1>5. CASE ConsoleStop
    <2>1. Alone("console") /\ UNCHANGED <<vars, todo>> /\ pc'["console"] = "closeout"
      BY <1>1, <1>3, <1>5 DEF ConsoleStop, Goto, Alone, Steps
    <2> QED
      BY <1>1, <1>2, <1>3, <1>4, <2>1, GridKept, AloneHolds DEF Alone, ThreadsHold
  <1>6. ASSUME NEW t \in {"console", "rebuild"}, NEW n, Start(t, n)
        PROVE  FillInv'
    <2>1. /\ Alone(t) /\ pc'[t] \in {"send", "idle"}
          /\ pc'[t] = "send" => StartGridOk(n) /\ todo'[t] = Ids(orders')
      BY <1>1, <1>3, <1>6 DEF Start, Goto, Alone, Steps
    <2>2. GridHolds'
      <3>1. CASE StartGridFails(n) \/ UNCHANGED vars
        BY <1>2, <1>3, <3>1 DEF StartGridFails, vars, GridHolds, Answered, Ids
      <3> QED
        BY <1>6, <3>1, StartHolds DEF Start
    <2>3. pc'[t] = "send" => Answered(todo'[t])
      BY <1>3, <2>1, <2>2 DEF GridHolds, Answered
    <2> QED
      BY <1>1, <1>2, <1>3, <1>4, <2>1, <2>2, <2>3, AloneHolds DEF Alone, ThreadsHold
  <1>7. ASSUME NEW n \in GridCounts, ConsoleTest(n)
        PROVE  FillInv'
    <2>1. GridHolds'
      BY <1>2, <1>3, <1>7, StartHolds DEF ConsoleTest, StartGridFails, GridHolds, Answered, Ids
    <2>2. Alone("console") /\ UNCHANGED <<pc, todo>>
      BY <1>1, <1>3, <1>7 DEF ConsoleTest, Alone
    <2> QED
      BY <1>1, <1>2, <1>3, <1>4, <2>1, <2>2, AloneHolds DEF ThreadsHold, Answered
  <1> QED
    BY <1>1, <1>5, <1>6, <1>7 DEF Rebuild, ConsoleStart

---------------------------------------------------------------------------
(* The exchange and the connection.                                        *)

\* A step of the exchange that fills nothing.
LEMMA OutsideHolds ==
  ASSUME Whole, UNCHANGED <<vars, pc, todo, filled>>, InboxHolds', WireHolds',
         part' \subseteq part, Answered(live'),
         pc["feed"] = "mark" => Head(inbox') = Head(inbox)
  PROVE  FillInv'
  <1>1. GridHolds'
    BY GridKept DEF Whole, FillInv
  <1>2. ThreadsHold'
    BY DEF Whole, FillInv, ThreadsHold, Answered
  <1>3. ExchangeHolds'
    BY DEF Whole, FillInv, ExchangeHolds, Answered
  <1> QED
    BY <1>1, <1>2, <1>3 DEF FillInv

\* What the exchange says when it serves a request is of no fill, and asks for
\* no orders but those of the request.
LEMMA SaidHolds ==
  ASSUME inbox \in Seq(Messages), InboxHolds, UNCHANGED filled,
         NEW r, RequestAnswers(r), NEW m, NEW n, Says(r, m, n)
  PROVE  InboxHolds'
  <1>1. MessageHolds(m)
    BY DEF Says, MessageHolds
  <1>2. MessageHolds(n)
    <2>1. CASE n.again = <<>>
      BY <2>1 DEF Says, MessageHolds, Statuses
    <2>2. ASSUME NEW q, SameRequest(q, r), n.again = <<q>>
          PROVE  MessageHolds(n)
      BY <2>2 DEF Says, MessageHolds, Statuses, SameRequest, RequestAnswers
    <2> QED
      BY <2>1, <2>2 DEF Says
  <1>3. ASSUME NEW i \in DOMAIN inbox'
        PROVE  inbox'[i] \in {m, n} \/ \E j \in DOMAIN inbox : inbox'[i] = inbox[j]
    BY InboxAdds DEF Says
  <1> QED
    BY <1>1, <1>2, <1>3 DEF InboxHolds, MessageHolds, RequestAnswers, Answered

LEMMA ServingLives ==
  ASSUME SysTypeOK, ExchangeHolds, NEW r \in Requests, RequestAnswers(r), Serving(r)
  PROVE  UNCHANGED filled /\ part' \subseteq part /\ Answered(live')
  <1>1. ASSUME NEW R, NEW U, PlaceSome(r, R, U)
        PROVE  UNCHANGED <<filled, part>> /\ Answered(live')
    BY <1>1 DEF PlaceSome, ExchangeHolds, RequestAnswers, Answered
  <1>2. CASE ServePlace(r) \/ ServePlaceBusy(r)
    <2>1. \E R, U : PlaceSome(r, R, U)
      BY <1>2 DEF ServePlace, ServePlaceBusy
    <2> QED
      BY <1>1, <2>1
  <1>3. CASE ServeCancel(r)
    BY <1>3 DEF ServeCancel, ExchangeHolds, Answered
  <1>4. CASE UNCHANGED <<filled, part, live>>
    BY <1>4 DEF ExchangeHolds, Answered
  <1>5. ServeClose(r) \/ ServeCloseBusy(r) => UNCHANGED <<filled, part, live>>
    BY DEF ServeClose, ServeCloseBusy, CloseSome
  <1>6. ServeFailed(r) \/ ServeBusy(r) \/ ServeSubscription(r) => UNCHANGED <<filled, part, live>>
    BY DEF ServeFailed, ServeBusy, ServeSubscription, exchange
  <1> QED
    BY <1>2, <1>3, <1>4, <1>5, <1>6 DEF Serving

LEMMA ServeHolds ==
  ASSUME Whole, Serve
  PROVE  FillInv'
  <1> DEFINE r == Head(wire)
  <1>1. /\ wire # <<>> /\ wire' = Tail(wire) /\ UNCHANGED <<vars, pc, todo>>
        /\ Serving(r)
    BY DEF Serve, Serving
  <1>2. /\ wire \in Seq(Requests) /\ inbox \in Seq(Messages) /\ SysTypeOK /\ HasMessage
        /\ InboxHolds /\ WireHolds /\ ExchangeHolds
    BY DEF Whole, SysTypeOK, FillInv
  <1>3. r \in Requests /\ RequestAnswers(r)
    <2>1. r \in Requests /\ 1 \in DOMAIN wire /\ r = wire[1]
      BY <1>1, <1>2
    <2> QED
      BY <1>2, <2>1 DEF WireHolds
  <1>4. ASSUME UNCHANGED filled
        PROVE  WireHolds'
    <2>1. \A i \in DOMAIN wire' : i + 1 \in DOMAIN wire /\ wire'[i] = wire[i + 1]
      BY <1>1, <1>2
    <2> QED
      BY <1>2, <1>4, <2>1, WireKept
  <1> HIDE DEF r
  <1>5. PICK m, n : Says(r, m, n)
    BY <1>1, <1>2, <1>3, ServeSays
  <1>6. UNCHANGED filled /\ part' \subseteq part /\ Answered(live')
    BY <1>1, <1>2, <1>3, ServingLives
  <1>7. InboxHolds'
    BY <1>2, <1>3, <1>5, <1>6, SaidHolds
  <1>8. pc["feed"] = "mark" => Head(inbox') = Head(inbox)
    BY <1>2, <1>5, InboxAdds DEF Says, HasMessage
  <1> QED
    BY <1>1, <1>4, <1>6, <1>7, <1>8, OutsideHolds

\* An order is filled: what was answered stays answered.
LEMMA FillHolds ==
  ASSUME Whole, NEW id \in live, Fill(id)
  PROVE  FillInv'
  <1>1. /\ inbox \in Seq(Messages) /\ {id} \in SUBSET ChainId /\ HasMessage
        /\ GridHolds /\ ThreadsHold /\ InboxHolds /\ WireHolds /\ ExchangeHolds
    BY DEF Whole, SysTypeOK, FillInv
  <1>2. /\ filled' = filled \cup {id} /\ live' = live \ {id} /\ part' = part \ {id}
        /\ UNCHANGED <<vars, pc, todo, wire>>
    BY DEF Fill
  <1>3. GridHolds'
    BY <1>1, <1>2 DEF GridHolds, vars, Answered, Ids
  <1>4. WireHolds'
    BY <1>1, <1>2 DEF WireHolds, RequestAnswers, Answered
  <1>5. ExchangeHolds'
    BY <1>1, <1>2 DEF ExchangeHolds, Answered
  <1> DEFINE m == Message("Filled", {id})
  <1>6. m \in Messages /\ m.ids = {id} /\ m.again = <<>>
    BY <1>1, MessageTyped DEF Message, Answer, Statuses
  <1>7. inbox' = inbox \/ inbox' = Append(inbox, m)
    BY DEF Fill, Pushed
  <1> HIDE DEF m
  <1>8. ASSUME NEW i \in DOMAIN inbox'
        PROVE  inbox'[i] = m \/ \E j \in DOMAIN inbox : inbox'[i] = inbox[j]
    BY <1>1, <1>6, <1>7, OneMore
  <1>9. InboxHolds'
    BY <1>1, <1>2, <1>6, <1>8 DEF InboxHolds, MessageHolds, RequestAnswers, Answered
  <1>10. pc["feed"] = "mark" => Head(inbox') = Head(inbox)
    BY <1>1, <1>6, <1>7, OneMore DEF HasMessage
  <1>11. ThreadsHold'
    BY <1>1, <1>2, <1>10 DEF ThreadsHold, Answered
  <1> QED
    BY <1>3, <1>4, <1>5, <1>9, <1>11 DEF FillInv

LEMMA ConnectionHolds ==
  ASSUME Whole, Break
  PROVE  FillInv'
  <1>1. inbox \in Seq(Messages) /\ HasMessage /\ InboxHolds /\ WireHolds /\ ExchangeHolds
    BY DEF Whole, SysTypeOK, FillInv
  <1>2. UNCHANGED <<vars, pc, todo, filled, live, part, wire>>
    BY DEF Break, exchange
  <1>3. /\ \A i \in DOMAIN inbox' : \E j \in DOMAIN inbox : inbox'[i] = inbox[j]
        /\ pc["feed"] = "mark" => Head(inbox') = Head(inbox)
    BY <1>1, BreakKeepsMessages
  <1>4. InboxHolds' /\ WireHolds' /\ Answered(live')
    BY <1>1, <1>2, <1>3, InboxKept, WireKept DEF ExchangeHolds
  <1> QED
    BY <1>2, <1>3, <1>4, OutsideHolds

---------------------------------------------------------------------------
(* The theorem.                                                            *)

WholeFillInv == count.partials = 0 => FillInv

LEMMA NextHolds ==
  ASSUME SysTypeOK, HasMessage, WholeFillInv, [SysNext]_allVars
  PROVE  WholeFillInv'
  <1>1. ASSUME NEW id, FillInPart(id)
        PROVE  count'.partials # 0
    BY <1>1 DEF FillInPart, SysTypeOK, Counts
  <1>2. count \in Counts
    BY DEF SysTypeOK
  <1>3. CASE count.partials = 0
    <2>1. Whole
      BY <1>3 DEF Whole, WholeFillInv
    <2>2. CASE SysNext
      BY <1>1, <2>1, <2>2, WorkHolds, FeedHolds, CheckerHolds, ConsoleHolds, ServeHolds,
         ConnectionHolds, FillHolds DEF SysNext, WholeFillInv
    <2>3. CASE UNCHANGED allVars
      BY <2>1, <2>3 DEF allVars, vars, sysVars, network, exchange, Whole, FillInv, WholeFillInv,
         GridHolds, ThreadsHold, InboxHolds, WireHolds, ExchangeHolds, MessageHolds,
         RequestAnswers, Answered, Ids
    <2> QED
      BY <2>2, <2>3
  <1>4. CASE count.partials # 0
    <2>1. CASE UNCHANGED count
      BY <1>4, <2>1 DEF WholeFillInv
    <2>2. CASE Serve
      BY <1>2, <1>4, <2>2
      DEF Serve, ServePlace, ServePlaceBusy, ServeClose, ServeCloseBusy, ServeFailed, ServeBusy,
          ServeCancel, ServeSubscription, history, Counts, WholeFillInv
    <2>3. CASE SysNext /\ ~Serve /\ count' # count
      BY <1>1, <1>2, <1>4, <2>3
      DEF SysNext, Work, Pass, Send, Clear, Cancel, Feed, Receive, MarkFeed, MarkedPass, Retry,
          Connect, Relogin, Checker, Check, Query, MarkCheck, Amend, ConsoleStop, Rebuild,
          ConsoleStart, ConsoleTest, Break, Fill, history, sysVars, Counts, WholeFillInv
    <2> QED
      BY <2>1, <2>2, <2>3 DEF allVars, sysVars, history
  <1> QED
    BY <1>3, <1>4

LEMMA InitHoldsFills == SysInit => WholeFillInv
  BY DEF SysInit, Init, WholeFillInv, FillInv, GridHolds, ThreadsHold, InboxHolds, WireHolds,
     ExchangeHolds, Answered, Ids, Threads

\* No position is closed that was not opened, and none is opened twice, while
\* no order has been filled in part: pushes may be lost, the query for the
\* missed fills may race them, list less than there is or fail, batches may be
\* refused or sent again, and the grid stopped and built anew at any moment.
THEOREM NoAnswerBeforeItsFill ==
  ASSUME Reports = Statuses
  PROVE  SysSpec => []AnswerAfterWholeFill
<1>1. SysInit => WholeFillInv
  BY InitHoldsFills
<1>2. SysTypeOK /\ HasMessage /\ WholeFillInv /\ [SysNext]_allVars => WholeFillInv'
  BY NextHolds
<1>3. SysSpec => [](SysTypeOK /\ HasMessage)
  BY SysKeepsType
<1>4. WholeFillInv => AnswerAfterWholeFill
  BY DEF WholeFillInv, FillInv, GridHolds, ExchangeHolds, Answered, AnswerAfterWholeFill,
     AnswerAfterFill
<1> QED
  BY <1>1, <1>2, <1>3, <1>4, PTL DEF SysSpec
==============================================================================

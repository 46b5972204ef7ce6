---------------------------- MODULE GridSystem ----------------------------
(***************************************************************************)
(* The grid strategy at work: the regions of GridStrategy, the threads     *)
(* that run through them, and the exchange.                                *)
(*                                                                         *)
(* Threads: "feed" is the private channel's thread, which handles pushes   *)
(* and answers (command.cpp) and runs updateGrid; "check" is the checkgrid *)
(* thread of main.cpp; "console" is main's command loop; "rebuild" is the  *)
(* thread a closeout leaves behind.  A thread computes what to order under *)
(* the lock and sends it, batch by batch, after it has released the lock.  *)
(*                                                                         *)
(* The channel appears as what it does for orders (see module Channel): a  *)
(* queue of requests that the exchange serves in order, and a stream of    *)
(* pushes that a lost connection interrupts.                               *)
(***************************************************************************)
EXTENDS GridStrategy, Sequences, FiniteSets

CONSTANTS
  BatchSize,    \* orders in one request (20 in the code)
  FillsListed,  \* fills in one answer to the query (50 in the code)
  MaxFills,     \* bound: orders that the exchange fills
  MaxPartials,  \* bound: orders that it fills in part before
  MaxRefused,   \* bound: requests of which it refuses orders
  MaxBusy,      \* bound: requests that it is too busy for, in whole or in part
  MaxBreaks,    \* bound: connections lost
  MaxStops,     \* bound: "stop grid" commands
  MaxTests,     \* bound: "test grid" commands
  TakesProfit   \* whether the cash may reach the take profit point

ASSUME SystemAssumption ==
  /\ {BatchSize, FillsListed} \subseteq Nat \ {0}
  /\ {MaxFills, MaxPartials, MaxRefused, MaxBusy, MaxBreaks, MaxStops, MaxTests} \subseteq Nat
  /\ TakesProfit \in BOOLEAN

VARIABLES
  pc,        \* where each thread is
  todo,      \* clordids each thread has yet to send or to mark
  closing,   \* exits whose positions a thread's closeout is to close
  dirty,     \* grid_strategy_.dirty
  rebuilds,  \* threads waiting to start the grid again
  wire,      \* requests on their way to the exchange
  inbox,     \* pushes and answers on their way to the feed thread
  conn,      \* "off"; "up"; "login": logged in; "on": subscribed to the orders
  live,      \* orders resting on the exchange
  part,      \* those of them filled in part
  filled,    \* orders filled
  closed,    \* exits whose position a closeout closed at the market instead
  forgotten, \* history: orders asked for again after the grid had dropped them
  overtaken, \* history: orders sent after the grid had dropped them
  stranded,  \* history: opening orders whose position the grid has given up
  unheeded,  \* history: orders whose placing or cancel failed, unnoticed
  count      \* events so far, for the bounds

exchange == <<live, part, filled, closed>>
network == <<wire, inbox, conn>>
history == <<forgotten, overtaken, stranded, unheeded, count>>
sysVars == <<pc, todo, closing, dirty, rebuilds, network, exchange, history>>
allVars == <<vars, sysVars>>

Threads == {"feed", "check", "console", "rebuild"}
Steps ==
  {"idle", "mark", "markfilled", "query", "pass", "send", "closeout", "cancel"}

SysInit ==
  /\ Init
  /\ pc = [t \in Threads |-> "idle"]
  /\ todo = [t \in Threads |-> {}]
  /\ closing = [t \in Threads |-> {}]
  /\ dirty = FALSE /\ rebuilds = 0
  /\ wire = <<>> /\ inbox = <<>> /\ conn = "on"
  /\ live = {} /\ part = {} /\ filled = {} /\ closed = {}
  /\ forgotten = {} /\ overtaken = {} /\ stranded = {} /\ unheeded = {}
  /\ count = [partials |-> 0, refused |-> 0, busy |-> 0, breaks |-> 0, stops |-> 0, tests |-> 0]

Goto(t, at) == pc' = [pc EXCEPT ![t] = at]
Ids(S) == {o.id : o \in S}

\* The orders before and after one in its chain.
Opener(id) == [id EXCEPT !.hop = @ - 1]
Closer(id) == [id EXCEPT !.hop = @ + 1]
Opens(id) == id.hop % 2 = 0
OpenersOf(S) == {Opener(id) : id \in {q \in S : ~Opens(q)}}

\* A request of the grid.  The exchange remembers the clordids it has taken
\* orders of; only a request that is sent again can repeat one ("known").
Request(op, ids, close) == [op |-> op, ids |-> ids, close |-> close, known |-> {}]

---------------------------------------------------------------------------
(* startGrid, updateGrid and clearGrid, which any thread may run.          *)

\* At most n members of a set, as many as there are.
Some(S, n) == {B \in SUBSET S : Cardinality(B) = Smaller(Cardinality(S), n)}

\* Any part of a set that makes one request.
Batches(S) == Some(S, BatchSize)

\* startGrid under its lock; the orders are sent afterwards.  Nothing at all
\* happens when the leverage is refused or a grid is running.
Start(t, n) ==
  /\ \/ /\ StartGridOk(n)
        /\ todo' = [todo EXCEPT ![t] = Ids(orders')]
        /\ Goto(t, "send")
     \/ /\ StartGridFails(n) \/ UNCHANGED vars
        /\ Goto(t, "idle")
        /\ UNCHANGED todo
  /\ UNCHANGED <<closing, dirty, network, exchange>>

\* updateGrid under its lock, and what it decides from the counts of buys
\* and sells and from the cash once it has left it.
Pass(t) ==
  /\ pc[t] = "pass"
  /\ \/ /\ size = 0
        /\ Goto(t, "idle")
        /\ UNCHANGED <<vars, todo>>
     \/ /\ UpdateGrid
        /\ \/ /\ OneSided(orders') \/ TakesProfit
              /\ Goto(t, "closeout")
              /\ UNCHANGED todo
           \/ /\ ~OneSided(orders')
              /\ Goto(t, "send")
              /\ todo' = [todo EXCEPT ![t] = Ids(Placed)]
  /\ UNCHANGED <<closing, dirty, rebuilds, network, exchange, history>>

\* The loops that send orders, at most BatchSize to a request.
Send(t) ==
  /\ pc[t] = "send"
  /\ \/ /\ todo[t] = {}
        /\ Goto(t, "idle")
        /\ UNCHANGED <<todo, wire, overtaken>>
     \/ /\ todo[t] # {}
        /\ \E B \in Batches(todo[t]) :
             /\ wire' = Append(wire, Request("place", B, {}))
             /\ todo' = [todo EXCEPT ![t] = @ \ B]
             /\ overtaken' = overtaken \cup (B \ Ids(orders))
        /\ UNCHANGED pc
  /\ UNCHANGED <<vars, closing, dirty, rebuilds, inbox, conn, exchange, forgotten, stranded, unheeded,
                 count>>

\* Mutant: only the closing orders are cancelled.
CancelledExits == {o \in orders : o.status = "Live" /\ IsExit(o)}

\* The orders clearGrid cancels, and those of them whose position it closes.
Cancelled == {o \in orders : o.status = "Live"}

\* Mutant: only the positions of the longs are closed.
ClosableLongs == {o \in Cancelled : IsExit(o) /\ o.pos = "Long"}

Closable == {o \in Cancelled : IsExit(o)}

\* clearGrid under its lock: the live orders are to be cancelled, and the
\* positions of the live exits to be closed with a single request.  What an
\* opening order bought before its cancel is served is left alone, and so is
\* the rest of the exits.
Clear(t) ==
  /\ pc[t] = "closeout"
  /\ ClearGrid
  /\ todo' = [todo EXCEPT ![t] = Ids(Cancelled)]
  /\ \E B \in Batches(Ids(Closable)) :
       /\ closing' = [closing EXCEPT ![t] = B]
       /\ stranded' = stranded \cup Ids({o \in orders : ~IsExit(o)})
                        \cup OpenersOf(Ids(Closable) \ B)
  /\ Goto(t, "cancel")
  /\ UNCHANGED <<dirty, rebuilds, network, exchange, forgotten, overtaken, unheeded, count>>

\* Requests under way: those on the wire and those that are to be sent again.
Pending ==
  {wire[i] : i \in DOMAIN wire}
    \cup UNION {{inbox[i].again[k] : k \in DOMAIN inbox[i].again} : i \in DOMAIN inbox}

\* The closing orders of a closeout are shared by the callbacks of its cancels
\* and the thread t that sends them (DoneTask); the first n messages are read.
Shared(task, t, n) ==
  \/ \E u \in Threads \ {t} : closing[u] = task
  \/ \E r \in Pending : r.op = "cancel" /\ r.close = task
  \/ \E i \in n + 1 .. Len(inbox) : inbox[i].kind = "answer" /\ inbox[i].ids = task

\* Mutant: the first to let go of the closing orders sends them.
LetGoFirst(task, t, n) ==
  wire' = IF task = {} THEN wire ELSE Append(wire, Request("close", task, {}))

\* The last to let go of the closing orders sends them.
LetGo(task, t, n) ==
  wire' = IF task = {} \/ Shared(task, t, n) THEN wire
          ELSE Append(wire, Request("close", task, {}))

\* The loop that sends the cancels, each with a share of the closing orders.
\* updateGrid then leaves a thread behind that starts the grid again.
Cancel(t) ==
  /\ pc[t] = "cancel"
  /\ \/ /\ todo[t] = {}
        /\ Goto(t, "idle")
        /\ rebuilds' = IF t = "console" THEN rebuilds ELSE rebuilds + 1
        /\ LetGo(closing[t], t, 0)
        /\ closing' = [closing EXCEPT ![t] = {}]
        /\ UNCHANGED todo
     \/ /\ todo[t] # {}
        /\ \E B \in Batches(todo[t]) :
             /\ wire' = Append(wire, Request("cancel", B, closing[t]))
             /\ todo' = [todo EXCEPT ![t] = @ \ B]
        /\ UNCHANGED <<pc, rebuilds, closing>>
  /\ UNCHANGED <<vars, dirty, inbox, conn, exchange, history>>

---------------------------------------------------------------------------
(* The threads.                                                            *)

\* An order of the grid takes a status; a clordid may match none.
Mark(id, status) ==
  IF \E o \in orders : o.id = id /\ o.status # "Canceled"
  THEN SetStatus(id, status)
  ELSE UNCHANGED vars

\* The status an order takes from a message: pushes are named after it.
StatusOf(m) == IF m.kind \in Statuses THEN m.kind ELSE "Canceled"

\* Mutant: "clordid duplicated" is taken for a refusal.
MarkedAll(m) == m.ids

\* The orders a message marks: all but those that were placed before.
Marked(m) == m.ids \ m.known

\* The feed thread takes a message: a push of orders, the answer to a batch
\* that was not placed as a whole, or the one to a cancel of a closeout that
\* has positions to close.
Receive ==
  /\ pc["feed"] = "idle" /\ inbox # <<>>
  /\ \/ /\ Head(inbox).kind = "answer"
        /\ LetGo(Head(inbox).ids, "feed", 1)
        /\ inbox' = Tail(inbox)
        /\ UNCHANGED <<pc, todo>>
     \/ /\ Head(inbox).kind # "answer"
        /\ Goto("feed", "mark")
        /\ todo' = [todo EXCEPT !["feed"] = Marked(Head(inbox))]
        /\ UNCHANGED <<inbox, wire>>
  /\ UNCHANGED <<vars, closing, dirty, rebuilds, conn, exchange, history>>

MarkOne(t, status) ==
  \E id \in todo[t] :
    /\ Mark(id, status)
    /\ todo' = [todo EXCEPT ![t] = @ \ {id}]

\* The orders of a message are marked one by one, each under the lock.
MarkFeed ==
  /\ pc["feed"] = "mark"
  /\ MarkOne("feed", StatusOf(Head(inbox)))
  /\ UNCHANGED <<pc, closing, dirty, rebuilds, network, exchange, history>>

\* Mutant: updateGrid does not run after the last.
MarkedNoPass ==
  /\ pc["feed"] = "mark" /\ todo["feed"] = {} /\ Head(inbox).kind # "busy"
  /\ Goto("feed", "idle")
  /\ inbox' = Tail(inbox)
  /\ UNCHANGED <<vars, todo, closing, dirty, rebuilds, wire, conn, exchange, history>>

\* updateGrid runs after the last.
MarkedPass ==
  /\ pc["feed"] = "mark" /\ todo["feed"] = {} /\ Head(inbox).kind # "busy"
  /\ Goto("feed", "pass")
  /\ inbox' = Tail(inbox)
  /\ UNCHANGED <<vars, todo, closing, dirty, rebuilds, wire, conn, exchange, history>>

\* Mutant: the request is not sent again.
RetryNever ==
  /\ pc["feed"] = "mark" /\ todo["feed"] = {} /\ Head(inbox).kind = "busy"
  /\ Goto("feed", "idle")
  /\ inbox' = Tail(inbox)
  /\ UNCHANGED <<vars, todo, closing, dirty, rebuilds, wire, conn, exchange, history>>

\* An answer is given up at the first entry that says busy: the orders it
\* refused before are marked, updateGrid does not run, and the whole request
\* is sent again, the orders that the grid has dropped meanwhile included.
Retry ==
  /\ pc["feed"] = "mark" /\ todo["feed"] = {} /\ Head(inbox).kind = "busy"
  /\ Goto("feed", "idle")
  /\ inbox' = Tail(inbox)
  /\ LET again == Head(inbox).again
     IN  /\ wire' = wire \o again
         /\ forgotten' = forgotten \cup
              UNION {again[i].ids \ (again[i].known \cup Ids(Kept)) :
                       i \in {j \in DOMAIN again : again[j].op = "place"}}
  /\ UNCHANGED <<vars, todo, closing, dirty, rebuilds, conn, exchange, overtaken, stranded, unheeded,
                 count>>

\* When the last messages of a session have been handled, a new one is made,
\* and its login is sent.  That is turned down for ever if a request has been
\* sent or left over before (see RequestAnswered in module Channel).
Connect ==
  /\ conn = "off" /\ pc["feed"] = "idle" /\ inbox = <<>> /\ wire = <<>>
  /\ conn' = "up"
  /\ UNCHANGED <<vars, pc, todo, closing, dirty, rebuilds, wire, inbox, exchange, history>>

\* onLogined queues the subscriptions behind what has been sent since, and asks
\* for the fills query.
Relogin ==
  /\ conn = "up"
  /\ conn' = "login"
  /\ wire' = Append(wire, Request("sub", {}, {}))
  /\ dirty' = (dirty \/ size > 0)
  /\ UNCHANGED <<vars, pc, todo, closing, rebuilds, inbox, exchange, history>>

\* The checkgrid thread: checkLongUnfilledOrder, whose amendments change the
\* price of an order only, then the fills query if one is due.
Amend ==
  /\ pc["check"] = "idle"
  /\ CheckLongUnfilledOrder
  /\ UNCHANGED sysVars

Check ==
  /\ pc["check"] = "idle" /\ size > 0 /\ dirty
  /\ Goto("check", "query")
  /\ UNCHANGED <<vars, todo, closing, dirty, rebuilds, network, exchange, history>>

\* checkOrderFilled: the exchange lists the orders it has fills of, in full
\* or in part, as many as one answer holds.  Those the grid does not know are
\* of no consequence and left out.  The query may fail.
Query ==
  /\ pc["check"] = "query"
  /\ \/ Goto("check", "idle") /\ UNCHANGED todo
     \/ /\ Goto("check", "markfilled")
        /\ \E listed \in Some(filled \cup part, FillsListed) :
             todo' = [todo EXCEPT !["check"] = listed \cap Ids(orders)]
  /\ UNCHANGED <<vars, closing, dirty, rebuilds, network, exchange, history>>

\* Each record marks its order filled, under the lock; after the last one
\* the flag is cleared without it.
MarkCheck ==
  /\ pc["check"] = "markfilled"
  /\ \/ /\ MarkOne("check", "Filled")
        /\ UNCHANGED <<pc, dirty>>
     \/ /\ todo["check"] = {}
        /\ dirty' = FALSE
        /\ Goto("check", "pass")
        /\ UNCHANGED <<vars, todo>>
  /\ UNCHANGED <<closing, rebuilds, network, exchange, history>>

\* The console: "start grid" and "stop grid".
ConsoleStart(n) ==
  /\ pc["console"] = "idle"
  /\ Start("console", n)
  /\ UNCHANGED <<rebuilds, history>>

\* "test grid" makes the grid and sends none of its orders.
ConsoleTest(n) ==
  /\ pc["console"] = "idle" /\ count.tests < MaxTests
  /\ count' = [count EXCEPT !.tests = @ + 1]
  /\ StartGridOk(n) \/ StartGridFails(n)
  /\ UNCHANGED <<pc, todo, closing, dirty, rebuilds, network, exchange, forgotten, overtaken,
                 stranded, unheeded>>

ConsoleStop ==
  /\ pc["console"] = "idle" /\ count.stops < MaxStops
  /\ count' = [count EXCEPT !.stops = @ + 1]
  /\ Goto("console", "closeout")
  /\ UNCHANGED <<vars, todo, closing, dirty, rebuilds, network, exchange, forgotten, overtaken,
                 stranded, unheeded>>

\* Half an hour after a closeout, with the option of the last grid.
Rebuild ==
  /\ pc["rebuild"] = "idle" /\ rebuilds > 0
  /\ rebuilds' = rebuilds - 1
  /\ Start("rebuild", option)
  /\ UNCHANGED history

---------------------------------------------------------------------------
(* The exchange and the connection (external).                             *)

\* A message to the feed thread; an answer names the orders it repeats, and
\* one that says busy what is to be sent again.
Answer(kind, ids, known, again) == [kind |-> kind, ids |-> ids, known |-> known, again |-> again]
Message(kind, ids) == Answer(kind, ids, {}, <<>>)

\* Pushes go to a subscribed session only.
Pushed(ids, status) ==
  IF conn = "on" /\ ids # {} THEN Append(inbox, Message(status, ids)) ELSE inbox

CountRefused(R) == IF R = {} THEN 0 ELSE 1

\* Orders of a batch that are placed are not placed again; of the others, R
\* are refused and U not looked at because the exchange is busy.
PlaceSome(r, R, U) ==
  /\ r.op = "place"
  /\ R # {} => count.refused < MaxRefused
  /\ live' = live \cup (r.ids \ (r.known \cup R \cup U))
  /\ stranded' = stranded \cup OpenersOf(R)
  /\ UNCHANGED <<conn, part, filled, closed, forgotten, overtaken, unheeded>>

ServePlace(r) ==
  \E R \in SUBSET (r.ids \ r.known) :
    /\ PlaceSome(r, R, {})
    /\ count' = [count EXCEPT !.refused = @ + CountRefused(R)]
    /\ LET pushes == Pushed(r.ids \ (r.known \cup R), "Live")
       IN  inbox' = IF R \cup r.known = {} THEN pushes
                    ELSE Append(pushes, Answer("refused", R \cup r.known, r.known, <<>>))

\* The entries of the answer before the first that says busy refuse R.
ServePlaceBusy(r) ==
  \E U \in (SUBSET (r.ids \ r.known)) \ {{}} : \E R \in SUBSET (r.ids \ (r.known \cup U)) :
    /\ count.busy < MaxBusy
    /\ PlaceSome(r, R, U)
    /\ count' = [count EXCEPT !.refused = @ + CountRefused(R), !.busy = @ + 1]
    /\ inbox' = Append(Pushed(r.ids \ (r.known \cup R \cup U), "Live"),
                       Answer("busy", R \cup r.known, r.known,
                              << [r EXCEPT !.known = r.ids \ (R \cup U)] >>))

\* The market orders of a closeout, of which R are refused and U not looked
\* at: nothing is done about R, though it is known from the answer.
CloseSome(r, R, U) ==
  /\ r.op = "close"
  /\ R # {} => count.refused < MaxRefused
  /\ closed' = closed \cup (r.ids \ (R \cup U))
  /\ stranded' = stranded \cup OpenersOf(R)
  /\ UNCHANGED <<conn, live, part, filled, forgotten, overtaken, unheeded>>

\* Their pushes and answers name clordids that the grid does not have.
Traded(ids) == IF conn = "on" /\ ids # {} THEN Append(inbox, Message("Filled", {})) ELSE inbox

ServeClose(r) ==
  \E R \in SUBSET (r.ids \ r.known) :
    /\ CloseSome(r, R, {})
    /\ count' = [count EXCEPT !.refused = @ + CountRefused(R)]
    /\ LET pushes == Traded(r.ids \ (r.known \cup R))
       IN  inbox' = IF R \cup r.known = {} THEN pushes
                    ELSE Append(pushes, Message("refused", {}))

ServeCloseBusy(r) ==
  \E U \in (SUBSET (r.ids \ r.known)) \ {{}} :
    /\ count.busy < MaxBusy
    /\ CloseSome(r, {}, U)
    /\ count' = [count EXCEPT !.busy = @ + 1]
    /\ inbox' = Append(Traded(r.ids \ (r.known \cup U)),
                       Answer("busy", {}, {}, << [r EXCEPT !.known = r.ids \ U] >>))

\* Orders are refused as a whole with a code that only the callback sees, and
\* the callback only logs it.
ServeFailed(r) ==
  /\ r.op \in {"place", "close"} /\ count.refused < MaxRefused
  /\ count' = [count EXCEPT !.refused = @ + 1]
  /\ unheeded' = IF r.op = "place" THEN unheeded \cup (r.ids \ r.known) ELSE unheeded
  /\ stranded' = IF r.op = "close" THEN stranded \cup OpenersOf(r.ids \ r.known) ELSE stranded
  /\ UNCHANGED <<inbox, conn, exchange, forgotten, overtaken>>

\* Any other request is refused as a whole by a busy exchange.
ServeBusy(r) ==
  /\ r.op \in {"cancel", "sub"} /\ count.busy < MaxBusy
  /\ count' = [count EXCEPT !.busy = @ + 1]
  /\ inbox' = Append(inbox, Answer("busy", {}, {}, <<r>>))
  /\ UNCHANGED <<conn, exchange, forgotten, overtaken, stranded, unheeded>>

\* Orders that are gone already are not cancelled.  Of the others R are not
\* either, for a reason that stands in an entry of the answer or in its code.
\* parseReceivedData looks at no entry of it, and the callback of the cancels
\* lets go of the closing orders in any case.
ServeCancel(r) ==
  /\ r.op = "cancel"
  /\ \E R \in SUBSET (live \cap r.ids) :
       /\ R # {} => count.refused < MaxRefused
       /\ count' = [count EXCEPT !.refused = @ + CountRefused(R)]
       /\ live' = live \ (r.ids \ R)
       /\ part' = part \ (r.ids \ R)
       /\ unheeded' = unheeded \cup R
       /\ LET pushes == Pushed((live \cap r.ids) \ R, "Canceled")
          IN  inbox' = IF r.close = {} THEN pushes ELSE Append(pushes, Message("answer", r.close))
  /\ UNCHANGED <<conn, filled, closed, forgotten, overtaken, stranded>>

\* From here on the exchange pushes to the session.
ServeSubscription(r) ==
  /\ r.op = "sub"
  /\ conn' = "on"
  /\ UNCHANGED <<inbox, exchange, history>>

Serve ==
  /\ conn \in {"login", "on"} /\ wire # <<>>
  /\ wire' = Tail(wire)
  /\ LET r == Head(wire)
     IN  \/ ServePlace(r) \/ ServePlaceBusy(r) \/ ServeClose(r) \/ ServeCloseBusy(r)
         \/ ServeFailed(r) \/ ServeBusy(r) \/ ServeCancel(r) \/ ServeSubscription(r)
  /\ UNCHANGED <<vars, pc, todo, closing, dirty, rebuilds>>

Fill(id) ==
  /\ Cardinality(filled) < MaxFills /\ id.hop < MaxHop
  /\ live' = live \ {id} /\ part' = part \ {id} /\ filled' = filled \cup {id}
  /\ inbox' = Pushed({id}, "Filled")
  /\ UNCHANGED <<vars, pc, todo, closing, dirty, rebuilds, wire, conn, closed, history>>

FillInPart(id) ==
  /\ count.partials < MaxPartials /\ id \notin part
  /\ count' = [count EXCEPT !.partials = @ + 1]
  /\ part' = part \cup {id}
  /\ inbox' = Pushed({id}, "PartiallyFilled")
  /\ UNCHANGED <<vars, pc, todo, closing, dirty, rebuilds, wire, conn, live, filled, closed,
                 forgotten, overtaken, stranded, unheeded>>

\* Of what is under way the first messages have arrived, the one that is being
\* handled among them; the pushes behind them are lost.  Answers are kept: a
\* request whose answer is lost is sent again and answered again, if at all.
Break ==
  /\ conn # "off" /\ count.breaks < MaxBreaks
  /\ count' = [count EXCEPT !.breaks = @ + 1]
  /\ conn' = "off"
  /\ \E n \in (IF pc["feed"] = "mark" THEN 1 ELSE 0) .. Len(inbox) :
       LET kept == {i \in n + 1 .. Len(inbox) : inbox[i].kind \notin Statuses}
       IN  \E from \in [1 .. Cardinality(kept) -> kept] :
             /\ \A i, j \in DOMAIN from : i < j => from[i] < from[j]
             /\ inbox' = SubSeq(inbox, 1, n) \o [i \in DOMAIN from |-> inbox[from[i]]]
  /\ UNCHANGED <<vars, pc, todo, closing, dirty, rebuilds, wire, exchange, forgotten,
                 overtaken, stranded, unheeded>>

Work(t) == Pass(t) \/ Send(t) \/ Clear(t) \/ Cancel(t)
Feed == Receive \/ MarkFeed \/ MarkedPass \/ Retry \/ Connect \/ Relogin
Checker == Check \/ Query \/ MarkCheck

SysNext ==
  \/ \E t \in Threads : Work(t)
  \/ Feed \/ Checker \/ Amend
  \/ ConsoleStop \/ Rebuild \/ \E n \in GridCounts : ConsoleStart(n) \/ ConsoleTest(n)
  \/ Serve \/ Break
  \/ \E id \in live : Fill(id) \/ FillInPart(id)

\* Threads are scheduled, messages arrive, connections are made again and
\* served, and a query that is tried again and again gets through; the
\* exchange need not fill, the user need not type.
SysFairness ==
  /\ WF_allVars(Work("feed") \/ Feed)
  /\ WF_allVars(Work("check") \/ Check \/ MarkCheck)
  /\ SF_allVars(Query /\ pc'["check"] = "markfilled")
  /\ WF_allVars(Work("console"))
  /\ WF_allVars(Work("rebuild") \/ Rebuild)
  /\ WF_allVars(Serve)

SysSpec == SysInit /\ [][SysNext]_allVars /\ SysFairness
---------------------------------------------------------------------------
(* Properties.                                                             *)

Requests ==
  [op : {"place", "cancel", "close", "sub"}, ids : SUBSET ChainId, close : SUBSET ChainId,
   known : SUBSET ChainId]
Messages ==
  [kind : Statuses \cup {"refused", "busy", "answer"}, ids : SUBSET ChainId,
   known : SUBSET ChainId, again : Seq(Requests)]
Counts == [partials : Nat, refused : Nat, busy : Nat, breaks : Nat, stops : Nat, tests : Nat]

\* The shape of the state.
SysTypeOK ==
  /\ TypeOK
  /\ pc \in [Threads -> Steps]
  /\ todo \in [Threads -> SUBSET ChainId] /\ closing \in [Threads -> SUBSET ChainId]
  /\ dirty \in BOOLEAN /\ rebuilds \in Nat /\ conn \in {"off", "up", "login", "on"}
  /\ wire \in Seq(Requests) /\ inbox \in Seq(Messages)
  /\ {live, part, filled, closed, forgotten, overtaken, stranded, unheeded} \subseteq SUBSET ChainId
  /\ count \in Counts

\* An order that answers a fill exists, on the grid or on the exchange, only
\* once the exchange has filled the order it answers: no position is closed
\* that was not opened and none is opened twice.
AnswerAfterFill ==
  \A id \in Ids(orders) \cup live \cup filled :
    id.hop > 0 => Opener(id) \in filled

\* As long as no order has been filled in part, it does so exist only then,
\* whatever pushes are lost and however the query for the missed fills races
\* those that arrive, a stop of the grid and its closeout.
AnswerAfterWholeFill == count.partials = 0 => AnswerAfterFill

\* The ids in requests under way, and those that threads have yet to send.
PendingIds(op) == UNION {r.ids : r \in {q \in Pending : q.op = op}}
AtStep(at) == UNION {todo[t] : t \in {u \in Threads : pc[u] = at}}

BeingPlaced == PendingIds("place") \cup AtStep("send")
BeingCancelled == PendingIds("cancel") \cup AtStep("cancel")
BeingClosed ==
  PendingIds("close") \cup (UNION {r.close : r \in Pending}) \cup (UNION {closing[t] : t \in Threads})
    \cup (UNION {inbox[i].ids : i \in {j \in DOMAIN inbox : inbox[j].kind = "answer"}})
BeingRefused ==
  UNION {Marked(inbox[i]) : i \in {j \in DOMAIN inbox : inbox[j].kind \in {"refused", "busy"}}}

\* Every order that rests on the exchange is on the grid or being cancelled:
\* none is left to its own devices, but for those filled in part, which a
\* closeout does not cancel (user_data.cpp:599), those that were asked for
\* again, in a batch the exchange had been too busy for, after the grid dropped
\* them, those that a closeout dropped before they were sent, and those whose
\* cancel the exchange refused (user_data.cpp:653).
OrdersTracked ==
  live \ part \subseteq Ids(orders) \cup BeingCancelled \cup forgotten \cup overtaken \cup unheeded

\* Every order the grid believes to rest does rest on the exchange, or its
\* request, its refusal or its fill is under way: the grid waits for no order
\* that is not there.  Excepted are a grid made by "test grid" (main.cpp:250),
\* one that a thread is about to close out: it does not send what its last
\* pass put there (user_data.cpp:457), and the orders of a request that failed
\* with a code command.cpp:461 does not look for.
OrdersExist ==
  count.tests = 0 /\ (\A t \in Threads : pc[t] # "closeout") =>
    \A o \in orders :
      o.status = "Live" =>
        o.id \in live \cup filled \cup BeingPlaced \cup BeingRefused \cup unheeded

\* A position that an order of the grid has opened stays in the care of the
\* program: the fill has still to be noticed, or the order that closes it is on
\* the grid or on the exchange, or a closeout is about to close it at the
\* market.  Excepted are the positions of forgotten orders, those whose closing
\* order, or whose market order in a closeout, was refused, and those of a grid
\* that was closed out before it noticed the fill or with more exits than one
\* request holds (user_data.cpp:587 to 645).
PositionsCovered ==
  \A id \in {q \in filled \ (stranded \cup forgotten) : Opens(q) /\ Closer(q) \notin filled \cup closed} :
    id \in Ids(orders) \/ Closer(id) \in Ids(orders) \cup live \cup BeingClosed

\* The closeout is through and nothing is under way.
Quiet ==
  /\ size = 0 /\ wire = <<>> /\ inbox = <<>>
  /\ \A t \in Threads : pc[t] = "idle"

\* Of what a closeout leaves on the exchange every order is forgotten or one
\* whose cancel was refused: it cancels all others.
ClosedOut == Quiet => live \subseteq forgotten \cup unheeded

\* A position is closed at the market only when the exchange no longer holds
\* the order that was to close it: DoneTask waits for the cancels.  Excepted
\* are orders that reach the exchange behind their cancel, and those whose
\* cancel is refused, of which DoneTask takes no notice (user_data.cpp:650).
CloseAfterCancel == closed \cap live \subseteq forgotten \cup overtaken \cup unheeded

\* Every fill of an order of the grid is noticed, and the order taken off.
FillsNoticed == []<>(filled \cap Ids(orders) = {})

\* "fix the order status when connection broken" (main.cpp:163): so it is when
\* connections are lost, as long as the last one lasts.
MissedFillsNoticed == <>[](conn = "on") => FillsNoticed
===========================================================================

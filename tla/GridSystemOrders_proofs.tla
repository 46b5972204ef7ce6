----------------------- MODULE GridSystemOrders_proofs -----------------------
(***************************************************************************)
(* Where the orders are: what rests on the exchange is tracked, what the   *)
(* grid waits for is there, positions stay covered and none is closed      *)
(* twice, but for what a refusal nobody looks for leaves behind, and for   *)
(* what reaches the exchange after the grid has dropped it (Stray).        *)
(*                                                                         *)
(* The argument follows one clordid.  It is new when the grid makes it     *)
(* (Fresh), and until the exchange has taken the order it is at one place: *)
(* with a thread, in a request, or in an answer (Apart, Untaken).  So what *)
(* a message says of it stays true until the grid hears of it (MarksTrue), *)
(* and a cancel on the wire is the last that is heard of it (CancelsLast). *)
(***************************************************************************)
EXTENDS GridSystem_proofs

Wired == {wire[i] : i \in DOMAIN wire}
Mail == {inbox[i] : i \in DOMAIN inbox}
Refusals == {"refused", "busy"}

\* The orders a request may yet place.
Unplaced(r) == IF r.op = "place" THEN r.ids \ r.known ELSE {}

\* A message says what it was sent for, and only one that says busy has a
\* request to be sent again.
MailInShape ==
  \A m \in Mail :
    /\ m.kind # "Empty"
    /\ IF m.kind = "busy" THEN \E r \in Requests : m.again = <<r>> ELSE m.again = <<>>

---------------------------------------------------------------------------
(* Names: the clordids that are in use anywhere.                           *)

RequestNames(r, id) == id \in r.ids \/ id \in r.known \/ id \in r.close

MessageNames(m, id) ==
  \/ id \in m.ids \/ id \in m.known
  \/ m.kind = "busy" /\ RequestNames(m.again[1], id)

Named(id) ==
  \/ \E o \in orders : o.id = id
  \/ \E t \in Threads : id \in todo[t] \/ id \in closing[t]
  \/ \E r \in Wired : RequestNames(r, id)
  \/ \E m \in Mail : MessageNames(m, id)
  \/ id \in live \/ id \in part \/ id \in filled \/ id \in closed

\* No name is ahead of the grid: not of its generation, nor of the levels it
\* has armed, nor of the orders that will be answered.
Behind(id, gg, sz, in, os) ==
  /\ id \in ChainId /\ id.gen <= gg
  /\ sz > 0 /\ id.gen = gg => id.lvl \in in[id.pos]
  /\ \A o \in os : o.auto /\ o.id.gen = id.gen /\ o.id.pos = id.pos /\ o.id.lvl = id.lvl
                     => id.hop <= o.id.hop

Fresh == \A id : Named(id) => Behind(id, gen, size, inited, orders)

---------------------------------------------------------------------------
(* Orders that are yet to be placed, and where they are.                   *)

SentBy(t, id) == pc[t] = "send" /\ id \in todo[t]
SentIn(i, id) == id \in Unplaced(wire[i])
Holds(m, id) ==
  \/ m.kind \in Refusals /\ id \in Marked(m)
  \/ m.kind = "busy" /\ id \in Unplaced(m.again[1])

HeldIn(i, id) == Holds(inbox[i], id)

ToSend(id) == \E t \in Threads : SentBy(t, id)
Sent(id) == \E i \in DOMAIN wire : SentIn(i, id)
Back(id) == \E i \in DOMAIN inbox : HeldIn(i, id)

\* An order is in one request or answer, or with one thread, at most.
OnceByThreads ==
  \A id : \A t, u \in Threads : SentBy(t, id) /\ SentBy(u, id) => t = u
OnceOnWire ==
  \A id : \A i, j \in DOMAIN wire : SentIn(i, id) /\ SentIn(j, id) => i = j
OnceInMail ==
  \A id : \A i, j \in DOMAIN inbox : HeldIn(i, id) /\ HeldIn(j, id) => i = j
Apart ==
  /\ OnceByThreads /\ OnceOnWire /\ OnceInMail
  /\ \A id : ~(ToSend(id) /\ Sent(id)) /\ ~(ToSend(id) /\ Back(id)) /\ ~(Sent(id) /\ Back(id))

\* An order that is yet to be placed has not been taken by the exchange.
Untaken ==
  /\ \A id : ToSend(id) \/ Sent(id) \/ Back(id) => id \notin live \cup filled
  /\ live \cap filled = {} /\ part \subseteq live

---------------------------------------------------------------------------
(* What the grid is told.                                                  *)

\* Requests under way: on the wire, or to be sent again.
Under(r) == r \in Wired \/ \E m \in Mail : m.kind = "busy" /\ r = m.again[1]

\* An order is being cancelled for a closeout with the given task: the exits
\* whose positions it is to close.
Doing(task, id) ==
  \/ \E t \in Threads : pc[t] = "cancel" /\ closing[t] = task /\ id \in todo[t]
  \/ \E r : Under(r) /\ r.op = "cancel" /\ r.close = task /\ id \in r.ids

Cancelling(id) == \E task : Doing(task, id)

\* What is being cancelled the grid has dropped.
CancelsDropped == \A id : Cancelling(id) => id \notin Ids(orders)

\* What the grid is told of fills is true, and of cancels no news.
MarksTrue ==
  /\ \A o \in orders : /\ o.status \in {"Filled", "PartiallyFilled"} => o.id \in filled \cup part
                       /\ o.status # "Empty"
  /\ \A m \in Mail :
       \A id \in m.ids \cap Ids(orders) :
         /\ m.kind \in {"Filled", "PartiallyFilled"} => id \in filled \cup part
         /\ m.kind = "Live" => id \in live \cup filled
         /\ m.kind # "Canceled"
  /\ pc["feed"] = "mark" => todo["feed"] \subseteq Marked(inbox[1]) /\ inbox[1].kind # "answer"
  /\ pc["check"] = "markfilled" => todo["check"] \cap Ids(orders) \subseteq filled \cup part

\* Orders of one name have one status.
OneStatus == \A o, q \in orders : o.id = q.id => o.status = q.status

\* An order marked as refused is nowhere, unless it was forgotten.
RefusedGone ==
  \A o \in orders :
    o.status = "Canceled" /\ o.id \notin forgotten =>
      o.id \notin live \cup filled /\ ~ToSend(o.id) /\ ~Sent(o.id)

\* An order that the grid has lost sight of.
Stray(id) == id \in forgotten \cup overtaken \cup unheeded

\* Nothing that is being cancelled is placed behind its cancel.
CancelsLast ==
  \A i, j \in DOMAIN wire :
    i < j /\ wire[i].op = "cancel" =>
      \A id \in wire[i].ids \cap Unplaced(wire[j]) : Stray(id)

LiveOnGrid(id) == \E o \in orders : o.id = id /\ o.status = "Live"

\* What rests on the exchange, or will, is tracked.
Tracked ==
  \A id :
    Sent(id) \/ id \in live \ part => LiveOnGrid(id) \/ Cancelling(id) \/ Stray(id)

---------------------------------------------------------------------------
(* What the grid waits for.                                                *)

Awaited ==
  count.tests = 0 /\ (\A t \in Threads : pc[t] # "closeout") =>
    \A o \in orders : o.status = "Live" =>
      o.id \in live \cup filled \cup unheeded \/ ToSend(o.id) \/ Sent(o.id) \/ Back(o.id)

\* A refusal that has been read through is known to the grid.
RefusalsHeard ==
  pc["feed"] = "mark" /\ inbox[1].kind \in Refusals =>
    \A id \in Marked(inbox[1]) \ todo["feed"] : ~LiveOnGrid(id)

---------------------------------------------------------------------------
(* Closing orders.                                                         *)

\* An order that is gone for good.
Gone(id) == id \notin Ids(orders) /\ (Stray(id) \/ (id \notin live /\ ~Sent(id)))

\* A task that is shared, and an exit whose position is being closed.
IsTask(task) ==
  \/ \E t \in Threads : closing[t] = task
  \/ \E r : Under(r) /\ r.op = "cancel" /\ r.close = task
  \/ \E m \in Mail : m.kind = "answer" /\ m.ids = task

ToClose(id) == \E r : Under(r) /\ r.op = "close" /\ id \in r.ids

\* The orders of a task are gone or have yet to be cancelled, by its cancels.
TasksHold ==
  /\ \A task : IsTask(task) => \A id \in task : Gone(id) \/ Doing(task, id)
  /\ \A id : ToClose(id) \/ id \in closed => Gone(id)
  /\ \A t \in Threads : pc[t] # "cancel" => closing[t] = {}

---------------------------------------------------------------------------
(* Positions.                                                              *)

InClosing(id) == ToClose(id) \/ \E task : IsTask(task) /\ id \in task

Cared(id) == id \in filled \cup closed \cup Ids(orders) \cup live \/ InClosing(id)

\* The orders of a chain take turns, and those that open are all answered.
Turns == \A o \in orders : /\ IsExit(o) <=> ~Opens(o.id)
                           /\ ~IsExit(o) => o.auto

ExitsCovered ==
  /\ \A o \in orders : o.status = "Canceled" /\ ~Opens(o.id) => Opener(o.id) \in stranded
  /\ \A m \in Mail :
       m.kind \in Refusals => \A id \in Marked(m) : ~Opens(id) => Opener(id) \in stranded
  /\ \A id :
       Cancelling(id) /\ ~Opens(id) => InClosing(id) \/ id \in closed \/ Opener(id) \in stranded
  /\ \A r : Under(r) /\ r.op = "close" => r.known \subseteq closed

\* Outside the grid of one level, where a fill finds no neighbour.
Covered ==
  1 \notin GridCounts =>
  \A id :
    Opens(id) /\ (ToSend(id) \/ Sent(id) \/ id \in live \cup filled) =>
      id \in stranded \cup forgotten \cup Ids(orders) \/ Cared(Closer(id))

---------------------------------------------------------------------------
(* The names: the grid makes orders that have none of them.                *)

Known == SysTypeOK /\ HasMessage /\ GridInv /\ MailInShape

NamesGrow == \A id : Named(id)' => id \in ChainId /\ (Named(id) \/ \E o \in orders' : o.id = id)

\* The orders of a pass have names that nobody has heard of.
LEMMA PlacedIsNew ==
  ASSUME GridInv, Fresh, size > 0, NEW o \in Placed
  PROVE  ~Named(o.id)
  <1>1. CASE o \in {CounterOrder(p) : p \in Countered}
    <2>1. PICK p \in Countered : o = CounterOrder(p)
      BY <1>1
    <2>2. p \in orders /\ p.auto /\ p \in Order
      BY DEF Countered, AutoFilled, GridInv, TypeOK
    <2>3. /\ o.id.gen = p.id.gen /\ o.id.pos = p.id.pos /\ o.id.lvl = p.id.lvl
          /\ o.id.hop = p.id.hop + 1 /\ p.id.hop \in Nat
      BY <2>1, <2>2 DEF CounterOrder, NewOrder, Order, ChainId
    <2> QED
      BY <2>2, <2>3 DEF Fresh, Behind
  <1>2. ASSUME NEW pos \in Pos, NEW l \in Armed(pos), o = EntryOrder(gen, pos, l)
        PROVE  ~Named(o.id)
    <2>1. o.id.gen = gen /\ o.id.pos = pos /\ o.id.lvl = l
      BY <1>2 DEF EntryOrder, NewOrder
    <2>2. l \notin inited[pos]
      BY DEF Armed
    <2> QED
      BY <2>1, <2>2 DEF Fresh, Behind
  <1> QED
    BY <1>1, <1>2 DEF Placed, Pos

LEMMA PassIsFresh ==
  ASSUME GridInv, Fresh, UpdateGrid, NamesGrow
  PROVE  Fresh'
  <1>1. /\ gen \in Nat /\ size > 0 /\ size' = size /\ gen' = gen
        /\ inited' = [pos \in Pos |-> inited[pos] \cup Armed(pos)]
        /\ orders' = Kept \cup Placed /\ orders \subseteq Order
    BY DEF GridInv, TypeOK, UpdateGrid
  <1>2. ASSUME NEW p \in Countered, NEW c, c = CounterOrder(p)
        PROVE  /\ p \in orders /\ p.auto /\ p \notin Kept /\ p.pos = p.id.pos /\ p \in Order
               /\ c.id \in ChainId /\ c.id.gen = p.id.gen /\ c.id.pos = p.id.pos
               /\ c.id.lvl = p.id.lvl /\ c.id.hop = p.id.hop + 1 /\ p.id.hop \in Nat
    <2>1. p \in orders /\ p.auto /\ p \notin Kept /\ p.pos = p.id.pos /\ p \in Order
      BY <1>1 DEF Countered, AutoFilled, Kept, GridInv, OrdersOnLevel, OnItsLevel
    <2> QED
      BY <1>2, <2>1 DEF CounterOrder, NewOrder, Order, ChainId
  <1>3. ASSUME NEW pos \in Pos, NEW l \in Armed(pos), NEW e, e = EntryOrder(gen, pos, l)
        PROVE  /\ e.id \in ChainId /\ e.id.gen = gen /\ e.id.pos = pos /\ e.id.lvl = l
               /\ e.id.hop = 0 /\ l \notin inited[pos]
               /\ \A o \in orders : o.auto /\ o.id.pos = pos => o.id.lvl # l
    <2>1. l \in Nat /\ l \notin inited[pos]
      BY DEF Armed, Levels
    <2>2. \A o \in orders : o.auto /\ o.id.pos = pos => o.id.lvl # l
      <3>1. \A o \in orders : o.pos = o.id.pos
        BY DEF GridInv, OrdersOnLevel, OnItsLevel
      <3>2. \A o \in orders : o.auto /\ o.pos = pos => o.id.lvl # l
        BY ArmedIsFree
      <3> QED
        BY <3>1, <3>2
    <2> QED
      BY <1>1, <1>3, <2>1, <2>2 DEF EntryOrder, NewOrder, ChainId
  <1>4. ASSUME NEW o \in orders
        PROVE  Behind(o.id, gen, size, inited, orders) /\ o.pos = o.id.pos /\ o.id \in ChainId
    BY DEF Fresh, Named, Behind, GridInv, OrdersOnLevel, OnItsLevel
  <1>5. ASSUME NEW p \in orders, NEW q \in orders, p.auto, q.auto, p.id.pos = q.id.pos,
               p.id.lvl = q.id.lvl
        PROVE  p = q
    BY <1>4, <1>5 DEF GridInv, OneOrderPerChain, SameChain
  <1> DEFINE Old(id) == Named(id)
             Next1(id) == \E p \in Countered : id = CounterOrder(p).id
             First(id) == \E pos \in Pos : \E l \in Armed(pos) : id = EntryOrder(gen, pos, l).id
  <1>6. ASSUME NEW o \in orders'
        PROVE  o \in Kept \/ (\E p \in Countered : o = CounterOrder(p))
                 \/ \E pos \in Pos : \E l \in Armed(pos) : o = EntryOrder(gen, pos, l)
    BY <1>1, PassOutcome
  <1>7. ASSUME NEW id, Named(id)'
        PROVE  Old(id) \/ Next1(id) \/ First(id)
    <2>1. ASSUME NEW o \in orders', o.id = id
          PROVE  Old(id) \/ Next1(id) \/ First(id)
      BY <1>6, <2>1 DEF Kept, Named
    <2> QED
      BY <1>7, <2>1 DEF NamesGrow
  <1>8. ASSUME NEW id, Old(id)
        PROVE  Behind(id, gen, size, inited, orders)
    BY <1>8 DEF Fresh
  <1> HIDE DEF Old
  <1>9. ASSUME NEW id, Old(id) \/ Next1(id) \/ First(id)
        PROVE  /\ id \in ChainId /\ id.gen <= gen'
               /\ size' > 0 /\ id.gen = gen' => id.lvl \in inited'[id.pos]
    <2>1. CASE Old(id)
      BY <1>1, <1>8, <2>1 DEF Behind, ChainId
    <2>2. CASE Next1(id)
      BY <1>1, <1>2, <1>4, <2>2 DEF Behind, ChainId
    <2>3. CASE First(id)
      BY <1>1, <1>3, <2>3
    <2> QED
      BY <1>9, <2>1, <2>2, <2>3
  <1>10. ASSUME NEW id, Old(id) \/ Next1(id) \/ First(id), NEW o \in orders', o.auto,
                o.id.gen = id.gen, o.id.pos = id.pos, o.id.lvl = id.lvl
         PROVE  id.hop <= o.id.hop
    <2>1. o.id.hop \in Nat /\ o.id.hop >= 0
      <3>1. o.id \in ChainId
        BY <1>2, <1>3, <1>4, <1>6 DEF Kept
      <3> QED
        BY <3>1 DEF ChainId
    <2>2. CASE First(id)
      BY <1>3, <2>1, <2>2
    <2>3. CASE o \in Kept
      <3>1. o \in orders
        BY <2>3 DEF Kept
      <3>2. CASE Old(id)
        BY <1>8, <1>10, <3>1, <3>2 DEF Behind
      <3>3. CASE Next1(id)
        BY <1>2, <1>5, <1>10, <2>3, <3>1, <3>3
      <3> QED
        BY <1>10, <2>2, <3>2, <3>3
    <2>4. ASSUME NEW p \in Countered, o = CounterOrder(p)
          PROVE  id.hop <= o.id.hop
      <3>1. p \in orders /\ p.auto /\ o.id.hop = p.id.hop + 1 /\ p.id.hop \in Nat
            /\ o.id.pos = p.id.pos /\ o.id.lvl = p.id.lvl /\ o.id.gen = p.id.gen
        BY <1>2, <2>4
      <3>2. CASE Old(id)
        <4>1. id.hop <= p.id.hop /\ id.hop \in Nat
          BY <1>8, <1>10, <3>1, <3>2 DEF Behind, ChainId
        <4> QED
          BY <3>1, <4>1
      <3>3. CASE Next1(id)
        BY <1>2, <1>5, <1>10, <2>4, <3>1, <3>3
      <3> QED
        BY <1>10, <2>2, <3>2, <3>3
    <2>5. ASSUME NEW pos \in Pos, NEW l \in Armed(pos), o = EntryOrder(gen, pos, l)
          PROVE  id.hop <= o.id.hop
      <3>1. /\ id.gen = gen /\ id.pos = pos /\ id.lvl = l /\ l \notin inited[pos]
            /\ \A q \in orders : q.auto /\ q.id.pos = pos => q.id.lvl # l
        BY <1>3, <1>10, <2>5
      <3>2. CASE Old(id)
        BY <1>1, <1>8, <3>1, <3>2 DEF Behind
      <3>3. CASE Next1(id)
        BY <1>2, <3>1, <3>3
      <3> QED
        BY <1>10, <2>2, <3>2, <3>3
    <2> QED
      BY <1>6, <2>3, <2>4, <2>5
  <1> QED
    BY <1>7, <1>9, <1>10 DEF Fresh, Behind

LEMMA StartOrdersAreFirst ==
  ASSUME NEW n, NEW count_, NEW g \in Nat, NEW o \in StartOrders(n, count_, g),
         \A pos \in Pos : InitialLevels(count_, pos) \subseteq Nat
  PROVE  /\ o.id \in ChainId /\ o.id.gen = g /\ o.id.hop = 0
         /\ o.id.lvl \in InitialLevels(count_, o.id.pos)
         /\ o.status = "Live" /\ o.auto /\ ~IsExit(o)
  <1>1. PICK pos \in Pos : \E l \in InitialLevels(count_, pos) : o = EntryOrder(g, pos, l)
    BY DEF StartOrders
  <1>2. PICK l \in InitialLevels(count_, pos) : o = EntryOrder(g, pos, l)
    BY <1>1
  <1> QED
    BY <1>2 DEF EntryOrder, NewOrder, ChainId, IsExit

LEMMA StartIsFresh ==
  ASSUME GridInv, Fresh, NEW n \in GridCounts, StartGridOk(n)
  PROVE  /\ orders = {}
         /\ \A o \in orders' : /\ ~Named(o.id) /\ o.status = "Live" /\ o.auto /\ ~IsExit(o)
                               /\ o.id \in ChainId /\ o.id.hop = 0
         /\ NamesGrow => Fresh'
  <1>1. /\ n \in Int /\ n > 0 /\ gen \in Nat /\ size = 0 /\ gen' = gen + 1
        /\ inited' = [pos \in Pos |-> InitialLevels(LevelCount(n), pos)]
        /\ orders' = StartOrders(n, LevelCount(n), gen + 1)
    BY GridAssumption DEF StartGridOk, GridInv, TypeOK
  <1>2. \A pos \in Pos : InitialLevels(LevelCount(n), pos) \subseteq Nat
    BY <1>1, InitialLevelsHaveAmount
  <1>3. orders = {}
    BY <1>1 DEF GridInv, OrdersOnLevel, OnItsLevel, Levels
  <1>4. ASSUME NEW o \in orders'
        PROVE  /\ o.id \in ChainId /\ o.id.gen = gen' /\ o.id.hop = 0
               /\ o.id.lvl \in inited'[o.id.pos]
               /\ o.status = "Live" /\ o.auto /\ ~IsExit(o)
    <2>1. gen + 1 \in Nat
      BY <1>1
    <2>2. /\ o.id \in ChainId /\ o.id.gen = gen + 1 /\ o.id.hop = 0
          /\ o.id.lvl \in InitialLevels(LevelCount(n), o.id.pos)
          /\ o.status = "Live" /\ o.auto /\ ~IsExit(o)
      BY <1>1, <1>2, <2>1, StartOrdersAreFirst
    <2> QED
      BY <1>1, <2>2 DEF ChainId
  <1>5. ASSUME NEW id, Named(id)
        PROVE  id \in ChainId /\ id.gen <= gen /\ id.gen \in Nat /\ id.gen # gen'
    BY <1>1, <1>5 DEF Fresh, Behind, ChainId
  <1>6. ASSUME NamesGrow
        PROVE  Fresh'
    <2>1. ASSUME NEW id, Named(id)'
          PROVE  id \in ChainId /\ (Named(id) \/ \E o \in orders' : o.id = id)
      BY <1>6, <2>1 DEF NamesGrow
    <2>2. ASSUME NEW id, Named(id)'
          PROVE  Behind(id, gen', size', inited', orders')
      <3>1. CASE Named(id)
        BY <1>1, <1>4, <1>5, <3>1 DEF Behind
      <3>2. CASE \E o \in orders' : o.id = id
        BY <1>1, <1>4, <3>2 DEF Behind
      <3> QED
        BY <2>1, <2>2, <3>1, <3>2
    <2> QED
      BY <2>2 DEF Fresh
  <1> QED
    BY <1>3, <1>4, <1>5, <1>6

\* A step that makes no orders.
LEMMA RestIsFresh ==
  ASSUME GridInv, Fresh, NamesGrow, gen' \in Nat, gen <= gen',
         \A o \in orders' : \E q \in orders : o.id = q.id /\ (o.auto => q.auto),
         size' > 0 /\ gen' = gen => size > 0 /\ inited' = inited
  PROVE  Fresh'
  <1>1. gen \in Nat
    BY DEF GridInv, TypeOK
  <1>2. ASSUME NEW id, Named(id)'
        PROVE  Behind(id, gen, size, inited, orders)
    BY <1>2 DEF NamesGrow, Named, Fresh
  <1>3. ASSUME NEW id, Named(id)'
        PROVE  Behind(id, gen', size', inited', orders')
    <2>1. /\ id \in ChainId /\ id.gen \in Nat /\ id.gen <= gen
          /\ size > 0 /\ id.gen = gen => id.lvl \in inited[id.pos]
      BY <1>2, <1>3 DEF Behind, ChainId
    <2>2. id.gen <= gen' /\ (id.gen = gen' => gen' = gen)
      BY <1>1, <2>1
    <2>3. ASSUME NEW o \in orders', o.auto, o.id.gen = id.gen, o.id.pos = id.pos, o.id.lvl = id.lvl
          PROVE  id.hop <= o.id.hop
      BY <1>2, <1>3, <2>3 DEF Behind
    <2> QED
      BY <2>1, <2>2, <2>3 DEF Behind
  <1> QED
    BY <1>3 DEF Fresh

---------------------------------------------------------------------------
(* The wire and the mail.                                                  *)

LEMMA AppendIndex ==
  ASSUME NEW S, NEW s \in Seq(S), NEW e \in S, NEW a, a = Append(s, e), NEW n, n = Len(s) + 1
  PROVE  /\ n \in DOMAIN a /\ n \notin DOMAIN s /\ a[n] = e
         /\ \A i \in DOMAIN s : i \in DOMAIN a /\ a[i] = s[i] /\ i < n
         /\ \A i \in DOMAIN a : i = n \/ i \in DOMAIN s
         /\ \A i, j \in DOMAIN a : i < j => i \in DOMAIN s
  OBVIOUS

LEMMA TailIndex ==
  ASSUME NEW S, NEW s \in Seq(S), s # <<>>, NEW a, a = Tail(s)
  PROVE  /\ 1 \in DOMAIN s /\ Head(s) = s[1]
         /\ \A i \in DOMAIN a : i + 1 \in DOMAIN s /\ a[i] = s[i + 1] /\ i + 1 # 1
         /\ \A j \in DOMAIN s : j = 1 \/ \E i \in DOMAIN a : j = i + 1
         /\ \A i, j \in DOMAIN a : (i + 1 = j + 1 => i = j) /\ (i < j => i + 1 < j + 1)
         /\ \A j \in DOMAIN s : j # 1 => 1 < j
  <1>1. /\ Len(s) \in Nat /\ Len(s) > 0 /\ DOMAIN s = 1 .. Len(s)
        /\ Len(a) = Len(s) - 1 /\ DOMAIN a = 1 .. Len(s) - 1
    OBVIOUS
  <1>2. 1 \in DOMAIN s /\ Head(s) = s[1]
    BY <1>1
  <1>3. \A i \in DOMAIN a : i + 1 \in DOMAIN s /\ a[i] = s[i + 1] /\ i + 1 # 1
    BY <1>1
  <1>4. ASSUME NEW j \in DOMAIN s, j # 1
        PROVE  1 < j /\ j - 1 \in DOMAIN a /\ j = (j - 1) + 1
    BY <1>1, <1>4
  <1>5. \A i, j \in DOMAIN a : (i + 1 = j + 1 => i = j) /\ (i < j => i + 1 < j + 1)
    BY <1>1
  <1> QED
    BY <1>2, <1>3, <1>4, <1>5

\* A request more.
LEMMA WirePosted ==
  ASSUME wire \in Seq(Requests), NEW q \in Requests, wire' = Append(wire, q)
  PROVE  /\ Wired' = Wired \cup {q}
         /\ \A id : Sent(id)' <=> Sent(id) \/ id \in Unplaced(q)
         /\ OnceOnWire /\ (\A id \in Unplaced(q) : ~Sent(id)) => OnceOnWire'
  <1> DEFINE n == Len(wire) + 1
  <1>1. /\ n \in DOMAIN wire' /\ n \notin DOMAIN wire /\ wire'[n] = q
        /\ \A i \in DOMAIN wire : i \in DOMAIN wire' /\ wire'[i] = wire[i]
        /\ \A i \in DOMAIN wire' : i = n \/ i \in DOMAIN wire
    BY AppendIndex
  <1> HIDE DEF n
  <1>2. Wired' = Wired \cup {q}
    BY <1>1 DEF Wired
  <1>3. \A id : Sent(id)' <=> Sent(id) \/ id \in Unplaced(q)
    BY <1>1 DEF Sent, SentIn
  <1>4. ASSUME OnceOnWire, \A id \in Unplaced(q) : ~Sent(id)
        PROVE  OnceOnWire'
    BY <1>1, <1>4 DEF OnceOnWire, Sent, SentIn
  <1> QED
    BY <1>2, <1>3, <1>4

LEMMA CancelsLastPosted ==
  ASSUME wire \in Seq(Requests), NEW q \in Requests, wire' = Append(wire, q), CancelsLast,
         forgotten \subseteq forgotten', overtaken \subseteq overtaken', unheeded \subseteq unheeded',
         \A r \in Wired : r.op = "cancel" =>
           \A id \in r.ids \cap Unplaced(q) : Stray(id)'
  PROVE  CancelsLast'
  <1> DEFINE n == Len(wire) + 1
  <1>1. /\ wire'[n] = q
        /\ \A i \in DOMAIN wire : wire'[i] = wire[i]
        /\ \A i \in DOMAIN wire' : i = n \/ i \in DOMAIN wire
        /\ \A i, j \in DOMAIN wire' : i < j => i \in DOMAIN wire
    BY AppendIndex
  <1> HIDE DEF n
  <1>2. ASSUME NEW i \in DOMAIN wire', NEW j \in DOMAIN wire', i < j, wire'[i].op = "cancel",
               NEW id \in wire'[i].ids \cap Unplaced(wire'[j])
        PROVE  Stray(id)'
    <2>1. i \in DOMAIN wire /\ wire'[i] = wire[i] /\ wire[i] \in Wired
      BY <1>1, <1>2 DEF Wired
    <2>2. CASE j = n
      BY <1>1, <1>2, <2>1, <2>2
    <2>3. CASE j \in DOMAIN wire
      BY <1>1, <1>2, <2>1, <2>3 DEF CancelsLast, Stray
    <2> QED
      BY <1>1, <2>2, <2>3
  <1> QED
    BY <1>2 DEF CancelsLast, Stray, Unplaced

\* A request less.
LEMMA WirePopped ==
  ASSUME wire \in Seq(Requests), wire # <<>>, wire' = Tail(wire), NEW r, r = Head(wire)
  PROVE  /\ r \in Requests /\ r \in Wired /\ Wired = Wired' \cup {r}
         /\ \A id : Sent(id) <=> Sent(id)' \/ id \in Unplaced(r)
         /\ OnceOnWire => OnceOnWire' /\ \A id \in Unplaced(r) : ~Sent(id)'
         /\ CancelsLast /\ forgotten \subseteq forgotten' /\ overtaken \subseteq overtaken' /\ unheeded \subseteq unheeded' =>
              /\ CancelsLast'
              /\ r.op = "cancel" => \A id \in r.ids : Sent(id)' => Stray(id)
  <1>1. /\ 1 \in DOMAIN wire /\ r = wire[1] /\ r \in Requests
        /\ \A i \in DOMAIN wire' : i + 1 \in DOMAIN wire /\ wire'[i] = wire[i + 1] /\ i + 1 # 1
        /\ \A j \in DOMAIN wire : j = 1 \/ \E i \in DOMAIN wire' : j = i + 1
        /\ \A i, j \in DOMAIN wire' : (i + 1 = j + 1 => i = j) /\ (i < j => i + 1 < j + 1)
        /\ \A j \in DOMAIN wire : j # 1 => 1 < j
    BY TailIndex
  <1>2. r \in Wired /\ Wired = Wired' \cup {r}
    <2>1. ASSUME NEW q \in Wired
          PROVE  q \in Wired' \cup {r}
      BY <1>1 DEF Wired
    <2>2. ASSUME NEW q \in Wired' \cup {r}
          PROVE  q \in Wired
      BY <1>1 DEF Wired
    <2> QED
      BY <2>1, <2>2
  <1>3. \A id : Sent(id) <=> Sent(id)' \/ id \in Unplaced(r)
    BY <1>1 DEF Sent, SentIn
  <1>4. ASSUME OnceOnWire
        PROVE  OnceOnWire' /\ \A id \in Unplaced(r) : ~Sent(id)'
    <2>1. OnceOnWire'
      <3>1. ASSUME NEW id, NEW i \in DOMAIN wire', NEW j \in DOMAIN wire', SentIn(i, id)', SentIn(j, id)'
            PROVE  i + 1 = j + 1
        BY <1>1, <1>4, <3>1 DEF OnceOnWire, SentIn
      <3> QED
        BY <1>1, <3>1 DEF OnceOnWire
    <2>2. \A id \in Unplaced(r) : ~Sent(id)'
      BY <1>1, <1>4 DEF OnceOnWire, Sent, SentIn
    <2> QED
      BY <2>1, <2>2
  <1>5. ASSUME CancelsLast, forgotten \subseteq forgotten', overtaken \subseteq overtaken', unheeded \subseteq unheeded'
        PROVE  /\ CancelsLast'
               /\ r.op = "cancel" => \A id \in r.ids : Sent(id)' => Stray(id)
    <2>1. CancelsLast'
      BY <1>1, <1>5 DEF CancelsLast, Stray
    <2>2. r.op = "cancel" => \A id \in r.ids : Sent(id)' => Stray(id)
      BY <1>1, <1>5 DEF CancelsLast, Sent, SentIn
    <2> QED
      BY <2>1, <2>2
  <1> QED
    BY <1>1, <1>2, <1>3, <1>4, <1>5

\* A message more.
LEMMA MailPosted ==
  ASSUME inbox \in Seq(Messages), NEW m \in Messages, inbox' = Append(inbox, m)
  PROVE  /\ Mail' = Mail \cup {m}
         /\ \A id : Back(id)' <=> Back(id) \/ Holds(m, id)
         /\ OnceInMail /\ (\A id : Holds(m, id) => ~Back(id)) => OnceInMail'
         /\ inbox # <<>> => inbox'[1] = inbox[1]
  <1> DEFINE n == Len(inbox) + 1
  <1>1. /\ n \in DOMAIN inbox' /\ n \notin DOMAIN inbox /\ inbox'[n] = m
        /\ \A i \in DOMAIN inbox : i \in DOMAIN inbox' /\ inbox'[i] = inbox[i]
        /\ \A i \in DOMAIN inbox' : i = n \/ i \in DOMAIN inbox
    BY AppendIndex
  <1> HIDE DEF n
  <1>2. Mail' = Mail \cup {m}
    BY <1>1 DEF Mail
  <1>3. \A id : Back(id)' <=> Back(id) \/ Holds(m, id)
    <2>1. \A id, i : HeldIn(i, id)' <=> Holds(inbox'[i], id)
      BY DEF HeldIn, Holds, Marked, Unplaced
    <2> QED
      BY <1>1, <2>1 DEF Back, HeldIn, Holds, Marked, Unplaced
  <1>4. ASSUME OnceInMail, \A id : Holds(m, id) => ~Back(id)
        PROVE  OnceInMail'
    BY <1>1, <1>4 DEF OnceInMail, Back, HeldIn, Holds, Marked, Unplaced
  <1>5. inbox # <<>> => inbox'[1] = inbox[1]
    OBVIOUS
  <1> QED
    BY <1>2, <1>3, <1>4, <1>5

\* The exchange is heard of: it pushes m, and then, if told, answers n.
Hears(m, n, told) ==
  /\ {m, n} \subseteq Messages /\ m.kind \in Statuses \ {"Empty"} /\ m.again = <<>> /\ m.known = {}
  /\ n.kind \notin Statuses
  /\ inbox' \in IF told THEN {Append(inbox, n), Append(Append(inbox, m), n)}
                ELSE {inbox, Append(inbox, m)}

LEMMA PushIndex ==
  ASSUME NEW s \in Seq(Messages), NEW m \in Messages, NEW a \in {s, Append(s, m)}
  PROVE  /\ a \in Seq(Messages)
         /\ \A i \in DOMAIN s : i \in DOMAIN a /\ a[i] = s[i] /\ i # 0
         /\ \A i \in DOMAIN a : i \in DOMAIN s \/ a[i] = m
         /\ s # <<>> => a # <<>> /\ a[1] = s[1]
  <1>1. \A i \in DOMAIN s : i # 0
    OBVIOUS
  <1>2. CASE a = s
    BY <1>1, <1>2
  <1>3. CASE a = Append(s, m)
    BY <1>1, <1>3
  <1> QED
    BY <1>2, <1>3

LEMMA MailSaid ==
  ASSUME inbox \in Seq(Messages), NEW m, NEW n, NEW told \in BOOLEAN, Hears(m, n, told)
  PROVE  /\ Mail \subseteq Mail' /\ (\A k \in Mail' : k \in Mail \/ k = m \/ (told /\ k = n))
         /\ told => n \in Mail'
         /\ \A id : Back(id)' <=> Back(id) \/ (told /\ Holds(n, id))
         /\ OnceInMail /\ (told => \A id : Holds(n, id) => ~Back(id)) => OnceInMail'
         /\ inbox # <<>> => inbox' # <<>> /\ inbox'[1] = inbox[1]
  <1>1. PICK k : /\ \A i \in DOMAIN inbox : i \in DOMAIN inbox' /\ inbox'[i] = inbox[i] /\ i # k
                 /\ \A i \in DOMAIN inbox' : i \in DOMAIN inbox \/ (i = k /\ told) \/ inbox'[i] = m
                 /\ told => k \in DOMAIN inbox' /\ inbox'[k] = n
                 /\ inbox # <<>> => inbox' # <<>> /\ inbox'[1] = inbox[1]
    <2>1. m \in Messages /\ n \in Messages
      BY DEF Hears
    <2> DEFINE b == inbox'
    <2>2. CASE told
      <3>1. PICK a \in {inbox, Append(inbox, m)} : b = Append(a, n)
        BY <2>2 DEF Hears
      <3> HIDE DEF b
      <3>2. /\ a \in Seq(Messages)
            /\ \A i \in DOMAIN inbox : i \in DOMAIN a /\ a[i] = inbox[i]
            /\ \A i \in DOMAIN a : i \in DOMAIN inbox \/ a[i] = m
            /\ inbox # <<>> => a # <<>> /\ a[1] = inbox[1]
        BY <2>1, PushIndex
      <3> DEFINE k == Len(a) + 1
      <3>3. /\ k \in DOMAIN b /\ k \notin DOMAIN a /\ b[k] = n
            /\ \A i \in DOMAIN a : i \in DOMAIN b /\ b[i] = a[i]
            /\ \A i \in DOMAIN b : i = k \/ i \in DOMAIN a
        BY <2>1, <3>1, <3>2, AppendIndex
      <3>4. a # <<>> => b # <<>> /\ b[1] = a[1]
        BY <2>1, <3>1, <3>2
      <3> HIDE DEF k
      <3>5. /\ \A i \in DOMAIN inbox : i \in DOMAIN b /\ b[i] = inbox[i] /\ i # k
            /\ \A i \in DOMAIN b : i \in DOMAIN inbox \/ i = k \/ b[i] = m
            /\ inbox # <<>> => b # <<>> /\ b[1] = inbox[1]
        BY <3>2, <3>3, <3>4
      <3> QED
        BY <2>2, <3>3, <3>5 DEF b
    <2>3. CASE ~told
      <3>1. b \in {inbox, Append(inbox, m)}
        BY <2>3 DEF Hears
      <3> HIDE DEF b
      <3>2. /\ \A i \in DOMAIN inbox : i \in DOMAIN b /\ b[i] = inbox[i] /\ i # 0
            /\ \A i \in DOMAIN b : i \in DOMAIN inbox \/ b[i] = m
            /\ inbox # <<>> => b # <<>> /\ b[1] = inbox[1]
        BY <2>1, <3>1, PushIndex
      <3> QED
        BY <2>3, <3>2 DEF b
    <2> QED
      BY <2>2, <2>3
  <1>2. \A id : ~Holds(m, id)
    BY DEF Hears, Holds, Refusals, Statuses
  <1>3. \A id, i : HeldIn(i, id)' <=> Holds(inbox'[i], id)
    BY DEF HeldIn, Holds, Marked, Unplaced
  <1>4. \A id, i : i \in DOMAIN inbox => (HeldIn(i, id)' <=> HeldIn(i, id))
    BY <1>1, <1>3 DEF HeldIn
  <1>5. \A id, i : i \in DOMAIN inbox' /\ HeldIn(i, id)' =>
          i \in DOMAIN inbox \/ (i = k /\ told /\ Holds(n, id))
    BY <1>1, <1>2, <1>3
  <1>6. ASSUME NEW id
        PROVE  Back(id)' <=> Back(id) \/ (told /\ Holds(n, id))
    BY <1>1, <1>3, <1>4, <1>5 DEF Back
  <1>7. ASSUME OnceInMail, told => \A id : Holds(n, id) => ~Back(id)
        PROVE  OnceInMail'
    BY <1>1, <1>4, <1>5, <1>7 DEF OnceInMail, Back
  <1>8. /\ Mail \subseteq Mail' /\ (\A j \in Mail' : j \in Mail \/ j = m \/ (told /\ j = n))
        /\ told => n \in Mail'
    BY <1>1 DEF Mail
  <1> QED
    BY <1>1, <1>6, <1>7, <1>8

\* A message less.
LEMMA MailPopped ==
  ASSUME inbox \in Seq(Messages), inbox # <<>>, inbox' = Tail(inbox), NEW m, m = Head(inbox)
  PROVE  /\ m \in Messages /\ m \in Mail /\ m = inbox[1] /\ Mail = Mail' \cup {m}
         /\ \A id : Back(id) <=> Back(id)' \/ Holds(m, id)
         /\ OnceInMail => OnceInMail' /\ \A id : Holds(m, id) => ~Back(id)'
  <1>1. /\ 1 \in DOMAIN inbox /\ m = inbox[1] /\ m \in Messages
        /\ \A i \in DOMAIN inbox' : i + 1 \in DOMAIN inbox /\ inbox'[i] = inbox[i + 1] /\ i + 1 # 1
        /\ \A j \in DOMAIN inbox : j = 1 \/ \E i \in DOMAIN inbox' : j = i + 1
        /\ \A i, j \in DOMAIN inbox' : i + 1 = j + 1 => i = j
    BY TailIndex
  <1>2. m \in Mail /\ Mail = Mail' \cup {m}
    <2>1. ASSUME NEW q \in Mail
          PROVE  q \in Mail' \cup {m}
      BY <1>1 DEF Mail
    <2>2. ASSUME NEW q \in Mail' \cup {m}
          PROVE  q \in Mail
      BY <1>1 DEF Mail
    <2> QED
      BY <2>1, <2>2
  <1>3. ASSUME NEW id
        PROVE  Back(id) <=> Back(id)' \/ Holds(m, id)
    <2>1. \A i \in DOMAIN inbox' : HeldIn(i, id)' <=> HeldIn(i + 1, id)
      BY <1>1 DEF HeldIn, Holds, Marked, Unplaced
    <2>2. HeldIn(1, id) <=> Holds(m, id)
      BY <1>1 DEF HeldIn
    <2> QED
      BY <1>1, <2>1, <2>2 DEF Back
  <1>4. ASSUME OnceInMail
        PROVE  OnceInMail' /\ \A id : Holds(m, id) => ~Back(id)'
    <2>1. OnceInMail'
      <3>1. ASSUME NEW id, NEW i \in DOMAIN inbox', NEW j \in DOMAIN inbox',
                   HeldIn(i, id)', HeldIn(j, id)'
            PROVE  i + 1 = j + 1
        BY <1>1, <1>4, <3>1 DEF OnceInMail, HeldIn, Holds, Marked, Unplaced
      <3> QED
        BY <1>1, <3>1 DEF OnceInMail
    <2>2. \A id : Holds(m, id) => ~Back(id)'
      BY <1>1, <1>4 DEF OnceInMail, Back, HeldIn, Holds, Marked, Unplaced
    <2> QED
      BY <2>1, <2>2
  <1> QED
    BY <1>1, <1>2, <1>3, <1>4

\* An increasing choice of as many as there are leaves none out.
LEMMA NoneLeftOut ==
  ASSUME NEW S \in SUBSET Nat, IsFiniteSet(S), NEW from \in [1 .. Cardinality(S) -> S],
         \A i, j \in DOMAIN from : i < j => from[i] < from[j]
  PROVE  /\ \A i, j \in DOMAIN from : from[i] = from[j] => i = j
         /\ \A k \in S : \E i \in DOMAIN from : from[i] = k
  <1> DEFINE n == Cardinality(S)
  <1>1. n \in Nat
    BY FS_CardinalityType
  <1> HIDE DEF n
  <1>2. from \in [1 .. n -> S]
    BY DEF n
  <1>3. ASSUME NEW i \in 1 .. n, NEW j \in 1 .. n, from[i] = from[j]
        PROVE  i = j
    <2>1. i \in Int /\ j \in Int /\ DOMAIN from = 1 .. n
      <3>1. i \in Int /\ j \in Int
        BY <1>1
      <3> QED
        BY <1>2, <3>1
    <2> DEFINE a == from[i]
               b == from[j]
    <2>3. a \in S /\ b \in S
      BY <1>2
    <2>4. a \in Int /\ b \in Int
      <3>1. S \subseteq Nat
        OBVIOUS
      <3> HIDE DEF a, b
      <3> QED
        BY <2>3, <3>1
    <2>5. (i < j => a < b) /\ (j < i => b < a)
      BY <2>1
    <2>2. ~(i < j) /\ ~(j < i)
      <3>1. a = b
        BY <1>3
      <3> HIDE DEF a, b
      <3> QED
        BY <2>4, <2>5, <3>1
    <2> QED
      BY <2>1, <2>2
  <1>4. from \in Injection(1 .. n, S)
    BY <1>2, <1>3 DEF Injection, IsInjective
  <1>5. Cardinality(1 .. n) = Cardinality(S)
    BY <1>1, FS_Interval DEF n
  <1>6. from \in Surjection(1 .. n, S)
    BY <1>4, <1>5, FS_Injection
  <1> QED
    BY <1>2, <1>3, <1>6 DEF Surjection

\* What a lost connection leaves of the messages.
LEMMA BreakKeepsAnswers ==
  ASSUME inbox \in Seq(Messages), HasMessage, Break
  PROVE  \E f \in [DOMAIN inbox' -> DOMAIN inbox] :
           /\ \A i \in DOMAIN inbox' : inbox'[i] = inbox[f[i]]
           /\ \A i, j \in DOMAIN inbox' : f[i] = f[j] => i = j
           /\ \A k \in DOMAIN inbox : inbox[k].kind \notin Statuses =>
                \E i \in DOMAIN inbox' : f[i] = k
           /\ pc["feed"] = "mark" => inbox' # <<>> /\ inbox'[1] = inbox[1]
  <1>0. PICK handled \in (IF pc["feed"] = "mark" THEN 1 ELSE 0) .. Len(inbox) :
          LET kept == {i \in handled + 1 .. Len(inbox) : inbox[i].kind \notin Statuses}
          IN  \E from \in [1 .. Cardinality(kept) -> kept] :
                /\ \A i, j \in DOMAIN from : i < j => from[i] < from[j]
                /\ inbox' = SubSeq(inbox, 1, handled) \o [i \in DOMAIN from |-> inbox[from[i]]]
    BY DEF Break
  <1> DEFINE kept == {i \in handled + 1 .. Len(inbox) : inbox[i].kind \notin Statuses}
  <1>1. PICK from \in [1 .. Cardinality(kept) -> kept] :
          /\ \A i, j \in DOMAIN from : i < j => from[i] < from[j]
          /\ inbox' = SubSeq(inbox, 1, handled) \o [i \in DOMAIN from |-> inbox[from[i]]]
    BY <1>0
  <1>2. /\ Len(inbox) \in Nat /\ handled \in Nat /\ handled <= Len(inbox)
        /\ DOMAIN inbox = 1 .. Len(inbox) /\ (pc["feed"] = "mark" => handled >= 1)
    BY <1>0
  <1>3. /\ IsFiniteSet(kept) /\ kept \in SUBSET Nat /\ kept \subseteq DOMAIN inbox
        /\ \A k \in kept : k > handled
        /\ \A k \in DOMAIN inbox : k <= handled \/ inbox[k].kind \in Statuses \/ k \in kept
        /\ \A k \in DOMAIN inbox : k \in Nat
    <2>1. IsFiniteSet(handled + 1 .. Len(inbox))
      BY <1>2, FS_Interval
    <2>2. kept \subseteq handled + 1 .. Len(inbox)
      OBVIOUS
    <2>3. IsFiniteSet(kept)
      BY <2>1, <2>2, FS_Subset
    <2> QED
      BY <1>2, <2>3
  <1> DEFINE c == Cardinality(kept)
             first == SubSeq(inbox, 1, handled)
             rest == [i \in DOMAIN from |-> inbox[from[i]]]
  <1>4. c \in Nat
    BY <1>3, FS_CardinalityType
  <1>5. /\ \A i, j \in DOMAIN from : from[i] = from[j] => i = j
        /\ \A k \in kept : \E i \in DOMAIN from : from[i] = k
    BY <1>1, <1>3, NoneLeftOut
  <1>6. first \in Seq(Messages) /\ Len(first) = handled /\ \A i \in 1 .. handled : first[i] = inbox[i]
    BY <1>2
  <1> HIDE DEF kept, first
  <1>7. DOMAIN from = 1 .. c /\ \A i \in 1 .. c : from[i] \in kept
    BY <1>1 DEF c
  <1> HIDE DEF c
  <1>8. /\ rest \in Seq(Messages) /\ Len(rest) = c
        /\ \A i \in 1 .. c : rest[i] = inbox[from[i]]
    <2>1. \A j \in DOMAIN inbox : inbox[j] \in Messages
      OBVIOUS
    <2>2. rest \in [1 .. c -> Messages] /\ \A i \in 1 .. c : rest[i] = inbox[from[i]]
      BY <1>3, <1>7, <2>1
    <2>3. Len(rest) = c /\ rest \in Seq(Messages)
      <3> HIDE DEF rest
      <3> QED
        BY <1>4, <2>2
    <2> QED
      BY <2>2, <2>3
  <1> HIDE DEF rest
  <1>9. inbox' = first \o rest
    BY <1>1 DEF first, rest
  <1>10. /\ DOMAIN inbox' = 1 .. handled + c
         /\ \A i \in 1 .. handled + c :
              inbox'[i] = IF i <= handled THEN first[i] ELSE rest[i - handled]
    <2> DEFINE all == first \o rest
    <2>1. /\ all \in Seq(Messages) /\ Len(all) = Len(first) + Len(rest)
          /\ \A i \in 1 .. Len(first) + Len(rest) :
               all[i] = IF i <= Len(first) THEN first[i] ELSE rest[i - Len(first)]
      BY <1>6, <1>8, Joined
    <2> HIDE DEF all
    <2>2. DOMAIN all = 1 .. Len(all)
      BY <2>1
    <2> QED
      BY <1>6, <1>8, <1>9, <2>1, <2>2 DEF all
  <1> DEFINE f == [i \in DOMAIN inbox' |-> IF i <= handled THEN i ELSE from[i - handled]]
  <1>11. ASSUME NEW i \in DOMAIN inbox'
         PROVE  \/ i <= handled /\ i \in 1 .. handled /\ i \in DOMAIN inbox
                \/ ~(i <= handled) /\ i - handled \in 1 .. c
    BY <1>2, <1>4, <1>10
  <1>12. ASSUME NEW i \in DOMAIN inbox'
         PROVE  f[i] \in DOMAIN inbox /\ inbox'[i] = inbox[f[i]]
    <2>1. CASE i <= handled
      BY <1>6, <1>10, <1>11, <2>1
    <2>2. CASE ~(i <= handled)
      BY <1>3, <1>7, <1>8, <1>10, <1>11, <2>2
    <2> QED
      BY <2>1, <2>2
  <1>13. ASSUME NEW i \in DOMAIN inbox', NEW j \in DOMAIN inbox', f[i] = f[j]
         PROVE  i = j
    <2>1. i \in Nat /\ j \in Nat /\ handled \in Nat
      BY <1>2, <1>4, <1>10
    <2>2. CASE i <= handled /\ j <= handled
      BY <1>13, <2>2
    <2>3. CASE ~(i <= handled) /\ ~(j <= handled)
      <3>1. from[i - handled] = from[j - handled] /\ i - handled \in 1 .. c /\ j - handled \in 1 .. c
        BY <1>11, <1>13, <2>3
      <3>2. i - handled = j - handled
        BY <1>5, <1>7, <3>1
      <3> QED
        BY <2>1, <3>2
    <2>4. CASE (i <= handled) # (j <= handled)
      <3>1. ASSUME NEW k \in DOMAIN inbox', ~(k <= handled)
            PROVE  f[k] > handled
        BY <1>3, <1>7, <1>11, <3>1
      <3> QED
        BY <1>13, <2>1, <2>4, <3>1
    <2> QED
      BY <2>2, <2>3, <2>4
  <1>14. ASSUME NEW k \in DOMAIN inbox, inbox[k].kind \notin Statuses
         PROVE  \E i \in DOMAIN inbox' : f[i] = k
    <2>1. CASE k <= handled
      <3>1. k \in DOMAIN inbox'
        BY <1>2, <1>4, <1>10, <2>1
      <3> QED
        BY <2>1, <3>1
    <2>2. CASE k \in kept
      <3>1. PICK i \in 1 .. c : from[i] = k
        BY <1>5, <1>7, <2>2
      <3>2. i + handled \in DOMAIN inbox' /\ ~(i + handled <= handled) /\ (i + handled) - handled = i
        BY <1>2, <1>4, <1>10
      <3>3. f[i + handled] = k
        BY <3>1, <3>2
      <3> QED
        BY <3>2, <3>3
    <2>3. k <= handled \/ k \in kept
      BY <1>3, <1>14
    <2> QED
      BY <2>1, <2>2, <2>3
  <1>15. ASSUME pc["feed"] = "mark"
         PROVE  inbox' # <<>> /\ inbox'[1] = inbox[1]
    <2>1. handled \in Nat /\ handled >= 1
      BY <1>2, <1>15
    <2>2. 1 \in DOMAIN inbox' /\ 1 <= handled
      BY <1>4, <1>10, <2>1
    <2>3. f[1] = 1
      BY <2>2
    <2> QED
      BY <1>12, <2>2, <2>3
  <1>16. f \in [DOMAIN inbox' -> DOMAIN inbox]
    BY <1>12
  <1> HIDE DEF f
  <1> QED
    BY <1>12, <1>13, <1>14, <1>15, <1>16

LEMMA MailBroken ==
  ASSUME inbox \in Seq(Messages), HasMessage, Break
  PROVE  /\ Mail' \subseteq Mail
         /\ \A m \in Mail : m.kind \notin Statuses => m \in Mail'
         /\ \A id : Back(id)' <=> Back(id)
         /\ OnceInMail => OnceInMail'
         /\ pc["feed"] = "mark" => inbox' # <<>> /\ inbox'[1] = inbox[1]
  <1>1. PICK f \in [DOMAIN inbox' -> DOMAIN inbox] :
           /\ \A i \in DOMAIN inbox' : inbox'[i] = inbox[f[i]]
           /\ \A i, j \in DOMAIN inbox' : f[i] = f[j] => i = j
           /\ \A k \in DOMAIN inbox : inbox[k].kind \notin Statuses =>
                \E i \in DOMAIN inbox' : f[i] = k
           /\ pc["feed"] = "mark" => inbox' # <<>> /\ inbox'[1] = inbox[1]
    BY BreakKeepsAnswers
  <1>2. \A i \in DOMAIN inbox' : f[i] \in DOMAIN inbox
    BY <1>1
  <1>3. Mail' \subseteq Mail /\ \A m \in Mail : m.kind \notin Statuses => m \in Mail'
    BY <1>1, <1>2 DEF Mail
  <1>4. ASSUME NEW id
        PROVE  Back(id)' <=> Back(id)
    <2>1. \A k \in DOMAIN inbox : Holds(inbox[k], id) => inbox[k].kind \notin Statuses
      BY DEF HeldIn, Holds, Refusals, Statuses
    <2> QED
      BY <1>1, <1>2, <2>1 DEF Back, HeldIn, Holds, Marked, Unplaced
  <1>5. ASSUME OnceInMail
        PROVE  OnceInMail'
    BY <1>1, <1>2, <1>5 DEF OnceInMail, HeldIn, Holds, Marked, Unplaced
  <1> QED
    BY <1>1, <1>3, <1>4, <1>5

\* The requests under way, as the wire and the mail have them.
LEMMA PendingIs ==
  ASSUME MailInShape, NEW r
  PROVE  r \in Pending <=> Under(r)
  <1>1. ASSUME NEW i \in DOMAIN inbox
        PROVE  r \in {inbox[i].again[k] : k \in DOMAIN inbox[i].again}
                 <=> inbox[i].kind = "busy" /\ r = inbox[i].again[1]
    <2>1. inbox[i] \in Mail
      BY DEF Mail
    <2>2. CASE inbox[i].kind = "busy"
      <3>1. PICK q : inbox[i].again = <<q>>
        BY <2>1, <2>2 DEF MailInShape
      <3>2. DOMAIN <<q>> = {1} /\ <<q>>[1] = q
        OBVIOUS
      <3> QED
        BY <2>2, <3>1, <3>2
    <2>3. CASE inbox[i].kind # "busy"
      <3>1. inbox[i].again = <<>>
        BY <2>1, <2>3 DEF MailInShape
      <3>2. DOMAIN inbox[i].again = {}
        BY <3>1
      <3> QED
        BY <2>3, <3>2
    <2> QED
      BY <2>2, <2>3
  <1> QED
    BY <1>1 DEF Pending, Wired, Mail, Under

---------------------------------------------------------------------------
(* What the steps of the system come to.                                   *)

Unmoved == UNCHANGED <<wire, inbox, exchange, forgotten, overtaken, unheeded>>
Elsewhere(t) == \A u \in Threads \ {t} : pc'[u] = pc[u] /\ todo'[u] = todo[u]

\* Nothing of what matters here.
Rests ==
  /\ Unmoved /\ UNCHANGED <<orders, pc, todo, closing, stranded>>
  /\ count'.tests = 0 => count.tests = 0

\* A thread turns to something else, with nothing left to send.
Idles(t) ==
  /\ Unmoved /\ Elsewhere(t) /\ UNCHANGED <<orders, closing, stranded>> /\ count'.tests = count.tests
  /\ pc[t] \notin {"cancel", "closeout", "mark"} /\ (pc[t] = "send" => todo[t] = {})
  /\ pc'[t] \notin {"send", "cancel"}
  /\ \A id \in todo'[t] : Named(id)
  /\ t = "feed" /\ pc'[t] = "mark" =>
       inbox # <<>> /\ todo'[t] = Marked(inbox[1]) /\ inbox[1].kind # "answer"
  /\ t = "check" /\ pc'[t] = "markfilled" => todo'[t] \cap Ids(orders) \subseteq filled \cup part

\* A thread puts new orders on the grid and drops those that are done.
Grows(t, new) ==
  /\ Unmoved /\ Elsewhere(t) /\ UNCHANGED <<closing, stranded>>
  /\ orders' = Kept \cup new
  /\ \A o \in new : o.status = "Live" /\ ~Named(o.id)
  /\ pc[t] \in {"idle", "pass"}
  /\ \/ pc'[t] = "send" /\ todo'[t] = Ids(new) /\ count'.tests = count.tests
     \/ pc'[t] = "closeout" /\ todo'[t] = todo[t] /\ count'.tests = count.tests
     \/ pc'[t] = pc[t] /\ todo'[t] = todo[t] /\ count'.tests # 0
  /\ Turns => \A o \in new : (IsExit(o) <=> ~Opens(o.id)) /\ (~IsExit(o) => o.auto)
  /\ 1 \notin GridCounts =>
       \A o \in orders : o.status = "Filled" /\ o.auto => \E q \in new : q.id = Closer(o.id)

Remarked(id, status) ==
  {IF o.id = id /\ o.status # "Canceled" THEN [o EXCEPT !.status = status] ELSE o : o \in orders}

\* A thread marks an order.
Marks(t, id, status) ==
  /\ Unmoved /\ UNCHANGED <<pc, closing, stranded>> /\ count'.tests = count.tests
  /\ orders' = Remarked(id, status)
  /\ id \in todo[t] /\ todo' = [todo EXCEPT ![t] = @ \ {id}]
  /\ status \in Statuses \ {"Empty"}
  /\ \/ t = "feed" /\ pc[t] = "mark" /\ status = StatusOf(inbox[1])
     \/ t = "check" /\ pc[t] = "markfilled" /\ status = "Filled"

Amended(A) == {IF o \in A THEN [o EXCEPT !.auto = FALSE] ELSE o : o \in orders}

\* Exits are given up.
Amends(A) ==
  /\ Unmoved /\ UNCHANGED <<pc, todo, closing, stranded>> /\ count'.tests = count.tests
  /\ (\A o \in A : IsExit(o)) /\ orders' = Amended(A)

\* The grid is dropped, its live orders to be cancelled.
Clears(t, B) ==
  /\ Unmoved /\ Elsewhere(t) /\ count'.tests = count.tests
  /\ orders' = {}
  /\ pc[t] = "closeout" /\ pc'[t] = "cancel"
  /\ todo'[t] = Ids(Cancelled) /\ closing' = [closing EXCEPT ![t] = B] /\ B \subseteq Ids(Closable)
  /\ stranded' = stranded \cup Ids({o \in orders : ~IsExit(o)}) \cup OpenersOf(Ids(Closable) \ B)

Offline == UNCHANGED <<orders, exchange, stranded, unheeded>> /\ count'.tests = count.tests

SendsBatch(t, B) ==
  /\ Offline /\ UNCHANGED <<pc, closing, inbox, forgotten>>
  /\ pc[t] = "send" /\ B \in SUBSET todo[t] /\ todo' = [todo EXCEPT ![t] = @ \ B]
  /\ wire' = Append(wire, Request("place", B, {}))
  /\ overtaken' = overtaken \cup (B \ Ids(orders))

CancelsBatch(t, B) ==
  /\ Offline /\ UNCHANGED <<pc, closing, inbox, forgotten, overtaken, unheeded>>
  /\ pc[t] = "cancel" /\ B \in SUBSET todo[t] /\ todo' = [todo EXCEPT ![t] = @ \ B]
  /\ wire' = Append(wire, Request("cancel", B, closing[t]))

CancelsDone(t) ==
  /\ Offline /\ UNCHANGED <<todo, inbox, forgotten, overtaken, unheeded>>
  /\ pc[t] = "cancel" /\ todo[t] = {} /\ pc' = [pc EXCEPT ![t] = "idle"]
  /\ LetGo(closing[t], t, 0) /\ closing' = [closing EXCEPT ![t] = {}]

TakesAnswer ==
  /\ Offline /\ UNCHANGED <<pc, todo, closing, forgotten, overtaken, unheeded>>
  /\ pc["feed"] = "idle" /\ inbox # <<>> /\ Head(inbox).kind = "answer"
  /\ LetGo(Head(inbox).ids, "feed", 1) /\ inbox' = Tail(inbox)

Subscribes ==
  /\ Offline /\ UNCHANGED <<pc, todo, closing, inbox, forgotten, overtaken>>
  /\ wire' = Append(wire, Request("sub", {}, {}))

LEMMA StatusesTold ==
  ASSUME MailInShape, inbox # <<>>, inbox \in Seq(Messages)
  PROVE  Head(inbox) = inbox[1] /\ StatusOf(inbox[1]) \in Statuses \ {"Empty"}
  <1>1. inbox[1] \in Mail /\ Head(inbox) = inbox[1]
    BY DEF Mail
  <1> QED
    BY <1>1 DEF MailInShape, StatusOf, Statuses

LEMMA MarkRemarks ==
  ASSUME NEW id, NEW status, Mark(id, status)
  PROVE  orders' = Remarked(id, status)
  <1>1. CASE \E o \in orders : o.id = id /\ o.status # "Canceled"
    BY <1>1 DEF Mark, SetStatus, Remarked
  <1>2. CASE ~\E o \in orders : o.id = id /\ o.status # "Canceled"
    <2>1. orders' = orders
      BY <1>2 DEF Mark, vars
    <2>2. Remarked(id, status) = orders
      BY <1>2 DEF Remarked
    <2> QED
      BY <2>1, <2>2
  <1> QED
    BY <1>1, <1>2

LEMMA OpensTurns ==
  ASSUME NEW id \in ChainId
  PROVE  Closer(id) \in ChainId /\ (Opens(Closer(id)) <=> ~Opens(id))
  BY DEF Closer, Opens, ChainId

\* What a pass puts on the grid takes its turn, and answers every fill.
LEMMA PlacedInTurn ==
  ASSUME GridInv, Fresh, UpdateGrid
  PROVE  /\ orders' = Kept \cup Placed
         /\ \A o \in Placed : o.status = "Live" /\ ~Named(o.id)
         /\ Turns => \A o \in Placed : (IsExit(o) <=> ~Opens(o.id)) /\ (~IsExit(o) => o.auto)
         /\ option # 1 =>
              \A o \in orders : o.status = "Filled" /\ o.auto => \E q \in Placed : q.id = Closer(o.id)
  <1>1. orders' = Kept \cup Placed /\ size > 0
    BY DEF UpdateGrid
  <1>2. ASSUME NEW o \in Placed
        PROVE  ~Named(o.id)
    BY <1>1, PlacedIsNew
  <1>3. ASSUME NEW p \in Countered
        PROVE  LET o == CounterOrder(p)
               IN  /\ p \in orders /\ p.id \in ChainId
                   /\ o.status = "Live" /\ o.auto /\ (IsExit(o) <=> ~IsExit(p)) /\ o.id = Closer(p.id)
    <2>1. p \in orders /\ p.id \in ChainId
      BY DEF Countered, AutoFilled, GridInv, TypeOK, Order
    <2>2. /\ CounterOrder(p).status = "Live" /\ CounterOrder(p).auto
          /\ IsExit(CounterOrder(p)) <=> ~IsExit(p)
      BY <2>1, CounterOrderFits
    <2>3. CounterOrder(p).id = Closer(p.id)
      BY DEF CounterOrder, NewOrder, Closer
    <2> QED
      BY <2>1, <2>2, <2>3
  <1>4. ASSUME NEW pos \in Pos, NEW l \in Armed(pos)
        PROVE  LET o == EntryOrder(gen, pos, l)
               IN  o.status = "Live" /\ o.auto /\ ~IsExit(o) /\ Opens(o.id)
    BY DEF EntryOrder, NewOrder, IsExit, Opens
  <1>5. ASSUME NEW o \in Placed
        PROVE  \/ \E p \in Countered : o = CounterOrder(p)
               \/ \E pos \in Pos : \E l \in Armed(pos) : o = EntryOrder(gen, pos, l)
    BY DEF Placed, Pos
  <1>6. \A o \in Placed : o.status = "Live"
    BY <1>3, <1>4, <1>5
  <1>7. ASSUME Turns, NEW o \in Placed
        PROVE  (IsExit(o) <=> ~Opens(o.id)) /\ (~IsExit(o) => o.auto)
    <2>1. ASSUME NEW p \in Countered, o = CounterOrder(p)
          PROVE  (IsExit(o) <=> ~Opens(o.id)) /\ o.auto
      <3>1. IsExit(p) <=> ~Opens(p.id)
        BY <1>3, <1>7 DEF Turns
      <3>2. Opens(Closer(p.id)) <=> ~Opens(p.id)
        BY <1>3, OpensTurns
      <3> QED
        BY <1>3, <2>1, <3>1, <3>2
    <2> QED
      BY <1>4, <1>5, <2>1
  <1>8. ASSUME option # 1, NEW o \in orders, o.status = "Filled", o.auto
        PROVE  \E q \in Placed : q.id = Closer(o.id)
    <2>1. o \in Countered
      BY <1>8, CounterLevelInGrid DEF Countered, AutoFilled
    <2> QED
      BY <1>3, <2>1 DEF Placed
  <1> QED
    BY <1>1, <1>2, <1>6, <1>7, <1>8

\* The names of a state are chain ids.
NamesTyped == \A id : Named(id) => id \in ChainId

LEMMA NamesAreTyped ==
  SysTypeOK /\ MailInShape => NamesTyped
  <1> SUFFICES ASSUME SysTypeOK, MailInShape, NEW id, Named(id)
               PROVE  id \in ChainId
    BY DEF NamesTyped
  <1>1. /\ orders \subseteq Order /\ wire \in Seq(Requests) /\ inbox \in Seq(Messages)
        /\ todo \in [Threads -> SUBSET ChainId] /\ closing \in [Threads -> SUBSET ChainId]
        /\ live \subseteq ChainId /\ part \subseteq ChainId /\ filled \subseteq ChainId
        /\ closed \subseteq ChainId
    BY DEF SysTypeOK, TypeOK
  <1>2. ASSUME NEW r \in Requests, RequestNames(r, id)
        PROVE  id \in ChainId
    BY <1>2 DEF Requests, RequestNames
  <1>3. Wired \subseteq Requests /\ Mail \subseteq Messages
    BY <1>1 DEF Wired, Mail
  <1>4. ASSUME NEW m \in Mail, MessageNames(m, id)
        PROVE  id \in ChainId
    <2>1. m.ids \subseteq ChainId /\ m.known \subseteq ChainId
      BY <1>3 DEF Messages
    <2>2. ASSUME m.kind = "busy"
          PROVE  m.again[1] \in Requests
      BY <2>2 DEF MailInShape
    <2> QED
      BY <1>2, <1>4, <2>1, <2>2 DEF MessageNames
  <1> QED
    BY <1>1, <1>2, <1>3, <1>4 DEF Named, Order

---------------------------------------------------------------------------
(* The steps of the threads.                                               *)

LEMMA PassKind ==
  ASSUME Known, Fresh, SysInv, NEW t \in Threads, Pass(t)
  PROVE  Idles(t) \/ \E new : Grows(t, new)
  <1>1. /\ Unmoved /\ UNCHANGED <<closing, stranded, count>> /\ Elsewhere(t) /\ pc[t] = "pass"
        /\ pc \in [Threads -> Steps] /\ todo \in [Threads -> SUBSET ChainId]
    BY DEF Pass, Goto, Known, SysTypeOK, Unmoved, Elsewhere, network, exchange, history
  <1>2. CASE pc'[t] = "idle" /\ UNCHANGED <<vars, todo>>
    BY <1>1, <1>2 DEF Idles, vars, Named
  <1>3. ASSUME UpdateGrid,
               \/ pc'[t] = "send" /\ todo'[t] = Ids(Placed)
               \/ pc'[t] = "closeout" /\ todo'[t] = todo[t]
        PROVE  Grows(t, Placed)
    <2>1. 1 \notin GridCounts => option # 1
      BY <1>3 DEF SysInv, OptionIsMeant, UpdateGrid
    <2> QED
      BY <1>1, <1>3, <2>1, PlacedInTurn DEF Grows, Known
  <1> QED
    BY <1>1, <1>2, <1>3 DEF Pass, Goto

LEMMA SendKind ==
  ASSUME Known, NEW t \in Threads, Send(t)
  PROVE  Idles(t) \/ \E B : SendsBatch(t, B)
  <1>1. /\ pc \in [Threads -> Steps] /\ todo \in [Threads -> SUBSET ChainId]
        /\ UNCHANGED <<orders, closing, inbox, exchange, forgotten, unheeded, stranded, count>> /\ pc[t] = "send"
    BY DEF Send, Known, SysTypeOK, vars, exchange
  <1>2. CASE todo[t] = {}
    BY <1>1, <1>2 DEF Send, Idles, Unmoved, Elsewhere, exchange, Goto
  <1>3. ASSUME NEW B \in Batches(todo[t]), UNCHANGED pc,
               wire' = Append(wire, Request("place", B, {})),
               todo' = [todo EXCEPT ![t] = @ \ B],
               overtaken' = overtaken \cup (B \ Ids(orders))
        PROVE  SendsBatch(t, B)
    <2>1. B \in SUBSET todo[t]
      BY BatchWithin
    <2> QED
      BY <1>1, <1>3, <2>1 DEF SendsBatch, Offline
  <1> QED
    BY <1>2, <1>3 DEF Send

LEMMA ClearKind ==
  ASSUME Known, NEW t \in Threads, Clear(t)
  PROVE  \E B : Clears(t, B)
  <1>1. /\ pc \in [Threads -> Steps] /\ todo \in [Threads -> SUBSET ChainId]
        /\ Unmoved /\ Elsewhere(t) /\ count' = count /\ orders' = {}
        /\ pc[t] = "closeout" /\ pc'[t] = "cancel" /\ todo'[t] = Ids(Cancelled)
    BY DEF Clear, ClearGrid, NoGrid, Goto, Known, SysTypeOK, Unmoved, Elsewhere, network, exchange
  <1>2. PICK B \in Batches(Ids(Closable)) :
          /\ closing' = [closing EXCEPT ![t] = B]
          /\ stranded' = stranded \cup Ids({o \in orders : ~IsExit(o)}) \cup OpenersOf(Ids(Closable) \ B)
    BY DEF Clear
  <1>3. B \subseteq Ids(Closable)
    BY BatchWithin
  <1> QED
    BY <1>1, <1>2, <1>3 DEF Clears

LEMMA CancelKind ==
  ASSUME Known, NEW t \in Threads, Cancel(t)
  PROVE  CancelsDone(t) \/ \E B : CancelsBatch(t, B)
  <1>1. UNCHANGED <<orders, inbox, exchange, forgotten, overtaken, unheeded, stranded, count>> /\ pc[t] = "cancel"
    BY DEF Cancel, vars, history, exchange
  <1>2. CASE todo[t] = {}
    BY <1>1, <1>2 DEF Cancel, CancelsDone, Offline, Goto
  <1>3. ASSUME NEW B \in Batches(todo[t]), UNCHANGED <<pc, closing>>,
               wire' = Append(wire, Request("cancel", B, closing[t])),
               todo' = [todo EXCEPT ![t] = @ \ B]
        PROVE  CancelsBatch(t, B)
    <2>1. B \in SUBSET todo[t]
      BY BatchWithin
    <2> QED
      BY <1>1, <1>3, <2>1 DEF CancelsBatch, Offline
  <1> QED
    BY <1>2, <1>3 DEF Cancel

LEMMA StartKind ==
  ASSUME Known, Fresh, NEW t \in Threads, NEW n \in GridCounts, Start(t, n), pc[t] = "idle",
         UNCHANGED history
  PROVE  Idles(t) \/ \E new : Grows(t, new)
  <1>1. /\ Unmoved /\ UNCHANGED <<closing, stranded, count>> /\ Elsewhere(t)
        /\ pc \in [Threads -> Steps] /\ todo \in [Threads -> SUBSET ChainId]
    BY DEF Start, Goto, Known, SysTypeOK, Unmoved, Elsewhere, network, exchange, history
  <1>2. CASE UNCHANGED <<orders, todo>> /\ pc'[t] = "idle"
    BY <1>1, <1>2 DEF Idles, Named
  <1>3. ASSUME StartGridOk(n), todo'[t] = Ids(orders'), pc'[t] = "send"
        PROVE  \E new : Grows(t, new)
    <2>1. /\ orders = {}
          /\ \A o \in orders' : /\ ~Named(o.id) /\ o.status = "Live" /\ o.auto /\ ~IsExit(o)
                                /\ o.id \in ChainId /\ o.id.hop = 0
      BY <1>3, StartIsFresh DEF Known
    <2>2. Kept = {}
      BY <2>1 DEF Kept
    <2>3. \A o \in orders' : Opens(o.id)
      BY <2>1 DEF Opens
    <2>4. \A new : new = orders' => Grows(t, new)
      BY <1>1, <1>3, <2>1, <2>2, <2>3 DEF Grows
    <2> QED
      BY <2>4
  <1>4. \/ UNCHANGED <<orders, todo>> /\ pc'[t] = "idle"
        \/ StartGridOk(n) /\ todo'[t] = Ids(orders') /\ pc'[t] = "send"
    BY <1>1 DEF Start, Goto, StartGridFails, vars
  <1> QED
    BY <1>2, <1>3, <1>4

LEMMA TestKind ==
  ASSUME Known, Fresh, NEW n \in GridCounts, ConsoleTest(n)
  PROVE  Rests \/ \E new : Grows("console", new)
  <1>1. /\ Unmoved /\ UNCHANGED <<pc, todo, closing, stranded>> /\ pc["console"] = "idle"
        /\ count'.tests # 0
    BY DEF ConsoleTest, Known, SysTypeOK, Counts, Unmoved, network, exchange
  <1>2. CASE StartGridFails(n)
    BY <1>1, <1>2 DEF StartGridFails, Rests
  <1>3. CASE StartGridOk(n)
    <2>1. /\ orders = {}
          /\ \A o \in orders' : /\ ~Named(o.id) /\ o.status = "Live" /\ o.auto /\ ~IsExit(o)
                                /\ o.id \in ChainId /\ o.id.hop = 0
      BY <1>3, StartIsFresh DEF Known
    <2>2. Kept = {}
      BY <2>1 DEF Kept
    <2>3. \A o \in orders' : Opens(o.id)
      BY <2>1 DEF Opens
    <2>4. \A new : new = orders' => Grows("console", new)
      BY <1>1, <2>1, <2>2, <2>3 DEF Grows, Elsewhere
    <2> QED
      BY <2>4
  <1> QED
    BY <1>2, <1>3 DEF ConsoleTest

LEMMA TestsCounted ==
  ASSUME count \in Counts, NEW n
  PROVE  /\ [count EXCEPT !.partials = @ + 1].tests = count.tests
         /\ [count EXCEPT !.refused = @ + n].tests = count.tests
         /\ [count EXCEPT !.refused = @ + n, !.busy = @ + 1].tests = count.tests
         /\ [count EXCEPT !.refused = @ + 1].tests = count.tests
         /\ [count EXCEPT !.busy = @ + 1].tests = count.tests
         /\ [count EXCEPT !.breaks = @ + 1].tests = count.tests
         /\ [count EXCEPT !.stops = @ + 1].tests = count.tests
  BY DEF Counts

LEMMA ReceiveKind ==
  ASSUME Known, Receive
  PROVE  TakesAnswer \/ Idles("feed")
  <1>1. /\ pc \in [Threads -> Steps] /\ todo \in [Threads -> SUBSET ChainId]
        /\ inbox \in Seq(Messages) /\ "feed" \in Threads
        /\ UNCHANGED <<orders, closing, exchange, forgotten, overtaken, unheeded, stranded, count>>
        /\ pc["feed"] = "idle" /\ inbox # <<>>
    BY DEF Receive, Known, SysTypeOK, vars, history, Threads
  <1>2. CASE Head(inbox).kind = "answer"
    BY <1>1, <1>2 DEF Receive, TakesAnswer, Offline
  <1>3. CASE Head(inbox).kind # "answer"
    <2>1. /\ UNCHANGED <<wire, inbox>> /\ pc' = [pc EXCEPT !["feed"] = "mark"]
          /\ todo' = [todo EXCEPT !["feed"] = Marked(Head(inbox))]
      BY <1>3 DEF Receive, Goto
    <2>2. Head(inbox) = inbox[1] /\ inbox[1] \in Mail
      BY <1>1 DEF Mail
    <2>3. \A id \in Marked(inbox[1]) : Named(id)
      BY <2>2 DEF Marked, Named, MessageNames
    <2>4. Elsewhere("feed") /\ pc'["feed"] = "mark" /\ todo'["feed"] = Marked(inbox[1])
      BY <1>1, <2>1, <2>2 DEF Elsewhere
    <2> QED
      BY <1>1, <1>3, <2>1, <2>2, <2>3, <2>4 DEF Idles, Unmoved
  <1> QED
    BY <1>2, <1>3

LEMMA MarkOneKind ==
  ASSUME Known, NEW t \in Threads, NEW status \in Statuses \ {"Empty"},
         MarkOne(t, status), Unmoved, UNCHANGED <<pc, closing, stranded, count>>,
         \/ t = "feed" /\ pc[t] = "mark" /\ status = StatusOf(inbox[1])
         \/ t = "check" /\ pc[t] = "markfilled" /\ status = "Filled"
  PROVE  \E id : Marks(t, id, status)
  <1>1. PICK id \in todo[t] : Mark(id, status) /\ todo' = [todo EXCEPT ![t] = @ \ {id}]
    BY DEF MarkOne
  <1>2. orders' = Remarked(id, status)
    BY <1>1, MarkRemarks
  <1> QED
    BY <1>1, <1>2 DEF Marks

LEMMA MarkFeedKind ==
  ASSUME Known, MarkFeed
  PROVE  \E id, status : Marks("feed", id, status)
  <1>1. inbox \in Seq(Messages) /\ inbox # <<>> /\ MailInShape /\ "feed" \in Threads
    BY DEF Known, SysTypeOK, HasMessage, MarkFeed, Threads
  <1>2. /\ StatusOf(inbox[1]) \in Statuses \ {"Empty"}
        /\ Head(inbox) = inbox[1]
    BY <1>1, StatusesTold
  <1>3. /\ Unmoved /\ UNCHANGED <<pc, closing, stranded, count>> /\ pc["feed"] = "mark"
        /\ MarkOne("feed", StatusOf(inbox[1]))
    BY <1>2 DEF MarkFeed, Unmoved, network, history
  <1> QED
    BY <1>1, <1>2, <1>3, MarkOneKind

LEMMA MarkedWithin ==
  ASSUME NEW S, NEW n, NEW B \in Some(S, n)
  PROVE  B \subseteq S
  BY DEF Some

LEMMA CheckerKind ==
  ASSUME Known, Checker
  PROVE  Idles("check") \/ \E id, status : Marks("check", id, status)
  <1>1. /\ pc \in [Threads -> Steps] /\ todo \in [Threads -> SUBSET ChainId] /\ "check" \in Threads
        /\ Unmoved /\ UNCHANGED <<closing, stranded, count>>
    BY DEF Checker, Check, Query, MarkCheck, Known, SysTypeOK, Unmoved, network, history, Threads
  <1>2. \A id \in todo["check"] : Named(id)
    BY <1>1 DEF Named
  <1>3. CASE Check
    BY <1>1, <1>2, <1>3 DEF Check, Goto, vars, Idles, Elsewhere
  <1>4. CASE Query
    <2>1. /\ pc["check"] = "query" /\ UNCHANGED orders /\ Elsewhere("check")
      BY <1>1, <1>4 DEF Query, Goto, vars, Elsewhere
    <2>2. CASE pc'["check"] = "idle" /\ UNCHANGED todo
      BY <1>1, <1>2, <2>1, <2>2 DEF Idles
    <2>3. ASSUME NEW listed \in Some(filled \cup part, FillsListed), pc'["check"] = "markfilled",
                 todo' = [todo EXCEPT !["check"] = listed \cap Ids(orders)]
          PROVE  Idles("check")
      <3>1. listed \subseteq filled \cup part
        BY MarkedWithin
      <3>2. \A id \in listed : Named(id)
        BY <3>1 DEF Named
      <3> QED
        BY <1>1, <2>1, <2>3, <3>1, <3>2 DEF Idles
    <2> QED
      BY <1>1, <1>4, <2>2, <2>3 DEF Query, Goto
  <1>5. CASE MarkCheck
    <2>1. CASE MarkOne("check", "Filled") /\ UNCHANGED pc
      <3>1. "Filled" \in Statuses \ {"Empty"} /\ pc["check"] = "markfilled"
        BY <1>5 DEF Statuses, MarkCheck
      <3>2. \E id : Marks("check", id, "Filled")
        BY <1>1, <2>1, <3>1, MarkOneKind
      <3> QED
        BY <3>2
    <2>2. CASE UNCHANGED <<vars, todo>> /\ pc' = [pc EXCEPT !["check"] = "pass"]
      BY <1>1, <1>2, <1>5, <2>2 DEF MarkCheck, vars, Idles, Elsewhere
    <2> QED
      BY <1>5, <2>1, <2>2 DEF MarkCheck, Goto
  <1> QED
    BY <1>3, <1>4, <1>5 DEF Checker

LEMMA AmendKind ==
  ASSUME Amend
  PROVE  \E A : Amends(A) /\ GiveUp(A)
  <1>1. PICK A \in SUBSET (LiveExits("Long") \cup LiveExits("Short")) : GiveUp(A)
    BY DEF Amend, CheckLongUnfilledOrder
  <1>2. \A o \in A : IsExit(o)
    BY DEF LiveExits
  <1> QED
    BY <1>1, <1>2 DEF Amend, GiveUp, Amends, Amended, Unmoved, sysVars, network, history

LEMMA ConsoleKind ==
  ASSUME Known, Fresh, SysInv,
         ConsoleStop \/ Rebuild \/ \E n \in GridCounts : ConsoleStart(n) \/ ConsoleTest(n)
  PROVE  Rests \/ \E t \in Threads : Idles(t) \/ \E new : Grows(t, new)
  <1>1. "console" \in Threads /\ "rebuild" \in Threads
    BY DEF Threads
  <1>2. CASE ConsoleStop
    <2>1. count'.tests = count.tests
      BY <1>2, TestsCounted DEF ConsoleStop, Known, SysTypeOK
    <2>2. pc \in [Threads -> Steps] /\ todo \in [Threads -> SUBSET ChainId]
      BY DEF Known, SysTypeOK
    <2>3. Idles("console")
      BY <1>1, <1>2, <2>1, <2>2 DEF ConsoleStop, Goto, vars, Idles, Elsewhere, Unmoved, network, Named
    <2> QED
      BY <1>1, <2>3
  <1>3. CASE Rebuild
    <2>1. option \in GridCounts
      BY <1>3 DEF Rebuild, SysInv, OptionIsMeant
    <2>2. pc["rebuild"] = "idle" /\ Start("rebuild", option) /\ UNCHANGED history
      BY <1>3 DEF Rebuild
    <2>3. \A n \in GridCounts : Start("rebuild", n) =>
            Idles("rebuild") \/ \E new : Grows("rebuild", new)
      BY <1>1, <2>2, StartKind
    <2> QED
      BY <1>1, <2>1, <2>2, <2>3
  <1>4. ASSUME NEW n \in GridCounts, ConsoleStart(n)
        PROVE  \E t \in Threads : Idles(t) \/ \E new : Grows(t, new)
    BY <1>1, <1>4, StartKind DEF ConsoleStart
  <1>5. ASSUME NEW n \in GridCounts, ConsoleTest(n)
        PROVE  Rests \/ \E t \in Threads : Idles(t) \/ \E new : Grows(t, new)
    BY <1>1, <1>5, TestKind
  <1> QED
    BY <1>2, <1>3, <1>4, <1>5

LEMMA RestKind ==
  ASSUME Connect \/ UNCHANGED allVars
  PROVE  Rests
  <1>1. CASE Connect
    BY <1>1 DEF Connect, Rests, Unmoved, vars, exchange, history
  <1>2. CASE UNCHANGED allVars
    BY <1>2 DEF Rests, Unmoved, allVars, sysVars, vars, exchange, network, history
  <1> QED
    BY <1>1, <1>2

LEMMA ReloginKind ==
  ASSUME Relogin
  PROVE  Subscribes
  BY DEF Relogin, Subscribes, Offline, vars, history

---------------------------------------------------------------------------
(* The steps of the exchange.                                              *)

Serves(r) ==
  /\ wire # <<>> /\ r = Head(wire) /\ wire' = Tail(wire)
  /\ UNCHANGED <<orders, pc, todo, closing, forgotten, overtaken>> /\ count'.tests = count.tests
  /\ stranded \subseteq stranded' /\ unheeded \subseteq unheeded'

\* What tells that R are refused, and U to be asked for again.
Tells(m, r, R, U) ==
  /\ Marked(m) = R /\ m.ids \subseteq r.ids \cup r.known /\ m.known = r.known
  /\ \/ m.kind = "refused" /\ U = {} /\ m.again = <<>>
     \/ /\ m.kind = "busy"
        /\ \E q \in Requests : /\ m.again = <<q>> /\ q.op = "place" /\ q.ids = r.ids
                               /\ q.known \subseteq r.ids /\ q.close = r.close /\ Unplaced(q) = R \cup U

\* Of the orders that are yet to be placed F fail and nobody is told.
Places(r, R, U, F) ==
  /\ Serves(r) /\ r.op = "place" /\ UNCHANGED <<part, filled, closed>>
  /\ U \cup F \subseteq Unplaced(r) /\ R \subseteq Unplaced(r) \ U /\ F \subseteq unheeded'
  /\ live' = live \cup (Unplaced(r) \ (R \cup U \cup F))
  /\ stranded' = stranded \cup OpenersOf(R)
  /\ \E m, n : \E told \in BOOLEAN :
       /\ Hears(m, n, told) /\ m.kind = "Live" /\ m.ids = Unplaced(r) \ (R \cup U \cup F)
       /\ IF told THEN Tells(n, r, R, U) ELSE R = {} /\ U = {}

\* The orders R are not cancelled.
Cancels(r, R) ==
  /\ Serves(r) /\ r.op = "cancel" /\ UNCHANGED <<filled, closed, stranded>>
  /\ R \subseteq live \cap r.ids /\ R \subseteq unheeded'
  /\ live' = live \ (r.ids \ R) /\ part' = part \ (r.ids \ R)
  /\ \E m, n : \E told \in BOOLEAN :
       /\ Hears(m, n, told) /\ m.kind = "Canceled" /\ m.ids = (live \cap r.ids) \ R
       /\ n = Message("answer", r.close) /\ (told <=> r.close # {})

\* A request is to be sent again, or what it was to close is closed or given up.
Again(r, n) ==
  /\ n.kind = "busy"
  /\ \E q : /\ SameRequest(q, r) /\ n.again = <<q>> /\ q.known \subseteq r.known \cup r.ids
            /\ r.op = "close" => q.known \subseteq r.known \cup closed'
ClosesAll(r) ==
  /\ r.op # "cancel"
  /\ r.op = "close" /\ r.known \subseteq closed =>
       \A id \in r.ids : Opens(id) \/ id \in closed' \/ Opener(id) \in stranded'

Settles(r) ==
  /\ Serves(r) /\ r.op # "place" /\ UNCHANGED <<live, part, filled>>
  /\ closed \subseteq closed' /\ (\A id \in closed' : id \in closed \/ (r.op = "close" /\ id \in r.ids))
  /\ \E m, n : \E told \in BOOLEAN :
       /\ Hears(m, n, told) /\ m.kind # "Canceled" /\ m.ids = {} /\ n.ids = {} /\ n.known = {}
       /\ IF told /\ n.kind = "busy" THEN Again(r, n)
          ELSE n.kind = "refused" /\ n.again = <<>> /\ ClosesAll(r)

\* The first request on the wire.
AtHead(r) ==
  /\ wire # <<>> /\ r = Head(wire) /\ wire' = Tail(wire) /\ r \in Requests /\ count \in Counts
  /\ UNCHANGED <<orders, pc, todo, closing>>

LEMMA ServePlaceKind ==
  ASSUME Known, NEW r, AtHead(r), ServePlace(r)
  PROVE  \E R, U, F : Places(r, R, U, F)
  <1>1. PICK R \in SUBSET (r.ids \ r.known) :
          /\ PlaceSome(r, R, {})
          /\ count' = [count EXCEPT !.refused = @ + CountRefused(R)]
          /\ inbox' = IF R \cup r.known = {} THEN Pushed(r.ids \ (r.known \cup R), "Live")
                      ELSE Append(Pushed(r.ids \ (r.known \cup R), "Live"),
                                  Answer("refused", R \cup r.known, r.known, <<>>))
    BY DEF ServePlace
  <1>2. count'.tests = count.tests
    BY <1>1, TestsCounted DEF AtHead
  <1> DEFINE placed == r.ids \ (r.known \cup R)
             m == Message("Live", placed)
             n == Answer("refused", R \cup r.known, r.known, <<>>)
             told == ~(R \cup r.known = {})
  <1>3. /\ r.ids \in SUBSET ChainId /\ r.known \in SUBSET ChainId /\ <<>> \in Seq(Requests)
        /\ placed \in SUBSET ChainId /\ R \cup r.known \in SUBSET ChainId
    BY DEF AtHead, Requests
  <1>4. /\ Pushed(placed, "Live") \in {inbox, Append(inbox, m)}
        /\ m \in Messages /\ m.kind = "Live" /\ m.ids = placed /\ m.again = <<>> /\ m.known = {}
    <2>1. SysTypeOK /\ "Live" \in Statuses
      BY DEF Known, Statuses
    <2>2. m.known = {}
      BY DEF Message, Answer
    <2> HIDE DEF placed
    <2> QED
      BY <1>3, <2>1, <2>2, PushSaid
  <1>5. n \in Messages /\ n.kind \notin Statuses /\ Tells(n, r, R, {})
    BY <1>3, AnswerTyped DEF Tells, Answer, Marked, Statuses
  <1>6. told \in BOOLEAN /\ inbox' = IF told THEN Append(Pushed(placed, "Live"), n) ELSE Pushed(placed, "Live")
    BY <1>1
  <1>7. ~told => R = {}
    OBVIOUS
  <1>8. Unplaced(r) = r.ids \ r.known /\ placed = Unplaced(r) \ (R \cup {} \cup {})
    BY <1>1 DEF PlaceSome, Unplaced
  <1> HIDE DEF m, n, told, placed
  <1>9. Hears(m, n, told)
    BY <1>4, <1>5, <1>6 DEF Hears, Statuses
  <1>10. Serves(r)
    BY <1>1, <1>2 DEF AtHead, Serves, PlaceSome
  <1>11. /\ live' = live \cup placed /\ stranded' = stranded \cup OpenersOf(R)
         /\ r.op = "place" /\ UNCHANGED <<part, filled, closed>>
    BY <1>1 DEF PlaceSome, placed
  <1>12. Places(r, R, {}, {})
    <2>1. R \subseteq Unplaced(r)
      BY <1>8
    <2> QED
      BY <1>4, <1>5, <1>6, <1>7, <1>8, <1>9, <1>10, <1>11, <2>1 DEF Places
  <1> QED
    BY <1>12

LEMMA ServePlaceBusyKind ==
  ASSUME Known, NEW r, AtHead(r), ServePlaceBusy(r)
  PROVE  \E R, U, F : Places(r, R, U, F)
  <1>1. PICK U \in SUBSET (r.ids \ r.known), R \in SUBSET (r.ids \ r.known) :
          /\ R \cap U = {} /\ PlaceSome(r, R, U)
          /\ count' = [count EXCEPT !.refused = @ + CountRefused(R), !.busy = @ + 1]
          /\ inbox' = Append(Pushed(r.ids \ (r.known \cup R \cup U), "Live"),
                             Answer("busy", R \cup r.known, r.known,
                                    << [r EXCEPT !.known = r.ids \ (R \cup U)] >>))
    <2>1. PICK U \in SUBSET (r.ids \ r.known) : \E R \in SUBSET (r.ids \ (r.known \cup U)) :
            /\ PlaceSome(r, R, U)
            /\ count' = [count EXCEPT !.refused = @ + CountRefused(R), !.busy = @ + 1]
            /\ inbox' = Append(Pushed(r.ids \ (r.known \cup R \cup U), "Live"),
                               Answer("busy", R \cup r.known, r.known,
                                      << [r EXCEPT !.known = r.ids \ (R \cup U)] >>))
      BY DEF ServePlaceBusy
    <2> QED
      BY <2>1
  <1>2. count'.tests = count.tests
    BY <1>1, TestsCounted DEF AtHead
  <1> DEFINE placed == r.ids \ (r.known \cup R \cup U)
             q == [r EXCEPT !.known = r.ids \ (R \cup U)]
             m == Message("Live", placed)
             n == Answer("busy", R \cup r.known, r.known, <<q>>)
  <1>3. /\ r.ids \in SUBSET ChainId /\ r.known \in SUBSET ChainId /\ r.op = "place"
        /\ placed \in SUBSET ChainId /\ R \cup r.known \in SUBSET ChainId
    BY <1>1 DEF AtHead, Requests, PlaceSome
  <1>4. /\ Pushed(placed, "Live") \in {inbox, Append(inbox, m)}
        /\ m \in Messages /\ m.kind = "Live" /\ m.ids = placed /\ m.again = <<>> /\ m.known = {}
    <2>1. SysTypeOK /\ "Live" \in Statuses
      BY DEF Known, Statuses
    <2>2. m.known = {}
      BY DEF Message, Answer
    <2> HIDE DEF placed
    <2> QED
      BY <1>3, <2>1, <2>2, PushSaid
  <1>5. /\ q \in Requests /\ q.op = "place" /\ q.ids = r.ids /\ q.known = r.ids \ (R \cup U)
        /\ q.close = r.close
    BY <1>3 DEF AtHead, Requests
  <1>6. Unplaced(q) = R \cup U
    BY <1>5 DEF Unplaced
  <1>7. inbox' = Append(Pushed(placed, "Live"), n)
    BY <1>1
  <1> HIDE DEF q
  <1>8. n \in Messages /\ n.kind \notin Statuses /\ Tells(n, r, R, U)
    <2>1. <<q>> \in Seq(Requests)
      BY <1>5
    <2> QED
      BY <1>3, <1>5, <1>6, <2>1, AnswerTyped DEF Tells, Answer, Marked, Statuses
  <1>9. Unplaced(r) = r.ids \ r.known /\ placed = Unplaced(r) \ (R \cup U \cup {})
    BY <1>3 DEF Unplaced
  <1> HIDE DEF m, n, placed
  <1>10. Hears(m, n, TRUE)
    BY <1>4, <1>7, <1>8 DEF Hears, Statuses
  <1>11. Serves(r)
    BY <1>1, <1>2 DEF AtHead, Serves, PlaceSome
  <1>12. /\ live' = live \cup placed /\ stranded' = stranded \cup OpenersOf(R)
         /\ UNCHANGED <<part, filled, closed>>
    BY <1>1 DEF PlaceSome, placed
  <1>13. Places(r, R, U, {})
    <2>1. U \subseteq Unplaced(r) /\ R \subseteq Unplaced(r) \ U
      BY <1>1, <1>9
    <2> QED
      BY <1>3, <1>4, <1>8, <1>9, <1>10, <1>11, <1>12, <2>1 DEF Places
  <1> QED
    BY <1>13

\* The empty message, for what is not told.
LEMMA NothingTold ==
  ASSUME Known
  PROVE  /\ Message("Live", {}) \in Messages /\ Message("refused", {}) \in Messages
         /\ Message("Live", {}).kind = "Live" /\ Message("refused", {}).kind = "refused"
         /\ Message("Live", {}).ids = {} /\ Message("refused", {}).ids = {}
         /\ Message("Live", {}).known = {} /\ Message("refused", {}).known = {}
         /\ Message("Live", {}).again = <<>> /\ Message("refused", {}).again = <<>>
         /\ UNCHANGED inbox => Hears(Message("Live", {}), Message("refused", {}), FALSE)
  <1>1. <<>> \in Seq(Requests)
    OBVIOUS
  <1>2. Message("Live", {}) \in Messages /\ Message("refused", {}) \in Messages
    BY <1>1, AnswerTyped, MessageTyped DEF Message, Statuses
  <1> QED
    BY <1>2 DEF Message, Answer, Hears, Statuses

LEMMA ServeFailedKind ==
  ASSUME Known, NEW r, AtHead(r), ServeFailed(r)
  PROVE  Settles(r) \/ \E R, U, F : Places(r, R, U, F)
  <1>1. count'.tests = count.tests
    BY TestsCounted DEF AtHead, ServeFailed
  <1>2. Serves(r) /\ UNCHANGED <<inbox, live, part, filled, closed>> /\ r.op \in {"place", "close"}
    BY <1>1 DEF AtHead, Serves, ServeFailed, exchange
  <1> DEFINE m == Message("Live", {})
             n == Message("refused", {})
  <1>3. /\ Hears(m, n, FALSE) /\ m.kind = "Live" /\ m.ids = {}
        /\ n.kind = "refused" /\ n.ids = {} /\ n.known = {} /\ n.again = <<>>
    BY <1>2, NothingTold
  <1> HIDE DEF m, n
  <1>4. CASE r.op = "place"
    <2>1. Unplaced(r) = r.ids \ r.known /\ OpenersOf({}) = {}
      BY <1>4 DEF Unplaced, OpenersOf
    <2>2. Unplaced(r) \subseteq unheeded' /\ stranded' = stranded
      BY <1>4, <2>1 DEF ServeFailed
    <2>3. Places(r, {}, {}, Unplaced(r))
      BY <1>2, <1>3, <1>4, <2>1, <2>2 DEF Places
    <2> QED
      BY <2>3
  <1>5. CASE r.op = "close"
    <2>1. stranded' = stranded \cup OpenersOf(r.ids \ r.known)
      BY <1>5 DEF ServeFailed
    <2>2. ClosesAll(r)
      BY <1>2, <1>5, <2>1 DEF ClosesAll, OpenersOf
    <2>3. Settles(r)
      BY <1>2, <1>3, <1>5, <2>2 DEF Settles
    <2> QED
      BY <2>3
  <1> QED
    BY <1>2, <1>4, <1>5

LEMMA ServeCloseKind ==
  ASSUME Known, NEW r, AtHead(r), ServeClose(r)
  PROVE  Settles(r)
  <1>1. PICK R \in SUBSET (r.ids \ r.known) :
          /\ CloseSome(r, R, {})
          /\ count' = [count EXCEPT !.refused = @ + CountRefused(R)]
          /\ inbox' = IF R \cup r.known = {} THEN Traded(r.ids \ (r.known \cup R))
                      ELSE Append(Traded(r.ids \ (r.known \cup R)), Message("refused", {}))
    BY DEF ServeClose
  <1>2. count'.tests = count.tests
    BY <1>1, TestsCounted DEF AtHead
  <1> DEFINE m == Message("Filled", {})
             n == Message("refused", {})
             told == ~(R \cup r.known = {})
             pushes == Traded(r.ids \ (r.known \cup R))
  <1>3. /\ pushes \in {inbox, Append(inbox, m)}
        /\ m \in Messages /\ m.kind = "Filled" /\ m.ids = {} /\ m.again = <<>> /\ m.known = {}
    BY TradeSaid DEF Known, Message, Answer
  <1>4. /\ n \in Messages /\ n.kind = "refused" /\ n.ids = {} /\ n.known = {} /\ n.again = <<>>
    BY NothingTold
  <1>5. told \in BOOLEAN /\ inbox' = IF told THEN Append(pushes, n) ELSE pushes
    BY <1>1
  <1> HIDE DEF m, n, told, pushes
  <1>6. Hears(m, n, told)
    BY <1>3, <1>4, <1>5 DEF Hears, Statuses
  <1>7. Serves(r)
    BY <1>1, <1>2 DEF AtHead, Serves, CloseSome
  <1>8. /\ r.op = "close" /\ UNCHANGED <<live, part, filled>>
        /\ closed' = closed \cup (r.ids \ (R \cup {})) /\ stranded' = stranded \cup OpenersOf(R)
    BY <1>1 DEF CloseSome
  <1>9. ClosesAll(r)
    BY <1>8 DEF ClosesAll, OpenersOf
  <1> QED
    BY <1>3, <1>4, <1>5, <1>6, <1>7, <1>8, <1>9 DEF Settles

LEMMA ServeCloseBusyKind ==
  ASSUME Known, NEW r, AtHead(r), ServeCloseBusy(r)
  PROVE  Settles(r)
  <1>1. PICK U \in SUBSET (r.ids \ r.known) :
          /\ CloseSome(r, {}, U)
          /\ count' = [count EXCEPT !.busy = @ + 1]
          /\ inbox' = Append(Traded(r.ids \ (r.known \cup U)),
                             Answer("busy", {}, {}, << [r EXCEPT !.known = r.ids \ U] >>))
    BY DEF ServeCloseBusy
  <1>2. count'.tests = count.tests
    BY <1>1, TestsCounted DEF AtHead
  <1> DEFINE q == [r EXCEPT !.known = r.ids \ U]
             m == Message("Filled", {})
             n == Answer("busy", {}, {}, <<q>>)
             pushes == Traded(r.ids \ (r.known \cup U))
  <1>3. /\ pushes \in {inbox, Append(inbox, m)}
        /\ m \in Messages /\ m.kind = "Filled" /\ m.ids = {} /\ m.again = <<>> /\ m.known = {}
    BY TradeSaid DEF Known, Message, Answer
  <1>4. SameRequest(q, r) /\ q.known = r.ids \ U
    BY DEF AtHead, SameRequest, Requests
  <1>5. inbox' = Append(pushes, n)
    BY <1>1
  <1> HIDE DEF q
  <1>6. n \in Messages /\ n.kind = "busy" /\ n.ids = {} /\ n.known = {} /\ n.again = <<q>>
    <2>1. <<q>> \in Seq(Requests)
      BY <1>4 DEF SameRequest
    <2> QED
      BY <2>1, AnswerTyped DEF Answer, Statuses
  <1> HIDE DEF m, n, pushes
  <1>7. Hears(m, n, TRUE)
    BY <1>3, <1>5, <1>6 DEF Hears, Statuses
  <1>8. Serves(r)
    BY <1>1, <1>2 DEF AtHead, Serves, CloseSome
  <1>9. /\ r.op = "close" /\ UNCHANGED <<live, part, filled>>
        /\ closed' = closed \cup (r.ids \ ({} \cup U))
    BY <1>1 DEF CloseSome
  <1>10. Again(r, n)
    BY <1>4, <1>6, <1>9 DEF Again
  <1> QED
    BY <1>3, <1>6, <1>7, <1>8, <1>9, <1>10 DEF Settles

LEMMA ServeCancelKind ==
  ASSUME Known, NEW r, AtHead(r), ServeCancel(r)
  PROVE  \E R : Cancels(r, R)
  <1>1. PICK R \in SUBSET (live \cap r.ids) :
          /\ count' = [count EXCEPT !.refused = @ + CountRefused(R)]
          /\ live' = live \ (r.ids \ R) /\ part' = part \ (r.ids \ R)
          /\ unheeded' = unheeded \cup R
          /\ inbox' = IF r.close = {} THEN Pushed((live \cap r.ids) \ R, "Canceled")
                      ELSE Append(Pushed((live \cap r.ids) \ R, "Canceled"), Message("answer", r.close))
    BY DEF ServeCancel
  <1>2. count'.tests = count.tests
    BY <1>1, TestsCounted DEF AtHead
  <1> DEFINE gone == (live \cap r.ids) \ R
             m == Message("Canceled", gone)
             n == Message("answer", r.close)
             told == ~(r.close = {})
  <1>3. gone \in SUBSET ChainId /\ r.close \in SUBSET ChainId /\ <<>> \in Seq(Requests)
    BY DEF AtHead, Requests
  <1>4. /\ Pushed(gone, "Canceled") \in {inbox, Append(inbox, m)}
        /\ m \in Messages /\ m.kind = "Canceled" /\ m.ids = gone /\ m.again = <<>> /\ m.known = {}
    <2>1. SysTypeOK /\ "Canceled" \in Statuses
      BY DEF Known, Statuses
    <2>2. m.known = {}
      BY DEF Message, Answer
    <2> HIDE DEF gone
    <2> QED
      BY <1>3, <2>1, <2>2, PushSaid
  <1>5. n \in Messages /\ n.kind \notin Statuses
    BY <1>3, AnswerTyped DEF Answer, Message, Statuses
  <1>6. told \in BOOLEAN /\ inbox' = IF told THEN Append(Pushed(gone, "Canceled"), n) ELSE Pushed(gone, "Canceled")
    BY <1>1
  <1>7. r.op = "cancel" /\ UNCHANGED <<filled, closed, stranded, forgotten, overtaken>>
    BY DEF ServeCancel
  <1>8. Serves(r)
    BY <1>1, <1>2, <1>7 DEF AtHead, Serves
  <1>9. told <=> r.close # {}
    OBVIOUS
  <1> HIDE DEF m, told, gone
  <1>10. Hears(m, n, told)
    <2> HIDE DEF n
    <2> QED
      BY <1>4, <1>5, <1>6 DEF Hears, Statuses
  <1>11. R \subseteq live \cap r.ids /\ R \subseteq unheeded' /\ gone = (live \cap r.ids) \ R
    BY <1>1 DEF gone
  <1>12. Cancels(r, R)
    BY <1>1, <1>4, <1>6, <1>7, <1>8, <1>9, <1>10, <1>11 DEF Cancels
  <1> QED
    BY <1>12

LEMMA ServeBusyKind ==
  ASSUME Known, NEW r, AtHead(r), ServeBusy(r) \/ ServeSubscription(r)
  PROVE  Settles(r)
  <1>1. count'.tests = count.tests
    BY TestsCounted DEF AtHead, ServeBusy, ServeSubscription, history
  <1>2. /\ Serves(r) /\ UNCHANGED <<live, part, filled, closed>> /\ r.op \in {"cancel", "sub"}
    BY <1>1 DEF AtHead, Serves, ServeBusy, ServeSubscription, exchange, history
  <1> DEFINE m == Message("Live", {})
  <1>3. m \in Messages /\ m.kind = "Live" /\ m.ids = {} /\ m.again = <<>> /\ m.known = {}
    BY NothingTold
  <1>4. CASE ServeBusy(r)
    <2> DEFINE n == Answer("busy", {}, {}, <<r>>)
    <2>1. n \in Messages /\ n.kind = "busy" /\ n.ids = {} /\ n.known = {} /\ n.again = <<r>>
      <3>1. <<r>> \in Seq(Requests)
        BY DEF AtHead
      <3> QED
        BY <3>1, AnswerTyped DEF Answer, Statuses
    <2>2. inbox' = Append(inbox, n)
      BY <1>4 DEF ServeBusy
    <2> HIDE DEF m, n
    <2>3. Hears(m, n, TRUE)
      BY <1>3, <2>1, <2>2 DEF Hears, Statuses
    <2>4. SameRequest(r, r)
      BY DEF SameRequest, AtHead
    <2>5. Again(r, n)
      BY <1>2, <2>1, <2>4 DEF Again
    <2> QED
      BY <1>2, <1>3, <2>1, <2>3, <2>5 DEF Settles
  <1>5. CASE ServeSubscription(r)
    <2> DEFINE n == Message("refused", {})
    <2>1. /\ n.kind = "refused" /\ n.ids = {} /\ n.known = {} /\ n.again = <<>> /\ Hears(m, n, FALSE)
      BY <1>5, NothingTold DEF ServeSubscription
    <2>2. ClosesAll(r)
      BY <1>5 DEF ServeSubscription, ClosesAll
    <2> HIDE DEF m, n
    <2> QED
      BY <1>2, <1>3, <2>1, <2>2 DEF Settles
  <1> QED
    BY <1>4, <1>5

LEMMA ServeKind ==
  ASSUME Known, Serve
  PROVE  \E r : Settles(r) \/ (\E R : Cancels(r, R)) \/ \E R, U, F : Places(r, R, U, F)
  <1> DEFINE r == Head(wire)
  <1>1. /\ wire # <<>> /\ wire' = Tail(wire) /\ wire \in Seq(Requests) /\ count \in Counts
        /\ UNCHANGED <<orders, pc, todo, closing>>
    BY DEF Serve, Known, SysTypeOK, vars
  <1>2. r \in Requests
    BY <1>1
  <1>3. Serving(r)
    BY DEF Serve, Serving
  <1>4. \A k : k = r => AtHead(k)
    BY <1>1, <1>2 DEF AtHead
  <1> HIDE DEF r
  <1> QED
    BY <1>3, <1>4, ServePlaceKind, ServePlaceBusyKind, ServeFailedKind, ServeCloseKind,
       ServeCloseBusyKind, ServeCancelKind, ServeBusyKind DEF Serving

\* What is at one of the places has a name.
LEMMA PlacesAreNamed ==
  \A id : ToSend(id) \/ Sent(id) \/ Back(id) \/ Cancelling(id) \/ InClosing(id) => Named(id)
  <1>1. ASSUME NEW r, NEW id, Under(r), id \in r.ids \/ id \in r.close
        PROVE  Named(id)
    BY <1>1 DEF Under, Named, RequestNames, MessageNames
  <1>2. ASSUME NEW id, ToSend(id) \/ Sent(id) \/ Back(id)
        PROVE  Named(id)
    <2>1. CASE ToSend(id)
      BY <2>1 DEF ToSend, SentBy, Named
    <2>2. CASE Sent(id)
      BY <2>2 DEF Sent, SentIn, Unplaced, Named, Wired, RequestNames
    <2>3. CASE Back(id)
      BY <2>3 DEF Back, HeldIn, Holds, Marked, Unplaced, Named, Mail, RequestNames, MessageNames
    <2> QED
      BY <1>2, <2>1, <2>2, <2>3
  <1>3. ASSUME NEW id, Cancelling(id)
        PROVE  Named(id)
    BY <1>1, <1>3 DEF Cancelling, Doing, Named
  <1>4. ASSUME NEW id, InClosing(id)
        PROVE  Named(id)
    <2>1. ASSUME NEW task, IsTask(task), id \in task
          PROVE  Named(id)
      <3>1. ASSUME NEW m \in Mail, m.ids = task
            PROVE  Named(id)
        BY <2>1, <3>1 DEF Named, MessageNames
      <3> QED
        BY <1>1, <2>1, <3>1 DEF IsTask, Named
    <2> QED
      BY <1>1, <1>4, <2>1 DEF InClosing, ToClose
  <1> QED
    BY <1>2, <1>3, <1>4

---------------------------------------------------------------------------
(* Steps that leave the orders of the grid, and the places, as they are.   *)

SamePlaces ==
  \A id : /\ (ToSend(id)' <=> ToSend(id)) /\ (Sent(id)' <=> Sent(id))
          /\ (Back(id)' => Back(id)) /\ (Back(id) => Back(id)' \/ ~LiveOnGrid(id))
Singles == OnceByThreads /\ OnceOnWire /\ OnceInMail
SameDoing == \A task, id : Doing(task, id)' <=> Doing(task, id)

\* The exits of a closeout stay with it until they are closed or given up.
Cares ==
  \A id : ~Opens(id) /\ InClosing(id) =>
            InClosing(id)' \/ id \in closed' \/ Opener(id) \in stranded'

\* What rests may be filled, in full or in part.
Books ==
  /\ live' \cup filled' = live \cup filled /\ live' \cap filled' = {} /\ live' \subseteq live
  /\ part' \subseteq live' /\ live' \ part' \subseteq live \ part
  /\ filled \cup part \subseteq filled' \cup part'
  /\ closed \subseteq closed' /\ stranded \subseteq stranded' /\ unheeded \subseteq unheeded'
  /\ UNCHANGED <<forgotten, overtaken>>

Calm ==
  /\ UNCHANGED orders /\ Books /\ (count'.tests = 0 => count.tests = 0)
  /\ SamePlaces /\ Singles' /\ SameDoing /\ Cares
  /\ (\A t \in Threads : pc'[t] # "closeout") => (\A t \in Threads : pc[t] # "closeout")
  /\ \A m \in Mail' : m.kind \in Refusals => m \in Mail \/ Marked(m) = {}
  /\ \A r : Under(r)' /\ r.op = "close" => Under(r) \/ r.known \subseteq closed'

Quietly ==
  Apart /\ Untaken /\ CancelsDropped /\ RefusedGone /\ Tracked /\ Awaited /\ Turns
    /\ OneStatus /\ ExitsCovered /\ Covered

LEMMA CalmKeeps ==
  ASSUME Known, Quietly, Calm
  PROVE  Quietly'
  <1>1. /\ \A id : /\ (ToSend(id)' <=> ToSend(id)) /\ (Sent(id)' <=> Sent(id))
                   /\ (Back(id)' => Back(id)) /\ (Back(id) => Back(id)' \/ ~LiveOnGrid(id))
        /\ \A id : ~Opens(id) /\ InClosing(id) =>
             InClosing(id)' \/ id \in closed' \/ Opener(id) \in stranded'
        /\ \A id : Cancelling(id)' <=> Cancelling(id)
        /\ orders' = orders /\ Books
        /\ forgotten' = forgotten /\ overtaken' = overtaken
        /\ stranded \subseteq stranded' /\ unheeded \subseteq unheeded' /\ closed \subseteq closed'
    BY DEF Calm, SamePlaces, SameDoing, Cares, Cancelling, Books
  <1>2. Apart'
    BY <1>1 DEF Calm, Singles, Quietly, Apart
  <1>3. Untaken'
    BY <1>1 DEF Quietly, Untaken, Books
  <1>4. CancelsDropped' /\ Turns' /\ OneStatus'
    BY <1>1 DEF Quietly, CancelsDropped, Turns, OneStatus, Ids
  <1>5. RefusedGone'
    BY <1>1 DEF Quietly, RefusedGone, Books
  <1>6. Tracked'
    BY <1>1 DEF Quietly, Tracked, Books, LiveOnGrid, Stray
  <1>7. Awaited'
    BY <1>1 DEF Quietly, Awaited, Books, Calm, LiveOnGrid
  <1>8. ExitsCovered'
    <2>1. \A o \in orders' : o.status = "Canceled" /\ ~Opens(o.id) => Opener(o.id) \in stranded'
      BY <1>1 DEF Quietly, ExitsCovered
    <2>2. \A m \in Mail' :
            m.kind \in Refusals => \A id \in Marked(m) : ~Opens(id) => Opener(id) \in stranded'
      BY <1>1 DEF Quietly, ExitsCovered, Calm
    <2>3. \A id : Cancelling(id)' /\ ~Opens(id) =>
            InClosing(id)' \/ id \in closed' \/ Opener(id) \in stranded'
      BY <1>1 DEF Quietly, ExitsCovered
    <2>4. \A r : Under(r)' /\ r.op = "close" => r.known \subseteq closed'
      BY <1>1 DEF Quietly, ExitsCovered, Calm
    <2> QED
      BY <2>1, <2>2, <2>3, <2>4 DEF ExitsCovered, Marked
  <1>9. Covered'
    <2> SUFFICES ASSUME 1 \notin GridCounts,
                        NEW id, Opens(id), (ToSend(id) \/ Sent(id) \/ id \in live \cup filled)'
                 PROVE  id \in stranded' \cup forgotten' \cup Ids(orders)' \/ Cared(Closer(id))'
      BY DEF Covered
    <2> DEFINE c == Closer(id)
    <2>1. ToSend(id) \/ Sent(id) \/ id \in live \cup filled
      BY <1>1 DEF Books
    <2>2. id \in ChainId
      BY <2>1, PlacesAreNamed, NamesAreTyped DEF Known, NamesTyped, Named
    <2>3. ~Opens(c) /\ Opener(c) = id
      BY <2>2, OpensTurns, OpenerOfCloser
    <2>4. id \in stranded \cup forgotten \cup Ids(orders) \/ Cared(c)
      BY <2>1 DEF Quietly, Covered
    <2> HIDE DEF c
    <2>5. CASE InClosing(c)
      BY <1>1, <2>3, <2>5 DEF Cared, c
    <2>6. CASE c \in filled \cup closed \cup Ids(orders) \cup live
      BY <1>1, <2>6 DEF Cared, Books, Ids, c
    <2> QED
      BY <1>1, <2>4, <2>5, <2>6 DEF Cared, Ids
  <1> QED
    BY <1>2, <1>3, <1>4, <1>5, <1>6, <1>7, <1>8, <1>9 DEF Quietly

\* The feed thread goes on with the message it reads.
SteadyFeed ==
  pc'["feed"] = "mark" =>
    pc["feed"] = "mark" /\ todo'["feed"] = todo["feed"] /\ inbox'[1] = inbox[1]
SteadyCheck ==
  pc'["check"] = "markfilled" => pc["check"] = "markfilled" /\ todo'["check"] = todo["check"]

\* A message says nothing that is not so, as far as the grid is concerned.
TrueMessage(m) ==
  \A id \in m.ids \cap Ids(orders) :
    /\ m.kind \in {"Filled", "PartiallyFilled"} => id \in filled' \cup part'
    /\ m.kind = "Live" => id \in live' \cup filled'
    /\ m.kind # "Canceled"

\* What is so of an order stays so.
TruthKept ==
  \A id \in Ids(orders) : /\ id \in filled \cup part => id \in filled' \cup part'
                          /\ id \in live \cup filled => id \in live' \cup filled'

LEMMA MarksKept ==
  ASSUME MarksTrue, UNCHANGED orders, SteadyFeed, SteadyCheck, TruthKept,
         \A m \in Mail' : m \in Mail \/ TrueMessage(m)
  PROVE  MarksTrue'
  <1>1. \A o \in orders' : /\ o.status \in {"Filled", "PartiallyFilled"} => o.id \in filled' \cup part'
                           /\ o.status # "Empty"
    BY DEF MarksTrue, Ids, TruthKept
  <1>2. Ids(orders') = Ids(orders)
    OBVIOUS
  <1>3. ASSUME NEW m \in Mail', NEW id \in m.ids \cap Ids(orders')
        PROVE  /\ m.kind \in {"Filled", "PartiallyFilled"} => id \in filled' \cup part'
               /\ m.kind = "Live" => id \in live' \cup filled'
               /\ m.kind # "Canceled"
    BY <1>2, <1>3 DEF MarksTrue, TruthKept, TrueMessage
  <1>4. pc'["feed"] = "mark" => todo'["feed"] \subseteq Marked(inbox'[1]) /\ inbox'[1].kind # "answer"
    BY DEF SteadyFeed, MarksTrue, Marked
  <1>5. pc'["check"] = "markfilled" => todo'["check"] \cap Ids(orders') \subseteq filled' \cup part'
    BY <1>2 DEF SteadyCheck, MarksTrue, TruthKept
  <1> QED
    BY <1>1, <1>3, <1>4, <1>5 DEF MarksTrue, Marked

LEMMA RefusalsStayHeard ==
  ASSUME RefusalsHeard, SteadyFeed, \A id : LiveOnGrid(id)' => LiveOnGrid(id)
  PROVE  RefusalsHeard'
  BY DEF RefusalsHeard, SteadyFeed, Marked

LEMMA TasksKept ==
  ASSUME TasksHold, \A id : Gone(id) => Gone(id)',
         \A task, id : Doing(task, id) => Doing(task, id)' \/ Gone(id)',
         \A task : IsTask(task)' => IsTask(task) \/ task = {},
         \A id : ToClose(id)' \/ id \in closed' => ToClose(id) \/ id \in closed \/ Gone(id)',
         \A t \in Threads : pc'[t] # "cancel" => closing'[t] = {}
  PROVE  TasksHold'
  BY DEF TasksHold

LEMMA GoneStaysGone ==
  ASSUME UNCHANGED orders, Books, SamePlaces
  PROVE  \A id : Gone(id) => Gone(id)'
  BY DEF Gone, Books, SamePlaces, Stray, Ids

\* Nothing on the wire or in the mail.
LEMMA UnmovedPlaces ==
  ASSUME UNCHANGED <<wire, inbox>>
  PROVE  /\ \A id : (Sent(id)' <=> Sent(id)) /\ (Back(id)' <=> Back(id))
         /\ \A r : Under(r)' <=> Under(r)
         /\ (OnceOnWire' <=> OnceOnWire) /\ (OnceInMail' <=> OnceInMail)
         /\ CancelsLast /\ forgotten \subseteq forgotten' /\ overtaken \subseteq overtaken' /\ unheeded \subseteq unheeded'
              => CancelsLast'
         /\ Mail' = Mail
  BY DEF Sent, SentIn, Back, HeldIn, Holds, Under, Wired, Mail, OnceOnWire, OnceInMail, CancelsLast,
         Marked, Unplaced, Stray

---------------------------------------------------------------------------
(* The invariant.                                                          *)

OrderInv == Quietly /\ MarksTrue /\ RefusalsHeard /\ CancelsLast /\ TasksHold

LEMMA RestKeeps ==
  ASSUME Known, OrderInv, Rests
  PROVE  OrderInv'
  <1>1. /\ UNCHANGED <<orders, pc, todo, closing, exchange, forgotten, overtaken, unheeded, stranded, wire, inbox>>
        /\ count'.tests = 0 => count.tests = 0
    BY DEF Rests, Unmoved
  <1>2. /\ \A id : (Sent(id)' <=> Sent(id)) /\ (Back(id)' <=> Back(id))
        /\ \A r : Under(r)' <=> Under(r)
        /\ (OnceOnWire' <=> OnceOnWire) /\ (OnceInMail' <=> OnceInMail)
        /\ CancelsLast' /\ Mail' = Mail
    BY <1>1, UnmovedPlaces DEF OrderInv
  <1>3. /\ \A id : ToSend(id)' <=> ToSend(id)
        /\ OnceByThreads' <=> OnceByThreads
    BY <1>1 DEF ToSend, OnceByThreads, SentBy
  <1>4. /\ \A task, id : Doing(task, id)' <=> Doing(task, id)
        /\ \A task : IsTask(task)' <=> IsTask(task)
        /\ \A id : ToClose(id)' <=> ToClose(id)
    BY <1>1, <1>2 DEF Doing, IsTask, ToClose
  <1>5. Books
    BY <1>1 DEF Books, exchange, OrderInv, Quietly, Untaken
  <1>6. Calm
    BY <1>1, <1>2, <1>3, <1>4, <1>5
    DEF Calm, SamePlaces, Singles, SameDoing, Cares, InClosing, OrderInv, Quietly, Apart
  <1>7. Quietly'
    BY <1>6, CalmKeeps DEF OrderInv
  <1>8. MarksTrue' /\ RefusalsHeard'
    BY <1>1, <1>2, <1>5, MarksKept, RefusalsStayHeard
    DEF OrderInv, SteadyFeed, SteadyCheck, exchange, LiveOnGrid, TruthKept
  <1>9. TasksHold'
    BY <1>1, <1>4, <1>5, <1>6, GoneStaysGone, TasksKept DEF OrderInv, Calm, TasksHold, exchange
  <1> QED
    BY <1>2, <1>7, <1>8, <1>9 DEF OrderInv

LEMMA IdleKeeps ==
  ASSUME Known, OrderInv, NEW t \in Threads, Idles(t)
  PROVE  OrderInv'
  <1>1. /\ UNCHANGED <<orders, closing, exchange, forgotten, overtaken, unheeded, stranded, wire, inbox>>
        /\ count'.tests = count.tests /\ Elsewhere(t)
        /\ pc[t] \notin {"cancel", "closeout", "mark"} /\ (pc[t] = "send" => todo[t] = {})
        /\ pc'[t] \notin {"send", "cancel"}
    BY DEF Idles, Unmoved
  <1>2. /\ \A id : (Sent(id)' <=> Sent(id)) /\ (Back(id)' <=> Back(id))
        /\ \A r : Under(r)' <=> Under(r)
        /\ (OnceOnWire' <=> OnceOnWire) /\ (OnceInMail' <=> OnceInMail)
        /\ CancelsLast' /\ Mail' = Mail
    BY <1>1, UnmovedPlaces DEF OrderInv
  <1>3. /\ \A id : ToSend(id)' <=> ToSend(id)
        /\ OnceByThreads => OnceByThreads'
    BY <1>1 DEF ToSend, OnceByThreads, SentBy, Elsewhere
  <1>4. /\ \A task, id : Doing(task, id)' <=> Doing(task, id)
        /\ \A task : IsTask(task)' <=> IsTask(task)
        /\ \A id : ToClose(id)' <=> ToClose(id)
    <2>1. \A u \in Threads : /\ pc'[u] = "cancel" <=> pc[u] = "cancel"
                             /\ pc[u] = "cancel" => todo'[u] = todo[u]
      BY <1>1 DEF Elsewhere
    <2> QED
      BY <1>1, <1>2, <2>1 DEF Doing, IsTask, ToClose
  <1>5. Books
    BY <1>1 DEF Books, exchange, OrderInv, Quietly, Untaken
  <1>6. Calm
    <2>1. (\A u \in Threads : pc'[u] # "closeout") => (\A u \in Threads : pc[u] # "closeout")
      BY <1>1 DEF Elsewhere
    <2> QED
      BY <1>1, <1>2, <1>3, <1>4, <1>5, <2>1
      DEF Calm, SamePlaces, Singles, SameDoing, Cares, InClosing, OrderInv, Quietly, Apart
  <1>7. Quietly'
    BY <1>6, CalmKeeps DEF OrderInv
  <1>8. ASSUME pc'["feed"] = "mark" /\ t = "feed"
        PROVE  MarksTrue' /\ RefusalsHeard'
    <2>1. inbox # <<>> /\ todo'["feed"] = Marked(inbox[1]) /\ inbox[1].kind # "answer" /\ t # "check"
      BY <1>8 DEF Idles
    <2>2. SteadyCheck
      BY <1>1, <1>8, <2>1 DEF SteadyCheck, Elsewhere, Threads
    <2>3. MarksTrue'
      <3>1. MarksTrue /\ filled' = filled /\ part' = part
        BY <1>1 DEF OrderInv, exchange
      <3> QED
        BY <1>1, <1>2, <1>8, <2>1, <2>2, <3>1 DEF MarksTrue, SteadyCheck, Ids, Marked, exchange
    <2>4. RefusalsHeard'
      BY <1>1, <2>1 DEF RefusalsHeard, Marked
    <2> QED
      BY <2>3, <2>4
  <1>9. ASSUME ~(pc'["feed"] = "mark" /\ t = "feed")
        PROVE  MarksTrue' /\ RefusalsHeard'
    <2>1. SteadyFeed
      BY <1>1, <1>9 DEF SteadyFeed, Elsewhere, Threads
    <2>2. RefusalsHeard'
      BY <1>1, <2>1, RefusalsStayHeard DEF OrderInv, LiveOnGrid
    <2>3. CASE SteadyCheck
      BY <1>1, <1>2, <2>1, <2>2, <2>3, MarksKept DEF OrderInv, exchange, TruthKept
    <2>4. CASE t = "check" /\ pc'["check"] = "markfilled"
      <3>1. todo'["check"] \cap Ids(orders) \subseteq filled \cup part
        BY <2>4 DEF Idles
      <3>2. MarksTrue'
        BY <1>1, <1>2, <2>1, <3>1
        DEF OrderInv, MarksTrue, SteadyFeed, exchange, Ids, Marked
      <3> QED
        BY <2>2, <3>2
    <2> QED
      BY <1>1, <2>3, <2>4 DEF SteadyCheck, Elsewhere, Threads
  <1>10. TasksHold'
    <2>1. \A u \in Threads : pc'[u] # "cancel" => closing'[u] = {}
      BY <1>1 DEF Elsewhere, OrderInv, TasksHold
    <2> QED
      BY <1>1, <1>4, <1>5, <1>6, <2>1, GoneStaysGone, TasksKept DEF OrderInv, Calm, exchange
  <1> QED
    BY <1>2, <1>7, <1>8, <1>9, <1>10 DEF OrderInv

---------------------------------------------------------------------------
(* Requests that place nothing.                                            *)

LEMMA MailAlone ==
  ASSUME UNCHANGED inbox
  PROVE  /\ \A id : Back(id)' <=> Back(id)
         /\ OnceInMail' <=> OnceInMail
         /\ Mail' = Mail
  BY DEF Back, HeldIn, Holds, Mail, OnceInMail, Marked, Unplaced

LEMMA WireAlone ==
  ASSUME UNCHANGED wire
  PROVE  /\ \A id : Sent(id)' <=> Sent(id)
         /\ OnceOnWire' <=> OnceOnWire
         /\ Wired' = Wired
         /\ CancelsLast /\ forgotten \subseteq forgotten' /\ overtaken \subseteq overtaken' /\ unheeded \subseteq unheeded'
              => CancelsLast'
  BY DEF Sent, SentIn, Wired, OnceOnWire, CancelsLast, Unplaced, Stray

LEMMA ThreadsAlone ==
  ASSUME UNCHANGED <<pc, todo>>
  PROVE  /\ \A id : ToSend(id)' <=> ToSend(id)
         /\ OnceByThreads' <=> OnceByThreads
         /\ SteadyCheck
         /\ (\A t \in Threads : pc'[t] # "closeout") => (\A t \in Threads : pc[t] # "closeout")
  BY DEF ToSend, SentBy, OnceByThreads, SteadyCheck

LEMMA PostedPlaces ==
  ASSUME wire \in Seq(Requests), NEW q \in Requests, wire' = Append(wire, q), Unplaced(q) = {}
  PROVE  /\ \A id : Sent(id)' <=> Sent(id)
         /\ OnceOnWire => OnceOnWire'
         /\ Wired' = Wired \cup {q}
         /\ CancelsLast /\ forgotten \subseteq forgotten' /\ overtaken \subseteq overtaken' /\ unheeded \subseteq unheeded'
              => CancelsLast'
  <1>1. /\ Wired' = Wired \cup {q}
        /\ \A id : Sent(id)' <=> Sent(id) \/ id \in Unplaced(q)
        /\ OnceOnWire /\ (\A id \in Unplaced(q) : ~Sent(id)) => OnceOnWire'
    BY WirePosted
  <1>2. CancelsLast /\ forgotten \subseteq forgotten' /\ overtaken \subseteq overtaken' /\ unheeded \subseteq unheeded'
              => CancelsLast'
    BY CancelsLastPosted
  <1> QED
    BY <1>1, <1>2

LEMMA CancelBatchKeeps ==
  ASSUME Known, OrderInv, NEW t \in Threads, NEW B, CancelsBatch(t, B)
  PROVE  OrderInv'
  <1>1. /\ UNCHANGED <<orders, exchange, stranded, pc, closing, inbox, forgotten, overtaken, unheeded>>
        /\ count'.tests = count.tests
        /\ pc[t] = "cancel" /\ B \in SUBSET todo[t] /\ todo' = [todo EXCEPT ![t] = @ \ B]
        /\ wire' = Append(wire, Request("cancel", B, closing[t]))
        /\ todo \in [Threads -> SUBSET ChainId] /\ closing \in [Threads -> SUBSET ChainId]
        /\ wire \in Seq(Requests)
    BY DEF CancelsBatch, Offline, Known, SysTypeOK
  <1> DEFINE q == Request("cancel", B, closing[t])
  <1>2. /\ q \in Requests /\ Unplaced(q) = {} /\ q.op = "cancel" /\ q.ids = B /\ q.close = closing[t]
    <2>1. B \in SUBSET ChainId /\ closing[t] \in SUBSET ChainId
      BY <1>1
    <2> QED
      BY <2>1, RequestTyped DEF Request, Unplaced
  <1>3. wire' = Append(wire, q)
    BY <1>1
  <1> HIDE DEF q
  <1>4. /\ \A id : (Sent(id)' <=> Sent(id)) /\ (Back(id)' <=> Back(id))
        /\ \A r : Under(r)' <=> Under(r) \/ r = q
        /\ OnceOnWire' /\ OnceInMail' /\ CancelsLast' /\ Mail' = Mail
    BY <1>1, <1>2, <1>3, PostedPlaces, MailAlone DEF OrderInv, Quietly, Apart, Under
  <1>5. \A u \in Threads : /\ u # t => todo'[u] = todo[u]
                           /\ u = t => todo'[u] = todo[t] \ B
    BY <1>1
  <1>6. /\ \A id : ToSend(id)' <=> ToSend(id)
        /\ OnceByThreads'
    BY <1>1, <1>5 DEF ToSend, OnceByThreads, SentBy, OrderInv, Quietly, Apart
  <1>7. ASSUME NEW task, NEW id
        PROVE  Doing(task, id)' <=> Doing(task, id)
    <2>1. CASE task = closing[t] /\ id \in B
      <3>1. Doing(task, id)
        BY <1>1, <2>1 DEF Doing
      <3>2. Doing(task, id)'
        BY <1>2, <1>4, <2>1 DEF Doing
      <3> QED
        BY <3>1, <3>2
    <2>2. CASE ~(task = closing[t] /\ id \in B)
      BY <1>1, <1>2, <1>4, <1>5, <2>2 DEF Doing
    <2> QED
      BY <2>1, <2>2
  <1>8. /\ \A task : IsTask(task)' <=> IsTask(task)
        /\ \A id : ToClose(id)' <=> ToClose(id)
    BY <1>1, <1>2, <1>4 DEF IsTask, ToClose
  <1>9. Books
    BY <1>1 DEF Books, exchange, OrderInv, Quietly, Untaken
  <1>10. Calm
    BY <1>1, <1>2, <1>4, <1>6, <1>7, <1>8, <1>9
    DEF Calm, SamePlaces, Singles, SameDoing, Cares, InClosing
  <1>11. Quietly'
    BY <1>10, CalmKeeps DEF OrderInv
  <1>12. SteadyFeed /\ SteadyCheck
    BY <1>1, <1>5 DEF SteadyFeed, SteadyCheck, Threads
  <1>13. MarksTrue' /\ RefusalsHeard'
    BY <1>1, <1>4, <1>12, MarksKept, RefusalsStayHeard DEF OrderInv, exchange, LiveOnGrid, TruthKept
  <1>14. TasksHold'
    BY <1>1, <1>7, <1>8, <1>9, <1>10, GoneStaysGone, TasksKept
    DEF OrderInv, Calm, TasksHold, exchange
  <1> QED
    BY <1>4, <1>11, <1>13, <1>14 DEF OrderInv

LEMMA SubscribesKeeps ==
  ASSUME Known, OrderInv, Subscribes
  PROVE  OrderInv'
  <1>1. /\ UNCHANGED <<orders, exchange, stranded, pc, todo, closing, inbox>>
        /\ UNCHANGED <<forgotten, overtaken, unheeded>> /\ count'.tests = count.tests
        /\ wire' = Append(wire, Request("sub", {}, {})) /\ wire \in Seq(Requests)
    BY DEF Subscribes, Offline, Known, SysTypeOK
  <1> DEFINE q == Request("sub", {}, {})
  <1>2. q \in Requests /\ Unplaced(q) = {} /\ q.op = "sub"
    <2>1. {} \in SUBSET ChainId
      OBVIOUS
    <2> QED
      BY <2>1, RequestTyped DEF Request, Unplaced
  <1>3. wire' = Append(wire, q)
    BY <1>1
  <1> HIDE DEF q
  <1>4. /\ \A id : (Sent(id)' <=> Sent(id)) /\ (Back(id)' <=> Back(id)) /\ (ToSend(id)' <=> ToSend(id))
        /\ \A r : Under(r)' <=> Under(r) \/ r = q
        /\ OnceOnWire' /\ OnceInMail' /\ OnceByThreads' /\ CancelsLast' /\ Mail' = Mail
    BY <1>1, <1>2, <1>3, PostedPlaces, MailAlone, ThreadsAlone DEF OrderInv, Quietly, Apart, Under
  <1>5. /\ \A task, id : Doing(task, id)' <=> Doing(task, id)
        /\ \A task : IsTask(task)' <=> IsTask(task)
        /\ \A id : ToClose(id)' <=> ToClose(id)
    BY <1>1, <1>2, <1>4 DEF Doing, IsTask, ToClose
  <1>6. Books
    BY <1>1 DEF Books, exchange, OrderInv, Quietly, Untaken
  <1>7. Calm
    BY <1>1, <1>2, <1>4, <1>5, <1>6
    DEF Calm, SamePlaces, Singles, SameDoing, Cares, InClosing
  <1>8. Quietly'
    BY <1>7, CalmKeeps DEF OrderInv
  <1>9. SteadyFeed /\ SteadyCheck
    BY <1>1 DEF SteadyFeed, SteadyCheck
  <1>10. MarksTrue' /\ RefusalsHeard'
    BY <1>1, <1>4, <1>9, MarksKept, RefusalsStayHeard DEF OrderInv, exchange, LiveOnGrid, TruthKept
  <1>11. TasksHold'
    BY <1>1, <1>5, <1>6, <1>7, GoneStaysGone, TasksKept DEF OrderInv, Calm, TasksHold, exchange
  <1> QED
    BY <1>4, <1>8, <1>10, <1>11 DEF OrderInv

---------------------------------------------------------------------------
(* The last to let go of the closing orders sends them.                    *)

LEMMA LetGoSends ==
  ASSUME NEW task \in SUBSET ChainId, NEW t, NEW n, LetGo(task, t, n), wire \in Seq(Requests),
         NEW q, q = Request("close", task, {})
  PROVE  /\ q \in Requests /\ Unplaced(q) = {} /\ q.op = "close" /\ q.ids = task /\ q.known = {}
         /\ \/ wire' = wire /\ (task = {} \/ Shared(task, t, n))
            \/ ~Shared(task, t, n) /\ wire' = Append(wire, q)
  <1>1. {} \in SUBSET ChainId
    OBVIOUS
  <1> QED
    BY <1>1, RequestTyped DEF LetGo, Request, Unplaced

\* Whoever lets go: the orders of the task are gone by then.
LetsGo(task) ==
  /\ UNCHANGED <<orders, exchange, stranded, forgotten, overtaken, unheeded>> /\ (count'.tests = count.tests)
  /\ \A id : (Sent(id)' <=> Sent(id)) /\ (Back(id)' <=> Back(id)) /\ (ToSend(id)' <=> ToSend(id))
  /\ OnceByThreads' /\ OnceOnWire' /\ OnceInMail'
  /\ SteadyFeed /\ SteadyCheck /\ Mail' \subseteq Mail /\ CancelsLast'
  /\ (\A t \in Threads : pc'[t] # "closeout") => (\A t \in Threads : pc[t] # "closeout")
  /\ IsTask(task)
  /\ \A c, id : Doing(c, id)' <=> Doing(c, id)
  /\ \A c : IsTask(c)' => IsTask(c) \/ c = {}
  /\ \A c : IsTask(c) => IsTask(c)' \/ c = task
  /\ \/ task = {} \/ IsTask(task)'
     \/ /\ \A id : ~Doing(task, id)
        /\ \A id : id \in task => ToClose(id)'
  /\ \A id : ToClose(id)' => ToClose(id) \/ (id \in task /\ \A k : ~Doing(task, k))
  /\ \A id : ToClose(id) => ToClose(id)'
  /\ \A r : Under(r)' /\ r.op = "close" => Under(r) \/ r.known = {}
  /\ \A t \in Threads : pc'[t] # "cancel" => closing'[t] = {}

LEMMA LetGoKeeps ==
  ASSUME Known, OrderInv, NEW task, LetsGo(task)
  PROVE  OrderInv'
  <1>1. Books
    BY DEF LetsGo, Books, exchange, OrderInv, Quietly, Untaken
  <1>2. Cares
    BY DEF LetsGo, Cares, InClosing
  <1>3. Calm
    BY <1>1, <1>2 DEF LetsGo, Calm, SamePlaces, Singles, SameDoing
  <1>4. Quietly'
    BY <1>3, CalmKeeps DEF OrderInv
  <1>5. MarksTrue'
    <2>1. TruthKept
      BY DEF LetsGo, exchange, TruthKept
    <2>2. MarksTrue /\ UNCHANGED orders /\ SteadyFeed /\ SteadyCheck /\ Mail' \subseteq Mail
      BY DEF LetsGo, OrderInv
    <2> QED
      BY <2>1, <2>2, MarksKept
  <1>6. RefusalsHeard'
    BY RefusalsStayHeard DEF LetsGo, OrderInv, LiveOnGrid
  <1>7. \A id : Gone(id) => Gone(id)'
    BY <1>1, <1>3, GoneStaysGone DEF Calm
  <1>8. \A id : ToClose(id)' \/ id \in closed' => ToClose(id) \/ id \in closed \/ Gone(id)'
    <2>1. \A k \in task : (\A id : ~Doing(task, id)) => Gone(k)
      BY DEF LetsGo, OrderInv, TasksHold
    <2> QED
      BY <1>7, <2>1 DEF LetsGo, exchange
  <1>9. TasksHold'
    BY <1>7, <1>8, TasksKept DEF LetsGo, OrderInv
  <1> QED
    BY <1>4, <1>5, <1>6, <1>9 DEF LetsGo, OrderInv

LEMMA CancelDoneKeeps ==
  ASSUME Known, OrderInv, NEW t \in Threads, CancelsDone(t)
  PROVE  OrderInv'
  <1>0. PICK task : task = closing[t]
    OBVIOUS
  <1> DEFINE q == Request("close", task, {})
  <1>1. /\ UNCHANGED <<orders, exchange, stranded, todo, inbox, forgotten, overtaken, unheeded>>
        /\ count'.tests = count.tests
        /\ pc[t] = "cancel" /\ todo[t] = {} /\ pc' = [pc EXCEPT ![t] = "idle"]
        /\ LetGo(task, t, 0) /\ closing' = [closing EXCEPT ![t] = {}] /\ task = closing[t]
        /\ todo \in [Threads -> SUBSET ChainId] /\ closing \in [Threads -> SUBSET ChainId]
        /\ wire \in Seq(Requests) /\ inbox \in Seq(Messages) /\ pc \in [Threads -> Steps] /\ MailInShape
    BY <1>0 DEF CancelsDone, Offline, Known, SysTypeOK
  <1>2. /\ q \in Requests /\ Unplaced(q) = {} /\ q.op = "close" /\ q.ids = task /\ q.known = {}
        /\ \/ wire' = wire /\ (task = {} \/ Shared(task, t, 0))
           \/ ~Shared(task, t, 0) /\ wire' = Append(wire, q)
    <2>1. task \in SUBSET ChainId
      BY <1>1
    <2>2. \A k : k = Request("close", task, {}) =>
            /\ k \in Requests /\ Unplaced(k) = {} /\ k.op = "close" /\ k.ids = task /\ k.known = {}
            /\ \/ wire' = wire /\ (task = {} \/ Shared(task, t, 0))
               \/ ~Shared(task, t, 0) /\ wire' = Append(wire, k)
      BY <1>1, <2>1, LetGoSends
    <2> QED
      BY <2>2
  <1> HIDE DEF q
  <1>3. Shared(task, t, 0) <=>
          \/ \E u \in Threads \ {t} : closing[u] = task
          \/ \E r : Under(r) /\ r.op = "cancel" /\ r.close = task
          \/ \E m \in Mail : m.kind = "answer" /\ m.ids = task
    <2>1. \A r : r \in Pending <=> Under(r)
      BY <1>1, PendingIs
    <2>2. 0 + 1 .. Len(inbox) = DOMAIN inbox
      BY <1>1
    <2> QED
      BY <2>1, <2>2 DEF Shared, Mail
  <1>4. /\ \A id : (Sent(id)' <=> Sent(id)) /\ (Back(id)' <=> Back(id))
        /\ OnceOnWire' /\ OnceInMail' /\ CancelsLast' /\ Mail' = Mail
    <2>1. CASE wire' = wire
      BY <1>1, <2>1, WireAlone, MailAlone DEF OrderInv, Quietly, Apart
    <2>2. CASE wire' = Append(wire, q)
      BY <1>1, <1>2, <2>2, PostedPlaces, MailAlone DEF OrderInv, Quietly, Apart
    <2> QED
      BY <1>2, <2>1, <2>2
  <1>5. /\ wire' = wire => \A r : Under(r)' <=> Under(r)
        /\ wire' = Append(wire, q) => \A r : Under(r)' <=> Under(r) \/ r = q
    BY <1>1, <1>2, <1>4, PostedPlaces, WireAlone DEF Under
  <1>6. \A u \in Threads : /\ u # t => pc'[u] = pc[u] /\ closing'[u] = closing[u]
                           /\ u = t => pc'[u] = "idle" /\ closing'[u] = {}
    BY <1>1
  <1>7. /\ \A id : ToSend(id)' <=> ToSend(id)
        /\ OnceByThreads'
    <2>1. \A u, id : SentBy(u, id)' /\ u \in Threads => SentBy(u, id)
      BY <1>1, <1>6 DEF SentBy
    <2>2. \A u, id : SentBy(u, id) /\ u \in Threads => SentBy(u, id)'
      BY <1>1, <1>6 DEF SentBy
    <2> QED
      BY <2>1, <2>2 DEF ToSend, OnceByThreads, OrderInv, Quietly, Apart
  <1>8. \A r : r.op # "close" => (Under(r)' <=> Under(r))
    BY <1>2, <1>5
  <1>9. \A c, id : Doing(c, id)' <=> Doing(c, id)
    BY <1>1, <1>6, <1>8 DEF Doing
  <1>10. /\ \A c : IsTask(c)' => IsTask(c) \/ c = {}
         /\ \A c : IsTask(c) => IsTask(c)' \/ c = task
         /\ IsTask(task)
    BY <1>1, <1>4, <1>6, <1>8 DEF IsTask
  <1>11. Shared(task, t, 0) => IsTask(task)'
    BY <1>3, <1>4, <1>6, <1>8 DEF IsTask
  <1>12. ~Shared(task, t, 0) => \A id : ~Doing(task, id)
    BY <1>1, <1>3 DEF Doing
  <1>13. /\ \A id : ToClose(id) => ToClose(id)'
         /\ wire' = wire => \A id : ToClose(id)' => ToClose(id)
         /\ wire' = Append(wire, q) => /\ \A id : ToClose(id)' => ToClose(id) \/ id \in task
                                       /\ \A id : id \in task => ToClose(id)'
         /\ \A r : Under(r)' => Under(r) \/ r.known = {}
    BY <1>2, <1>5 DEF ToClose
  <1>14. SteadyFeed /\ SteadyCheck
    BY <1>1, <1>6 DEF SteadyFeed, SteadyCheck, Threads
  <1>15. /\ (\A u \in Threads : pc'[u] # "closeout") => (\A u \in Threads : pc[u] # "closeout")
         /\ \A u \in Threads : pc'[u] # "cancel" => closing'[u] = {}
    BY <1>1, <1>6 DEF OrderInv, TasksHold
  <1>16. LetsGo(task)
    <2> QED
      BY <1>1, <1>2, <1>4, <1>7, <1>9, <1>10, <1>11, <1>12, <1>13, <1>14, <1>15 DEF LetsGo
  <1> QED
    BY <1>16, LetGoKeeps

LEMMA AnswerKeeps ==
  ASSUME Known, OrderInv, TakesAnswer
  PROVE  OrderInv'
  <1>0. PICK m : m = Head(inbox)
    OBVIOUS
  <1> DEFINE task == m.ids
             q == Request("close", task, {})
             t == "feed"
  <1>1. /\ UNCHANGED <<orders, exchange, stranded, pc, todo, closing, forgotten, overtaken, unheeded>>
        /\ count'.tests = count.tests
        /\ pc[t] = "idle" /\ inbox # <<>> /\ m.kind = "answer"
        /\ LetGo(task, t, 1) /\ inbox' = Tail(inbox) /\ t \in Threads
        /\ wire \in Seq(Requests) /\ inbox \in Seq(Messages) /\ MailInShape
    BY <1>0 DEF TakesAnswer, Offline, Known, SysTypeOK, Threads
  <1>3. /\ m \in Messages /\ m \in Mail /\ Mail = Mail' \cup {m}
        /\ \A id : Back(id) <=> Back(id)' \/ Holds(m, id)
        /\ OnceInMail => OnceInMail'
    BY <1>0, <1>1, MailPopped
  <1>4. \A id : ~Holds(m, id)
    BY <1>1 DEF Holds, Refusals
  <1>5. /\ q \in Requests /\ Unplaced(q) = {} /\ q.op = "close" /\ q.ids = task /\ q.known = {}
        /\ \/ wire' = wire /\ (task = {} \/ Shared(task, t, 1))
           \/ ~Shared(task, t, 1) /\ wire' = Append(wire, q)
    <2>1. task \in SUBSET ChainId
      BY <1>3 DEF Messages
    <2>2. \A k : k = Request("close", task, {}) =>
            /\ k \in Requests /\ Unplaced(k) = {} /\ k.op = "close" /\ k.ids = task /\ k.known = {}
            /\ \/ wire' = wire /\ (task = {} \/ Shared(task, t, 1))
               \/ ~Shared(task, t, 1) /\ wire' = Append(wire, k)
      BY <1>1, <2>1, LetGoSends
    <2> QED
      BY <2>2
  <1>6. Shared(task, t, 1) <=>
          \/ \E u \in Threads \ {t} : closing[u] = task
          \/ \E r : Under(r) /\ r.op = "cancel" /\ r.close = task
          \/ \E k \in Mail' : k.kind = "answer" /\ k.ids = task
    <2>1. \A r : r \in Pending <=> Under(r)
      BY <1>1, PendingIs
    <2>2. /\ \A i \in DOMAIN inbox' : i + 1 \in 1 + 1 .. Len(inbox) /\ inbox'[i] = inbox[i + 1]
          /\ \A j \in 1 + 1 .. Len(inbox) : j - 1 \in DOMAIN inbox' /\ inbox'[j - 1] = inbox[j]
      <3>1. /\ Len(inbox) \in Nat /\ Len(inbox) > 0 /\ DOMAIN inbox = 1 .. Len(inbox)
            /\ DOMAIN inbox' = 1 .. Len(inbox) - 1
            /\ \A i \in 1 .. Len(inbox) - 1 : inbox'[i] = inbox[i + 1]
        BY <1>1
      <3> QED
        BY <3>1
    <2>3. (\E i \in 1 + 1 .. Len(inbox) : inbox[i].kind = "answer" /\ inbox[i].ids = task)
            <=> \E k \in Mail' : k.kind = "answer" /\ k.ids = task
      <3> HIDE DEF task
      <3> QED
        BY <2>2 DEF Mail
    <2> HIDE DEF task
    <2> QED
      BY <2>1, <2>3 DEF Shared
  <1> HIDE DEF q, task
  <1>7. task = m.ids
    BY DEF task
  <1>8. /\ \A id : (Sent(id)' <=> Sent(id)) /\ (Back(id)' <=> Back(id))
        /\ OnceOnWire' /\ OnceInMail' /\ CancelsLast'
    <2>1. CASE wire' = wire
      BY <1>1, <1>3, <1>4, <2>1, WireAlone DEF OrderInv, Quietly, Apart
    <2>2. CASE wire' = Append(wire, q)
      BY <1>1, <1>3, <1>4, <1>5, <2>2, PostedPlaces DEF OrderInv, Quietly, Apart
    <2> QED
      BY <1>5, <2>1, <2>2
  <1>9. /\ wire' = wire => \A r : Under(r)' <=> Under(r)
        /\ wire' = Append(wire, q) => \A r : Under(r)' <=> Under(r) \/ r = q
    <2>1. \A k \in Mail : k.kind = "busy" => k \in Mail'
      BY <1>1, <1>3
    <2>2. Mail' \subseteq Mail
      BY <1>3
    <2>3. wire' = wire => Wired' = Wired
      BY WireAlone
    <2>4. wire' = Append(wire, q) => Wired' = Wired \cup {q}
      BY <1>1, <1>5, PostedPlaces
    <2> QED
      BY <2>1, <2>2, <2>3, <2>4 DEF Under
  <1>10. \A r : r.op # "close" => (Under(r)' <=> Under(r))
    BY <1>5, <1>9
  <1>11. \A c, id : Doing(c, id)' <=> Doing(c, id)
    BY <1>1, <1>10 DEF Doing
  <1>12. /\ \A c : IsTask(c)' => IsTask(c) \/ c = {}
         /\ \A c : IsTask(c) => IsTask(c)' \/ c = task
         /\ IsTask(task)
    BY <1>1, <1>3, <1>7, <1>10 DEF IsTask
  <1>13. Shared(task, t, 1) => IsTask(task)'
    BY <1>1, <1>6, <1>10 DEF IsTask
  <1>14. ~Shared(task, t, 1) => \A id : ~Doing(task, id)
    BY <1>1, <1>6 DEF Doing
  <1>15. /\ \A id : ToClose(id) => ToClose(id)'
         /\ wire' = wire => \A id : ToClose(id)' => ToClose(id)
         /\ wire' = Append(wire, q) => /\ \A id : ToClose(id)' => ToClose(id) \/ id \in task
                                       /\ \A id : id \in task => ToClose(id)'
         /\ \A r : Under(r)' => Under(r) \/ r.known = {}
    BY <1>5, <1>9 DEF ToClose
  <1>16. /\ SteadyFeed /\ SteadyCheck
         /\ \A id : ToSend(id)' <=> ToSend(id)
         /\ OnceByThreads'
         /\ (\A u \in Threads : pc'[u] # "closeout") => (\A u \in Threads : pc[u] # "closeout")
         /\ \A u \in Threads : pc'[u] # "cancel" => closing'[u] = {}
    <2>1. SteadyFeed
      BY <1>1 DEF SteadyFeed
    <2>2. OnceByThreads
      BY DEF OrderInv, Quietly, Apart
    <2>3. \A u \in Threads : pc'[u] # "cancel" => closing'[u] = {}
      BY <1>1 DEF OrderInv, TasksHold
    <2> QED
      BY <1>1, <2>1, <2>2, <2>3, ThreadsAlone
  <1>17. LetsGo(task)
    BY <1>1, <1>3, <1>5, <1>8, <1>11, <1>12, <1>13, <1>14, <1>15, <1>16 DEF LetsGo
  <1> QED
    BY <1>17, LetGoKeeps

---------------------------------------------------------------------------
(* What the exchange and the connection do beside placing and cancelling.  *)

LEMMA SettleKeeps ==
  ASSUME Known, OrderInv, NEW r, Settles(r)
  PROVE  OrderInv'
  <1>1. /\ wire # <<>> /\ r = Head(wire) /\ wire' = Tail(wire) /\ r.op # "place"
        /\ UNCHANGED <<orders, pc, todo, closing, forgotten, overtaken, live, part, filled>>
        /\ count'.tests = count.tests /\ stranded \subseteq stranded' /\ unheeded \subseteq unheeded'
        /\ closed \subseteq closed' /\ (\A id \in closed' : id \in closed \/ (r.op = "close" /\ id \in r.ids))
        /\ wire \in Seq(Requests) /\ inbox \in Seq(Messages) /\ HasMessage
    BY DEF Settles, Serves, Known, SysTypeOK
  <1>2. PICK m, n : \E told \in BOOLEAN :
          /\ Hears(m, n, told) /\ m.kind # "Canceled" /\ m.ids = {} /\ n.ids = {} /\ n.known = {}
          /\ IF told /\ n.kind = "busy" THEN Again(r, n)
             ELSE n.kind = "refused" /\ n.again = <<>> /\ ClosesAll(r)
    BY DEF Settles
  <1>3. PICK told \in BOOLEAN :
          /\ Hears(m, n, told) /\ m.kind # "Canceled" /\ m.ids = {} /\ n.ids = {} /\ n.known = {}
          /\ IF told /\ n.kind = "busy" THEN Again(r, n)
             ELSE n.kind = "refused" /\ n.again = <<>> /\ ClosesAll(r)
    BY <1>2
  <1>4. /\ r \in Wired /\ Wired = Wired' \cup {r}
        /\ \A id : Sent(id) <=> Sent(id)' \/ id \in Unplaced(r)
        /\ OnceOnWire => OnceOnWire'
        /\ CancelsLast => CancelsLast'
    BY <1>1, WirePopped
  <1>5. /\ m.kind \in Statuses \ {"Empty"} /\ n.kind \in Refusals /\ Marked(m) = {} /\ Marked(n) = {}
        /\ n.kind = "busy" => \A q : n.again = <<q>> => n.again[1] = q
    BY <1>3 DEF Hears, Marked, Again, Refusals
  <1>6. Unplaced(r) = {} /\ \A id : told => ~Holds(n, id)
    BY <1>1, <1>3, <1>5 DEF Holds, Unplaced, Again, SameRequest, Refusals
  <1>7. /\ Mail \subseteq Mail' /\ (\A k \in Mail' : k \in Mail \/ k = m \/ (told /\ k = n))
        /\ told => n \in Mail'
        /\ \A id : Back(id)' <=> Back(id)
        /\ OnceInMail => OnceInMail'
        /\ inbox # <<>> => inbox'[1] = inbox[1]
    BY <1>1, <1>3, <1>6, MailSaid
  <1>8. PICK q : /\ \A k : Under(k)' => Under(k) \/ k = q
                 /\ \A k : Under(k) => Under(k)' \/ k = r
                 /\ \/ /\ Under(q)' /\ SameRequest(q, r)
                       /\ r.op = "close" => q.known \subseteq r.known \cup closed'
                    \/ q = r /\ ClosesAll(r)
    <2>1. CASE told /\ n.kind = "busy"
      <3>1. PICK q : /\ SameRequest(q, r) /\ n.again = <<q>>
                     /\ r.op = "close" => q.known \subseteq r.known \cup closed'
        BY <1>3, <2>1 DEF Again
      <3>2. n.again[1] = q
        BY <3>1
      <3>3. /\ \A k : Under(k)' => Under(k) \/ k = q
            /\ \A k : Under(k) => Under(k)' \/ k = r
            /\ Under(q)'
        BY <1>4, <1>5, <1>7, <2>1, <3>2 DEF Under, Statuses
      <3> QED
        BY <3>1, <3>3
    <2>2. CASE ~(told /\ n.kind = "busy")
      <3>1. /\ \A k : Under(k)' => Under(k)
            /\ \A k : Under(k) => Under(k)' \/ k = r
        BY <1>4, <1>5, <1>7, <2>2 DEF Under, Statuses
      <3> QED
        BY <1>3, <2>2, <3>1
    <2> QED
      BY <2>1, <2>2
  <1>9. Under(r) /\ (r.op = "close" => r.known \subseteq closed)
    BY <1>4 DEF Under, OrderInv, Quietly, ExitsCovered
  <1>10. /\ \A task, id : Doing(task, id)' <=> Doing(task, id)
         /\ \A task : IsTask(task)' <=> IsTask(task)
    <2>1. \A task, id : (\E k : Under(k)' /\ k.op = "cancel" /\ k.close = task /\ id \in k.ids)
                          <=> \E k : Under(k) /\ k.op = "cancel" /\ k.close = task /\ id \in k.ids
      BY <1>8, <1>9 DEF SameRequest, ClosesAll
    <2>2. \A task : (\E k : Under(k)' /\ k.op = "cancel" /\ k.close = task)
                      <=> \E k : Under(k) /\ k.op = "cancel" /\ k.close = task
      BY <1>8, <1>9 DEF SameRequest, ClosesAll
    <2>3. \A k : k.kind = "answer" => (k \in Mail' <=> k \in Mail)
      BY <1>5, <1>7 DEF Statuses, Refusals
    <2>4. \A task, id : Doing(task, id)' <=> Doing(task, id)
      BY <1>1, <2>1 DEF Doing
    <2>5. \A task : (\E k \in Mail' : k.kind = "answer" /\ k.ids = task)
                      <=> \E k \in Mail : k.kind = "answer" /\ k.ids = task
      BY <2>3
    <2>6. \A task : (\E t \in Threads : closing'[t] = task) <=> \E t \in Threads : closing[t] = task
      BY <1>1
    <2>7. \A task : IsTask(task)' <=> IsTask(task)
      BY <2>2, <2>5, <2>6 DEF IsTask
    <2> QED
      BY <2>4, <2>7
  <1>11. /\ \A id : ToClose(id)' => ToClose(id)
         /\ \A id : ToClose(id) => ToClose(id)' \/ Opens(id) \/ id \in closed' \/ Opener(id) \in stranded'
         /\ \A id \in closed' : id \in closed \/ ToClose(id)
    <2>1. \A id : ToClose(id)' => ToClose(id)
      BY <1>8, <1>9 DEF ToClose, SameRequest
    <2>2. \A id : ToClose(id) => ToClose(id)' \/ Opens(id) \/ id \in closed' \/ Opener(id) \in stranded'
      BY <1>8, <1>9 DEF ToClose, SameRequest, ClosesAll
    <2>3. \A id \in closed' : id \in closed \/ ToClose(id)
      BY <1>1, <1>9 DEF ToClose
    <2> QED
      BY <2>1, <2>2, <2>3
  <1>12. Books
    BY <1>1 DEF Books, OrderInv, Quietly, Untaken
  <1>13. Calm
    <2>1. Cares
      BY <1>10, <1>11 DEF Cares, InClosing
    <2>2. \A k : Under(k)' /\ k.op = "close" => Under(k) \/ k.known \subseteq closed'
      BY <1>1, <1>8, <1>9 DEF SameRequest
    <2>3. \A k \in Mail' : k.kind \in Refusals => k \in Mail \/ Marked(k) = {}
      BY <1>5, <1>7
    <2> QED
      BY <1>1, <1>4, <1>6, <1>7, <1>10, <1>12, <2>1, <2>2, <2>3, ThreadsAlone
      DEF Calm, SamePlaces, Singles, SameDoing, OrderInv, Quietly, Apart
  <1>14. SteadyFeed /\ SteadyCheck
    BY <1>1, <1>7, ThreadsAlone DEF SteadyFeed, HasMessage
  <1>15. MarksTrue'
    <2>1. TruthKept
      BY <1>1 DEF TruthKept
    <2>2. \A k \in Mail' : k \in Mail \/ TrueMessage(k)
      BY <1>3, <1>7 DEF TrueMessage
    <2> QED
      BY <1>1, <1>14, <2>1, <2>2, MarksKept DEF OrderInv
  <1>16. RefusalsHeard'
    BY <1>1, <1>14, RefusalsStayHeard DEF OrderInv, LiveOnGrid
  <1>17. TasksHold'
    <2>1. \A id : Gone(id) => Gone(id)'
      BY <1>1, <1>13, GoneStaysGone DEF Calm
    <2>2. \A t \in Threads : pc'[t] # "cancel" => closing'[t] = {}
      BY <1>1 DEF OrderInv, TasksHold
    <2> QED
      BY <1>10, <1>11, <2>1, <2>2, TasksKept DEF OrderInv
  <1> QED
    BY <1>1, <1>4, <1>13, <1>15, <1>16, <1>17, CalmKeeps DEF OrderInv

LEMMA PushKeeps ==
  ASSUME Known, OrderInv, UNCHANGED <<orders, pc, todo, closing, wire, closed>>, Books,
         count'.tests = count.tests,
         NEW S \in SUBSET ChainId, NEW status \in {"Filled", "PartiallyFilled"},
         S \subseteq filled' \cup part', inbox' = Pushed(S, status)
  PROVE  OrderInv'
  <1> DEFINE m == Message(status, S)
  <1>1. m \in Messages /\ m.ids = S /\ m.kind = status
    BY MessageTyped DEF Message, Answer, Statuses
  <1>2. inbox' = inbox \/ inbox' = Append(inbox, m)
    BY DEF Pushed
  <1> HIDE DEF m
  <1>3. \A id : ~Holds(m, id)
    BY <1>1 DEF Holds, Refusals
  <1>4. inbox \in Seq(Messages) /\ HasMessage /\ wire \in Seq(Requests)
    BY DEF Known, SysTypeOK
  <1>5. /\ Mail' = Mail \/ Mail' = Mail \cup {m}
        /\ \A id : Back(id)' <=> Back(id)
        /\ OnceInMail => OnceInMail'
        /\ inbox # <<>> => inbox'[1] = inbox[1]
    BY <1>1, <1>2, <1>3, <1>4, MailPosted, MailAlone
  <1>6. \A q : Under(q)' <=> Under(q)
    BY <1>1, <1>5, WireAlone DEF Under
  <1>7. /\ \A task, id : Doing(task, id)' <=> Doing(task, id)
        /\ \A task : IsTask(task)' <=> IsTask(task)
        /\ \A id : ToClose(id)' <=> ToClose(id)
    BY <1>1, <1>5, <1>6 DEF Doing, IsTask, ToClose
  <1>8. Calm
    <2>1. \A k \in Mail' : k.kind \in Refusals => k \in Mail
      BY <1>1, <1>5 DEF Refusals
    <2>2. /\ \A id : (Sent(id)' <=> Sent(id)) /\ (ToSend(id)' <=> ToSend(id))
          /\ OnceByThreads' /\ OnceOnWire' /\ OnceInMail'
          /\ (\A u \in Threads : pc'[u] # "closeout") => (\A u \in Threads : pc[u] # "closeout")
      BY <1>5, WireAlone, ThreadsAlone DEF OrderInv, Quietly, Apart
    <2> QED
      BY <1>5, <1>6, <1>7, <2>1, <2>2 DEF Calm, SamePlaces, Singles, SameDoing, Cares, InClosing
  <1>9. SteadyFeed /\ SteadyCheck
    BY <1>4, <1>5, ThreadsAlone DEF SteadyFeed, HasMessage
  <1>10. MarksTrue'
    <2>1. TruthKept
      BY DEF Books, TruthKept
    <2>2. \A k \in Mail' : k \in Mail \/ TrueMessage(k)
      BY <1>1, <1>5 DEF TrueMessage
    <2> QED
      BY <1>9, <2>1, <2>2, MarksKept DEF OrderInv
  <1>11. RefusalsHeard'
    BY <1>9, RefusalsStayHeard DEF OrderInv, LiveOnGrid
  <1>12. TasksHold'
    BY <1>7, <1>8, GoneStaysGone, TasksKept DEF OrderInv, Calm, TasksHold
  <1>13. CancelsLast'
    BY WireAlone DEF OrderInv, Books
  <1> QED
    BY <1>8, <1>10, <1>11, <1>12, <1>13, CalmKeeps DEF OrderInv

LEMMA FillKeeps ==
  ASSUME Known, OrderInv, NEW id \in live, Fill(id)
  PROVE  OrderInv'
  <1>1. {id} \in SUBSET ChainId
    BY DEF Known, SysTypeOK
  <1>2. /\ live' = live \ {id} /\ part' = part \ {id} /\ filled' = filled \cup {id}
        /\ inbox' = Pushed({id}, "Filled")
        /\ UNCHANGED <<orders, pc, todo, closing, wire, closed, forgotten, overtaken, unheeded, stranded, count>>
    BY DEF Fill, vars, history
  <1>3. Books
    BY <1>2 DEF Books, OrderInv, Quietly, Untaken
  <1> QED
    BY <1>1, <1>2, <1>3, PushKeeps

LEMMA FillInPartKeeps ==
  ASSUME Known, OrderInv, NEW id \in live, FillInPart(id)
  PROVE  OrderInv'
  <1>1. {id} \in SUBSET ChainId /\ count \in Counts
    BY DEF Known, SysTypeOK
  <1>2. /\ part' = part \cup {id} /\ inbox' = Pushed({id}, "PartiallyFilled")
        /\ UNCHANGED <<orders, pc, todo, closing, wire, live, filled, closed, forgotten, overtaken, unheeded,
                       stranded>>
    BY DEF FillInPart, vars
  <1>3. Books
    BY <1>2 DEF Books, OrderInv, Quietly, Untaken
  <1>4. count'.tests = count.tests
    BY <1>1, TestsCounted DEF FillInPart
  <1> QED
    BY <1>1, <1>2, <1>3, <1>4, PushKeeps

LEMMA BreakKeeps ==
  ASSUME Known, OrderInv, Break
  PROVE  OrderInv'
  <1>1. /\ UNCHANGED <<orders, pc, todo, closing, wire, exchange, forgotten, overtaken, unheeded, stranded>>
        /\ inbox \in Seq(Messages) /\ HasMessage /\ count \in Counts
    BY DEF Break, vars, Known, SysTypeOK
  <1>2. count'.tests = count.tests
    BY <1>1, TestsCounted DEF Break
  <1>3. /\ Mail' \subseteq Mail
        /\ \A m \in Mail : m.kind \notin Statuses => m \in Mail'
        /\ \A id : Back(id)' <=> Back(id)
        /\ OnceInMail => OnceInMail'
        /\ pc["feed"] = "mark" => inbox' # <<>> /\ inbox'[1] = inbox[1]
    BY <1>1, MailBroken
  <1>4. /\ \A m \in Mail : m.kind \in {"busy", "answer"} => m \in Mail'
    BY <1>3 DEF Statuses
  <1>5. \A q : Under(q)' <=> Under(q)
    BY <1>1, <1>3, <1>4, WireAlone DEF Under
  <1>6. /\ \A task, id : Doing(task, id)' <=> Doing(task, id)
        /\ \A task : IsTask(task)' <=> IsTask(task)
        /\ \A id : ToClose(id)' <=> ToClose(id)
    BY <1>1, <1>3, <1>4, <1>5 DEF Doing, IsTask, ToClose
  <1>7. Books
    BY <1>1 DEF Books, exchange, OrderInv, Quietly, Untaken
  <1>8. Calm
    <2>2. /\ \A id : (Sent(id)' <=> Sent(id)) /\ (ToSend(id)' <=> ToSend(id))
          /\ OnceByThreads' /\ OnceOnWire' /\ OnceInMail'
          /\ (\A u \in Threads : pc'[u] # "closeout") => (\A u \in Threads : pc[u] # "closeout")
      BY <1>1, <1>3, WireAlone, ThreadsAlone DEF OrderInv, Quietly, Apart
    <2> QED
      BY <1>1, <1>2, <1>3, <1>5, <1>6, <1>7, <2>2
      DEF Calm, SamePlaces, Singles, SameDoing, Cares, InClosing
  <1>9. SteadyFeed /\ SteadyCheck
    BY <1>1, <1>3, ThreadsAlone DEF SteadyFeed
  <1>10. MarksTrue'
    <2>1. TruthKept
      BY <1>1 DEF TruthKept, exchange
    <2> QED
      BY <1>1, <1>3, <1>9, <2>1, MarksKept DEF OrderInv
  <1>11. RefusalsHeard'
    BY <1>1, <1>9, RefusalsStayHeard DEF OrderInv, LiveOnGrid
  <1>12. TasksHold'
    BY <1>1, <1>6, <1>7, <1>8, GoneStaysGone, TasksKept DEF OrderInv, Calm, TasksHold, exchange
  <1>13. CancelsLast'
    BY <1>1, WireAlone DEF OrderInv
  <1> QED
    BY <1>8, <1>10, <1>11, <1>12, <1>13, CalmKeeps DEF OrderInv

LEMMA MarkedPassKeeps ==
  ASSUME Known, OrderInv, MarkedPass
  PROVE  OrderInv'
  <1>0. PICK m : m = Head(inbox)
    OBVIOUS
  <1>1. /\ UNCHANGED <<orders, todo, closing, wire, exchange, forgotten, overtaken, unheeded, stranded, count>>
        /\ pc["feed"] = "mark" /\ pc' = [pc EXCEPT !["feed"] = "pass"] /\ todo["feed"] = {}
        /\ m.kind # "busy" /\ inbox' = Tail(inbox) /\ inbox # <<>>
        /\ inbox \in Seq(Messages) /\ pc \in [Threads -> Steps] /\ "feed" \in Threads
    BY <1>0 DEF MarkedPass, Goto, vars, history, Known, SysTypeOK, HasMessage, Threads
  <1>2. /\ m \in Messages /\ m \in Mail /\ m = inbox[1] /\ Mail = Mail' \cup {m}
        /\ \A id : Back(id) <=> Back(id)' \/ Holds(m, id)
        /\ OnceInMail => OnceInMail'
    BY <1>0, <1>1, MailPopped
  <1>3. m.kind # "answer"
    BY <1>1, <1>2 DEF OrderInv, MarksTrue
  <1>4. \A id : Holds(m, id) => ~LiveOnGrid(id)
    BY <1>1, <1>2 DEF OrderInv, RefusalsHeard, Holds
  <1>5. \A q : Under(q)' <=> Under(q)
    BY <1>1, <1>2, WireAlone DEF Under
  <1>6. \A u \in Threads : /\ u # "feed" => pc'[u] = pc[u]
                           /\ u = "feed" => pc'[u] = "pass" /\ pc[u] = "mark"
    BY <1>1
  <1>7. /\ \A task, id : Doing(task, id)' <=> Doing(task, id)
        /\ \A task : IsTask(task)' <=> IsTask(task)
        /\ \A id : ToClose(id)' <=> ToClose(id)
    <2>1. \A u \in Threads : pc'[u] = "cancel" <=> pc[u] = "cancel"
      BY <1>6
    <2> QED
      BY <1>1, <1>2, <1>3, <1>5, <2>1 DEF Doing, IsTask, ToClose
  <1>8. Books
    BY <1>1 DEF Books, exchange, OrderInv, Quietly, Untaken
  <1>9. Calm
    <2>1. \A u \in Threads : /\ pc'[u] = "send" <=> pc[u] = "send"
                             /\ pc'[u] = "closeout" <=> pc[u] = "closeout"
      BY <1>6
    <2>2. /\ \A id : ToSend(id)' <=> ToSend(id)
          /\ OnceByThreads'
      BY <1>1, <2>1 DEF ToSend, SentBy, OnceByThreads, OrderInv, Quietly, Apart
    <2>3. /\ \A id : Sent(id)' <=> Sent(id)
          /\ OnceOnWire' /\ OnceInMail'
      BY <1>1, <1>2, WireAlone DEF OrderInv, Quietly, Apart
    <2> QED
      BY <1>1, <1>2, <1>4, <1>5, <1>7, <1>8, <2>1, <2>2, <2>3
      DEF Calm, SamePlaces, Singles, SameDoing, Cares, InClosing
  <1>10. SteadyFeed /\ SteadyCheck
    BY <1>1, <1>6 DEF SteadyFeed, SteadyCheck, Threads
  <1>11. MarksTrue'
    <2>1. TruthKept
      BY <1>1 DEF TruthKept, exchange
    <2> QED
      BY <1>1, <1>2, <1>10, <2>1, MarksKept DEF OrderInv
  <1>12. RefusalsHeard'
    BY <1>1, <1>10, RefusalsStayHeard DEF OrderInv, LiveOnGrid
  <1>13. TasksHold'
    <2>1. \A u \in Threads : pc'[u] # "cancel" => closing'[u] = {}
      BY <1>1, <1>6 DEF OrderInv, TasksHold
    <2> QED
      BY <1>1, <1>7, <1>8, <1>9, <2>1, GoneStaysGone, TasksKept DEF OrderInv, Calm, exchange
  <1>14. CancelsLast'
    BY <1>1, WireAlone DEF OrderInv
  <1> QED
    BY <1>9, <1>11, <1>12, <1>13, <1>14, CalmKeeps DEF OrderInv

---------------------------------------------------------------------------
(* A batch on its way.                                                     *)

\* What is in a request that is on the wire or to be sent again.
LEMMA CancellingIs ==
  \A r : Under(r) /\ r.op = "cancel" => \A id \in r.ids : Doing(r.close, id) /\ Cancelling(id)
  BY DEF Doing, Cancelling

LEMMA SendKeeps ==
  ASSUME Known, OrderInv, NEW t \in Threads, NEW B, SendsBatch(t, B)
  PROVE  OrderInv'
  <1> DEFINE q == Request("place", B, {})
  <1>1. /\ UNCHANGED <<orders, exchange, stranded, pc, closing, inbox, forgotten, unheeded>>
        /\ count'.tests = count.tests
        /\ pc[t] = "send" /\ B \in SUBSET todo[t] /\ todo' = [todo EXCEPT ![t] = @ \ B]
        /\ wire' = Append(wire, q) /\ overtaken' = overtaken \cup (B \ Ids(orders))
        /\ todo \in [Threads -> SUBSET ChainId] /\ wire \in Seq(Requests)
        /\ orders \subseteq Order
    BY DEF SendsBatch, Offline, Known, SysTypeOK, TypeOK
  <1>2. /\ q \in Requests /\ Unplaced(q) = B /\ q.op = "place"
    <2>1. B \in SUBSET ChainId /\ {} \in SUBSET ChainId
      BY <1>1
    <2> QED
      BY <2>1, RequestTyped DEF Request, Unplaced
  <1> HIDE DEF q
  <1>3. \A u \in Threads : /\ u # t => todo'[u] = todo[u]
                           /\ u = t => todo'[u] = todo[t] \ B
    BY <1>1
  <1>4. /\ \A id : ToSend(id) <=> ToSend(id)' \/ id \in B
        /\ OnceByThreads' /\ \A id \in B : ~ToSend(id)' /\ ToSend(id)
    BY <1>1, <1>3 DEF ToSend, SentBy, OnceByThreads, OrderInv, Quietly, Apart
  <1>5. \A id \in B : ~Sent(id) /\ ~Back(id) /\ id \notin live \cup filled
    BY <1>4 DEF OrderInv, Quietly, Apart, Untaken
  <1>6. /\ Wired' = Wired \cup {q}
        /\ \A id : Sent(id)' <=> Sent(id) \/ id \in B
        /\ OnceOnWire'
    BY <1>1, <1>2, <1>5, WirePosted DEF OrderInv, Quietly, Apart
  <1>7. /\ \A id : Back(id)' <=> Back(id)
        /\ OnceInMail' /\ Mail' = Mail
    BY <1>1, MailAlone DEF OrderInv, Quietly, Apart
  <1>8. \A r : Under(r)' <=> Under(r) \/ r = q
    BY <1>6, <1>7 DEF Under
  <1>9. /\ \A task, id : Doing(task, id)' <=> Doing(task, id)
        /\ \A task : IsTask(task)' <=> IsTask(task)
        /\ \A id : ToClose(id)' <=> ToClose(id)
        /\ \A id : Cancelling(id)' <=> Cancelling(id)
        /\ \A id : InClosing(id)' <=> InClosing(id)
    <2>1. \A r : r.op # "place" => (Under(r)' <=> Under(r))
      BY <1>2, <1>8
    <2>2. \A task, id : Doing(task, id)' <=> Doing(task, id)
      BY <1>1, <1>3, <2>1 DEF Doing
    <2>3. /\ \A task : IsTask(task)' <=> IsTask(task)
          /\ \A id : ToClose(id)' <=> ToClose(id)
      BY <1>1, <1>7, <2>1 DEF IsTask, ToClose
    <2> QED
      BY <2>2, <2>3 DEF Cancelling, InClosing
  <1>10. Apart' /\ Untaken' /\ CancelsDropped' /\ Turns' /\ OneStatus'
    <2>1. Apart'
      BY <1>4, <1>5, <1>6, <1>7 DEF OrderInv, Quietly, Apart
    <2>2. Untaken'
      BY <1>1, <1>4, <1>6, <1>7 DEF OrderInv, Quietly, Untaken, exchange
    <2>3. CancelsDropped' /\ Turns' /\ OneStatus'
      BY <1>1, <1>9 DEF OrderInv, Quietly, CancelsDropped, Turns, OneStatus, Ids
    <2> QED
      BY <2>1, <2>2, <2>3
  <1>11. RefusedGone'
    BY <1>1, <1>4, <1>6 DEF OrderInv, Quietly, RefusedGone, exchange
  <1>12. Tracked'
    <2>1. ASSUME NEW id \in B
          PROVE  LiveOnGrid(id) \/ id \in forgotten \/ id \in overtaken'
      <3>1. CASE id \notin Ids(orders)
        BY <1>1, <3>1
      <3>2. ASSUME NEW o \in orders, o.id = id
            PROVE  LiveOnGrid(id) \/ id \in forgotten
        <4>1. o.status \in Statuses /\ o.status # "Empty"
          BY <1>1, <3>2 DEF Order, OrderInv, MarksTrue
        <4>2. o.status \notin {"Filled", "PartiallyFilled"}
          BY <1>5, <3>2 DEF OrderInv, Quietly, Untaken, MarksTrue
        <4>3. o.status = "Canceled" => id \in forgotten
          BY <1>4, <3>2 DEF OrderInv, Quietly, RefusedGone
        <4> QED
          BY <3>2, <4>1, <4>2, <4>3 DEF Statuses, LiveOnGrid
      <3> QED
        BY <3>1, <3>2 DEF Ids
    <2> QED
      BY <1>1, <1>6, <1>9, <2>1 DEF OrderInv, Quietly, Tracked, LiveOnGrid, Stray, exchange
  <1>13. Awaited'
    BY <1>1, <1>4, <1>6, <1>7 DEF OrderInv, Quietly, Awaited, exchange
  <1>14. ExitsCovered' /\ Covered'
    <2>1. ExitsCovered'
      BY <1>1, <1>2, <1>7, <1>8, <1>9 DEF OrderInv, Quietly, ExitsCovered, Marked, exchange
    <2>2. Covered'
      BY <1>1, <1>4, <1>6, <1>9 DEF OrderInv, Quietly, Covered, Cared, Ids, exchange
    <2> QED
      BY <2>1, <2>2
  <1>15. SteadyFeed /\ SteadyCheck
    BY <1>1, <1>3 DEF SteadyFeed, SteadyCheck, Threads
  <1>16. MarksTrue'
    <2>1. TruthKept
      BY <1>1 DEF TruthKept, exchange
    <2> QED
      BY <1>1, <1>7, <1>15, <2>1, MarksKept DEF OrderInv
  <1>17. RefusalsHeard'
    BY <1>1, <1>15, RefusalsStayHeard DEF OrderInv, LiveOnGrid
  <1>18. CancelsLast'
    <2>1. \A r \in Wired : r.op = "cancel" =>
            \A id \in r.ids \cap Unplaced(q) : Stray(id)'
      <3>1. \A r \in Wired : Under(r)
        BY DEF Under
      <3>2. \A r \in Wired : r.op = "cancel" => \A id \in r.ids : id \notin Ids(orders)
        BY <3>1, CancellingIs DEF OrderInv, Quietly, CancelsDropped
      <3> QED
        BY <1>1, <1>2, <3>2 DEF Stray
    <2>2. forgotten \subseteq forgotten' /\ overtaken \subseteq overtaken' /\ unheeded \subseteq unheeded' /\ CancelsLast
      BY <1>1 DEF OrderInv
    <2> QED
      BY <1>1, <1>2, <2>1, <2>2, CancelsLastPosted
  <1>19. TasksHold'
    <2>1. \A id : Gone(id) => Gone(id)'
      BY <1>1, <1>6 DEF Gone, Stray, exchange, Ids
    <2> QED
      BY <1>1, <1>9, <2>1, TasksKept DEF OrderInv, TasksHold, exchange
  <1> QED
    BY <1>10, <1>11, <1>12, <1>13, <1>14, <1>16, <1>17, <1>18, <1>19 DEF OrderInv, Quietly

LEMMA RetryKeeps ==
  ASSUME Known, OrderInv, Retry
  PROVE  OrderInv'
  <1>0. PICK m : m = Head(inbox)
    OBVIOUS
  <1>1. /\ UNCHANGED <<orders, todo, closing, exchange, overtaken, unheeded, stranded, count>>
        /\ pc["feed"] = "mark" /\ pc' = [pc EXCEPT !["feed"] = "idle"] /\ todo["feed"] = {}
        /\ m.kind = "busy" /\ inbox' = Tail(inbox) /\ inbox # <<>>
        /\ wire' = wire \o m.again
        /\ forgotten' = forgotten \cup
              UNION {m.again[i].ids \ (m.again[i].known \cup Ids(Kept)) :
                       i \in {j \in DOMAIN m.again : m.again[j].op = "place"}}
        /\ inbox \in Seq(Messages) /\ wire \in Seq(Requests) /\ orders \subseteq Order
        /\ pc \in [Threads -> Steps] /\ "feed" \in Threads /\ MailInShape
    BY <1>0 DEF Retry, Goto, vars, Known, SysTypeOK, HasMessage, Threads, TypeOK
  <1>2. /\ m \in Messages /\ m \in Mail /\ m = inbox[1] /\ Mail = Mail' \cup {m}
        /\ \A id : Back(id) <=> Back(id)' \/ Holds(m, id)
        /\ OnceInMail' /\ \A id : Holds(m, id) => ~Back(id)'
    BY <1>0, <1>1, MailPopped DEF OrderInv, Quietly, Apart
  <1>3. PICK q \in Requests : m.again = <<q>>
    BY <1>1, <1>2 DEF MailInShape
  <1>4. /\ m.again[1] = q /\ DOMAIN m.again = {1}
        /\ wire' = Append(wire, q)
    <2>1. <<q>>[1] = q /\ DOMAIN <<q>> = {1}
      OBVIOUS
    <2>2. wire \o <<q>> = Append(wire, q)
      BY <1>1, <1>3
    <2> QED
      BY <1>1, <1>3, <2>1, <2>2
  <1>5. forgotten' = forgotten \cup (Unplaced(q) \ Ids(Kept))
    <2>1. CASE q.op = "place"
      <3>1. {j \in DOMAIN m.again : m.again[j].op = "place"} = {1}
        BY <1>4, <2>1
      <3>2. UNION {m.again[i].ids \ (m.again[i].known \cup Ids(Kept)) : i \in {1}}
              = q.ids \ (q.known \cup Ids(Kept))
        BY <1>4
      <3> QED
        BY <1>1, <2>1, <3>1, <3>2 DEF Unplaced
    <2>2. CASE q.op # "place"
      <3>1. {j \in DOMAIN m.again : m.again[j].op = "place"} = {}
        BY <1>4, <2>2
      <3> QED
        BY <1>1, <2>2, <3>1 DEF Unplaced
    <2> QED
      BY <2>1, <2>2
  <1>6. \A id : Holds(m, id) <=> id \in Marked(m) \/ id \in Unplaced(q)
    BY <1>1, <1>4 DEF Holds, Refusals
  <1>7. \A id \in Unplaced(q) : /\ ~Sent(id) /\ Back(id) /\ ~Back(id)' /\ ~ToSend(id)
                                /\ id \notin live \cup filled
    BY <1>2, <1>6 DEF OrderInv, Quietly, Apart, Untaken
  <1>8. /\ Wired' = Wired \cup {q}
        /\ \A id : Sent(id)' <=> Sent(id) \/ id \in Unplaced(q)
        /\ OnceOnWire'
    BY <1>1, <1>4, <1>7, WirePosted DEF OrderInv, Quietly, Apart
  <1>9. \A id \in Marked(m) : ~LiveOnGrid(id)
    BY <1>1, <1>2 DEF OrderInv, RefusalsHeard, Refusals
  <1>10. \A u \in Threads : /\ u # "feed" => pc'[u] = pc[u]
                            /\ u = "feed" => pc'[u] = "idle" /\ pc[u] = "mark"
    BY <1>1
  <1>11. /\ \A id : ToSend(id)' <=> ToSend(id)
         /\ OnceByThreads'
    <2>1. \A u \in Threads : pc'[u] = "send" <=> pc[u] = "send"
      BY <1>10
    <2> QED
      BY <1>1, <2>1 DEF ToSend, SentBy, OnceByThreads, OrderInv, Quietly, Apart
  <1>12. \A r : Under(r)' <=> Under(r)
    BY <1>1, <1>2, <1>4, <1>8 DEF Under
  <1>13. /\ \A task, id : Doing(task, id)' <=> Doing(task, id)
         /\ \A task : IsTask(task)' <=> IsTask(task)
         /\ \A id : ToClose(id)' <=> ToClose(id)
         /\ \A id : Cancelling(id)' <=> Cancelling(id)
         /\ \A id : InClosing(id)' <=> InClosing(id)
    <2>1. \A u \in Threads : pc'[u] = "cancel" <=> pc[u] = "cancel"
      BY <1>10
    <2>2. \A task, id : Doing(task, id)' <=> Doing(task, id)
      BY <1>1, <1>12, <2>1 DEF Doing
    <2>3. /\ \A task : IsTask(task)' <=> IsTask(task)
          /\ \A id : ToClose(id)' <=> ToClose(id)
      BY <1>1, <1>2, <1>12 DEF IsTask, ToClose
    <2> QED
      BY <2>2, <2>3 DEF Cancelling, InClosing
  <1>14. ASSUME NEW id \in Unplaced(q)
         PROVE  id \in forgotten' \/ (LiveOnGrid(id) /\ \A o \in orders : o.id = id => o.status = "Live")
    <2>1. ASSUME NEW o \in Kept, o.id = id
          PROVE  LiveOnGrid(id) /\ \A p \in orders : p.id = id => p.status = "Live"
      <3>1. o.status \notin {"Filled", "PartiallyFilled"}
        BY <1>7, <2>1 DEF Kept, OrderInv, Quietly, Untaken, MarksTrue
      <3>2. o \in orders /\ o.status = "Live"
        BY <2>1, <3>1 DEF Kept
      <3> QED
        BY <2>1, <3>2 DEF LiveOnGrid, OrderInv, Quietly, OneStatus
    <2> QED
      BY <1>5, <2>1 DEF Ids
  <1>15. Apart' /\ Untaken' /\ CancelsDropped' /\ Turns' /\ OneStatus'
    <2>1. Apart'
      BY <1>2, <1>7, <1>8, <1>11 DEF OrderInv, Quietly, Apart
    <2>2. Untaken'
      BY <1>1, <1>2, <1>7, <1>8, <1>11 DEF OrderInv, Quietly, Untaken, exchange
    <2>3. CancelsDropped' /\ Turns' /\ OneStatus'
      BY <1>1, <1>13 DEF OrderInv, Quietly, CancelsDropped, Turns, OneStatus, Ids
    <2> QED
      BY <2>1, <2>2, <2>3
  <1>16. RefusedGone'
    <2>1. ASSUME NEW o \in orders, o.status = "Canceled", o.id \notin forgotten'
          PROVE  o.id \notin live \cup filled /\ ~ToSend(o.id) /\ ~Sent(o.id) /\ o.id \notin Unplaced(q)
      BY <1>5, <1>14, <2>1 DEF OrderInv, Quietly, RefusedGone
    <2> QED
      BY <1>1, <1>8, <1>11, <2>1 DEF RefusedGone, exchange
  <1>17. Tracked'
    BY <1>1, <1>5, <1>8, <1>13, <1>14
    DEF OrderInv, Quietly, Tracked, LiveOnGrid, Stray, exchange
  <1>18. Awaited'
    <2>1. (\A u \in Threads : pc'[u] # "closeout") => (\A u \in Threads : pc[u] # "closeout")
      BY <1>10
    <2>2. ASSUME NEW o \in orders, o.status = "Live", Back(o.id)
          PROVE  Back(o.id)' \/ Sent(o.id)'
      <3>1. LiveOnGrid(o.id)
        BY <2>2 DEF LiveOnGrid
      <3> QED
        BY <1>2, <1>6, <1>8, <1>9, <2>2, <3>1
    <2> QED
      BY <1>1, <1>8, <1>11, <2>1, <2>2 DEF OrderInv, Quietly, Awaited, exchange
  <1>19. ExitsCovered' /\ Covered'
    <2>1. ExitsCovered'
      BY <1>1, <1>2, <1>12, <1>13 DEF OrderInv, Quietly, ExitsCovered, Marked, exchange
    <2>2. Covered'
      <3>1. \A id : Opens(id) /\ id \in Unplaced(q) => id \in forgotten' \/ id \in Ids(orders)
        BY <1>14 DEF LiveOnGrid, Ids
      <3> QED
        BY <1>1, <1>5, <1>8, <1>11, <1>13, <3>1 DEF OrderInv, Quietly, Covered, Cared, Ids, exchange
    <2> QED
      BY <2>1, <2>2
  <1>20. SteadyFeed /\ SteadyCheck
    BY <1>1, <1>10 DEF SteadyFeed, SteadyCheck, Threads
  <1>21. MarksTrue'
    <2>1. TruthKept
      BY <1>1 DEF TruthKept, exchange
    <2> QED
      BY <1>1, <1>2, <1>20, <2>1, MarksKept DEF OrderInv
  <1>22. RefusalsHeard'
    BY <1>1, <1>20, RefusalsStayHeard DEF OrderInv, LiveOnGrid
  <1>23. CancelsLast'
    <2>1. \A r \in Wired : r.op = "cancel" =>
            \A id \in r.ids \cap Unplaced(q) : Stray(id)'
      <3>1. \A r \in Wired : Under(r)
        BY DEF Under
      <3>2. \A r \in Wired : r.op = "cancel" => \A id \in r.ids : id \notin Ids(orders)
        BY <3>1, CancellingIs DEF OrderInv, Quietly, CancelsDropped
      <3>3. Ids(Kept) \subseteq Ids(orders)
        BY DEF Kept, Ids
      <3> QED
        BY <1>5, <3>2, <3>3 DEF Stray
    <2>2. forgotten \subseteq forgotten' /\ overtaken \subseteq overtaken' /\ unheeded \subseteq unheeded' /\ CancelsLast
      BY <1>1, <1>5 DEF OrderInv
    <2> QED
      BY <1>1, <1>4, <2>1, <2>2, CancelsLastPosted
  <1>24. TasksHold'
    <2>1. \A id : Gone(id) => Gone(id)'
      <3>1. Ids(Kept) \subseteq Ids(orders)
        BY DEF Kept, Ids
      <3> QED
        BY <1>1, <1>5, <1>8, <3>1 DEF Gone, Stray, exchange, Ids
    <2>2. \A u \in Threads : pc'[u] # "cancel" => closing'[u] = {}
      BY <1>1, <1>10 DEF OrderInv, TasksHold
    <2> QED
      BY <1>1, <1>13, <2>1, <2>2, TasksKept DEF OrderInv, exchange
  <1> QED
    BY <1>15, <1>16, <1>17, <1>18, <1>19, <1>21, <1>22, <1>23, <1>24 DEF OrderInv, Quietly

---------------------------------------------------------------------------
(* The exchange places and cancels.                                        *)

LEMMA PlaceKeeps ==
  ASSUME Known, OrderInv, NEW r, NEW R, NEW U, NEW F, Places(r, R, U, F)
  PROVE  OrderInv'
  <1>1. /\ wire # <<>> /\ r = Head(wire) /\ wire' = Tail(wire) /\ r.op = "place"
        /\ UNCHANGED <<orders, pc, todo, closing, forgotten, overtaken, part, filled, closed>>
        /\ count'.tests = count.tests
        /\ U \cup F \subseteq Unplaced(r) /\ R \subseteq Unplaced(r) \ U
        /\ unheeded \subseteq unheeded' /\ F \subseteq unheeded'
        /\ live' = live \cup (Unplaced(r) \ (R \cup U \cup F))
        /\ stranded' = stranded \cup OpenersOf(R)
        /\ wire \in Seq(Requests) /\ inbox \in Seq(Messages) /\ HasMessage
    BY DEF Places, Serves, Known, SysTypeOK
  <1>2. /\ Wired = Wired' \cup {r}
        /\ \A id : Sent(id) <=> Sent(id)' \/ id \in Unplaced(r)
        /\ OnceOnWire' /\ \A id \in Unplaced(r) : ~Sent(id)'
        /\ CancelsLast'
    BY <1>1, WirePopped DEF OrderInv, Quietly, Apart
  <1>3. \A id \in Unplaced(r) : /\ ~ToSend(id) /\ ~Back(id) /\ Sent(id) /\ id \notin live \cup filled
    BY <1>2 DEF OrderInv, Quietly, Apart, Untaken
  <1>4. /\ \A id : Back(id)' <=> Back(id) \/ id \in R \cup U
        /\ OnceInMail' /\ (inbox # <<>> => inbox'[1] = inbox[1])
        /\ Mail \subseteq Mail'
        /\ \A m \in Mail' : \/ m \in Mail \/ (m.kind \in Refusals /\ Marked(m) = R)
                            \/ m.kind = "Live" /\ m.ids \subseteq live'
        /\ \A x : x.op # "place" => (Under(x)' <=> Under(x))
    <2>1. PICK m, n : \E told \in BOOLEAN :
            /\ Hears(m, n, told) /\ m.kind = "Live" /\ m.ids = Unplaced(r) \ (R \cup U \cup F)
            /\ IF told THEN Tells(n, r, R, U) ELSE R = {} /\ U = {}
      BY DEF Places
    <2>2. PICK told \in BOOLEAN :
            /\ Hears(m, n, told) /\ m.kind = "Live" /\ m.ids = Unplaced(r) \ (R \cup U \cup F)
            /\ IF told THEN Tells(n, r, R, U) ELSE R = {} /\ U = {}
      BY <2>1
    <2>3. told => /\ Marked(n) = R /\ n.kind \in Refusals
                  /\ n.kind = "busy" => n.again[1].op = "place" /\ Unplaced(n.again[1]) = R \cup U
                  /\ n.kind # "busy" => U = {}
      <3>1. ASSUME NEW q, n.again = <<q>>
            PROVE  n.again[1] = q
        BY <3>1
      <3>2. ASSUME told, n.kind = "busy"
            PROVE  n.again[1].op = "place" /\ Unplaced(n.again[1]) = R \cup U
        <4>1. \E q \in Requests : n.again = <<q>> /\ q.op = "place" /\ Unplaced(q) = R \cup U
          BY <2>2, <3>2 DEF Tells
        <4> QED
          BY <3>1, <4>1
      <3> QED
        BY <2>2, <3>2 DEF Tells, Refusals
    <2>4. \A id : told => (Holds(n, id) <=> id \in R \cup U)
      BY <2>3 DEF Holds
    <2>5. /\ Mail \subseteq Mail' /\ (\A k \in Mail' : k \in Mail \/ k = m \/ (told /\ k = n))
          /\ told => n \in Mail'
          /\ \A id : Back(id)' <=> Back(id) \/ (told /\ Holds(n, id))
          /\ OnceInMail /\ (told => \A id : Holds(n, id) => ~Back(id)) => OnceInMail'
          /\ inbox # <<>> => inbox'[1] = inbox[1]
      BY <1>1, <2>2, MailSaid
    <2>6. OnceInMail'
      <3>1. told => \A id : Holds(n, id) => ~Back(id)
        BY <1>1, <1>3, <2>4
      <3> QED
        BY <2>5, <3>1 DEF OrderInv, Quietly, Apart
    <2>7. \A id : Back(id)' <=> Back(id) \/ id \in R \cup U
      BY <2>2, <2>4, <2>5
    <2>8. \A k \in Mail' : \/ k \in Mail \/ (k.kind \in Refusals /\ Marked(k) = R)
                           \/ k.kind = "Live" /\ k.ids \subseteq live'
      BY <1>1, <2>2, <2>3, <2>5
    <2>9. \A x : x.op # "place" => (Under(x)' <=> Under(x))
      BY <1>1, <1>2, <2>2, <2>3, <2>5 DEF Under
    <2> QED
      BY <2>5, <2>6, <2>7, <2>8, <2>9
  <1>5. /\ \A id : ToSend(id)' <=> ToSend(id)
        /\ OnceByThreads'
        /\ SteadyCheck
        /\ (\A t \in Threads : pc'[t] # "closeout") => (\A t \in Threads : pc[t] # "closeout")
    BY <1>1, ThreadsAlone DEF OrderInv, Quietly, Apart
  <1>6. /\ \A task, id : Doing(task, id)' <=> Doing(task, id)
        /\ \A task : IsTask(task)' <=> IsTask(task)
        /\ \A id : ToClose(id)' <=> ToClose(id)
        /\ \A id : Cancelling(id)' <=> Cancelling(id)
        /\ \A id : InClosing(id)' <=> InClosing(id)
    <2>1. \A task, id : Doing(task, id)' <=> Doing(task, id)
      BY <1>1, <1>4 DEF Doing
    <2>2. \A m : m.kind = "answer" => (m \in Mail' <=> m \in Mail)
      BY <1>4 DEF Refusals
    <2>3. /\ \A task : IsTask(task)' <=> IsTask(task)
          /\ \A id : ToClose(id)' <=> ToClose(id)
      BY <1>1, <1>4, <2>2 DEF IsTask, ToClose
    <2> QED
      BY <2>1, <2>3 DEF Cancelling, InClosing
  <1>7. \A id \in Unplaced(r) : id \in live' \cup unheeded' \/ id \in R \cup U
    BY <1>1
  <1>8. \A id \in live' : id \in live \/ (id \in Unplaced(r) /\ id \notin R \cup U)
    BY <1>1
  <1>9. Apart' /\ Untaken' /\ CancelsDropped' /\ Turns' /\ OneStatus'
    <2>1. Apart'
      BY <1>1, <1>2, <1>3, <1>4, <1>5 DEF OrderInv, Quietly, Apart
    <2>2. Untaken'
      <3>1. \A id : ToSend(id)' \/ Sent(id)' \/ Back(id)' => id \notin live' \cup filled'
        BY <1>1, <1>2, <1>3, <1>4, <1>5, <1>8 DEF OrderInv, Quietly, Untaken
      <3>2. live' \cap filled' = {} /\ part' \subseteq live'
        BY <1>1, <1>3 DEF OrderInv, Quietly, Untaken
      <3> QED
        BY <3>1, <3>2 DEF Untaken
    <2>3. CancelsDropped' /\ Turns' /\ OneStatus'
      BY <1>1, <1>6 DEF OrderInv, Quietly, CancelsDropped, Turns, OneStatus, Ids
    <2> QED
      BY <2>1, <2>2, <2>3
  <1>10. RefusedGone'
    BY <1>1, <1>2, <1>5, <1>8 DEF OrderInv, Quietly, RefusedGone
  <1>11. Tracked'
    <2>1. \A id : Sent(id)' \/ id \in live' \ part' => Sent(id) \/ id \in live \ part
      BY <1>1, <1>2, <1>8
    <2> QED
      BY <1>1, <1>6, <2>1 DEF OrderInv, Quietly, Tracked, LiveOnGrid, Stray
  <1>12. Awaited'
    <2>1. \A id : id \in live \cup filled \cup unheeded \/ ToSend(id) \/ Sent(id) \/ Back(id)
               => id \in live' \cup filled' \cup unheeded' \/ ToSend(id)' \/ Sent(id)' \/ Back(id)'
      BY <1>1, <1>2, <1>4, <1>5, <1>7
    <2> QED
      BY <1>1, <1>5, <2>1 DEF OrderInv, Quietly, Awaited
  <1>13. ExitsCovered' /\ Covered'
    <2>1. \A id \in R : ~Opens(id) => Opener(id) \in stranded'
      BY <1>1 DEF OpenersOf
    <2>2. stranded \subseteq stranded' /\ live \subseteq live'
      BY <1>1
    <2>7. \A m \in Mail' : m.kind \in Refusals => m \in Mail \/ Marked(m) = R
      BY <1>4 DEF Refusals
    <2>8. \A k : k.op = "close" => (Under(k)' <=> Under(k))
      BY <1>4
    <2>3. ExitsCovered'
      BY <1>1, <1>6, <2>1, <2>2, <2>7, <2>8 DEF OrderInv, Quietly, ExitsCovered, Marked
    <2>4. \A id : Opens(id) /\ (ToSend(id)' \/ Sent(id)' \/ id \in live' \cup filled') =>
                    ToSend(id) \/ Sent(id) \/ id \in live \cup filled
      BY <1>1, <1>2, <1>5, <1>8
    <2>5. \A id : Cared(id) => Cared(id)'
      BY <1>1, <1>6, <2>2 DEF Cared, Ids
    <2>6. Covered'
      BY <1>1, <2>2, <2>4, <2>5 DEF OrderInv, Quietly, Covered, Ids
    <2> QED
      BY <2>3, <2>6
  <1>14. SteadyFeed
    BY <1>1, <1>4 DEF SteadyFeed, HasMessage
  <1>15. MarksTrue'
    <2>1. TruthKept
      BY <1>1 DEF TruthKept
    <2>2. \A m \in Mail' : m \in Mail \/ TrueMessage(m)
      BY <1>4 DEF TrueMessage, Refusals
    <2> QED
      BY <1>1, <1>5, <1>14, <2>1, <2>2, MarksKept DEF OrderInv
  <1>16. RefusalsHeard'
    BY <1>1, <1>14, RefusalsStayHeard DEF OrderInv, LiveOnGrid
  <1>17. TasksHold'
    <2>1. \A id : Gone(id) => Gone(id)'
      BY <1>1, <1>2, <1>8 DEF Gone, Stray, Ids
    <2> QED
      BY <1>1, <1>6, <2>1, TasksKept DEF OrderInv, TasksHold
  <1> QED
    BY <1>2, <1>9, <1>10, <1>11, <1>12, <1>13, <1>15, <1>16, <1>17 DEF OrderInv, Quietly

LEMMA CancelKeeps ==
  ASSUME Known, OrderInv, NEW r, NEW R, Cancels(r, R)
  PROVE  OrderInv'
  <1>1. /\ wire # <<>> /\ r = Head(wire) /\ wire' = Tail(wire) /\ r.op = "cancel"
        /\ UNCHANGED <<orders, pc, todo, closing, forgotten, overtaken, filled, closed, stranded>>
        /\ count'.tests = count.tests
        /\ unheeded \subseteq unheeded' /\ R \subseteq unheeded' /\ R \subseteq live \cap r.ids
        /\ live' = live \ (r.ids \ R) /\ part' = part \ (r.ids \ R)
        /\ wire \in Seq(Requests) /\ inbox \in Seq(Messages) /\ HasMessage
    BY DEF Cancels, Serves, Known, SysTypeOK
  <1>2. /\ r \in Requests /\ r \in Wired /\ Wired = Wired' \cup {r}
        /\ \A id : Sent(id) <=> Sent(id)' \/ id \in Unplaced(r)
        /\ OnceOnWire'
        /\ CancelsLast' /\ \A id \in r.ids : Sent(id)' => Stray(id)
    BY <1>1, WirePopped DEF OrderInv, Quietly, Apart
  <1>3. Unplaced(r) = {}
    BY <1>1 DEF Unplaced
  <1>4. \A id \in r.ids : Doing(r.close, id) /\ Cancelling(id) /\ id \notin Ids(orders)
    BY <1>1, <1>2, CancellingIs DEF Under, OrderInv, Quietly, CancelsDropped
  <1>5. PICK m, k : \E told \in BOOLEAN :
          /\ Hears(m, k, told) /\ m.kind = "Canceled" /\ m.ids = (live \cap r.ids) \ R
          /\ k = Message("answer", r.close) /\ (told <=> r.close # {})
    BY DEF Cancels
  <1>6. PICK told \in BOOLEAN : Hears(m, k, told) /\ (told <=> r.close # {})
    BY <1>5
  <1>7. m.kind = "Canceled" /\ m.ids \subseteq r.ids /\ k.kind = "answer" /\ k.ids = r.close
    BY <1>5 DEF Message, Answer
  <1>8. \A id : ~Holds(k, id)
    BY <1>7 DEF Holds, Refusals
  <1>9. /\ Mail \subseteq Mail'
        /\ \A x \in Mail' : x \in Mail \/ x = m \/ x = k
        /\ \A id : Back(id)' <=> Back(id)
        /\ OnceInMail'
        /\ r.close = {} \/ k \in Mail'
        /\ inbox # <<>> => inbox'[1] = inbox[1]
    <2>1. /\ Mail \subseteq Mail' /\ (\A x \in Mail' : x \in Mail \/ x = m \/ (told /\ x = k))
          /\ told => k \in Mail'
          /\ \A id : Back(id)' <=> Back(id) \/ (told /\ Holds(k, id))
          /\ OnceInMail /\ (told => \A id : Holds(k, id) => ~Back(id)) => OnceInMail'
          /\ inbox # <<>> => inbox'[1] = inbox[1]
      BY <1>1, <1>6, MailSaid
    <2> QED
      BY <1>6, <1>8, <2>1 DEF OrderInv, Quietly, Apart
  <1>10. \A x : Under(x) <=> Under(x)' \/ x = r
    <2>1. \A x \in Mail' : x.kind = "busy" => x \in Mail
      BY <1>7, <1>9
    <2> QED
      BY <1>2, <1>9, <2>1 DEF Under
  <1>11. /\ \A task, id : Doing(task, id)' => Doing(task, id)
         /\ \A task, id : Doing(task, id) => Doing(task, id)' \/ (task = r.close /\ id \in r.ids)
         /\ \A id : Cancelling(id)' => Cancelling(id)
         /\ \A id : Cancelling(id) => Cancelling(id)' \/ id \in r.ids
    <2>1. /\ \A task, id : Doing(task, id)' => Doing(task, id)
          /\ \A task, id : Doing(task, id) => Doing(task, id)' \/ (task = r.close /\ id \in r.ids)
      BY <1>1, <1>10 DEF Doing
    <2> QED
      BY <2>1 DEF Cancelling
  <1>12. /\ \A task : IsTask(task)' => IsTask(task)
         /\ \A task : IsTask(task) => IsTask(task)' \/ task = {}
         /\ \A id : ToClose(id)' <=> ToClose(id)
    <2>1. IsTask(r.close) /\ Under(r)
      BY <1>1, <1>2 DEF IsTask, Under
    <2>2. ASSUME NEW task, IsTask(task)'
          PROVE  IsTask(task)
      <3>1. CASE \E t \in Threads : closing'[t] = task
        BY <1>1, <3>1 DEF IsTask
      <3>2. CASE \E x : Under(x)' /\ x.op = "cancel" /\ x.close = task
        BY <1>10, <3>2 DEF IsTask
      <3>3. ASSUME NEW x \in Mail', x.kind = "answer", x.ids = task
            PROVE  IsTask(task)
        <4>1. CASE x \in Mail
          BY <3>3, <4>1 DEF IsTask
        <4>2. CASE x = k
          BY <1>7, <2>1, <3>3, <4>2
        <4>3. x # m
          BY <1>7, <3>3
        <4> QED
          BY <1>9, <4>1, <4>2, <4>3
      <3> QED
        BY <2>2, <3>1, <3>2, <3>3 DEF IsTask
    <2>3. ASSUME NEW task, IsTask(task)
          PROVE  IsTask(task)' \/ task = {}
      <3>1. CASE \E t \in Threads : closing[t] = task
        BY <1>1, <3>1 DEF IsTask
      <3>2. ASSUME NEW x, Under(x), x.op = "cancel", x.close = task
            PROVE  IsTask(task)' \/ task = {}
        <4>1. CASE Under(x)'
          BY <3>2, <4>1 DEF IsTask
        <4>2. CASE x = r
          BY <1>7, <1>9, <3>2, <4>2 DEF IsTask
        <4> QED
          BY <1>10, <3>2, <4>1, <4>2
      <3>3. CASE \E x \in Mail : x.kind = "answer" /\ x.ids = task
        BY <1>9, <3>3 DEF IsTask
      <3> QED
        BY <2>3, <3>1, <3>2, <3>3 DEF IsTask
    <2>4. \A id : ToClose(id)' <=> ToClose(id)
      BY <1>1, <1>10 DEF ToClose
    <2> QED
      BY <2>2, <2>3, <2>4
  <1>13. \A id : InClosing(id) => InClosing(id)'
    BY <1>12 DEF InClosing
  <1>14. /\ \A id : Sent(id)' <=> Sent(id)
         /\ \A id : ToSend(id)' <=> ToSend(id)
         /\ OnceByThreads' /\ SteadyCheck
         /\ (\A t \in Threads : pc'[t] # "closeout") => (\A t \in Threads : pc[t] # "closeout")
    BY <1>1, <1>2, <1>3, ThreadsAlone DEF OrderInv, Quietly, Apart
  <1>15. Apart' /\ Untaken' /\ CancelsDropped' /\ Turns' /\ OneStatus'
    <2>1. Apart'
      BY <1>2, <1>9, <1>14 DEF OrderInv, Quietly, Apart
    <2>2. Untaken'
      <3>1. \A id : ToSend(id)' \/ Sent(id)' \/ Back(id)' => id \notin live' \cup filled'
        BY <1>1, <1>9, <1>14 DEF OrderInv, Quietly, Untaken
      <3>2. live' \cap filled' = {} /\ part' \subseteq live'
        BY <1>1 DEF OrderInv, Quietly, Untaken
      <3> QED
        BY <3>1, <3>2 DEF Untaken
    <2>3. CancelsDropped' /\ Turns' /\ OneStatus'
      BY <1>1, <1>11 DEF OrderInv, Quietly, CancelsDropped, Turns, OneStatus, Ids
    <2> QED
      BY <2>1, <2>2, <2>3
  <1>16. RefusedGone'
    BY <1>1, <1>14 DEF OrderInv, Quietly, RefusedGone
  <1>17. Tracked'
    <2>1. ASSUME NEW id, Sent(id)' \/ id \in live' \ part'
          PROVE  LiveOnGrid(id) \/ Cancelling(id)' \/ Stray(id)'
      <3>1. Sent(id) \/ id \in live \ part
        BY <1>1, <1>14, <2>1
      <3>2. LiveOnGrid(id) \/ Cancelling(id) \/ Stray(id)
        BY <3>1 DEF OrderInv, Quietly, Tracked
      <3>3. CASE id \in r.ids
        BY <1>1, <1>2, <2>1, <3>3 DEF Stray
      <3>4. CASE id \notin r.ids
        BY <1>1, <1>11, <3>2, <3>4 DEF Stray
      <3> QED
        BY <3>3, <3>4
    <2> QED
      BY <1>1, <2>1 DEF Tracked, LiveOnGrid, Stray
  <1>18. Awaited'
    <2>1. \A o \in orders : o.id \in live => o.id \in live'
      BY <1>1, <1>4 DEF Ids
    <2> QED
      BY <1>1, <1>9, <1>14, <2>1 DEF OrderInv, Quietly, Awaited
  <1>19. ExitsCovered'
    <2>1. \A x \in Mail' : x.kind \in Refusals => x \in Mail
      BY <1>7, <1>9 DEF Refusals
    <2> QED
      BY <1>1, <1>10, <1>11, <1>13, <2>1 DEF OrderInv, Quietly, ExitsCovered, Marked
  <1>20. Covered'
    <2>1. SUFFICES ASSUME 1 \notin GridCounts,
                          NEW id, Opens(id), ToSend(id)' \/ Sent(id)' \/ id \in live' \cup filled'
                   PROVE  id \in stranded' \cup forgotten' \cup Ids(orders)' \/ Cared(Closer(id))'
      BY DEF Covered
    <2>2. ToSend(id) \/ Sent(id) \/ id \in live \cup filled
      BY <1>1, <1>14, <2>1
    <2>3. id \in ChainId
      <3>1. Named(id)
        BY <2>2 DEF Named, ToSend, SentBy, Sent, SentIn, Unplaced, Wired, RequestNames
      <3> QED
        BY <3>1, NamesAreTyped DEF Known, NamesTyped
    <2>4. PICK c : c = Closer(id)
      OBVIOUS
    <2>5. ~Opens(c) /\ Opener(c) = id
      BY <2>1, <2>3, <2>4, OpensTurns, OpenerOfCloser
    <2>6. id \in stranded \cup forgotten \cup Ids(orders) \/ Cared(c)
      BY <2>1, <2>2, <2>4 DEF OrderInv, Quietly, Covered
    <2>7. ASSUME Cared(c)
          PROVE  Cared(c)' \/ id \in stranded
      <3>1. CASE c \in live /\ c \in r.ids
        BY <1>1, <1>4, <1>13, <2>5, <3>1 DEF OrderInv, Quietly, ExitsCovered, Cared
      <3>2. CASE ~(c \in live /\ c \in r.ids)
        BY <1>1, <1>13, <2>7, <3>2 DEF Cared, Ids
      <3> QED
        BY <3>1, <3>2
    <2>8. Cared(c)' => Cared(Closer(id))'
      BY <2>4
    <2> QED
      BY <1>1, <2>6, <2>7, <2>8 DEF Ids
  <1>21. SteadyFeed
    BY <1>1, <1>9 DEF SteadyFeed, HasMessage
  <1>22. MarksTrue'
    <2>1. TruthKept
      BY <1>1, <1>4 DEF TruthKept
    <2>2. \A x \in Mail' : x \in Mail \/ TrueMessage(x)
      BY <1>4, <1>7, <1>9 DEF TrueMessage
    <2> QED
      BY <1>1, <1>14, <1>21, <2>1, <2>2, MarksKept DEF OrderInv
  <1>23. RefusalsHeard'
    BY <1>1, <1>21, RefusalsStayHeard DEF OrderInv, LiveOnGrid
  <1>24. TasksHold'
    <2>1. \A id : Gone(id) => Gone(id)'
      BY <1>1, <1>14 DEF Gone, Stray, Ids
    <2>2. \A id \in r.ids : Gone(id)'
      BY <1>1, <1>2, <1>4 DEF Gone, Stray, Ids
    <2> QED
      BY <1>1, <1>11, <1>12, <2>1, <2>2, TasksKept DEF OrderInv, TasksHold
  <1> QED
    BY <1>2, <1>15, <1>16, <1>17, <1>18, <1>19, <1>20, <1>22, <1>23, <1>24 DEF OrderInv, Quietly

---------------------------------------------------------------------------
(* The grid grows.                                                         *)

LEMMA GrowKeeps ==
  ASSUME Known, OrderInv, NEW t \in Threads, NEW new, Grows(t, new)
  PROVE  OrderInv'
  <1>1. /\ UNCHANGED <<closing, exchange, forgotten, overtaken, unheeded, stranded, wire, inbox>>
        /\ Elsewhere(t) /\ orders' = Kept \cup new
        /\ pc[t] \in {"idle", "pass"} /\ pc'[t] \in {"idle", "pass", "send", "closeout"}
        /\ pc'[t] = "send" => todo'[t] = Ids(new)
        /\ count'.tests = 0 /\ pc'[t] # "closeout" => count.tests = 0 /\ pc'[t] = "send"
        /\ HasMessage
    BY DEF Grows, Unmoved, Known
  <1>2. /\ \A id : (Sent(id)' <=> Sent(id)) /\ (Back(id)' <=> Back(id))
        /\ \A r : Under(r)' <=> Under(r)
        /\ (OnceOnWire' <=> OnceOnWire) /\ (OnceInMail' <=> OnceInMail)
        /\ CancelsLast' /\ Mail' = Mail
    BY <1>1, UnmovedPlaces DEF OrderInv
  <1>3. \A o \in new : o.status = "Live" /\ ~Named(o.id)
    BY DEF Grows
  <1>4. ASSUME NEW id \in Ids(new)
        PROVE  /\ ~ToSend(id) /\ ~Sent(id) /\ ~Back(id) /\ ~Cancelling(id) /\ ~InClosing(id)
               /\ id \notin live \cup part \cup filled \cup closed \cup Ids(orders)
               /\ \A u \in Threads : id \notin todo[u]
               /\ \A m \in Mail : id \notin m.ids
    <2>1. ~Named(id)
      BY <1>3 DEF Ids
    <2>2. /\ id \notin live \cup part \cup filled \cup closed \cup Ids(orders)
          /\ \A u \in Threads : id \notin todo[u]
          /\ \A m \in Mail : id \notin m.ids
      BY <2>1 DEF Named, Ids, MessageNames
    <2> QED
      BY <2>1, <2>2, PlacesAreNamed
  <1>5. /\ \A id : ToSend(id)' <=> ToSend(id) \/ (pc'[t] = "send" /\ id \in Ids(new))
        /\ OnceByThreads'
    <2>1. \A u \in Threads : \A id : SentBy(u, id)' <=>
            SentBy(u, id) \/ (u = t /\ pc'[t] = "send" /\ id \in Ids(new))
      BY <1>1 DEF SentBy, Elsewhere
    <2>2. \A u \in Threads : \A id : SentBy(u, id) => id \notin Ids(new)
      BY <1>4 DEF SentBy
    <2> QED
      BY <2>1, <2>2 DEF ToSend, OnceByThreads, OrderInv, Quietly, Apart
  <1>6. /\ \A task, id : Doing(task, id)' <=> Doing(task, id)
        /\ \A task : IsTask(task)' <=> IsTask(task)
        /\ \A id : ToClose(id)' <=> ToClose(id)
        /\ \A id : Cancelling(id)' <=> Cancelling(id)
        /\ \A id : InClosing(id)' <=> InClosing(id)
    <2>1. \A u \in Threads : /\ pc'[u] = "cancel" <=> pc[u] = "cancel"
                             /\ pc[u] = "cancel" => todo'[u] = todo[u]
      BY <1>1 DEF Elsewhere
    <2>2. /\ \A task, id : Doing(task, id)' <=> Doing(task, id)
          /\ \A task : IsTask(task)' <=> IsTask(task)
          /\ \A id : ToClose(id)' <=> ToClose(id)
      BY <1>1, <1>2, <2>1 DEF Doing, IsTask, ToClose
    <2> QED
      BY <2>2 DEF Cancelling, InClosing
  <1>7. /\ Ids(orders)' = Ids(Kept) \cup Ids(new)
        /\ Ids(Kept) \subseteq Ids(orders)
        /\ \A o \in orders' : o \in new \/ (o \in orders /\ o.status \in {"Live", "PartiallyFilled"})
        /\ \A o \in orders' : o.status # "Canceled"
        /\ \A o \in orders : o.status \in {"Live", "PartiallyFilled"} => o.id \in Ids(orders)'
    BY <1>1, <1>3 DEF Ids, Kept
  <1>8. \A id : LiveOnGrid(id)' <=> LiveOnGrid(id) \/ id \in Ids(new)
    BY <1>1, <1>3 DEF LiveOnGrid, Ids, Kept
  <1>9. Apart' /\ Untaken' /\ CancelsDropped' /\ RefusedGone' /\ Tracked'
    <2>1. Apart'
      BY <1>2, <1>4, <1>5 DEF OrderInv, Quietly, Apart
    <2>2. Untaken'
      BY <1>1, <1>2, <1>4, <1>5 DEF OrderInv, Quietly, Untaken, exchange
    <2>3. CancelsDropped'
      BY <1>4, <1>6, <1>7 DEF OrderInv, Quietly, CancelsDropped
    <2>4. RefusedGone'
      BY <1>7 DEF RefusedGone
    <2>5. Tracked'
      BY <1>1, <1>2, <1>6, <1>8 DEF OrderInv, Quietly, Tracked, Stray, exchange
    <2> QED
      BY <2>1, <2>2, <2>3, <2>4, <2>5
  <1>10. Awaited'
    <2>1. SUFFICES ASSUME count'.tests = 0, \A u \in Threads : pc'[u] # "closeout",
                          NEW o \in orders', o.status = "Live"
                   PROVE  \/ o.id \in live' \cup filled' \cup unheeded'
                          \/ ToSend(o.id)' \/ Sent(o.id)' \/ Back(o.id)'
      BY DEF Awaited
    <2>2. count.tests = 0 /\ pc'[t] = "send" /\ \A u \in Threads : pc[u] # "closeout"
      BY <1>1, <2>1 DEF Elsewhere
    <2>3. CASE o \in new
      BY <1>5, <2>2, <2>3 DEF Ids
    <2>4. CASE o \in orders
      <3>1. o.id \in live \cup filled \cup unheeded \/ ToSend(o.id) \/ Sent(o.id) \/ Back(o.id)
        BY <2>1, <2>2, <2>4 DEF OrderInv, Quietly, Awaited
      <3> QED
        BY <1>1, <1>2, <1>5, <3>1 DEF exchange
    <2> QED
      BY <1>7, <2>3, <2>4
  <1>11. Turns' /\ OneStatus'
    <2>1. Turns /\ OneStatus
      BY DEF OrderInv, Quietly
    <2>2. Turns'
      BY <1>7, <2>1 DEF Grows, Turns
    <2>3. OneStatus'
      BY <1>3, <1>4, <1>7, <2>1 DEF OneStatus, Ids
    <2> QED
      BY <2>2, <2>3
  <1>12. ExitsCovered'
    <2>1. closed' = closed /\ stranded' = stranded
      BY <1>1 DEF exchange
    <2> QED
      BY <1>2, <1>6, <1>7, <2>1 DEF OrderInv, Quietly, ExitsCovered, Marked
  <1>13. Covered'
    <2>1. SUFFICES ASSUME 1 \notin GridCounts,
                          NEW id, Opens(id), ToSend(id)' \/ Sent(id)' \/ id \in live' \cup filled'
                   PROVE  id \in stranded' \cup forgotten' \cup Ids(orders)' \/ Cared(Closer(id))'
      BY DEF Covered
    <2>2. CASE id \in Ids(new)
      BY <1>7, <2>2
    <2>3. ASSUME id \notin Ids(new)
          PROVE  id \in stranded \cup forgotten \cup Ids(orders)' \/ Cared(Closer(id))'
      <3>1. ToSend(id) \/ Sent(id) \/ id \in live \cup filled
        BY <1>1, <1>2, <1>5, <2>1, <2>3 DEF exchange
      <3>2. id \in ChainId
        <4>1. Named(id)
          BY <3>1, PlacesAreNamed DEF Named
        <4> QED
          BY <4>1, NamesAreTyped DEF Known, NamesTyped
      <3>3. PICK c : c = Closer(id)
        OBVIOUS
      <3>4. ~Opens(c) /\ Opener(c) = id
        BY <2>1, <3>2, <3>3, OpensTurns, OpenerOfCloser
      <3>5. id \in stranded \cup forgotten \cup Ids(orders) \/ Cared(c)
        BY <2>1, <3>1, <3>3 DEF OrderInv, Quietly, Covered
      <3>6. ASSUME NEW o \in orders
            PROVE  /\ o.status \in {"Live", "PartiallyFilled", "Filled", "Canceled"}
                   /\ o.status = "Filled" => o.id \in filled \cup live
                   /\ o.status = "Canceled" /\ ~Opens(o.id) => Opener(o.id) \in stranded
                   /\ o.status = "Canceled" /\ o.id \notin forgotten =>
                        o.id \notin live \cup filled /\ ~ToSend(o.id) /\ ~Sent(o.id)
                   /\ o.status = "Filled" /\ Opens(o.id) => \E q \in new : q.id = Closer(o.id)
        <4>1. o.status \in Statuses /\ o.status # "Empty"
          BY DEF Known, SysTypeOK, TypeOK, Order, OrderInv, MarksTrue
        <4>2. o.status = "Filled" => o.id \in filled \cup live
          BY DEF OrderInv, MarksTrue, Quietly, Untaken
        <4>3. Opens(o.id) => o.auto
          BY DEF OrderInv, Quietly, Turns
        <4>4. o.status = "Filled" /\ o.auto => \E q \in new : q.id = Closer(o.id)
          BY <2>1 DEF Grows
        <4> QED
          BY <4>1, <4>2, <4>3, <4>4 DEF OrderInv, Quietly, ExitsCovered, RefusedGone, Statuses
      <3>7. ASSUME NEW o \in orders, o.id = id
            PROVE  id \in forgotten \cup Ids(orders)' \/ Cared(c)'
        <4>1. CASE o.status \in {"Live", "PartiallyFilled"}
          BY <1>7, <3>7, <4>1
        <4>2. CASE o.status = "Filled"
          <5>1. c \in Ids(new)
            BY <2>1, <3>3, <3>6, <3>7, <4>2 DEF Ids
          <5> QED
            BY <1>7, <5>1 DEF Cared
        <4>3. CASE o.status = "Canceled"
          BY <3>1, <3>6, <3>7, <4>3
        <4> QED
          BY <3>6, <4>1, <4>2, <4>3
      <3>8. ASSUME NEW o \in orders, o.id = c
            PROVE  id \in stranded \/ c \in filled \cup live \cup Ids(orders)'
        BY <1>7, <3>4, <3>6, <3>8
      <3>9. c \in filled \cup live \cup closed \cup Ids(orders)' \/ InClosing(c) => Cared(c)'
        BY <1>1, <1>6 DEF Cared, exchange
      <3>10. Cared(c)' => Cared(Closer(id))'
        BY <3>3
      <3>11. Cared(c) => c \in Ids(orders) \/ c \in filled \cup live \cup closed \/ InClosing(c)
        BY DEF Cared
      <3> QED
        BY <3>5, <3>7, <3>8, <3>9, <3>10, <3>11 DEF Ids
    <2> QED
      BY <1>1, <2>2, <2>3
  <1>14. /\ SteadyFeed /\ SteadyCheck
    BY <1>1 DEF SteadyFeed, SteadyCheck, Elsewhere, Threads
  <1>15. MarksTrue'
    <2>1. MarksTrue /\ live' = live /\ filled' = filled /\ part' = part /\ inbox' = inbox
      BY <1>1 DEF OrderInv, exchange
    <2>2. \A o \in orders' : /\ o.status \in {"Filled", "PartiallyFilled"} => o.id \in filled \cup part
                             /\ o.status # "Empty"
      BY <1>3, <1>7, <2>1 DEF MarksTrue
    <2>3. \A m \in Mail : m.ids \cap Ids(orders)' \subseteq m.ids \cap Ids(orders)
      BY <1>4, <1>7
    <2>4. todo["check"] \cap Ids(orders)' \subseteq todo["check"] \cap Ids(orders)
      BY <1>4, <1>7 DEF Threads
    <2>5. ASSUME NEW m \in Mail, NEW id \in m.ids \cap Ids(orders)'
          PROVE  /\ m.kind \in {"Filled", "PartiallyFilled"} => id \in filled \cup part
                 /\ m.kind = "Live" => id \in live \cup filled
                 /\ m.kind # "Canceled"
      BY <2>1, <2>3 DEF MarksTrue
    <2>6. pc'["feed"] = "mark" => todo'["feed"] \subseteq Marked(inbox[1])' /\ inbox'[1].kind # "answer"
      BY <1>14, <2>1 DEF SteadyFeed, MarksTrue, Marked
    <2>7. pc'["check"] = "markfilled" => todo'["check"] \cap Ids(orders)' \subseteq filled \cup part
      BY <1>14, <2>1, <2>4 DEF SteadyCheck, MarksTrue
    <2> QED
      BY <1>2, <2>1, <2>2, <2>5, <2>6, <2>7 DEF MarksTrue
  <1>16. RefusalsHeard'
    <2>1. ASSUME pc'["feed"] = "mark", NEW id \in Marked(inbox[1])
          PROVE  LiveOnGrid(id)' => LiveOnGrid(id)
      <3>1. inbox # <<>>
        BY <1>1, <1>14, <2>1 DEF SteadyFeed, HasMessage
      <3>2. inbox[1] \in Mail
        <4>1. inbox \in Seq(Messages)
          BY DEF Known, SysTypeOK
        <4> QED
          BY <3>1, <4>1 DEF Mail
      <3> QED
        BY <1>4, <1>8, <2>1, <3>2 DEF Marked
    <2> QED
      BY <1>1, <1>14, <2>1 DEF OrderInv, RefusalsHeard, SteadyFeed, Marked
  <1>17. TasksHold'
    <2>1. \A id : Gone(id) /\ id \notin Ids(new) => Gone(id)'
      BY <1>1, <1>2, <1>7 DEF Gone, Stray, exchange
    <2>2. \A task : IsTask(task) => \A id \in task : id \notin Ids(new)
      BY <1>4 DEF InClosing
    <2>3. \A id : ToClose(id) \/ id \in closed => id \notin Ids(new)
      BY <1>4 DEF InClosing
    <2>4. \A u \in Threads : pc'[u] # "cancel" => closing'[u] = {}
      BY <1>1 DEF Elsewhere, OrderInv, TasksHold
    <2>5. closed' = closed
      BY <1>1 DEF exchange
    <2> QED
      BY <1>6, <2>1, <2>2, <2>3, <2>4, <2>5 DEF OrderInv, TasksHold
  <1> QED
    BY <1>2, <1>9, <1>10, <1>11, <1>12, <1>13, <1>15, <1>16, <1>17 DEF OrderInv, Quietly

---------------------------------------------------------------------------
(* An order is marked, or given up.                                        *)

\* An order of the grid before and after, its status aside.
Alike(o, q) == /\ o.id = q.id /\ (IsExit(o) <=> IsExit(q))
               /\ ~IsExit(o) => o.auto = q.auto

LEMMA RemarkedIs ==
  ASSUME orders \subseteq Order, NEW id, NEW status, orders' = Remarked(id, status)
  PROVE  /\ \A o \in orders' : \E q \in orders :
              /\ Alike(o, q)
              /\ \/ o.status = q.status /\ (q.id # id \/ q.status = "Canceled")
                 \/ o.status = status /\ q.id = id /\ q.status # "Canceled"
         /\ Ids(orders)' = Ids(orders)
         /\ \A k : k # id => (LiveOnGrid(k)' <=> LiveOnGrid(k))
         /\ status = "Live" /\ LiveOnGrid(id) => LiveOnGrid(id)'
  <1>1. ASSUME NEW q \in orders
        PROVE  /\ Alike([q EXCEPT !.status = status], q) /\ Alike(q, q)
               /\ [q EXCEPT !.status = status].status = status
               /\ [q EXCEPT !.status = status].id = q.id
    BY DEF Order, Alike, IsExit
  <1>2. ASSUME NEW o \in orders'
        PROVE  \E q \in orders :
                 \/ o = q /\ (q.id # id \/ q.status = "Canceled")
                 \/ o = [q EXCEPT !.status = status] /\ q.id = id /\ q.status # "Canceled"
    BY DEF Remarked
  <1>3. ASSUME NEW q \in orders
        PROVE  \E o \in orders' : o.id = q.id /\ (q.id # id => o = q)
    <2>1. CASE q.id = id /\ q.status # "Canceled"
      <3>1. [q EXCEPT !.status = status] \in orders'
        BY <2>1 DEF Remarked
      <3> QED
        BY <1>1, <2>1, <3>1
    <2>2. CASE ~(q.id = id /\ q.status # "Canceled")
      <3>1. q \in orders'
        BY <2>2 DEF Remarked
      <3> QED
        BY <3>1
    <2> QED
      BY <2>1, <2>2
  <1>4. ASSUME NEW o \in orders'
        PROVE  \E q \in orders :
                 /\ Alike(o, q)
                 /\ \/ o.status = q.status /\ (q.id # id \/ q.status = "Canceled")
                    \/ o.status = status /\ q.id = id /\ q.status # "Canceled"
    <2>1. PICK q \in orders :
            \/ o = q /\ (q.id # id \/ q.status = "Canceled")
            \/ o = [q EXCEPT !.status = status] /\ q.id = id /\ q.status # "Canceled"
      BY <1>2
    <2>2. CASE o = q /\ (q.id # id \/ q.status = "Canceled")
      BY <1>1, <2>2
    <2>3. CASE o = [q EXCEPT !.status = status] /\ q.id = id /\ q.status # "Canceled"
      BY <1>1, <2>3
    <2> QED
      BY <2>1, <2>2, <2>3
  <1>5. Ids(orders)' = Ids(orders)
    <2>1. \A o \in orders' : \E q \in orders : o.id = q.id
      BY <1>4 DEF Alike
    <2> QED
      BY <1>3, <2>1 DEF Ids
  <1>6. ASSUME NEW k, k # id
        PROVE  LiveOnGrid(k)' <=> LiveOnGrid(k)
    <2>1. LiveOnGrid(k) => LiveOnGrid(k)'
      BY <1>3, <1>6 DEF LiveOnGrid
    <2>2. LiveOnGrid(k)' => LiveOnGrid(k)
      BY <1>4, <1>6 DEF LiveOnGrid, Alike
    <2> QED
      BY <2>1, <2>2
  <1>7. ASSUME status = "Live", NEW q \in orders, q.id = id, q.status = "Live"
        PROVE  LiveOnGrid(id)'
    <2>1. [q EXCEPT !.status = status] \in orders'
      BY <1>7 DEF Remarked
    <2> QED
      BY <1>1, <1>7, <2>1 DEF LiveOnGrid
  <1> QED
    BY <1>4, <1>5, <1>6, <1>7 DEF LiveOnGrid

\* What an order is marked with is so.
LEMMA MarkedTruly ==
  ASSUME Known, OrderInv, NEW t, NEW id \in Ids(orders), NEW status, Marks(t, id, status)
  PROVE  /\ status \in {"Filled", "PartiallyFilled"} => id \in filled \cup part
         /\ status = "Live" => id \in live \cup filled
         /\ status = "Canceled" => Back(id) /\ (~Opens(id) => Opener(id) \in stranded)
  <1>1. CASE t = "check" /\ pc[t] = "markfilled" /\ status = "Filled"
    BY <1>1 DEF Marks, OrderInv, MarksTrue
  <1>2. CASE t = "feed" /\ pc[t] = "mark" /\ status = StatusOf(inbox[1])
    <2>1. inbox # <<>> /\ inbox \in Seq(Messages)
      BY <1>2 DEF Known, SysTypeOK, HasMessage
    <2>2. PICK m : m = inbox[1]
      OBVIOUS
    <2>3. m \in Mail /\ 1 \in DOMAIN inbox /\ m \in Messages
      BY <2>1, <2>2 DEF Mail
    <2>4. id \in Marked(m) /\ m.kind # "answer"
      BY <1>2, <2>2 DEF Marks, OrderInv, MarksTrue
    <2>5. /\ m.kind \in {"Filled", "PartiallyFilled"} => id \in filled \cup part
          /\ m.kind = "Live" => id \in live \cup filled
          /\ m.kind # "Canceled" /\ m.kind # "Empty"
      <3>1. id \in m.ids \cap Ids(orders)
        BY <2>4 DEF Marked
      <3> QED
        BY <2>3, <3>1 DEF OrderInv, MarksTrue, Known, MailInShape
    <2>6. m.kind \in {"Live", "Filled", "PartiallyFilled"} \/ m.kind \in Refusals
      BY <2>3, <2>4, <2>5 DEF Messages, Statuses, Refusals
    <2>7. CASE m.kind \in {"Live", "Filled", "PartiallyFilled"}
      <3>1. status = m.kind
        BY <1>2, <2>2, <2>7 DEF StatusOf, Statuses
      <3> QED
        BY <2>5, <2>7, <3>1
    <2>8. CASE m.kind \in Refusals
      <3>1. status = "Canceled"
        BY <1>2, <2>2, <2>8 DEF StatusOf, Statuses, Refusals
      <3>2. Back(id)
        BY <2>2, <2>3, <2>4, <2>8 DEF Back, HeldIn, Holds
      <3>3. ~Opens(id) => Opener(id) \in stranded
        BY <2>3, <2>4, <2>8 DEF OrderInv, Quietly, ExitsCovered
      <3> QED
        BY <3>1, <3>2, <3>3
    <2> QED
      BY <2>6, <2>7, <2>8
  <1> QED
    BY <1>1, <1>2 DEF Marks

LEMMA RemarkKeeps ==
  ASSUME Known, OrderInv, NEW t \in Threads, NEW id, NEW status, Marks(t, id, status)
  PROVE  OrderInv'
  <1>1. /\ UNCHANGED <<pc, closing, exchange, forgotten, overtaken, unheeded, stranded, wire, inbox>>
        /\ count'.tests = count.tests /\ orders' = Remarked(id, status)
        /\ id \in todo[t] /\ todo' = [todo EXCEPT ![t] = @ \ {id}]
        /\ status \in Statuses \ {"Empty"}
        /\ pc[t] \in {"mark", "markfilled"} /\ t \in {"feed", "check"}
        /\ todo \in [Threads -> SUBSET ChainId] /\ orders \subseteq Order
    BY DEF Marks, Unmoved, Known, SysTypeOK, TypeOK
  <1>2. /\ \A k : (Sent(k)' <=> Sent(k)) /\ (Back(k)' <=> Back(k))
        /\ \A r : Under(r)' <=> Under(r)
        /\ (OnceOnWire' <=> OnceOnWire) /\ (OnceInMail' <=> OnceInMail)
        /\ CancelsLast' /\ Mail' = Mail
    BY <1>1, UnmovedPlaces DEF OrderInv
  <1>3. \A u \in Threads : /\ u # t => todo'[u] = todo[u]
                           /\ u = t => todo'[u] = todo[t] \ {id}
    BY <1>1
  <1>4. /\ \A k : ToSend(k)' <=> ToSend(k)
        /\ OnceByThreads => OnceByThreads'
    BY <1>1, <1>3 DEF ToSend, OnceByThreads, SentBy
  <1>5. /\ \A task, k : Doing(task, k)' <=> Doing(task, k)
        /\ \A task : IsTask(task)' <=> IsTask(task)
        /\ \A k : ToClose(k)' <=> ToClose(k)
        /\ \A k : Cancelling(k)' <=> Cancelling(k)
        /\ \A k : InClosing(k)' <=> InClosing(k)
    <2>1. \A u \in Threads : /\ pc'[u] = "cancel" <=> pc[u] = "cancel"
                             /\ pc[u] = "cancel" => todo'[u] = todo[u]
      BY <1>1, <1>3
    <2>2. /\ \A task, k : Doing(task, k)' <=> Doing(task, k)
          /\ \A task : IsTask(task)' <=> IsTask(task)
          /\ \A k : ToClose(k)' <=> ToClose(k)
      BY <1>1, <1>2, <2>1 DEF Doing, IsTask, ToClose
    <2> QED
      BY <2>2 DEF Cancelling, InClosing
  <1>6. /\ \A o \in orders' : \E q \in orders :
              /\ Alike(o, q)
              /\ \/ o.status = q.status /\ (q.id # id \/ q.status = "Canceled")
                 \/ o.status = status /\ q.id = id /\ q.status # "Canceled"
        /\ Ids(orders)' = Ids(orders)
        /\ \A k : k # id => (LiveOnGrid(k)' <=> LiveOnGrid(k))
        /\ status = "Live" /\ LiveOnGrid(id) => LiveOnGrid(id)'
    BY <1>1, RemarkedIs
  <1>7. status # "Live" => ~LiveOnGrid(id)'
    BY <1>1, <1>6 DEF LiveOnGrid, Alike
  <1>8. ASSUME id \in Ids(orders)
        PROVE  /\ status \in {"Filled", "PartiallyFilled"} => id \in filled \cup part
               /\ status = "Live" => id \in live \cup filled
               /\ status = "Canceled" => Back(id) /\ (~Opens(id) => Opener(id) \in stranded)
    BY <1>8, MarkedTruly
  <1>9. ASSUME id \in Ids(orders), status # "Live"
        PROVE  ~Sent(id) /\ id \notin live \ part
    <2>1. live \cap filled = {} /\ part \subseteq live
      BY DEF OrderInv, Quietly, Untaken
    <2>2. CASE status = "Canceled"
      BY <1>8, <1>9, <2>2 DEF OrderInv, Quietly, Apart, Untaken
    <2>3. CASE id \in filled \cup part
      BY <2>1, <2>3 DEF OrderInv, Quietly, Untaken
    <2> QED
      BY <1>1, <1>8, <1>9, <2>2, <2>3 DEF Statuses
  <1>10. Apart' /\ Untaken' /\ CancelsDropped'
    BY <1>1, <1>2, <1>4, <1>5, <1>6 DEF OrderInv, Quietly, Apart, Untaken, CancelsDropped, exchange
  <1>11. RefusedGone'
    <2>1. SUFFICES ASSUME NEW o \in orders', o.status = "Canceled", o.id \notin forgotten
                   PROVE  o.id \notin live \cup filled /\ ~ToSend(o.id) /\ ~Sent(o.id)
      BY <1>1, <1>2, <1>4 DEF RefusedGone, exchange
    <2>2. PICK q \in orders :
              /\ Alike(o, q)
              /\ \/ o.status = q.status /\ (q.id # id \/ q.status = "Canceled")
                 \/ o.status = status /\ q.id = id /\ q.status # "Canceled"
      BY <1>6
    <2>3. CASE q.status = "Canceled"
      BY <2>1, <2>2, <2>3 DEF OrderInv, Quietly, RefusedGone, Alike
    <2>4. CASE q.id = id /\ status = "Canceled"
      <3>1. Back(id) /\ o.id = id
        BY <1>8, <2>2, <2>4 DEF Ids, Alike
      <3> QED
        BY <3>1 DEF OrderInv, Quietly, Apart, Untaken
    <2> QED
      BY <2>1, <2>2, <2>3, <2>4
  <1>12. Tracked'
    <2>1. ASSUME NEW k, Sent(k) \/ k \in live \ part
          PROVE  LiveOnGrid(k)' \/ Cancelling(k) \/ Stray(k)
      <3>1. LiveOnGrid(k) \/ Cancelling(k) \/ Stray(k)
        BY <2>1 DEF OrderInv, Quietly, Tracked
      <3>2. LiveOnGrid(k) => k # id \/ status = "Live"
        BY <1>9, <2>1 DEF LiveOnGrid, Ids
      <3> QED
        BY <1>6, <3>1, <3>2
    <2> QED
      BY <1>1, <1>2, <1>5, <2>1 DEF Tracked, Stray, exchange
  <1>13. Awaited'
    <2>1. \A o \in orders' : o.status = "Live" =>
            o.id \in live \cup filled \/ \E q \in orders : q.status = "Live" /\ q.id = o.id
      BY <1>6, <1>8 DEF Alike, Ids
    <2> QED
      BY <1>1, <1>2, <1>4, <2>1 DEF OrderInv, Quietly, Awaited, exchange
  <1>14. Turns'
    BY <1>6 DEF OrderInv, Quietly, Turns, Alike
  <1>15. OneStatus'
    <2>1. SUFFICES ASSUME NEW o \in orders', NEW p \in orders', o.id = p.id
                   PROVE  o.status = p.status
      BY DEF OneStatus
    <2>2. PICK q \in orders :
              /\ Alike(o, q)
              /\ \/ o.status = q.status /\ (q.id # id \/ q.status = "Canceled")
                 \/ o.status = status /\ q.id = id /\ q.status # "Canceled"
      BY <1>6
    <2>3. PICK s \in orders :
              /\ Alike(p, s)
              /\ \/ p.status = s.status /\ (s.id # id \/ s.status = "Canceled")
                 \/ p.status = status /\ s.id = id /\ s.status # "Canceled"
      BY <1>6
    <2>4. q.id = s.id /\ q.status = s.status
      BY <2>1, <2>2, <2>3 DEF OrderInv, Quietly, OneStatus, Alike
    <2> QED
      BY <2>2, <2>3, <2>4
  <1>16. ExitsCovered'
    <2>1. ASSUME NEW o \in orders', o.status = "Canceled", ~Opens(o.id)
          PROVE  Opener(o.id) \in stranded
      <3>1. PICK q \in orders :
                /\ o.id = q.id
                /\ q.status = "Canceled" \/ (status = "Canceled" /\ q.id = id)
        BY <1>6, <2>1 DEF Alike
      <3>2. CASE q.status = "Canceled"
        BY <2>1, <3>1, <3>2 DEF OrderInv, Quietly, ExitsCovered
      <3>3. CASE status = "Canceled" /\ q.id = id
        BY <1>8, <2>1, <3>1, <3>3 DEF Ids
      <3> QED
        BY <3>1, <3>2, <3>3
    <2>2. closed' = closed /\ stranded' = stranded
      BY <1>1 DEF exchange
    <2> QED
      BY <1>2, <1>5, <2>1, <2>2 DEF OrderInv, Quietly, ExitsCovered, Marked
  <1>17. Covered'
    BY <1>1, <1>2, <1>4, <1>5, <1>6 DEF OrderInv, Quietly, Covered, Cared, exchange
  <1>18. MarksTrue'
    <2>1. MarksTrue /\ live' = live /\ filled' = filled /\ part' = part /\ inbox' = inbox
      BY <1>1 DEF OrderInv, exchange
    <2>2. ASSUME NEW o \in orders'
          PROVE  /\ o.status \in {"Filled", "PartiallyFilled"} => o.id \in filled \cup part
                 /\ o.status # "Empty"
      <3>1. PICK q \in orders :
                /\ o.id = q.id
                /\ o.status = q.status \/ (o.status = status /\ q.id = id)
        BY <1>6 DEF Alike
      <3>2. CASE o.status = q.status
        BY <2>1, <3>1, <3>2 DEF MarksTrue
      <3>3. CASE o.status = status /\ q.id = id
        BY <1>1, <1>8, <3>1, <3>3 DEF Ids
      <3> QED
        BY <3>1, <3>2, <3>3
    <2>3. \A u \in Threads : todo'[u] \subseteq todo[u]
      BY <1>3
    <2>4. todo'["feed"] \subseteq todo["feed"] /\ todo'["check"] \subseteq todo["check"]
      BY <2>3 DEF Threads
    <2> QED
      BY <1>1, <1>2, <1>6, <2>1, <2>2, <2>4 DEF MarksTrue, Marked
  <1>19. RefusalsHeard'
    <2>3. inbox[1].kind \in Refusals => status # "Live"
      BY DEF Marks, StatusOf, Refusals, Statuses
    <2>1. SUFFICES ASSUME pc["feed"] = "mark", inbox[1].kind \in Refusals,
                          NEW k \in Marked(inbox[1]) \ todo'["feed"], k # id
                   PROVE  ~LiveOnGrid(k)'
      BY <1>1, <1>7, <2>3 DEF RefusalsHeard, Marked
    <2>2. k \notin todo["feed"]
      BY <1>1, <1>3, <2>1 DEF Threads
    <2> QED
      BY <1>6, <2>1, <2>2 DEF OrderInv, RefusalsHeard
  <1>20. TasksHold'
    <2>1. \A k : Gone(k) => Gone(k)'
      BY <1>1, <1>2, <1>6 DEF Gone, Stray, exchange
    <2> QED
      BY <1>1, <1>5, <2>1, TasksKept DEF OrderInv, TasksHold, exchange
  <1>21. Quietly'
    BY <1>10, <1>11, <1>12, <1>13, <1>14, <1>15, <1>16, <1>17 DEF Quietly
  <1> QED
    BY <1>2, <1>18, <1>19, <1>20, <1>21 DEF OrderInv

LEMMA AmendedIs ==
  ASSUME orders \subseteq Order, NEW A, \A o \in A : IsExit(o), orders' = Amended(A)
  PROVE  /\ \A o \in orders' : \E q \in orders : Alike(o, q) /\ o.status = q.status
         /\ Ids(orders)' = Ids(orders)
         /\ \A id : LiveOnGrid(id)' <=> LiveOnGrid(id)
  <1>1. ASSUME NEW q \in orders
        PROVE  \E o \in orders' : /\ o = IF q \in A THEN [q EXCEPT !.auto = FALSE] ELSE q
                                  /\ Alike(o, q) /\ o.status = q.status
    <2>1. PICK o : o = IF q \in A THEN [q EXCEPT !.auto = FALSE] ELSE q
      OBVIOUS
    <2>2. o \in orders'
      BY <2>1 DEF Amended
    <2>3. Alike(o, q) /\ o.status = q.status
      BY <2>1 DEF Order, Alike, IsExit
    <2> QED
      BY <2>1, <2>2, <2>3
  <1>2. \A o \in orders' : \E q \in orders : o = IF q \in A THEN [q EXCEPT !.auto = FALSE] ELSE q
    BY DEF Amended
  <1>3. ASSUME NEW o \in orders'
        PROVE  \E q \in orders : Alike(o, q) /\ o.status = q.status
    <2>1. PICK q \in orders : o = IF q \in A THEN [q EXCEPT !.auto = FALSE] ELSE q
      BY <1>2
    <2> QED
      BY <1>1, <2>1
  <1>4. \A q \in orders : \E o \in orders' : o.id = q.id /\ o.status = q.status
    BY <1>1 DEF Alike
  <1>5. \A o \in orders' : \E q \in orders : o.id = q.id /\ o.status = q.status
    BY <1>3 DEF Alike
  <1>6. Ids(orders)' = Ids(orders)
    BY <1>4, <1>5 DEF Ids
  <1>7. \A id : LiveOnGrid(id)' <=> LiveOnGrid(id)
    BY <1>4, <1>5 DEF LiveOnGrid
  <1> QED
    BY <1>3, <1>6, <1>7

LEMMA AmendKeeps ==
  ASSUME Known, OrderInv, NEW A, Amends(A)
  PROVE  OrderInv'
  <1>1. /\ UNCHANGED <<pc, todo, closing, exchange, forgotten, overtaken, unheeded, stranded, wire, inbox>>
        /\ count'.tests = count.tests /\ orders' = Amended(A) /\ \A o \in A : IsExit(o)
        /\ orders \subseteq Order
    BY DEF Amends, Unmoved, Known, SysTypeOK, TypeOK
  <1>2. /\ \A id : (Sent(id)' <=> Sent(id)) /\ (Back(id)' <=> Back(id))
        /\ \A r : Under(r)' <=> Under(r)
        /\ (OnceOnWire' <=> OnceOnWire) /\ (OnceInMail' <=> OnceInMail)
        /\ CancelsLast' /\ Mail' = Mail
    BY <1>1, UnmovedPlaces DEF OrderInv
  <1>3. /\ \A id : ToSend(id)' <=> ToSend(id)
        /\ OnceByThreads' <=> OnceByThreads
    BY <1>1 DEF ToSend, OnceByThreads, SentBy
  <1>4. /\ \A task, id : Doing(task, id)' <=> Doing(task, id)
        /\ \A task : IsTask(task)' <=> IsTask(task)
        /\ \A id : ToClose(id)' <=> ToClose(id)
        /\ \A id : Cancelling(id)' <=> Cancelling(id)
        /\ \A id : InClosing(id)' <=> InClosing(id)
    <2>1. /\ \A task, id : Doing(task, id)' <=> Doing(task, id)
          /\ \A task : IsTask(task)' <=> IsTask(task)
          /\ \A id : ToClose(id)' <=> ToClose(id)
      BY <1>1, <1>2 DEF Doing, IsTask, ToClose
    <2> QED
      BY <2>1 DEF Cancelling, InClosing
  <1>5. /\ \A o \in orders' : \E q \in orders : Alike(o, q) /\ o.status = q.status
        /\ Ids(orders)' = Ids(orders)
        /\ \A id : LiveOnGrid(id)' <=> LiveOnGrid(id)
    BY <1>1, AmendedIs
  <1>6. Apart' /\ Untaken' /\ CancelsDropped'
    BY <1>1, <1>2, <1>3, <1>4, <1>5 DEF OrderInv, Quietly, Apart, Untaken, CancelsDropped, exchange
  <1>7. RefusedGone' /\ Awaited'
    <2>1. \A o \in orders' : \E q \in orders : o.id = q.id /\ o.status = q.status
      BY <1>5 DEF Alike
    <2> QED
      BY <1>1, <1>2, <1>3, <2>1 DEF OrderInv, Quietly, RefusedGone, Awaited, exchange
  <1>8. Tracked'
    BY <1>1, <1>2, <1>4, <1>5 DEF OrderInv, Quietly, Tracked, Stray, exchange
  <1>9. Turns' /\ OneStatus'
    BY <1>5 DEF OrderInv, Quietly, Turns, OneStatus, Alike
  <1>10. ExitsCovered' /\ Covered'
    <2>1. \A o \in orders' : \E q \in orders : o.id = q.id /\ o.status = q.status
      BY <1>5 DEF Alike
    <2>2. closed' = closed /\ stranded' = stranded /\ live' = live /\ filled' = filled
      BY <1>1 DEF exchange
    <2>3. ExitsCovered'
      BY <1>2, <1>4, <2>1, <2>2 DEF OrderInv, Quietly, ExitsCovered, Marked
    <2>4. Covered'
      BY <1>1, <1>2, <1>3, <1>4, <1>5, <2>2 DEF OrderInv, Quietly, Covered, Cared
    <2> QED
      BY <2>3, <2>4
  <1>11. MarksTrue'
    <2>1. MarksTrue /\ live' = live /\ filled' = filled /\ part' = part
      BY <1>1 DEF OrderInv, exchange
    <2>2. \A o \in orders' : \E q \in orders : o.id = q.id /\ o.status = q.status
      BY <1>5 DEF Alike
    <2>3. \A o \in orders' : /\ o.status \in {"Filled", "PartiallyFilled"} => o.id \in filled \cup part
                             /\ o.status # "Empty"
      BY <2>1, <2>2 DEF MarksTrue
    <2> QED
      BY <1>1, <1>2, <1>5, <2>1, <2>3 DEF MarksTrue, Marked
  <1>12. RefusalsHeard'
    BY <1>1, <1>5 DEF OrderInv, RefusalsHeard, Marked
  <1>13. TasksHold'
    <2>1. \A id : Gone(id) => Gone(id)'
      BY <1>1, <1>2, <1>5 DEF Gone, Stray, exchange
    <2> QED
      BY <1>1, <1>4, <2>1, TasksKept DEF OrderInv, TasksHold, exchange
  <1> QED
    BY <1>2, <1>6, <1>7, <1>8, <1>9, <1>10, <1>11, <1>12, <1>13 DEF OrderInv, Quietly

---------------------------------------------------------------------------
(* The grid is closed out.                                                 *)

LEMMA ClearKeeps ==
  ASSUME Known, OrderInv, NEW t \in Threads, NEW B, Clears(t, B)
  PROVE  OrderInv'
  <1>1. /\ UNCHANGED <<exchange, forgotten, overtaken, unheeded, wire, inbox>>
        /\ Elsewhere(t) /\ orders' = {}
        /\ pc[t] = "closeout" /\ pc'[t] = "cancel" /\ todo'[t] = Ids(Cancelled)
        /\ closing' = [closing EXCEPT ![t] = B] /\ B \subseteq Ids(Closable)
        /\ stranded' = stranded \cup Ids({o \in orders : ~IsExit(o)}) \cup OpenersOf(Ids(Closable) \ B)
        /\ closing \in [Threads -> SUBSET ChainId]
    BY DEF Clears, Unmoved, Known, SysTypeOK
  <1>2. /\ \A id : (Sent(id)' <=> Sent(id)) /\ (Back(id)' <=> Back(id))
        /\ \A r : Under(r)' <=> Under(r)
        /\ (OnceOnWire' <=> OnceOnWire) /\ (OnceInMail' <=> OnceInMail)
        /\ CancelsLast' /\ Mail' = Mail
    BY <1>1, UnmovedPlaces DEF OrderInv
  <1>3. /\ \A id : ToSend(id)' <=> ToSend(id)
        /\ OnceByThreads => OnceByThreads'
    BY <1>1 DEF ToSend, OnceByThreads, SentBy, Elsewhere
  <1>4. /\ \A u \in Threads : u # t => closing'[u] = closing[u] /\ pc'[u] = pc[u] /\ todo'[u] = todo[u]
        /\ closing'[t] = B /\ closing[t] = {}
    BY <1>1 DEF Elsewhere, OrderInv, TasksHold
  <1>5. /\ \A id : id \in Ids(Cancelled) <=> LiveOnGrid(id)
        /\ Ids(Closable) \subseteq Ids(Cancelled)
    BY DEF Ids, Cancelled, Closable, LiveOnGrid
  <1>6. /\ \A task, id : Doing(task, id)' <=> Doing(task, id) \/ (task = B /\ LiveOnGrid(id))
        /\ \A task : IsTask(task)' => IsTask(task) \/ task = B
        /\ \A task : IsTask(task) => IsTask(task)' \/ task = {}
        /\ \A task : task = B => IsTask(task)'
        /\ \A id : ToClose(id)' <=> ToClose(id)
    <2>1. \A task, id : Doing(task, id)' <=> Doing(task, id) \/ (task = B /\ LiveOnGrid(id))
      BY <1>1, <1>2, <1>4, <1>5 DEF Doing
    <2>2. \A task : IsTask(task)' => IsTask(task) \/ task = B
      BY <1>2, <1>4 DEF IsTask
    <2>3. \A task : IsTask(task) => IsTask(task)' \/ task = {}
      BY <1>2, <1>4 DEF IsTask
    <2>4. \A task : task = B => IsTask(task)'
      BY <1>4 DEF IsTask
    <2>5. \A id : ToClose(id)' <=> ToClose(id)
      BY <1>2 DEF ToClose
    <2> QED
      BY <2>1, <2>2, <2>3, <2>4, <2>5
  <1>7. /\ \A id : Cancelling(id)' <=> Cancelling(id) \/ LiveOnGrid(id)
        /\ \A id : InClosing(id) => InClosing(id)'
        /\ \A id \in B : InClosing(id)'
    BY <1>6 DEF Cancelling, InClosing
  <1>8. Apart' /\ Untaken' /\ Tracked'
    <2>1. Apart' /\ Untaken'
      BY <1>1, <1>2, <1>3 DEF OrderInv, Quietly, Apart, Untaken, exchange
    <2>2. Tracked'
      BY <1>1, <1>2, <1>7 DEF OrderInv, Quietly, Tracked, Stray, exchange
    <2> QED
      BY <2>1, <2>2
  <1>9. CancelsDropped' /\ RefusedGone' /\ Awaited' /\ Turns' /\ OneStatus'
    BY <1>1 DEF CancelsDropped, RefusedGone, Awaited, Turns, OneStatus, Ids
  <1>10. ASSUME NEW o \in orders
         PROVE  /\ o.status = "Live" /\ ~Opens(o.id) => InClosing(o.id)' \/ Opener(o.id) \in stranded'
                /\ Opens(o.id) => o.id \in stranded'
    <2>1. IsExit(o) <=> ~Opens(o.id)
      BY DEF OrderInv, Quietly, Turns
    <2>2. Opens(o.id) => o.id \in stranded'
      BY <1>1, <2>1 DEF Ids
    <2>3. ASSUME o.status = "Live", ~Opens(o.id)
          PROVE  InClosing(o.id)' \/ Opener(o.id) \in stranded'
      <3>1. o.id \in Ids(Closable)
        BY <2>1, <2>3 DEF Closable, Cancelled, Ids
      <3>2. CASE o.id \in B
        BY <1>7, <3>2
      <3>3. CASE o.id \notin B
        BY <1>1, <2>3, <3>1, <3>3 DEF OpenersOf
      <3> QED
        BY <3>2, <3>3
    <2> QED
      BY <2>2, <2>3
  <1>11. stranded \subseteq stranded' /\ closed' = closed /\ live' = live /\ filled' = filled
    BY <1>1 DEF exchange
  <1>12. ExitsCovered'
    <2>1. ASSUME NEW id, Cancelling(id)', ~Opens(id)
          PROVE  InClosing(id)' \/ id \in closed' \/ Opener(id) \in stranded'
      <3>1. CASE Cancelling(id)
        BY <1>7, <1>11, <2>1, <3>1 DEF OrderInv, Quietly, ExitsCovered
      <3>2. CASE LiveOnGrid(id)
        BY <1>10, <2>1, <3>2 DEF LiveOnGrid
      <3> QED
        BY <1>7, <2>1, <3>1, <3>2
    <2> QED
      BY <1>1, <1>2, <1>11, <2>1 DEF OrderInv, Quietly, ExitsCovered, Marked
  <1>13. Covered'
    <2>1. SUFFICES ASSUME 1 \notin GridCounts,
                          NEW id, Opens(id), ToSend(id)' \/ Sent(id)' \/ id \in live' \cup filled'
                   PROVE  id \in stranded' \cup forgotten' \cup Ids(orders)' \/ Cared(Closer(id))'
      BY DEF Covered
    <2>2. ToSend(id) \/ Sent(id) \/ id \in live \cup filled
      BY <1>2, <1>3, <1>11, <2>1
    <2>3. id \in ChainId
      <3>1. Named(id)
        BY <2>2, PlacesAreNamed DEF Named
      <3> QED
        BY <3>1, NamesAreTyped DEF Known, NamesTyped
    <2>4. PICK c : c = Closer(id)
      OBVIOUS
    <2>5. ~Opens(c) /\ Opener(c) = id
      BY <2>1, <2>3, <2>4, OpensTurns, OpenerOfCloser
    <2>6. id \in stranded \cup forgotten \cup Ids(orders) \/ Cared(c)
      BY <2>1, <2>2, <2>4 DEF OrderInv, Quietly, Covered
    <2>7. CASE id \in Ids(orders)
      BY <1>10, <2>1, <2>7 DEF Ids
    <2>8. ASSUME NEW o \in orders, o.id = c
          PROVE  id \in stranded' \/ c \in filled \cup live \/ InClosing(c)'
      <3>1. o.status \in {"Live", "PartiallyFilled", "Filled", "Canceled"}
        BY DEF Known, SysTypeOK, TypeOK, Order, OrderInv, MarksTrue, Statuses
      <3>2. o.status \in {"PartiallyFilled", "Filled"} => c \in filled \cup live
        BY <2>8 DEF OrderInv, MarksTrue, Quietly, Untaken
      <3>3. o.status = "Canceled" => id \in stranded'
        BY <1>11, <2>5, <2>8 DEF OrderInv, Quietly, ExitsCovered
      <3>4. o.status = "Live" => InClosing(c)' \/ id \in stranded'
        BY <1>10, <2>5, <2>8
      <3> QED
        BY <3>1, <3>2, <3>3, <3>4
    <2>9. c \in filled \cup live \cup closed \/ InClosing(c)' => Cared(c)'
      BY <1>11 DEF Cared
    <2>10. Cared(c) => c \in Ids(orders) \/ c \in filled \cup live \cup closed \/ InClosing(c)
      BY DEF Cared
    <2>11. Cared(c)' => Cared(Closer(id))'
      BY <2>4
    <2>12. c \in Ids(orders) => \E o \in orders : o.id = c
      BY DEF Ids
    <2> QED
      BY <1>1, <1>7, <1>11, <2>6, <2>7, <2>8, <2>9, <2>10, <2>11, <2>12
  <1>14. SteadyFeed /\ SteadyCheck
    BY <1>1, <1>4 DEF SteadyFeed, SteadyCheck, Threads
  <1>15. MarksTrue'
    <2>1. MarksTrue /\ inbox' = inbox
      BY <1>1 DEF OrderInv
    <2>2. Ids(orders)' = {}
      BY <1>1 DEF Ids
    <2>3. pc'["feed"] = "mark" => todo'["feed"] \subseteq Marked(inbox[1])' /\ inbox'[1].kind # "answer"
      BY <1>14, <2>1 DEF SteadyFeed, MarksTrue, Marked
    <2> QED
      BY <1>1, <2>2, <2>3 DEF MarksTrue
  <1>16. RefusalsHeard'
    BY <1>1 DEF RefusalsHeard, LiveOnGrid
  <1>17. TasksHold'
    <2>1. \A id : Gone(id) => Gone(id)'
      BY <1>1, <1>2 DEF Gone, Stray, Ids, exchange
    <2>2. ASSUME NEW task, IsTask(task)', NEW id \in task
          PROVE  Gone(id)' \/ Doing(task, id)'
      <3>1. CASE IsTask(task)
        BY <1>6, <2>1, <2>2, <3>1 DEF OrderInv, TasksHold
      <3>2. CASE task = B
        BY <1>1, <1>5, <1>6, <2>2, <3>2
      <3> QED
        BY <1>6, <2>2, <3>1, <3>2
    <2>3. \A id : ToClose(id)' \/ id \in closed' => Gone(id)'
      BY <1>6, <1>11, <2>1 DEF OrderInv, TasksHold
    <2>4. \A u \in Threads : pc'[u] # "cancel" => closing'[u] = {}
      BY <1>1, <1>4 DEF OrderInv, TasksHold
    <2> QED
      BY <2>2, <2>3, <2>4 DEF TasksHold
  <1> QED
    BY <1>2, <1>8, <1>9, <1>12, <1>13, <1>15, <1>16, <1>17 DEF OrderInv, Quietly

---------------------------------------------------------------------------
(* Names spread from where they are.                                       *)

InShape(m) ==
  /\ m.kind # "Empty"
  /\ IF m.kind = "busy" THEN \E r \in Requests : m.again = <<r>> ELSE m.again = <<>>

Spreads ==
  /\ \A u \in Threads :
       \A id \in todo'[u] \cup closing'[u] : Named(id) \/ \E o \in orders' : o.id = id
  /\ \A r \in Wired' : r \in Wired \/ \A id : RequestNames(r, id) => Named(id)
  /\ \A m \in Mail' : m \in Mail \/ (InShape(m) /\ \A id : MessageNames(m, id) => Named(id))
  /\ \A id \in live' \cup part' \cup filled' \cup closed' : Named(id)

LEMMA NamesStayTyped == (SysTypeOK /\ MailInShape)' => NamesTyped'
  BY NamesAreTyped, PTL

LEMMA SpreadIsKnown ==
  ASSUME MailInShape, Spreads, SysTypeOK'
  PROVE  MailInShape' /\ NamesGrow
  <1>1. MailInShape'
    BY DEF Spreads, InShape, MailInShape
  <1>2. NamesTyped'
    BY <1>1, NamesStayTyped
  <1>3. ASSUME NEW id, Named(id)'
        PROVE  Named(id) \/ \E o \in orders' : o.id = id
    <2>1. ASSUME NEW r \in Wired', RequestNames(r, id)
          PROVE  Named(id)
      <3>1. CASE r \in Wired
        BY <2>1, <3>1 DEF Named
      <3> QED
        BY <2>1, <3>1 DEF Spreads
    <2>2. ASSUME NEW m \in Mail', MessageNames(m, id)
          PROVE  Named(id)
      <3>1. CASE m \in Mail
        BY <2>2, <3>1 DEF Named
      <3> QED
        BY <2>2, <3>1 DEF Spreads
    <2>3. \/ \E o \in orders' : o.id = id
          \/ \E u \in Threads : id \in todo'[u] \cup closing'[u]
          \/ \E r \in Wired' : RequestNames(r, id)
          \/ \E m \in Mail' : MessageNames(m, id)
          \/ id \in live' \cup part' \cup filled' \cup closed'
      BY <1>3 DEF Named, RequestNames, MessageNames
    <2> QED
      BY <2>1, <2>2, <2>3 DEF Spreads
  <1> QED
    BY <1>1, <1>2, <1>3 DEF NamesGrow, NamesTyped

\* What the threads do to the grid, and to themselves.
LEMMA GridSpreads ==
  ASSUME Known, UNCHANGED <<wire, inbox, exchange>>,
         \A u \in Threads : \A id \in todo'[u] \cup closing'[u] :
           id \in todo[u] \cup closing[u] \cup Ids(orders) \cup Ids(orders') \/ Named(id)
  PROVE  Spreads
  <1>1. Wired' = Wired /\ Mail' = Mail /\ live' = live /\ part' = part /\ filled' = filled
        /\ closed' = closed
    BY DEF Wired, Mail, exchange
  <1>2. \A u \in Threads : \A id \in todo'[u] \cup closing'[u] : Named(id) \/ \E o \in orders' : o.id = id
    BY DEF Named, Ids
  <1>3. \A id \in live \cup part \cup filled \cup closed : Named(id)
    BY DEF Named
  <1> QED
    BY <1>1, <1>2, <1>3 DEF Spreads

LEMMA GridStepsSpread ==
  ASSUME Known, NEW t \in Threads, NEW new, NEW id, NEW status, NEW A,
         \/ Rests \/ Idles(t) \/ Grows(t, new) \/ Marks(t, id, status) \/ Amends(A) \/ Clears(t, A)
  PROVE  Spreads
  <1>1. todo \in [Threads -> SUBSET ChainId] /\ closing \in [Threads -> SUBSET ChainId]
    BY DEF Known, SysTypeOK
  <1>2. UNCHANGED <<wire, inbox, exchange>>
    BY DEF Rests, Idles, Grows, Marks, Amends, Clears, Unmoved
  <1>3. CASE Rests
    BY <1>2, <1>3, GridSpreads DEF Rests
  <1>4. CASE Idles(t)
    <2>1. ASSUME NEW u \in Threads, NEW k \in todo'[u] \cup closing'[u]
          PROVE  k \in todo[u] \cup closing[u] \/ Named(k)
      BY <1>4, <2>1 DEF Idles, Elsewhere
    <2> QED
      BY <1>2, <2>1, GridSpreads
  <1>5. CASE Grows(t, new)
    <2>1. Ids(new) \subseteq Ids(orders')
      BY <1>5 DEF Grows, Ids
    <2>2. ASSUME NEW u \in Threads, NEW k \in todo'[u] \cup closing'[u]
          PROVE  k \in todo[u] \cup closing[u] \cup Ids(orders')
      BY <1>5, <2>1, <2>2 DEF Grows, Elsewhere
    <2> QED
      BY <1>2, <2>2, GridSpreads
  <1>6. CASE Marks(t, id, status)
    <2>1. ASSUME NEW u \in Threads, NEW k \in todo'[u] \cup closing'[u]
          PROVE  k \in todo[u] \cup closing[u]
      BY <1>1, <1>6, <2>1 DEF Marks
    <2> QED
      BY <1>2, <2>1, GridSpreads
  <1>7. CASE Amends(A)
    BY <1>2, <1>7, GridSpreads DEF Amends
  <1>8. CASE Clears(t, A)
    <2>1. Ids(Cancelled) \subseteq Ids(orders) /\ Ids(Closable) \subseteq Ids(orders)
      BY DEF Ids, Cancelled, Closable
    <2>2. ASSUME NEW u \in Threads, NEW k \in todo'[u] \cup closing'[u]
          PROVE  k \in todo[u] \cup closing[u] \cup Ids(orders)
      <3>1. CASE u = t
        BY <1>1, <1>8, <2>1, <2>2, <3>1 DEF Clears
      <3>2. CASE u # t
        BY <1>1, <1>8, <2>2, <3>2 DEF Clears, Elsewhere
      <3> QED
        BY <3>1, <3>2
    <2> QED
      BY <1>2, <2>2, GridSpreads
  <1> QED
    BY <1>3, <1>4, <1>5, <1>6, <1>7, <1>8

\* What is sent.
LEMMA ThreadsSpread ==
  ASSUME Known, UNCHANGED <<exchange>>, Mail' \subseteq Mail,
         \A u \in Threads : todo'[u] \subseteq todo[u] /\ closing'[u] \subseteq closing[u],
         Wired' \subseteq Wired
           \/ \E q : Wired' = Wired \cup {q} /\ \A id : RequestNames(q, id) => Named(id)
  PROVE  Spreads
  <1>1. live' = live /\ part' = part /\ filled' = filled /\ closed' = closed
    BY DEF exchange
  <1>2. \A u \in Threads : \A id \in todo'[u] \cup closing'[u] : Named(id)
    BY DEF Named
  <1>3. \A id \in live \cup part \cup filled \cup closed : Named(id)
    BY DEF Named
  <1> QED
    BY <1>1, <1>2, <1>3 DEF Spreads

LEMMA SendingSpreads ==
  ASSUME Known, NEW t \in Threads, NEW B,
         SendsBatch(t, B) \/ CancelsBatch(t, B) \/ CancelsDone(t) \/ Subscribes
  PROVE  Spreads
  <1>1. /\ todo \in [Threads -> SUBSET ChainId] /\ closing \in [Threads -> SUBSET ChainId]
        /\ wire \in Seq(Requests)
    BY DEF Known, SysTypeOK
  <1>2. UNCHANGED exchange /\ Mail' = Mail
    BY DEF SendsBatch, CancelsBatch, CancelsDone, Subscribes, Offline, Mail
  <1>3. \A u \in Threads : todo'[u] \subseteq todo[u] /\ closing'[u] \subseteq closing[u]
    BY <1>1 DEF SendsBatch, CancelsBatch, CancelsDone, Subscribes
  <1>4. ASSUME NEW op \in {"place", "cancel", "close", "sub"}, NEW S, NEW C, NEW q, q = Request(op, S, C),
               S \subseteq todo[t] \/ S \subseteq closing[t], C \subseteq closing[t],
               wire' = Append(wire, q)
        PROVE  Wired' = Wired \cup {q} /\ \A id : RequestNames(q, id) => Named(id)
    <2>1. S \in SUBSET ChainId /\ C \in SUBSET ChainId
      BY <1>1, <1>4
    <2>2. q \in Requests
      BY <1>4, <2>1, RequestTyped
    <2>3. Wired' = Wired \cup {q}
      BY <1>1, <1>4, <2>2, WirePosted
    <2> QED
      BY <1>4, <2>3 DEF Request, RequestNames, Named
  <1>5. CASE SendsBatch(t, B)
    <2>1. PICK q : q = Request("place", B, {})
      OBVIOUS
    <2>2. B \subseteq todo[t] /\ {} \subseteq closing[t] /\ wire' = Append(wire, q)
      BY <1>5, <2>1 DEF SendsBatch
    <2>3. Wired' = Wired \cup {q} /\ \A id : RequestNames(q, id) => Named(id)
      BY <1>4, <2>1, <2>2
    <2> QED
      BY <1>2, <1>3, <2>3, ThreadsSpread
  <1>6. CASE CancelsBatch(t, B)
    <2>1. PICK q : q = Request("cancel", B, closing[t])
      OBVIOUS
    <2>2. B \subseteq todo[t] /\ wire' = Append(wire, q)
      BY <1>6, <2>1 DEF CancelsBatch
    <2>3. Wired' = Wired \cup {q} /\ \A id : RequestNames(q, id) => Named(id)
      BY <1>4, <2>1, <2>2
    <2> QED
      BY <1>2, <1>3, <2>3, ThreadsSpread
  <1>7. CASE CancelsDone(t)
    <2>1. PICK q : q = Request("close", closing[t], {})
      OBVIOUS
    <2>2. wire' = wire \/ wire' = Append(wire, q)
      BY <1>7, <2>1 DEF CancelsDone, LetGo
    <2>3. CASE wire' = wire
      <3>1. Wired' \subseteq Wired
        BY <2>3 DEF Wired
      <3> QED
        BY <1>2, <1>3, <3>1, ThreadsSpread
    <2>4. CASE wire' = Append(wire, q)
      BY <1>2, <1>3, <1>4, <2>1, <2>4, ThreadsSpread
    <2> QED
      BY <2>2, <2>3, <2>4
  <1>8. CASE Subscribes
    <2>1. PICK q : q = Request("sub", {}, {})
      OBVIOUS
    <2>2. {} \subseteq todo[t] /\ {} \subseteq closing[t] /\ wire' = Append(wire, q)
      BY <1>8, <2>1 DEF Subscribes
    <2>3. Wired' = Wired \cup {q} /\ \A id : RequestNames(q, id) => Named(id)
      BY <1>4, <2>1, <2>2
    <2> QED
      BY <1>2, <1>3, <2>3, ThreadsSpread
  <1> QED
    BY <1>5, <1>6, <1>7, <1>8

LEMMA ReadingSpreads ==
  ASSUME Known, TakesAnswer \/ MarkedPass \/ Retry
  PROVE  Spreads
  <1>1. PICK m : m = Head(inbox)
    OBVIOUS
  <1>2. /\ UNCHANGED <<todo, closing, exchange>>
        /\ inbox' = Tail(inbox) /\ inbox # <<>> /\ inbox \in Seq(Messages) /\ wire \in Seq(Requests)
    BY DEF TakesAnswer, MarkedPass, Retry, Offline, Known, SysTypeOK, HasMessage
  <1>3. m \in Messages /\ m \in Mail /\ Mail' \subseteq Mail
    BY <1>1, <1>2, MailPopped
  <1>4. \A u \in Threads : todo'[u] \subseteq todo[u] /\ closing'[u] \subseteq closing[u]
    BY <1>2
  <1>5. CASE wire' = wire
    <2>1. Wired' \subseteq Wired
      BY <1>5 DEF Wired
    <2> QED
      BY <1>2, <1>3, <1>4, <2>1, ThreadsSpread
  <1>6. ASSUME NEW q \in Requests, wire' = Append(wire, q), \A id : RequestNames(q, id) => Named(id)
        PROVE  Spreads
    <2>1. Wired' = Wired \cup {q}
      BY <1>2, <1>6, WirePosted
    <2> QED
      BY <1>2, <1>3, <1>4, <1>6, <2>1, ThreadsSpread
  <1>7. CASE TakesAnswer
    <2>1. PICK q : q = Request("close", m.ids, {})
      OBVIOUS
    <2>2. wire' = wire \/ wire' = Append(wire, q)
      BY <1>1, <1>7, <2>1 DEF TakesAnswer, LetGo
    <2>3. q \in Requests
      <3>1. m.ids \in SUBSET ChainId /\ {} \in SUBSET ChainId
        BY <1>3 DEF Messages
      <3> QED
        BY <2>1, <3>1, RequestTyped
    <2>4. \A id : RequestNames(q, id) => Named(id)
      BY <1>3, <2>1 DEF Request, RequestNames, MessageNames, Named
    <2> QED
      BY <1>5, <1>6, <2>2, <2>3, <2>4
  <1>8. CASE MarkedPass
    BY <1>5, <1>8 DEF MarkedPass
  <1>9. CASE Retry
    <2>1. m.kind = "busy" /\ wire' = wire \o m.again
      BY <1>1, <1>9 DEF Retry
    <2>2. PICK q \in Requests : m.again = <<q>>
      BY <1>3, <2>1 DEF Known, MailInShape
    <2>3. m.again[1] = q
      BY <2>2
    <2>4. wire' = Append(wire, q)
      BY <1>2, <2>1, <2>2
    <2>5. \A id : RequestNames(q, id) => Named(id)
      BY <1>3, <2>1, <2>3 DEF MessageNames, Named
    <2> QED
      BY <1>6, <2>4, <2>5
  <1> QED
    BY <1>7, <1>8, <1>9

\* What the exchange does, and what becomes of its messages.
LEMMA ExchangeSpreads ==
  ASSUME Known, UNCHANGED <<todo, closing>>, Wired' \subseteq Wired,
         \A m \in Mail' : m \in Mail \/ (InShape(m) /\ \A id : MessageNames(m, id) => Named(id)),
         \A id \in live' \cup part' \cup filled' \cup closed' :
           id \in live \cup part \cup filled \cup closed \/ Named(id)
  PROVE  Spreads
  <1>1. \A u \in Threads : \A id \in todo[u] \cup closing[u] : Named(id)
    BY DEF Named
  <1>2. \A id \in live \cup part \cup filled \cup closed : Named(id)
    BY DEF Named
  <1> QED
    BY <1>1, <1>2 DEF Spreads

\* What the exchange says of a request names what the request names.
LEMMA ServingSpreads ==
  ASSUME Known, NEW r, NEW R, NEW U, NEW F, Settles(r) \/ Cancels(r, R) \/ Places(r, R, U, F)
  PROVE  Spreads
  <1>1. /\ UNCHANGED <<todo, closing>> /\ wire # <<>> /\ r = Head(wire) /\ wire' = Tail(wire)
        /\ wire \in Seq(Requests) /\ inbox \in Seq(Messages)
    BY DEF Settles, Cancels, Places, Serves, Known, SysTypeOK
  <1>2. r \in Wired /\ Wired' \subseteq Wired
    BY <1>1, WirePopped
  <1>3. \A id : RequestNames(r, id) => Named(id)
    BY <1>2 DEF Named
  <1>4. ASSUME NEW m, NEW n, NEW told \in BOOLEAN, Hears(m, n, told), m.ids \subseteq r.ids,
               told => InShape(n) /\ \A id : MessageNames(n, id) => RequestNames(r, id),
               \A id \in live' \cup part' \cup filled' \cup closed' :
                 id \in live \cup part \cup filled \cup closed \/ id \in r.ids
        PROVE  Spreads
    <2>1. \A k \in Mail' : k \in Mail \/ k = m \/ (told /\ k = n)
      BY <1>1, <1>4, MailSaid
    <2>2. InShape(m) /\ \A id : MessageNames(m, id) => RequestNames(r, id)
      BY <1>4 DEF Hears, InShape, MessageNames, RequestNames, Statuses
    <2>3. \A k \in Mail' : k \in Mail \/ (InShape(k) /\ \A id : MessageNames(k, id) => Named(id))
      BY <1>3, <1>4, <2>1, <2>2
    <2>4. \A id \in r.ids : Named(id)
      BY <1>3 DEF RequestNames
    <2> QED
      BY <1>1, <1>2, <1>4, <2>3, <2>4, ExchangeSpreads
  <1>5. CASE Settles(r)
    <2>1. PICK m, n : \E told \in BOOLEAN :
            /\ Hears(m, n, told) /\ m.ids = {} /\ n.ids = {} /\ n.known = {}
            /\ IF told /\ n.kind = "busy" THEN Again(r, n) ELSE n.kind = "refused" /\ n.again = <<>>
      BY <1>5 DEF Settles
    <2>2. PICK told \in BOOLEAN :
            /\ Hears(m, n, told) /\ m.ids = {} /\ n.ids = {} /\ n.known = {}
            /\ IF told /\ n.kind = "busy" THEN Again(r, n) ELSE n.kind = "refused" /\ n.again = <<>>
      BY <2>1
    <2>3. \A id \in live' \cup part' \cup filled' \cup closed' :
            id \in live \cup part \cup filled \cup closed \/ id \in r.ids
      BY <1>5 DEF Settles
    <2>4. ASSUME told
          PROVE  InShape(n) /\ \A id : MessageNames(n, id) => RequestNames(r, id)
      <3>1. CASE n.kind = "busy"
        <4>1. PICK q : q \in Requests /\ q.ids = r.ids /\ q.close = r.close /\ n.again = <<q>>
                       /\ q.known \subseteq r.known \cup r.ids
          BY <2>2, <2>4, <3>1 DEF Again, SameRequest
        <4>2. n.again[1] = q
          BY <4>1
        <4> QED
          BY <2>2, <3>1, <4>1, <4>2 DEF InShape, MessageNames, RequestNames
      <3>2. CASE n.kind # "busy"
        BY <2>2, <2>4, <3>2 DEF InShape, MessageNames
      <3> QED
        BY <3>1, <3>2
    <2> QED
      BY <1>4, <2>2, <2>3, <2>4
  <1>6. CASE Cancels(r, R)
    <2>1. PICK m, n : \E told \in BOOLEAN :
            Hears(m, n, told) /\ m.ids = (live \cap r.ids) \ R /\ n = Message("answer", r.close)
      BY <1>6 DEF Cancels
    <2>2. PICK told \in BOOLEAN : Hears(m, n, told)
      BY <2>1
    <2>3. m.ids \subseteq r.ids
      BY <2>1
    <2>4. InShape(n) /\ \A id : MessageNames(n, id) => RequestNames(r, id)
      BY <2>1 DEF InShape, MessageNames, RequestNames, Message, Answer
    <2>5. \A id \in live' \cup part' \cup filled' \cup closed' :
            id \in live \cup part \cup filled \cup closed \/ id \in r.ids
      BY <1>6 DEF Cancels
    <2> QED
      BY <1>4, <2>2, <2>3, <2>4, <2>5
  <1>7. CASE Places(r, R, U, F)
    <2>1. PICK m, n : \E told \in BOOLEAN :
            /\ Hears(m, n, told) /\ m.ids = Unplaced(r) \ (R \cup U \cup F)
            /\ told => Tells(n, r, R, U)
      BY <1>7 DEF Places
    <2>2. PICK told \in BOOLEAN : Hears(m, n, told) /\ (told => Tells(n, r, R, U))
      BY <2>1
    <2>3. m.ids \subseteq r.ids
      BY <2>1 DEF Unplaced
    <2>4. ASSUME told
          PROVE  InShape(n) /\ \A id : MessageNames(n, id) => RequestNames(r, id)
      <3>1. n.ids \subseteq r.ids \cup r.known /\ n.known = r.known
        BY <2>2, <2>4 DEF Tells
      <3>2. CASE n.kind = "busy"
        <4>1. PICK q \in Requests : /\ n.again = <<q>> /\ q.ids = r.ids /\ q.known \subseteq r.ids
                                    /\ q.close = r.close
          BY <2>2, <2>4, <3>2 DEF Tells
        <4>2. n.again[1] = q
          BY <4>1
        <4> QED
          BY <3>1, <3>2, <4>1, <4>2 DEF InShape, MessageNames, RequestNames
      <3>3. CASE n.kind = "refused" /\ n.again = <<>>
        BY <3>1, <3>3 DEF InShape, MessageNames, RequestNames
      <3> QED
        BY <2>2, <2>4, <3>2, <3>3 DEF Tells
    <2>5. \A id \in live' \cup part' \cup filled' \cup closed' :
            id \in live \cup part \cup filled \cup closed \/ id \in r.ids
      BY <1>7 DEF Places, Unplaced
    <2> QED
      BY <1>4, <2>2, <2>3, <2>4, <2>5
  <1> QED
    BY <1>5, <1>6, <1>7

LEMMA FillingSpreads ==
  ASSUME Known, Break \/ \E id \in live : Fill(id) \/ FillInPart(id)
  PROVE  Spreads
  <1>1. UNCHANGED <<todo, closing, wire>> /\ inbox \in Seq(Messages) /\ live \subseteq ChainId
        /\ HasMessage
    BY DEF Break, Fill, FillInPart, Known, SysTypeOK
  <1>2. Wired' \subseteq Wired
    BY <1>1 DEF Wired
  <1>3. CASE Break
    <2>1. Mail' \subseteq Mail
      BY <1>1, <1>3, MailBroken
    <2>2. UNCHANGED exchange
      BY <1>3 DEF Break
    <2> QED
      BY <1>1, <1>2, <2>1, <2>2, ExchangeSpreads DEF exchange
  <1>4. ASSUME NEW id \in live, Fill(id) \/ FillInPart(id)
        PROVE  Spreads
    <2>1. PICK status \in {"Filled", "PartiallyFilled"} : inbox' = Pushed({id}, status)
      BY <1>4 DEF Fill, FillInPart
    <2>2. PICK m : m = Message(status, {id})
      OBVIOUS
    <2>3. m \in Messages /\ m.kind = status /\ m.ids = {id} /\ m.known = {} /\ m.again = <<>>
      <3>1. {id} \in SUBSET ChainId
        BY <1>1
      <3> QED
        BY <2>2, <3>1, MessageTyped DEF Message, Answer, Statuses
    <2>4. InShape(m) /\ \A k : MessageNames(m, k) => Named(k)
      BY <2>3 DEF InShape, MessageNames, Named
    <2>5. Mail' = Mail \/ Mail' = Mail \cup {m}
      <3>1. inbox' = inbox \/ inbox' = Append(inbox, m)
        BY <2>1, <2>2 DEF Pushed
      <3>2. inbox' = inbox => Mail' = Mail
        BY DEF Mail
      <3> QED
        BY <1>1, <2>3, <3>1, <3>2, MailPosted
    <2>6. live' \cup part' \cup filled' \cup closed' \subseteq live \cup part \cup filled \cup closed
      BY <1>4 DEF Fill, FillInPart
    <2> QED
      BY <1>1, <1>2, <2>4, <2>5, <2>6, ExchangeSpreads
  <1> QED
    BY <1>3, <1>4

---------------------------------------------------------------------------
(* No step makes an order with a name that has been in use.                *)

LEMMA FreshKeeps ==
  ASSUME Reports = Statuses, GridInv, SysInv, Fresh, NamesGrow, [SysNext]_allVars
  PROVE  Fresh'
  <1>1. [Next]_vars
    BY SysNextKeeps
  <1>2. gen \in Nat
    BY DEF GridInv, TypeOK
  <1>3. ASSUME NEW n \in GridCounts, StartGridOk(n)
        PROVE  Fresh'
    BY <1>3, StartIsFresh
  <1>4. CASE UpdateGrid
    BY <1>4, PassIsFresh
  <1>5. ASSUME UNCHANGED <<size, orders, inited, gen>>
        PROVE  Fresh'
    BY <1>2, <1>5, RestIsFresh
  <1>6. ASSUME NEW id, NEW status, SetStatus(id, status)
        PROVE  Fresh'
    <2>1. UNCHANGED <<size, inited, gen>> /\ orders' = Remarked(id, status)
      BY <1>6 DEF SetStatus, Remarked
    <2>2. ASSUME NEW o \in orders'
          PROVE  \E q \in orders : o.id = q.id /\ (o.auto => q.auto)
      <3>1. PICK q \in orders :
              o = IF q.id = id /\ q.status # "Canceled" THEN [q EXCEPT !.status = status] ELSE q
        BY <2>1 DEF Remarked
      <3>2. q \in Order
        BY DEF GridInv, TypeOK
      <3>3. o.id = q.id /\ (o.auto => q.auto)
        BY <3>1, <3>2 DEF Order
      <3> QED
        BY <3>3
    <2> QED
      BY <1>2, <2>1, <2>2, RestIsFresh
  <1>7. ASSUME NEW A, GiveUp(A)
        PROVE  Fresh'
    <2>1. size' = size /\ gen' = gen + 1 /\ orders' = Amended(A)
      BY <1>7 DEF GiveUp, Amended
    <2>2. ASSUME NEW o \in orders'
          PROVE  \E q \in orders : o.id = q.id /\ (o.auto => q.auto)
      <3>1. PICK q \in orders : o = IF q \in A THEN [q EXCEPT !.auto = FALSE] ELSE q
        BY <2>1 DEF Amended
      <3>2. q \in Order
        BY DEF GridInv, TypeOK
      <3>3. o.id = q.id /\ (o.auto => q.auto)
        BY <3>1, <3>2 DEF Order
      <3> QED
        BY <3>3
    <2>3. gen' \in Nat /\ gen <= gen' /\ gen' # gen
      BY <1>2, <2>1
    <2> QED
      BY <2>2, <2>3, RestIsFresh
  <1>8. CASE ClearGrid
    <2>1. size' = 0 /\ orders' = {} /\ gen' = gen
      BY <1>8 DEF ClearGrid, NoGrid
    <2>2. ~(size' > 0)
      BY <2>1
    <2>3. gen' \in Nat /\ gen <= gen'
      BY <1>2, <2>1
    <2> QED
      BY <2>1, <2>2, <2>3, RestIsFresh
  <1>9. CASE Next
    <2>1. \A n : StartGridFails(n) => UNCHANGED <<size, orders, inited, gen>>
      BY DEF StartGridFails
    <2> QED
      BY <1>3, <1>4, <1>5, <1>6, <1>7, <1>8, <1>9, <2>1 DEF Next, CheckLongUnfilledOrder
  <1> QED
    BY <1>1, <1>5, <1>9 DEF vars

---------------------------------------------------------------------------
(* The invariant holds from the start, and every step keeps it.            *)

LEMMA OrderInit == SysInit => MailInShape /\ Fresh /\ OrderInv
  <1> SUFFICES ASSUME SysInit
               PROVE  MailInShape /\ Fresh /\ OrderInv
    OBVIOUS
  <1>1. /\ orders = {} /\ wire = <<>> /\ inbox = <<>>
        /\ live = {} /\ part = {} /\ filled = {} /\ closed = {}
        /\ \A t \in Threads : pc[t] = "idle" /\ todo[t] = {} /\ closing[t] = {}
        /\ pc["feed"] = "idle" /\ pc["check"] = "idle"
    BY DEF SysInit, Init, Threads
  <1>2. DOMAIN wire = {} /\ DOMAIN inbox = {} /\ Wired = {} /\ Mail = {}
    BY <1>1 DEF Wired, Mail
  <1>3. MailInShape /\ Fresh
    BY <1>1, <1>2 DEF MailInShape, Fresh, Named
  <1>4. \A id : /\ ~ToSend(id) /\ ~Sent(id) /\ ~Back(id) /\ ~ToClose(id)
                /\ \A task : ~Doing(task, id)
    BY <1>1, <1>2 DEF ToSend, SentBy, Sent, Back, ToClose, Under, Doing
  <1>5. \A task : IsTask(task) => task = {}
    BY <1>1, <1>2 DEF IsTask, Under
  <1>6. Apart /\ Untaken /\ CancelsDropped
    BY <1>1, <1>2, <1>4
    DEF Apart, OnceByThreads, OnceOnWire, OnceInMail, SentBy, Untaken, CancelsDropped, Cancelling
  <1>7. RefusedGone /\ Tracked /\ Awaited /\ Turns /\ OneStatus
    BY <1>1, <1>4 DEF RefusedGone, Tracked, Awaited, Turns, OneStatus
  <1>8. ExitsCovered /\ Covered
    BY <1>1, <1>2, <1>4 DEF ExitsCovered, Covered, Cancelling, Under
  <1>9. MarksTrue /\ RefusalsHeard /\ CancelsLast
    BY <1>1, <1>2 DEF MarksTrue, RefusalsHeard, CancelsLast
  <1>10. TasksHold
    BY <1>1, <1>4, <1>5 DEF TasksHold
  <1> QED
    BY <1>3, <1>6, <1>7, <1>8, <1>9, <1>10 DEF OrderInv, Quietly

LEMMA WorkSteps ==
  ASSUME Known, SysInv, Fresh, OrderInv, NEW t \in Threads, Work(t)
  PROVE  OrderInv' /\ Spreads
  <1>1. ASSUME Idles(t) \/ \E new : Grows(t, new)
        PROVE  OrderInv' /\ Spreads
    BY <1>1, IdleKeeps, GrowKeeps, GridStepsSpread
  <1>2. CASE Pass(t)
    BY <1>1, <1>2, PassKind
  <1>3. CASE Send(t)
    BY <1>1, <1>3, SendKind, SendKeeps, SendingSpreads
  <1>4. CASE Clear(t)
    BY <1>4, ClearKind, ClearKeeps, GridStepsSpread
  <1>5. CASE Cancel(t)
    BY <1>5, CancelKind, CancelDoneKeeps, CancelBatchKeeps, SendingSpreads
  <1> QED
    BY <1>2, <1>3, <1>4, <1>5 DEF Work

LEMMA OtherThreadSteps ==
  ASSUME Known, SysInv, Fresh, OrderInv,
         \/ Feed \/ Checker \/ Amend
         \/ ConsoleStop \/ Rebuild \/ \E n \in GridCounts : ConsoleStart(n) \/ ConsoleTest(n)
  PROVE  OrderInv' /\ Spreads
  <1>1. "feed" \in Threads /\ "check" \in Threads
    BY DEF Threads
  <1>2. ASSUME Rests
        PROVE  OrderInv' /\ Spreads
    BY <1>1, <1>2, RestKeeps, GridStepsSpread
  <1>3. ASSUME NEW t \in Threads, Idles(t) \/ \E new : Grows(t, new)
        PROVE  OrderInv' /\ Spreads
    BY <1>3, IdleKeeps, GrowKeeps, GridStepsSpread
  <1>4. ASSUME NEW t \in Threads, \E id, status : Marks(t, id, status)
        PROVE  OrderInv' /\ Spreads
    BY <1>4, RemarkKeeps, GridStepsSpread
  <1>5. CASE Receive
    BY <1>1, <1>3, <1>5, ReceiveKind, AnswerKeeps, ReadingSpreads
  <1>6. CASE MarkFeed
    BY <1>1, <1>4, <1>6, MarkFeedKind
  <1>7. CASE MarkedPass
    BY <1>7, MarkedPassKeeps, ReadingSpreads
  <1>8. CASE Retry
    BY <1>8, RetryKeeps, ReadingSpreads
  <1>9. CASE Connect \/ Relogin
    BY <1>1, <1>2, <1>9, RestKind, ReloginKind, SubscribesKeeps, SendingSpreads
  <1>10. CASE Checker
    BY <1>1, <1>3, <1>4, <1>10, CheckerKind
  <1>11. CASE Amend
    BY <1>1, <1>11, AmendKind, AmendKeeps, GridStepsSpread
  <1>12. CASE ConsoleStop \/ Rebuild \/ \E n \in GridCounts : ConsoleStart(n) \/ ConsoleTest(n)
    BY <1>2, <1>3, <1>12, ConsoleKind
  <1> QED
    BY <1>5, <1>6, <1>7, <1>8, <1>9, <1>10, <1>11, <1>12 DEF Feed

LEMMA OutsideSteps ==
  ASSUME Known, OrderInv,
         Serve \/ Break \/ (\E id \in live : Fill(id) \/ FillInPart(id)) \/ UNCHANGED allVars
  PROVE  OrderInv' /\ Spreads
  <1>1. "feed" \in Threads
    BY DEF Threads
  <1>2. CASE Serve
    BY <1>2, ServeKind, SettleKeeps, CancelKeeps, PlaceKeeps, ServingSpreads
  <1>3. CASE Break
    BY <1>3, BreakKeeps, FillingSpreads
  <1>4. CASE UNCHANGED allVars
    BY <1>1, <1>4, RestKind, RestKeeps, GridStepsSpread
  <1>5. CASE \E id \in live : Fill(id) \/ FillInPart(id)
    BY <1>5, FillKeeps, FillInPartKeeps, FillingSpreads
  <1> QED
    BY <1>2, <1>3, <1>4, <1>5

LEMMA OrderNext ==
  ASSUME Reports = Statuses, SysTypeOK, HasMessage, SysInv, GridInv, MailInShape, Fresh, OrderInv,
         SysTypeOK', [SysNext]_allVars
  PROVE  MailInShape' /\ Fresh' /\ OrderInv'
  <1>1. Known
    BY DEF Known
  <1>2. OrderInv' /\ Spreads
    <2>1. CASE \E t \in Threads : Work(t)
      BY <1>1, <2>1, WorkSteps
    <2>2. CASE \/ Feed \/ Checker \/ Amend
               \/ ConsoleStop \/ Rebuild \/ \E n \in GridCounts : ConsoleStart(n) \/ ConsoleTest(n)
      BY <1>1, <2>2, OtherThreadSteps
    <2>3. CASE \/ Serve \/ Break \/ (\E id \in live : Fill(id) \/ FillInPart(id))
               \/ UNCHANGED allVars
      BY <1>1, <2>3, OutsideSteps
    <2> QED
      BY <2>1, <2>2, <2>3 DEF SysNext
  <1>3. MailInShape' /\ NamesGrow
    BY <1>2, SpreadIsKnown
  <1>4. Fresh'
    BY <1>3, FreshKeeps
  <1> QED
    BY <1>2, <1>3, <1>4

LEMMA OrdersKept ==
  ASSUME Reports = Statuses
  PROVE  SysSpec => [](Known /\ OrderInv)
<1>1. SysSpec => [](SysTypeOK /\ HasMessage)
  BY SysKeepsType
<1>2. SysInit => SysInv
  BY SysInitHolds
<1>3. SysInv /\ [SysNext]_allVars => SysInv'
  BY SysNextKeeps
<1>4. SysSpec => []GridInv
  BY ThreadsKeepToStrategy, GridInvariant, PTL
<1>5. SysInit => MailInShape /\ Fresh /\ OrderInv
  BY OrderInit
<1>6. (/\ SysTypeOK /\ HasMessage /\ SysInv /\ GridInv /\ MailInShape /\ Fresh /\ OrderInv
       /\ SysTypeOK' /\ [SysNext]_allVars)
        => MailInShape' /\ Fresh' /\ OrderInv'
  BY OrderNext
<1>7. SysTypeOK /\ HasMessage /\ GridInv /\ MailInShape => Known
  BY DEF Known
<1> QED
  BY <1>1, <1>2, <1>3, <1>4, <1>5, <1>6, <1>7, PTL DEF SysSpec

---------------------------------------------------------------------------
(* What it means for the orders.                                           *)

LEMMA CancellingIsKnown ==
  ASSUME MailInShape, NEW id, Cancelling(id)
  PROVE  id \in BeingCancelled
  <1>1. ASSUME NEW t \in Threads, pc[t] = "cancel", id \in todo[t]
        PROVE  id \in AtStep("cancel")
    BY <1>1 DEF AtStep
  <1>2. ASSUME NEW r, Under(r), r.op = "cancel", id \in r.ids
        PROVE  id \in PendingIds("cancel")
    <2>1. r \in Pending
      BY <1>2, PendingIs
    <2> QED
      BY <1>2, <2>1 DEF PendingIds
  <1> QED
    BY <1>1, <1>2 DEF Cancelling, Doing, BeingCancelled

LEMMA PlacingIsKnown ==
  ASSUME MailInShape, NEW id, ToSend(id) \/ Sent(id) \/ Back(id)
  PROVE  id \in BeingPlaced \cup BeingRefused
  <1>1. ASSUME NEW r, Under(r), id \in Unplaced(r)
        PROVE  id \in PendingIds("place")
    <2>1. r \in Pending
      BY <1>1, PendingIs
    <2>2. r.op = "place" /\ id \in r.ids
      BY <1>1 DEF Unplaced
    <2> QED
      BY <2>1, <2>2 DEF PendingIds
  <1>2. CASE ToSend(id)
    BY <1>2 DEF ToSend, SentBy, BeingPlaced, AtStep
  <1>3. CASE Sent(id)
    BY <1>1, <1>3 DEF Sent, SentIn, Under, Wired, BeingPlaced
  <1>4. CASE Back(id)
    <2>1. PICK i \in DOMAIN inbox : Holds(inbox[i], id)
      BY <1>4 DEF Back, HeldIn
    <2>2. CASE inbox[i].kind = "busy" /\ id \in Unplaced(inbox[i].again[1])
      <3>1. Under(inbox[i].again[1])
        BY <2>2 DEF Under, Mail
      <3> QED
        BY <1>1, <2>2, <3>1 DEF BeingPlaced
    <2>3. CASE inbox[i].kind \in Refusals /\ id \in Marked(inbox[i])
      BY <2>3 DEF BeingRefused, Refusals
    <2> QED
      BY <2>1, <2>2, <2>3 DEF Holds
  <1> QED
    BY <1>2, <1>3, <1>4

LEMMA ClosingIsKnown ==
  ASSUME MailInShape, NEW id, InClosing(id)
  PROVE  id \in BeingClosed
  <1>1. ASSUME NEW r, Under(r)
        PROVE  r \in Pending
    BY <1>1, PendingIs
  <1>2. CASE ToClose(id)
    <2>1. id \in PendingIds("close")
      BY <1>1, <1>2 DEF ToClose, PendingIds
    <2> QED
      BY <2>1 DEF BeingClosed
  <1>3. ASSUME NEW task, IsTask(task), id \in task
        PROVE  id \in BeingClosed
    <2>1. CASE \E t \in Threads : closing[t] = task
      BY <1>3, <2>1 DEF BeingClosed
    <2>2. ASSUME NEW r, Under(r), r.close = task
          PROVE  id \in BeingClosed
      BY <1>1, <1>3, <2>2 DEF BeingClosed
    <2>3. ASSUME NEW m \in Mail, m.kind = "answer", m.ids = task
          PROVE  id \in BeingClosed
      <3>1. PICK i \in DOMAIN inbox : inbox[i] = m
        BY DEF Mail
      <3>2. id \in UNION {inbox[k].ids : k \in {j \in DOMAIN inbox : inbox[j].kind = "answer"}}
        BY <1>3, <2>3, <3>1
      <3> QED
        BY <3>2 DEF BeingClosed
    <2> QED
      BY <1>3, <2>1, <2>2, <2>3 DEF IsTask
  <1> QED
    BY <1>2, <1>3 DEF InClosing

\* However placing, refusals, busy answers, lost pushes and closeouts of several
\* threads interleave: what rests on the exchange is on the grid or being
\* cancelled, but for what was filled in part, what reached the exchange after
\* the grid had dropped it, and what the exchange refused to cancel: the program
\* does not look for that refusal (command.cpp:460, user_data.cpp:653).
THEOREM NoOrderIsLost ==
  ASSUME Reports = Statuses
  PROVE  SysSpec => []OrdersTracked
<1>1. Known /\ OrderInv => OrdersTracked
  <2> SUFFICES ASSUME Known, OrderInv, NEW id \in live \ part
               PROVE  id \in Ids(orders) \cup BeingCancelled \cup forgotten \cup overtaken \cup unheeded
    BY DEF OrdersTracked
  <2>1. LiveOnGrid(id) \/ Cancelling(id) \/ Stray(id)
    BY DEF OrderInv, Quietly, Tracked
  <2>2. Cancelling(id) => id \in BeingCancelled
    BY CancellingIsKnown DEF Known
  <2> QED
    BY <2>1, <2>2 DEF LiveOnGrid, Ids, Stray
<1> QED
  BY <1>1, OrdersKept, PTL

\* The grid waits for no order that is not there: what it believes to rest
\* rests, or was filled, or is still with a thread, on the wire, or in an answer
\* that the feed thread has yet to read.  The orders of a request that failed
\* with a code that command.cpp:461 does not look for are the exception.
THEOREM NoOrderIsAwaitedInVain ==
  ASSUME Reports = Statuses
  PROVE  SysSpec => []OrdersExist
<1>1. Known /\ OrderInv => OrdersExist
  <2> SUFFICES ASSUME Known, OrderInv, count.tests = 0, \A t \in Threads : pc[t] # "closeout",
                      NEW o \in orders, o.status = "Live"
               PROVE  o.id \in live \cup filled \cup BeingPlaced \cup BeingRefused \cup unheeded
    BY DEF OrdersExist
  <2>1. o.id \in live \cup filled \cup unheeded \/ ToSend(o.id) \/ Sent(o.id) \/ Back(o.id)
    BY DEF OrderInv, Quietly, Awaited
  <2> QED
    BY <2>1, PlacingIsKnown DEF Known
<1> QED
  BY <1>1, OrdersKept, PTL

\* However the cancels of a closeout, their answers and the thread that sends
\* them interleave, no position is closed at the market while the exchange
\* still holds the order that was to close it, unless the exchange refused to
\* cancel that order (user_data.cpp:650), or took it behind its cancel.
THEOREM NothingIsClosedTwice ==
  ASSUME Reports = Statuses
  PROVE  SysSpec => []CloseAfterCancel
<1>1. OrderInv => CloseAfterCancel
  <2> SUFFICES ASSUME OrderInv, NEW id \in closed, id \in live
               PROVE  id \in forgotten \cup overtaken \cup unheeded
    BY DEF CloseAfterCancel
  <2>1. Gone(id)
    BY DEF OrderInv, TasksHold
  <2> QED
    BY <2>1 DEF Gone, Stray
<1> QED
  BY <1>1, OrdersKept, PTL

\* Every position stays in the care of the grid, of the exchange or of a
\* closeout, unless the grid is of a single level, which has no neighbour for
\* the order that closes one.  The exceptions are those the property names: the
\* market order of the closeout refused (user_data.cpp:630), say.
THEOREM NoPositionIsLeft ==
  ASSUME Reports = Statuses, 1 \notin GridCounts
  PROVE  SysSpec => []PositionsCovered
<1>1. Known /\ OrderInv => PositionsCovered
  <2> SUFFICES ASSUME Known, OrderInv,
                      NEW id \in filled \ (stranded \cup forgotten), Opens(id),
                      NEW c, c = Closer(id), c \notin filled \cup closed
               PROVE  id \in Ids(orders) \/ c \in Ids(orders) \cup live \cup BeingClosed
    BY DEF PositionsCovered
  <2>1. id \in Ids(orders) \/ Cared(c)
    BY DEF OrderInv, Quietly, Covered
  <2>2. InClosing(c) => c \in BeingClosed
    BY ClosingIsKnown DEF Known
  <2> QED
    BY <2>1, <2>2 DEF Cared
<1> QED
  BY <1>1, OrdersKept, PTL

\* When a closeout is through and nothing is under way, the exchange holds of
\* the orders of the grid only forgotten ones, ones the closeout overtook, ones
\* filled in part, and ones whose cancel it refused (user_data.cpp:653).
THEOREM CloseoutsCancelAll ==
  ASSUME Reports = Statuses
  PROVE  SysSpec => [](live \cap (overtaken \cup part) = {} => ClosedOut)
<1>1. Known /\ OrderInv => (live \cap (overtaken \cup part) = {} => ClosedOut)
  <2> SUFFICES ASSUME Known, OrderInv, live \cap (overtaken \cup part) = {},
                      size = 0, wire = <<>>, inbox = <<>>, \A t \in Threads : pc[t] = "idle",
                      NEW id \in live
               PROVE  id \in forgotten \cup unheeded
    BY DEF ClosedOut, Quiet
  <2>1. orders = {}
    BY DEF Known, GridInv, OrdersOnLevel, OnItsLevel, Levels
  <2>2. \A r : ~Under(r)
    BY DEF Under, Wired, Mail
  <2>3. ~LiveOnGrid(id) /\ ~Cancelling(id)
    BY <2>1, <2>2 DEF LiveOnGrid, Cancelling, Doing
  <2>4. id \notin overtaken /\ id \notin part
    OBVIOUS
  <2> QED
    BY <2>3, <2>4 DEF OrderInv, Quietly, Tracked, Stray
<1> QED
  BY <1>1, OrdersKept, PTL
==============================================================================

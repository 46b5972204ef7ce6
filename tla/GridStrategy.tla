--------------------------- MODULE GridStrategy ---------------------------
(***************************************************************************)
(* UserData's grid strategy (src/src/user_data.cpp), seen at its lock: one *)
(* action for each region of code that runs under UserData::mutex_.  The   *)
(* regions interleave freely here; the threads that enter them, and the    *)
(* order in which each thread must, are added by GridSystem.               *)
(*                                                                         *)
(* Prices and amounts are abstracted to what the control flow reads: which *)
(* level an order rests on and whether a level has an order amount.  The   *)
(* deque of a level is a set of orders.  A clordid is modelled by the      *)
(* chain its order belongs to and the number of fills that chain has had,  *)
(* which is all that genCliOrdId has to tell apart.                        *)
(***************************************************************************)
EXTENDS Integers

CONSTANTS
  GridCounts,   \* the values of Option::grid_count that are tried
  InitSpan,     \* levels ordered at once on each side of the centre (4 in the code)
  Reports,      \* the order states that pushes, responses and the fills query carry
  MaxGen,       \* bound: grids started plus exits given up
  MaxHop        \* bound: fills of one chain

ASSUME GridAssumption ==
  /\ GridCounts \subseteq Int
  /\ InitSpan \in Nat
  /\ Reports \subseteq {"Empty", "Canceled", "Live", "PartiallyFilled", "Filled"}
  /\ MaxGen \in Nat
  /\ MaxHop \in Nat

VARIABLES
  option,   \* grid_strategy_.option.grid_count
  size,     \* grid_strategy_.grids.size(), 0 when there is no grid
  orders,   \* every Order in every long_orders and short_orders queue
  inited,   \* inited[pos]: the levels whose queue has init_ordered set
  gen       \* source of fresh chain names

vars == <<option, size, orders, inited, gen>>

---------------------------------------------------------------------------
(* Layout of a grid.                                                       *)

Pos == {"Long", "Short"}
Sides == {"Buy", "Sell"}
Statuses == {"Empty", "Canceled", "Live", "PartiallyFilled", "Filled"}

Larger(a, b) == IF a >= b THEN a ELSE b
Smaller(a, b) == IF a <= b THEN a ELSE b

\* Mutants, here and below, are what a slip in the code would make of the
\* definition that follows them; the properties are tested against them.
\* Mutant: the ladder is not made odd.
LevelCountEven(n) == Larger((4 * n) \div 3, n)

\* max((n * 4 / 3) | 1, n): the number of levels for n orders on each side.
LevelCount(n) ==
  LET q == (4 * n) \div 3
  IN  Larger(q + 1 - (q % 2), n)

Centre(count) == count \div 2

\* order_amount is non-empty on the n lowest levels for longs and on the n
\* highest ones for shorts.
HasAmount(n, count, pos, l) ==
  IF pos = "Long" THEN l < n ELSE l >= count - n

\* The levels startGrid marks init_ordered.
InitialLevels(count, pos) ==
  IF pos = "Long"
  THEN Larger(Centre(count) - InitSpan, 0) .. Centre(count)
  ELSE Centre(count) .. Smaller(Centre(count) + InitSpan, count - 1)

---------------------------------------------------------------------------
(* Orders.  A long buys to open and sells to close; a short the reverse.   *)

EntrySide(pos) == IF pos = "Long" THEN "Buy" ELSE "Sell"
Opposite(side) == IF side = "Buy" THEN "Sell" ELSE "Buy"

ChainId == [gen : Nat, pos : Pos, lvl : Nat, hop : Nat]
Order ==
  [id : ChainId, lvl : Nat, pos : Pos, side : Sides, status : Statuses, auto : BOOLEAN]

NewOrder(id, l, pos, side) ==
  [id |-> id, lvl |-> l, pos |-> pos, side |-> side, status |-> "Live", auto |-> TRUE]

\* The first order of a chain, opening a position at level l.
EntryOrder(g, pos, l) ==
  NewOrder([gen |-> g, pos |-> pos, lvl |-> l, hop |-> 0], l, pos, EntrySide(pos))

IsExit(o) == o.side # EntrySide(o.pos)

\* Where the opposite order of a filled order goes: one level up after a
\* buy, one level down after a sell.
CounterLevel(o) == IF o.side = "Buy" THEN o.lvl + 1 ELSE o.lvl - 1

CounterOrder(o) ==
  NewOrder([o.id EXCEPT !.hop = @ + 1], CounterLevel(o), o.pos, Opposite(o.side))

Levels == 0 .. size - 1

---------------------------------------------------------------------------
(* One pass of updateGrid over the grid.                                   *)

\* Mutant: the status is not looked at.
AutoAny == {o \in orders : o.auto}

\* Fills whose order is to be answered by an opposite one.
AutoFilled == {o \in orders : o.status = "Filled" /\ o.auto}

\* Mutant: the neighbour is not looked for.
CounteredBlindly == AutoFilled

Countered == {o \in AutoFilled : CounterLevel(o) \in Levels}

\* Erased are the canceled, the empty, and the filled (made empty first).
Kept == {o \in orders : o.status \in {"Live", "PartiallyFilled"}}

\* The levels with has_filled.
TouchedLevels == {o.lvl : o \in AutoFilled}

\* A touched level arms its own two queues, the long queue below it and the
\* short queue above it, unless they were armed before or have no amount.
ArmedBy(pos, l) == IF pos = "Long" THEN {l, l + 1} ELSE {l, l - 1}
\* Mutant: init_ordered is not looked at.
ArmedAgain(pos) ==
  {l \in Levels : HasAmount(option, size, pos, l) /\ ArmedBy(pos, l) \cap TouchedLevels # {}}

Armed(pos) ==
  {l \in Levels : /\ l \notin inited[pos]
                  /\ HasAmount(option, size, pos, l)
                  /\ ArmedBy(pos, l) \cap TouchedLevels # {}}

Placed ==
  {CounterOrder(o) : o \in Countered}
    \cup {EntryOrder(gen, "Long", l) : l \in Armed("Long")}
    \cup {EntryOrder(gen, "Short", l) : l \in Armed("Short")}

\* buy_count or sell_count is zero once the pass is over.
OneSided(S) == \E side \in Sides : \A o \in S : o.side # side

---------------------------------------------------------------------------
(* The regions of code under the lock.                                     *)

Init ==
  /\ option = 10
  /\ size = 0
  /\ orders = {}
  /\ inited = [pos \in Pos |-> {}]
  /\ gen = 0

NoGrid ==
  /\ size' = 0
  /\ orders' = {}
  /\ inited' = [pos \in Pos |-> {}]

\* The orders startGrid puts on a grid of the given size.
StartOrders(n, count, g) ==
  UNION {{EntryOrder(g, pos, l) :
            l \in {k \in InitialLevels(count, pos) : HasAmount(n, count, pos, k)}} :
         pos \in Pos}

\* startGrid past its parameter check and a successful setLeverage.  A
\* missing product, balance or price, or too little cash, leaves no grid
\* but the option it was asked for; a grid that runs already is left alone.
StartGridOk(n) ==
  /\ n > 0
  /\ size = 0
  /\ gen < MaxGen
  /\ option' = n
  /\ size' = LevelCount(n)
  /\ inited' = [pos \in Pos |-> InitialLevels(LevelCount(n), pos)]
  /\ orders' = StartOrders(n, LevelCount(n), gen + 1)
  /\ gen' = gen + 1

StartGridFails(n) ==
  /\ n > 0
  /\ size = 0
  /\ option' = n
  /\ UNCHANGED <<size, orders, inited, gen>>

\* One entry of an order push, of a rejected order response or of the fills
\* query: the order with that clordid takes the reported status.  A canceled
\* order has had its clordid cleared, so nothing matches it any more.
SetStatus(id, status) ==
  /\ \E o \in orders : o.id = id /\ o.status # "Canceled"
  /\ status = "Filled" => id.hop < MaxHop
  /\ orders' = {IF o.id = id /\ o.status # "Canceled"
                THEN [o EXCEPT !.status = status] ELSE o : o \in orders}
  /\ UNCHANGED <<option, size, inited, gen>>

UpdateGrid ==
  /\ size > 0
  /\ orders' = Kept \cup Placed
  /\ inited' = [pos \in Pos |-> inited[pos] \cup Armed(pos)]
  /\ UNCHANGED <<option, size, gen>>

\* The closing orders checkLongUnfilledOrder looks at: of the long queues
\* the highest level with a live sell, of the short queues the lowest level
\* with a live buy.
LiveExits(pos) ==
  {o \in orders : o.pos = pos /\ IsExit(o) /\ o.status = "Live"}

Overdue(pos) ==
  {o \in LiveExits(pos) :
     \A q \in LiveExits(pos) :
       IF pos = "Long" THEN q.lvl <= o.lvl /\ o.lvl > 0
                       ELSE q.lvl >= o.lvl /\ o.lvl < size - 1}

\* Mutant: the order that is amended still puts an opposite one.
GiveUpHalf(A) ==
  /\ \E o \in A : o.auto
  /\ \A o \in A : o \in Overdue(o.pos) /\ \A q \in A : q.pos = o.pos => q = o
  /\ gen < MaxGen
  /\ inited' = [pos \in Pos |->
                  inited[pos] \ {CounterLevel(o) : o \in {q \in A : q.pos = pos /\ q.auto}}]
  /\ gen' = gen + 1
  /\ UNCHANGED <<option, size, orders>>

\* Mutant: the level of the amended order is armed again, not its neighbour.
GiveUpOwnLevel(A) ==
  /\ \E o \in A : o.auto
  /\ \A o \in A : o \in Overdue(o.pos) /\ \A q \in A : q.pos = o.pos => q = o
  /\ gen < MaxGen
  /\ orders' = {IF o \in A THEN [o EXCEPT !.auto = FALSE] ELSE o : o \in orders}
  /\ inited' = [pos \in Pos |->
                  inited[pos] \ {o.lvl : o \in {q \in A : q.pos = pos /\ q.auto}}]
  /\ gen' = gen + 1
  /\ UNCHANGED <<option, size>>

\* Age and price deviation decide which of them are amended (A); the clock
\* and the price are abstracted, so any may be.  An amended order no longer
\* puts an opposite order, and its chain's level may be armed again.
GiveUp(A) ==
  /\ \E o \in A : o.auto
  /\ \A o \in A : o \in Overdue(o.pos) /\ \A q \in A : q.pos = o.pos => q = o
  /\ gen < MaxGen
  /\ orders' = {IF o \in A THEN [o EXCEPT !.auto = FALSE] ELSE o : o \in orders}
  /\ inited' = [pos \in Pos |->
                  inited[pos] \ {CounterLevel(o) : o \in {q \in A : q.pos = pos /\ q.auto}}]
  /\ gen' = gen + 1
  /\ UNCHANGED <<option, size>>

CheckLongUnfilledOrder ==
  \E A \in SUBSET (LiveExits("Long") \cup LiveExits("Short")) : GiveUp(A)

ClearGrid ==
  /\ NoGrid
  /\ UNCHANGED <<option, gen>>

Next ==
  \/ \E n \in GridCounts : StartGridOk(n) \/ StartGridFails(n)
  \/ \E o \in orders, status \in Reports : SetStatus(o.id, status)
  \/ UpdateGrid
  \/ CheckLongUnfilledOrder
  \/ ClearGrid

Spec == Init /\ [][Next]_vars
---------------------------------------------------------------------------
(* Properties.                                                             *)

\* The shape of the state of UserData::grid_strategy_.
TypeOK ==
  /\ option \in Int
  /\ size \in Nat
  /\ orders \subseteq Order
  /\ inited \in [Pos -> SUBSET Nat]
  /\ gen \in Nat

\* The order that opens a chain rests on the chain's level, the one that
\* closes it on the level next to it, and both levels are in the grid.
OnItsLevel(o) ==
  /\ o.pos = o.id.pos
  /\ o.id.lvl \in Levels /\ o.lvl \in Levels
  /\ HasAmount(option, size, o.pos, o.id.lvl)
  /\ o.lvl = IF IsExit(o)
             THEN CounterLevel([o EXCEPT !.lvl = o.id.lvl, !.side = Opposite(@)])
             ELSE o.id.lvl

\* Every order of the grid rests where its chain says, and every armed level
\* is a level: the indices that user_data.cpp:298 to 301 and 529, 556 compute
\* by adding and subtracting one stay inside the deque of levels.
OrdersOnLevel ==
  /\ \A o \in orders : OnItsLevel(o)
  /\ \A pos \in Pos : inited[pos] \subseteq Levels

SameChain(o, q) == o.pos = q.pos /\ o.id.lvl = q.id.lvl

\* However the events, passes and restarts interleave, a chain never has two
\* orders that will each be answered by an opposite order: no level is
\* bought twice.  user_data.cpp:381, 405 and 425 guard against it with
\* init_ordered, which line 529 and 556 reset.
OneOrderPerChain ==
  \A o, q \in orders : o.auto /\ q.auto /\ SameChain(o, q) => o = q

\* A level whose chain has an order outstanding is marked init_ordered, so
\* no pass can arm it again (the converse fails after a refused order).
OutstandingIsInited ==
  \A o \in orders : o.auto => o.id.lvl \in inited[o.pos]

\* A fill that is to be answered always finds the neighbouring level, except
\* on the one-level grid that grid_count = 1 makes: user_data.cpp:331 and 346
\* drop the opposite order silently when there is none.
FillsAreAnswered ==
  option # 1 => AutoFilled = Countered

\* A running grid has the number of levels its option asks for.
SizeFits == size > 0 => option > 0 /\ size = LevelCount(option)

\* The inductive invariant: what every region of code preserves.
GridInv ==
  /\ TypeOK
  /\ SizeFits
  /\ OrdersOnLevel
  /\ OneOrderPerChain
  /\ OutstandingIsInited

\* The levels as the abstract specification sees them.
ChainsWith(S) == {<<o.pos, o.id.lvl>> : o \in {q \in S : q.auto}}
EntryChains == ChainsWith({o \in orders : ~IsExit(o)})
ExitChains == ChainsWith({o \in orders : IsExit(o)})
DeadChains ==
  {c \in Pos \X Levels : c[2] \in inited[c[1]]} \ (EntryChains \cup ExitChains)

Chains == INSTANCE GridChains
            WITH entry <- EntryChains, exit <- ExitChains, dead <- DeadChains

\* The strategy implements the life of the chains: see GridChains.
ChainsSpec == Chains!Spec
===========================================================================

----------------------- MODULE GridStrategy_proofs -----------------------
(***************************************************************************)
(* What holds of GridStrategy for every grid size, initial window, set of  *)
(* reported states and bound.                                              *)
(***************************************************************************)
EXTENDS GridStrategy, TLAPS

---------------------------------------------------------------------------
(* The layout.                                                             *)

\* The ladder has at least one level, is at least as long as the number of
\* orders on a side, and longer than it unless there is only one.
LEMMA LevelCountBounds ==
  ASSUME NEW n \in Int, n > 0
  PROVE  /\ LevelCount(n) \in Nat
         /\ LevelCount(n) > 0
         /\ LevelCount(n) >= n
         /\ n # 1 => LevelCount(n) > n
  BY DEF LevelCount, Larger

\* Every level of the initial window is a level that has an amount.
LEMMA InitialLevelsHaveAmount ==
  ASSUME NEW n \in Int, n > 0, NEW pos \in Pos, NEW l \in InitialLevels(LevelCount(n), pos)
  PROVE  /\ l \in Nat
         /\ l \in 0 .. LevelCount(n) - 1
         /\ HasAmount(n, LevelCount(n), pos, l)
  <1> DEFINE c == LevelCount(n)
  <1>1. c \in Nat /\ c > 0 /\ c >= n
    BY LevelCountBounds
  <1>2. Centre(c) \in Nat /\ Centre(c) < n /\ Centre(c) >= c - n /\ Centre(c) < c
    BY <1>1 DEF Centre, LevelCount, Larger
  <1>3. CASE pos = "Long"
    BY <1>1, <1>2, <1>3, GridAssumption DEF InitialLevels, HasAmount, Larger
  <1>4. CASE pos = "Short"
    BY <1>1, <1>2, <1>4, GridAssumption DEF InitialLevels, HasAmount, Smaller
  <1> QED
    BY <1>3, <1>4 DEF Pos

\* On a level of its chain, an order has a level next to it to answer it on.
LEMMA CounterLevelInGrid ==
  ASSUME NEW o \in orders, GridInv, option # 1
  PROVE  CounterLevel(o) \in Levels
  <1>1. o \in Order /\ OnItsLevel(o) /\ size \in Nat /\ option \in Int
    BY DEF GridInv, TypeOK, OrdersOnLevel
  <1>2. size > 0 /\ option > 0 /\ size = LevelCount(option)
    BY <1>1 DEF GridInv, SizeFits, OnItsLevel, Levels
  <1>3. size > option
    BY <1>1, <1>2, LevelCountBounds
  <1>4. CASE o.pos = "Long" /\ o.side = "Buy"
    BY <1>1, <1>2, <1>3, <1>4
    DEF OnItsLevel, CounterLevel, IsExit, EntrySide, Levels, HasAmount
  <1>5. CASE o.pos = "Long" /\ o.side = "Sell"
    BY <1>1, <1>2, <1>3, <1>5
    DEF OnItsLevel, CounterLevel, IsExit, EntrySide, Opposite, Levels, HasAmount, Order, ChainId
  <1>6. CASE o.pos = "Short" /\ o.side = "Buy"
    BY <1>1, <1>2, <1>3, <1>6
    DEF OnItsLevel, CounterLevel, IsExit, EntrySide, Opposite, Levels, HasAmount, Order, ChainId
  <1>7. CASE o.pos = "Short" /\ o.side = "Sell"
    BY <1>1, <1>2, <1>3, <1>7
    DEF OnItsLevel, CounterLevel, IsExit, EntrySide, Levels, HasAmount
  <1> QED
    BY <1>1, <1>4, <1>5, <1>6, <1>7 DEF Order, Pos, Sides

\* The order that answers a fill carries on the same chain, on the level the
\* chain prescribes, and closes what was opened or opens what was closed.
LEMMA CounterOrderFits ==
  ASSUME NEW o \in orders, o \in Countered, GridInv
  PROVE  LET c == CounterOrder(o)
         IN  /\ c \in Order
             /\ OnItsLevel(c)
             /\ SameChain(o, c)
             /\ c.auto
             /\ c.status = "Live"
             /\ IsExit(c) <=> ~IsExit(o)
  <1>1. /\ o \in Order /\ OnItsLevel(o)
        /\ size \in Nat /\ CounterLevel(o) \in Levels
    BY DEF GridInv, TypeOK, OrdersOnLevel, Countered
  <1>2. CounterOrder(o) \in Order
    BY <1>1 DEF CounterOrder, NewOrder, Order, ChainId, Opposite, Sides, Statuses, Levels
  <1>3. /\ SameChain(o, CounterOrder(o))
        /\ CounterOrder(o).auto
        /\ CounterOrder(o).status = "Live"
    BY <1>1 DEF CounterOrder, NewOrder, SameChain, Order, ChainId
  <1>4. IsExit(CounterOrder(o)) <=> ~IsExit(o)
    BY <1>1 DEF CounterOrder, NewOrder, IsExit, EntrySide, Opposite, Order, Pos, Sides
  <1>5. OnItsLevel(CounterOrder(o))
    <2>1. CASE o.side = "Buy"
      BY <1>1, <2>1 DEF OnItsLevel, CounterOrder, NewOrder, CounterLevel, IsExit, EntrySide,
                        Opposite, Order, ChainId, Pos, Sides, Levels
    <2>2. CASE o.side = "Sell"
      BY <1>1, <2>2 DEF OnItsLevel, CounterOrder, NewOrder, CounterLevel, IsExit, EntrySide,
                        Opposite, Order, ChainId, Pos, Sides, Levels
    <2> QED
      BY <1>1, <2>1, <2>2 DEF Order, Sides
  <1> QED
    BY <1>2, <1>3, <1>4, <1>5

\* The first order of a chain, on a level of the grid that has an amount.
LEMMA EntryOrderFits ==
  ASSUME NEW g \in Nat, NEW pos \in Pos, NEW l \in Nat
  PROVE  LET e == EntryOrder(g, pos, l)
         IN  /\ e \in Order
             /\ e.pos = pos /\ e.id.pos = pos /\ e.lvl = l /\ e.id.lvl = l
             /\ e.auto
             /\ e.status = "Live"
             /\ ~IsExit(e)
  BY DEF EntryOrder, NewOrder, Order, ChainId, EntrySide, IsExit, Pos, Sides, Statuses
---------------------------------------------------------------------------
(* The inductive invariant.                                                *)

LEMMA InitHolds == Init => GridInv
  BY DEF Init, GridInv, TypeOK, SizeFits, OrdersOnLevel, OneOrderPerChain,
         OutstandingIsInited, Levels, Pos

LEMMA StartGridKeeps ==
  ASSUME GridInv, NEW n \in GridCounts, StartGridOk(n)
  PROVE  GridInv'
  <1> DEFINE c == LevelCount(n)
  <1>1. n \in Int /\ n > 0 /\ c \in Nat /\ c > 0 /\ gen + 1 \in Nat /\ size' = c /\ option' = n
    BY LevelCountBounds, GridAssumption DEF StartGridOk, GridInv, TypeOK
  <1>2. ASSUME NEW o \in orders'
        PROVE  \E pos \in Pos : \E l \in InitialLevels(c, pos) :
                 o = EntryOrder(gen + 1, pos, l)
    BY DEF StartGridOk, StartOrders
  <1>3. ASSUME NEW pos \in Pos, NEW l \in InitialLevels(c, pos),
               NEW e, e = EntryOrder(gen + 1, pos, l)
        PROVE  /\ l \in Nat /\ l \in Levels'
               /\ e \in Order /\ e.pos = pos /\ e.id.lvl = l
               /\ OnItsLevel(e)'
    <2>1. l \in Nat /\ l \in Levels' /\ HasAmount(option', size', pos, l)
      BY <1>1, InitialLevelsHaveAmount DEF Levels
    <2>2. /\ e \in Order
          /\ e.pos = pos /\ e.id.pos = pos /\ e.lvl = l /\ e.id.lvl = l
          /\ ~IsExit(e)
      BY <1>1, <1>3, <2>1, EntryOrderFits
    <2> QED
      BY <2>1, <2>2 DEF OnItsLevel
  <1>4. inited' = [pos \in Pos |-> InitialLevels(c, pos)]
    BY DEF StartGridOk
  <1>5. TypeOK'
    BY <1>1, <1>2, <1>3, <1>4 DEF TypeOK, StartGridOk
  <1>6. SizeFits'
    BY <1>1 DEF SizeFits
  <1>7. OrdersOnLevel'
    BY <1>2, <1>3, <1>4 DEF OrdersOnLevel
  <1>8. OneOrderPerChain'
    BY <1>2, <1>3 DEF OneOrderPerChain, SameChain
  <1>9. OutstandingIsInited'
    BY <1>2, <1>3, <1>4 DEF OutstandingIsInited
  <1> QED
    BY <1>5, <1>6, <1>7, <1>8, <1>9 DEF GridInv

\* A grid that is not there has no order and no armed level.
LEMMA NoGridIsEmpty ==
  ASSUME GridInv, size = 0
  PROVE  orders = {} /\ \A pos \in Pos : inited[pos] = {}
  BY DEF GridInv, OrdersOnLevel, OnItsLevel, Levels

LEMMA StartGridFailsKeeps ==
  ASSUME GridInv, NEW n \in GridCounts, StartGridFails(n)
  PROVE  GridInv'
  <1>1. orders' = {} /\ \A pos \in Pos : inited'[pos] = {}
    BY NoGridIsEmpty DEF StartGridFails
  <1>2. TypeOK' /\ SizeFits'
    BY GridAssumption DEF StartGridFails, GridInv, TypeOK, SizeFits
  <1> QED
    BY <1>1, <1>2 DEF GridInv, OrdersOnLevel, OneOrderPerChain, OutstandingIsInited

LEMMA SetStatusKeeps ==
  ASSUME GridInv, NEW q \in orders, NEW status \in Reports, SetStatus(q.id, status)
  PROVE  GridInv'
  <1>1. status \in Statuses
    BY GridAssumption DEF Statuses
  <1>2. ASSUME NEW o \in orders'
        PROVE  \E p \in orders :
                 /\ o = p \/ o = [p EXCEPT !.status = status]
                 /\ o \in Order /\ o.id = p.id /\ o.lvl = p.lvl
                 /\ o.pos = p.pos /\ o.side = p.side /\ o.auto = p.auto
    BY <1>1 DEF SetStatus, GridInv, TypeOK, Order
  <1>3. TypeOK' /\ SizeFits'
    BY <1>2 DEF SetStatus, GridInv, TypeOK, SizeFits
  <1>4. OrdersOnLevel'
    BY <1>2 DEF SetStatus, GridInv, OrdersOnLevel, OnItsLevel, Levels, IsExit, CounterLevel
  <1>5. OneOrderPerChain'
    BY DEF SetStatus, GridInv, OneOrderPerChain, SameChain, TypeOK, Order
  <1>6. OutstandingIsInited'
    BY <1>2 DEF SetStatus, GridInv, OutstandingIsInited
  <1> QED
    BY <1>3, <1>4, <1>5, <1>6 DEF GridInv

\* What a pass leaves on the grid: an order that stood and was not answered,
\* the answer to one, or the first order of a level that was not armed.
LEMMA PassOutcome ==
  ASSUME GridInv, UpdateGrid, NEW o \in orders'
  PROVE  \/ o \in Kept
         \/ \E p \in Countered : o = CounterOrder(p)
         \/ \E pos \in Pos : \E l \in Armed(pos) : o = EntryOrder(gen, pos, l)
  BY DEF UpdateGrid, Placed, Pos

\* A level that a pass arms had no order of its chain.
LEMMA ArmedIsFree ==
  ASSUME GridInv, NEW pos \in Pos, NEW l \in Armed(pos),
         NEW o \in orders, o.auto, o.pos = pos
  PROVE  o.id.lvl # l
  BY DEF GridInv, OutstandingIsInited, Armed

LEMMA UpdateGridKeeps ==
  ASSUME GridInv, UpdateGrid
  PROVE  GridInv'
  <1>1. /\ gen \in Nat /\ size \in Nat /\ Levels' = Levels
        /\ option' = option /\ size' = size /\ gen' = gen
        /\ inited' = [pos \in Pos |-> inited[pos] \cup Armed(pos)]
        /\ inited \in [Pos -> SUBSET Nat]
    BY DEF GridInv, TypeOK, UpdateGrid, Levels
  <1>2. ASSUME NEW o \in orders
        PROVE  o \in Order /\ OnItsLevel(o)
    BY DEF GridInv, TypeOK, OrdersOnLevel
  <1>3. ASSUME NEW o \in Countered, NEW c, c = CounterOrder(o)
        PROVE  /\ o \in orders /\ o.status = "Filled" /\ o.auto
               /\ c \in Order /\ OnItsLevel(c) /\ SameChain(o, c)
    BY <1>3, CounterOrderFits DEF Countered, AutoFilled
  <1>4. ASSUME NEW pos \in Pos, NEW l \in Armed(pos), NEW e, e = EntryOrder(gen, pos, l)
        PROVE  /\ l \in Nat /\ l \in Levels
               /\ e \in Order /\ OnItsLevel(e) /\ e.pos = pos /\ e.id.lvl = l
    <2>1. l \in Nat /\ l \in Levels /\ HasAmount(option, size, pos, l)
      BY <1>1 DEF Armed, Levels
    <2> QED
      BY <1>1, <1>4, <2>1, EntryOrderFits DEF OnItsLevel
  <1>5. ASSUME NEW o, OnItsLevel(o)
        PROVE  OnItsLevel(o)'
    BY <1>1, <1>5 DEF OnItsLevel
  <1>6. TypeOK'
    <2>1. orders' \subseteq Order
      BY <1>2, <1>3, <1>4, PassOutcome DEF Kept
    <2> QED
      BY <1>1, <1>4, <2>1 DEF GridInv, TypeOK
  <1>7. SizeFits'
    BY <1>1 DEF GridInv, SizeFits
  <1>8. OrdersOnLevel'
    <2>1. \A o \in orders' : OnItsLevel(o)'
      BY <1>2, <1>3, <1>4, <1>5, PassOutcome DEF Kept
    <2> QED
      BY <1>1, <1>4, <2>1 DEF GridInv, OrdersOnLevel
  <1>9. OneOrderPerChain'
    <2> SUFFICES ASSUME NEW o \in orders', NEW q \in orders',
                        o.auto, q.auto, SameChain(o, q)
                 PROVE  o = q
      BY DEF OneOrderPerChain
    <2> DEFINE Comes(x, p) == /\ p \in orders /\ p.auto /\ SameChain(p, x)
                              /\ \/ x = p /\ p.status # "Filled"
                                 \/ x = CounterOrder(p) /\ p.status = "Filled"
               Arms(x) == \E l \in Armed(x.pos) : x = EntryOrder(gen, x.pos, l) /\ x.id.lvl = l
    <2>1. ASSUME NEW x \in orders', x.auto
          PROVE  (\E p : Comes(x, p)) \/ (x.pos \in Pos /\ Arms(x))
      BY <1>2, <1>3, <1>4, <2>1, PassOutcome DEF Kept, SameChain
    <2>2. CASE \E p, r : Comes(o, p) /\ Comes(q, r)
      BY <2>2 DEF GridInv, OneOrderPerChain, SameChain
    <2>3. CASE \E p : Comes(o, p) /\ q.pos \in Pos /\ Arms(q)
      BY <2>3, ArmedIsFree DEF SameChain
    <2>4. CASE \E p : Comes(q, p) /\ o.pos \in Pos /\ Arms(o)
      BY <2>4, ArmedIsFree DEF SameChain
    <2>5. CASE Arms(o) /\ Arms(q)
      BY <2>5 DEF SameChain
    <2> QED
      BY <2>1, <2>2, <2>3, <2>4, <2>5
  <1>10. OutstandingIsInited'
    <2>1. ASSUME NEW o \in orders', o.auto
          PROVE  o.id.lvl \in inited'[o.pos]
      BY <1>1, <1>2, <1>3, <1>4, <2>1, PassOutcome
      DEF Kept, SameChain, GridInv, OutstandingIsInited, Order
    <2> QED
      BY <2>1 DEF OutstandingIsInited
  <1> QED
    BY <1>6, <1>7, <1>8, <1>9, <1>10 DEF GridInv

\* The level that an overdue exit gives back is the level of its own chain.
LEMMA GivenUpLevel ==
  ASSUME GridInv, NEW o \in LiveExits("Long") \cup LiveExits("Short")
  PROVE  o \in orders /\ IsExit(o) /\ CounterLevel(o) = o.id.lvl
  <1>1. o \in Order /\ OnItsLevel(o) /\ IsExit(o) /\ o \in orders
    BY DEF LiveExits, GridInv, TypeOK, OrdersOnLevel
  <1>2. CASE o.side = "Buy"
    BY <1>1, <1>2 DEF OnItsLevel, CounterLevel, IsExit, EntrySide, Opposite, Order, ChainId,
                      Pos, Sides
  <1>3. CASE o.side = "Sell"
    BY <1>1, <1>3 DEF OnItsLevel, CounterLevel, IsExit, EntrySide, Opposite, Order, ChainId,
                      Pos, Sides
  <1> QED
    BY <1>1, <1>2, <1>3 DEF Order, Sides

LEMMA GiveUpKeeps ==
  ASSUME GridInv, NEW A \in SUBSET (LiveExits("Long") \cup LiveExits("Short")), GiveUp(A)
  PROVE  GridInv'
  <1>1. ASSUME NEW o \in orders'
        PROVE  \E p \in orders :
                 /\ o \in Order /\ o.id = p.id /\ o.lvl = p.lvl
                 /\ o.pos = p.pos /\ o.side = p.side
                 /\ o.auto => p.auto /\ p \notin A /\ o = p
    BY DEF GiveUp, GridInv, TypeOK, Order
  <1>2. /\ option' = option /\ size' = size /\ Levels' = Levels /\ gen' = gen + 1
        /\ \A pos \in Pos : inited'[pos] \subseteq inited[pos]
        /\ inited' \in [Pos -> SUBSET Nat]
    BY DEF GiveUp, GridInv, TypeOK, Levels
  <1>3. TypeOK' /\ SizeFits'
    BY <1>1, <1>2 DEF GridInv, TypeOK, SizeFits
  <1>4. OrdersOnLevel'
    BY <1>1, <1>2 DEF GridInv, OrdersOnLevel, OnItsLevel, Levels, IsExit, CounterLevel
  <1>5. OneOrderPerChain'
    BY <1>1 DEF GridInv, OneOrderPerChain, SameChain
  <1>6. OutstandingIsInited'
    <2> SUFFICES ASSUME NEW o \in orders', o.auto
                 PROVE  o.id.lvl \in inited'[o.pos]
      BY DEF OutstandingIsInited
    <2>1. o \in orders /\ o \notin A /\ o.id.lvl \in inited[o.pos] /\ o.pos \in Pos
      BY <1>1 DEF GridInv, OutstandingIsInited, TypeOK, Order
    <2>2. ASSUME NEW q \in A, q.pos = o.pos, q.auto
          PROVE  o.id.lvl # CounterLevel(q)
      BY <2>1, <2>2, GivenUpLevel DEF GridInv, OneOrderPerChain, SameChain
    <2> QED
      BY <2>1, <2>2 DEF GiveUp
  <1> QED
    BY <1>3, <1>4, <1>5, <1>6 DEF GridInv

LEMMA ClearGridKeeps ==
  ASSUME GridInv, ClearGrid
  PROVE  GridInv'
  BY DEF ClearGrid, NoGrid, GridInv, TypeOK, SizeFits, OrdersOnLevel, OneOrderPerChain,
         OutstandingIsInited, Pos

LEMMA StutterKeeps ==
  ASSUME GridInv, UNCHANGED vars
  PROVE  GridInv'
  BY DEF vars, GridInv, TypeOK, SizeFits, OrdersOnLevel, OneOrderPerChain,
         OutstandingIsInited, OnItsLevel, Levels, CounterLevel, IsExit, SameChain

LEMMA NextKeeps == GridInv /\ [Next]_vars => GridInv'
  <1> SUFFICES ASSUME GridInv, [Next]_vars
               PROVE  GridInv'
    OBVIOUS
  <1>1. ASSUME NEW n \in GridCounts, StartGridOk(n)
        PROVE  GridInv'
    BY <1>1, StartGridKeeps
  <1>2. ASSUME NEW n \in GridCounts, StartGridFails(n)
        PROVE  GridInv'
    BY <1>2, StartGridFailsKeeps
  <1>3. ASSUME NEW o \in orders, NEW status \in Reports, SetStatus(o.id, status)
        PROVE  GridInv'
    BY <1>3, SetStatusKeeps
  <1>4. CASE UpdateGrid
    BY <1>4, UpdateGridKeeps
  <1>5. CASE CheckLongUnfilledOrder
    BY <1>5, GiveUpKeeps DEF CheckLongUnfilledOrder
  <1>6. CASE ClearGrid
    BY <1>6, ClearGridKeeps
  <1>7. CASE UNCHANGED vars
    BY <1>7, StutterKeeps
  <1> QED
    BY <1>1, <1>2, <1>3, <1>4, <1>5, <1>6, <1>7 DEF Next

---------------------------------------------------------------------------
(* The theorems.                                                           *)

\* Every reachable state satisfies the inductive invariant.
THEOREM GridInvariant == Spec => []GridInv
  BY InitHolds, NextKeeps, PTL DEF Spec

\* The state of UserData::grid_strategy_ keeps its shape.
THEOREM TypeCorrect == Spec => []TypeOK
  <1>1. GridInv => TypeOK
    BY DEF GridInv
  <1> QED
    BY <1>1, GridInvariant, PTL

\* No interleaving of passes, events, amendments and restarts gives a chain
\* two orders that will be answered, on a grid of any size.
THEOREM NoDoubleOrder == Spec => [](OneOrderPerChain /\ OutstandingIsInited)
  <1>1. GridInv => OneOrderPerChain /\ OutstandingIsInited
    BY DEF GridInv
  <1> QED
    BY <1>1, GridInvariant, PTL

\* The index arithmetic of the passes stays inside the grid.
THEOREM LevelsRespected == Spec => []OrdersOnLevel
  <1>1. GridInv => OrdersOnLevel
    BY DEF GridInv
  <1> QED
    BY <1>1, GridInvariant, PTL

\* A pass answers every fill that asks for an answer, on every grid that has
\* more than one level.
THEOREM EveryFillAnswered == Spec => []FillsAreAnswered
  <1>1. GridInv => FillsAreAnswered
    BY CounterLevelInGrid DEF FillsAreAnswered, AutoFilled, Countered
  <1> QED
    BY <1>1, GridInvariant, PTL

---------------------------------------------------------------------------
(* The strategy implements the life of the chains.                         *)

LEMMA ChainsWithMembers ==
  ASSUME NEW S, NEW c
  PROVE  c \in ChainsWith(S) <=> \E o \in S : o.auto /\ c = <<o.pos, o.id.lvl>>
  BY DEF ChainsWith

LEMMA ChainsWithMonotone ==
  ASSUME NEW S, NEW T,
         \A o \in S : \E p \in T : p.auto = o.auto /\ p.pos = o.pos /\ p.id.lvl = o.id.lvl
  PROVE  ChainsWith(S) \subseteq ChainsWith(T)
  <1> SUFFICES ASSUME NEW c \in ChainsWith(S)
               PROVE  c \in ChainsWith(T)
    OBVIOUS
  <1>1. PICK o \in S : o.auto /\ c = <<o.pos, o.id.lvl>>
    BY DEF ChainsWith
  <1>2. PICK p \in T : p.auto = o.auto /\ p.pos = o.pos /\ p.id.lvl = o.id.lvl
    BY <1>1
  <1> QED
    BY <1>1, <1>2 DEF ChainsWith

\* Where a chain stands, said of the orders instead of the sets of chains,
\* before and after a step.
LEMMA ChainMembers ==
  ASSUME NEW c
  PROVE  /\ c \in EntryChains <=> \E o \in orders : o.auto /\ ~IsExit(o) /\ c = <<o.pos, o.id.lvl>>
         /\ c \in ExitChains <=> \E o \in orders : o.auto /\ IsExit(o) /\ c = <<o.pos, o.id.lvl>>
         /\ c \in DeadChains <=> /\ c \in Pos \X Levels /\ c[2] \in inited[c[1]]
                                 /\ c \notin EntryChains /\ c \notin ExitChains
  BY ChainsWithMembers DEF EntryChains, ExitChains, DeadChains

LEMMA ChainMembersNext ==
  ASSUME NEW c
  PROVE  /\ c \in EntryChains' <=> \E o \in orders' : o.auto /\ ~IsExit(o) /\ c = <<o.pos, o.id.lvl>>
         /\ c \in ExitChains' <=> \E o \in orders' : o.auto /\ IsExit(o) /\ c = <<o.pos, o.id.lvl>>
         /\ c \in DeadChains' <=> /\ c \in Pos \X Levels' /\ c[2] \in inited'[c[1]]
                                  /\ c \notin EntryChains' /\ c \notin ExitChains'
  BY ChainsWithMembers DEF EntryChains, ExitChains, DeadChains

LEMMA ChainsDisjoint == GridInv => Chains!Disjoint
  <1> SUFFICES ASSUME GridInv
               PROVE  EntryChains \cap ExitChains = {}
    BY ChainMembers DEF Chains!Disjoint
  <1> QED
    BY ChainMembers DEF GridInv, OneOrderPerChain, SameChain

LEMMA EmptyBoard ==
  ASSUME GridInv, size = 0
  PROVE  EntryChains = {} /\ ExitChains = {} /\ DeadChains = {}
  BY NoGridIsEmpty DEF EntryChains, ExitChains, DeadChains, ChainsWith

LEMMA InitIsChainsInit == Init => Chains!Init
  <1> SUFFICES ASSUME Init
               PROVE  Chains!Init
    OBVIOUS
  <1>1. EntryChains = {} /\ ExitChains = {} /\ DeadChains = {}
    BY DEF Init, EntryChains, ExitChains, DeadChains, ChainsWith
  <1> QED
    BY <1>1 DEF Chains!Init

LEMMA ClearIsClose == ClearGrid => Chains!Close
  BY DEF ClearGrid, NoGrid, Chains!Close, EntryChains, ExitChains, DeadChains, ChainsWith

LEMMA StartIsOpen ==
  ASSUME GridInv, NEW n \in GridCounts, StartGridOk(n)
  PROVE  Chains!Open
  <1> DEFINE c == LevelCount(n)
  <1>1. n \in Int /\ n > 0 /\ c \in Nat /\ gen + 1 \in Nat
    BY LevelCountBounds, GridAssumption DEF StartGridOk, GridInv, TypeOK
  <1>2. ASSUME NEW pos \in Pos, NEW l \in InitialLevels(c, pos)
        PROVE  \E o \in orders' : o.auto /\ ~IsExit(o) /\ <<pos, l>> = <<o.pos, o.id.lvl>>
    <2>1. l \in Nat /\ HasAmount(n, c, pos, l)
      BY <1>1, InitialLevelsHaveAmount
    <2>2. EntryOrder(gen + 1, pos, l) \in orders'
      BY <2>1 DEF StartGridOk, StartOrders
    <2> QED
      BY <1>1, <2>1, <2>2, EntryOrderFits
  <1>3. ASSUME NEW o \in orders'
        PROVE  ~IsExit(o)
    <2>p. PICK pos \in Pos : \E l \in InitialLevels(c, pos) : o = EntryOrder(gen + 1, pos, l)
      BY DEF StartGridOk, StartOrders
    <2>1. PICK l \in InitialLevels(c, pos) : o = EntryOrder(gen + 1, pos, l)
      BY <2>p
    <2>2. l \in Nat
      BY <1>1, <2>1, InitialLevelsHaveAmount
    <2> QED
      BY <1>1, <2>1, <2>2, EntryOrderFits
  <1>4. inited' = [pos \in Pos |-> InitialLevels(c, pos)]
    BY DEF StartGridOk
  <1>5. ExitChains' = {}
    BY <1>3 DEF ExitChains, ChainsWith
  <1>6. DeadChains' = {}
    <2>1. ASSUME NEW d \in DeadChains'
          PROVE  FALSE
      <3>p. PICK pos \in Pos : \E l \in InitialLevels(c, pos) : d = <<pos, l>>
        BY <1>4, <2>1, ChainMembersNext
      <3>1. PICK l \in InitialLevels(c, pos) : d = <<pos, l>>
        BY <3>p
      <3>2. d \in EntryChains'
        BY <1>2, <3>1, ChainMembersNext
      <3> QED
        BY <2>1, <3>2, ChainMembersNext
    <2> QED
      BY <2>1
  <1>7. size = 0
    BY DEF StartGridOk
  <1> QED
    BY <1>5, <1>6, <1>7, EmptyBoard DEF Chains!Open

LEMMA SetStatusIsStutter ==
  ASSUME GridInv, NEW q \in orders, NEW status \in Reports, SetStatus(q.id, status)
  PROVE  UNCHANGED Chains!vars
  <1>1. ASSUME NEW o \in orders'
        PROVE  \E p \in orders :
                 o.id = p.id /\ o.pos = p.pos /\ o.side = p.side /\ o.auto = p.auto
    BY DEF SetStatus, GridInv, TypeOK, Order
  <1>2. ASSUME NEW p \in orders
        PROVE  \E o \in orders' :
                 o.id = p.id /\ o.pos = p.pos /\ o.side = p.side /\ o.auto = p.auto
    <2>1. p \in Order
      BY DEF GridInv, TypeOK
    <2>2. (IF p.id = q.id /\ p.status # "Canceled"
           THEN [p EXCEPT !.status = status] ELSE p) \in orders'
      BY DEF SetStatus
    <2> QED
      BY <2>1, <2>2 DEF Order
  <1>3. Levels' = Levels /\ inited' = inited
    BY DEF SetStatus, Levels
  <1> DEFINE Alike(o, p) == p.auto = o.auto /\ p.pos = o.pos /\ p.id.lvl = o.id.lvl
  <1>4. /\ \A o \in orders' : \E p \in orders : Alike(o, p) /\ (IsExit(p) <=> IsExit(o))
        /\ \A p \in orders : \E o \in orders' : Alike(p, o) /\ (IsExit(o) <=> IsExit(p))
    BY <1>1, <1>2 DEF IsExit
  <1>5. EntryChains' = EntryChains
    <2> DEFINE S == {o \in orders : ~IsExit(o)}
               T == {o \in orders' : ~IsExit(o)}
    <2>1. \A o \in T : \E p \in S : Alike(o, p)
      BY <1>4
    <2>2. \A p \in S : \E o \in T : Alike(p, o)
      BY <1>4
    <2> HIDE DEF S, T
    <2>3. ChainsWith(T) \subseteq ChainsWith(S) /\ ChainsWith(S) \subseteq ChainsWith(T)
      BY <2>1, <2>2, ChainsWithMonotone
    <2> QED
      BY <2>3 DEF EntryChains, ChainsWith, S, T
  <1>6. ExitChains' = ExitChains
    <2> DEFINE S == {o \in orders : IsExit(o)}
               T == {o \in orders' : IsExit(o)}
    <2>1. \A o \in T : \E p \in S : Alike(o, p)
      BY <1>4
    <2>2. \A p \in S : \E o \in T : Alike(p, o)
      BY <1>4
    <2> HIDE DEF S, T
    <2>3. ChainsWith(T) \subseteq ChainsWith(S) /\ ChainsWith(S) \subseteq ChainsWith(T)
      BY <2>1, <2>2, ChainsWithMonotone
    <2> QED
      BY <2>3 DEF ExitChains, ChainsWith, S, T
  <1> QED
    BY <1>3, <1>5, <1>6 DEF Chains!vars, DeadChains

LEMMA UpdateGridIsMove ==
  ASSUME GridInv, UpdateGrid
  PROVE  Chains!Move
  <1>1. /\ gen \in Nat /\ Levels' = Levels
        /\ inited' = [pos \in Pos |-> inited[pos] \cup Armed(pos)]
        /\ GridInv'
    BY UpdateGridKeeps DEF GridInv, TypeOK, UpdateGrid, Levels
  <1>2. ASSUME NEW o \in orders
        PROVE  /\ o \in Order /\ o.pos \in Pos /\ o.id.lvl \in Levels
               /\ o.auto => o.id.lvl \in inited[o.pos]
    BY DEF GridInv, TypeOK, OrdersOnLevel, OnItsLevel, OutstandingIsInited, Order
  \* Whence an order of the grid after the pass.
  <1>3. ASSUME NEW x \in orders', x.auto
        PROVE  \/ x \in orders
               \/ \E p \in orders : p.auto /\ SameChain(p, x) /\ (IsExit(x) <=> ~IsExit(p))
               \/ ~IsExit(x) /\ x.pos \in Pos /\ x.id.lvl \in Armed(x.pos)
    <2>1. CASE \E p \in Countered : x = CounterOrder(p)
      <3>1. PICK p \in Countered : x = CounterOrder(p)
        BY <2>1
      <3>2. p \in orders /\ p.auto
        BY DEF Countered, AutoFilled
      <3> QED
        BY <3>1, <3>2, CounterOrderFits
    <2>2. CASE \E pos \in Pos : \E l \in Armed(pos) : x = EntryOrder(gen, pos, l)
      <3>1. PICK pos \in Pos : \E l \in Armed(pos) : x = EntryOrder(gen, pos, l)
        BY <2>2
      <3>2. PICK l \in Armed(pos) : x = EntryOrder(gen, pos, l)
        BY <3>1
      <3>3. l \in Nat
        BY DEF Armed, Levels, GridInv, TypeOK
      <3> QED
        BY <1>1, <3>2, <3>3, EntryOrderFits
    <2> QED
      BY <2>1, <2>2, PassOutcome DEF Kept
  <1>4. ExitChains' \subseteq ExitChains \cup EntryChains
    BY <1>3, ChainMembers, ChainMembersNext DEF SameChain
  <1>5. ASSUME NEW c \in EntryChains' \cup ExitChains'
        PROVE  c \notin DeadChains
    <2>1. PICK x \in orders' : x.auto /\ c = <<x.pos, x.id.lvl>>
      BY ChainMembersNext
    <2>2. CASE \E p \in orders : p.auto /\ c = <<p.pos, p.id.lvl>>
      BY <2>2, ChainMembers
    <2>3. CASE x.pos \in Pos /\ x.id.lvl \in Armed(x.pos)
      BY <2>1, <2>3, ChainMembers DEF Armed
    <2> QED
      BY <1>3, <2>1, <2>2, <2>3 DEF SameChain
  <1>6. ASSUME NEW c \in Pos \X Levels, c[2] \in inited[c[1]]
        PROVE  c \in EntryChains' \cup ExitChains' \cup DeadChains'
    BY <1>1, <1>6, ChainMembersNext
  <1>7. EntryChains \subseteq EntryChains' \cup ExitChains' \cup DeadChains'
    BY <1>2, <1>6, ChainMembers
  <1>8. DeadChains \subseteq DeadChains'
    BY <1>5, <1>6, ChainMembers
  \* An armed level has its opening order.
  <1>9. ASSUME NEW pos \in Pos, NEW l \in Armed(pos)
        PROVE  <<pos, l>> \in EntryChains'
    <2>1. l \in Nat
      BY DEF Armed, Levels, GridInv, TypeOK
    <2>2. PICK e \in orders' : e = EntryOrder(gen, pos, l)
      BY DEF UpdateGrid, Placed, Pos
    <2>3. e.auto /\ ~IsExit(e) /\ <<pos, l>> = <<e.pos, e.id.lvl>>
      BY <1>1, <2>1, <2>2, EntryOrderFits
    <2> QED
      BY <2>3, ChainMembersNext
  <1>10. ASSUME NEW c \in DeadChains'
         PROVE  c \in DeadChains \cup EntryChains \cup ExitChains
    <2>1. c \in Pos \X Levels /\ c[2] \in inited'[c[1]] /\ c \notin EntryChains'
      BY <1>1, ChainMembersNext
    <2>2. c[1] \in Pos /\ c = <<c[1], c[2]>> /\ c[2] \notin Armed(c[1])
      BY <1>9, <2>1
    <2>3. c[2] \in inited[c[1]]
      BY <1>1, <2>1, <2>2
    <2> QED
      BY <2>1, <2>3, ChainMembers
  <1>11. Chains!Disjoint'
    <2>1. ASSUME NEW c \in EntryChains', c \in ExitChains'
          PROVE  FALSE
      <3>1. PICK o \in orders' : o.auto /\ ~IsExit(o) /\ c = <<o.pos, o.id.lvl>>
        BY <2>1, ChainMembersNext
      <3>2. PICK q \in orders' : q.auto /\ IsExit(q) /\ c = <<q.pos, q.id.lvl>>
        BY <2>1, ChainMembersNext
      <3> QED
        BY <1>1, <3>1, <3>2 DEF GridInv, OneOrderPerChain, SameChain
    <2>2. DeadChains' \cap EntryChains' = {} /\ DeadChains' \cap ExitChains' = {}
      BY ChainMembersNext
    <2> QED
      BY <2>1, <2>2 DEF Chains!Disjoint
  <1> QED
    BY <1>4, <1>5, <1>7, <1>8, <1>10, <1>11 DEF Chains!Move

LEMMA GiveUpIsMove ==
  ASSUME GridInv, NEW A \in SUBSET (LiveExits("Long") \cup LiveExits("Short")), GiveUp(A)
  PROVE  Chains!Move
  <1>1. Levels' = Levels /\ GridInv'
    BY GiveUpKeeps DEF GiveUp, Levels
  \* The orders that are not amended are there afterwards, the others no
  \* longer count.
  <1>2. \A o \in orders' : o.auto => o \in orders /\ o \notin A
    BY DEF GiveUp, GridInv, TypeOK, Order
  <1>3. ASSUME NEW o \in orders, o \notin A
        PROVE  o \in orders'
    BY <1>3 DEF GiveUp
  <1>4. ASSUME NEW o \in A
        PROVE  o \in orders /\ IsExit(o) /\ CounterLevel(o) = o.id.lvl /\ o \in Order
    BY GivenUpLevel DEF GridInv, TypeOK
  <1>5. EntryChains' = EntryChains
    <2>1. ASSUME NEW c PROVE c \in EntryChains' <=> c \in EntryChains
      BY <1>2, <1>3, <1>4, ChainMembers, ChainMembersNext
    <2> QED
      BY <2>1
  <1>6. ExitChains' \subseteq ExitChains
    BY <1>2, ChainMembers, ChainMembersNext
  \* A chain that is armed and has no order was not given up.
  <1>7. DeadChains \subseteq DeadChains'
    <2> SUFFICES ASSUME NEW c \in DeadChains
                 PROVE  c \in DeadChains'
      OBVIOUS
    <2>1. /\ c \in Pos \X Levels /\ c[2] \in inited[c[1]]
          /\ c \notin EntryChains /\ c \notin ExitChains
      BY ChainMembers
    <2>2. ASSUME NEW q \in A, q.pos = c[1], q.auto
          PROVE  c[2] # CounterLevel(q)
      BY <1>4, <2>1, <2>2, ChainMembers
    <2>3. c[2] \in inited'[c[1]]
      BY <2>1, <2>2 DEF GiveUp
    <2> QED
      BY <1>1, <1>5, <1>6, <2>1, <2>3, ChainMembersNext
  <1>8. ASSUME NEW c \in DeadChains'
        PROVE  c \in DeadChains \cup EntryChains \cup ExitChains
    <2>1. c \in Pos \X Levels /\ c[2] \in inited'[c[1]]
      BY <1>1, ChainMembersNext
    <2>2. c[2] \in inited[c[1]]
      BY <2>1 DEF GiveUp
    <2> QED
      BY <2>1, <2>2, ChainMembers
  <1>9. ASSUME NEW c \in EntryChains \cup ExitChains
        PROVE  c \notin DeadChains
    BY <1>9, ChainMembers
  <1>10. Chains!Disjoint'
    <2>1. EntryChains' \cap ExitChains' = {}
      BY <1>5, <1>6, ChainsDisjoint DEF Chains!Disjoint
    <2>2. DeadChains' \cap EntryChains' = {} /\ DeadChains' \cap ExitChains' = {}
      BY ChainMembersNext
    <2> QED
      BY <2>1, <2>2 DEF Chains!Disjoint
  <1> QED
    BY <1>5, <1>6, <1>7, <1>8, <1>9, <1>10 DEF Chains!Move

\* The grid implements the life of its chains, whatever its size, whatever is
\* reported of its orders and whenever it is started, amended and cleared.
THEOREM ImplementsChains == Spec => ChainsSpec
  <1>1. Init => Chains!Init
    BY InitIsChainsInit
  <1>2. GridInv /\ [Next]_vars => [Chains!Next]_(Chains!vars)
    <2> SUFFICES ASSUME GridInv, [Next]_vars
                 PROVE  Chains!Next \/ UNCHANGED Chains!vars
      OBVIOUS
    <2>1. ASSUME NEW n \in GridCounts, StartGridOk(n)
          PROVE  Chains!Next
      BY <2>1, StartIsOpen DEF Chains!Next
    <2>2. ASSUME NEW n \in GridCounts, StartGridFails(n)
          PROVE  UNCHANGED Chains!vars
      BY <2>2 DEF StartGridFails, Chains!vars, EntryChains, ExitChains, DeadChains, Levels
    <2>3. ASSUME NEW o \in orders, NEW status \in Reports, SetStatus(o.id, status)
          PROVE  UNCHANGED Chains!vars
      BY <2>3, SetStatusIsStutter
    <2>4. CASE UpdateGrid
      BY <2>4, UpdateGridIsMove DEF Chains!Next
    <2>5. CASE CheckLongUnfilledOrder
      BY <2>5, GiveUpIsMove DEF CheckLongUnfilledOrder, Chains!Next
    <2>6. CASE ClearGrid
      BY <2>6, ClearIsClose DEF Chains!Next
    <2>7. CASE UNCHANGED vars
      BY <2>7 DEF vars, Chains!vars, EntryChains, ExitChains, DeadChains, Levels
    <2> QED
      BY <2>1, <2>2, <2>3, <2>4, <2>5, <2>6, <2>7 DEF Next
  <1> QED
    BY <1>1, <1>2, GridInvariant, PTL DEF Spec, ChainsSpec, Chains!Spec
===========================================================================

# Verification of ibitcoin2waygrid

TLA+ models of the grid-trading program in `src/`, the TLC instances that check
them and TLAPS proofs of what matters most for every size of the grid. The
program keeps a ladder of price levels on one perpetual swap, rests buy and sell
orders on it for a long and a short side at once, and answers every fill with an
opposite order one level further on. It is one process with several threads that
talk to an exchange over a web socket and over REST.

File names below are relative to `src/src/`.

## Inventory

| Component | State it keeps | Operations | Talks to |
|---|---|---|---|
| Grid strategy (`user_data.*`, `UserData`) | `grid_strategy_`: the levels, per level a long and a short queue of orders, `init_ordered`, the option, `dirty`; balances, positions, prices | `startGrid`, `updateGrid`, `checkLongUnfilledOrder`, `clearGrid`, `lock`/`unlock` | sends batches through the private channel, the leverage through REST |
| Threads around it (`main.cpp`, `restapi.cpp`, `command.cpp`) | nothing of their own but what they computed under the lock and have not sent | checkgrid thread, console, rebuild thread, the private channel's thread | all through `UserData`'s mutex |
| Private channel (`channel.*`, `private_channel.*`) | `outq_`, `inq_`, `waiting_resp_q_`, `logined_` | `run`, `parseIncomeData`, `sendCmd`, `reconnect`, `onConnected`, `onLogined`, `waitLogined` | one thread runs it, every other thread appends to `outq_`; `main` waits for its login before any of those start |
| Public channel (`public_channel.*`) | as the private one | `run`, `onConnected` with two subscriptions | its pushes fill the tables of instruments and trades, for which `main` waits |
| Command queue (`concurrent_queue.h`) | `q_`, `over_`, a condition variable | `push`, `pop`, timed `pop`, `tryPop`, `clear`, `abort` | all threads |
| Protocol commands (`command.*`) | none | builds requests, `parseReceivedData` classifies answers and applies pushes | channel to grid |
| REST client (`restapi.*`) | none | `setLeverage`, `checkOrderFilled` | `HttpSession`, grid |
| Network sessions (`ws_session.*`, `http_session.*`) | `ec_`, `connected_`, `async_read_called_`, `buffer_` | the chain of callbacks from `start` to the verdict, `waitUtilConnected`, `async_read` | io thread and caller |
| SOCKS handshake (`socks/impl/handshake.hpp`) | `step_`, the response buffer | `socks4_op`, `socks5_op` | the sessions |
| SOCKS URI parser (`socks/impl/uri.ipp`, `socks/detail/host.hpp`) | `state`, `probe`, the parts found so far | `parse` | `start` of the sessions |
| Not modelled | | crypto, logger, util, rapidjson | |

What is hard here: four kinds of thread enter the grid under one mutex but act on
what they computed after they have released it; the connection breaks, loses
pushes, loses answers and makes the client send again; the exchange fills in
part, refuses orders, cancels and closing orders, is busy for half a batch, which is
then sent again whole; waits have no predicates; a flag without a lock decides
whether missed fills are looked for;
byte counts of a binary protocol are computed by hand; a parser finds out at the
end of a text what its start meant. `PROJECT.json` lists each such place under
"hazards".

What makes each component correct:

- the grid: no level is bought twice, every fill is answered and only a fill
  is, every order is on the level its chain says;
- the threads: no order rests on the exchange that nobody knows of, the grid
  waits for none that is not there, every position has an order that will close
  it, a closeout cancels everything, and closes nothing at the market that is still
  resting;
- the channels: a command is answered once, not carried out a second time, and not
  handed over before the login; a channel always comes back;
- the queue: first in first out, and no sleeper is forgotten;
- the sessions: one verdict, which the caller gets; one read at a time;
- the handshake: success means granted, and the stream is left on a boundary;
- the parser: a setting is read as it is written.

## Modules

**`GridChains`** is the abstract grid. Every level has one *chain* per side: an
entry order that opens a position, then, when it fills, an exit order that closes
it, then an entry again. A chain is waiting to enter, waiting to exit, dead, or
not begun. `Open`, `Move` and `Close` are all that may happen.

**`GridStrategy`** is `UserData`'s grid at its lock. One action is one region of
code under `mutex_`: `StartGridOk`/`StartGridFails`, `SetStatus` (the loop over
all orders with a given clordid, which occurs in `command.cpp` twice and in
`restapi.cpp`), `UpdateGrid` (the whole pass), `CheckLongUnfilledOrder`,
`ClearGrid`. Correspondence of the state:

| Model | Code |
|---|---|
| `option` | `grid_strategy_.option.grid_count` |
| `size` | `grid_strategy_.grids.size()` |
| `orders` | all `Order`s in all `long_orders` and `short_orders` deques |
| an order's `lvl`, `pos` | which deque it is in |
| `side`, `status`, `auto` | `order_data.side`, `order_status`, `auto_put_order_if_filled` |
| an order's `id` | `clordid`: the chain it belongs to and how often that chain has filled |
| `inited[pos]` | the levels with `init_ordered` set |
| `gen` | makes names fresh, as `genCliOrdId` does; counting it up when an exit is given up is an artifice of naming |

Prices, amounts and cash appear as what the control flow reads of them: a level,
and whether a level has an amount. Deques are sets, because the code never asks
which order is first except to break ties. The clock and the price decide which
overdue orders are amended, so any subset of those the loops can reach may be.
`InitSpan` is the 4 of `startGrid`; the instances set it to 0 so that grids of
three levels already have levels that are armed later. The proofs hold for all
values.

**`GridSystem`** puts the threads around it. `pc` says where each thread is
between its lock regions, `todo` what it has computed under the lock and still
has to send or to mark, `closing` the exits whose position a closeout will close.
`feed` is the private channel's thread, `check` the checkgrid thread, `console`
the command loop, `rebuild` the thread a closeout leaves. The exchange is
external: it serves the requests of `wire` in their order. It places batches or
refuses orders of them, refuses a whole batch with a code that nobody looks for
(`ServeFailed`), is too busy for all or for part of one, cancels or refuses to,
trades the market orders of a closeout or refuses them, fills whole or in part,
and pushes to a subscribed session. It loses connections with the pushes under
way; the next session is logged in (`Relogin`), which queues the subscription
behind what has been sent since, and pushes begin when that has been served.

What the program does about a refusal depends on where it stands. An entry of the
answer to a batch of orders marks its order (`command.cpp:478`). The entries of the
answer to a batch cancel, and the codes 1 and 2 or any other of it, reach a callback
that logs them and lets go of the closing orders in any case (`user_data.cpp:650`);
so do those of the closing orders themselves (`user_data.cpp:630`), and a batch
refused as a whole with a code that is neither 1 nor 2 is not looked at
(`command.cpp:461`). Nothing of this is sent again.

An answer that says busy makes the program mark the refusals that stand before
the first busy entry and send the whole request again; the exchange then answers
what it has placed before with "clordid duplicated" (`known`), and the program
lets those be. The closing orders of a closeout are shared by the callbacks of
its cancels, as `DoneTask` is by `shared_ptr`, and sent when the last lets go
(`LetGo`). The query for missed fills lists `FillsListed` of them. Four history
variables name what no property can ask for: `forgotten` are orders that were
sent again after the grid had dropped them, `overtaken` orders that a thread
sent after the grid had dropped them, `unheeded` orders whose placing or whose
cancel was refused where nobody looks, `stranded` the positions the code
gives up (a refused exit or market order; a closeout that meets an unnoticed fill,
or more exits than one request holds).

Of the channel it takes what `Channel` shows in sessions where the login
succeeds: requests arrive in order and answers come, possibly late. A connection
is made again only when no request is left over; with one, the login is sent
behind it and fails for ever, which is `channel_relogin`'s subject and not in
`GridSystem`, and neither is a login or a subscription that is refused.

**`Requests`** is the broker's view of a command: new, pending, executed,
answered. Its callback runs once, after it has been carried out, and the exchange
may carry it out again before that but not after; `runs` counts how often it has
(up to `MaxRuns`). **`Channel`** is `Channel::run` in its turns over `outq_`
and `inq_`, with the waiting requests, login, subscriptions, retries, Close
commands and lost connections. `kind` says which of the two channels it is: the
public one subscribes as soon as it is connected and carries no commands. `main`
is the thread that starts the others: it waits for the login, without a
predicate, and then polls for what the first push brings. The subscriptions of a
channel stand as one. Requests
without an id are compared by their op, as in the code, which is why two of them
are indistinguishable. Nothing is dropped from the queues: every reconnection
adds a login, every "log in first" a Close command, and a Close that is left over
ends the next session. The code has no bound on them; in the model no connection is
made any more once `MaxPile` of them are left over (`PiledUp`).

**`Fifo`** is a queue that can be closed. **`ConcurrentQueue`** is
`ConcurrentQueueT` with the wait set of its condition variable and the window
between the release of the mutex and `notify_all`.

**`SocksHandshake`** has one action per entry of `socks4_op::operator()` and
`socks5_op::operator()` and counts bytes: what a read asks for (`need`), what the
server has sent that has not been read (`left`), what the buffer holds (`got`).

**`Session`** holds the actions of `WSSession` and `HttpSession`: the chain of
callbacks, the caller's wait with its timeout, and the reads of a web socket with
the two halves of the read handler apart.

**`SocksUri`** is `uri::parse`, one operator per state of its `switch`, and the loop
around it (`Run`), over a text whose symbols are the classes of characters the
parser tells apart: `"a"` is a hexadecimal letter, `"9"` a digit, whole words stand
for the schemes. Without 0 and f there are no octal or hexadecimal numbers and no
IPv6 address that ends in an IPv4 one. `AsWritten` is the reference: what a setting
of the usual form (`WellFormed`) says, read from its form.

**`Connection`** composes these three: `start` reads the setting through `SocksUri`,
the callbacks of `Session` run up to the proxy, the steps of `SocksHandshake` take
place where `proxy_handshake` waits, and their outcome goes to
`on_socks_proxy_handshake`. It is what is run; `Session` has no specification of
its own.

`GridStrategy_proofs`, `GridSystem_proofs`, `GridSystemOrders_proofs`,
`Channel_proofs`, `ConcurrentQueue_proofs`, `SocksHandshake_proofs`, `SocksUri_proofs`
and `Connection_proofs` hold the theorems; the `MC*` modules and their `.cfg` files are the instances.
Definitions introduced as "Mutant" in a comment are slips one could make in the
code; each property has been shown to fail when its mutant takes the place of the
definition below it.

## Runs

Passing:

| Run | Question | Instance |
|---|---|---|
| `grid` | Is every order where its chain says, does every fill find the level of its answer, can a chain ever have two orders that will be answered, does the grid implement `GridChains`? | grids of 0, 1 and 2 orders a side, 2 fills a chain, 2 generations; the reports are Canceled and Filled |
| `queue` | Is a wakeup ever lost, is the queue first in first out, does closing end every pop? | 2 producers, 2 consumers, length 3 |
| `channel` | Is a command ever lost, answered twice, carried out a second time, or handed over before the login? Is it answered while the session lasts? Does `main` get through its waits? Does a channel on which nothing was waiting subscribe again, however often it is lost, and the public channel after anything? | both channels, a command, 2 lost connections, a busy answer and a refusal, up to 3 requests left over |
| `system_orderly` | Without partial fills, busy answers and broken connections: does a closeout cancel everything but what is refused, is every fill noticed? | grid of 2, batches of 2, 2 fills, 1 refusal, a closeout, the rebuild and the grid after it |
| `system_busy` | With requests that are refused or met by a busy exchange, in whole or in part, and orders filled in part: does an order rest that nobody knows of, does the grid await an order that is not there, has every position an order that closes it, is none closed at the market before that order is gone? | grid of 2, batches of 2, 2 fills, a partial fill, 1 refusal, 1 busy answer, a closeout |
| `system_breaks` | With lost connections, stop and test grid: is an order answered only after its fill while none fills in part? | grids of 1 and 2, 2 fills, 2 lost connections, a stop, a test; queries that list one fill |
| `connection` | Is the setting read as it is written? Does the handshake succeed only when granted, end on a boundary, and end? Does a started session give one verdict, does the caller get it, is the end of a connection noticed? | both kinds of session, about 5000 settings, every answer of the proxy with names of 0 to 5, 11, 254 and 255 letters, 3 messages |

`OneOrderPerChain`, `OrdersTracked` and `OrdersExist` are those that a slip in the
order of the code's steps breaks first: the first guards the money of a level,
the others say that no order is left on the exchange unseen and none is waited
for that is not there. `PositionsCovered` adds it up: what was bought is on its
way to being sold. What the code gives up is named in each of them, never left out
of the model; the next list says where.

Violated, each a statement of the repository about itself that the code does not
keep; `PROJECT.json` quotes the line under "findings":

| Run | What happens |
|---|---|
| `channel_relogin` | a command that waits when the connection breaks is sent again before the login; the exchange asks for a login, the channel closes the session to give it one, and so on for ever |
| `system_partial` | the query after a broken connection takes a partial fill for a fill, and the grid answers an order that still rests |
| `system_missed` | the login after a broken connection asks for the query while the subscription is still on its way: the exchange lists its fills, fills an order, then serves the subscription; that fill is in neither and never noticed |
| `system_overtaken` | a closeout between a pass and the sending of its orders (a stop grid, or a take-profit on the other thread) leaves those orders on the exchange |
| `socks_reasons` | SOCKS5 refusals from host unreachable on are reported as the next reason |

What the code gives up, and the exceptions of the properties that name it:

- *A closeout leaves partially filled orders resting.* `clearGrid` cancels what
  is Live (`user_data.cpp:599`), not what is PartiallyFilled. With
  `MaxPartials = 1` in `MCGridSystemOrderly.cfg`, `ClosedOut` fails. They are an
  exception of `OrdersTracked` (`part`).
- *A closeout may overtake a send* when another thread can start one: the
  console's stop, a take-profit (`TakesProfit = TRUE`), or, after a break, the
  checkgrid thread beside the channel's. `system_orderly` therefore has none of
  them, and its closeout comes from the price leaving the grid. The console that
  sends a new grid in batches is such a thread too: with `BatchSize = 1` in
  `MCGridSystemBusy.cfg`, fills of the first orders make the feed thread close the
  grid out before the console has sent the last. Such orders are `overtaken`, an
  exception of `OrdersTracked` and `CloseAfterCancel`; `ClosedOut` has no such
  exception and fails of them.
- *A batch that a busy exchange sends back is sent again whole*
  (`channel.cpp:116`), with the orders that a refusal in the same answer or a
  closeout has removed from the grid meanwhile. They rest on the exchange unseen:
  `forgotten`, an exception of `OrdersTracked`, `ClosedOut`, `PositionsCovered`
  and `CloseAfterCancel`.
- *A refused cancel is only logged* (`user_data.cpp:653`), and its callback lets go
  of the closing orders all the same, so that a position is closed at the market
  beside the order that was to close it: `unheeded`, an exception of
  `OrdersTracked`, `ClosedOut` and `CloseAfterCancel`. A batch of orders refused as
  a whole with a code other than 1 and 2 is neither marked nor sent again
  (`command.cpp:461`): its orders are `unheeded` too, an exception of `OrdersExist`.
- *A closeout gives up some positions*: it closes those of at most twenty live
  exits (`user_data.cpp:645`), not what an entry bought when its fill had not
  been noticed, and not those whose market order is refused (`user_data.cpp:630`);
  and an exit that is refused is dropped (`command.cpp:478`).
  `stranded` is the exception of `PositionsCovered`.
- *A login without an answer is sent again ahead of a command without an answer*:
  the command is then carried out in the new session, perhaps for the second time
  (the exchange knows its clordid). `loginAgain` is the exception of
  `CarriedOutOnce`; in every other session a command that is sent again is turned
  away before it can be carried out.
- *A refused login or subscription stays among the requests that are sent again*
  (`channel.cpp:121`). The next session of the private channel starts with it: a
  login sent again does no harm (`QuietReconnect`), a subscription is turned away
  as a command is (`channel_relogin`), and `QuietReconnect` speaks only of a channel
  that has nothing but logins left over. The public channel recovers from it.
- *A query lists fifty fills* (`restapi.cpp:123`); older ones are not asked for.
- *The rebuild a closeout announces is tried once* (`user_data.cpp:466`): when
  `startGrid` fails, for want of a price or of cash, the thread ends and nothing
  starts a grid again.
- *A SOCKS5 reply with a host of less than three letters* blocks the handshake, which
  has asked for ten bytes (`handshake.hpp:393`), until the connection's timeout.
  `ReadsWhatComes` and `HandshakeEnds` except exactly this reply (`ShortName`);
  without the exception `connection` shows the handshake waiting.
- *The parser of the proxy setting* accepts an empty query or fragment behind some
  forms of a host and refuses it behind others (`[::9]#`, but not `a@[::9]#`,
  `uri.ipp:385`); looks neither at the last character of a port behind user
  information (`uri.ipp:504`) nor at the last one of an IPv6 host; takes every
  letter for a hexadecimal digit (`char_type.hpp:37`), while the model has only
  letters that are; and stores a
  ninth part of an IPv6 host before it counts (`host.hpp:101`). `WellFormed` has
  no such settings.

One more disagreement needs no model: `setting.conf.in` names the proxy key
`socks5_proxy`, `main.cpp:84` reads `socks_proxy`. And `socks4_op` needs the host
as an IPv4 literal (`handshake.hpp:102`) while the sessions hand it a name, so
that a SOCKS4 proxy never works; in the model this is `literal`.

### Bounds

A grid with `grid_count` 2 has three levels: two long and two short chains that
overlap on the middle one, an armed and an unarmed level on each side, and
both edges. `grid_count` 1 is the grid without neighbours, 0 the refused option.
Two fills are a round trip of a chain; what a pass finds filled at once is answered
in one or two batches of 2. One broken connection is enough to have a
query, a lost push and a resent request; with the second one a query races the
login after it. Two generations are a closeout and the grid after it. A busy answer
splits a batch and has it sent again while a round trip and a refusal cross it; one
refusal is an order, a cancel, a market order or a whole request.
`system_busy` has one generation, so that the grid is closed out
but not rebuilt; `system_orderly` has the grid after it. One command has to get past
logins, subscriptions and its own copies; that any number of commands keep apart is
proved. With `MaxPile` at 3 a session can start behind the
logins of two lost connections and a refusal; `MaxRuns` at 2 tells a
command carried out again from one that was not. The run
`grid` reports only the two statuses that decide what a pass does, at any time
and for any order; the exchange of the `system` runs pushes Live, Filled and
Canceled, with `MaxPartials` above 0 PartiallyFilled too, and the proofs hold for
every set of reports. The settings of `connection` are every combination of five user
informations, five hosts, three ports and five endings, all texts of up to four
of eight symbols behind a scheme, and a few odd ones, so that every state of the
parser meets every kind of symbol; no number in them exceeds the nine digits for
which `Decimal` is exact. All bounds are constants in guards. Where they stop a model for good the
configuration says `CHECK_DEADLOCK FALSE`: fills, breaks and commands of the user
run out, sessions and handshakes end.

### Fairness

Threads that can take a step take one (weak fairness of each thread's work): the
operating system runs them and no region under a lock blocks. The exchange serves
what arrives. A query that is repeated every 30 seconds gets through at last
(strong fairness of its success). Connections are made again because `run` tries
every second. Nothing is assumed of fills, of breaks, or of the user. In
`Channel` the threads of `main` and of `run` are scheduled and the exchange serves
what it gets; spurious wakeups may come but need not. In `Connection` both threads
are scheduled and the proxy answers what it was asked (`HandshakeEnds` rests on
that, for it claims an end without the timeout); nothing else on the network owes
anything, the caller gets its verdict through its timeout (`WaitEnds`), and
losing the connection is always possible but never needed.

## Proofs

All eight proof modules are checked to the last leaf.

**Grid strategy**, for all `GridCounts`, `InitSpan`, `Reports` and bounds.
`OneOrderPerChain` is not inductive: a pass arms a level when `init_ordered` is
off, so that it must be known that a chain with an order has it on
(`OutstandingIsInited`); a counter order goes one level on, so that it must be
known which level an order rests on and that the level has an amount
(`OrdersOnLevel`); and that needs the size of the ladder to be what the option
asks for (`SizeFits`). Their conjunction with the type invariant is `GridInv`.
The lemmas show, region by region, that it is preserved (`StartGridKeeps`,
`SetStatusKeeps`, `UpdateGridKeeps`, `GiveUpKeeps`, ...), after four about the
layout: the ladder is longer than one side (`LevelCountBounds`), the levels that
are ordered at once have amounts, the neighbour of a chain's order is in the grid
(`CounterLevelInGrid`, which is where a grid of one order a side is left out).
From it follow `NoDoubleOrder`, `LevelsRespected`, `EveryFillAnswered`, and, with
a simulation of every region by a step of `GridChains` or by none,
`ImplementsChains`.

**Threads to strategy**, for all bounds, batches and queries. Every step of the
system leaves the grid alone or is a region of `GridStrategy` in circumstances
that module allows (`ThreadsKeepToStrategy`). What has to be known for it is that
the rebuild after a closeout starts a grid with an option that was asked for
(`OptionIsMeant`). So every theorem about the grid is one about the system;
`SystemBuysOnce` restates the most important one. `SysTypeCorrect` gives the
shape of the state.

**Answers and fills**: `NoAnswerBeforeItsFill` is `AnswerAfterWholeFill`. It is
far from inductive: that an order exists only after the fill it answers depends
on what every thread has still to do and on every message under way. `FillInv`
goes through the places a name can be in: on the grid (`GridHolds`: an order that
is marked filled is filled, and one that answers has its opener filled), in what
a thread is to mark or to send (`ThreadsHold`), in a push or an answer
(`InboxHolds`), in a request (`WireHolds`), on the exchange (`ExchangeHolds`). The
invariant is that all of it holds as long as no order has been filled in part;
each action moves a name from one place to another, and what is filled stays so.

**Orders and positions**, for all bounds, batches and queries: what a closeout,
a busy exchange, a refusal, a lost connection and any number of passes do to the
orders on the exchange, in any order. `NoOrderIsLost` (`OrdersTracked`),
`NoOrderIsAwaitedInVain` (`OrdersExist`), `NothingIsClosedTwice`
(`CloseAfterCancel`), `NoPositionIsLeft` (`PositionsCovered`, where a grid of one
order a side is left out, which has no level for the order that closes a
position), and `CloseoutsCancelAll`: `ClosedOut` holds whenever no order rests on
the exchange that a closeout overtook or that was filled in part. Refusals of
orders, cancels and market orders are in what is proved, with the exceptions listed
above (`unheeded`, `stranded`). None of them is inductive, and they share
most of what they need, so that one invariant proves all. It follows one name at
a time:

- no name that is in use anywhere is ahead of the grid (`Fresh`), so that the
  names of new orders are new and nothing that is still under way is about them;
- until the exchange has taken it, its order is at one place: with a thread, in
  one request, or in one answer (`Apart`, `Untaken`), which is what makes a busy
  answer and the batch that is sent again after it harmless;
- what the grid is told of a fill is true when it acts on it, and a push of a
  cancel is about no order it still has (`MarksTrue`); what a refusal names is
  marked by the time it has been read through (`RefusalsHeard`); and no order is
  placed behind its own cancel but a forgotten or an overtaken one
  (`CancelsLast`), which is where the order of the wire comes in;
- with these, what rests is known (`Tracked`), what is known rests or is under
  way (`Awaited`), what is being cancelled is off the grid (`CancelsDropped`), and
  a refused order is nowhere, unless it is sent again (`RefusedGone`);
- the orders that a closeout's task holds are gone or have a cancel before them
  (`TasksHold`), for as long as a callback keeps the task;
- the opener of an exit and the exit of an opener are cared for in turn
  (`Turns`, `ExitsCovered`, `Covered`).

`OrderInv` is the conjunction of all but `Fresh`, which is kept beside it. A step
of the system is first reduced to what it does to these places (a pass grows the
grid, a mark changes one status, a batch is posted, a message is popped, ...:
`PassKind`, `SendKind`, `ServeKind`, `ConsoleKind`, ...), then each such change
keeps the invariant (`GrowKeeps`, `RemarkKeeps`, `ClearKeeps`, `SendKeeps`,
`PlaceKeeps`, ...). `Spreads` says that a step brings up no name but
those of the orders on the grid, from which `Fresh` is kept. The theorems assume
that a push may report every status (`Reports = Statuses`), which it may.

**Channel**, for all commands, numbers of lost connections, of busy answers, of
refusals and of requests left over. `Conserved` alone is nearly inductive: a
callback that runs belongs to a request that is waited for, so the command is
nowhere else (`OnePlace`). The rest of `ChannelInv` is about the exchange's side: in a session
a command is under way no more often than it is waited for (`UnderWay`, which
`Connect` restores by dropping the answers of the last session and sending again
what is waited for, and nothing else); so what is carried out was handed over and
what is answered was carried out (`Carried`). Both together make every step of a
channel a step of one command in `Requests`, or none. That a command is not carried
out a second time (`NothingTwice`, by `OnceInv`) needs the order on the wire: what is sent again
stands before the login of its session, and no login is among it unless
`loginAgain` says so, so that the exchange turns a command it has carried out
away. `LoginFirst` says that before
the login nothing that could bring the first push exists anywhere: no subscription
in any queue and no push on its way. The lemmas before that count: what appending,
taking the head and removing at a place does to the number of occurrences, and
that a retry or a callback concerns the request an answer belongs to
(`HandleCounts`). `EachInOnePlace`, `NoStrayAnswer`, `NobodyBeforeLogin`,
`NothingTwice`, `ImplementsRequests`.

**Queue**, for all sets of threads. A sleeper beside a value is possible only
between a push's release of the mutex and its `notify_all`; that nobody sleeps
on a closed queue needs `abort` to wake under the mutex. `WakeupsReachSleepers`
and `ImplementsFifo`.

**SOCKS**, for names of all lengths (`DomainLengths \subseteq 0 .. 255`, one byte).
The invariant ties what a pending read needs to what the server has sent at each
step: ten bytes of every SOCKS5 reply but a short name's, then exactly the rest.
`StreamLeftClean`, `OnlyIfGranted`, `NoEndlessRead`. The last one says what the code
keeps, that no other read waits in vain.

**Sessions**, for all settings, kinds and numbers of messages.
The invariant has the handshake's while one is under way, and an idle operation
outside of it, whatever bytes are left in the stream (`OperationInv`); and it ties
the verdict to the place in the chain, the caller's use of a session to the
verdict, and the flag of a read to a read that is posted or whose handler has not
lowered it yet (`VerdictInv`). The handshake's own lemma `StepKeeps` is used as it
stands. `ProxyLeftClean`, `NoEndlessWait`, `EndsInOneVerdict`,
`NoUseBeforeConnected`, `ReadsDoNotOverlap`.

**The setting**, for all texts: `ParseWritten` says that the parser accepts every
setting of the usual form, of any length, with the parts that stand in it, and
`SettingsAreRead` (`SettingRead`) that a session so reads it. A form is a statement
about a whole text and the parser sees one symbol at a time, so the proof has two
halves that meet at four places of a text, the ends of the user information's name,
of the user information, of the host and of the port.

- The form: a well formed text has such places, with the symbols between them that
  `Laid` says, and `AsWritten` is what stands between them (`AuthorityIs`,
  `SomeInfoIs`, `ServerIs`, `LaidOut`). The hosts of the usual form are those the code
  does not refuse (`GoodNameAccepted`, `GoodIpv6Accepted`), which needs that the parts
  between separators are what they should be (`PartsHave`, by counting the
  separators up to each).
- The parser: what it knows at each place. Up to the first "@" it cannot tell user
  information from a server. `InInfo`, `InAddress` and `ServerEnds` say what the
  probe, the brackets and the beginnings it keeps are in either case; a symbol keeps
  each of them (`InfoStep`, `AddressStep`, `PortProbed`), and at the place behind it
  what was kept is the part that stands there (`InfoRead`, `NameRead`, `AddressRead`,
  `BareNameRead`, `BareAddressRead`, `PortRead`, `RestRead`).

The induction theorems of the library take an operator, which the provers cannot
instantiate. `NatSetInduction` and `RangeInduction` are induction over a set of
numbers instead, from the least element of what is outside of the set, and with them
`RunIs`: the recursive function `Run` exists, and takes one turn of the loop for
each symbol. Assumed of `Settings` is only that they are sequences of symbols.

Only model-checked: `ClosedOut` without a condition, which is no theorem about
every value of the constants, because a closeout may overtake a send and leaves
what is filled in part (above); and every liveness property (progress under
fairness and ENABLED are beyond the prover).

## Not modelled

The table of components in `PROJECT.json` says why. In short: prices, amounts and
cash beyond what the control flow reads; the content of JSON; the code of the URI
library that nobody calls (`encode`, `decode`, the query object); the content of
the tables the pushes fill, and what `show` prints of them; the content of a
session's read buffer, which the handler of a read takes and clears after it has
lowered the flag (`ws_session.cpp:202`), and reads that outlive their session; a
link that dies without an error; cryptography, logging and formatting.

## Plan

Done: the grid, the threads around it, the channels, the queue, sessions,
handshakes and the parser of their setting, with the proofs above.

Left, in this order:

1. `Session`: the content of the read buffer, and the handler that outlives its
   session; composition with `Channel`, whose lost connections would then be the
   session's.
2. `GridSystem` with `Channel` in place of its abstract wire, to see what the
   login loop does to the grid.
3. The tables of account and positions (`command.cpp`), once a property needs
   what is in them.

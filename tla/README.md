# paper.fun, modelled in TLA+

paper.fun is a paper-trading application: users log in with a Solana wallet,
get a play account, and buy and sell SOL at live prices. It is a TypeScript
monorepo: an HTTP API, a WebSocket server, two workers and a web client, around
PostgreSQL (through Prisma) and Redis. This directory holds models of its
concurrent parts, the TLC runs that check them and the theorems TLAPS proves
about them. Paths below are relative to the repository.

    tlc -workers 2 -config OrderExecution.cfg MCOrderExecution
    tlapm OrderExecutionProofs.tla

Every run's module and properties are in `PROJECT.json`, which also says which
lines each definition models (`map`), which change of the model each property
notices (`mutants`), and what is hard to test in this code (`hazards`).

## 1. Inventory

| Part | State | Operations | What is hard | What makes it correct |
|---|---|---|---|---|
| `packages/trading` `placeOrder` | tables balances, positions, orders, trades; row locks | one interactive transaction per order | concurrent orders of one user, failing statements, rounding to DECIMAL(20,8) | orders behave as if executed one at a time or not at all; no overdraft; the two records of a holding agree |
| `packages/trading` `initPortfolio`, `packages/auth` `createOrGetUser` | users, balances, positions; advisory lock | upsert, check, insert rows | logins racing for one new wallet, dying half way | an account is opened once and whole |
| `packages/auth` `session.ts` | sessions row, Redis key with a time to live | create, validate, revoke | two stores without a common transaction, cache refill against logout, eviction, clock | a revoked or expired session is refused, a good one is not, unless a store fails in the very call |
| `packages/auth` `nonce.ts`, `signature.ts`; `controllers/auth.ts` | Redis key per nonce | generate, consume, login, logout | EXISTS and DEL are two calls, the signature comes after them; logout takes its token from elsewhere than its session | a session comes from the wallet's own nonce, and a spent nonce is good for nothing; logout ends the session |
| `apps/api` `controllers/orders.ts` | none of its own; Redis channels | price, order, fill event, portfolio event, answer | several requests of a user at once, failure after the commit | events tell what happened, in order, and so do the answers but for one: after an error the order may be executed or not |
| `packages/pricing` `setPrice`/`getPrice`, `workers/price-ingestion` | a pair of Redis keys per symbol | fetch and store every 10 s; read | torn reads, staleness, a loop that must go on | no order at a price older than the threshold, none refused without cause |
| `packages/pricing/candles.ts`, `workers/candle-aggregation` | the open candle in Redis, closed ones in Postgres | one step per price | listeners that overlap, restarts, lost cache | a closed candle is the aggregate of its minute and final |
| `apps/ws` | sockets with userId, subscriptions, isAlive | auth, subscribe, heartbeat, broadcast | asynchronous handlers on one socket, half-open connections | private channels reach their user and nobody else; dead sockets go |
| `apps/web` `useWebSocket` | the socket, wanted channels, attempts | connect, reconnect, resubscribe | reconnection against user actions | the page gets what it asked for |
| `apps/web` wallet, login, stores, order form, API client | wallet, token, balances, positions, orders, spinner; calls under way | login, load, order, refresh, logout, pushes | answers that come late, out of order, for somebody else, or not at all | a page at rest shows the account as it is, and comes to rest |
| `apps/web` `price-chart.tsx`, `api/market/candles/route.ts`; `controllers/candles.ts` | history, chart, timer, request; the route's cache | fetch, retry, draw, change of type, unmount | two reads for one answer, clocks that differ, failures that look like empty answers, late answers | bars in order, chart and history alike, no empty chart for ever, nothing after unmounting |
| `controllers/market.ts` | none of its own | three ways to ask for prices | torn reads | no stale price, and each with its own age |
| `apps/api` `rateLimit.ts` | a sorted set per client | admit or refuse, fail open | window boundaries, what is counted when | `maxRequests` per window (the code lets in one more), nobody refused without cause |
| schema, `packages/{db,redis,env,utils,ui,...}` | – | – | – | – |

The parts interact in four ways. The API and the WebSocket server call
`@repo/auth`, `@repo/trading` and `@repo/pricing` in process; these share the
database and Redis, where any number of calls interleave at every `await`. The
API and the workers publish events on Redis channels; the WebSocket server and
the candle worker subscribe to them (fire and forget, no replay). The browser
talks to the API over HTTP and to the WebSocket server over a connection that
can break. Node runs one handler at a time between two awaits, so an await is
the unit of interleaving in every module here.

## 2. Modules

| Module | Models | State and actions |
|---|---|---|
| `TradingStore` | rows and arithmetic of the trading tables | no state; amounts are naturals of a fine unit, `Numeric` rounds to the column |
| `Ledger` | what the tables promise | the four tables; `OpenAccount` and `Execute`, each one step |
| `OrderExecution` | `placeOrder` | the tables, `rowLock`, and per request its arguments, its `staged` values and its `pc`; one action per locking statement, check, group of writes, commit and rollback |
| `AccountSetup` | `createOrGetUser` and `initPortfolio` | the tables, `users`, the advisory locks, the rows each transaction has inserted; one action per statement; orders as `Ledger` steps |
| `RateLimiter` | `createRateLimiter` | the clock, the sorted set of each client as a set of records, and the verdicts so far; the MULTI is one action |
| `AuthRequests` | the auth router: limiter, validation, nonce, login, logout | extends `RateLimiter` with the keys of the nonces, the valid sessions, and per request its input, `pc` and answer; one action per await |
| `Sessions` | `session.ts` | the row, the ticks until `expiresAt`, the ticks until the key is gone, one `pc` per call; one action per call of a store |
| `OrderHandler` | `placeOrderHandler` | the orders executed, the events published, what each handler's queries saw; one action per await |
| `CandleWorker` | the listener and `processPriceTick` | the prices, the candle each handler holds, the commands that wait for their reply, the cached candle, the rows; one action per reply of Redis or statement |
| `WsGateway` | `apps/ws` and `useWebSocket` | the page (token, wanted channels, link, attempts) and per connection the server's socket |
| `Browser` | wallet, login, initial load, order form, stores and pushes of the trade page, with the calls of the API client | what the page holds, the calls under way, and of the server the orders executed, those of them whose handler has still to publish, whose the socket is, and the pushes on their way; a call is served in one action and answered in a later one |
| `PriceChart` | `price-chart.tsx`, the route it fetches from and the candles endpoint | the rows and the live candle, the route's cache, the request, and the component's state; one action per await, timer or effect |
| `PriceFeed` | `workers/price-ingestion`, `setPrice`, `getPrice`, `getPriceWithMetadata` and the endpoints of `market.ts` | the loop, the pair of keys and one call, each price by its age; one action per await or Redis command |
| `MCOrderExecution`, `MCAccountSetup`, `MCAuthRequests` | – | the constants of the runs, and symmetry |
| `TradingStoreProofs` | – | lemmas: the arithmetic of the rows, and sums over finite sets |
| `OrderExecutionProofs`, `AccountSetupProofs`, `OrderHandlerProofs`, `WsGatewayProofs` | – | the theorems of these modules |
| `AuthProofs` | – | the theorems of `AuthRequests`, `RateLimiter` and `Sessions` |
| `PricingProofs` | – | the theorems of `CandleWorker` and `PriceFeed` |
| `WebProofs` | – | the theorems of `Browser` and `PriceChart` |

Composition. `OrderExecution` and `AccountSetup` each instantiate `Ledger` and
implement it (`RefinesLedger`). `OrderExecution` takes `OpenAccount` as one
step, which `AccountSetup` justifies; `AccountSetup` and `OrderHandler` take an
order as one step or nothing, which `OrderExecution` justifies; `OrderHandler`
takes either outcome of `getPrice` at any time, and `PriceFeed` says when which
one comes. `AuthRequests` has the limiter in front of it, and takes
`createOrGetUser` and `createSession` as one step each, which `AccountSetup` and
`Sessions` look into. `Browser` takes an order as two steps, the commit and the
publication of a portfolio, the second of which may fail, come late, or come
after that of a later order; the awaits of the handler are in `OrderHandler`, and
how the socket gets its user is in `WsGateway`. `PriceChart` takes the candle worker's two writes as
one step each; that its minutes can also be disturbed is in `CandleWorker`.

Choices worth knowing when reading the modules next to the code:

* **Transactions.** Prisma's default is READ COMMITTED. Nobody sees a
  transaction's writes before it commits, so `OrderExecution` keeps them in
  `staged`, per request, and `Commit` writes them. Consecutive statements that
  write rows nobody else can see or lock are one action (`RecordFill`: order,
  trade and both balances). A transaction that dies anywhere is `Rollback`.
* **Locks.** `Lockable` is `FOR UPDATE`. When the base row does not exist the
  transaction creates it, and its unique key keeps everybody else out until the
  end, so creating it also takes the lock.
* **Numbers.** decimal.js has 20 significant digits, a column 8 decimals. The
  model's unit divides both; `Quantum` is the column's unit in it. Postgres
  rounds to nearest. Prices are stored exactly. Products are not cut off at 20
  digits, which happens in the code for amounts beyond 10^11 only.
* **Time** in `Sessions` is a number of ticks of several hours, so no tick
  passes between the two writes of `createSession` (`SessionTick` is disabled there):
  row and key start with the same lifetime. A validation may take any time.
* **Redis** runs one command at a time. All commands of the candle worker go
  through one connection: they are executed, and answered, in the order they
  are sent. So in `CandleWorker` a command has its effect in the step that sends
  it, and its handler goes on when its reply is the next one (`Replied`): GET is
  sent when the price arrives, SET on the reply to GET or when the upsert is done,
  PUBLISH on the reply to SET. Handlers overlap between these steps, and while an
  upsert is under way, for Postgres answers in any order.
* **Failures that look like answers.** `validateSession` answers `{ valid: false }`
  when a store fails (`session.ts:109-112`), as it does for a bad token, and
  `Sessions` does the same; the history variable `broken` tells the two apart for
  the property only. The catch block of `placeOrderHandler` answers
  `{ success: false }` whatever failed (`controllers/orders.ts:101-125`), so an
  order that is executed may be answered 400, and announced in part or not at
  all: `Fail` in `OrderHandler`, `PublishFails` in `Browser`.
* **Prices** in `PriceFeed` are their ages, counted from the `new Date()` of
  `setPrice`; ages beyond the threshold are one age. A MULTI is one step, two
  GETs sent together are two. When Redis restarts, commands that were sent and
  not answered fail and those not sent yet wait: node-redis rejects the former
  and queues the latter, so `Store` may come late and `Publish` may not come at
  all. What was announced before a restart that lost the stored price is not
  held against the price served after it.
* **Sockets.** A message is handled in the order it came, up to the handler's
  first await. `Lose` breaks the connection at the page; the server learns of
  it from a close event (`NoticeClose`) if one arrives, or from its heartbeat.
  The page's messages that change nothing at the server (ping) and the
  server's pushes are left out. A page logs in at most once and stays mounted.
* **Accounts** in `Browser` are the number of orders executed: order n of a user
  leads to portfolio n. Whose portfolio it is matters, because nothing ties an
  answer or a push to the user who is logged in when it comes. A reload of the
  page, after which the stored token starts a load, is left out: it is a login
  without the call. Disconnecting the wallet may reject
  (`wallet-connect.tsx:65-70`): then nothing is cleared and logout is not called,
  which is no step here, or `LoseWallet`; `DisconnectLogsOut` is about the case
  in which logout is called.
* **The limiter** is one Redis, asked by one API process, which sends its
  MULTIs in the order in which the requests read the clock.
* **Minutes** are the unit of time in `PriceChart`. A fetched candle has one
  price; how a candle gets its values is in `CandleWorker`. The chart library
  is modelled by what `setData` and `update` do with ordered data, and the
  property `ChartInOrder` says that it gets no other. `useEffect` bodies run in
  one step with the change that triggers them: React runs the chart's effect
  before the price's, which is the order in the file.

## 3. Runs

`CHECK_DEADLOCK FALSE` is set where the system really stops: a session whose
creation failed (`Sessions`), a page that has used up its attempts
(`WsGateway`), requests that have all been answered (`AuthRequests`), and where
the bounds end (`Browser`, `PriceChart`). The other modules say explicitly when
nothing is left to do (`Quiescent`), so that anything else that cannot move is
reported. The type invariant of a module is a conjunct of one of its safety
invariants, whose comment says so.

| Run | Distinct states | What it shows |
|---|---|---|
| `OrderExecution` | 59 598 | three requests, two users, purchases that use the whole account, sales that leave less than a column holds, an asset without rows: locks exclude lost updates, funds never go negative, balances and positions agree, the trades explain the balances, the cost basis is a price that was paid, and all of it implements `Ledger`; every request is answered |
| `AccountSetup` | 12 386 | three logins given to two wallets in every way, two orders: accounts are opened once and whole, no unique key is violated, trading is never overwritten, every login is answered |
| `AuthRequests` | 727 919 | three requests with any input that makes sense, in any overlap, with failures: no window has more than one request above `maxRequests` let in, whoever is refused has made more than `maxRequests`, and a session comes from a nonce of the same wallet that no answered login has used |
| `Sessions` | 15 138 | two validations, two logouts, lifetime two: whoever is refused holds a revoked or expired session, or met a store that failed in that very call; a revoked or expired session is over in the end, stays over, and is refused by whoever asks then |
| `OrderHandler` | 491 448 | three requests of one user that fail anywhere: no order is executed or announced twice, none is announced that was not executed; "filled" means executed and both events published in order, a refused order was not executed; a published portfolio includes its own order; when all went well, one of them is current |
| `CandleWorker` | 975 071 | four prices, two values, three minutes, three handlers at once: a candle has prices of its own minute only, and complete means stored; without overlap or failure candles are exact; without overlap a restart changes no row |
| `PriceChart` | 564 221 | four minutes, a history of two candles, a clock that may be one minute off: bars in order, chart and history alike, nothing after unmounting, and no endless empty chart |
| `PriceFeed` | 177 223 | a worker that fails and restarts, Redis that restarts from a snapshot or empty: a price past the threshold, or with an age not its own, is served only if a new one is stored between the two GETs of the call; a good price is not refused; nobody gets a price older than the one announced; the loop goes on |
| `WsGateway` | 60 704 | one user, one public and one private channel, two connections, one attempt: after reconnections the public channels are what the page wants; a private channel needs a user; a lost connection is terminated |
| `Browser` | 1 063 737 | two users, two orders, two loads, two calls under way, orders of one user placed elsewhere, orders executed and not published: a page at rest shows its user's current portfolio and each order once, except after the losses and overtakings the model records (`behind`, `crossed`); the form and the logout end |

`behind` and `crossed` deserve a word, because they say what `SettledIsCurrent`
and `OrdersListedOnce` do not promise. The page is `behind` when

* an executed order of its user was not published, because the handler failed
  between the commit and the event (`PublishFails`: the order form may show an
  error, and the old portfolio), or was published while the socket was not
  authenticated as that user (`Missed`);
* the initial load failed, or a push was lost with the connection;
* an answer or a push came after a newer one, or was another user's (`Overtaken`).

An answer or push that shows the current account ends it, and a new login ends it,
for its load asks for everything; before a login and after a logout nothing is
said of the page. A refresh that fails after an order is no excuse: the
push of that order makes up for it, and `SettledIsCurrent` says so. Each of
these is a state the code reaches and does not repair: a page that was
disconnected while an order was executed stays behind until the next order,
push or reload. The list of orders is `crossed` when a load and an order were
under way at the same time, when an order was placed elsewhere, when the answer
of an order or a load was lost, or came for another user.

Two runs show a disagreement between the code and what a comment or a document
says (`findings` in `PROJECT.json`):

| Run | Counterexample |
|---|---|
| `OverTheLimit` | one request is allowed in a window, and two are let in: the limiter compares the number of requests before the current one by `>` (`rateLimit.ts:63`), against "Max requests per window" (`:13`) and "10 requests per minute per IP" (`:111`) |
| `LogoutKeepsSession` | nonce, login, and a logout with the token in the header only, which is what the web client sends: the handler looks for it in the body, answers with an error, and the session stays valid |

More came up and have no run of their own.

* A session: `validateSession` reads the row, a logout updates it and deletes the
  key, `validateSession` sets the key: valid again for up to 24 hours. In the
  same way a key that is refilled just before `expiresAt` outlives the session
  by as much (`session.ts:97-107`). `Over` in `Sessions` is written around both.
* Two logins under way with one nonce can both succeed (`nonce.ts:43-46`).
* A good session is answered 401 when Redis or Postgres fails while it is looked
  up (`session.ts:109-112`).
* An order can be executed and answered `{ success: false }`, with no event for it
  (`controllers/orders.ts:101-125`).
* The subscriber does not await its listener (`subscriber.ts:20`). A price that
  arrives while the last one of the old minute has its GET answered and its SET
  not yet sent, and a second one that arrives while the first awaits the upsert,
  close that minute twice: the candle is announced as complete, and its row then
  gets another high, low and close (never another open: the update leaves it,
  `candles.ts:117-123`). Prices come ten seconds apart, so it takes a stall of
  Redis or Postgres. `RowsAreFinal` is about prices that come one at a time.
* Two requests of one user can publish their portfolios in the wrong order, and
  the browser keeps the older one (`controllers/orders.ts:78`).
* A subscription sent right after auth is handled while auth awaits the session,
  and refused (`handlers/connection.ts:19`), against `docs/event-system.md:227`.
* `orders.ts:242` asks whether the new size is zero before the column rounds it,
  so a sale that leaves less than half of 1e-8 stores size 0 and keeps the
  average price that `orders.ts:241` says is reset.
* `getPrice.ts:31` calls its two GETs atomic; `PriceFeed` has the state in which a
  price past the threshold is served on account of the next one's time (`torn`).
* `workers/price-ingestion/README.md:142` puts the threshold at 30 seconds, the
  constant is five minutes.
* A page that unmounts closes its socket, and `onclose` schedules another
  connection (`useWebSocket.ts:183`).
* `withTimeout` of the health check resolves to nothing, so the endpoint reports
  503 whatever it found (`apps/api/src/index.ts:28`); `hasPriceAvailable` never
  returns true (`getPrice.ts:99`).

### Bounds, and why they are enough

* `OrderExecution`: two requests of one user are what it takes to interfere, a
  third one shows a different user or asset, or a second interference; the six
  calls of `MCCalls` are chosen so that any two purchases exhaust the account,
  so that rounding happens in both directions, and so that an asset without
  rows is bought first. The theorems remove these bounds, for every property
  but `EveryRequestAnswered`.
* `AccountSetup`: two racing logins and a third after one of them died. All safety
  properties are theorems.
* `Sessions`: the refill race needs one validation and one logout; the second
  of each shows that a retry, or another device, changes nothing. `Lifetime`
  2 distinguishes fresh, old and over. Three of the properties are theorems.
* `AuthRequests`: nonce, login and another login or a logout are three requests;
  `Window` 2 over times 0 to 2 makes an entry leave the window while a request is
  under way, and `MaxRequests` 1 makes the third request the first that can be
  refused. Two wallets and one nonce show that a nonce belongs to its wallet.
  `LogoutKeepsSession` needs no clock and one wallet, `OverTheLimit` one client.
  The three properties of `AuthRequests` are theorems, for any number of requests, clients, wallets and nonces.
* `OrderHandler`: out-of-order publishing needs two handlers; three show that
  the first and last are no special case. All three properties are theorems.
* `CandleWorker`: `MaxBucket` 2 gives a minute before, between and after, and
  allows one without prices; `MaxTicks` 4 gives two prices in a minute and a
  crossing on both sides; `MaxInFlight` 3 is what it takes for a price of the old
  minute and two of the new one to overlap. All three
  properties are theorems, for any number of prices, minutes and handlers.
* `PriceFeed`: `Threshold` 2 and `Interval` 1 distinguish young, ageing and old,
  and let a round be missed before a price is old. Calls change nothing, so one
  is as good as many. The theorems remove both bounds.
* `PriceChart`: `MaxHistory` 2 stands for 1000, so that query, `slice` and `shift`
  all cut; four minutes fill it and push one out; two prices tell high from low.
  The safety properties are theorems for any history and any clock.
* `Browser`: two users are needed for data that comes for the wrong one, two
  loads for a second login, two orders for a push that overtakes an answer, and
  two calls under way for any overlap. `Elsewhere` is one of the two users: what
  a second tab does for one user it does for the other. Both safety properties are theorems: a
  push that is handled for a user who is not logged in any more takes three
  loads to show, which this run does not reach and the proof does.
* `WsGateway`: `MaxSockets` 2 is one reconnection; `MaxAttempts` 1 lets the page
  both retry and give up; `MaxInbox` 1 only bounds what a page sends while
  something is on its way (what it sends on opening is not bounded by it). Both
  safety properties are theorems, for any bounds.

### Fairness, and why the code justifies it

* `OrderExecution`: weak fairness of each request's own steps: Node runs a
  handler whose statement has returned, Postgres runs a statement that waits
  for nobody. Weak is enough because the second lock of a transaction is never
  contested (`LocksHeldToTheEnd`), and while the first is, every other holder
  ends. Prisma's transaction timeout is not needed for progress. With three
  requests a waiter cannot starve because each request runs once; Postgres
  also queues the waiters of a row.
* `AccountSetup`: the same, for a login that has begun. `Fail` has no fairness:
  nothing obliges a failure to happen.
* `Sessions`: calls that were made go on, and time passes.
* `PriceFeed`: Docker starts the worker again (`restart: unless-stopped`), a round
  ends well or not (`fetch` gives up by itself), and time passes. That a round
  ever goes well is not assumed.
* `PriceChart`: timers fire, an answer that is there is handled, and the API and
  the request do not fail at every attempt (strong fairness of their success);
  the component is not assumed to stay, nor the worker to run: `HistoryArrives`
  speaks of the case that there is a live candle from some time on.
* `Browser`: a call to place, refresh or log out ends, by its answer or by the
  ten seconds of the API client. Nothing is assumed of the server or the user.
* `WsGateway`: the timer fires and handlers run. Neither the page nor the
  network is assumed to do anything.

## 4. Theorems

Every safety property that a run checks is also proved by TLAPS, for every value
of the constants that satisfies the assumptions of the modules
(`AssetAssumption`, `AmountAssumption`, `UnitAssumption`, `NoRowAssumption`,
`RequestAssumption`, `LoginAssumption`; `LifetimeAssumption`;
`LimiterAssumption`, `AuthAssumption`; `BoundAssumption`, `FeedAssumption`;
`ChannelAssumption`; `BrowserAssumption`, `ChartAssumption`), which TLC evaluates
in every run. They say that a new account holds no base asset, that sizes, prices
and divisors are positive, that the unit is fine enough for the fee, that the
markers for "no row", "no transaction", "no candle" and "nobody" are not values,
that no channel is both public and private, that windows, lives and the length of
a history are positive, and that the bounds are natural numbers, of any size.

`OrderExecutionProofs`: `IInv` is inductive (`Invariance`). `NoOverdraft` and
`HoldingsAgree`, which are what one wants, are not inductive alone: the amount
a commit writes was computed several steps before. `NothingStaleIsUsed` carries
it from the read to the commit: what a transaction has staged is its order
applied to the rows *as they are now*. That is kept because of two things:
`LocksHeldToTheEnd` (who is in a transaction holds the lock of the user's quote
row, so two transactions never belong to one user, `OneTransactionPerUser`) and
the fact that a commit and `OpenAccount` touch rows of one user only
(`CommitIsLocal`, `OpenIsLocal`). `AccountsInUseAreOpen` keeps `OpenAccount`
away from accounts in use. The arithmetic needed is small: the check makes both
new balances natural numbers, rounding a natural number gives a natural number,
and a balance and a position move by the same amount. From `IInv` follow the
theorems `TypeCorrect`, `NeverOverdrawn`, `HoldingsAlwaysAgree`, `NoLostUpdate`,
`LockDiscipline` and, with `OrdersWereFilled`, `Refinement`: `OrderExecution`
implements `Ledger`; `Commit` and `OpenAccount` are its steps, everything else
stutters.

Two properties are about the whole past of an account and have invariants of their
own beside `IInv`. `CostBasisIsPaid`: the position after a trade stays between the
two prices its average was between before, and the price of the trade
(`PositionWithin`); that rounding a quotient does not leave whole bounds
(`RoundedQuotientWithin`) is what makes it true, and that a sale needs a holding.
`BalancesExplained`: a trade is the trace of a filled request, so what it moved is
settled when it is written (`ExactStays`), each commit adds one trade of one user
(`CommitExpected`), and each rounding at most half a unit (`NumericNear`,
`NearStep`). It needs that a sum has one more summand when its set has one more
element (`SumOfOneMore`). The sum is recursive over subsets, and a principle of
induction is not to be had (see below); a smallest subset for which a fact fails
is (`SmallestSet`), and serves as well.

`AccountSetupProofs`: what makes racing logins harmless is `LockedAndUnopened`: a
login that is in its transaction holds the advisory lock of its wallet, and as
long as it has not committed there is no balance, since nobody else can commit
one (`UnopenedStays`: another login would hold the same lock, an order needs an
account). So a commit finds no rows (`CommitWrites`), an insert never meets a key,
and `Commit` is `OpenAccount` of `Ledger`. Orders executed meanwhile keep the types
only because nothing is ever overdrawn, which `Covered` adds.

`OrderHandlerProofs`: `Untouched`, `Sees` and `Announced` say, for each place a
handler can be at, what the tables and the events have of it; an error can come at
any of them, so for it only the disjunction of all is left, and that is
what `TrueAnswers` says of it. `Sees` carries the
commit to the portfolio: a handler that has executed its order has a place in the
sequence of orders, and whatever it reads is read at that place or behind it.
`Once` (no order twice) makes "filled" mean exactly one. `CurrentShown`
(`CurrentIsPublished`) follows from the same facts: when every request is answered
and none with an error, the order executed last has been published (`BothAnnounced`), and of all portfolios
its own is the one whose queries came after every order.

`WsGatewayProofs`: `PrivateNeedsUser` is inductive with `Typed`, which says
whose token a message in an inbox can be. A user that is known stays known until
the socket goes, and then its channels go with it (`DropStep`); a subscription is
granted by the user known when it is handled, not when it was sent.
`SubscriptionsFollow` looks at what the messages under way will have done when they
are handled (`EndsWith`): a channel is asked for after it was last released, or
subscribed to and not released. `Following` says that this agrees with the page's
channels at any time, and `PublicChannelsFollow` is the case of an empty inbox.

`AuthProofs`, sessions: `SessionInv` adds `RowComesFirst` (no call before the token,
no token before the row). `DatabaseFirst` and `NoFalseRefusal` follow from it; the
latter excepts a validation in which a store failed, since its answer is the
same, and nothing else.
`OverStays` is an action property proved with it: once a session has ended, with
no key in Redis and no validation about to write one, the only way to a key is a
validation that reads the row, and the row refuses. `NoLateAnswer` rests on the
same fact: a validation that began in such a state has seen neither.

`AuthProofs`, the router: `NonceSpentOnce` says for any overlap of requests what
`SessionFromOwnNonce` says. It is a matter of three awaits: that the nonce was
fresh is found out at EXISTS, and used only when the session is opened. `IInv`
adds where a handler can be for its kind of request (`KindsFit`), that a key in
Redis and the nonce of a login were given out and that what was answered stays
so (`GivenOut`), and what a login has behind it at each step (`LoginsAdvance`):
after DEL its key is gone, and stays gone, since `MakeNonce` writes only keys of
nonces nobody was given. So a key that is there at EXISTS is no answered login's.

`AuthProofs`, the limiter: `HitsMatch` ties the sorted set to the requests of its
client: it has entries of those only, and, of those within the window, every one
that was judged. So what a MULTI counts is at most what the client has asked,
which is why nobody is refused for nothing (`NobodyRefusedForNothing`), and at
least what was let in, which is why no window has more than one too many
(`AtMostOneOver`): the last one let in was judged when the others were
counted, and a window that is not over at its time has lost none of them.

`PricingProofs`, candles: `CandleInv` follows a candle from the cache through the
handler to its row: its values are prices of its own minute (`Sound`), what a
handler holds is not newer than its price (`Sees`), and while prices come one at a
time only the last handler runs and a row that is written again is the candle
that was read (`OneAtATime`). `OwnPricesOnly` and the action property `RowsStay`
follow. `CandlesExact` adds `Undisturbed`: the cached candle is the aggregate of
the prices up to the last one handled (`Exact`, `Seen`), and each minute before
it has its row.

`PricingProofs`, prices: none of the three properties is inductive. What carries
them is that the pair in Redis is whole (`PairIsWhole`), that a call's price and
time are a pair too unless a store came between (`HeldIsPair`), that prices move
on in order (`PassedOnInOrder`), and that what a running call has or will get is
not older than what was there when it began (`NotOlderThan`, for the price in
Redis and for the one announced).

`WebProofs`, the page: "current when at rest" says nothing of the steps before, so
the invariant says what makes the page current in the end: while a user is logged
in and the page not behind, the current portfolio is shown, or in a push on its
way, or in the load's answer to come, or the newest order has still to be
published (`WillBeCurrent`, `Coming`); nothing shown or under
way is ahead of the server (`NotAhead`). In the same way the list of orders is
whole, or a load will bring it, or one order's answer is missing and the list is
whole but for it (`WillBeListed`, `AllListed`); the form sends one order at a time
(`OneOrder`), so there is never more than one missing.

`WebProofs`, the chart: the worker never looks ahead (`Chronological`), and an
answer's live candle was read after its rows and is no older than any of them
(`AnswersInOrder`), so what is fetched is in order (`FetchedInOrder`); that the rows
come out oldest first is a matter of counting (`OldestFirst`: ranks are different,
and there are as many as rows). A price then does the same to the history and to
the chart (`HistoryShown`): it changes the last bar of both, or adds one, or is
too old for both; and cutting the front off one does not change its end.
`GoneForGood` rests on `Gone`: who has gone has no timer and shows nothing.

What stays with TLC is liveness, which is out of this prover's reach:
`EveryRequestAnswered`, `EveryLoginAnswered`, `EndTakesHold`, `LostIsTerminated`,
`KeepsFetching`, `SubmitEnds`, `DisconnectLogsOut`, `HistoryArrives`. So do the two
counterexamples. Induction over data is out of reach as a rule, since its
theorems take a predicate as a parameter that no installed prover instantiates;
sums, the only recursive definitions in the models, were reached through
well-founded sets.

## 5. Not modelled

* `fills.ts` and `positions.ts`: deprecated, exported by nothing; `placeOrder`
  does what they did in its own transaction.
* Queries that nothing calls (candles by range, single orders on the page), and
  `setPrices`, `hasPriceAvailable`, `seed` functions: called by nothing in the
  running system.
* HTTP routing, headers, error formatting, configuration, logging, start and
  stop of the servers: no state. What schemas accept is abstracted to whether
  they do.
* User interface: layout, forms and tables, and the amounts they show.
* Signatures: cryptography, taken as a verdict.
* Unmounting and remounting of the page's connection (`useWebSocket.ts:183`).

## 6. Plan

In order of importance; items marked (done) are in this directory.

1. (done) `TradingStore`, `Ledger`, `OrderExecution` with its proofs.
2. (done) `AccountSetup`, `Sessions` with its proofs, `OrderHandler`,
   `CandleWorker`, `WsGateway`.
3. (done) `PriceFeed` with its proofs, and the market endpoints in it.
4. (done) `RateLimiter` and `AuthRequests`: nonce, signature, session and logout.
5. (done) `Browser`: initial load, orders, refreshes and pushes. (done)
   `PriceChart`.
6. (done) Proofs of every safety property the runs check.
7. Joined with `OrderHandler`, the age of a price when the order that waited for
   its locks is executed; unmounting in `WsGateway`.

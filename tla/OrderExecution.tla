--------------------------- MODULE OrderExecution ---------------------------
(***************************************************************************)
(* placeOrder (packages/trading/src/orders.ts): concurrent requests, each  *)
(* one interactive transaction at READ COMMITTED.  A transaction locks the *)
(* quote row, then the base row (SELECT ... FOR UPDATE), and everything it *)
(* writes is computed from what those statements returned.  Its writes are *)
(* kept in staged until Commit, because nobody else sees them before.      *)
(* Any statement may fail (connection, statement or Prisma's transaction   *)
(* timeout, process death): Rollback.                                      *)
(***************************************************************************)
EXTENDS TradingStore, Functions

CONSTANTS
  Requests,  \* the calls of placeOrder
  Calls,     \* the arguments they are made with
  NoTx

VARIABLES
  balances, positions, orders, trades,   \* the committed rows
  rowLock,   \* [<<user, asset>> |-> the request whose transaction holds it]
  request,   \* [request |-> its arguments]
  staged,    \* [request |-> what its transaction has read, then will write]
  pc

dbVars == <<balances, positions, orders, trades>>

vars == <<balances, positions, orders, trades, rowLock, request, staged, pc>>

ASSUME RequestAssumption ==
  /\ Calls \subseteq Fills
  /\ NoTx \notin Requests
  /\ NoRow \notin Fills

Staged == [quote : Int, base : Int, position : Positions]

NothingStaged == [quote |-> 0, base |-> 0, position |-> NoPosition]

InTransaction == {"base", "check", "record", "position", "commit"}

Answered == {"filled", "failed"}

TypeOK ==
  /\ balances \in [Users \X Assets -> Int \cup {NoRow}]
  /\ positions \in [Users \X BaseAssets -> Positions \cup {NoRow}]
  /\ rowLock \in [Users \X Assets -> Requests \cup {NoTx}]
  /\ request \in [Requests -> Fills \cup {NoRow}]
  /\ staged \in [Requests -> Staged]
  /\ pc \in [Requests -> {"idle", "quote"} \cup InTransaction \cup Answered]
  /\ \A r \in Requests : pc[r] # "idle" => request[r] \in Fills

-----------------------------------------------------------------------------
QuoteRow(r) == <<request[r].user, Quote>>

BaseRow(r) == <<request[r].user, request[r].base>>

\* available of a row, 0 for one the transaction has to create.
Available(row) == IF balances[row] = NoRow THEN 0 ELSE balances[row]

Position(row) == IF positions[row] = NoRow THEN NoPosition ELSE positions[row]

Goto(r, label) == pc' = [pc EXCEPT ![r] = label]

Init ==
  /\ balances = [row \in Users \X Assets |-> NoRow]
  /\ positions = [row \in Users \X BaseAssets |-> NoRow]
  /\ orders = {}
  /\ trades = {}
  /\ rowLock = [row \in Users \X Assets |-> NoTx]
  /\ request = [r \in Requests |-> NoRow]
  /\ staged = [r \in Requests |-> NothingStaged]
  /\ pc = [r \in Requests |-> "idle"]

\* initPortfolio, in one step: AccountSetup shows that it behaves as one.
OpenAccount(u) ==
  /\ \A a \in Assets : balances[<<u, a>>] = NoRow
  /\ balances' = [row \in Users \X Assets |->
                    IF row[1] = u /\ row[2] \in DOMAIN InitialBalance
                    THEN InitialBalance[row[2]] ELSE balances[row]]
  /\ positions' = [positions EXCEPT ![<<u, Sol>>] = NoPosition]
  /\ UNCHANGED <<orders, trades, rowLock, request, staged, pc>>

\* A call of placeOrder whose arguments pass validateOrderInput.
Submit(r, f) ==
  /\ pc[r] = "idle"
  /\ request' = [request EXCEPT ![r] = f]
  /\ Goto(r, "quote")
  /\ UNCHANGED <<dbVars, rowLock, staged>>

\* Variant: a plain SELECT, which waits for nobody.
PlainSelect(row) == TRUE

\* SELECT ... FOR UPDATE waits for the holder of the row.
Lockable(row) == rowLock[row] = NoTx

LockQuote(r) ==
  /\ pc[r] = "quote"
  /\ balances[QuoteRow(r)] # NoRow
  /\ Lockable(QuoteRow(r))
  /\ rowLock' = [rowLock EXCEPT ![QuoteRow(r)] = r]
  /\ staged' = [staged EXCEPT ![r].quote = balances[QuoteRow(r)]]
  /\ Goto(r, "base")
  /\ UNCHANGED <<dbVars, request>>

\* Variant: asks again until the account is there.
AskAgain(r) ==
  /\ pc[r] = "quote"
  /\ balances[QuoteRow(r)] = NoRow
  /\ UNCHANGED vars

\* "No ... balance found for user ..."
QuoteMissing(r) ==
  /\ pc[r] = "quote"
  /\ balances[QuoteRow(r)] = NoRow
  /\ Goto(r, "failed")
  /\ UNCHANGED <<dbVars, rowLock, request, staged>>

\* Locks the base row, or creates it: its unique key is then as good as a lock.
LockBase(r) ==
  /\ pc[r] = "base"
  /\ Lockable(BaseRow(r))
  /\ rowLock' = [rowLock EXCEPT ![BaseRow(r)] = r]
  /\ staged' = [staged EXCEPT ![r].base = Available(BaseRow(r))]
  /\ Goto(r, "check")
  /\ UNCHANGED <<dbVars, request>>

LocksOf(r) == {row \in Users \X Assets : rowLock[row] = r}

\* COMMIT and ROLLBACK give the row locks back; the handler's locals are gone.
EndTransaction(r) ==
  /\ rowLock' = [row \in Users \X Assets |->
                    IF row \in LocksOf(r) THEN NoTx ELSE rowLock[row]]
  /\ staged' = [staged EXCEPT ![r] = NothingStaged]

HasFunds(r) == Sufficient(request[r], staged[r].quote, staged[r].base)

CheckFunds(r) ==
  /\ pc[r] = "check"
  /\ HasFunds(r)
  /\ Goto(r, "record")
  /\ UNCHANGED <<dbVars, rowLock, request, staged>>

InsufficientFunds(r) ==
  /\ pc[r] = "check"
  /\ ~HasFunds(r)
  /\ EndTransaction(r)
  /\ Goto(r, "failed")
  /\ UNCHANGED <<dbVars, request>>

\* Variant: only the quote balance is updated.
StagedQuoteOnly(r) ==
  [staged[r] EXCEPT !.quote = QuoteAfter(request[r], @)]

StagedBalances(r) ==
  [staged[r] EXCEPT !.quote = QuoteAfter(request[r], @),
                    !.base = BaseAfter(request[r], @)]

\* orders.create, trades.create and the two balances.update.
RecordFill(r) ==
  /\ pc[r] = "record"
  /\ staged' = [staged EXCEPT ![r] = StagedBalances(r)]
  /\ Goto(r, "position")
  /\ UNCHANGED <<dbVars, rowLock, request>>

\* positions.findUnique, positions.create if there is none, positions.update.
UpdatePosition(r) ==
  /\ pc[r] = "position"
  /\ staged' = [staged EXCEPT ![r].position =
                  PositionAfter(request[r], Position(BaseRow(r)))]
  /\ Goto(r, "commit")
  /\ UNCHANGED <<dbVars, rowLock, request>>

Commit(r) ==
  /\ pc[r] = "commit"
  /\ balances' = [balances EXCEPT ![QuoteRow(r)] = staged[r].quote,
                                  ![BaseRow(r)] = staged[r].base]
  /\ positions' = [positions EXCEPT ![BaseRow(r)] = staged[r].position]
  /\ orders' = orders \cup {OrderRow(r, request[r])}
  /\ trades' = trades \cup {TradeRow(r, request[r])}
  /\ EndTransaction(r)
  /\ Goto(r, "filled")
  /\ UNCHANGED request

\* A statement or the connection fails, or the transaction times out.
Rollback(r) ==
  /\ pc[r] \in InTransaction \cup {"quote"}
  /\ EndTransaction(r)
  /\ Goto(r, "failed")
  /\ UNCHANGED <<dbVars, request>>

\* All calls have returned: nothing more to do.
Quiescent ==
  /\ \A r \in Requests : pc[r] \in Answered
  /\ UNCHANGED vars

\* What the transaction does by itself once placeOrder has been called.
Step(r) ==
  \/ LockQuote(r)
  \/ QuoteMissing(r)
  \/ LockBase(r)
  \/ CheckFunds(r)
  \/ InsufficientFunds(r)
  \/ RecordFill(r)
  \/ UpdatePosition(r)
  \/ Commit(r)

Next ==
  \/ \E u \in Users : OpenAccount(u)
  \/ \E r \in Requests, f \in Calls : Submit(r, f)
  \/ \E r \in Requests : Step(r) \/ Rollback(r)
  \/ Quiescent

Spec == Init /\ [][Next]_vars

\* The event loop and Postgres run every statement that is not waiting for a
\* lock; nothing obliges a client to call, or a failure to happen.
FairSpec == Spec /\ \A r \in Requests : WF_vars(Step(r))

-----------------------------------------------------------------------------
\* No account is overdrawn and no short position exists: the schema's
\* "available >= 0" (Balances) and "position size >= 0 (no short selling)".
\* The check is made on a value read earlier in the transaction, and on the
\* amounts before the columns round them.
NoOverdraft ==
  /\ \A row \in Users \X Assets : balances[row] # NoRow => balances[row] >= 0
  /\ \A row \in Users \X BaseAssets :
       positions[row] # NoRow => /\ positions[row].size >= 0
                                 /\ positions[row].avgEntryPrice >= 0

\* Two tables record what a user holds, each with its own read-modify-write;
\* whenever both can be seen they say the same.
HoldingsAgree ==
  \A row \in Users \X BaseAssets : Available(row) = Position(row).size

\* Until it commits, what a transaction has read is still what the tables
\* say, and what it is about to write is its order applied to that: no write
\* of another request falls between its reads and its commit (no lost update,
\* no double spend).
NotStale(r) ==
  LET quote == Available(QuoteRow(r))
      base == Available(BaseRow(r))
  IN /\ pc[r] \in {"base", "check", "record"} => staged[r].quote = quote
     /\ pc[r] \in {"check", "record"} => staged[r].base = base
     /\ pc[r] \in {"record", "position", "commit"} =>
          Sufficient(request[r], quote, base)
     /\ pc[r] \in {"position", "commit"} =>
          /\ staged[r].quote = QuoteAfter(request[r], quote)
          /\ staged[r].base = BaseAfter(request[r], base)
     /\ pc[r] = "commit" =>
          staged[r].position = PositionAfter(request[r], Position(BaseRow(r)))

NothingStaleIsUsed == \A r \in Requests : NotStale(r)

\* The prices at which a user has bought an asset.
PricesPaid(u, b) ==
  {o.priceAtOrderTime : o \in
    {x \in orders : x.user = u /\ x.base = b /\ x.side = "buy"}}

\* The average entry price of an open position is a price between two at which
\* its owner really bought the asset: an average that is rounded, computed from
\* one that was rounded, with a size that was rounded too, stays within them,
\* and no price of a sale or of somebody else's order comes in.
CostBasisWithinPricesPaid ==
  \A u \in Users, b \in BaseAssets :
    LET pos == Position(<<u, b>>)
    IN pos.size > 0 =>
         \E low, high \in PricesPaid(u, b) :
           low <= pos.avgEntryPrice /\ pos.avgEntryPrice <= high

\* What the order of trade t adds to asset a, before any rounding.
Exact(t, a) ==
  LET f == request[t.orderId]
      sign == IF f.side = "buy" THEN 1 ELSE -1
  IN CASE a = f.base -> sign * f.size
       [] a = Quote -> - sign * Cost(f) - CalculateFee(f)
       [] OTHER -> 0

TradesOf(u) == {t \in trades : t.user = u}

Given(a) == IF a \in DOMAIN InitialBalance THEN InitialBalance[a] ELSE 0

Expected(u, a) == Given(a) + SumFunction([t \in TradesOf(u) |-> Exact(t, a)])

Distance(x, y) == IF x >= y THEN x - y ELSE y - x

\* Every variable has its type, and
\* the trade log explains every balance: what an account was given plus what
\* its trades moved, up to half a unit of the column per trade.
TradesExplainBalances ==
  /\ TypeOK
  /\ \A u \in Users, a \in Assets :
       balances[<<u, a>>] # NoRow =>
         2 * Distance(balances[<<u, a>>], Expected(u, a))
           <= Quantum * Cardinality(TradesOf(u))

\* A row lock is held by a transaction in progress only, and a transaction
\* that has read a row holds its lock.
LocksHeldToTheEnd ==
  /\ \A row \in Users \X Assets :
       rowLock[row] # NoTx => pc[rowLock[row]] \in InTransaction
  /\ \A r \in Requests :
       /\ pc[r] \in InTransaction => rowLock[QuoteRow(r)] = r
       /\ pc[r] \in InTransaction \ {"base"} => rowLock[BaseRow(r)] = r

\* The rest of the inductive invariant: who is in a transaction has an
\* account, and an order is the trace of a request that was filled.
AccountsInUseAreOpen ==
  \A r \in Requests : pc[r] \in InTransaction => balances[QuoteRow(r)] # NoRow

OrdersWereFilled ==
  \A o \in orders : o.id \in Requests /\ pc[o.id] = "filled"

IInv ==
  /\ TypeOK
  /\ LocksHeldToTheEnd
  /\ AccountsInUseAreOpen
  /\ OrdersWereFilled
  /\ NothingStaleIsUsed
  /\ NoOverdraft
  /\ HoldingsAgree

\* Every step is a step of the atomic ledger, or changes nothing it shows.
L == INSTANCE Ledger
       WITH balances <- balances, positions <- positions, orders <- orders,
            trades <- trades, Requests <- Requests

RefinesLedger == L!LedgerSpec

\* A request that reached the database is answered, whoever else holds the
\* rows it needs: no deadlock, no lock kept by a transaction that ended.
EveryRequestAnswered ==
  \A r \in Requests : pc[r] = "quote" ~> pc[r] \in Answered
=============================================================================

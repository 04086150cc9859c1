------------------------------- MODULE Ledger -------------------------------
(***************************************************************************)
(* What the trading tables promise: an account is opened at most once,     *)
(* and a request either leaves no trace or is executed in one step,        *)
(* against the account as it is at that moment.  This is the contract      *)
(* stated above placeOrder ("Entire flow is atomic via Prisma transaction. *)
(* Prevents race conditions and ensures ledger consistency") and above     *)
(* initPortfolio ("Idempotent", "All balances + positions created in       *)
(* single transaction").  OrderExecution and AccountSetup implement it.    *)
(***************************************************************************)
EXTENDS TradingStore

CONSTANT Requests

VARIABLES
  balances,   \* [<<user, asset>> |-> available, or NoRow]
  positions,  \* [<<user, base>> |-> size and average entry price, or NoRow]
  orders,
  trades

ledgerVars == <<balances, positions, orders, trades>>

Available(u, a) == IF balances[<<u, a>>] = NoRow THEN 0 ELSE balances[<<u, a>>]

Position(u, b) ==
  IF positions[<<u, b>>] = NoRow THEN NoPosition ELSE positions[<<u, b>>]

LedgerInit ==
  /\ balances = [row \in Users \X Assets |-> NoRow]
  /\ positions = [row \in Users \X BaseAssets |-> NoRow]
  /\ orders = {}
  /\ trades = {}

\* initPortfolio creates every row of an account that has none.
OpenAccount(u) ==
  /\ \A a \in Assets : balances[<<u, a>>] = NoRow
  /\ balances' = [row \in Users \X Assets |->
                    IF row[1] = u /\ row[2] \in DOMAIN InitialBalance
                    THEN InitialBalance[row[2]] ELSE balances[row]]
  /\ positions' = [positions EXCEPT ![<<u, Sol>>] = NoPosition]
  /\ UNCHANGED <<orders, trades>>

\* placeOrder, as one step.
Execute(r, f) ==
  /\ \A o \in orders : o.id # r
  /\ orders' = orders \cup {OrderRow(r, f)}
  /\ trades' = trades \cup {TradeRow(r, f)}
  /\ balances[<<f.user, Quote>>] # NoRow
  /\ Sufficient(f, Available(f.user, Quote), Available(f.user, f.base))
  /\ balances' = [balances EXCEPT
       ![<<f.user, Quote>>] = QuoteAfter(f, Available(f.user, Quote)),
       ![<<f.user, f.base>>] = BaseAfter(f, Available(f.user, f.base))]
  /\ positions' = [positions EXCEPT
       ![<<f.user, f.base>>] = PositionAfter(f, Position(f.user, f.base))]

LedgerNext ==
  \/ \E u \in Users : OpenAccount(u)
  \/ \E r \in Requests, f \in Fills : Execute(r, f)

LedgerSpec == LedgerInit /\ [][LedgerNext]_ledgerVars
=============================================================================

------------------------ MODULE OrderExecutionProofs ------------------------
(***************************************************************************)
(* The theorems of OrderExecution, for every number of users, assets and   *)
(* requests and for every size, price and rounding unit.                   *)
(***************************************************************************)
EXTENDS OrderExecution, TradingStoreProofs

-----------------------------------------------------------------------------
\* The state of a request.

\* A request that was made has its arguments, and its two rows are distinct.
LEMMA RequestFacts ==
  ASSUME TypeOK, NEW r \in Requests, pc[r] # "idle"
  PROVE  /\ request[r] \in Fills
         /\ QuoteRow(r) \in Users \X Assets
         /\ BaseRow(r) \in Users \X BaseAssets
         /\ BaseRow(r) \in Users \X Assets
         /\ QuoteRow(r) # BaseRow(r)
         /\ QuoteRow(r)[1] = request[r].user /\ BaseRow(r)[1] = request[r].user
<1>1. request[r] \in Fills
  BY DEF TypeOK
<1> QED
  BY <1>1, FillFacts, AssetAssumption DEF QuoteRow, BaseRow, Assets

\* What a row says is an integer, and a position.
LEMMA RowFacts ==
  ASSUME TypeOK
  PROVE  /\ \A row \in Users \X Assets : Available(row) \in Int
         /\ \A row \in Users \X BaseAssets : Position(row) \in Positions
  BY DEF TypeOK, Available, Position, NoPosition, Positions

\* ... and none of it is negative while no account is overdrawn.
LEMMA NothingNegative ==
  ASSUME TypeOK, NoOverdraft
  PROVE  /\ \A row \in Users \X Assets : Available(row) \in Nat
         /\ \A row \in Users \X BaseAssets :
              Position(row).size >= 0 /\ Position(row).avgEntryPrice >= 0
  BY RowFacts DEF TypeOK, NoOverdraft, Available, Position, NoPosition, Positions

\* A request that passed the check still passes it, so its trade leaves a
\* position that is one.
LEMMA StagedPosition ==
  ASSUME TypeOK, NothingStaleIsUsed, NoOverdraft, HoldingsAgree,
         NEW r \in Requests, pc[r] \in {"record", "position", "commit"}
  PROVE  LET pos == PositionAfter(request[r], Position(BaseRow(r)))
         IN pos \in Positions /\ pos.size >= 0 /\ pos.avgEntryPrice >= 0
<1>1. Sufficient(request[r], Available(QuoteRow(r)), Available(BaseRow(r)))
  BY DEF NothingStaleIsUsed, NotStale
<1>2. request[r] \in Fills /\ BaseRow(r) \in Users \X BaseAssets
  BY RequestFacts
<1>3. Available(BaseRow(r)) = Position(BaseRow(r)).size
  BY <1>2 DEF HoldingsAgree
<1> QED
  BY <1>1, <1>2, <1>3, PositionAfterNat, RowFacts, NothingNegative, FillFacts
     DEF Sufficient

-----------------------------------------------------------------------------
\* The inductive invariant: first the initial states.
LEMMA InitIInv == Init => IInv
<1> SUFFICES ASSUME Init PROVE IInv
  OBVIOUS
<1>1. TypeOK
  BY AssetAssumption DEF Init, TypeOK, Staged, NothingStaged, NoPosition, Positions
<1>2. LocksHeldToTheEnd /\ AccountsInUseAreOpen /\ NothingStaleIsUsed
  BY RequestAssumption
     DEF Init, LocksHeldToTheEnd, AccountsInUseAreOpen, NothingStaleIsUsed, NotStale, InTransaction
<1>3. OrdersWereFilled /\ NoOverdraft
  BY DEF Init, OrdersWereFilled, NoOverdraft
<1>4. HoldingsAgree
  BY DEF Init, HoldingsAgree, Available, Position, NoPosition, Assets
<1> QED
  BY <1>1, <1>2, <1>3, <1>4 DEF IInv

\* Every action keeps the types.
LEMMA TypeStep == IInv /\ [Next]_vars => TypeOK'
<1> SUFFICES ASSUME IInv, [Next]_vars PROVE TypeOK'
  OBVIOUS
<1> USE DEF IInv
<1>1. ASSUME NEW u \in Users, OpenAccount(u) PROVE TypeOK'
  BY <1>1, AssetAssumption DEF OpenAccount, TypeOK, NoPosition, Positions, Assets
<1>2. ASSUME NEW r \in Requests, NEW f \in Calls, Submit(r, f) PROVE TypeOK'
  BY <1>2, RequestAssumption DEF Submit, Goto, dbVars, TypeOK
<1>3. ASSUME NEW r \in Requests, Step(r) \/ Rollback(r) PROVE TypeOK'
  <2>1. CASE LockQuote(r)
    BY <2>1, RequestFacts DEF LockQuote, Goto, dbVars, TypeOK, InTransaction, Staged
  <2>2. CASE QuoteMissing(r)
    BY <2>2 DEF QuoteMissing, Goto, dbVars, TypeOK, Answered
  <2>3. CASE LockBase(r)
    BY <2>3, RequestFacts, RowFacts
       DEF LockBase, Goto, dbVars, TypeOK, InTransaction, Staged
  <2>4. CASE CheckFunds(r)
    BY <2>4 DEF CheckFunds, Goto, dbVars, TypeOK, InTransaction
  <2>5. CASE InsufficientFunds(r)
    BY <2>5 DEF InsufficientFunds, EndTransaction, Goto, dbVars, TypeOK, Answered,
                Staged, NothingStaged, NoPosition, Positions
  <2>6. CASE RecordFill(r)
    <3>1. /\ QuoteAfter(request[r], staged[r].quote) \in Int
          /\ BaseAfter(request[r], staged[r].base) \in Int
      BY <2>6, RequestFacts, BalancesAfterInt DEF RecordFill, TypeOK, Staged
    <3> QED
      BY <2>6, <3>1 DEF RecordFill, StagedBalances, Goto, dbVars, TypeOK,
                        InTransaction, Staged
  <2>7. CASE UpdatePosition(r)
    BY <2>7, StagedPosition DEF UpdatePosition, Goto, dbVars, TypeOK, InTransaction, Staged
  <2>8. CASE Commit(r)
    BY <2>8, RequestFacts
       DEF Commit, EndTransaction, Goto, TypeOK, Answered,
           Staged, NothingStaged, NoPosition, Positions
  <2>9. CASE Rollback(r)
    BY <2>9 DEF Rollback, EndTransaction, Goto, dbVars, TypeOK, Answered, InTransaction,
                Staged, NothingStaged, NoPosition, Positions
  <2> QED
    BY <1>3, <2>1, <2>2, <2>3, <2>4, <2>5, <2>6, <2>7, <2>8, <2>9 DEF Step
<1>4. CASE UNCHANGED vars
  BY <1>4 DEF vars, TypeOK
<1> QED
  BY <1>1, <1>2, <1>3, <1>4 DEF Next, Quiescent

\* Locks are taken one at a time by their transaction, and given back only
\* when it ends.
LEMMA LockStep == IInv /\ [Next]_vars => LocksHeldToTheEnd'
<1> SUFFICES ASSUME IInv, [Next]_vars PROVE LocksHeldToTheEnd'
  OBVIOUS
<1> USE DEF IInv
<1>1. CASE \E u \in Users : OpenAccount(u)
  BY <1>1 DEF OpenAccount, LocksHeldToTheEnd, QuoteRow, BaseRow
<1>2. ASSUME NEW r \in Requests, NEW f \in Calls, Submit(r, f)
      PROVE  LocksHeldToTheEnd'
  BY <1>2, RequestAssumption
     DEF Submit, Goto, TypeOK, LocksHeldToTheEnd, InTransaction, QuoteRow, BaseRow
<1>3. ASSUME NEW r \in Requests, Step(r) \/ Rollback(r) PROVE LocksHeldToTheEnd'
  <2> USE RequestFacts, RequestAssumption
      DEF Goto, TypeOK, LocksHeldToTheEnd, InTransaction, QuoteRow, BaseRow
  <2>1. CASE LockQuote(r)
    BY <2>1 DEF LockQuote, Lockable
  <2>2. CASE QuoteMissing(r)
    BY <2>2 DEF QuoteMissing
  <2>3. CASE LockBase(r)
    BY <2>3 DEF LockBase, Lockable
  <2>4. CASE CheckFunds(r)
    BY <2>4 DEF CheckFunds
  <2>5. CASE RecordFill(r)
    BY <2>5 DEF RecordFill
  <2>6. CASE UpdatePosition(r)
    BY <2>6 DEF UpdatePosition
  <2>7. ASSUME EndTransaction(r), pc' \in {[pc EXCEPT ![r] = x] : x \in Answered},
               UNCHANGED request
        PROVE  LocksHeldToTheEnd'
    BY <2>7 DEF EndTransaction, LocksOf, Answered
  <2>8. CASE InsufficientFunds(r) \/ Commit(r) \/ Rollback(r)
    BY <2>7, <2>8 DEF InsufficientFunds, Commit, Rollback, Answered
  <2> QED
    BY <1>3, <2>1, <2>2, <2>3, <2>4, <2>5, <2>6, <2>8 DEF Step
<1>4. CASE UNCHANGED vars
  BY <1>4 DEF vars, LocksHeldToTheEnd, QuoteRow, BaseRow
<1> QED
  BY <1>1, <1>2, <1>3, <1>4 DEF Next, Quiescent

\* The row lock on the quote balance serialises the orders of one user.
LEMMA OneTransactionPerUser ==
  ASSUME TypeOK, LocksHeldToTheEnd,
         NEW r \in Requests, NEW s \in Requests, r # s,
         pc[r] \in InTransaction, pc[s] \in InTransaction
  PROVE  request[r].user # request[s].user
  BY DEF LocksHeldToTheEnd, QuoteRow

\* What a commit writes belongs to its own user.
LEMMA CommitIsLocal ==
  ASSUME TypeOK, NEW r \in Requests, Commit(r), NEW u \in Users, u # request[r].user
  PROVE  /\ \A a \in Assets : Available(<<u, a>>)' = Available(<<u, a>>)
         /\ \A b \in BaseAssets : Position(<<u, b>>)' = Position(<<u, b>>)
         /\ \A a \in Assets : balances'[<<u, a>>] = balances[<<u, a>>]
<1>1. /\ \A a \in Assets : balances'[<<u, a>>] = balances[<<u, a>>]
      /\ \A b \in BaseAssets : positions'[<<u, b>>] = positions[<<u, b>>]
  BY DEF Commit, TypeOK, QuoteRow, BaseRow
<1> QED
  BY <1>1 DEF Available, Position

\* Neither does opening an account touch anybody else's rows.
LEMMA OpenIsLocal ==
  ASSUME TypeOK, NEW v \in Users, OpenAccount(v), NEW u \in Users, u # v
  PROVE  /\ \A a \in Assets : Available(<<u, a>>)' = Available(<<u, a>>)
         /\ \A b \in BaseAssets : Position(<<u, b>>)' = Position(<<u, b>>)
         /\ \A a \in Assets : balances'[<<u, a>>] = balances[<<u, a>>]
<1>1. /\ \A a \in Assets : balances'[<<u, a>>] = balances[<<u, a>>]
      /\ \A b \in BaseAssets : positions'[<<u, b>>] = positions[<<u, b>>]
  BY DEF OpenAccount, TypeOK
<1> QED
  BY <1>1 DEF Available, Position

\* A commit writes the order applied to the rows as they are.
LEMMA CommitWrites ==
  ASSUME IInv, NEW r \in Requests, Commit(r)
  PROVE  /\ balances'[QuoteRow(r)] = QuoteAfter(request[r], Available(QuoteRow(r)))
         /\ balances'[BaseRow(r)] = BaseAfter(request[r], Available(BaseRow(r)))
         /\ positions'[BaseRow(r)] = PositionAfter(request[r], Position(BaseRow(r)))
         /\ \A row \in (Users \X Assets) \ {QuoteRow(r), BaseRow(r)} :
              balances'[row] = balances[row]
         /\ \A row \in (Users \X BaseAssets) \ {BaseRow(r)} :
              positions'[row] = positions[row]
<1>1. NotStale(r) /\ pc[r] = "commit" /\ TypeOK
  BY DEF IInv, NothingStaleIsUsed, Commit
<1> QED
  BY <1>1, RequestFacts DEF Commit, NotStale, TypeOK

\* An account in use is not reopened, and rows are never deleted.
LEMMA AccountStep == IInv /\ [Next]_vars => AccountsInUseAreOpen'
<1> SUFFICES ASSUME IInv, [Next]_vars, NEW s \in Requests, pc'[s] \in InTransaction
             PROVE  balances'[QuoteRow(s)'] # NoRow
  BY DEF AccountsInUseAreOpen, QuoteRow
<1> USE DEF IInv, TypeOK, AccountsInUseAreOpen, InTransaction, Answered, QuoteRow
<1>1. ASSUME NEW u \in Users, OpenAccount(u) PROVE balances'[QuoteRow(s)'] # NoRow
  <2>1. /\ request' = request /\ pc[s] \in InTransaction
        /\ balances[QuoteRow(s)] # NoRow
    BY <1>1 DEF OpenAccount
  <2>2. request[s].user \in Users \ {u}
    BY <1>1, <2>1, RequestFacts, FillFacts DEF OpenAccount, Assets
  <2>3. balances'[<<request[s].user, Quote>>] = balances[<<request[s].user, Quote>>]
    BY <1>1, <2>2, OpenIsLocal DEF Assets
  <2> QED
    BY <2>1, <2>3
<1>2. ASSUME NEW r \in Requests, NEW f \in Calls, Submit(r, f)
      PROVE  balances'[QuoteRow(s)'] # NoRow
  BY <1>2 DEF Submit, Goto, dbVars
<1>3. ASSUME NEW r \in Requests, Step(r) \/ Rollback(r)
      PROVE  balances'[QuoteRow(s)'] # NoRow
  <2>1. CASE Commit(r)
    <3>1. s # r /\ pc[s] \in InTransaction /\ request' = request
      BY <2>1 DEF Commit, Goto
    <3>2. /\ request[s] \in Fills /\ request[r] \in Fills /\ pc[r] \in InTransaction
          /\ balances[QuoteRow(s)] # NoRow
      BY <2>1, <3>1, RequestFacts DEF Commit
    <3>3. request[s].user # request[r].user /\ request[s].user \in Users
      BY <3>1, <3>2, OneTransactionPerUser, FillFacts
    <3>4. balances'[<<request[s].user, Quote>>] = balances[<<request[s].user, Quote>>]
      BY <2>1, <3>3, CommitIsLocal DEF Assets
    <3> QED
      BY <3>1, <3>2, <3>4
  <2>2. CASE ~Commit(r)
    BY <1>3, <2>2, NoRowAssumption
       DEF Step, Rollback, LockQuote, QuoteMissing, LockBase, CheckFunds,
           InsufficientFunds, RecordFill, UpdatePosition, Goto, dbVars
  <2> QED
    BY <2>1, <2>2
<1>4. CASE UNCHANGED vars
  BY <1>4 DEF vars
<1> QED
  BY <1>1, <1>2, <1>3, <1>4 DEF Next, Quiescent

\* Only a commit adds an order, and it is the last thing its request does.
LEMMA OrderStep == IInv /\ [Next]_vars => OrdersWereFilled'
<1> SUFFICES ASSUME IInv, [Next]_vars PROVE OrdersWereFilled'
  OBVIOUS
<1> USE DEF IInv, TypeOK, OrdersWereFilled
<1>1. CASE (\E u \in Users : OpenAccount(u)) \/ UNCHANGED vars
  BY <1>1 DEF OpenAccount, vars
<1>2. ASSUME NEW r \in Requests, NEW f \in Calls, Submit(r, f) PROVE OrdersWereFilled'
  BY <1>2 DEF Submit, Goto, dbVars
<1>3. ASSUME NEW r \in Requests, Step(r) \/ Rollback(r) PROVE OrdersWereFilled'
  <2>1. CASE Commit(r)
    BY <2>1 DEF Commit, Goto, OrderRow
  <2>2. CASE ~Commit(r)
    BY <1>3, <2>2
       DEF Step, Rollback, LockQuote, QuoteMissing, LockBase, CheckFunds,
           InsufficientFunds, RecordFill, UpdatePosition, Goto, dbVars, InTransaction
  <2> QED
    BY <2>1, <2>2
<1> QED
  BY <1>1, <1>2, <1>3 DEF Next, Quiescent

\* No balance and no position goes below zero.
LEMMA OverdraftStep == IInv /\ [Next]_vars => NoOverdraft'
<1> SUFFICES ASSUME IInv, [Next]_vars PROVE NoOverdraft'
  OBVIOUS
<1> USE DEF IInv
<1>1. ASSUME NEW u \in Users, OpenAccount(u) PROVE NoOverdraft'
  BY <1>1, AssetAssumption
     DEF OpenAccount, NoOverdraft, TypeOK, NoPosition, Positions, Assets
<1>2. ASSUME NEW r \in Requests, Commit(r) PROVE NoOverdraft'
  <2>1. pc[r] = "commit"
    BY <1>2 DEF Commit
  <2>2. request[r] \in Fills /\ QuoteRow(r) \in Users \X Assets
        /\ BaseRow(r) \in Users \X Assets /\ BaseRow(r) \in Users \X BaseAssets
    BY <2>1, RequestFacts
  <2>3. Sufficient(request[r], Available(QuoteRow(r)), Available(BaseRow(r)))
    BY <2>1 DEF NothingStaleIsUsed, NotStale
  <2>4. balances'[QuoteRow(r)] \in Nat /\ balances'[BaseRow(r)] \in Nat
    BY <1>2, <2>2, <2>3, CommitWrites, NothingNegative, BalancesAfterNat
  <2>5. positions'[BaseRow(r)].size >= 0 /\ positions'[BaseRow(r)].avgEntryPrice >= 0
    BY <1>2, <2>1, CommitWrites, StagedPosition
  <2> QED
    BY <1>2, <2>2, <2>4, <2>5, CommitWrites DEF NoOverdraft
<1>3. CASE UNCHANGED dbVars
  BY <1>3 DEF NoOverdraft, dbVars
<1> QED
  BY <1>1, <1>2, <1>3
     DEF Next, Submit, Step, Rollback, Quiescent, vars, dbVars, LockQuote, QuoteMissing,
         LockBase, CheckFunds, InsufficientFunds, RecordFill, UpdatePosition

\* The balance of an asset and the position in it stay equal.
LEMMA HoldingStep == IInv /\ [Next]_vars => HoldingsAgree'
<1> SUFFICES ASSUME IInv, [Next]_vars PROVE HoldingsAgree'
  OBVIOUS
<1> USE DEF IInv
<1>1. ASSUME NEW u \in Users, OpenAccount(u) PROVE HoldingsAgree'
  <2>1. SUFFICES ASSUME NEW v \in Users, NEW b \in BaseAssets
                 PROVE  Available(<<v, b>>)' = Position(<<v, b>>)'.size
    BY DEF HoldingsAgree
  <2>2. CASE v # u
    BY <1>1, <2>2, OpenIsLocal DEF HoldingsAgree, Assets
  <2>3. CASE v = u
    <3>1. Available(<<u, b>>) = 0 /\ b \in Assets
      BY <1>1 DEF OpenAccount, Available, Assets
    <3>2. Available(<<u, b>>)' = 0
      BY <1>1, <3>1, AssetAssumption DEF OpenAccount, Available, TypeOK
    <3>3. Position(<<u, b>>)'.size = 0
      <4>1. CASE b = Sol
        BY <1>1, <4>1, AssetAssumption DEF OpenAccount, Position, TypeOK, NoPosition
      <4>2. CASE b # Sol
        BY <1>1, <3>1, <4>2 DEF OpenAccount, Position, TypeOK, HoldingsAgree
      <4> QED
        BY <4>1, <4>2
    <3> QED
      BY <2>3, <3>2, <3>3
  <2> QED
    BY <2>2, <2>3
<1>2. ASSUME NEW r \in Requests, Commit(r) PROVE HoldingsAgree'
  <2>1. pc[r] = "commit"
    BY <1>2 DEF Commit
  <2>2. /\ request[r] \in Fills /\ BaseRow(r) \in Users \X BaseAssets
        /\ QuoteRow(r) \notin Users \X BaseAssets
    BY <2>1, RequestFacts, AssetAssumption DEF QuoteRow
  <2>3. balances'[BaseRow(r)] = positions'[BaseRow(r)].size
    BY <1>2, <2>2, CommitWrites, HoldingAfter, RowFacts DEF HoldingsAgree
  <2>4. balances'[BaseRow(r)] \in Int /\ positions'[BaseRow(r)] \in Positions
    BY <1>2, <2>1, <2>2, CommitWrites, StagedPosition, RowFacts, BalancesAfterInt,
       RequestFacts
  <2>5. Available(BaseRow(r))' = Position(BaseRow(r))'.size
    <3>1. BaseRow(r)' = BaseRow(r)
      BY <1>2 DEF Commit, BaseRow
    <3> QED
      BY <2>3, <2>4, <3>1, NoRowAssumption DEF Available, Position, Positions
  <2>6. ASSUME NEW row \in Users \X BaseAssets, row # BaseRow(r)
        PROVE  Available(row)' = Position(row)'.size
    <3>1. balances'[row] = balances[row] /\ positions'[row] = positions[row]
      BY <1>2, <2>2, <2>6, CommitWrites DEF Assets
    <3> QED
      BY <3>1 DEF HoldingsAgree, Available, Position
  <2> QED
    BY <1>2, <2>5, <2>6 DEF HoldingsAgree, BaseRow, Commit
<1>3. CASE UNCHANGED dbVars
  BY <1>3 DEF HoldingsAgree, Available, Position, dbVars
<1> QED
  BY <1>1, <1>2, <1>3
     DEF Next, Submit, Step, Rollback, Quiescent, vars, dbVars, LockQuote, QuoteMissing,
         LockBase, CheckFunds, InsufficientFunds, RecordFill, UpdatePosition

\* A transaction is not disturbed as long as its own rows stay as they are.
LEMMA Undisturbed ==
  ASSUME NEW s \in Requests, NotStale(s),
         request'[s] = request[s], staged'[s] = staged[s], pc'[s] = pc[s],
         pc[s] \in InTransaction =>
           /\ Available(<<request[s].user, Quote>>)'
                = Available(<<request[s].user, Quote>>)
           /\ Available(<<request[s].user, request[s].base>>)'
                = Available(<<request[s].user, request[s].base>>)
           /\ Position(<<request[s].user, request[s].base>>)'
                = Position(<<request[s].user, request[s].base>>)
  PROVE  NotStale(s)'
<1>1. CASE pc[s] \notin InTransaction
  BY <1>1 DEF NotStale, InTransaction
<1>2. CASE pc[s] \in InTransaction
  <2>1. /\ Available(QuoteRow(s))' = Available(QuoteRow(s))
        /\ Available(BaseRow(s))' = Available(BaseRow(s))
        /\ Position(BaseRow(s))' = Position(BaseRow(s))
    BY <1>2 DEF QuoteRow, BaseRow, Available, Position
  <2> QED
    BY <2>1 DEF NotStale
<1> QED
  BY <1>1, <1>2

\* What a transaction has read stays current to its end, and what it will
\* write is computed from that.
LEMMA StaleStep == IInv /\ [Next]_vars => NothingStaleIsUsed'
<1> SUFFICES ASSUME IInv, [Next]_vars, NEW s \in Requests PROVE NotStale(s)'
  BY DEF NothingStaleIsUsed
<1>0. TypeOK /\ NotStale(s)
  BY DEF IInv, NothingStaleIsUsed
<1>1. ASSUME NEW u \in Users, OpenAccount(u) PROVE NotStale(s)'
  <2>1. request' = request /\ staged' = staged /\ pc' = pc
    BY <1>1 DEF OpenAccount
  <2>2. ASSUME pc[s] \in InTransaction
        PROVE  /\ request[s].user \in Users \ {u}
               /\ request[s].base \in BaseAssets
    BY <1>0, <1>1, <2>2, RequestFacts, FillFacts
       DEF OpenAccount, Assets, IInv, AccountsInUseAreOpen, QuoteRow, InTransaction
  <2> QED
    BY <1>0, <1>1, <2>1, <2>2, OpenIsLocal, Undisturbed DEF Assets
<1>2. ASSUME NEW r \in Requests, NEW f \in Calls, Submit(r, f) PROVE NotStale(s)'
  <2>1. CASE r = s
    BY <1>0, <1>2, <2>1 DEF Submit, Goto, TypeOK, NotStale
  <2>2. CASE r # s
    BY <1>0, <1>2, <2>2, Undisturbed
       DEF Submit, Goto, TypeOK, dbVars, Available, Position
  <2> QED
    BY <2>1, <2>2
<1>3. ASSUME NEW r \in Requests, Step(r) \/ Rollback(r), r # s PROVE NotStale(s)'
  <2>1. request'[s] = request[s] /\ staged'[s] = staged[s] /\ pc'[s] = pc[s]
    BY <1>0, <1>3
       DEF Step, Rollback, LockQuote, QuoteMissing, LockBase, CheckFunds, InsufficientFunds,
           RecordFill, UpdatePosition, Commit, EndTransaction, Goto, TypeOK
  <2>2. CASE Commit(r)
    <3>1. ASSUME pc[s] \in InTransaction
          PROVE  /\ request[s].user \in Users /\ request[s].base \in BaseAssets
                 /\ request[s].user # request[r].user
      BY <1>0, <1>3, <2>2, <3>1, OneTransactionPerUser, RequestFacts, FillFacts
         DEF IInv, Commit, InTransaction
    <3> QED
      BY <1>0, <2>1, <2>2, <3>1, CommitIsLocal, Undisturbed DEF Assets
  <2>3. CASE ~Commit(r)
    <3>1. balances' = balances /\ positions' = positions
      BY <1>3, <2>3
         DEF Step, Rollback, LockQuote, QuoteMissing, LockBase, CheckFunds,
             InsufficientFunds, RecordFill, UpdatePosition, dbVars
    <3> QED
      BY <1>0, <2>1, <3>1, Undisturbed DEF Available, Position
  <2> QED
    BY <2>2, <2>3
<1>4. ASSUME Step(s) \/ Rollback(s) PROVE NotStale(s)'
  <2> USE <1>0 DEF TypeOK, Staged, Goto, dbVars, NotStale, QuoteRow, BaseRow,
                   Available, Position
  <2>1. CASE LockQuote(s)
    BY <2>1 DEF LockQuote
  <2>2. CASE LockBase(s)
    BY <2>2 DEF LockBase
  <2>3. CASE CheckFunds(s)
    BY <2>3 DEF CheckFunds, HasFunds
  <2>4. CASE RecordFill(s)
    BY <2>4 DEF RecordFill, StagedBalances
  <2>5. CASE UpdatePosition(s)
    BY <2>5 DEF UpdatePosition
  <2>6. CASE QuoteMissing(s) \/ InsufficientFunds(s) \/ Commit(s) \/ Rollback(s)
    <3>1. pc'[s] \in Answered
      BY <2>6 DEF QuoteMissing, InsufficientFunds, Commit, Rollback, Answered
    <3> QED
      BY ONLY <3>1 DEF NotStale, Answered
  <2> QED
    BY <1>4, <2>1, <2>2, <2>3, <2>4, <2>5, <2>6 DEF Step
<1>5. CASE UNCHANGED vars
  BY <1>0, <1>5, Undisturbed DEF vars, Available, Position
<1> QED
  BY <1>1, <1>2, <1>3, <1>4, <1>5 DEF Next, Quiescent

\* Each part of the invariant is kept by every step.
LEMMA Inductive == IInv /\ [Next]_vars => IInv'
  BY TypeStep, LockStep, AccountStep, OrderStep, StaleStep, OverdraftStep, HoldingStep
     DEF IInv

\* IInv holds throughout: the argument behind every theorem below.
THEOREM Invariance == Spec => []IInv
  BY InitIInv, Inductive, PTL DEF Spec

-----------------------------------------------------------------------------
\* What the invariant is for.

\* Every variable keeps its type, the staged amounts of a transaction included.
THEOREM TypeCorrect == Spec => []TypeOK
  BY Invariance, PTL DEF IInv

\* No balance is ever negative and nobody holds a short position.
THEOREM NeverOverdrawn == Spec => []NoOverdraft
  BY Invariance, PTL DEF IInv

\* The balance of an asset and the position in it never differ.
THEOREM HoldingsAlwaysAgree == Spec => []HoldingsAgree
  BY Invariance, PTL DEF IInv

\* A transaction never computes from a row that has changed since it read it.
THEOREM NoLostUpdate == Spec => []NothingStaleIsUsed
  BY Invariance, PTL DEF IInv

\* Locks are held from the first read to the end of the transaction, and by
\* nobody after it.
THEOREM LockDiscipline == Spec => []LocksHeldToTheEnd
  BY Invariance, PTL DEF IInv

-----------------------------------------------------------------------------
\* The cost basis.  Only the prices in the table of orders have to be known as
\* numbers; that they bound what a commit writes follows from IInv, by which the
\* commit computes from the position as it is.

\* An order in the table is the row of an order that was given.
OrdersAreFills ==
  \A o \in orders : \E f \in Fills : o = OrderRow(o.id, f)

CostInv == OrdersAreFills /\ CostBasisWithinPricesPaid

\* A price somebody paid is a natural number.
LEMMA PricePaidNat ==
  ASSUME OrdersAreFills, NEW u, NEW b, NEW x \in PricesPaid(u, b)
  PROVE  x \in Nat
<1>1. PICK o \in orders : x = o.priceAtOrderTime
  BY DEF PricesPaid
<1>2. PICK f \in Fills : o = OrderRow(o.id, f)
  BY <1>1 DEF OrdersAreFills
<1>3. o.priceAtOrderTime = f.price
  BY <1>2 DEF OrderRow
<1> QED
  BY <1>1, <1>3, FillFacts

\* A trade leaves a position between the prices its average was between before,
\* and the price of the trade if it is a purchase.
LEMMA PositionWithin ==
  ASSUME NEW f \in Fills, NEW pos \in Positions, pos.size >= 0,
         f.side = "sell" => pos.size >= f.size,
         NEW low \in Nat, NEW high \in Nat,
         pos.size > 0 => low <= pos.avgEntryPrice /\ pos.avgEntryPrice <= high,
         f.side = "buy" => low <= f.price /\ f.price <= high,
         PositionAfter(f, pos).size > 0
  PROVE  /\ low <= PositionAfter(f, pos).avgEntryPrice
         /\ PositionAfter(f, pos).avgEntryPrice <= high
<1>1. CASE f.side = "buy" /\ pos.size = 0
  BY <1>1 DEF PositionAfter
<1>2. CASE f.side = "buy" /\ pos.size # 0
  <2>1. pos.size > 0
    BY <1>2 DEF Positions
  <2>2. low <= AverageEntry(f, pos) /\ AverageEntry(f, pos) <= high
    BY <1>2, <2>1, AverageEntryWithin
  <2> QED
    BY <1>2, <2>2 DEF PositionAfter
<1>3. CASE f.side = "sell"
  <2>1. f.size > 0 /\ f.size \in Nat /\ pos.size \in Int
    BY FillFacts DEF Positions
  <2>2. pos.size > 0
    BY <1>3, <2>1
  <2>3. pos.size # f.size
    <3>1. SUFFICES ASSUME pos.size = f.size PROVE FALSE
      OBVIOUS
    <3>2. PositionAfter(f, pos).size = Numeric(0)
      BY <1>3, <2>1, <3>1 DEF PositionAfter
    <3>3. Numeric(0) = 0
      <4>1. \A q \in Nat \ {0} : q \div (2 * q) = 0
        OBVIOUS
      <4> QED
        BY <4>1, AmountAssumption DEF Numeric
    <3> QED
      BY <3>2, <3>3
  <2> QED
    BY <1>3, <2>2, <2>3 DEF PositionAfter
<1> QED
  BY <1>1, <1>2, <1>3, FillFacts

\* Before the first order there is no position.
LEMMA InitCost == Init => CostInv
  BY DEF Init, CostInv, OrdersAreFills, CostBasisWithinPricesPaid, Position, NoPosition

\* A commit is the only step that changes a position somebody holds.
LEMMA CostStep == IInv /\ CostInv /\ [Next]_vars => CostInv'
<1> SUFFICES ASSUME IInv, CostInv, [Next]_vars PROVE CostInv'
  OBVIOUS
<1>0. TypeOK /\ OrdersAreFills /\ CostBasisWithinPricesPaid
  BY DEF IInv, CostInv
<1>1. ASSUME NEW v \in Users, OpenAccount(v) PROVE CostInv'
  <2>1. orders' = orders
    BY <1>1 DEF OpenAccount
  <2>2. ASSUME NEW u \in Users, NEW b \in BaseAssets, Position(<<u, b>>)'.size > 0
        PROVE  Position(<<u, b>>)' = Position(<<u, b>>)
    <3>1. positions' = [positions EXCEPT ![<<v, Sol>>] = NoPosition]
      BY <1>1 DEF OpenAccount
    <3>2. <<u, b>> # <<v, Sol>>
      BY <1>0, <2>2, <3>1, AssetAssumption DEF TypeOK, Position, NoPosition
    <3>3. positions'[<<u, b>>] = positions[<<u, b>>]
      BY <1>0, <3>1, <3>2 DEF TypeOK
    <3> QED
      BY <3>3 DEF Position
  <2>3. OrdersAreFills'
    BY <1>0, <2>1 DEF OrdersAreFills
  <2>4. CostBasisWithinPricesPaid'
    BY <1>0, <2>1, <2>2 DEF CostBasisWithinPricesPaid, PricesPaid
  <2> QED
    BY <2>3, <2>4 DEF CostInv
<1>2. ASSUME NEW r \in Requests, Commit(r) PROVE CostInv'
  <2>0. PICK f, row, pos : f = request[r] /\ row = BaseRow(r) /\ pos = Position(row)
    OBVIOUS
  <2>1. pc[r] = "commit" /\ orders' = orders \cup {OrderRow(r, f)}
    BY <1>2, <2>0 DEF Commit
  <2>2. /\ f \in Fills /\ row \in Users \X BaseAssets
        /\ row = <<f.user, f.base>> /\ pos \in Positions /\ pos.size >= 0
    BY <1>0, <2>0, <2>1, RequestFacts, RowFacts, NothingNegative DEF IInv, BaseRow
  <2>3. f.side = "sell" => pos.size >= f.size
    <3>1. Sufficient(f, Available(QuoteRow(r)), Available(row))
      BY <2>0, <2>1 DEF IInv, NothingStaleIsUsed, NotStale
    <3>2. Available(row) = pos.size
      BY <2>0, <2>2 DEF IInv, HoldingsAgree
    <3> QED
      BY <3>1, <3>2 DEF Sufficient
  <2>4. /\ positions'[row] = PositionAfter(f, pos)
        /\ \A other \in (Users \X BaseAssets) \ {row} :
             positions'[other] = positions[other]
    BY <1>2, <2>0, CommitWrites
  <2>5. OrderRow(r, f).id = r /\ OrderRow(r, f).priceAtOrderTime = f.price
        /\ OrderRow(r, f).user = f.user /\ OrderRow(r, f).base = f.base
        /\ OrderRow(r, f).side = f.side
    BY DEF OrderRow
  <2>6. OrdersAreFills'
    BY <1>0, <2>1, <2>2, <2>5 DEF OrdersAreFills
  <2>7. \A u, b : PricesPaid(u, b) \subseteq PricesPaid(u, b)'
    BY <2>1 DEF PricesPaid
  <2>8. f.side = "buy" => f.price \in PricesPaid(f.user, f.base)'
    BY <2>1, <2>5 DEF PricesPaid
  <2>9. ASSUME NEW u \in Users, NEW b \in BaseAssets, <<u, b>> # row,
               Position(<<u, b>>)'.size > 0
        PROVE  \E low, high \in PricesPaid(u, b)' :
                 /\ low <= Position(<<u, b>>)'.avgEntryPrice
                 /\ Position(<<u, b>>)'.avgEntryPrice <= high
    <3>1. Position(<<u, b>>)' = Position(<<u, b>>)
      BY <2>4, <2>9 DEF Position
    <3> QED
      BY <1>0, <2>7, <2>9, <3>1 DEF CostBasisWithinPricesPaid
  <2>10. ASSUME Position(row)'.size > 0
         PROVE  \E low, high \in PricesPaid(f.user, f.base)' :
                  /\ low <= Position(row)'.avgEntryPrice
                  /\ Position(row)'.avgEntryPrice <= high
    <3>1. PositionAfter(f, pos) \in Positions
      BY <2>0, <2>1, StagedPosition DEF IInv
    <3>2. positions'[row] # NoRow
      BY <2>4, <3>1, NoRowAssumption DEF Positions
    <3>3. Position(row)' = PositionAfter(f, pos)
      BY <2>4, <3>2 DEF Position
    <3>4. f.price \in Nat /\ f.side \in {"buy", "sell"} /\ f.size \in Nat \ {0}
          /\ f.user \in Users /\ f.base \in BaseAssets
      BY <2>2, FillFacts
    <3>5. ASSUME NEW low \in PricesPaid(f.user, f.base)',
                 NEW high \in PricesPaid(f.user, f.base)',
                 low \in Nat, high \in Nat,
                 pos.size > 0 => low <= pos.avgEntryPrice /\ pos.avgEntryPrice <= high,
                 f.side = "buy" => low <= f.price /\ f.price <= high
          PROVE  /\ low <= Position(row)'.avgEntryPrice
                 /\ Position(row)'.avgEntryPrice <= high
      BY <2>2, <2>3, <2>10, <3>3, <3>5, PositionWithin
    <3>6. CASE pos.size = 0
      <4>1. f.side = "buy"
        BY <2>3, <3>4, <3>6
      <4> QED
        BY <2>8, <3>4, <3>5, <3>6, <4>1
    <3>7. CASE pos.size > 0
      <4>1. PICK low, high \in PricesPaid(f.user, f.base) :
              low <= pos.avgEntryPrice /\ pos.avgEntryPrice <= high
        BY <1>0, <2>0, <2>2, <3>4, <3>7 DEF CostBasisWithinPricesPaid
      <4>2. /\ low \in Nat /\ high \in Nat
            /\ low \in PricesPaid(f.user, f.base)' /\ high \in PricesPaid(f.user, f.base)'
        BY <1>0, <2>7, <4>1, PricePaidNat
      <4>3. CASE f.side = "sell"
        BY <3>5, <4>1, <4>2, <4>3
      <4>4. CASE f.side = "buy"
        <5>1. PICK l \in {low, f.price} : l <= low /\ l <= f.price
          BY <3>4, <4>2
        <5>2. PICK h \in {high, f.price} : high <= h /\ f.price <= h
          BY <3>4, <4>2
        <5>3. /\ l \in Nat /\ h \in Nat
              /\ l \in PricesPaid(f.user, f.base)' /\ h \in PricesPaid(f.user, f.base)'
          BY <2>8, <3>4, <4>2, <4>4, <5>1, <5>2
        <5>4. l <= pos.avgEntryPrice /\ pos.avgEntryPrice <= h
          BY <2>2, <4>1, <4>2, <5>1, <5>2, <5>3 DEF Positions
        <5> QED
          BY <3>5, <5>1, <5>2, <5>3, <5>4
      <4> QED
        BY <3>4, <4>3, <4>4
    <3> QED
      BY <2>2, <3>6, <3>7 DEF Positions
  <2>11. CostBasisWithinPricesPaid'
    BY <2>2, <2>9, <2>10 DEF CostBasisWithinPricesPaid
  <2> QED
    BY <2>6, <2>11 DEF CostInv
<1>3. CASE UNCHANGED dbVars
  BY <1>0, <1>3
     DEF CostInv, OrdersAreFills, CostBasisWithinPricesPaid, Position, PricesPaid, dbVars
<1> QED
  BY <1>1, <1>2, <1>3
     DEF Next, Submit, Step, Rollback, Quiescent, vars, dbVars, LockQuote, QuoteMissing,
         LockBase, CheckFunds, InsufficientFunds, RecordFill, UpdatePosition

\* The average entry price of an open position is always between two prices its
\* owner paid for the asset.
THEOREM CostBasisIsPaid == Spec => []CostBasisWithinPricesPaid
<1>1. CostInv => CostBasisWithinPricesPaid
  BY DEF CostInv
<1> QED
  BY <1>1, InitCost, CostStep, Invariance, PTL DEF Spec

-----------------------------------------------------------------------------
\* The trade log.  A trade is the trace of a request that was filled, so what it
\* moved is settled when it is written; each commit adds one trade, and rounds
\* each balance once.

TradesWereFilled ==
  /\ IsFiniteSet(trades)
  /\ \A t \in trades : /\ t.orderId \in Requests /\ pc[t.orderId] = "filled"
                       /\ t.user = request[t.orderId].user

Near(x, y, n) == 2 * Distance(x, y) <= Quantum * n

\* Who has no account has not traded; every balance of who has one is explained.
Explained(u) ==
  \/ /\ TradesOf(u) = {}
     /\ \A a \in Assets : balances[<<u, a>>] = NoRow
  \/ /\ balances[<<u, Quote>>] # NoRow
     /\ \A a \in Assets :
          Near(Available(<<u, a>>), Expected(u, a), Cardinality(TradesOf(u)))

BookInv == TradesWereFilled /\ \A u \in Users : Explained(u)

\* What a column holds is half a unit from what was written to it, at most.
LEMMA NumericNear ==
  ASSUME NEW x \in Int
  PROVE  2 * Distance(Numeric(x), x) <= Quantum
<1>1. PICK q : q = Quantum
  OBVIOUS
<1>2. q \in Nat \ {0}
  BY <1>1, AmountAssumption
<1>3. PICK a, b : a = 2 * x + q /\ b = 2 * q
  OBVIOUS
<1>4. a \in Int /\ b \in Nat \ {0}
  BY <1>2, <1>3
<1>5. PICK d : d = a \div b
  OBVIOUS
<1>6. d \in Int /\ b * d <= a /\ a < b * d + b
  BY ONLY <1>4, <1>5
<1>7. PICK n : n = q * d
  OBVIOUS
<1>8. n \in Int /\ b * d = 2 * n
  BY ONLY <1>2, <1>3, <1>6, <1>7
<1>9. Numeric(x) = n
  BY <1>1, <1>3, <1>5, <1>7 DEF Numeric
<1> QED
  BY <1>1, <1>2, <1>3, <1>6, <1>8, <1>9 DEF Distance

\* One more rounding adds half a unit to the distance.
LEMMA NearStep ==
  ASSUME NEW x \in Int, NEW y \in Int, NEW n \in Nat, NEW d \in Int, Near(x, y, n)
  PROVE  Near(Numeric(x + d), y + d, n + 1)
<1>1. PICK z : z = Numeric(x + d)
  OBVIOUS
<1>2. z \in Int /\ 2 * Distance(z, x + d) <= Quantum
  BY <1>1, NumericInt, NumericNear
<1>3. PICK p : p = Quantum * n
  OBVIOUS
<1>4. p \in Nat /\ Quantum * (n + 1) = p + Quantum
  BY <1>3, AmountAssumption
<1>5. 2 * Distance(x, y) <= p
  BY <1>3 DEF Near
<1>6. 2 * Distance(z, y + d) <= p + Quantum
  BY <1>2, <1>4, <1>5, AmountAssumption DEF Distance
<1> QED
  BY <1>1, <1>4, <1>6 DEF Near

\* A distance that half a unit per trade explains, without any trade.
LEMMA NearItself ==
  ASSUME NEW x \in Int, NEW n \in Nat
  PROVE  Near(x, x, n)
<1>1. Quantum * n \in Nat
  BY AmountAssumption
<1> QED
  BY <1>1 DEF Near, Distance

\* What a trade moves is a whole number of units, ...
LEMMA ExactInt ==
  ASSUME TypeOK, TradesWereFilled, NEW t \in trades, NEW a
  PROVE  Exact(t, a) \in Int
<1>1. request[t.orderId] \in Fills
  BY DEF TypeOK, TradesWereFilled
<1> QED
  BY <1>1, FillFacts DEF Exact

\* ... and so is what is expected of a balance.
LEMMA ExpectedInt ==
  ASSUME TypeOK, TradesWereFilled, NEW u, NEW a
  PROVE  /\ IsFiniteSet(TradesOf(u)) /\ Cardinality(TradesOf(u)) \in Nat
         /\ [t \in TradesOf(u) |-> Exact(t, a)] \in [TradesOf(u) -> Int]
         /\ Given(a) \in Int /\ Expected(u, a) \in Int
         /\ TradesOf(u) = {} => Expected(u, a) = Given(a)
<1>1. PICK T : T = TradesOf(u)
  OBVIOUS
<1>2. T \subseteq trades
  BY <1>1 DEF TradesOf
<1>3. IsFiniteSet(T) /\ Cardinality(T) \in Nat
  BY <1>2, FS_Subset, FS_CardinalityType DEF TradesWereFilled
<1>4. PICK F : F = [t \in T |-> Exact(t, a)]
  OBVIOUS
<1>5. F \in [T -> Int]
  BY <1>2, <1>4, ExactInt
<1>6. SumFunction(F) \in Int /\ (T = {} => SumFunction(F) = 0)
  BY ONLY <1>3, <1>5, SumFacts
<1>7. Given(a) \in Int
  BY AssetAssumption DEF Given
<1>8. Expected(u, a) = Given(a) + SumFunction(F)
  BY <1>1, <1>4 DEF Expected
<1> QED
  BY <1>1, <1>3, <1>4, <1>5, <1>6, <1>7, <1>8

\* No step changes what a trade moved: its request was filled.
LEMMA ExactStays ==
  ASSUME TradesWereFilled,
         \A r \in Requests : pc[r] = "filled" => request'[r] = request[r],
         NEW t \in trades, NEW a
  PROVE  Exact(t, a)' = Exact(t, a)
<1>1. request'[t.orderId] = request[t.orderId]
  BY DEF TradesWereFilled
<1> QED
  BY <1>1 DEF Exact

\* Who does not trade has the same log.
LEMMA LogStays ==
  ASSUME TradesWereFilled,
         \A r \in Requests : pc[r] = "filled" => request'[r] = request[r],
         NEW u, TradesOf(u)' = TradesOf(u), NEW a
  PROVE  Expected(u, a)' = Expected(u, a)
<1>1. \A t \in TradesOf(u) : Exact(t, a)' = Exact(t, a)
  BY ExactStays DEF TradesOf
<1>2. [t \in TradesOf(u) |-> Exact(t, a)]' = [t \in TradesOf(u) |-> Exact(t, a)]
  BY <1>1
<1> QED
  BY <1>2 DEF Expected

\* What a commit adds to the log of its user.
LEMMA CommitExpected ==
  ASSUME IInv, TradesWereFilled, NEW r \in Requests, Commit(r), NEW a,
         NEW u, u = request[r].user, NEW t, t = TradeRow(r, request[r])
  PROVE  /\ Exact(t, a) \in Int
         /\ Expected(u, a)' = Expected(u, a) + Exact(t, a)
         /\ Cardinality(TradesOf(u)') = Cardinality(TradesOf(u)) + 1
<1>1. PICK f : f = request[r]
  OBVIOUS
<1>2. /\ pc[r] = "commit" /\ f \in Fills /\ TypeOK
      /\ request' = request /\ trades' = trades \cup {t}
  BY <1>1 DEF Commit, IInv, TypeOK
<1>3. t.orderId = r /\ t.user = u
  BY <1>1 DEF TradeRow
<1>4. PICK T, S : T = TradesOf(u) /\ S = TradesOf(u)'
  OBVIOUS
<1>5. t \notin T /\ S = T \cup {t}
  BY <1>2, <1>3, <1>4 DEF TradesOf, TradesWereFilled
<1>6. IsFiniteSet(T)
  BY <1>2, <1>4, ExpectedInt
<1>7. Cardinality(S) = Cardinality(T) + 1
  BY ONLY <1>5, <1>6, FS_AddElement
<1>8. Exact(t, a) \in Int
  BY <1>1, <1>2, <1>3, FillFacts DEF Exact
<1>9. \A x : Exact(x, a)' = Exact(x, a)
  BY <1>2 DEF Exact
<1>10. PICK F, H : F = [x \in T |-> Exact(x, a)] /\ H = [x \in S |-> Exact(x, a)]
  OBVIOUS
<1>11. F \in [T -> Int]
  BY <1>2, <1>4, <1>10, ExpectedInt
<1>12. /\ H \in [T \cup {t} -> Int] /\ H[t] = Exact(t, a)
       /\ \A x \in T : H[x] = F[x]
  BY <1>5, <1>8, <1>10, <1>11
<1>13. SumFunction(H) = Exact(t, a) + SumFunction(F)
  BY ONLY <1>5, <1>6, <1>8, <1>11, <1>12, SumOfOneMore
<1>14. SumFunction(F) \in Int /\ Given(a) \in Int
  BY <1>2, <1>6, <1>11, SumFacts, ExpectedInt
<1>15. Expected(u, a) = Given(a) + SumFunction(F)
  BY <1>4, <1>10 DEF Expected
<1>16. Expected(u, a)' = Given(a) + SumFunction(H)
  BY <1>4, <1>9, <1>10 DEF Expected, Given
<1>17. Expected(u, a)' = Expected(u, a) + Exact(t, a)
  BY <1>8, <1>13, <1>14, <1>15, <1>16
<1> QED
  BY <1>1, <1>4, <1>7, <1>8, <1>17

\* What a commit writes is what the order moves, rounded.
LEMMA CommitMoves ==
  ASSUME IInv, NEW r \in Requests, Commit(r), NEW a \in Assets,
         NEW row, row = <<request[r].user, a>>,
         NEW d, d = Exact(TradeRow(r, request[r]), a)
  PROVE  \/ Available(row)' = Numeric(Available(row) + d)
         \/ /\ d = 0
            /\ Available(row)' = Available(row)
<1>1. PICK f : f = request[r] /\ row = <<f.user, a>>
  OBVIOUS
<1>2. pc[r] = "commit" /\ TypeOK /\ f \in Fills
  BY <1>1 DEF Commit, IInv, TypeOK
<1>3. TradeRow(r, request[r]).orderId = r
  BY DEF TradeRow
<1>4. /\ f.base \in BaseAssets /\ f.base # Quote /\ f.side \in {"buy", "sell"}
      /\ f.user \in Users /\ f.size \in Int /\ Cost(f) \in Int /\ CalculateFee(f) \in Int
  BY <1>2, FillFacts, AssetAssumption
<1>5. QuoteRow(r) = <<f.user, Quote>> /\ BaseRow(r) = <<f.user, f.base>>
  BY <1>1 DEF QuoteRow, BaseRow
<1>6. row \in Users \X Assets /\ Available(row) \in Int
  BY <1>1, <1>2, <1>4, RowFacts
<1>7. CASE a = Quote
  <2>1. Available(row) + d =
          IF f.side = "buy" THEN Available(row) - Cost(f) - CalculateFee(f)
          ELSE Available(row) + (Cost(f) - CalculateFee(f))
    <3>1. d = IF f.side = "buy" THEN - Cost(f) - CalculateFee(f)
              ELSE Cost(f) - CalculateFee(f)
      BY <1>1, <1>3, <1>4, <1>7 DEF Exact
    <3> QED
      BY ONLY <1>4, <1>6, <3>1
  <2>2. QuoteAfter(f, Available(row)) = Numeric(Available(row) + d)
    BY <2>1 DEF QuoteAfter
  <2>3. balances'[row] = QuoteAfter(f, Available(row))
    BY <1>1, <1>5, <1>7, CommitWrites
  <2>4. Available(row)' = balances'[row]
    BY <1>2, <1>6, <2>3, BalancesAfterInt, NoRowAssumption DEF Available
  <2> QED
    BY <1>1, <2>2, <2>3, <2>4
<1>8. CASE a = f.base
  <2>1. Available(row) + d =
          IF f.side = "buy" THEN Available(row) + f.size
          ELSE Available(row) - f.size
    <3>1. d = IF f.side = "buy" THEN f.size ELSE - f.size
      BY <1>1, <1>3, <1>4, <1>8 DEF Exact
    <3> QED
      BY ONLY <1>4, <1>6, <3>1
  <2>2. BaseAfter(f, Available(row)) = Numeric(Available(row) + d)
    BY <2>1 DEF BaseAfter
  <2>3. balances'[row] = BaseAfter(f, Available(row))
    BY <1>1, <1>5, <1>8, CommitWrites
  <2>4. Available(row)' = balances'[row]
    BY <1>2, <1>6, <2>3, BalancesAfterInt, NoRowAssumption DEF Available
  <2> QED
    BY <1>1, <2>2, <2>3, <2>4
<1>9. CASE a # Quote /\ a # f.base
  <2>1. d = 0
    BY <1>1, <1>3, <1>9 DEF Exact
  <2>2. balances'[row] = balances[row]
    BY <1>1, <1>5, <1>6, <1>9, CommitWrites
  <2> QED
    BY <1>1, <2>1, <2>2 DEF Available
<1> QED
  BY <1>7, <1>8, <1>9

\* Before the first account there is no trade.
LEMMA InitBook == Init => BookInv
  BY FS_EmptySet DEF Init, BookInv, TradesWereFilled, Explained, TradesOf, Assets

\* A trade is written by a request that is filled from then on.
LEMMA LogStep == IInv /\ TradesWereFilled /\ [Next]_vars => TradesWereFilled'
<1> SUFFICES ASSUME IInv, TradesWereFilled, [Next]_vars PROVE TradesWereFilled'
  OBVIOUS
<1>0. TypeOK
  BY DEF IInv
<1>1. ASSUME trades' = trades,
             \A r \in Requests : pc[r] = "filled" =>
                                   pc'[r] = "filled" /\ request'[r] = request[r]
      PROVE  TradesWereFilled'
  BY <1>1 DEF TradesWereFilled
<1>2. CASE (\E u \in Users : OpenAccount(u)) \/ UNCHANGED vars
  BY <1>1, <1>2 DEF OpenAccount, vars
<1>3. ASSUME NEW r \in Requests, NEW f \in Calls, Submit(r, f) PROVE TradesWereFilled'
  BY <1>0, <1>1, <1>3 DEF Submit, Goto, dbVars, TypeOK
<1>4. ASSUME NEW r \in Requests, Step(r) \/ Rollback(r) PROVE TradesWereFilled'
  <2>1. CASE Commit(r)
    <3>1. PICK t : t = TradeRow(r, request[r])
      OBVIOUS
    <3>2. t.orderId = r /\ t.user = request[r].user
      BY <3>1 DEF TradeRow
    <3>3. /\ trades' = trades \cup {t} /\ request' = request
          /\ pc'[r] = "filled" /\ \A s \in Requests : s # r => pc'[s] = pc[s]
      BY <1>0, <2>1, <3>1 DEF Commit, Goto, TypeOK
    <3>4. IsFiniteSet(trades')
      BY <3>3, FS_AddElement DEF TradesWereFilled
    <3> QED
      BY <3>2, <3>3, <3>4 DEF TradesWereFilled
  <2>2. CASE ~Commit(r)
    <3>1. trades' = trades /\ request' = request
      BY <1>4, <2>2
         DEF Step, Rollback, LockQuote, QuoteMissing, LockBase, CheckFunds,
             InsufficientFunds, RecordFill, UpdatePosition, dbVars
    <3>2. \A s \in Requests : pc[s] = "filled" => pc'[s] = "filled"
      BY <1>0, <1>4, <2>2
         DEF Step, Rollback, LockQuote, QuoteMissing, LockBase, CheckFunds, TypeOK,
             InsufficientFunds, RecordFill, UpdatePosition, Goto, InTransaction
    <3> QED
      BY <1>1, <3>1, <3>2
  <2> QED
    BY <2>1, <2>2
<1> QED
  BY <1>2, <1>3, <1>4 DEF Next, Quiescent

\* A step that leaves the rows of a user and its trades explains what it did.
LEMMA ExplainedStays ==
  ASSUME IInv, TradesWereFilled, NEW u \in Users, Explained(u),
         \A r \in Requests : pc[r] = "filled" => request'[r] = request[r],
         TradesOf(u)' = TradesOf(u),
         \A a \in Assets : balances'[<<u, a>>] = balances[<<u, a>>]
  PROVE  Explained(u)'
<1>1. /\ \A a : Expected(u, a)' = Expected(u, a)
      /\ \A a \in Assets : Available(<<u, a>>)' = Available(<<u, a>>)
  BY LogStays DEF Available
<1>2. Quote \in Assets
  BY DEF Assets
<1> QED
  BY <1>1, <1>2 DEF Explained, Near

\* Every step leaves every balance explained: only opening the account and a
\* commit of its user touch it.
LEMMA ExplainedStep ==
  ASSUME IInv, TradesWereFilled, [Next]_vars, NEW u \in Users, Explained(u)
  PROVE  Explained(u)'
<1>0. TypeOK /\ Quote \in Assets
  BY DEF IInv, Assets
<1>1. ASSUME NEW v \in Users, OpenAccount(v) PROVE Explained(u)'
  <2>1. /\ request' = request /\ TradesOf(u)' = TradesOf(u)
        /\ \A a \in Assets : balances[<<v, a>>] = NoRow
    BY <1>1 DEF OpenAccount, TradesOf
  <2>2. CASE u # v
    BY <1>0, <1>1, <2>1, <2>2, OpenIsLocal, ExplainedStays
  <2>3. CASE u = v
    <3>1. TradesOf(u) = {} /\ TradesOf(u)' = {}
      BY <1>0, <2>1, <2>3 DEF Explained
    <3>2. \A a \in Assets : balances'[<<u, a>>] =
            IF a \in DOMAIN InitialBalance THEN InitialBalance[a] ELSE NoRow
      BY <1>0, <1>1, <2>1, <2>3 DEF OpenAccount, TypeOK
    <3>3. \A a \in Assets : Given(a) \in Int /\ Available(<<u, a>>)' = Given(a)
      BY <3>2, AssetAssumption, NoRowAssumption DEF Available, Given
    <3>4. balances'[<<u, Quote>>] # NoRow
      BY <1>0, <3>2, AssetAssumption, NoRowAssumption
    <3>5. \A a : Expected(u, a) = Given(a)
      BY <1>0, <3>1, ExpectedInt
    <3>6. \A a : Expected(u, a)' = Expected(u, a)
      BY <2>1, LogStays
    <3>7. Cardinality(TradesOf(u)') \in Nat
      BY <3>1, FS_EmptySet
    <3>8. \A a \in Assets : Near(Given(a), Given(a), Cardinality(TradesOf(u)'))
      BY <3>3, <3>7, NearItself
    <3> QED
      BY <3>3, <3>4, <3>5, <3>6, <3>8 DEF Explained, Near
  <2> QED
    BY <2>2, <2>3
<1>2. ASSUME NEW r \in Requests, Commit(r) PROVE Explained(u)'
  <2>0. PICK t : t = TradeRow(r, request[r])
    OBVIOUS
  <2>1. /\ pc[r] = "commit" /\ pc[r] \in InTransaction /\ pc[r] # "idle"
        /\ request' = request /\ trades' = trades \cup {t}
        /\ t.user = request[r].user
    BY <1>2, <2>0 DEF Commit, InTransaction, TradeRow
  <2>2. CASE u # request[r].user
    <3>1. TradesOf(u)' = TradesOf(u)
      BY <2>1, <2>2 DEF TradesOf
    <3> QED
      BY <1>0, <1>2, <2>1, <2>2, <3>1, CommitIsLocal, ExplainedStays
  <2>3. CASE u = request[r].user
    <3>1. balances[<<u, Quote>>] # NoRow
      BY <2>1, <2>3 DEF IInv, AccountsInUseAreOpen, QuoteRow
    <3>2. balances'[<<u, Quote>>] # NoRow
      <4>1. request[r] \in Fills /\ QuoteRow(r) \in Users \X Assets
        BY <1>0, <2>1, RequestFacts
      <4>2. balances'[QuoteRow(r)] \in Int
        BY <1>0, <1>2, <4>1, RowFacts, CommitWrites, BalancesAfterInt
      <4> QED
        BY <2>3, <4>2, NoRowAssumption DEF QuoteRow
    <3>3. ASSUME NEW a \in Assets
          PROVE  Near(Available(<<u, a>>)', Expected(u, a)', Cardinality(TradesOf(u)'))
      <4>1. PICK x, y, n, d : /\ x = Available(<<u, a>>) /\ y = Expected(u, a)
                              /\ n = Cardinality(TradesOf(u)) /\ d = Exact(t, a)
        OBVIOUS
      <4>2. x \in Int /\ y \in Int /\ n \in Nat /\ d \in Int
        <5>1. <<u, a>> \in Users \X Assets
          BY <3>3
        <5>2. x \in Int
          BY <1>0, <4>1, <5>1, RowFacts
        <5> QED
          BY <1>0, <1>2, <2>0, <2>3, <4>1, <5>2, ExpectedInt, CommitExpected
      <4>3. Near(x, y, n)
        <5>1. Near(Available(<<u, a>>), Expected(u, a), Cardinality(TradesOf(u)))
          BY <1>0, <3>1, <3>3 DEF Explained
        <5> QED
          BY ONLY <4>1, <5>1
      <4>4. Expected(u, a)' = y + d /\ Cardinality(TradesOf(u)') = n + 1
        BY <1>2, <2>0, <2>3, <4>1, CommitExpected
      <4>5. \/ Available(<<u, a>>)' = Numeric(x + d)
            \/ d = 0 /\ Available(<<u, a>>)' = x
        BY <1>2, <2>0, <2>3, <4>1, CommitMoves
      <4>6. Near(Numeric(x + d), y + d, n + 1)
        BY <4>2, <4>3, NearStep
      <4>7. d = 0 => Near(x, y + d, n + 1)
        <5>1. Quantum * (n + 1) = Quantum * n + Quantum
          BY <4>2, AmountAssumption
        <5>2. Quantum * n \in Nat
          BY <4>2, AmountAssumption
        <5> QED
          BY <4>2, <4>3, <5>1, <5>2, AmountAssumption DEF Near, Distance
      <4> QED
        BY <4>4, <4>5, <4>6, <4>7
    <3> QED
      BY <3>2, <3>3 DEF Explained, Near
  <2> QED
    BY <2>2, <2>3
<1>3. CASE UNCHANGED dbVars /\ \A r \in Requests : pc[r] = "filled" => request'[r] = request[r]
  <2>1. TradesOf(u)' = TradesOf(u) /\ balances' = balances
    BY <1>3 DEF dbVars, TradesOf
  <2> QED
    BY <1>3, <2>1, ExplainedStays
<1>4. ASSUME NEW r \in Requests, NEW f \in Calls, Submit(r, f)
      PROVE  UNCHANGED dbVars /\ \A s \in Requests : pc[s] = "filled" => request'[s] = request[s]
  BY <1>0, <1>4 DEF Submit, TypeOK, dbVars
<1> QED
  BY <1>1, <1>2, <1>3, <1>4
     DEF Next, Step, Rollback, Quiescent, vars, dbVars, LockQuote, QuoteMissing,
         LockBase, CheckFunds, InsufficientFunds, RecordFill, UpdatePosition

LEMMA BookStep == IInv /\ BookInv /\ [Next]_vars => BookInv'
  BY LogStep, ExplainedStep DEF BookInv

\* What the trades of an account moved explains each of its balances, up to half
\* a unit of the column per trade: no order moves what its trade does not say.
THEOREM BalancesExplained == Spec => []TradesExplainBalances
<1>1. IInv /\ BookInv => TradesExplainBalances
  <2> SUFFICES ASSUME IInv, BookInv PROVE TradesExplainBalances
    OBVIOUS
  <2>1. TypeOK
    BY DEF IInv
  <2>2. ASSUME NEW u \in Users, NEW a \in Assets, balances[<<u, a>>] # NoRow
        PROVE  2 * Distance(balances[<<u, a>>], Expected(u, a))
                 <= Quantum * Cardinality(TradesOf(u))
    <3>1. Near(Available(<<u, a>>), Expected(u, a), Cardinality(TradesOf(u)))
      BY <2>2 DEF BookInv, Explained
    <3> QED
      BY <2>2, <3>1 DEF Near, Available
  <2> QED
    BY <2>1, <2>2 DEF TradesExplainBalances
<1> QED
  BY <1>1, InitBook, BookStep, Invariance, PTL DEF Spec

-----------------------------------------------------------------------------
\* The ledger's helpers are the ones used here.
LEMMA SameArithmetic ==
  ASSUME NEW f, NEW x, NEW y, NEW r
  PROVE  /\ L!Sufficient(f, x, y) = Sufficient(f, x, y)
         /\ L!QuoteAfter(f, x) = QuoteAfter(f, x)
         /\ L!BaseAfter(f, x) = BaseAfter(f, x)
         /\ L!PositionAfter(f, x) = PositionAfter(f, x)
         /\ L!OrderRow(r, f) = OrderRow(r, f)
         /\ L!TradeRow(r, f) = TradeRow(r, f)
  BY DEF L!Sufficient, Sufficient, L!QuoteAfter, QuoteAfter, L!BaseAfter, BaseAfter,
         L!PositionAfter, PositionAfter, L!OrderRow, OrderRow, L!TradeRow, TradeRow,
         L!Numeric, Numeric, L!Cost, Cost, L!CalculateFee, CalculateFee,
         L!AverageEntry, AverageEntry, L!RoundedQuotient, RoundedQuotient

\* The ledger reads the same rows.
LEMMA SameRows ==
  ASSUME NEW u, NEW a
  PROVE  /\ L!Available(u, a) = Available(<<u, a>>)
         /\ L!Position(u, a) = Position(<<u, a>>)
  BY DEF L!Available, Available, L!Position, Position, L!NoPosition, NoPosition

\* A commit is the whole order, executed at that moment.
LEMMA CommitExecutes ==
  ASSUME IInv, NEW r \in Requests, Commit(r)
  PROVE  L!Execute(r, request[r])
<1> DEFINE f == request[r]
<1>1. pc[r] = "commit" /\ pc[r] \in InTransaction /\ TypeOK /\ NotStale(r)
  BY DEF Commit, InTransaction, IInv, NothingStaleIsUsed
<1>2. \A o \in orders : o.id # r
  BY <1>1 DEF IInv, OrdersWereFilled
<1>3. balances[QuoteRow(r)] # NoRow
  BY <1>1 DEF IInv, AccountsInUseAreOpen
<1>4. Sufficient(f, Available(QuoteRow(r)), Available(BaseRow(r)))
  BY <1>1 DEF NotStale
<1>5. balances' = [balances EXCEPT
        ![QuoteRow(r)] = QuoteAfter(f, Available(QuoteRow(r))),
        ![BaseRow(r)] = BaseAfter(f, Available(BaseRow(r)))]
  BY <1>1 DEF Commit, NotStale
<1>6. positions' = [positions EXCEPT
        ![BaseRow(r)] = PositionAfter(f, Position(BaseRow(r)))]
  BY <1>1 DEF Commit, NotStale
<1>7. orders' = orders \cup {OrderRow(r, f)} /\ trades' = trades \cup {TradeRow(r, f)}
  BY DEF Commit
<1> HIDE DEF f
<1>8. QuoteRow(r) = <<f.user, Quote>> /\ BaseRow(r) = <<f.user, f.base>>
  BY DEF f, QuoteRow, BaseRow
<1> QED
  BY <1>2, <1>3, <1>4, <1>5, <1>6, <1>7, <1>8, SameArithmetic, SameRows
     DEF L!Execute, f

\* Opening an account is a step of the ledger.
LEMMA OpenAccountOpens ==
  ASSUME NEW u \in Users, OpenAccount(u)
  PROVE  L!OpenAccount(u)
  BY DEF OpenAccount, L!OpenAccount, L!Assets, Assets, L!NoPosition, NoPosition

\* Concurrent transactions behave like orders executed one at a time, each
\* against the account as it is then, or not at all.
THEOREM Refinement == Spec => RefinesLedger
<1>1. Init => L!LedgerInit
  BY DEF Init, L!LedgerInit, L!Assets, Assets
<1>2. IInv /\ [Next]_vars => [L!LedgerNext]_(L!ledgerVars)
  <2> SUFFICES ASSUME IInv, [Next]_vars PROVE [L!LedgerNext]_(L!ledgerVars)
    OBVIOUS
  <2>1. ASSUME NEW u \in Users, OpenAccount(u) PROVE L!LedgerNext
    BY <2>1, OpenAccountOpens DEF L!LedgerNext
  <2>2. ASSUME NEW r \in Requests, Commit(r) PROVE L!LedgerNext
    <3>1. request[r] \in Fills
      BY <2>2, RequestFacts DEF Commit, IInv
    <3>2. request[r] \in L!Fills
      BY <3>1 DEF Fills, L!Fills
    <3> QED
      BY <2>2, <3>2, CommitExecutes DEF L!LedgerNext
  <2>3. CASE UNCHANGED dbVars
    BY <2>3 DEF dbVars, L!ledgerVars
  <2> QED
    BY <2>1, <2>2, <2>3
       DEF Next, Submit, Step, Rollback, Quiescent, vars, dbVars, LockQuote, QuoteMissing,
           LockBase, CheckFunds, InsufficientFunds, RecordFill, UpdatePosition
<1> QED
  BY <1>1, <1>2, Invariance, PTL DEF Spec, RefinesLedger, L!LedgerSpec
=============================================================================

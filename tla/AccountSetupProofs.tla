-------------------------- MODULE AccountSetupProofs --------------------------
(***************************************************************************)
(* The theorems of AccountSetup, for any number of wallets, logins and     *)
(* orders: an account is whole, racing logins do not collide, and what     *)
(* they do to the tables is what Ledger promises.                          *)
(***************************************************************************)
EXTENDS AccountSetup, TradingStoreProofs

\* What the rows of an account say is covered: nothing is negative, and a
\* position is the holding.
Covered ==
  /\ \A u \in Users, a \in Assets : L!Available(u, a) >= 0
  /\ \A u \in Users, b \in BaseAssets :
       /\ L!Position(u, b).size = L!Available(u, b)
       /\ L!Position(u, b).avgEntryPrice >= 0

\* Who is in a transaction holds the lock of its wallet, and has found no
\* balance under it; what it inserted is all there is to insert once the loop
\* is over.
Locked(l) == pc[l] \in InTransaction => advisory[who[l]] = l

Unopened(l) ==
  /\ pc[l] \in {"create", "position", "commit"} => ~HasBalance(who[l])
  /\ pc[l] \in {"position", "commit"} => created[l] = Initial

LockedAndUnopened == \A l \in Logins : Locked(l) /\ Unopened(l)

\* Who is past the upsert has a user.
UserKnown ==
  \A l \in Logins : pc[l] \notin {"idle", "failed"} => who[l] \in users

IInv ==
  /\ AccountsAreWhole
  /\ Covered
  /\ LockedAndUnopened
  /\ UserKnown
  /\ LoggedInMeansOpen
  /\ NoDuplicateKey

-----------------------------------------------------------------------------
\* The ledger's helpers are the ones of TradingStore.
LEMMA SameArithmetic ==
  ASSUME NEW f, NEW x, NEW y, NEW r
  PROVE  /\ L!Sufficient(f, x, y) = Sufficient(f, x, y)
         /\ L!QuoteAfter(f, x) = QuoteAfter(f, x)
         /\ L!BaseAfter(f, x) = BaseAfter(f, x)
         /\ L!PositionAfter(f, x) = PositionAfter(f, x)
BY DEF L!Sufficient, Sufficient, L!QuoteAfter, QuoteAfter, L!BaseAfter, BaseAfter,
       L!PositionAfter, PositionAfter, L!Numeric, Numeric, L!Cost, Cost,
       L!CalculateFee, CalculateFee, L!AverageEntry, AverageEntry,
       L!RoundedQuotient, RoundedQuotient

\* What a row says is an integer, and a position.
LEMMA RowFacts ==
  ASSUME TypeOK
  PROVE  /\ \A u \in Users, a \in Assets : L!Available(u, a) \in Int
         /\ \A u \in Users, b \in BaseAssets : L!Position(u, b) \in Positions
BY DEF TypeOK, L!Available, L!Position, L!NoPosition, Positions

\* The rows an order writes.
LEMMA ExecuteWrites ==
  ASSUME TypeOK, Covered, NEW r \in Requests, NEW f \in Calls, L!Execute(r, f)
  PROVE  /\ f \in Fills /\ f.user \in Users /\ f.base \in BaseAssets
         /\ balances[<<f.user, Quote>>] # NoRow
         /\ \E q \in Nat, b \in Nat, p \in Positions :
              /\ balances' = [balances EXCEPT ![<<f.user, Quote>>] = q,
                                              ![<<f.user, f.base>>] = b]
              /\ positions' = [positions EXCEPT ![<<f.user, f.base>>] = p]
              /\ p.size = b /\ p.avgEntryPrice >= 0
<1> DEFINE quote == L!Available(f.user, Quote)
           base == L!Available(f.user, f.base)
           pos == L!Position(f.user, f.base)
<1>1. f \in Fills /\ f.user \in Users /\ f.base \in BaseAssets
  BY LoginAssumption, FillFacts
<1>2. quote \in Nat /\ base \in Nat
  BY <1>1, RowFacts DEF Covered, Assets
<1>3. pos \in Positions /\ pos.size = base /\ pos.avgEntryPrice >= 0
  BY <1>1, RowFacts DEF Covered
<1>4. /\ balances[<<f.user, Quote>>] # NoRow
      /\ Sufficient(f, quote, base)
      /\ balances' = [balances EXCEPT ![<<f.user, Quote>>] = QuoteAfter(f, quote),
                                      ![<<f.user, f.base>>] = BaseAfter(f, base)]
      /\ positions' = [positions EXCEPT ![<<f.user, f.base>>] = PositionAfter(f, pos)]
  BY SameArithmetic DEF L!Execute
<1> HIDE DEF quote, base, pos
<1>5. QuoteAfter(f, quote) \in Nat /\ BaseAfter(f, base) \in Nat
  BY <1>1, <1>2, <1>4, BalancesAfterNat
<1>6. f.side = "sell" => pos.size >= f.size
  BY <1>3, <1>4 DEF Sufficient
<1>7. /\ PositionAfter(f, pos) \in Positions
      /\ PositionAfter(f, pos).size = BaseAfter(f, base)
      /\ PositionAfter(f, pos).avgEntryPrice >= 0
  BY <1>1, <1>2, <1>3, <1>6, PositionAfterNat, HoldingAfter
<1> QED
  BY <1>1, <1>4, <1>5, <1>7

-----------------------------------------------------------------------------
\* Initially there are no accounts.
LEMMA InitIInv == Init => IInv
<1> SUFFICES ASSUME Init PROVE IInv
  OBVIOUS
<1>1. balances = [row \in Users \X Assets |-> NoRow]
      /\ positions = [row \in Users \X BaseAssets |-> NoRow]
  BY DEF Init, L!LedgerInit, L!Assets, Assets
<1>2. TypeOK
  BY <1>1 DEF Init, TypeOK
<1>3. AccountsAreWhole
  BY <1>1, <1>2 DEF AccountsAreWhole
<1>4. Covered
  BY <1>1 DEF Covered, L!Available, L!Position, L!NoPosition, Assets
<1>5. LockedAndUnopened /\ UserKnown /\ LoggedInMeansOpen /\ NoDuplicateKey
  BY DEF Init, LockedAndUnopened, Locked, Unopened, UserKnown, LoggedInMeansOpen,
         NoDuplicateKey, InTransaction
<1> QED
  BY <1>3, <1>4, <1>5 DEF IInv

\* A login writes to the tables when it commits, and then all of the account.
LEMMA CommitWrites ==
  ASSUME IInv, NEW l \in Logins, Commit(l)
  PROVE  /\ who[l] \in Users /\ \A a \in Assets : balances[<<who[l], a>>] = NoRow
         /\ \A b \in BaseAssets : positions[<<who[l], b>>] = NoRow
         /\ balances' = [row \in Users \X Assets |->
                           IF row[1] = who[l] /\ row[2] \in Initial
                           THEN InitialBalance[row[2]] ELSE balances[row]]
         /\ positions' = [positions EXCEPT ![<<who[l], Sol>>] = NoPosition]
         /\ UNCHANGED <<orders, trades>>
<1>1. who[l] \in Users
  BY DEF IInv, AccountsAreWhole, TypeOK
<1>2. ~HasBalance(who[l]) /\ created[l] = Initial
  BY DEF Commit, IInv, LockedAndUnopened, Unopened
<1>3. \A a \in Assets : balances[<<who[l], a>>] = NoRow
  BY <1>2 DEF HasBalance
<1>4. \A b \in BaseAssets : positions[<<who[l], b>>] = NoRow
  BY <1>1, <1>3, AssetAssumption DEF IInv, AccountsAreWhole, Initial, Assets
<1> QED
  BY <1>1, <1>2, <1>3, <1>4 DEF Commit, WriteRows

\* What else a step can do to the tables.
LEMMA TablesStep ==
  ASSUME [Next]_vars
  PROVE  \/ \E l \in Logins : Commit(l)
         \/ \E r \in Requests, f \in Calls : L!Execute(r, f)
         \/ UNCHANGED dbVars
BY DEF Next, Step, UpsertUser, FindBalances, TakeAdvisoryLock, AlreadyInitialised,
       NotInitialised, CreateBalance, CreatePosition, Fail, Trade, Quiescent, vars, dbVars

\* The rows of an account.
Whole(u) ==
  \/ (\A a \in Initial : balances[<<u, a>>] # NoRow) /\ positions[<<u, Sol>>] # NoRow
  \/ /\ \A a \in Assets : balances[<<u, a>>] = NoRow
     /\ \A b \in BaseAssets : positions[<<u, b>>] = NoRow

\* Rows keep their type, accounts stay whole and covered, and none is deleted.
LEMMA RowsStep ==
  ASSUME IInv, [Next]_vars
  PROVE  /\ balances' \in [Users \X Assets -> Int \cup {NoRow}]
         /\ positions' \in [Users \X BaseAssets -> Positions \cup {NoRow}]
         /\ \A u \in Users : Whole(u)'
         /\ Covered'
         /\ \A u \in Users : HasBalance(u) => HasBalance(u)'
<1> USE NoRowAssumption
<1>0. TypeOK /\ Covered /\ \A u \in Users : Whole(u)
  BY DEF IInv, AccountsAreWhole, Whole
<1>1. ASSUME NEW l \in Logins, Commit(l)
      PROVE  /\ balances' \in [Users \X Assets -> Int \cup {NoRow}]
             /\ positions' \in [Users \X BaseAssets -> Positions \cup {NoRow}]
             /\ \A u \in Users : Whole(u)'
             /\ Covered'
             /\ \A u \in Users : HasBalance(u) => HasBalance(u)'
  <2>1. /\ who[l] \in Users /\ \A a \in Assets : balances[<<who[l], a>>] = NoRow
        /\ \A c \in BaseAssets : positions[<<who[l], c>>] = NoRow
        /\ balances' = [row \in Users \X Assets |->
                          IF row[1] = who[l] /\ row[2] \in Initial
                          THEN InitialBalance[row[2]] ELSE balances[row]]
        /\ positions' = [positions EXCEPT ![<<who[l], Sol>>] = NoPosition]
    BY <1>1, CommitWrites
  <2>2. /\ \A a \in Initial : InitialBalance[a] \in Nat /\ a \in Assets
        /\ \A a \in Initial \cap BaseAssets : a = Sol /\ InitialBalance[a] = 0
        /\ Sol \in Initial /\ Sol \in BaseAssets /\ Sol \in Assets
        /\ Quote \notin BaseAssets /\ NoPosition \in Positions /\ NoPosition # NoRow
    BY AssetAssumption DEF Initial, Assets, NoPosition, Positions
  <2>3. \A u \in Users, a \in Assets :
          balances'[<<u, a>>] = IF u = who[l] /\ a \in Initial
                                THEN InitialBalance[a] ELSE balances[<<u, a>>]
    BY <2>1
  <2>4. \A u \in Users, c \in BaseAssets :
          positions'[<<u, c>>] = IF u = who[l] /\ c = Sol
                                 THEN NoPosition ELSE positions[<<u, c>>]
    BY <1>0, <2>1, <2>2 DEF TypeOK
  <2>5. /\ balances' \in [Users \X Assets -> Int \cup {NoRow}]
        /\ positions' \in [Users \X BaseAssets -> Positions \cup {NoRow}]
    BY <1>0, <2>1, <2>2 DEF TypeOK
  <2>6. ASSUME NEW u \in Users PROVE Whole(u)'
    <3>1. CASE u = who[l]
      BY <2>2, <2>3, <2>4, <3>1 DEF Whole
    <3>2. CASE u # who[l]
      <4>1. /\ \A a \in Assets : balances'[<<u, a>>] = balances[<<u, a>>]
            /\ \A c \in BaseAssets : positions'[<<u, c>>] = positions[<<u, c>>]
        BY <2>3, <2>4, <3>2
      <4> QED
        BY <1>0, <2>2, <4>1 DEF Whole
    <3> QED
      BY <3>1, <3>2
  <2>7. Covered'
    <3>1. ASSUME NEW u \in Users, NEW a \in Assets PROVE L!Available(u, a)' >= 0
      <4>1. CASE u = who[l] /\ a \in Initial
        BY <2>2, <2>3, <4>1 DEF L!Available
      <4>2. CASE ~(u = who[l] /\ a \in Initial)
        <5>1. L!Available(u, a)' = L!Available(u, a)
          BY <2>3, <4>2 DEF L!Available
        <5> QED
          BY <1>0, <5>1 DEF Covered
      <4> QED
        BY <4>1, <4>2
    <3>2. ASSUME NEW u \in Users, NEW c \in BaseAssets
          PROVE  /\ L!Position(u, c)'.size = L!Available(u, c)'
                 /\ L!Position(u, c)'.avgEntryPrice >= 0
      <4>0. c \in Assets
        BY DEF Assets
      <4>1. CASE u = who[l] /\ c = Sol
        <5>1. balances'[<<u, c>>] = 0 /\ positions'[<<u, c>>] = NoPosition
          BY <2>2, <2>3, <2>4, <4>1
        <5> QED
          BY <5>1, <2>2 DEF L!Available, L!Position, NoPosition
      <4>2. CASE ~(u = who[l] /\ c = Sol)
        <5>1. /\ balances'[<<u, c>>] = balances[<<u, c>>]
              /\ positions'[<<u, c>>] = positions[<<u, c>>]
          BY <2>2, <2>3, <2>4, <4>0, <4>2
        <5>2. /\ L!Available(u, c)' = L!Available(u, c)
              /\ L!Position(u, c)' = L!Position(u, c)
          BY <5>1 DEF L!Available, L!Position
        <5> QED
          BY <1>0, <5>2 DEF Covered
      <4> QED
        BY <4>1, <4>2
    <3> QED
      BY <3>1, <3>2 DEF Covered
  <2>8. \A u \in Users : HasBalance(u) => HasBalance(u)'
    BY <2>1, <2>3 DEF HasBalance
  <2> QED
    BY <2>5, <2>6, <2>7, <2>8
<1>2. ASSUME NEW r \in Requests, NEW f \in Calls, L!Execute(r, f)
      PROVE  /\ balances' \in [Users \X Assets -> Int \cup {NoRow}]
             /\ positions' \in [Users \X BaseAssets -> Positions \cup {NoRow}]
             /\ \A u \in Users : Whole(u)'
             /\ Covered'
             /\ \A u \in Users : HasBalance(u) => HasBalance(u)'
  <2> PICK q \in Nat, b \in Nat, p \in Positions :
              /\ balances' = [balances EXCEPT ![<<f.user, Quote>>] = q,
                                              ![<<f.user, f.base>>] = b]
              /\ positions' = [positions EXCEPT ![<<f.user, f.base>>] = p]
              /\ p.size = b /\ p.avgEntryPrice >= 0
    BY <1>0, <1>2, ExecuteWrites
  <2>1. /\ f.user \in Users /\ f.base \in BaseAssets /\ f.base # Quote
        /\ balances[<<f.user, Quote>>] # NoRow
    BY <1>0, <1>2, ExecuteWrites, AssetAssumption
  <2>2. /\ balances' \in [Users \X Assets -> Int \cup {NoRow}]
        /\ positions' \in [Users \X BaseAssets -> Positions \cup {NoRow}]
    BY <1>0, <2>1 DEF TypeOK, Assets
  <2>3. \A row \in Users \X Assets :
          balances'[row] = IF row = <<f.user, f.base>> THEN b
                           ELSE IF row = <<f.user, Quote>> THEN q ELSE balances[row]
    BY <1>0, <2>1 DEF TypeOK, Assets
  <2>4. \A row \in Users \X BaseAssets :
          positions'[row] = IF row = <<f.user, f.base>> THEN p ELSE positions[row]
    BY <1>0, <2>1 DEF TypeOK
  <2>5. b # NoRow /\ q # NoRow /\ p # NoRow
    BY DEF Positions
  <2>6. ASSUME NEW u \in Users PROVE Whole(u)'
    <3>1. CASE u = f.user
      <4>1. /\ \A a \in Initial : balances[<<u, a>>] # NoRow
            /\ positions[<<u, Sol>>] # NoRow
        BY <1>0, <2>1, <3>1 DEF Whole, Assets
      <4>2. ASSUME NEW a \in Initial PROVE balances'[<<u, a>>] # NoRow
        <5>1. <<u, a>> \in Users \X Assets
          BY AssetAssumption DEF Initial, Assets
        <5>2. balances'[<<u, a>>] \in {b, q, balances[<<u, a>>]}
          BY <2>3, <5>1
        <5> QED
          BY <2>5, <4>1, <5>2
      <4>3. positions'[<<u, Sol>>] # NoRow
        BY <2>4, <2>5, <4>1, AssetAssumption
      <4> QED
        BY <4>2, <4>3 DEF Whole
    <3>2. CASE u # f.user
      <4>1. /\ \A a \in Assets : balances'[<<u, a>>] = balances[<<u, a>>]
            /\ \A c \in BaseAssets : positions'[<<u, c>>] = positions[<<u, c>>]
        BY <2>3, <2>4, <3>2
      <4> QED
        BY <1>0, <4>1, AssetAssumption DEF Whole, Initial, Assets
    <3> QED
      BY <3>1, <3>2
  <2>7. Covered'
    <3>1. ASSUME NEW u \in Users, NEW a \in Assets PROVE L!Available(u, a)' >= 0
      <4>1. balances'[<<u, a>>] \in {b, q, balances[<<u, a>>]}
        BY <2>3
      <4>2. CASE balances'[<<u, a>>] \in {b, q}
        BY <4>2 DEF L!Available
      <4>3. CASE balances'[<<u, a>>] = balances[<<u, a>>]
        <5>1. L!Available(u, a)' = L!Available(u, a)
          BY <4>3 DEF L!Available
        <5> QED
          BY <1>0, <5>1 DEF Covered
      <4> QED
        BY <4>1, <4>2, <4>3
    <3>2. ASSUME NEW u \in Users, NEW c \in BaseAssets
          PROVE  /\ L!Position(u, c)'.size = L!Available(u, c)'
                 /\ L!Position(u, c)'.avgEntryPrice >= 0
      <4>1. CASE u = f.user /\ c = f.base
        BY <2>1, <2>3, <2>4, <2>5, <4>1 DEF L!Available, L!Position, Assets
      <4>2. CASE u # f.user \/ c # f.base
        <5>1. /\ balances'[<<u, c>>] = balances[<<u, c>>]
              /\ positions'[<<u, c>>] = positions[<<u, c>>]
          BY <2>1, <2>3, <2>4, <4>2, AssetAssumption DEF Assets
        <5>2. /\ L!Available(u, c)' = L!Available(u, c)
              /\ L!Position(u, c)' = L!Position(u, c)
          BY <5>1 DEF L!Available, L!Position
        <5> QED
          BY <1>0, <5>2 DEF Covered
      <4> QED
        BY <4>1, <4>2
    <3> QED
      BY <3>1, <3>2 DEF Covered
  <2>8. \A u \in Users : HasBalance(u) => HasBalance(u)'
    BY <2>3, <2>5 DEF HasBalance
  <2> QED
    BY <2>2, <2>6, <2>7, <2>8
<1>3. CASE UNCHANGED dbVars
  BY <1>0, <1>3 DEF dbVars, TypeOK, Whole, Covered, HasBalance, L!Available, L!Position
<1> QED
  BY <1>1, <1>2, <1>3, TablesStep

\* The variables of the logins keep their type.
LEMMA LoginTypeStep ==
  ASSUME IInv, [Next]_vars
  PROVE  /\ users' \subseteq Users
         /\ advisory' \in [Users -> Logins \cup {NoTx}]
         /\ created' \in [Logins -> SUBSET Initial]
         /\ who' \in [Logins -> Users]
         /\ pc' \in [Logins -> {"idle", "find", "lock"} \cup InTransaction \cup Answered]
<1> USE DEF IInv, AccountsAreWhole, TypeOK, InTransaction, Answered, Goto, EndTransaction
<1>1. ASSUME NEW l \in Logins, Step(l) \/ Fail(l)
      PROVE  /\ users' \subseteq Users
             /\ advisory' \in [Users -> Logins \cup {NoTx}]
             /\ created' \in [Logins -> SUBSET Initial]
             /\ who' \in [Logins -> Users]
             /\ pc' \in [Logins -> {"idle", "find", "lock"} \cup InTransaction \cup Answered]
  <2>1. CASE UpsertUser(l) \/ FindBalances(l) \/ NotInitialised(l) \/ CreatePosition(l)
    BY <2>1 DEF UpsertUser, FindBalances, NotInitialised, CreatePosition
  <2>2. CASE TakeAdvisoryLock(l)
    BY <2>2 DEF TakeAdvisoryLock
  <2>3. CASE AlreadyInitialised(l) \/ Commit(l) \/ Fail(l)
    BY <2>3 DEF AlreadyInitialised, Commit, Fail
  <2>4. CASE CreateBalance(l)
    BY <2>4 DEF CreateBalance
  <2> QED
    BY <1>1, <2>1, <2>2, <2>3, <2>4 DEF Step
<1>2. CASE UNCHANGED <<users, advisory, created, who, pc>>
  BY <1>2
<1> QED
  BY <1>1, <1>2 DEF Next, Trade, Quiescent, vars

\* Another login's lock is left alone.
LEMMA LocksStay ==
  ASSUME IInv, NEW l \in Logins, Step(l) \/ Fail(l), NEW k \in Logins, k # l
  PROVE  /\ pc'[k] = pc[k] /\ created'[k] = created[k] /\ who' = who
         /\ advisory[who[k]] = k => advisory'[who[k]] = k
<1> USE LoginAssumption DEF IInv, AccountsAreWhole, TypeOK, Goto, EndTransaction
<1>1. CASE UpsertUser(l) \/ FindBalances(l) \/ NotInitialised(l) \/ CreatePosition(l)
  BY <1>1 DEF UpsertUser, FindBalances, NotInitialised, CreatePosition
<1>2. CASE TakeAdvisoryLock(l)
  BY <1>2 DEF TakeAdvisoryLock
<1>3. CASE AlreadyInitialised(l) \/ Commit(l) \/ Fail(l)
  BY <1>3 DEF AlreadyInitialised, Commit, Fail
<1>4. CASE CreateBalance(l)
  BY <1>4 DEF CreateBalance
<1> QED
  BY <1>1, <1>2, <1>3, <1>4 DEF Step

\* A login that is in its transaction has it for itself: its wallet gets no
\* balance from anybody else.
LEMMA UnopenedStays ==
  ASSUME IInv, [Next]_vars, NEW k \in Logins,
         pc[k] \in {"create", "position", "commit"}, ~Commit(k)
  PROVE  ~HasBalance(who[k])'
<1> USE DEF IInv
<1>1. who' = who /\ who[k] \in Users /\ ~HasBalance(who[k])
  BY DEF Next, Step, UpsertUser, FindBalances, TakeAdvisoryLock, AlreadyInitialised,
         NotInitialised, CreateBalance, CreatePosition, Commit, Fail, Trade, Quiescent,
         vars, AccountsAreWhole, TypeOK, LockedAndUnopened, Unopened
<1>2. ASSUME \A a \in Assets : balances'[<<who[k], a>>] = balances[<<who[k], a>>]
      PROVE  ~HasBalance(who[k])'
  BY <1>1, <1>2 DEF HasBalance
<1>3. ASSUME NEW l \in Logins, Commit(l)
      PROVE  \A a \in Assets : balances'[<<who[k], a>>] = balances[<<who[k], a>>]
  <2>1. l # k /\ advisory[who[l]] = l /\ advisory[who[k]] = k
    BY <1>3 DEF Commit, LockedAndUnopened, Locked, InTransaction
  <2> QED
    BY <1>1, <1>3, <2>1, CommitWrites
<1>4. ASSUME NEW r \in Requests, NEW f \in Calls, L!Execute(r, f)
      PROVE  \A a \in Assets : balances'[<<who[k], a>>] = balances[<<who[k], a>>]
  <2>0. TypeOK
    BY DEF AccountsAreWhole
  <2>1. /\ f.user \in Users /\ f.base \in BaseAssets
        /\ balances[<<f.user, Quote>>] # NoRow
    BY <1>4, <2>0, ExecuteWrites
  <2>. PICK q \in Nat, b \in Nat :
         balances' = [balances EXCEPT ![<<f.user, Quote>>] = q,
                                      ![<<f.user, f.base>>] = b]
    BY <1>4, <2>0, ExecuteWrites
  <2>2. f.user # who[k]
    BY <1>1, <2>1 DEF HasBalance, Assets
  <2> QED
    BY <1>1, <2>0, <2>1, <2>2 DEF TypeOK
<1> QED
  BY <1>2, <1>3, <1>4, TablesStep DEF dbVars

\* What holds of every login: its lock, what it found under it, its user, and
\* that it is answered by an account that is there.
LEMMA LoginStep ==
  ASSUME IInv, [Next]_vars
  PROVE  LockedAndUnopened' /\ UserKnown' /\ LoggedInMeansOpen' /\ NoDuplicateKey'
<1> DEFINE Good(k) == /\ Locked(k) /\ Unopened(k)
                      /\ pc[k] \notin {"idle", "failed"} => who[k] \in users
                      /\ pc[k] = "done" => HasBalance(who[k])
                      /\ pc[k] # "conflict"
<1> USE DEF IInv
<1>1. \A k \in Logins : Good(k) /\ who[k] \in Users
  BY DEF LockedAndUnopened, UserKnown, LoggedInMeansOpen, NoDuplicateKey,
         AccountsAreWhole, TypeOK
<1>2. \A u \in Users : HasBalance(u) => HasBalance(u)'
  BY RowsStep
<1>3. who' = who /\ users \subseteq users'
  BY DEF Next, Step, UpsertUser, FindBalances, TakeAdvisoryLock, AlreadyInitialised,
         NotInitialised, CreateBalance, CreatePosition, Commit, Fail, Trade, Quiescent, vars
<1>4. ASSUME NEW k \in Logins, pc'[k] = pc[k], created'[k] = created[k],
             advisory[who[k]] = k => advisory'[who[k]] = k
      PROVE  Good(k)'
  <2>1. ~Commit(k)
    BY <1>4 DEF Commit, Goto, AccountsAreWhole, TypeOK
  <2>2. pc[k] \in {"create", "position", "commit"} => ~HasBalance(who[k])'
    BY <2>1, UnopenedStays
  <2>3. pc[k] = "done" => HasBalance(who[k])'
    BY <1>1, <1>2, <1>3
  <2> QED
    BY <1>1, <1>3, <1>4, <2>2, <2>3 DEF Locked, Unopened
<1>5. ASSUME NEW l \in Logins, Step(l) \/ Fail(l) PROVE Good(l)'
  <2>0. /\ pc \in [Logins -> {"idle", "find", "lock"} \cup InTransaction \cup Answered]
        /\ created \in [Logins -> SUBSET Initial]
        /\ advisory \in [Users -> Logins \cup {NoTx}]
        /\ who \in [Logins -> Users]
    BY DEF AccountsAreWhole, TypeOK
  <2>1. Good(l) /\ who[l] \in Users
    BY <1>1
  <2>2. pc[l] \in {"create", "position", "commit"} /\ ~Commit(l) => ~HasBalance(who[l])'
    BY UnopenedStays
  <2> USE <1>3, <2>0, <2>1 DEF Goto, EndTransaction, Locked, Unopened, InTransaction
  <2>3. CASE UpsertUser(l)
    BY <2>3 DEF UpsertUser
  <2>4. CASE FindBalances(l)
    BY <1>2, <2>4 DEF FindBalances
  <2>5. CASE TakeAdvisoryLock(l)
    BY <2>5 DEF TakeAdvisoryLock
  <2>6. CASE AlreadyInitialised(l)
    BY <1>2, <2>6 DEF AlreadyInitialised
  <2>7. CASE NotInitialised(l)
    BY <2>7 DEF NotInitialised, dbVars, HasBalance
  <2>8. CASE CreateBalance(l)
    <3>1. \A a \in Initial : balances[<<who[l], a>>] = NoRow
      BY <2>8, AssetAssumption DEF CreateBalance, HasBalance, Initial, Assets
    <3>2. /\ pc'[l] \in {"create", "position"} /\ advisory' = advisory
          /\ pc'[l] = "position" => created'[l] = Initial
      BY <2>8, <3>1 DEF CreateBalance
    <3>3. ~HasBalance(who[l])'
      BY <2>2, <2>8 DEF CreateBalance, Commit
    <3> QED
      BY <2>8, <3>2, <3>3 DEF CreateBalance
  <2>9. CASE CreatePosition(l)
    BY <2>2, <2>9 DEF CreatePosition, Commit
  <2>10. CASE Commit(l)
    <3>1. balances'[<<who[l], Sol>>] = InitialBalance[Sol]
      BY <2>10, CommitWrites, AssetAssumption DEF Initial, Assets
    <3>2. HasBalance(who[l])'
      BY <3>1, AssetAssumption, NoRowAssumption DEF HasBalance, Assets
    <3> QED
      BY <2>10, <3>2 DEF Commit
  <2>11. CASE Fail(l)
    BY <2>11 DEF Fail
  <2> QED
    BY <1>5, <2>3, <2>4, <2>5, <2>6, <2>7, <2>8, <2>9, <2>10, <2>11 DEF Step
<1>6. ASSUME NEW k \in Logins PROVE Good(k)'
  <2>1. ASSUME NEW l \in Logins, Step(l) \/ Fail(l), k # l PROVE Good(k)'
    BY <1>4, <2>1, LocksStay
  <2>2. CASE UNCHANGED <<users, advisory, created, who, pc>>
    BY <1>4, <2>2
  <2> QED
    BY <1>5, <2>1, <2>2 DEF Next, Trade, Quiescent, vars
<1> QED
  BY <1>3, <1>6 DEF LockedAndUnopened, UserKnown, LoggedInMeansOpen, NoDuplicateKey

\* Each part of the invariant is kept by every step.
LEMMA Inductive == IInv /\ [Next]_vars => IInv'
<1> SUFFICES ASSUME IInv, [Next]_vars PROVE IInv'
  OBVIOUS
<1>1. TypeOK'
  BY RowsStep, LoginTypeStep DEF TypeOK
<1>2. AccountsAreWhole' /\ Covered'
  BY <1>1, RowsStep DEF AccountsAreWhole, Whole
<1> QED
  BY <1>2, LoginStep DEF IInv

\* IInv holds throughout.
THEOREM Invariance == Spec => []IInv
  BY InitIInv, Inductive, PTL DEF Spec

-----------------------------------------------------------------------------
\* However many logins of a wallet race, fail half way or come while orders are
\* executed, its account is there as a whole or not at all.
THEOREM WholeAccounts == Spec => []AccountsAreWhole
  BY Invariance, PTL DEF IInv

\* No user is returned before the account is there.
THEOREM OpenWhenLoggedIn == Spec => []LoggedInMeansOpen
  BY Invariance, PTL DEF IInv

\* The advisory lock and the second look under it are enough: no login ever runs
\* into the unique key.
THEOREM NoCollision == Spec => []NoDuplicateKey
  BY Invariance, PTL DEF IInv

\* Logins and orders together implement the ledger: a commit opens the account,
\* nothing else a login does touches the tables.
THEOREM Refinement == Spec => RefinesLedger
<1>1. Init => L!LedgerInit
  BY DEF Init
<1>2. IInv /\ [Next]_vars => [L!LedgerNext]_(L!ledgerVars)
  <2> SUFFICES ASSUME IInv, [Next]_vars PROVE [L!LedgerNext]_(L!ledgerVars)
    OBVIOUS
  <2>1. ASSUME NEW l \in Logins, Commit(l) PROVE L!LedgerNext
    <3>1. who[l] \in Users /\ L!OpenAccount(who[l])
      BY <2>1, CommitWrites
         DEF L!OpenAccount, L!Assets, Assets, L!NoPosition, NoPosition, Initial
    <3> QED
      BY <3>1 DEF L!LedgerNext
  <2>2. ASSUME NEW r \in Requests, NEW f \in Calls, L!Execute(r, f) PROVE L!LedgerNext
    <3>1. f \in L!Fills
      BY LoginAssumption DEF Fills, L!Fills
    <3> QED
      BY <2>2, <3>1 DEF L!LedgerNext
  <2>3. CASE UNCHANGED dbVars
    BY <2>3 DEF dbVars, L!ledgerVars
  <2> QED
    BY <2>1, <2>2, <2>3, TablesStep
<1> QED
  BY <1>1, <1>2, Invariance, PTL DEF Spec, RefinesLedger, L!LedgerSpec
=============================================================================

---------------------------- MODULE AccountSetup ----------------------------
(***************************************************************************)
(* createOrGetUser (packages/auth/src/user.ts) and initPortfolio           *)
(* (packages/trading/src/portfolio.ts): what a login does to the database. *)
(* Several logins of one wallet may run at once, each can fail between any *)
(* two statements, and orders are executed meanwhile.  initPortfolio is a  *)
(* transaction: its inserts are kept in created until it commits.  The     *)
(* unique key of balances and positions makes an insert wait for another   *)
(* transaction that inserted the same key, and fail once that one commits. *)
(***************************************************************************)
EXTENDS TradingStore

CONSTANTS
  Requests, Calls,  \* the orders placed meanwhile, as in OrderExecution
  Logins,           \* the calls of createOrGetUser
  NoTx

VARIABLES
  balances, positions, orders, trades,
  users,     \* the rows of the users table
  advisory,  \* [user |-> the login whose transaction holds its advisory lock]
  created,   \* [login |-> the assets whose balance its transaction inserted]
  who,       \* [login |-> its user]
  pc

dbVars == <<balances, positions, orders, trades>>

vars == <<balances, positions, orders, trades, users, advisory, created, who, pc>>

ASSUME LoginAssumption ==
  /\ NoTx \notin Logins
  /\ Calls \subseteq Fills

Initial == DOMAIN InitialBalance

InTransaction == {"check", "create", "position", "commit"}

\* A login ends with the user, with an error of the surroundings, or with a
\* violated unique key.
Answered == {"done", "failed", "conflict"}

TypeOK ==
  /\ balances \in [Users \X Assets -> Int \cup {NoRow}]
  /\ positions \in [Users \X BaseAssets -> Positions \cup {NoRow}]
  /\ users \subseteq Users
  /\ advisory \in [Users -> Logins \cup {NoTx}]
  /\ created \in [Logins -> SUBSET Initial]
  /\ who \in [Logins -> Users]
  /\ pc \in [Logins -> {"idle", "find", "lock"} \cup InTransaction \cup Answered]

-----------------------------------------------------------------------------
L == INSTANCE Ledger
       WITH balances <- balances, positions <- positions, orders <- orders,
            trades <- trades, Requests <- Requests

Goto(l, label) == pc' = [pc EXCEPT ![l] = label]

Init ==
  /\ L!LedgerInit
  /\ users = {}
  /\ advisory = [u \in Users |-> NoTx]
  /\ created = [l \in Logins |-> {}]
  /\ who \in [Logins -> Users]
  /\ pc = [l \in Logins |-> "idle"]

\* users.upsert
UpsertUser(l) ==
  /\ pc[l] = "idle"
  /\ users' = users \cup {who[l]}
  /\ Goto(l, "find")
  /\ UNCHANGED <<dbVars, advisory, created, who>>

HasBalance(u) == \E a \in Assets : balances[<<u, a>>] # NoRow

\* Variant: the user is returned without waiting for the portfolio.
ReturnAtOnce(l) ==
  /\ pc[l] = "find"
  /\ Goto(l, "done")
  /\ UNCHANGED <<dbVars, users, advisory, created, who>>

\* balances.findFirst, outside any transaction.
FindBalances(l) ==
  /\ pc[l] = "find"
  /\ Goto(l, IF HasBalance(who[l]) THEN "done" ELSE "lock")
  /\ UNCHANGED <<dbVars, users, advisory, created, who>>

\* Variant: no pg_advisory_xact_lock.
BeginUnlocked(l) ==
  /\ pc[l] = "lock"
  /\ advisory' = advisory
  /\ Goto(l, "check")
  /\ UNCHANGED <<dbVars, users, created, who>>

\* pg_advisory_xact_lock(userId) waits for the transaction that holds it.
TakeAdvisoryLock(l) ==
  /\ pc[l] = "lock"
  /\ advisory[who[l]] = NoTx
  /\ advisory' = [advisory EXCEPT ![who[l]] = l]
  /\ Goto(l, "check")
  /\ UNCHANGED <<dbVars, users, created, who>>

EndTransaction(l) ==
  /\ advisory' = [u \in Users |-> IF advisory[u] = l THEN NoTx ELSE advisory[u]]
  /\ created' = [created EXCEPT ![l] = {}]

\* Variant: the early return leaves the transaction open.
ReturnInTransaction(l) ==
  /\ pc[l] = "check"
  /\ HasBalance(who[l])
  /\ Goto(l, "done")
  /\ UNCHANGED <<dbVars, users, advisory, created, who>>

\* The balances are looked for again, under the lock: "if (existing) return".
AlreadyInitialised(l) ==
  /\ pc[l] = "check"
  /\ HasBalance(who[l])
  /\ EndTransaction(l)
  /\ Goto(l, "done")
  /\ UNCHANGED <<dbVars, users, who>>

NotInitialised(l) ==
  /\ pc[l] = "check"
  /\ ~HasBalance(who[l])
  /\ Goto(l, "create")
  /\ UNCHANGED <<dbVars, users, advisory, created, who>>

\* Variant: the inserts are not in one transaction.
CreateBalanceAtOnce(l) ==
  /\ pc[l] = "create"
  /\ \E a \in Initial \ created[l] :
       /\ balances' = [balances EXCEPT ![<<who[l], a>>] = InitialBalance[a]]
       /\ created' = [created EXCEPT ![l] = @ \cup {a}]
       /\ Goto(l, IF created'[l] = Initial THEN "position" ELSE "create")
  /\ UNCHANGED <<positions, orders, trades, users, advisory, who>>

\* One balances.create of the loop over INITIAL_BALANCE.
CreateBalance(l) ==
  /\ pc[l] = "create"
  /\ \E a \in Initial \ created[l] :
       /\ \A k \in Logins \ {l} : who[k] = who[l] => a \notin created[k]
       /\ IF balances[<<who[l], a>>] # NoRow
          THEN EndTransaction(l) /\ Goto(l, "conflict")
          ELSE /\ created' = [created EXCEPT ![l] = @ \cup {a}]
               /\ Goto(l, IF created'[l] = Initial THEN "position" ELSE "create")
               /\ UNCHANGED advisory
  /\ UNCHANGED <<dbVars, users, who>>

\* positions.create; the key of the position is taken with those of the balances.
CreatePosition(l) ==
  /\ pc[l] = "position"
  /\ Goto(l, "commit")
  /\ UNCHANGED <<dbVars, users, advisory, created, who>>

\* Variant: the position is left to the first order.
WriteBalancesOnly(u, rows) ==
  /\ balances' = [row \in Users \X Assets |->
                    IF row[1] = u /\ row[2] \in rows
                    THEN InitialBalance[row[2]] ELSE balances[row]]
  /\ positions' = positions

WriteRows(u, rows) ==
  /\ balances' = [row \in Users \X Assets |->
                    IF row[1] = u /\ row[2] \in rows
                    THEN InitialBalance[row[2]] ELSE balances[row]]
  /\ positions' = [positions EXCEPT ![<<u, Sol>>] = NoPosition]

Commit(l) ==
  /\ pc[l] = "commit"
  /\ WriteRows(who[l], created[l])
  /\ EndTransaction(l)
  /\ Goto(l, "done")
  /\ UNCHANGED <<orders, trades, users, who>>

\* Any statement fails: createOrGetUser rethrows, an open transaction rolls back.
Fail(l) ==
  /\ pc[l] \in {"idle", "find", "lock"} \cup InTransaction
  /\ EndTransaction(l)
  /\ Goto(l, "failed")
  /\ UNCHANGED <<dbVars, users, who>>

\* An order of a user who has an account, executed as OrderExecution shows.
Trade(r, f) ==
  /\ L!Execute(r, f)
  /\ UNCHANGED <<users, advisory, created, who, pc>>

\* All logins have returned.
Quiescent ==
  /\ \A l \in Logins : pc[l] \in Answered
  /\ UNCHANGED vars

Step(l) ==
  \/ UpsertUser(l)
  \/ FindBalances(l)
  \/ TakeAdvisoryLock(l)
  \/ AlreadyInitialised(l)
  \/ NotInitialised(l)
  \/ CreateBalance(l)
  \/ CreatePosition(l)
  \/ Commit(l)

Next ==
  \/ \E l \in Logins : Step(l) \/ Fail(l)
  \/ \E r \in Requests, f \in Calls : Trade(r, f)
  \/ Quiescent

Spec == Init /\ [][Next]_vars

\* A login, once made, runs its statements; Postgres grants a free lock.
FairSpec ==
  Spec /\ \A l \in Logins : WF_vars(pc[l] # "idle" /\ Step(l))

-----------------------------------------------------------------------------
\* Every variable has its type, and
\* an account is seen whole or not at all, also after a login died half way:
\* every initial balance and the SOL position exist, or no row does.
AccountsAreWhole ==
  /\ TypeOK
  /\ \A u \in Users :
       \/ /\ \A a \in Initial : balances[<<u, a>>] # NoRow
          /\ positions[<<u, Sol>>] # NoRow
       \/ /\ \A a \in Assets : balances[<<u, a>>] = NoRow
          /\ \A b \in BaseAssets : positions[<<u, b>>] = NoRow

\* createOrGetUser returns a user only once the account is there, whichever of
\* several logins made it, and however many failed before.
LoggedInMeansOpen ==
  \A l \in Logins :
    pc[l] = "done" => who[l] \in users /\ HasBalance(who[l])

\* "Idempotent: Safe to call multiple times (no error on duplicate)": logins of
\* a new wallet that race each other never run into the unique key.
NoDuplicateKey == \A l \in Logins : pc[l] # "conflict"

\* A login leaves the rows alone or opens the account; it never writes over
\* what trading has done to it.
RefinesLedger == L!LedgerSpec

\* A login waits for another one only while that one is in its transaction.
EveryLoginAnswered == \A l \in Logins : pc[l] = "find" ~> pc[l] \in Answered
=============================================================================

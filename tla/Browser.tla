-------------------------------- MODULE Browser --------------------------------
(***************************************************************************)
(* The trade page (apps/web/src): wallet and login, the stores, the order  *)
(* form, the initial load, and what the WebSocket pushes.  Every call of   *)
(* the API client is a request the server serves at one moment and whose   *)
(* answer the page handles at a later one; nothing is cancelled.  An       *)
(* account is abstracted to the number of orders executed on it: order n   *)
(* of a user leads to portfolio n.  The server executes an order in one    *)
(* step and publishes a portfolio for it in a later one, or fails to; the  *)
(* statements in between are in OrderHandler.  How it authenticates the    *)
(* socket is in WsGateway: here the socket belongs to one user, with both  *)
(* private subscriptions, or to nobody.  Prices, amounts, toasts and       *)
(* spinners are left out.                                                  *)
(***************************************************************************)
EXTENDS Integers, Sequences, FiniteSets, SequencesExt

CONSTANTS
  Users,
  Nobody,
  Elsewhere,  \* bound: the users whose orders are executed elsewhere, too
  MaxOrders,  \* bound: orders executed in all
  MaxCalls,   \* bound: calls under way
  MaxLoads    \* bound: initial loads started

ASSUME BrowserAssumption ==
  /\ Nobody \notin Users
  /\ Elsewhere \subseteq Users
  /\ MaxOrders \in Nat /\ MaxCalls \in Nat /\ MaxLoads \in Nat

VARIABLES
  \* the page
  wallet,     \* the connected wallet's user, or Nobody
  auth,       \* the user of the token in the auth store, or Nobody
  portfolio,  \* balances and positions: [user, at], or Empty
  orders,     \* the ids in the list, newest first
  busy,       \* isLoading of the order form
  calls,      \* requests without an answer yet
  \* the server
  executed,   \* orders executed for each user
  unpublished, \* executed orders whose handler has still to publish
  live,       \* the user the page's socket is authenticated as, or Nobody
  pushes,     \* portfolios on their way to the page
  \* for checking
  loads,      \* initial loads started
  behind,     \* something happened that can leave the portfolio behind, or
              \* nobody is logged in
  crossed     \* the same for the list of orders

session == <<wallet, auth>>

shown == <<portfolio, orders>>

server == <<executed, unpublished, live, pushes>>

vars == <<session, shown, busy, calls, server, loads, behind, crossed>>

Empty == [user |-> Nobody, at |-> 0]

Snapshot == [user : Users, at : Nat]

OrderIds == [user : Users, id : Nat \ {0}]

Unserved == -1

NotAsked == -2

Answers == Nat \cup {Unserved, NotAsked}

\* A call: whose token it has, and the answers it has got.  n tells the loads
\* apart; of an order it is the id, or 0 before it is executed.
Calls == [op : {"login", "load", "place", "refresh", "logout"},
          user : Users \cup {Nobody}, n : Nat,
          portfolio : Answers, orders : Answers]

Call(op, u, n, p, o) ==
  [op |-> op, user |-> u, n |-> n, portfolio |-> p, orders |-> o]

Login(u) == Call("login", u, 0, NotAsked, NotAsked)

\* The Promise.all of page.tsx: getPortfolio and getOrders.
Load(u, n) == Call("load", u, n, Unserved, Unserved)

\* For "place", orders is the id of the order in the answer.
Place(u) == Call("place", u, 0, NotAsked, Unserved)

Refresh(u) == Call("refresh", u, 0, Unserved, NotAsked)

Logout(u) == Call("logout", u, 0, NotAsked, NotAsked)

Served(c) == c.portfolio # Unserved /\ c.orders # Unserved

\* The page may call: a bound.
MayCall == Cardinality(calls) < MaxCalls

InFlight(ops) == {c \in calls : c.op \in ops}

TypeOK ==
  /\ {wallet, auth, live} \subseteq Users \cup {Nobody}
  /\ busy \in BOOLEAN
  /\ portfolio \in Snapshot \cup {Empty}
  /\ orders \in Seq(OrderIds)
  /\ calls \subseteq Calls
  /\ executed \in [Users -> Nat]
  /\ unpublished \subseteq OrderIds
  /\ pushes \in Seq(Snapshot)
  /\ loads \in Nat
  /\ behind \in BOOLEAN /\ crossed \in BOOLEAN

Init ==
  /\ wallet = Nobody /\ auth = Nobody
  /\ portfolio = Empty /\ orders = <<>>
  /\ busy = FALSE
  /\ calls = {}
  /\ executed = [u \in Users |-> 0] /\ unpublished = {}
  /\ live = Nobody /\ pushes = <<>>
  /\ loads = 0 /\ behind = TRUE /\ crossed = TRUE

-----------------------------------------------------------------------------
(* Wallet and session *)

ConnectWallet(u) ==
  /\ wallet = Nobody
  /\ wallet' = u
  /\ UNCHANGED <<auth, shown, busy, calls, server, loads, behind, crossed>>

\* The wallet itself goes away: the page's data and token stay.
LoseWallet ==
  /\ wallet # Nobody
  /\ wallet' = Nobody
  /\ UNCHANGED <<auth, shown, busy, calls, server, loads, behind, crossed>>

\* login() of useAuth for the connected wallet: called once by itself
\* (autoLogin), and by a click as long as nobody is logged in, so that whether
\* it was called before does not matter here.
StartLogin ==
  /\ wallet # Nobody
  /\ auth = Nobody
  /\ MayCall
  /\ Login(wallet) \notin calls
  /\ calls' = calls \cup {Login(wallet)}
  /\ UNCHANGED <<wallet, auth, shown, busy, server, loads, behind, crossed>>

\* loadData of page.tsx, which every new token starts: it makes up for all that
\* went wrong before.
StartLoad(u) ==
  /\ loads < MaxLoads
  /\ loads' = loads + 1
  /\ behind' = FALSE
  /\ crossed' = (InFlight({"place"}) # {})

\* setUser: the page is logged in as whoever asked, whatever has become of
\* the wallet meanwhile.
LoginAnswered(c) ==
  /\ c.op = "login"
  /\ auth' = c.user
  /\ StartLoad(c.user)
  /\ calls' = (calls \ {c}) \cup {Load(c.user, loads')}
  /\ UNCHANGED <<wallet, shown, busy, server>>

\* handleDisconnect: the data goes at once, the token with the answer.  When
\* the wallet's own disconnect() rejects, none of it happens: that is
\* LoseWallet, or no step.
Disconnect ==
  /\ wallet # Nobody
  /\ auth # Nobody
  /\ MayCall
  /\ InFlight({"logout"}) = {}
  /\ wallet' = Nobody
  /\ portfolio' = Empty
  /\ orders' = <<>>
  /\ calls' = calls \cup {Logout(auth)}
  /\ UNCHANGED <<auth, busy, server, loads, behind, crossed>>

\* Variant: the store is not cleared when the call fails.
LogoutIgnored(c) ==
  /\ c.op = "logout"
  /\ calls' = calls \ {c}
  /\ auth' \in {auth, Nobody}
  /\ behind' = (behind \/ auth' = Nobody)
  /\ crossed' = (crossed \/ auth' = Nobody)
  /\ UNCHANGED <<wallet, shown, busy, server, loads>>

\* logout() of useAuth clears the store, whether the call succeeded or not.
LogoutAnswered(c) ==
  /\ c.op = "logout"
  /\ calls' = calls \ {c}
  /\ auth' = Nobody
  /\ behind' = TRUE /\ crossed' = TRUE
  /\ UNCHANGED <<wallet, shown, busy, server, loads>>

-----------------------------------------------------------------------------
(* Data *)

\* setBalances and setPositions.
Show(p) == portfolio' = p

\* An answer can bring the page back behind a push that overtook it, a push
\* behind an answer, and both can show what belongs to somebody else.
Overtaken(u, n) ==
  \/ u # auth
  \/ portfolio.user = u /\ portfolio.at > n

\* Whether the page is behind once it has handled an answer or a push.
After(u, n) ==
  IF Overtaken(u, n) THEN TRUE ELSE IF n = executed[u] THEN FALSE ELSE behind

\* The ids of a user's first n orders, newest first.
Listed(u, n) == [i \in 1..n |-> [user |-> u, id |-> n + 1 - i]]

\* setBalances, setPositions, setOrders: the snapshots replace what is there.
LoadAnswered(c) ==
  /\ c.op = "load"
  /\ Served(c)
  /\ calls' = calls \ {c}
  /\ Show([user |-> c.user, at |-> c.portfolio])
  /\ orders' = Listed(c.user, c.orders)
  /\ behind' = After(c.user, c.portfolio)
  /\ crossed' = (InFlight({"place", "load"}) # {c} \/ c.user # auth
                   \/ c.orders # executed[c.user])
  /\ UNCHANGED <<session, busy, server, loads>>

\* handleSubmit, which needs the balances on the screen to cover the order.
Submit ==
  /\ wallet # Nobody
  /\ auth # Nobody
  /\ ~busy
  /\ MayCall
  /\ portfolio # Empty
  /\ busy' = TRUE
  /\ calls' = calls \cup {Place(auth)}
  /\ crossed' = (crossed \/ InFlight({"load"}) # {})
  /\ UNCHANGED <<session, shown, server, loads, behind>>

\* Variant: the order is added at the end of the list.
PlacedLast(c) ==
  /\ c.op = "place"
  /\ Served(c)
  /\ orders' = Append(orders, [user |-> c.user, id |-> c.orders])
  /\ calls' = (calls \ {c}) \cup {Refresh(auth)}
  /\ crossed' = (crossed \/ c.user # auth)
  /\ UNCHANGED <<session, portfolio, busy, server, loads, behind>>

\* addOrder, then getPortfolio with the token there is now.
Placed(c) ==
  /\ c.op = "place"
  /\ Served(c)
  /\ orders' = <<[user |-> c.user, id |-> c.orders]>> \o orders
  /\ calls' = (calls \ {c}) \cup {Refresh(auth)}
  /\ crossed' = (crossed \/ c.user # auth)
  /\ UNCHANGED <<session, portfolio, busy, server, loads, behind>>

\* The refresh after the order, and the end of handleSubmit.
Refreshed(c) ==
  /\ c.op = "refresh"
  /\ Served(c)
  /\ calls' = calls \ {c}
  /\ busy' = FALSE
  /\ Show([user |-> c.user, at |-> c.portfolio])
  /\ behind' = After(c.user, c.portfolio)
  /\ UNCHANGED <<session, orders, server, loads, crossed>>

\* Variant: isLoading is reset on success only.
FailsBusy(c) ==
  /\ c.op # "logout"
  /\ calls' = calls \ {c}
  /\ auth' \in {auth, Nobody}
  /\ behind' = (behind \/ c.op = "load" \/ auth' = Nobody)
  /\ crossed' = (crossed \/ c.op \in {"load", "place"} \/ auth' = Nobody)
  /\ UNCHANGED <<wallet, shown, busy, server, loads>>

\* An error, a lost answer or the 10 s timeout; a 401 clears the auth store.
\* An order may have been executed all the same, or be executed yet.  The push
\* of the order makes up for a refresh that fails.
Fails(c) ==
  /\ c.op # "logout"
  /\ calls' = calls \ {c}
  /\ busy' = (busy /\ c.op \notin {"place", "refresh"})
  /\ auth' \in {auth, Nobody}
  /\ behind' = (behind \/ c.op = "load" \/ auth' = Nobody)
  /\ crossed' = (crossed \/ c.op \in {"load", "place"} \/ auth' = Nobody)
  /\ UNCHANGED <<wallet, shown, server, loads>>

-----------------------------------------------------------------------------
(* The server *)

\* placeOrder commits: the order is executed, its handler goes on.
Commits(u) ==
  /\ FoldFunction(+, 0, executed) < MaxOrders
  /\ executed' = [executed EXCEPT ![u] = @ + 1]
  /\ unpublished' = unpublished \cup {[user |-> u, id |-> executed'[u]]}
  /\ UNCHANGED <<live, pushes, behind>>

\* The order of a call of the page; or it is refused, and the answer a failure.
ServeOrder(c) ==
  /\ c.op = "place"
  /\ c.n = 0
  /\ Commits(c.user)
  /\ calls' = (calls \ {c}) \cup {[c EXCEPT !.n = executed'[c.user]]}
  /\ UNCHANGED <<session, shown, busy, loads, crossed>>

\* An order the page does not wait for: another tab's, or one it gave up.
\* Its order_filled event names no order of the list and changes nothing.
ExecutedElsewhere(u) ==
  /\ Commits(u)
  /\ crossed' = TRUE
  /\ UNCHANGED <<session, shown, busy, calls, loads>>

\* Variant: the portfolio is read before the order is executed.
SnapshotsBefore(order) == (order.id - 1)..executed[order.user]

\* What the handler's getPortfolio, after the commit, can have seen by now.  Of
\* balances and positions read on either side of a commit, it is the older.
Snapshots(order) == order.id..executed[order.user]

\* A socket that is not attached when its user's portfolio should come has
\* missed it.
Missed(u) == u = auth /\ live # u

\* The call that waits for the order is answered with its id, no other is.
Told(c, order) ==
  IF c.op = "place" /\ c.user = order.user /\ c.n = order.id
  THEN [c EXCEPT !.orders = order.id] ELSE c

\* placeOrderHandler, from the commit to its answer.
Publishes(order) ==
  /\ \E n \in Snapshots(order) :
       pushes' = IF live = order.user
                 THEN Append(pushes, [user |-> order.user, at |-> n]) ELSE pushes
  /\ unpublished' = unpublished \ {order}
  /\ calls' = {Told(c, order) : c \in calls}
  /\ behind' = (behind \/ Missed(order.user))
  /\ UNCHANGED <<session, shown, busy, executed, live, loads, crossed>>

\* Its catch, or its death, after the commit: nothing is published, and a call
\* that waits is answered with a failure, if at all.
PublishFails(order) ==
  /\ unpublished' = unpublished \ {order}
  /\ behind' = (behind \/ order.user = auth)
  /\ UNCHANGED <<session, shown, busy, calls, executed, live, pushes, loads, crossed>>

\* getPortfolioHandler
ServePortfolio(c) ==
  /\ c.portfolio = Unserved
  /\ c.user # Nobody
  /\ calls' = (calls \ {c}) \cup {[c EXCEPT !.portfolio = executed[c.user]]}
  /\ UNCHANGED <<session, shown, busy, server, loads, behind, crossed>>

\* getUserOrdersHandler
ServeOrders(c) ==
  /\ c.op = "load"
  /\ c.orders = Unserved
  /\ calls' = (calls \ {c}) \cup {[c EXCEPT !.orders = executed[c.user]]}
  /\ UNCHANGED <<session, shown, busy, server, loads, behind, crossed>>

\* The socket is authenticated with the page's token, by the late auth or
\* after a reconnection.  Until then it stays whoever's it was: a logout
\* tells it nothing.
Attach ==
  /\ auth # Nobody
  /\ live # auth
  /\ live' = auth
  /\ UNCHANGED <<session, shown, busy, calls, executed, unpublished, pushes>>
  /\ UNCHANGED <<loads, behind, crossed>>

\* The connection breaks with what was under way on it.
Detach ==
  /\ live # Nobody
  /\ live' = Nobody
  /\ pushes' = <<>>
  /\ behind' = (behind \/ pushes # <<>>)
  /\ UNCHANGED <<session, shown, busy, calls, executed, unpublished, loads, crossed>>

\* handleMessage: "portfolio".  Whose it is the page does not ask.
PushHandled ==
  /\ pushes # <<>>
  /\ pushes' = Tail(pushes)
  /\ Show(Head(pushes))
  /\ behind' = After(Head(pushes).user, Head(pushes).at)
  /\ UNCHANGED <<session, orders, busy, calls, executed, unpublished, live>>
  /\ UNCHANGED <<loads, crossed>>

Serve(c) == ServeOrder(c) \/ ServePortfolio(c) \/ ServeOrders(c)

Answered(c) ==
  \/ LoginAnswered(c)
  \/ LogoutAnswered(c)
  \/ LoadAnswered(c)
  \/ Placed(c)
  \/ Refreshed(c)
  \/ Fails(c)

Next ==
  \/ \E u \in Users : ConnectWallet(u)
  \/ \E u \in Elsewhere : ExecutedElsewhere(u)
  \/ LoseWallet
  \/ StartLogin
  \/ Disconnect
  \/ Submit
  \/ \E c \in calls : Serve(c) \/ Answered(c)
  \/ \E order \in unpublished : Publishes(order) \/ PublishFails(order)
  \/ Attach
  \/ Detach
  \/ PushHandled

Spec == Init /\ [][Next]_vars

\* Every call ends, by the answer or by the timeout of the API client.
FairSpec ==
  /\ Spec
  /\ \A op \in {"place", "refresh", "logout"} :
       WF_vars(\E c \in InFlight({op}) : Answered(c))

-----------------------------------------------------------------------------
\* The page is logged in and waits for no answer.
AtRest == auth # Nobody /\ calls = {}

\* And its socket is authenticated as the same user, on which nothing is to come.
Settled ==
  /\ AtRest
  /\ live = auth /\ pushes = <<>>
  /\ \A order \in unpublished : order.user # auth

\* Whatever order initial load, refresh and pushes come in, and though a refresh
\* fails, a page at rest shows the account as it is, unless an executed order
\* was not published to it (its handler failed after the commit, or the socket
\* was not attached), the load or a push was lost, an answer or a push came
\* after what was newer, or another user's data came late.
SettledIsCurrent ==
  TypeOK /\ (Settled /\ ~behind => portfolio = [user |-> auth, at |-> executed[auth]])

\* The list has every order of the account once, newest first, unless an order
\* was placed while a load was under way, placed elsewhere, or its answer lost.
OrdersListedOnce ==
  AtRest /\ ~crossed => orders = Listed(auth, executed[auth])

\* The order form does not stay blocked, whichever of its two calls fails.
SubmitEnds == []<>~busy

\* Disconnecting logs out in the end, though the call may fail.
DisconnectLogsOut == (InFlight({"logout"}) # {}) ~> (auth = Nobody)
=============================================================================

------------------------------- MODULE WebProofs -------------------------------
(***************************************************************************)
(* The theorems of Browser and of PriceChart, the two modules of the web   *)
(* client: for any number of users, calls, loads and orders, in any order  *)
(* of answers and pushes, and for any history, clock and prices.           *)
(*                                                                         *)
(* A page at rest shows the account because, as long as nothing went       *)
(* wrong, what would make it current is still under way: the invariants    *)
(* say what that is.  A chart is in order because an answer's live candle  *)
(* is no older than its rows, and stays the picture of its history because *)
(* a price does the same to both.                                          *)
(***************************************************************************)
EXTENDS Browser, PriceChart, TLAPS, FiniteSetTheorems, SequenceTheorems

-----------------------------------------------------------------------------
(* The page *)

\* What each kind of call asks for, and whose it is: only the refresh after an
\* order may have lost its token, and then it is not answered with data.
OwnCalls ==
  \A c \in calls :
    /\ c.portfolio = NotAsked <=> c.op \notin {"load", "refresh"}
    /\ c.orders = NotAsked <=> c.op \notin {"load", "place"}
    /\ c.user = Nobody => c.op = "refresh" /\ c.portfolio = Unserved
    /\ c.op = "place" => c.orders = Unserved \/ (c.orders = c.n /\ c.n # 0)

Current == [user |-> auth, at |-> executed[auth]]

\* The load will be answered, or has been, with the account as it is.
BringsCurrent(c) ==
  /\ c.op = "load"
  /\ c.user = auth
  /\ c.portfolio \in {Unserved, executed[auth]}

LoggedIn == auth # Nobody /\ InFlight({"logout"}) = {}

\* The account is on the page, in a push, in an answer to come, or its newest
\* order is yet to be published.
Coming ==
  \/ portfolio = Current
  \/ [user |-> auth, id |-> executed[auth]] \in unpublished
  \/ \E i \in DOMAIN pushes : pushes[i] = Current
  \/ \E c \in calls : BringsCurrent(c)

WillBeCurrent == LoggedIn /\ ~behind => Coming

\* Nobody has seen an order that was not executed.
NotAhead ==
  /\ portfolio # Empty => portfolio.at <= executed[portfolio.user]
  /\ \A i \in DOMAIN pushes : pushes[i].at <= executed[pushes[i].user]
  /\ \A c \in calls : c.user # Nobody => c.portfolio <= executed[c.user]

\* The form sends one order at a time, with its refresh, ...
OneOrder ==
  \A c, d \in InFlight({"place", "refresh"}) : busy /\ c = d

\* ... which no load crosses, nor another user.
OrderAlone ==
  ~crossed =>
    \A c \in InFlight({"place"}) :
      /\ InFlight({"load"}) = {}
      /\ auth # Nobody => c.user = auth

\* The list of orders has come, but for the one whose answer is on its way.
AllListed ==
  /\ \A c \in InFlight({"place"}) :
       c.n # 0 => c.n = executed[auth] /\ orders = Listed(auth, executed[auth] - 1)
  /\ (\A c \in InFlight({"place"}) : c.n = 0) => orders = Listed(auth, executed[auth])

WillBeListed ==
  LoggedIn /\ ~crossed =>
    \/ \E c \in InFlight({"load"}) : c.user = auth
    \/ AllListed

Typed == TypeOK /\ OwnCalls

PortfolioInv == Typed /\ NotAhead /\ WillBeCurrent

ListInv == Typed /\ OneOrder /\ OrderAlone /\ WillBeListed

-----------------------------------------------------------------------------
\* The steps of the specification, one by one.
LEMMA Steps ==
  ASSUME [Next]_vars
  PROVE  \/ \E u \in Users : ConnectWallet(u)
         \/ \E u \in Users : ExecutedElsewhere(u)
         \/ \E order \in unpublished : Publishes(order)
         \/ \E order \in unpublished : PublishFails(order)
         \/ LoseWallet \/ StartLogin \/ Disconnect \/ Submit
         \/ \E c \in calls : ServeOrder(c)
         \/ \E c \in calls : ServePortfolio(c)
         \/ \E c \in calls : ServeOrders(c)
         \/ \E c \in calls : LoginAnswered(c)
         \/ \E c \in calls : LogoutAnswered(c)
         \/ \E c \in calls : LoadAnswered(c)
         \/ \E c \in calls : Placed(c)
         \/ \E c \in calls : Refreshed(c)
         \/ \E c \in calls : Fails(c)
         \/ Attach \/ Detach \/ PushHandled
         \/ UNCHANGED vars
  BY BrowserAssumption DEF BrowserAssumption, Next, Serve, Answered

\* The first element of a queue, and the rest.
LEMMA QueueFacts ==
  ASSUME NEW S, NEW q \in Seq(S), q # <<>>
  PROVE  /\ Len(q) \in Nat \ {0} /\ DOMAIN q = 1..Len(q)
         /\ Head(q) = q[1] /\ Head(q) \in S
         /\ Tail(q) \in Seq(S) /\ DOMAIN Tail(q) = 1..(Len(q) - 1)
         /\ \A i \in 1..(Len(q) - 1) : Tail(q)[i] = q[i + 1]
  OBVIOUS

\* A queue with an element more.
LEMMA AppendFacts ==
  ASSUME NEW S, NEW q \in Seq(S), NEW e \in S
  PROVE  /\ Append(q, e) \in Seq(S)
         /\ Len(q) \in Nat /\ DOMAIN q = 1..Len(q)
         /\ DOMAIN Append(q, e) = 1..(Len(q) + 1)
         /\ Append(q, e)[Len(q) + 1] = e
         /\ \A i \in 1..Len(q) : Append(q, e)[i] = q[i]
  OBVIOUS

\* The list of a user's orders is one.
LEMMA ListedIsList ==
  ASSUME NEW u \in Users, NEW n \in Nat
  PROVE  Listed(u, n) \in Seq(OrderIds)
<1>1. \A i \in 1..n : [user |-> u, id |-> n + 1 - i] \in OrderIds
  BY DEF OrderIds
<1> QED
  BY <1>1 DEF Listed

\* One more order goes to its front.
LEMMA ListedGrows ==
  ASSUME NEW u \in Users, NEW n \in Nat \ {0}
  PROVE  <<[user |-> u, id |-> n]>> \o Listed(u, n - 1) = Listed(u, n)
<1> DEFINE one == <<[user |-> u, id |-> n]>>
           all == one \o Listed(u, n - 1)
<1>1. /\ one \in Seq(OrderIds) /\ Listed(u, n - 1) \in Seq(OrderIds)
      /\ Listed(u, n) \in Seq(OrderIds)
  <2>1. one \in Seq(OrderIds)
    BY DEF OrderIds
  <2>2. n - 1 \in Nat /\ n \in Nat
    OBVIOUS
  <2>3. Listed(u, n - 1) \in Seq(OrderIds)
    BY ONLY <2>2, u \in Users, ListedIsList
  <2>4. Listed(u, n) \in Seq(OrderIds)
    BY ONLY <2>2, u \in Users, ListedIsList
  <2> QED
    BY <2>1, <2>3, <2>4
<1>2. Len(one) = 1 /\ Len(Listed(u, n - 1)) = n - 1 /\ Len(Listed(u, n)) = n
  BY DEF Listed
<1>3. all \in Seq(OrderIds) /\ Len(all) = n
  BY <1>1, <1>2
<1>4. ASSUME NEW i \in 1..n PROVE all[i] = Listed(u, n)[i]
  <2>1. CASE i = 1
    BY <1>1, <1>2, <2>1 DEF Listed
  <2>2. CASE i # 1
    <3>1. all[i] = Listed(u, n - 1)[i - 1]
      BY <1>1, <1>2, <2>2
    <3>2. Listed(u, n - 1)[i - 1] = [user |-> u, id |-> n - 1 + 1 - (i - 1)]
      BY <2>2 DEF Listed
    <3>3. n - 1 + 1 - (i - 1) = n + 1 - i
      OBVIOUS
    <3> QED
      BY <3>1, <3>2, <3>3 DEF Listed
  <2> QED
    BY <2>1, <2>2
<1> HIDE DEF all
<1>5. /\ all = [i \in 1..n |-> all[i]]
      /\ Listed(u, n) = [i \in 1..n |-> Listed(u, n)[i]]
  BY <1>1, <1>2, <1>3
<1>6. all = Listed(u, n)
  BY <1>4, <1>5
<1> QED
  BY <1>6 DEF all

-----------------------------------------------------------------------------
(* Types *)

\* What a call may ask and be told.
LEMMA CallFacts ==
  ASSUME TypeOK, NEW c \in calls
  PROVE  /\ c \in Calls
         /\ c.op \in {"login", "load", "place", "refresh", "logout"}
         /\ c.user \in Users \cup {Nobody} /\ c.n \in Nat
         /\ c.portfolio \in Nat \cup {Unserved, NotAsked}
         /\ c.orders \in Nat \cup {Unserved, NotAsked}
  BY DEF TypeOK, Calls, Answers

\* The calls the page makes are calls.
LEMMA NewCallFacts ==
  ASSUME NEW u \in Users \cup {Nobody}, NEW n \in Nat
  PROVE  {Login(u), Load(u, n), Place(u), Refresh(u), Logout(u)} \subseteq Calls
  BY DEF Login, Load, Place, Refresh, Logout, Call, Calls, Answers

\* What is left of a call once an answer to it is known.
LEMMA ServedFacts ==
  ASSUME TypeOK, NEW c \in calls, NEW n \in Nat
  PROVE  /\ LET d == [c EXCEPT !.portfolio = n]
            IN  /\ d \in Calls /\ d.op = c.op /\ d.user = c.user
                /\ d.portfolio = n /\ d.orders = c.orders
         /\ LET d == [c EXCEPT !.orders = n]
            IN  /\ d \in Calls /\ d.op = c.op /\ d.user = c.user
                /\ d.portfolio = c.portfolio /\ d.orders = n /\ d.n = c.n
         /\ LET d == [c EXCEPT !.n = n]
            IN  /\ d \in Calls /\ d.op = c.op /\ d.user = c.user
                /\ d.portfolio = c.portfolio /\ d.orders = c.orders /\ d.n = n
  BY DEF TypeOK, Calls, Answers

\* An answer to a load or a refresh that is complete is an amount.
LEMMA AnswerFacts ==
  ASSUME Typed, NEW c \in calls, Served(c)
  PROVE  /\ c.op \in {"load", "refresh"} => c.portfolio \in Nat /\ c.user \in Users
         /\ c.op \in {"load", "place"} => c.orders \in Nat /\ c.user \in Users
  BY CallFacts DEF Typed, OwnCalls, Served, Unserved, NotAsked

\* A call the page makes belongs to the token it has.
LEMMA NewOwnCalls ==
  ASSUME NEW u \in Users \cup {Nobody}, NEW n
  PROVE  \A c \in {Login(u), Load(u, n), Place(u), Refresh(u), Logout(u)} :
           /\ c.user = u
           /\ c.portfolio = NotAsked <=> c.op \notin {"load", "refresh"}
           /\ c.portfolio \in {NotAsked, Unserved}
           /\ c.orders = NotAsked <=> c.op \notin {"load", "place"}
           /\ c.orders \in {NotAsked, Unserved}
  BY DEF Login, Load, Place, Refresh, Logout, Call, Unserved, NotAsked

\* The first state.
LEMMA TypedInit == Init => Typed
<1> SUFFICES ASSUME Init PROVE Typed
  OBVIOUS
<1>1. behind \in BOOLEAN /\ crossed \in BOOLEAN /\ busy \in BOOLEAN
  BY DEF Init
<1>2. <<>> \in Seq(OrderIds) /\ <<>> \in Seq(Snapshot)
  OBVIOUS
<1> QED
  BY <1>1, <1>2 DEF Init, Typed, TypeOK, OwnCalls

\* A set of calls stays well formed when some go and good ones come.
LEMMA CallsKept ==
  ASSUME Typed, calls' \subseteq Calls,
         \A c \in calls' \ calls :
           /\ c.portfolio = NotAsked <=> c.op \notin {"load", "refresh"}
           /\ c.orders = NotAsked <=> c.op \notin {"load", "place"}
           /\ c.user = Nobody => c.op = "refresh" /\ c.portfolio = Unserved
           /\ c.op = "place" => c.orders = Unserved \/ (c.orders = c.n /\ c.n # 0)
  PROVE  OwnCalls'
  BY DEF Typed, OwnCalls

\* Committing an order.
LEMMA CommitsFacts ==
  ASSUME TypeOK, NEW u \in Users, Commits(u)
  PROVE  /\ executed' = [executed EXCEPT ![u] = @ + 1]
         /\ executed \in [Users -> Nat] /\ executed' \in [Users -> Nat]
         /\ executed'[u] = executed[u] + 1
         /\ unpublished' = unpublished \cup {[user |-> u, id |-> executed'[u]]}
         /\ unpublished' \subseteq OrderIds
         /\ live' = live /\ pushes' = pushes /\ behind' = behind
<1>1. executed \in [Users -> Nat] /\ unpublished \subseteq OrderIds
  BY DEF TypeOK
<1>2. /\ executed' = [executed EXCEPT ![u] = @ + 1]
      /\ unpublished' = unpublished \cup {[user |-> u, id |-> executed'[u]]}
      /\ live' = live /\ pushes' = pushes /\ behind' = behind
  BY DEF Commits
<1>3. executed' \in [Users -> Nat] /\ executed'[u] = executed[u] + 1
  BY <1>1, <1>2
<1>4. [user |-> u, id |-> executed'[u]] \in OrderIds
  BY <1>1, <1>3 DEF OrderIds
<1> QED
  BY <1>1, <1>2, <1>3, <1>4

\* The call d is the call c, but for the answer about the order.
SameCall(c, d) ==
  d.op = c.op /\ d.user = c.user /\ d.n = c.n /\ d.portfolio = c.portfolio

\* Telling a call of its order.
LEMMA ToldFacts ==
  ASSUME TypeOK, NEW order \in unpublished, NEW c \in calls
  PROVE  /\ Told(c, order) \in Calls
         /\ SameCall(c, Told(c, order))
         /\ \/ Told(c, order) = c
            \/ /\ c.op = "place" /\ Told(c, order).orders = c.n
               /\ c.n # 0
<1>1. order.id \in Nat \ {0} /\ c \in Calls
  BY DEF TypeOK, OrderIds
<1>2. LET d == [c EXCEPT !.orders = order.id]
      IN  /\ d \in Calls /\ d.op = c.op /\ d.user = c.user
          /\ d.portfolio = c.portfolio /\ d.orders = order.id /\ d.n = c.n
  BY <1>1, ServedFacts
<1> QED
  BY <1>1, <1>2 DEF Told, SameCall

\* Publishing an order.
LEMMA PublishesFacts ==
  ASSUME TypeOK, NEW order \in unpublished, Publishes(order)
  PROVE  /\ order.user \in Users /\ order.id \in Nat \ {0}
         /\ order = [user |-> order.user, id |-> order.id]
         /\ \E n \in Nat :
              /\ order.id <= n /\ n <= executed[order.user]
              /\ live = order.user =>
                   pushes' = Append(pushes, [user |-> order.user, at |-> n])
              /\ live # order.user => pushes' = pushes
         /\ calls' = {Told(c, order) : c \in calls}
         /\ unpublished' = unpublished \ {order}
         /\ behind' = (behind \/ Missed(order.user))
         /\ UNCHANGED <<wallet, auth, portfolio, orders, busy, executed, live>>
         /\ UNCHANGED <<loads, crossed>>
<1>1. /\ order.user \in Users /\ order.id \in Nat \ {0}
      /\ order = [user |-> order.user, id |-> order.id]
      /\ executed[order.user] \in Nat
  BY DEF TypeOK, OrderIds
<1>2. PICK n \in Snapshots(order) :
        pushes' = IF live = order.user
                  THEN Append(pushes, [user |-> order.user, at |-> n]) ELSE pushes
  BY DEF Publishes
<1>3. n \in Nat /\ order.id <= n /\ n <= executed[order.user]
  BY <1>1, <1>2 DEF Snapshots
<1> QED
  BY <1>1, <1>2, <1>3 DEF Publishes, session, shown

\* Every variable keeps its type, and every call its owner.
LEMMA TypedStep == Typed /\ [Next]_vars => Typed'
<1> SUFFICES ASSUME Typed, [Next]_vars PROVE Typed'
  OBVIOUS
<1>0. TypeOK
  BY DEF Typed
<1> USE DEF Typed
<1>1. CASE \E u \in Users : ConnectWallet(u)
  BY <1>1 DEF ConnectWallet, TypeOK, OwnCalls, shown, server
<1>2. ASSUME NEW u \in Users, ExecutedElsewhere(u) PROVE Typed'
  <2>1. /\ executed' \in [Users -> Nat] /\ unpublished' \subseteq OrderIds
        /\ live' = live /\ pushes' = pushes /\ behind' = behind
        /\ crossed' = TRUE /\ UNCHANGED <<session, shown, busy, calls, loads>>
    BY <1>2, <1>0, CommitsFacts DEF ExecutedElsewhere
  <2> QED
    BY <1>0, <2>1 DEF TypeOK, OwnCalls, session, shown
<1>3. CASE LoseWallet
  BY <1>3 DEF LoseWallet, TypeOK, OwnCalls, shown, server
<1>4. CASE StartLogin \/ Disconnect \/ Submit
  <2>1. PICK c : /\ calls' = calls \cup {c}
                 /\ \/ c = Login(wallet) /\ wallet \in Users
                    \/ c \in {Place(auth), Logout(auth)} /\ auth \in Users
    BY <1>4, <1>0 DEF StartLogin, Disconnect, Submit, TypeOK
  <2>2. calls' \subseteq Calls
    BY <2>1, <1>0, NewCallFacts DEF TypeOK
  <2>3. /\ c.portfolio = NotAsked <=> c.op \notin {"load", "refresh"}
        /\ c.orders = NotAsked <=> c.op \notin {"load", "place"}
        /\ c.user # Nobody
        /\ c.op = "place" => c.orders = Unserved
    BY <2>1, BrowserAssumption
       DEF BrowserAssumption, Login, Place, Logout, Call, NotAsked, Unserved
  <2>6. OwnCalls'
    BY <2>1, <2>2, <2>3, CallsKept
  <2>4. orders' \in Seq(OrderIds)
    <3>1. orders' = orders \/ orders' = <<>>
      BY <1>4 DEF StartLogin, Disconnect, Submit, shown
    <3>2. orders \in Seq(OrderIds) /\ <<>> \in Seq(OrderIds)
      BY <1>0 DEF TypeOK
    <3> QED
      BY ONLY <3>1, <3>2
  <2>5. crossed' \in BOOLEAN
    BY <1>4, <1>0 DEF StartLogin, Disconnect, Submit, TypeOK
  <2> QED
    BY <1>4, <2>2, <2>4, <2>5, <2>6
       DEF StartLogin, Disconnect, Submit, TypeOK, shown, server, session
<1>5. ASSUME NEW c \in calls, ServeOrder(c) PROVE Typed'
  <2>1. c.user \in Users /\ Commits(c.user)
    BY <1>5, CallFacts DEF ServeOrder, OwnCalls
  <2>2. executed'[c.user] \in Nat
    BY <2>1, CommitsFacts
  <2> DEFINE d == [c EXCEPT !.n = executed'[c.user]]
  <2>3. d \in Calls /\ calls' = (calls \ {c}) \cup {d}
    BY <1>5, <2>2, ServedFacts DEF ServeOrder
  <2>4. d.op = c.op /\ d.user = c.user /\ d.portfolio = c.portfolio /\ d.orders = c.orders
    BY <2>2, ServedFacts
  <2> HIDE DEF d
  <2>5. calls' \subseteq Calls
    BY <2>3 DEF TypeOK
  <2>6. OwnCalls'
    <3>1. /\ c.op = "place" /\ c.portfolio = NotAsked /\ c.user # Nobody
          /\ c.orders = Unserved
      BY <1>5, <2>1, BrowserAssumption DEF ServeOrder, OwnCalls, BrowserAssumption
    <3> QED
      BY <2>3, <2>4, <2>5, <3>1, CallsKept DEF Unserved, NotAsked
  <2>7. /\ executed' \in [Users -> Nat] /\ unpublished' \subseteq OrderIds
        /\ live' = live /\ pushes' = pushes /\ behind' = behind
    BY <2>1, CommitsFacts
  <2> QED
    BY <1>5, <2>5, <2>6, <2>7 DEF ServeOrder, TypeOK, session, shown
<1>6. ASSUME NEW c \in calls, ServePortfolio(c) \/ ServeOrders(c) PROVE Typed'
  <2>1. c.user \in Users /\ executed[c.user] \in Nat
    BY <1>6, CallFacts DEF ServePortfolio, ServeOrders, OwnCalls, TypeOK
  <2>2. PICK d \in Calls : /\ calls' = (calls \ {c}) \cup {d}
                           /\ d.op = c.op /\ d.user = c.user
                           /\ c.op # "place"
                           /\ d.portfolio = NotAsked <=> c.portfolio = NotAsked
                           /\ d.orders = NotAsked <=> c.orders = NotAsked
    <3>1. CASE ServePortfolio(c)
      <4> DEFINE d == [c EXCEPT !.portfolio = executed[c.user]]
      <4>1. d \in Calls /\ d.op = c.op /\ d.user = c.user /\ d.orders = c.orders
            /\ d.portfolio \in Nat
        BY <2>1, ServedFacts
      <4>2. calls' = (calls \ {c}) \cup {d} /\ c.portfolio = Unserved
        BY <3>1 DEF ServePortfolio
      <4>3. c.op # "place"
        BY <4>2 DEF OwnCalls, NotAsked, Unserved
      <4> HIDE DEF d
      <4> QED
        BY <4>1, <4>2, <4>3 DEF NotAsked, Unserved
    <3>2. CASE ServeOrders(c)
      <4> DEFINE d == [c EXCEPT !.orders = executed[c.user]]
      <4>1. d \in Calls /\ d.op = c.op /\ d.user = c.user /\ d.portfolio = c.portfolio
            /\ d.orders \in Nat
        BY <2>1, ServedFacts
      <4>2. calls' = (calls \ {c}) \cup {d} /\ c.orders = Unserved
        BY <3>2 DEF ServeOrders
      <4>3. c.op # "place"
        BY <3>2 DEF ServeOrders
      <4> HIDE DEF d
      <4> QED
        BY <4>1, <4>2, <4>3 DEF NotAsked, Unserved
    <3> QED
      BY <1>6, <3>1, <3>2
  <2>3. calls' \subseteq Calls
    BY <2>2 DEF TypeOK
  <2>4. OwnCalls'
    BY <2>1, <2>2, <2>3, CallsKept, BrowserAssumption DEF OwnCalls, BrowserAssumption
  <2> QED
    BY <1>6, <2>3, <2>4
       DEF ServePortfolio, ServeOrders, TypeOK, session, shown, server
<1>7. ASSUME NEW c \in calls, LoginAnswered(c) PROVE Typed'
  <2>1. c.user \in Users /\ loads' \in Nat
    BY <1>7, CallFacts DEF LoginAnswered, StartLoad, OwnCalls, TypeOK
  <2>2. calls' \subseteq Calls
    BY <1>7, <2>1, NewCallFacts DEF LoginAnswered, TypeOK
  <2>3. OwnCalls'
    <3> DEFINE d == Load(c.user, loads')
    <3>1. /\ d.portfolio # NotAsked /\ d.orders # NotAsked /\ d.op = "load"
          /\ d.user # Nobody
      BY <2>1, BrowserAssumption DEF BrowserAssumption, Load, Call, NotAsked, Unserved
    <3>2. calls' = (calls \ {c}) \cup {d}
      BY <1>7 DEF LoginAnswered
    <3> HIDE DEF d
    <3> QED
      BY <2>2, <3>1, <3>2, CallsKept
  <2>4. behind' \in BOOLEAN /\ crossed' \in BOOLEAN
    BY <1>7 DEF LoginAnswered, StartLoad
  <2> QED
    BY <1>7, <2>1, <2>2, <2>3, <2>4 DEF LoginAnswered, TypeOK, shown, server
<1>8. ASSUME NEW c \in calls, LogoutAnswered(c) \/ Fails(c) PROVE Typed'
  <2>1. calls' \subseteq Calls /\ OwnCalls'
    BY <1>8 DEF LogoutAnswered, Fails, TypeOK, OwnCalls
  <2>2. behind' \in BOOLEAN /\ crossed' \in BOOLEAN /\ busy' \in BOOLEAN
    BY <1>8 DEF LogoutAnswered, Fails, TypeOK
  <2> QED
    BY <1>8, <2>1, <2>2 DEF LogoutAnswered, Fails, TypeOK, shown, server
<1>9. ASSUME NEW c \in calls, LoadAnswered(c) \/ Refreshed(c) PROVE Typed'
  <2>1. calls' \subseteq Calls /\ OwnCalls'
    BY <1>9 DEF LoadAnswered, Refreshed, TypeOK, OwnCalls
  <2>2. portfolio' \in Snapshot
    BY <1>9, AnswerFacts DEF LoadAnswered, Refreshed, Show, Snapshot
  <2>3. orders' \in Seq(OrderIds)
    <3>1. CASE LoadAnswered(c)
      <4>1. c.user \in Users /\ c.orders \in Nat
        BY <3>1, AnswerFacts DEF LoadAnswered
      <4>2. orders' = Listed(c.user, c.orders)
        BY <3>1 DEF LoadAnswered
      <4> QED
        BY ONLY <4>1, <4>2, ListedIsList
    <3>2. CASE Refreshed(c)
      BY <3>2 DEF Refreshed, TypeOK
    <3> QED
      BY <1>9, <3>1, <3>2
  <2>4. behind' \in BOOLEAN /\ crossed' \in BOOLEAN /\ busy' \in BOOLEAN
    BY <1>9 DEF LoadAnswered, Refreshed, TypeOK, After
  <2> QED
    BY <1>9, <2>1, <2>2, <2>3, <2>4 DEF LoadAnswered, Refreshed, TypeOK, session, server
<1>10. ASSUME NEW c \in calls, Placed(c) PROVE Typed'
  <2>1. calls' = (calls \ {c}) \cup {Refresh(auth)}
    BY <1>10 DEF Placed
  <2>2. calls' \subseteq Calls
    BY <2>1, <1>0, NewCallFacts DEF TypeOK
  <2>3. OwnCalls'
    BY <2>1, <2>2, CallsKept DEF Refresh, Call, NotAsked, Unserved
  <2>4. orders' \in Seq(OrderIds)
    <3>1. c.orders \in Nat /\ c.user \in Users
      BY <1>10, AnswerFacts DEF Placed
    <3>2. c.orders # 0
      BY <1>10, <3>1 DEF Placed, OwnCalls, Unserved
    <3>3. <<[user |-> c.user, id |-> c.orders]>> \in Seq(OrderIds)
      BY <3>1, <3>2 DEF OrderIds
    <3> QED
      BY <1>10, <3>3 DEF Placed, TypeOK
  <2>5. crossed' \in BOOLEAN
    BY <1>10 DEF Placed, TypeOK
  <2> QED
    BY <1>10, <2>2, <2>4, <2>3, <2>5 DEF Placed, TypeOK, session, server
<1>11. CASE Attach \/ Detach
  <2>1. pushes' \in Seq(Snapshot)
    <3>1. pushes' = pushes \/ pushes' = <<>>
      BY <1>11 DEF Attach, Detach
    <3>2. pushes \in Seq(Snapshot) /\ <<>> \in Seq(Snapshot)
      BY <1>0 DEF TypeOK
    <3> QED
      BY ONLY <3>1, <3>2
  <2>2. behind' \in BOOLEAN
    BY <1>11, <1>0 DEF Attach, Detach, TypeOK
  <2> QED
    BY <1>11, <2>1, <2>2 DEF Attach, Detach, TypeOK, OwnCalls, session, shown
<1>12. CASE PushHandled
  <2>1. Head(pushes) \in Snapshot /\ Tail(pushes) \in Seq(Snapshot)
    BY <1>12, <1>0 DEF PushHandled, TypeOK
  <2>2. behind' \in BOOLEAN
    BY <1>12, <1>0 DEF PushHandled, After, TypeOK
  <2> QED
    BY <1>12, <2>1, <2>2 DEF PushHandled, Show, TypeOK, OwnCalls, session
<1>13. CASE UNCHANGED vars
  BY <1>13 DEF vars, TypeOK, OwnCalls, session, shown, server
<1>14. ASSUME NEW order \in unpublished, Publishes(order) PROVE Typed'
  <2>1. pushes' \in Seq(Snapshot)
    <3>1. PICK n \in Nat : \/ pushes' = pushes
                           \/ pushes' = Append(pushes, [user |-> order.user, at |-> n])
      BY <1>0, <1>14, PublishesFacts
    <3>2. [user |-> order.user, at |-> n] \in Snapshot
      BY <1>0, <1>14, PublishesFacts DEF Snapshot
    <3>3. pushes \in Seq(Snapshot)
      BY <1>0 DEF TypeOK
    <3> QED
      BY <3>1, <3>2, <3>3, AppendFacts
  <2>2. calls' \subseteq Calls
    BY <1>0, <1>14, PublishesFacts, ToldFacts
  <2>3. OwnCalls'
    <3>1. ASSUME NEW d \in calls', d \notin calls
          PROVE  /\ d.op = "place" /\ d.orders = d.n /\ d.n # 0
                 /\ d.portfolio = NotAsked /\ d.user # Nobody
                 /\ d.orders # NotAsked
      <4>1. PICK c \in calls : d = Told(c, order)
        BY <1>0, <1>14, <3>1, PublishesFacts
      <4>2. SameCall(c, d) /\ c.op = "place" /\ d.orders = c.n /\ c.n # 0
        BY <1>0, <3>1, <4>1, ToldFacts
      <4>3. c.n \in Nat
        BY <1>0, CallFacts
      <4> QED
        BY <4>2, <4>3 DEF SameCall, OwnCalls, NotAsked
    <3> QED
      BY <2>2, <3>1, CallsKept DEF NotAsked
  <2>4. behind' \in BOOLEAN
    BY <1>0, <1>14, PublishesFacts DEF TypeOK, Missed
  <2> QED
    BY <1>0, <1>14, <2>1, <2>2, <2>3, <2>4, PublishesFacts DEF TypeOK
<1>15. ASSUME NEW order \in unpublished, PublishFails(order) PROVE Typed'
  BY <1>0, <1>15 DEF PublishFails, TypeOK, OwnCalls, session, shown
<1> QED
  BY <1>1, <1>2, <1>3, <1>4, <1>5, <1>6, <1>7, <1>8, <1>9, <1>10, <1>11, <1>12, <1>13,
     <1>14, <1>15, Steps

-----------------------------------------------------------------------------
(* Nobody is ahead of the server *)

\* Executed orders stay executed.
LEMMA ExecutedGrows ==
  ASSUME Typed, [Next]_vars
  PROVE  /\ executed \in [Users -> Nat] /\ executed' \in [Users -> Nat]
         /\ \A u \in Users : executed[u] <= executed'[u]
<1> USE DEF Typed
<1>0. executed \in [Users -> Nat]
  BY DEF TypeOK
<1>1. ASSUME NEW v \in Users, Commits(v)
      PROVE  /\ executed' \in [Users -> Nat]
             /\ \A u \in Users : executed[u] <= executed'[u]
  <2>1. executed' = [executed EXCEPT ![v] = @ + 1] /\ executed' \in [Users -> Nat]
    BY <1>1, CommitsFacts
  <2> QED
    BY <1>0, <2>1
<1>2. CASE \E c \in calls : ServeOrder(c)
  <2>1. PICK c \in calls : ServeOrder(c)
    BY <1>2
  <2>2. c.user \in Users /\ Commits(c.user)
    BY <2>1, CallFacts DEF ServeOrder, OwnCalls
  <2> QED
    BY <1>0, <1>1, <2>2
<1>3. CASE \E u \in Users : ExecutedElsewhere(u)
  BY <1>0, <1>1, <1>3 DEF ExecutedElsewhere
<1>4. CASE executed' = executed
  BY <1>0, <1>4
<1> QED
  BY <1>2, <1>3, <1>4, Steps
     DEF ConnectWallet, LoseWallet, StartLogin, Disconnect, Submit, ServePortfolio,
         ServeOrders, LoginAnswered, LogoutAnswered, LoadAnswered, Placed, Refreshed,
         Fails, Publishes, PublishFails, Attach, Detach, PushHandled, vars, server

\* What the page can come to show: nothing, an answer, or a push.
LEMMA ShownFrom ==
  ASSUME Typed, [Next]_vars
  PROVE  \/ portfolio' \in {portfolio, Empty}
         \/ \E c \in calls : /\ Served(c) /\ c.op \in {"load", "refresh"}
                             /\ portfolio' = [user |-> c.user, at |-> c.portfolio]
         \/ pushes # <<>> /\ portfolio' = Head(pushes)
<1>1. CASE \E c \in calls : LoadAnswered(c) \/ Refreshed(c)
  BY <1>1 DEF LoadAnswered, Refreshed, Show
<1>2. CASE PushHandled
  BY <1>2 DEF PushHandled, Show
<1>3. CASE portfolio' \in {portfolio, Empty}
  BY <1>3
<1> QED
  BY <1>1, <1>2, <1>3, Steps
     DEF ConnectWallet, ExecutedElsewhere, LoseWallet, StartLogin, Disconnect, Submit,
         ServeOrder, ServePortfolio, ServeOrders, LoginAnswered, LogoutAnswered, Placed,
         Fails, Publishes, PublishFails, Attach, Detach, vars, shown

\* What can be on its way to the page: one push less, none, or one more, of what
\* had been executed.
LEMMA PushedFrom ==
  ASSUME Typed, [Next]_vars
  PROVE  \/ pushes' \in {pushes, <<>>}
         \/ pushes # <<>> /\ pushes' = Tail(pushes)
         \/ \E u \in Users, n \in Nat :
              n <= executed[u] /\ pushes' = Append(pushes, [user |-> u, at |-> n])
<1> USE DEF Typed
<1>1. ASSUME NEW order \in unpublished, Publishes(order)
      PROVE  \/ pushes' = pushes
             \/ \E u \in Users, n \in Nat :
                  n <= executed[u] /\ pushes' = Append(pushes, [user |-> u, at |-> n])
  <2>1. order.user \in Users
    BY <1>1, PublishesFacts
  <2>2. PICK n \in Nat : /\ n <= executed[order.user]
                         /\ \/ pushes' = pushes
                            \/ pushes' = Append(pushes, [user |-> order.user, at |-> n])
    BY <1>1, PublishesFacts
  <2> QED
    BY <2>1, <2>2
<1>2. CASE \E c \in calls : ServeOrder(c)
  <2>1. PICK c \in calls : ServeOrder(c)
    BY <1>2
  <2>2. c.user \in Users /\ Commits(c.user)
    BY <2>1, CallFacts DEF ServeOrder, OwnCalls
  <2> QED
    BY <2>2, CommitsFacts
<1>3. CASE \E u \in Users : ExecutedElsewhere(u)
  BY <1>3, CommitsFacts DEF ExecutedElsewhere
<1>4. CASE PushHandled \/ Detach \/ pushes' = pushes
  BY <1>4 DEF PushHandled, Detach
<1> QED
  BY <1>1, <1>2, <1>3, <1>4, Steps
     DEF ConnectWallet, LoseWallet, StartLogin, Disconnect, Submit, ServePortfolio,
         ServeOrders, LoginAnswered, LogoutAnswered, LoadAnswered, Placed, Refreshed,
         Fails, PublishFails, Attach, vars, server

\* What a call can know: what it knew, or the account as it is.
LEMMA AnsweredFrom ==
  ASSUME Typed, [Next]_vars, NEW c \in calls', c.user # Nobody
  PROVE  \/ c.portfolio \in {Unserved, NotAsked, executed[c.user]}
         \/ \E d \in calls : d.user = c.user /\ d.portfolio = c.portfolio
<1> USE DEF Typed
<1>1. CASE c \in calls
  BY <1>1
<1>2. CASE StartLogin \/ Disconnect \/ Submit
  BY <1>1, <1>2 DEF StartLogin, Disconnect, Submit, Login, Logout, Place, Call
<1>3. ASSUME NEW d \in calls, LoginAnswered(d) \/ Placed(d)
      PROVE  c \in calls \/ c.portfolio = Unserved
  BY <1>3 DEF LoginAnswered, Placed, Load, Refresh, Call
<1>4. ASSUME NEW d \in calls, ServeOrder(d)
      PROVE  \E e \in calls : e.user = c.user /\ e.portfolio = c.portfolio
  <2>1. d.user \in Users /\ Commits(d.user)
    BY <1>4, CallFacts DEF ServeOrder, OwnCalls
  <2>2. executed'[d.user] \in Nat
    BY <2>1, CommitsFacts
  <2>3. c \in calls \/ c = [d EXCEPT !.n = executed'[d.user]]
    BY <1>4 DEF ServeOrder
  <2>4. LET e == [d EXCEPT !.n = executed'[d.user]]
        IN  e.user = d.user /\ e.portfolio = d.portfolio
    BY <2>2, ServedFacts
  <2> QED
    BY <2>3, <2>4
<1>5. ASSUME NEW d \in calls, ServePortfolio(d) \/ ServeOrders(d)
      PROVE  \/ c.portfolio = executed[c.user]
             \/ \E e \in calls : e.user = c.user /\ e.portfolio = c.portfolio
  <2>1. d.user \in Users /\ executed[d.user] \in Nat
    BY <1>5, CallFacts DEF ServePortfolio, ServeOrders, OwnCalls, TypeOK
  <2>2. \/ c \in calls
        \/ c = [d EXCEPT !.portfolio = executed[d.user]]
        \/ c = [d EXCEPT !.orders = executed[d.user]]
    BY <1>5 DEF ServePortfolio, ServeOrders
  <2>3. /\ LET e == [d EXCEPT !.portfolio = executed[d.user]]
           IN  e.user = d.user /\ e.portfolio = executed[d.user]
        /\ LET e == [d EXCEPT !.orders = executed[d.user]]
           IN  e.user = d.user /\ e.portfolio = d.portfolio
    BY <2>1, ServedFacts
  <2> QED
    BY <2>2, <2>3
<1>6. CASE calls' \subseteq calls
  BY <1>1, <1>6
<1>7. ASSUME NEW order \in unpublished, Publishes(order)
      PROVE  \E d \in calls : d.user = c.user /\ d.portfolio = c.portfolio
  <2>1. PICK d \in calls : c = Told(d, order)
    BY <1>7, PublishesFacts
  <2>2. SameCall(d, c)
    BY <2>1, ToldFacts
  <2> QED
    BY <2>2 DEF SameCall
<1> QED
  BY <1>1, <1>2, <1>3, <1>4, <1>5, <1>6, <1>7, Steps
     DEF ConnectWallet, ExecutedElsewhere, LoseWallet, LogoutAnswered, LoadAnswered,
         Refreshed, Fails, PublishFails, Attach, Detach, PushHandled, vars

\* The number of orders that are seen never exceeds those that are executed.
LEMMA AheadStep == Typed /\ NotAhead /\ [Next]_vars => NotAhead'
<1> SUFFICES ASSUME Typed, NotAhead, [Next]_vars PROVE NotAhead'
  OBVIOUS
<1>0. /\ executed \in [Users -> Nat] /\ executed' \in [Users -> Nat]
      /\ \A u \in Users : executed[u] <= executed'[u]
  BY ExecutedGrows
<1>1. TypeOK /\ TypeOK' /\ Typed'
  BY TypedStep DEF Typed
<1>2. portfolio' # Empty => portfolio'.at <= executed'[portfolio'.user]
  <2>1. ASSUME NEW p \in Snapshot, p.at <= executed[p.user] PROVE p.at <= executed'[p.user]
    BY <1>0, <2>1 DEF Snapshot
  <2>2. CASE portfolio' \in {portfolio, Empty}
    BY <1>1, <2>1, <2>2 DEF NotAhead, TypeOK
  <2>3. ASSUME NEW c \in calls, Served(c), c.op \in {"load", "refresh"},
               portfolio' = [user |-> c.user, at |-> c.portfolio]
        PROVE  portfolio'.at <= executed'[portfolio'.user]
    <3>1. c.user \in Users /\ c.portfolio \in Nat /\ c.user # Nobody
      BY <2>3, AnswerFacts, BrowserAssumption DEF BrowserAssumption
    <3>2. c.portfolio <= executed[c.user]
      BY <3>1 DEF NotAhead
    <3> QED
      BY <1>0, <2>3, <3>1, <3>2
  <2>4. CASE pushes # <<>> /\ portfolio' = Head(pushes)
    <3>1. pushes \in Seq(Snapshot)
      BY <1>1 DEF TypeOK
    <3>2. Head(pushes) \in Snapshot /\ Head(pushes) = pushes[1] /\ 1 \in DOMAIN pushes
      BY <2>4, <3>1, QueueFacts
    <3> QED
      BY <2>1, <2>4, <3>2 DEF NotAhead
  <2> QED
    BY <2>2, <2>3, <2>4, ShownFrom
<1>3. ASSUME NEW i \in DOMAIN pushes' PROVE pushes'[i].at <= executed'[pushes'[i].user]
  <2>0. pushes \in Seq(Snapshot) /\ DOMAIN pushes = 1..Len(pushes)
        /\ \A j \in DOMAIN pushes : pushes[j] \in Snapshot
    BY <1>1 DEF TypeOK
  <2>1. ASSUME NEW j \in DOMAIN pushes PROVE pushes[j].at <= executed'[pushes[j].user]
    BY <1>0, <2>0 DEF NotAhead, Snapshot
  <2>2. CASE pushes' \in {pushes, <<>>}
    BY <2>1, <2>2
  <2>3. CASE pushes # <<>> /\ pushes' = Tail(pushes)
    <3>1. i \in 1..(Len(pushes) - 1) /\ Tail(pushes)[i] = pushes[i + 1]
      BY <2>0, <2>3, QueueFacts
    <3>2. i + 1 \in DOMAIN pushes
      BY <2>0, <3>1
    <3> QED
      BY <2>1, <2>3, <3>1, <3>2
  <2>4. ASSUME NEW u \in Users, NEW n \in Nat, n <= executed[u],
               pushes' = Append(pushes, [user |-> u, at |-> n])
        PROVE  pushes'[i].at <= executed'[pushes'[i].user]
    <3>1. [user |-> u, at |-> n] \in Snapshot /\ n <= executed'[u]
      BY <1>0, <2>4 DEF Snapshot
    <3>2. \/ i = Len(pushes) + 1 /\ pushes'[i] = [user |-> u, at |-> n]
          \/ i \in DOMAIN pushes /\ pushes'[i] = pushes[i]
      BY <2>0, <2>4, <3>1, AppendFacts
    <3> QED
      BY <2>1, <3>1, <3>2
  <2> QED
    BY <2>2, <2>3, <2>4, PushedFrom
<1>4. ASSUME NEW c \in calls', c.user # Nobody PROVE c.portfolio <= executed'[c.user]
  <2>1. c.user \in Users /\ c.portfolio \in Nat \cup {Unserved, NotAsked}
    BY <1>1, <1>4 DEF TypeOK, Calls, Answers
  <2>2. executed[c.user] <= executed'[c.user]
        /\ executed[c.user] \in Nat /\ executed'[c.user] \in Nat
    BY <1>0, <2>1
  <2>3. c.portfolio <= executed[c.user]
    BY <1>4, <2>2, AnsweredFrom DEF NotAhead, Unserved, NotAsked
  <2> QED
    BY <2>1, <2>2, <2>3 DEF Unserved, NotAsked
<1> QED
  BY <1>2, <1>3, <1>4 DEF NotAhead

-----------------------------------------------------------------------------
(* The account is on the page, or comes *)

\* A step that neither answers the page nor executes an order takes nothing of
\* what comes away.
LEMMA StillComing ==
  ASSUME Coming, UNCHANGED <<auth, portfolio, executed, unpublished, pushes>>,
         \A c \in calls : BringsCurrent(c) =>
           \E d \in calls' : /\ d.op = c.op /\ d.user = c.user
                             /\ d.portfolio \in {c.portfolio, executed[c.user]}
  PROVE  Coming'
<1>1. CASE \/ portfolio = Current
           \/ [user |-> auth, id |-> executed[auth]] \in unpublished
  BY <1>1 DEF Coming, Current
<1>2. CASE \E i \in DOMAIN pushes : pushes[i] = Current
  BY <1>2 DEF Coming, Current
<1>3. ASSUME NEW c \in calls, BringsCurrent(c) PROVE Coming'
  <2>1. PICK d \in calls' : /\ d.op = c.op /\ d.user = c.user
                            /\ d.portfolio \in {c.portfolio, executed[c.user]}
    BY <1>3
  <2> QED
    BY <1>3, <2>1 DEF Coming, BringsCurrent
<1> QED
  BY <1>1, <1>2, <1>3 DEF Coming

\* An order executed for somebody else leaves what comes as it is, and one of
\* the page's own user is yet to be published.
LEMMA CommitsComing ==
  ASSUME Typed, NEW u \in Users, Commits(u), LoggedIn, Coming,
         UNCHANGED <<auth, portfolio>>,
         \A c \in calls : BringsCurrent(c) => c \in calls'
  PROVE  Coming'
<1>0. /\ executed' = [executed EXCEPT ![u] = @ + 1]
      /\ executed \in [Users -> Nat] /\ executed' \in [Users -> Nat]
      /\ unpublished' = unpublished \cup {[user |-> u, id |-> executed'[u]]}
      /\ pushes' = pushes /\ auth \in Users
  BY CommitsFacts DEF Typed, TypeOK, LoggedIn
<1>1. CASE u = auth
  BY <1>0, <1>1 DEF Coming
<1>2. CASE u # auth
  <2>1. executed'[auth] = executed[auth] /\ Current' = Current
    BY <1>0, <1>2 DEF Current
  <2>2. CASE \/ portfolio = Current
             \/ [user |-> auth, id |-> executed[auth]] \in unpublished
             \/ \E i \in DOMAIN pushes : pushes[i] = Current
    BY <1>0, <2>1, <2>2 DEF Coming
  <2>3. ASSUME NEW c \in calls, BringsCurrent(c) PROVE Coming'
    BY <2>1, <2>3 DEF Coming, BringsCurrent
  <2> QED
    BY <2>2, <2>3 DEF Coming
<1> QED
  BY <1>1, <1>2

\* When the newest order of the page's user is published its push is current;
\* any other leaves what comes as it is.
LEMMA PublishesComing ==
  ASSUME Typed, NEW order \in unpublished, Publishes(order), LoggedIn, Coming, ~behind'
  PROVE  Coming'
<1>0. /\ order.user \in Users /\ order.id \in Nat \ {0}
      /\ order = [user |-> order.user, id |-> order.id]
      /\ unpublished' = unpublished \ {order}
      /\ calls' = {Told(c, order) : c \in calls}
      /\ UNCHANGED <<auth, portfolio, executed>>
      /\ auth \in Users /\ executed \in [Users -> Nat] /\ pushes \in Seq(Snapshot)
  BY PublishesFacts DEF Typed, TypeOK, LoggedIn
<1>1. PICK n \in Nat : /\ order.id <= n /\ n <= executed[order.user]
                       /\ live = order.user =>
                            pushes' = Append(pushes, [user |-> order.user, at |-> n])
                       /\ live # order.user => pushes' = pushes
  BY PublishesFacts DEF Typed
<1>2. /\ DOMAIN pushes = 1..Len(pushes) /\ Len(pushes) \in Nat
      /\ \A i \in DOMAIN pushes : i \in DOMAIN pushes' /\ pushes'[i] = pushes[i]
      /\ live = order.user => /\ Len(pushes) + 1 \in DOMAIN pushes'
                              /\ pushes'[Len(pushes) + 1] = [user |-> order.user, at |-> n]
  <2>1. [user |-> order.user, at |-> n] \in Snapshot
    BY <1>0 DEF Snapshot
  <2>2. DOMAIN pushes = 1..Len(pushes) /\ Len(pushes) \in Nat
    BY <1>0
  <2>3. CASE live = order.user
    <3>1. PICK e : e = [user |-> order.user, at |-> n]
      OBVIOUS
    <3>2. /\ DOMAIN Append(pushes, e) = 1..(Len(pushes) + 1)
          /\ Append(pushes, e)[Len(pushes) + 1] = e
          /\ \A i \in 1..Len(pushes) : Append(pushes, e)[i] = pushes[i]
      BY <1>0, <2>1, <3>1, AppendFacts
    <3>3. pushes' = Append(pushes, e)
      BY <1>1, <2>3, <3>1
    <3> HIDE DEF Snapshot
    <3> QED
      BY ONLY <2>2, <3>1, <3>2, <3>3
  <2>4. CASE live # order.user
    BY <1>1, <2>2, <2>4
  <2> QED
    BY <2>2, <2>3, <2>4
<1>3. Current' = Current
  BY <1>0 DEF Current
<1>4. CASE order = [user |-> auth, id |-> executed[auth]]
  <2>1. order.user = auth /\ order.id = executed[auth]
    BY <1>4
  <2>2. n = executed[auth]
    <3>1. executed[auth] \in Nat /\ executed[auth] <= n /\ n <= executed[auth]
      BY <1>0, <1>1, <2>1
    <3> QED
      BY <3>1
  <2>3. live = order.user
    BY <2>1, PublishesFacts DEF Typed, Missed
  <2>4. pushes'[Len(pushes) + 1] = Current'
    BY <1>2, <1>3, <2>1, <2>2, <2>3 DEF Current
  <2> QED
    BY <1>2, <2>3, <2>4 DEF Coming
<1>5. CASE order # [user |-> auth, id |-> executed[auth]]
  <2>1. CASE \/ portfolio = Current
             \/ [user |-> auth, id |-> executed[auth]] \in unpublished
    BY <1>0, <1>3, <1>5, <2>1 DEF Coming
  <2>2. ASSUME NEW i \in DOMAIN pushes, pushes[i] = Current PROVE Coming'
    BY <1>2, <1>3, <2>2 DEF Coming
  <2>3. ASSUME NEW c \in calls, BringsCurrent(c) PROVE Coming'
    <3>1. c.op = "load"
      BY <2>3 DEF BringsCurrent
    <3>2. Told(c, order) = c
      BY <3>1 DEF Told
    <3>3. c \in calls'
      BY <1>0, <3>2
    <3> QED
      BY <1>0, <2>3, <3>3 DEF Coming, BringsCurrent
  <2> QED
    BY <2>1, <2>2, <2>3 DEF Coming
<1> QED
  BY <1>4, <1>5

\* An answer or a push that does not set the page back either makes it current
\* or was not what the page is waiting for.
LEMMA HandledComing ==
  ASSUME PortfolioInv, auth \in Users, ~behind => Coming,
         NEW p \in Snapshot, portfolio' = p, p.at <= executed[p.user],
         behind' = After(p.user, p.at), ~behind', UNCHANGED <<auth, executed, unpublished>>,
         \A i \in DOMAIN pushes : pushes[i] # p =>
           \E j \in DOMAIN pushes' : pushes'[j] = pushes[i],
         \A c \in calls : c \in calls' \/ c.portfolio = p.at
  PROVE  Coming'
<1>0. executed \in [Users -> Nat] /\ p.user \in Users /\ p.at \in Nat
  BY DEF PortfolioInv, Typed, TypeOK, Snapshot
<1>1. p.user = auth /\ ~(portfolio.user = p.user /\ portfolio.at > p.at)
  BY DEF After, Overtaken
<1>2. CASE p.at = executed[p.user]
  <2>1. p = [user |-> p.user, at |-> p.at]
    BY DEF Snapshot
  <2> QED
    BY <1>1, <1>2, <2>1 DEF Coming, Current
<1>3. CASE p.at # executed[p.user]
  <2>1. Coming
    BY <1>1, <1>3 DEF After
  <2>2. portfolio # Current
    BY <1>0, <1>1, <1>3 DEF Current
  <2>3. ASSUME NEW i \in DOMAIN pushes, pushes[i] = Current PROVE Coming'
    <3>1. pushes[i] # p
      BY <1>1, <1>3, <2>3 DEF Current
    <3>2. PICK j \in DOMAIN pushes' : pushes'[j] = pushes[i]
      BY <3>1
    <3> QED
      BY <2>3, <3>2 DEF Coming, Current
  <2>4. ASSUME NEW c \in calls, BringsCurrent(c) PROVE Coming'
    <3>1. c \in calls'
      BY <1>0, <1>1, <1>3, <2>4 DEF BringsCurrent, Unserved
    <3> QED
      BY <2>4, <3>1 DEF Coming, BringsCurrent
  <2>5. CASE [user |-> auth, id |-> executed[auth]] \in unpublished
    BY <2>5 DEF Coming
  <2> QED
    BY <2>1, <2>2, <2>3, <2>4, <2>5 DEF Coming
<1> QED
  BY <1>2, <1>3

\* As long as nothing went wrong, what makes the page current is under way.
LEMMA CurrentStep == PortfolioInv /\ [Next]_vars => WillBeCurrent'
<1> SUFFICES ASSUME PortfolioInv, [Next]_vars, LoggedIn', ~behind' PROVE Coming'
  BY DEF WillBeCurrent
<1>0. /\ TypeOK /\ Typed /\ NotAhead /\ OwnCalls
      /\ LoggedIn /\ ~behind => Coming
  BY DEF PortfolioInv, WillBeCurrent, Typed
<1>a. ASSUME auth' = auth, \A c \in calls : c.op = "logout" => c \in calls'
      PROVE  LoggedIn /\ auth \in Users
  BY <1>0, <1>a DEF LoggedIn, InFlight, TypeOK
<1>1. CASE \E u \in Users : ConnectWallet(u)
  BY <1>0, <1>1, <1>a, StillComing DEF ConnectWallet, shown, server
<1>2. CASE LoseWallet \/ StartLogin \/ Submit \/ Attach
  BY <1>0, <1>2, <1>a, StillComing
     DEF LoseWallet, StartLogin, Submit, Attach, shown, server, session
<1>3. CASE Disconnect
  <2>1. Logout(auth) \in calls' /\ Logout(auth).op = "logout"
    BY <1>3 DEF Disconnect, Logout, Call
  <2> QED
    BY <2>1 DEF LoggedIn, InFlight
<1>4. ASSUME NEW u \in Users, ExecutedElsewhere(u) PROVE Coming'
  <2>1. /\ Commits(u) /\ calls' = calls /\ ~behind
        /\ UNCHANGED <<auth, portfolio>>
    BY <1>0, <1>4, CommitsFacts DEF ExecutedElsewhere, session, shown
  <2> QED
    BY <1>0, <1>a, <2>1, CommitsComing
<1>5. ASSUME NEW c \in calls, ServeOrder(c) PROVE Coming'
  <2>1. c.user \in Users /\ Commits(c.user) /\ c.op = "place"
    BY <1>0, <1>5, CallFacts DEF ServeOrder, OwnCalls
  <2>2. \A d \in calls : d # c => d \in calls'
    BY <1>5 DEF ServeOrder
  <2>3. /\ ~behind /\ UNCHANGED <<auth, portfolio>>
    BY <1>0, <1>5, <2>1, CommitsFacts DEF ServeOrder, session, shown
  <2>4. LoggedIn
    BY <1>a, <2>1, <2>2, <2>3
  <2>5. \A d \in calls : BringsCurrent(d) => d \in calls'
    BY <2>1, <2>2 DEF BringsCurrent
  <2> QED
    BY <1>0, <2>1, <2>3, <2>4, <2>5, CommitsComing
<1>6. ASSUME NEW c \in calls, ServePortfolio(c) \/ ServeOrders(c) PROVE Coming'
  <2>1. c.user \in Users /\ executed[c.user] \in Nat
    BY <1>0, <1>6, CallFacts DEF ServePortfolio, ServeOrders, OwnCalls, TypeOK
  <2>2. \E d \in calls' : /\ d.op = c.op /\ d.user = c.user
                          /\ d.portfolio \in {c.portfolio, executed[c.user]}
    <3>1. /\ LET d == [c EXCEPT !.portfolio = executed[c.user]]
             IN  d.op = c.op /\ d.user = c.user /\ d.portfolio = executed[c.user]
          /\ LET d == [c EXCEPT !.orders = executed[c.user]]
             IN  d.op = c.op /\ d.user = c.user /\ d.portfolio = c.portfolio
      BY <1>0, <2>1, ServedFacts
    <3> QED
      BY <1>6, <3>1 DEF ServePortfolio, ServeOrders
  <2>3. \A d \in calls : d # c => d \in calls'
    BY <1>6 DEF ServePortfolio, ServeOrders
  <2>4. c.op # "logout"
    BY <1>0, <1>6 DEF ServePortfolio, ServeOrders, OwnCalls, Unserved, NotAsked
  <2>5. UNCHANGED <<auth, portfolio, executed, unpublished, pushes, behind>>
    BY <1>6 DEF ServePortfolio, ServeOrders, session, shown, server
  <2>6. LoggedIn /\ Coming
    BY <1>0, <1>a, <2>3, <2>4, <2>5
  <2> QED
    BY <2>2, <2>3, <2>5, <2>6, StillComing
<1>7. ASSUME NEW c \in calls, LoginAnswered(c) PROVE Coming'
  <2>1. PICK d : d \in calls' /\ d.op = "load" /\ d.user = auth' /\ d.portfolio = Unserved
    <3>1. Load(c.user, loads') \in calls' /\ auth' = c.user
      BY <1>7 DEF LoginAnswered
    <3>2. \A n : /\ Load(c.user, n).op = "load" /\ Load(c.user, n).user = c.user
                /\ Load(c.user, n).portfolio = Unserved
      BY DEF Load, Call
    <3> QED
      BY <3>1, <3>2
  <2>2. BringsCurrent(d)'
    BY <2>1 DEF BringsCurrent
  <2> QED
    BY <2>1, <2>2 DEF Coming
<1>8. ASSUME NEW c \in calls, LogoutAnswered(c) PROVE Coming'
  BY <1>8 DEF LogoutAnswered, LoggedIn
<1>9. ASSUME NEW c \in calls, LoadAnswered(c) \/ Refreshed(c) PROVE Coming'
  <2> DEFINE p == [user |-> c.user, at |-> c.portfolio]
  <2>1. c.user \in Users /\ c.portfolio \in Nat /\ c.op \in {"load", "refresh"}
    BY <1>0, <1>9, AnswerFacts DEF LoadAnswered, Refreshed
  <2>2. p \in Snapshot /\ p.at <= executed[p.user] /\ p.user = c.user /\ p.at = c.portfolio
    BY <1>0, <2>1, BrowserAssumption DEF BrowserAssumption, NotAhead, Snapshot
  <2>3. /\ portfolio' = p /\ behind' = After(p.user, p.at)
        /\ calls' = calls \ {c} /\ UNCHANGED <<auth, executed, unpublished, pushes>>
    BY <1>9 DEF LoadAnswered, Refreshed, Show, session, server
  <2>4. LoggedIn /\ auth \in Users
    BY <1>a, <2>1, <2>3
  <2> HIDE DEF p
  <2>5. \A d \in calls : d \in calls' \/ d.portfolio = p.at
    BY <2>2, <2>3
  <2> QED
    BY <1>0, <2>2, <2>3, <2>4, <2>5, HandledComing
<1>10. ASSUME NEW c \in calls, Placed(c) \/ Fails(c) PROVE Coming'
  <2>1. /\ auth' = auth /\ UNCHANGED <<portfolio, executed, unpublished, pushes>>
        /\ c.op \notin {"logout", "load"} /\ ~behind
        /\ \A d \in calls : d # c => d \in calls'
    <3>1. CASE Placed(c)
      BY <3>1 DEF Placed, session, server
    <3>2. CASE Fails(c)
      BY <3>2 DEF Fails, LoggedIn, shown, server
    <3> QED
      BY <1>10, <3>1, <3>2
  <2>2. LoggedIn
    BY <1>a, <2>1
  <2>3. \A d \in calls : BringsCurrent(d) => d \in calls'
    BY <2>1 DEF BringsCurrent
  <2> QED
    BY <1>0, <2>1, <2>2, <2>3, StillComing
<1>11. CASE Detach
  <2>1. UNCHANGED <<auth, portfolio, executed, unpublished, pushes, calls>> /\ ~behind
    BY <1>0, <1>11 DEF Detach, session, shown
  <2> QED
    BY <1>0, <1>a, <2>1, StillComing
<1>12. CASE PushHandled
  <2>1. pushes \in Seq(Snapshot) /\ pushes # <<>>
    BY <1>0, <1>12 DEF PushHandled, TypeOK
  <2>2. /\ DOMAIN pushes = 1..Len(pushes) /\ Len(pushes) \in Nat
        /\ Head(pushes) = pushes[1] /\ Head(pushes) \in Snapshot
        /\ DOMAIN Tail(pushes) = 1..(Len(pushes) - 1)
        /\ \A i \in 1..(Len(pushes) - 1) : Tail(pushes)[i] = pushes[i + 1]
    BY <2>1, QueueFacts
  <2>3. Head(pushes).at <= executed[Head(pushes).user]
    BY <1>0, <2>1, <2>2, QueueFacts DEF NotAhead
  <2>4. \A i \in DOMAIN pushes : pushes[i] # Head(pushes) =>
          \E j \in DOMAIN Tail(pushes) : Tail(pushes)[j] = pushes[i]
    <3> SUFFICES ASSUME NEW i \in DOMAIN pushes, pushes[i] # Head(pushes)
                 PROVE  \E j \in DOMAIN Tail(pushes) : Tail(pushes)[j] = pushes[i]
      OBVIOUS
    <3>1. i - 1 \in 1..(Len(pushes) - 1) /\ i - 1 + 1 = i
      BY <2>2
    <3> QED
      BY <2>2, <3>1
  <2>5. /\ portfolio' = Head(pushes) /\ pushes' = Tail(pushes)
        /\ behind' = After(Head(pushes).user, Head(pushes).at)
        /\ UNCHANGED <<auth, executed, unpublished, calls>>
    BY <1>12 DEF PushHandled, Show, session
  <2>6. LoggedIn /\ auth \in Users
    BY <1>a, <2>5
  <2> QED
    BY <1>0, <2>2, <2>3, <2>4, <2>5, <2>6, HandledComing
<1>13. CASE UNCHANGED vars
  BY <1>0, <1>13, <1>a, StillComing DEF vars, session, shown, server
<1>14. ASSUME NEW order \in unpublished, Publishes(order) PROVE Coming'
  <2>1. /\ calls' = {Told(c, order) : c \in calls} /\ auth' = auth /\ ~behind
    BY <1>0, <1>14, PublishesFacts
  <2>2. \A c \in calls : c.op = "logout" => c \in calls'
    <3>1. \A c \in calls : c.op = "logout" => Told(c, order) = c
      BY DEF Told
    <3> QED
      BY <2>1, <3>1
  <2>3. LoggedIn
    BY <1>a, <2>1, <2>2
  <2> QED
    BY <1>0, <1>14, <2>1, <2>3, PublishesComing
<1>15. ASSUME NEW order \in unpublished, PublishFails(order) PROVE Coming'
  <2>1. /\ UNCHANGED <<auth, portfolio, executed, pushes, calls>>
        /\ unpublished' = unpublished \ {order}
        /\ ~behind /\ order.user # auth
    BY <1>0, <1>15 DEF PublishFails, session, shown
  <2>2. Coming
    BY <1>0, <1>a, <2>1
  <2>3. CASE [user |-> auth, id |-> executed[auth]] \in unpublished
    BY <2>1, <2>3 DEF Coming
  <2>4. CASE portfolio = Current \/ \E i \in DOMAIN pushes : pushes[i] = Current
    BY <2>1, <2>4 DEF Coming, Current
  <2>5. CASE \E c \in calls : BringsCurrent(c)
    BY <2>1, <2>5 DEF Coming, BringsCurrent
  <2> QED
    BY <2>2, <2>3, <2>4, <2>5 DEF Coming
<1> QED
  BY <1>1, <1>2, <1>3, <1>4, <1>5, <1>6, <1>7, <1>8, <1>9, <1>10, <1>11, <1>12, <1>13,
     <1>14, <1>15, Steps

\* A page at rest shows the account, if nothing went wrong.
LEMMA RestIsCurrent == PortfolioInv => SettledIsCurrent
<1> SUFFICES ASSUME PortfolioInv, Settled, ~behind PROVE portfolio = Current
  BY DEF SettledIsCurrent, PortfolioInv, Typed, Current
<1>1. /\ LoggedIn /\ calls = {} /\ DOMAIN pushes = {}
      /\ [user |-> auth, id |-> executed[auth]] \notin unpublished
  BY DEF Settled, AtRest, LoggedIn, InFlight
<1> QED
  BY <1>1 DEF PortfolioInv, WillBeCurrent, Coming

\* The page is current when it is at rest, however loads, refreshes and pushes
\* overtake each other (page.tsx, order-form.tsx, useWebSocket.ts).
THEOREM PageIsCurrent == Spec => []SettledIsCurrent
<1>1. Init => PortfolioInv
  BY TypedInit DEF Init, PortfolioInv, NotAhead, WillBeCurrent, LoggedIn
<1>2. PortfolioInv /\ [Next]_vars => PortfolioInv'
  BY TypedStep, AheadStep, CurrentStep DEF PortfolioInv
<1> QED
  BY <1>1, <1>2, RestIsCurrent, PTL DEF Spec

-----------------------------------------------------------------------------
(* The list of orders is whole, or comes *)

\* What the calls under way are, after each step.
LEMMA CallsAfter ==
  ASSUME Typed, [Next]_vars
  PROVE  \/ calls' \subseteq calls
         \/ \E u \in Users \cup {Nobody} : calls' = calls \cup {Login(u)}
         \/ Disconnect /\ calls' = calls \cup {Logout(auth)}
         \/ Submit /\ calls' = calls \cup {Place(auth)}
         \/ \E c \in calls : /\ LoginAnswered(c)
                             /\ calls' = (calls \ {c}) \cup {Load(c.user, loads')}
         \/ \E c \in calls : /\ Placed(c)
                             /\ calls' = (calls \ {c}) \cup {Refresh(auth)}
         \/ \E c \in calls, d \in Calls :
              /\ ServeOrder(c) \/ ServePortfolio(c) \/ ServeOrders(c)
              /\ calls' = (calls \ {c}) \cup {d}
              /\ d.op = c.op /\ d.user = c.user
              /\ ServePortfolio(c) => d.orders = c.orders
              /\ ServeOrder(c) => d.n = executed'[c.user] /\ d.portfolio = c.portfolio
         \/ \E order \in unpublished :
              Publishes(order) /\ calls' = {Told(c, order) : c \in calls}
<1> USE DEF Typed
<1>1. CASE StartLogin
  BY <1>1 DEF StartLogin, TypeOK
<1>2. CASE Disconnect \/ Submit
  BY <1>2 DEF Disconnect, Submit
<1>3. CASE \E c \in calls : LoginAnswered(c) \/ Placed(c)
  BY <1>3 DEF LoginAnswered, Placed
<1>4. ASSUME NEW c \in calls, ServeOrder(c)
      PROVE  \E d \in Calls : /\ calls' = (calls \ {c}) \cup {d}
                              /\ d.op = c.op /\ d.user = c.user
                              /\ d.n = executed'[c.user] /\ d.portfolio = c.portfolio
  <2>1. c.user \in Users /\ Commits(c.user)
    BY <1>4, CallFacts DEF ServeOrder, OwnCalls
  <2>2. executed'[c.user] \in Nat
    BY <2>1, CommitsFacts
  <2> QED
    BY <1>4, <2>2, ServedFacts DEF ServeOrder
<1>5. ASSUME NEW c \in calls, ServePortfolio(c) \/ ServeOrders(c)
      PROVE  \E d \in Calls : /\ calls' = (calls \ {c}) \cup {d}
                              /\ d.op = c.op /\ d.user = c.user
                              /\ ServePortfolio(c) => d.orders = c.orders
  <2>1. executed[c.user] \in Nat
    BY <1>5, CallFacts DEF ServePortfolio, ServeOrders, OwnCalls, TypeOK
  <2>2. CASE ServePortfolio(c)
    BY <2>1, <2>2, ServedFacts DEF ServePortfolio
  <2>3. CASE ~ServePortfolio(c)
    BY <1>5, <2>1, <2>3, ServedFacts DEF ServeOrders
  <2> QED
    BY <2>2, <2>3
<1>6. ASSUME NEW c \in calls, ServePortfolio(c) \/ ServeOrders(c) PROVE ~ServeOrder(c)
  BY <1>6, SMTT(30) DEF ServePortfolio, ServeOrders, ServeOrder, OwnCalls, Unserved, NotAsked
<1>7. CASE \/ \E u \in Users : ConnectWallet(u) \/ ExecutedElsewhere(u)
           \/ \E c \in calls : \/ LogoutAnswered(c) \/ LoadAnswered(c)
                              \/ Refreshed(c) \/ Fails(c)
           \/ \E order \in unpublished : PublishFails(order)
           \/ LoseWallet \/ Attach \/ Detach \/ PushHandled \/ UNCHANGED vars
  <2>1. calls' \subseteq calls
    BY <1>7
       DEF ConnectWallet, ExecutedElsewhere, LoseWallet, LogoutAnswered, LoadAnswered,
           Refreshed, Fails, PublishFails, Attach, Detach, PushHandled, vars
  <2> QED
    BY <2>1
<1>8. CASE \E c \in calls : ServeOrder(c) \/ ServePortfolio(c) \/ ServeOrders(c)
  BY <1>4, <1>5, <1>6, <1>8
<1>9. CASE \E order \in unpublished : Publishes(order)
  BY <1>9, PublishesFacts
<1> QED
  BY <1>1, <1>2, <1>3, <1>7, <1>8, <1>9, Steps

\* What the calls the page makes are for.
LEMMA Purposes ==
  ASSUME NEW u, NEW n
  PROVE  /\ Login(u).op = "login" /\ Logout(u).op = "logout"
         /\ Load(u, n).op = "load" /\ Load(u, n).user = u
         /\ Place(u).op = "place" /\ Place(u).user = u /\ Place(u).n = 0
         /\ Refresh(u).op = "refresh"
  BY DEF Login, Logout, Load, Place, Refresh, Call

\* The form waits for its order and the refresh before it sends another.
LEMMA OneOrderStep == Typed /\ OneOrder /\ [Next]_vars => OneOrder'
<1> SUFFICES ASSUME Typed, OneOrder, [Next]_vars,
                    NEW c \in calls', NEW d \in calls',
                    c.op \in {"place", "refresh"}, d.op \in {"place", "refresh"}
             PROVE  busy' /\ c = d
  BY DEF OneOrder, InFlight
<1>0. \A e, f \in calls : /\ e.op \in {"place", "refresh"}
                          /\ f.op \in {"place", "refresh"}
                          => busy /\ e = f
  BY DEF OneOrder, InFlight
<1>1. ASSUME busy PROVE busy' \/ \E e \in calls : /\ e.op \in {"place", "refresh"}
                                                  /\ calls' = calls \ {e}
  BY <1>1, Steps
     DEF ConnectWallet, ExecutedElsewhere, LoseWallet, StartLogin, Disconnect, Submit,
         ServeOrder, ServePortfolio, ServeOrders, LoginAnswered, LogoutAnswered,
         LoadAnswered, Placed, Refreshed, Fails, Publishes, PublishFails, Attach, Detach,
         PushHandled, vars
<1>2. ASSUME NEW e \in calls, e.op \in {"place", "refresh"}, calls' = calls \ {e}
      PROVE  FALSE
  BY <1>0, <1>2
<1>3. CASE calls' \subseteq calls
  BY <1>0, <1>1, <1>2, <1>3
<1>4. CASE Submit /\ calls' = calls \cup {Place(auth)}
  BY <1>0, <1>4 DEF Submit
<1>5. ASSUME NEW b, b.op \notin {"place", "refresh"}, calls' \subseteq calls \cup {b}
      PROVE  busy' /\ c = d
  BY <1>0, <1>1, <1>2, <1>5
<1>6. ASSUME NEW e \in calls, NEW b, e.op \in {"place", "refresh"},
             calls' = (calls \ {e}) \cup {b}
      PROVE  busy' /\ c = d
  <2>1. c = b /\ d = b /\ busy
    BY <1>0, <1>6
  <2> QED
    BY <1>1, <1>2, <2>1
<1>7. ASSUME NEW e \in calls, NEW b, e.op \notin {"place", "refresh"}, b.op = e.op,
             calls' = (calls \ {e}) \cup {b}
      PROVE  busy' /\ c = d
  BY <1>5, <1>7
<1>8. ASSUME NEW e \in calls, Placed(e), calls' = (calls \ {e}) \cup {Refresh(auth)}
      PROVE  busy' /\ c = d
  <2>1. e.op = "place"
    BY <1>8 DEF Placed
  <2> QED
    BY <1>6, <1>8, <2>1
<1>9. ASSUME NEW b, calls' \subseteq calls \cup {b}, b.op \in {"login", "logout", "load"}
      PROVE  busy' /\ c = d
  BY <1>5, <1>9
<1>10. ASSUME NEW e \in calls, NEW b, b.op = e.op, calls' = (calls \ {e}) \cup {b}
       PROVE  busy' /\ c = d
  BY <1>6, <1>7, <1>10
<1>11. ASSUME NEW order \in unpublished, Publishes(order) PROVE busy' /\ c = d
  <2>1. PICK e \in calls : c = Told(e, order)
    BY <1>11, PublishesFacts DEF Typed
  <2>2. PICK f \in calls : d = Told(f, order)
    BY <1>11, PublishesFacts DEF Typed
  <2>3. e.op = c.op /\ f.op = d.op
    BY <2>1, <2>2, ToldFacts DEF SameCall, Typed
  <2>4. busy /\ e = f /\ busy' = busy
    BY <1>0, <1>11, <2>3, PublishesFacts DEF Typed
  <2> QED
    BY <2>1, <2>2, <2>4
<1> QED
  BY <1>3, <1>4, <1>8, <1>9, <1>10, <1>11, CallsAfter, Purposes

\* No load is started during an order, no order during a load, and nobody else
\* logs in.
LEMMA OrderAloneStep == Typed /\ OneOrder /\ OrderAlone /\ [Next]_vars => OrderAlone'
<1> SUFFICES ASSUME Typed, OneOrder, OrderAlone, [Next]_vars, ~crossed',
                    NEW c \in calls', c.op = "place"
             PROVE  /\ \A d \in calls' : d.op # "load"
                    /\ auth' # Nobody => c.user = auth'
  BY DEF OrderAlone, InFlight
<1>0. ~crossed \/ \E e \in calls : LoadAnswered(e) \/ LoginAnswered(e)
  BY Steps
     DEF ConnectWallet, ExecutedElsewhere, LoseWallet, StartLogin, Disconnect, Submit,
         ServeOrder, ServePortfolio, ServeOrders, LogoutAnswered, Placed, Refreshed,
         Fails, Publishes, PublishFails, Attach, Detach, PushHandled, vars
<1>1. ASSUME NEW e \in calls, LoadAnswered(e) PROVE FALSE
  <2>1. calls' = calls \ {e} /\ InFlight({"place", "load"}) = {e}
    BY <1>1 DEF LoadAnswered
  <2>2. c \in InFlight({"place", "load"}) /\ c # e
    BY <2>1 DEF InFlight
  <2> QED
    BY <2>1, <2>2
<1>b. ASSUME NEW e \in calls, LoginAnswered(e) PROVE FALSE
  <2>1. InFlight({"place"}) = {} /\ calls' = (calls \ {e}) \cup {Load(e.user, loads')}
    BY <1>b DEF LoginAnswered, StartLoad
  <2>2. c \in calls
    BY <2>1, Purposes
  <2> QED
    BY <2>1, <2>2 DEF InFlight
<1>2. ~crossed
  BY <1>0, <1>1, <1>b
<1>3. \A e, d \in calls : e.op = "place" =>
        /\ d.op # "load"
        /\ auth # Nobody => e.user = auth
  BY <1>2 DEF OrderAlone, InFlight
<1>4. (\E e \in calls : LoginAnswered(e)) \/ auth' \in {auth, Nobody}
  BY Steps
     DEF ConnectWallet, ExecutedElsewhere, LoseWallet, StartLogin, Disconnect, Submit,
         ServeOrder, ServePortfolio, ServeOrders, LogoutAnswered, LoadAnswered, Placed,
         Refreshed, Fails, Publishes, PublishFails, Attach, Detach, PushHandled, vars,
         session
<1>6. auth' \in {auth, Nobody}
  BY <1>4, <1>b
<1>7. CASE Submit /\ calls' = calls \cup {Place(auth)}
  <2>1. InFlight({"load"}) = {} /\ ~busy /\ auth' = auth
    BY <1>7 DEF Submit, session
  <2>2. c = Place(auth)
    BY <1>7, <2>1 DEF OneOrder, InFlight
  <2> QED
    BY <1>7, <2>1, <2>2, Purposes DEF InFlight
<1>8. ASSUME NEW b, b.op \notin {"place", "load"}, calls' \subseteq calls \cup {b}
      PROVE  /\ \A d \in calls' : d.op # "load"
             /\ auth' # Nobody => c.user = auth'
  BY <1>3, <1>6, <1>8
<1>9. ASSUME NEW e \in calls, NEW b, b.op = e.op, b.user = e.user,
             calls' = (calls \ {e}) \cup {b}
      PROVE  /\ \A d \in calls' : d.op # "load"
             /\ auth' # Nobody => c.user = auth'
  BY <1>3, <1>6, <1>9
<1>10. CASE calls' \subseteq calls
  BY <1>3, <1>6, <1>10
<1>11. ASSUME NEW order \in unpublished, Publishes(order)
       PROVE  /\ \A d \in calls' : d.op # "load"
              /\ auth' # Nobody => c.user = auth'
  <2>1. \A d \in calls' : \E e \in calls : d.op = e.op /\ d.user = e.user
    BY <1>11, PublishesFacts, ToldFacts DEF SameCall, Typed
  <2>2. PICK e \in calls : c.op = e.op /\ c.user = e.user
    BY <2>1
  <2> QED
    BY <1>3, <1>6, <2>1, <2>2
<1> QED
  BY <1>b, <1>7, <1>8, <1>9, <1>10, <1>11, CallsAfter, Purposes

\* A step that touches neither the list nor an order keeps the list whole, or
\* coming.
LEMMA StillListed ==
  ASSUME WillBeListed, LoggedIn, ~crossed, UNCHANGED <<auth, orders, executed>>,
         \A c \in calls : c.op = "load" =>
           \E d \in calls' : d.op = "load" /\ d.user = c.user,
         InFlight({"place"})' = InFlight({"place"})
  PROVE  (\E c \in InFlight({"load"}) : c.user = auth)' \/ AllListed'
<1>1. CASE \E c \in InFlight({"load"}) : c.user = auth
  BY <1>1 DEF InFlight
<1>2. CASE AllListed
  BY <1>2 DEF AllListed
<1> QED
  BY <1>1, <1>2 DEF WillBeListed

\* As long as nothing went wrong, the list is whole, but for the order whose
\* answer is on its way, or it is being loaded.
LEMMA ListedStep == ListInv /\ [Next]_vars => WillBeListed'
<1> DEFINE Goal == (\E c \in InFlight({"load"}) : c.user = auth)' \/ AllListed'
<1> SUFFICES ASSUME ListInv, [Next]_vars, LoggedIn', ~crossed' PROVE Goal
  BY DEF WillBeListed
<1>0. /\ TypeOK /\ Typed /\ OwnCalls /\ OneOrder /\ OrderAlone /\ WillBeListed
      /\ executed \in [Users -> Nat]
  BY DEF ListInv, Typed, TypeOK
<1>a. ASSUME auth' = auth, \A c \in calls : c.op = "logout" => c \in calls'
      PROVE  LoggedIn /\ auth \in Users
  BY <1>0, <1>a DEF LoggedIn, InFlight, TypeOK
<1>b. ASSUME \A c \in calls : c.op = "place" => c \in calls',
             \A c \in calls' : c.op = "place" => c \in calls
      PROVE  InFlight({"place"})' = InFlight({"place"})
  BY <1>b DEF InFlight
<1> HIDE DEF Goal
<1>1. CASE \/ \E u \in Users : ConnectWallet(u)
           \/ \E order \in unpublished : PublishFails(order)
           \/ LoseWallet \/ StartLogin \/ Attach \/ Detach \/ PushHandled
           \/ UNCHANGED vars
  <2>1. UNCHANGED <<auth, orders, executed>> /\ ~crossed
    BY <1>1 DEF ConnectWallet, PublishFails, LoseWallet, StartLogin, Attach, Detach,
                PushHandled, vars, session, shown, server
  <2>2. calls' = calls \/ calls' = calls \cup {Login(wallet)}
    BY <1>1 DEF ConnectWallet, PublishFails, LoseWallet, StartLogin, Attach, Detach,
                PushHandled, vars
  <2>3. InFlight({"place"})' = InFlight({"place"})
    BY <1>b, <2>2, Purposes
  <2> QED
    BY <1>0, <1>a, <2>1, <2>2, <2>3, StillListed DEF Goal
<1>2. CASE Submit
  <2>1. /\ UNCHANGED <<auth, orders, executed>> /\ ~crossed /\ ~busy
        /\ InFlight({"load"}) = {} /\ calls' = calls \cup {Place(auth)}
    BY <1>2 DEF Submit, session, shown, server
  <2>2. LoggedIn
    BY <1>a, <2>1
  <2>3. InFlight({"place"}) = {}
    BY <1>0, <2>1 DEF OneOrder, InFlight
  <2>4. AllListed /\ orders = Listed(auth, executed[auth])
    BY <1>0, <2>1, <2>2, <2>3 DEF WillBeListed, AllListed
  <2>5. \A c \in InFlight({"place"})' : c = Place(auth)
    BY <2>1, <2>3 DEF InFlight
  <2>6. AllListed'
    BY <2>1, <2>4, <2>5, Purposes DEF AllListed
  <2> QED
    BY <2>6 DEF Goal
<1>3. CASE Disconnect
  <2>1. Logout(auth) \in calls'
    BY <1>3 DEF Disconnect
  <2> QED
    BY <2>1, Purposes DEF LoggedIn, InFlight
<1>4. ASSUME NEW u \in Users, ExecutedElsewhere(u) PROVE Goal
  BY <1>4 DEF ExecutedElsewhere
<1>5. ASSUME NEW c \in calls, LoginAnswered(c) PROVE Goal
  <2>1. PICK d : d \in calls' /\ d.op = "load" /\ d.user = auth'
    <3>1. Load(c.user, loads') \in calls' /\ auth' = c.user
      BY <1>5 DEF LoginAnswered
    <3>2. \A n : Load(c.user, n).op = "load" /\ Load(c.user, n).user = c.user
      BY Purposes
    <3> QED
      BY <3>1, <3>2
  <2> QED
    BY <2>1 DEF Goal, InFlight
<1>6. ASSUME NEW c \in calls, LogoutAnswered(c) PROVE Goal
  BY <1>6 DEF LogoutAnswered, LoggedIn
<1>7. ASSUME NEW c \in calls, Refreshed(c) \/ Fails(c) PROVE Goal
  <2>1. /\ UNCHANGED <<auth, orders, executed>> /\ ~crossed /\ calls' = calls \ {c}
        /\ c.op \notin {"logout", "load", "place"}
    <3>1. CASE Refreshed(c)
      BY <3>1 DEF Refreshed, session, server
    <3>2. CASE Fails(c)
      BY <3>2 DEF Fails, LoggedIn, shown, server
    <3> QED
      BY <1>7, <3>1, <3>2
  <2>2. InFlight({"place"})' = InFlight({"place"})
    BY <1>b, <2>1
  <2>3. LoggedIn
    BY <1>a, <2>1
  <2>4. \A d \in calls : d.op = "load" => d \in calls'
    BY <2>1
  <2> QED
    BY <1>0, <2>1, <2>2, <2>3, <2>4, StillListed DEF Goal
<1>8. ASSUME NEW c \in calls, LoadAnswered(c) PROVE Goal
  <2>1. /\ InFlight({"place", "load"}) = {c} /\ c.op = "load" /\ c.user = auth
        /\ c.orders = executed[auth] /\ orders' = Listed(auth, executed[auth])
        /\ auth' = auth /\ executed' = executed /\ calls' = calls \ {c}
    BY <1>8 DEF LoadAnswered, session, server
  <2>2. InFlight({"place"})' = {}
    BY <2>1 DEF InFlight
  <2>3. AllListed'
    BY <2>1, <2>2 DEF AllListed
  <2> QED
    BY <2>3 DEF Goal
<1>9. ASSUME NEW c \in calls, Placed(c) PROVE Goal
  <2>1. /\ c.op = "place" /\ Served(c) /\ c.user = auth /\ ~crossed
        /\ orders' = <<[user |-> c.user, id |-> c.orders]>> \o orders
        /\ calls' = (calls \ {c}) \cup {Refresh(auth)}
        /\ auth' = auth /\ executed' = executed
    BY <1>9 DEF Placed, session, server
  <2>2. LoggedIn /\ auth \in Users
    BY <1>a, <2>1
  <2>3. c \in InFlight({"place"}) /\ InFlight({"load"}) = {}
    BY <1>0, <2>1 DEF InFlight, OrderAlone
  <2>4. AllListed
    BY <1>0, <2>1, <2>2, <2>3 DEF WillBeListed
  <2>5. c.orders = executed[auth] /\ c.orders # 0
        /\ orders = Listed(auth, executed[auth] - 1)
    <3>1. c.orders = c.n /\ c.n # 0
      BY <1>0, <2>1 DEF OwnCalls, Served
    <3> QED
      BY <2>3, <2>4, <3>1 DEF AllListed
  <2>6. executed[auth] \in Nat \ {0}
    BY <1>0, <2>2, <2>5
  <2>7. orders' = Listed(auth, executed[auth])
    BY <2>1, <2>2, <2>5, <2>6, ListedGrows
  <2>8. InFlight({"place"})' = {}
    <3>1. \A e \in calls : e.op = "place" => e = c
      BY <1>0, <2>1 DEF InFlight, OneOrder
    <3>2. \A e \in calls' : e.op # "place"
      BY <2>1, <3>1, Purposes
    <3> QED
      BY <3>2 DEF InFlight
  <2>9. AllListed'
    BY <2>1, <2>7, <2>8 DEF AllListed
  <2> QED
    BY <2>9 DEF Goal
<1>10. ASSUME NEW c \in calls, ServePortfolio(c) \/ ServeOrders(c) PROVE Goal
  <2>1. PICK d \in Calls : calls' = (calls \ {c}) \cup {d} /\ d.op = c.op /\ d.user = c.user
    <3>1. executed[c.user] \in Nat
      BY <1>0, <1>10, CallFacts DEF ServePortfolio, ServeOrders, OwnCalls
    <3>2. CASE ServePortfolio(c)
      <4>1. PICK d : d = [c EXCEPT !.portfolio = executed[c.user]]
        OBVIOUS
      <4>2. d \in Calls /\ d.op = c.op /\ d.user = c.user
        BY <1>0, <3>1, <4>1, ServedFacts
      <4>3. calls' = (calls \ {c}) \cup {d}
        BY <3>2, <4>1 DEF ServePortfolio
      <4> QED
        BY <4>2, <4>3
    <3>3. CASE ServeOrders(c)
      <4>1. PICK d : d = [c EXCEPT !.orders = executed[c.user]]
        OBVIOUS
      <4>2. d \in Calls /\ d.op = c.op /\ d.user = c.user
        BY <1>0, <3>1, <4>1, ServedFacts
      <4>3. calls' = (calls \ {c}) \cup {d}
        BY <3>3, <4>1 DEF ServeOrders
      <4> QED
        BY <4>2, <4>3
    <3> QED
      BY <1>10, <3>2, <3>3
  <2>2. UNCHANGED <<auth, orders, executed>> /\ ~crossed
    BY <1>10 DEF ServePortfolio, ServeOrders, session, shown, server
  <2>3. c.op # "place" /\ c.op # "logout"
    BY <1>0, <1>10 DEF ServePortfolio, ServeOrders, OwnCalls, Unserved, NotAsked
  <2>4. InFlight({"place"})' = InFlight({"place"})
    BY <1>b, <2>1, <2>3
  <2>5. LoggedIn
    BY <1>a, <2>1, <2>2, <2>3
  <2>6. \A e \in calls : e.op = "load" => \E f \in calls' : f.op = "load" /\ f.user = e.user
    BY <2>1
  <2> QED
    BY <1>0, <2>2, <2>4, <2>5, <2>6, StillListed DEF Goal
<1>11. ASSUME NEW c \in calls, ServeOrder(c) PROVE Goal
  <2>1. c.user \in Users /\ Commits(c.user) /\ c.op = "place" /\ c.n = 0
    BY <1>0, <1>11, CallFacts DEF ServeOrder, OwnCalls
  <2>2. /\ executed'[c.user] = executed[c.user] + 1
        /\ executed'[c.user] \in Nat /\ executed[c.user] \in Nat
    BY <1>0, <2>1, CommitsFacts
  <2>3. PICK d \in Calls : /\ calls' = (calls \ {c}) \cup {d} /\ d.op = "place"
                           /\ d.n = executed'[c.user]
    <3>1. calls' = (calls \ {c}) \cup {[c EXCEPT !.n = executed'[c.user]]}
      BY <1>11 DEF ServeOrder
    <3>2. LET d == [c EXCEPT !.n = executed'[c.user]]
          IN  d \in Calls /\ d.op = c.op /\ d.n = executed'[c.user]
      BY <1>0, <2>2, ServedFacts
    <3> QED
      BY <2>1, <3>1, <3>2
  <2>4. UNCHANGED <<auth, orders>> /\ ~crossed
    BY <1>11 DEF ServeOrder, session, shown
  <2>5. LoggedIn /\ auth # Nobody
    BY <1>a, <2>1, <2>3, <2>4 DEF LoggedIn
  <2>6. c \in InFlight({"place"}) /\ \A e \in InFlight({"place"}) : e = c
    BY <1>0, <2>1 DEF InFlight, OneOrder
  <2>7. c.user = auth /\ InFlight({"load"}) = {}
    BY <1>0, <2>4, <2>5, <2>6 DEF OrderAlone
  <2>8. AllListed
    BY <1>0, <2>4, <2>5, <2>7 DEF WillBeListed
  <2>9. orders = Listed(auth, executed[auth])
    BY <2>1, <2>6, <2>8 DEF AllListed
  <2>10. executed'[auth] - 1 = executed[auth] /\ executed'[auth] # 0
    BY <2>2, <2>7
  <2>11. d \in InFlight({"place"})' /\ \A e \in InFlight({"place"})' : e = d
    BY <2>3, <2>6 DEF InFlight
  <2>12. AllListed'
    BY <2>3, <2>4, <2>7, <2>9, <2>10, <2>11 DEF AllListed
  <2> QED
    BY <2>12 DEF Goal
<1>12. ASSUME NEW order \in unpublished, Publishes(order) PROVE Goal
  <2>1. /\ calls' = {Told(c, order) : c \in calls}
        /\ UNCHANGED <<auth, orders, executed>> /\ ~crossed
    BY <1>0, <1>12, PublishesFacts
  <2>2. \A c \in calls : Told(c, order) \in calls' /\ SameCall(c, Told(c, order))
    BY <1>0, <2>1, ToldFacts
  <2>3. \A d \in calls' : \E c \in calls : SameCall(c, d)
    BY <2>1, <2>2
  <2>4. LoggedIn
    BY <2>1, <2>2 DEF LoggedIn, InFlight, SameCall
  <2>5. CASE \E c \in InFlight({"load"}) : c.user = auth
    BY <2>1, <2>2, <2>5 DEF Goal, InFlight, SameCall
  <2>6. CASE AllListed
    <3>1. \A d \in InFlight({"place"})' : \E c \in InFlight({"place"}) : d.n = c.n
      BY <2>3 DEF InFlight, SameCall
    <3>2. \A c \in InFlight({"place"}) : \E d \in InFlight({"place"})' : d.n = c.n
      BY <2>2 DEF InFlight, SameCall
    <3> QED
      BY <2>1, <2>6, <3>1, <3>2 DEF Goal, AllListed
  <2> QED
    BY <1>0, <2>1, <2>4, <2>5, <2>6 DEF WillBeListed
<1> QED
  BY <1>1, <1>2, <1>3, <1>4, <1>5, <1>6, <1>7, <1>8, <1>9, <1>10, <1>11, <1>12, Steps

\* The list of orders is the account's when the page is at rest, however the
\* answers come (page.tsx, order-form.tsx, the trading store).
THEOREM ListIsWhole == Spec => []OrdersListedOnce
<1>1. Init => ListInv
  <2> SUFFICES ASSUME Init PROVE ListInv
    OBVIOUS
  <2>1. calls = {} /\ auth = Nobody
    BY DEF Init
  <2> QED
    BY <2>1, TypedInit
       DEF ListInv, OneOrder, OrderAlone, WillBeListed, LoggedIn, InFlight
<1>2. ListInv /\ [Next]_vars => ListInv'
  BY TypedStep, OneOrderStep, OrderAloneStep, ListedStep DEF ListInv
<1>3. ListInv => OrdersListedOnce
  BY DEF ListInv, WillBeListed, OrdersListedOnce, AtRest, LoggedIn, InFlight, AllListed
<1> QED
  BY <1>1, <1>2, <1>3, PTL DEF Spec


-----------------------------------------------------------------------------
(* The price chart *)

\* A set of minutes in order is a list of all of them, oldest first: the number
\* of those not younger tells any two of them apart.
LEMMA OldestFirst ==
  ASSUME NEW S \in SUBSET Minutes
  PROVE  /\ InOrder(S) \in Seq(S)
         /\ \A i, j \in DOMAIN InOrder(S) : i < j => InOrder(S)[i] < InOrder(S)[j]
         /\ InOrder(S) = <<>> => S = {}
<1> DEFINE UpTo(m) == {k \in S : k <= m}
           n == Cardinality(S)
           rank == [m \in S |-> Cardinality(UpTo(m))]
<1>1. /\ IsFiniteSet(S) /\ n \in Nat
      /\ \A m \in S : m \in Int
  <2>1. IsFiniteSet(Minutes) /\ \A m \in Minutes : m \in Int
    BY ChartAssumption, FS_Interval DEF Minutes, ChartAssumption
  <2> QED
    BY <2>1, FS_Subset, FS_CardinalityType
<1>2. \A m \in S : Cardinality(UpTo(m)) \in Nat /\ IsFiniteSet(UpTo(m))
  BY <1>1, FS_Subset, FS_CardinalityType
<1>3. \A m, k \in S : m < k => Cardinality(UpTo(m)) < Cardinality(UpTo(k))
  <2> SUFFICES ASSUME NEW m \in S, NEW k \in S, m < k
               PROVE  Cardinality(UpTo(m)) < Cardinality(UpTo(k))
    OBVIOUS
  <2>1. UpTo(m) \in SUBSET UpTo(k) /\ k \in UpTo(k) /\ k \notin UpTo(m)
    BY <1>1
  <2>2. UpTo(m) # UpTo(k) /\ IsFiniteSet(UpTo(k))
    BY <1>2, <2>1
  <2> HIDE DEF UpTo
  <2>3. /\ Cardinality(UpTo(m)) <= Cardinality(UpTo(k))
        /\ Cardinality(UpTo(m)) # Cardinality(UpTo(k))
    BY <2>1, <2>2, FS_Subset
  <2> QED
    BY <1>2, <2>3
<1>4. \A m \in S : Cardinality(UpTo(m)) \in 1..n
  <2> SUFFICES ASSUME NEW m \in S PROVE Cardinality(UpTo(m)) \in 1..n
    OBVIOUS
  <2>1. UpTo(m) \in SUBSET S /\ {m} \in SUBSET UpTo(m)
    BY <1>1
  <2>2. Cardinality({m}) = 1
    BY FS_Singleton
  <2> HIDE DEF UpTo
  <2>3. Cardinality(UpTo(m)) <= n
    BY <1>1, <2>1, FS_Subset
  <2>4. 1 <= Cardinality(UpTo(m))
    BY <1>2, <2>1, <2>2, FS_Subset
  <2> QED
    BY <1>1, <1>2, <2>3, <2>4
<1> HIDE DEF UpTo
<1>5. rank \in Injection(S, 1..n)
  <2>1. rank \in [S -> 1..n]
    BY <1>4
  <2>2. ASSUME NEW m \in S, NEW k \in S, rank[m] = rank[k] PROVE m = k
    <3>1. m \in Int /\ k \in Int /\ ~(m < k) /\ ~(k < m)
      BY <1>1, <1>2, <1>3, <2>2
    <3> QED
      BY <3>1
  <2> QED
    BY <2>1, <2>2 DEF Injection, IsInjective
<1>6. rank \in Surjection(S, 1..n)
  <2>1. IsFiniteSet(1..n) /\ Cardinality(1..n) = n
    BY <1>1, FS_Interval
  <2> HIDE DEF rank
  <2> QED
    BY <1>5, <2>1, FS_Injection
<1>7. \A i \in 1..n : Nth(S, i) \in S /\ Cardinality(UpTo(Nth(S, i))) = i
  <2> SUFFICES ASSUME NEW i \in 1..n
               PROVE  Nth(S, i) \in S /\ Cardinality(UpTo(Nth(S, i))) = i
    OBVIOUS
  <2>1. PICK m \in S : Cardinality(UpTo(m)) = i
    BY <1>6 DEF Surjection
  <2>2. Nth(S, i) \in S /\ Cardinality({k \in S : k <= Nth(S, i)}) = i
    BY <2>1 DEF Nth, UpTo
  <2> QED
    BY <2>2 DEF UpTo
<1>8. InOrder(S) \in [1..n -> S]
  BY <1>7 DEF InOrder
<1>9. ASSUME NEW i \in 1..n, NEW j \in 1..n, i < j
      PROVE  Nth(S, i) < Nth(S, j)
  <2>1. /\ Nth(S, i) \in Int /\ Nth(S, j) \in Int
        /\ ~(Nth(S, j) < Nth(S, i)) /\ Nth(S, j) # Nth(S, i)
    BY <1>1, <1>3, <1>7, <1>9
  <2> QED
    BY <2>1
<1>10. InOrder(S) \in Seq(S) /\ DOMAIN InOrder(S) = 1..n
  BY <1>1, <1>8
<1>11. InOrder(S) = <<>> => S = {}
  <2> SUFFICES ASSUME InOrder(S) = <<>>, NEW m \in S PROVE FALSE
    OBVIOUS
  <2>1. 1..n = {}
    BY <1>10
  <2> QED
    BY <1>4, <2>1
<1> QED
  BY <1>9, <1>10, <1>11 DEF InOrder

\* What can be on the chart: candles, or points of the area.
Marks == Candles \cup [time : LocalMinutes, value : Prices]

\* A list as priceHistoryRef keeps it, ...
GoodHistory(h) ==
  /\ h \in Seq(Candles)
  /\ Len(h) <= MaxHistory
  /\ Ascending(h)
  /\ \A i \in DOMAIN h : h[i].low <= h[i].close /\ h[i].close <= h[i].high

\* ... and a chart that shows it.
GoodChart(bars, type, h) ==
  /\ bars \in Seq(Marks)
  /\ Ascending(bars)
  /\ Len(bars) >= Len(h)
  /\ LastOf(bars, Len(h)) = Bars(type, h)

\* Cutting a list from the left.
LEMMA LastOfIs ==
  ASSUME NEW T, NEW s \in Seq(T), NEW n \in Nat
  PROVE  /\ LastOf(s, n) \in Seq(T)
         /\ Len(LastOf(s, n)) = IF Len(s) <= n THEN Len(s) ELSE n
         /\ \A i \in 1..Len(LastOf(s, n)) :
              LastOf(s, n)[i] = s[Len(s) - Len(LastOf(s, n)) + i]
<1>1. CASE Len(s) <= n
  BY <1>1 DEF LastOf
<1>2. CASE Len(s) > n
  <2> DEFINE a == Len(s) - n + 1
             b == Len(s)
  <2>1. Len(s) \in Nat /\ a \in 1..Len(s) + 1 /\ b \in a - 1..Len(s)
    BY <1>2
  <2>2. LastOf(s, n) = SubSeq(s, a, b)
    BY <1>2, <2>1 DEF LastOf
  <2>3. b - a + 1 = n
    BY <2>1
  <2>4. \A i \in a..b : s[i] \in T
    BY <2>1
  <2>5. /\ SubSeq(s, a, b) \in Seq(T)
        /\ Len(SubSeq(s, a, b)) = IF a <= b THEN b - a + 1 ELSE 0
        /\ \A i \in 1..b - a + 1 : SubSeq(s, a, b)[i] = s[a + i - 1]
    BY <2>1, <2>4, SubSeqProperties
  <2>6. Len(SubSeq(s, a, b)) = n
    BY <2>1, <2>3, <2>5
  <2>7. \A i \in 1..n : SubSeq(s, a, b)[i] = s[Len(s) - n + i]
    <3>1. \A i \in 1..n : a + i - 1 = Len(s) - n + i
      BY <2>1
    <3> QED
      BY <2>3, <2>5, <3>1
  <2> QED
    BY <1>2, <2>1, <2>2, <2>5, <2>6, <2>7
<1> QED
  BY <1>1, <1>2

\* A mark is at its time.
LEMMA MarkTime ==
  /\ \A m \in Marks : m.time \in Int
  /\ \A c \in Candles : /\ c.time \in Int /\ c.time \in LocalMinutes
                        /\ c.high \in Prices /\ c.low \in Prices /\ c.close \in Prices
  /\ \A c \in Candles : \A type : Bar(type, c) \in Marks /\ Bar(type, c).time = c.time
<1>1. \A t \in LocalMinutes : t \in Int
  BY ChartAssumption DEF LocalMinutes, ChartAssumption
<1>2. \A c \in Candles : /\ c.time \in LocalMinutes /\ c.high \in Prices
                         /\ c.low \in Prices /\ c.close \in Prices
  BY DEF Candles
<1>3. \A m \in Marks : m.time \in LocalMinutes
  BY <1>2 DEF Marks
<1>4. \A c \in Candles : \A type : Bar(type, c) \in Marks /\ Bar(type, c).time = c.time
  BY <1>2 DEF Bar, Marks
<1> QED
  BY <1>1, <1>2, <1>3, <1>4

\* What is left of a list in order is in order.
LEMMA LastOfAscending ==
  ASSUME NEW s \in Seq(Marks), NEW n \in Nat, Ascending(s)
  PROVE  Ascending(LastOf(s, n))
<1> DEFINE t == LastOf(s, n)
<1>1. /\ t \in Seq(Marks) /\ Len(t) \in Nat /\ Len(s) \in Nat /\ Len(t) <= Len(s)
      /\ \A i \in 1..Len(t) : t[i] = s[Len(s) - Len(t) + i]
  BY LastOfIs
<1> HIDE DEF t
<1>2. ASSUME NEW i \in 1..Len(t) - 1 PROVE t[i].time < t[i + 1].time
  <2> DEFINE j == Len(s) - Len(t) + i
  <2>1. j \in 1..Len(s) - 1 /\ i \in 1..Len(t) /\ i + 1 \in 1..Len(t)
        /\ Len(s) - Len(t) + (i + 1) = j + 1
    BY <1>1
  <2>2. t[i] = s[j] /\ t[i + 1] = s[j + 1]
    BY <1>1, <2>1
  <2> QED
    BY <2>1, <2>2 DEF Ascending
<1> QED
  BY <1>2 DEF Ascending, t

\* The chart shows the history: bar by bar.
LEMMA ShownEach ==
  ASSUME NEW bars \in Seq(Marks), NEW h \in Seq(Candles), NEW type,
         Len(bars) >= Len(h)
  PROVE  LastOf(bars, Len(h)) = Bars(type, h)
           <=> \A i \in 1..Len(h) : bars[Len(bars) - Len(h) + i] = Bar(type, h[i])
<1> DEFINE t == LastOf(bars, Len(h))
           b == Bars(type, h)
<1>1. /\ Len(bars) \in Nat /\ Len(h) \in Nat /\ t \in Seq(Marks) /\ Len(t) = Len(h)
      /\ \A i \in 1..Len(h) : t[i] = bars[Len(bars) - Len(h) + i]
  <2>1. Len(bars) \in Nat /\ Len(h) \in Nat
    OBVIOUS
  <2>2. /\ t \in Seq(Marks) /\ Len(t) = IF Len(bars) <= Len(h) THEN Len(bars) ELSE Len(h)
        /\ \A i \in 1..Len(t) : t[i] = bars[Len(bars) - Len(t) + i]
    BY <2>1, LastOfIs
  <2> HIDE DEF t
  <2>3. Len(t) = Len(h)
    BY <2>1, <2>2
  <2> QED
    BY <2>1, <2>2, <2>3
<1>2. DOMAIN t = 1..Len(h) /\ t = [i \in DOMAIN t |-> t[i]]
  BY <1>1
<1>3. DOMAIN b = 1..Len(h) /\ \A i \in 1..Len(h) : b[i] = Bar(type, h[i])
  BY <1>1 DEF Bars
<1>4. b = [i \in DOMAIN b |-> b[i]]
  BY DEF Bars
<1> HIDE DEF t, b
<1>5. t = b <=> \A i \in 1..Len(h) : t[i] = b[i]
  BY <1>2, <1>3, <1>4
<1> QED
  BY <1>1, <1>3, <1>5 DEF t, b

\* The live candle of an answer is not older than its rows.
NewestLast(a) == a.current # None => \A m \in a.rows : m <= a.current

\* What has been fetched is in order, though it was read in two halves.
LEMMA FetchedInOrder ==
  ASSUME answer \in Lookups, NewestLast(answer), NEW p \in Prices
  PROVE  /\ Fetched(p) \in Seq(Candles)
         /\ Ascending(Fetched(p))
         /\ \A i \in DOMAIN Fetched(p) :
              /\ Fetched(p)[i].low <= Fetched(p)[i].close
              /\ Fetched(p)[i].close <= Fetched(p)[i].high
<1> DEFINE OfOnePrice(m) == [time |-> m, high |-> p, low |-> p, close |-> p]
           closed == InOrder(answer.rows)
           times == IF answer.current \in answer.rows \cup {None} THEN closed
                    ELSE Append(closed, answer.current)
<1>1. answer.rows \in SUBSET Minutes /\ answer.current \in Minutes \cup {None}
  BY DEF Lookups
<1>2. \A m \in Minutes : m \in Int /\ m \in LocalMinutes
  BY ChartAssumption DEF Minutes, LocalMinutes, ChartAssumption
<1>3. /\ closed \in Seq(answer.rows) /\ closed \in Seq(Minutes)
      /\ \A i, j \in DOMAIN closed : i < j => closed[i] < closed[j]
  <2>1. /\ closed \in Seq(answer.rows)
        /\ \A i, j \in DOMAIN closed : i < j => closed[i] < closed[j]
    BY <1>1, OldestFirst
  <2> HIDE DEF closed
  <2> QED
    BY <1>1, <2>1
<1>4. /\ times \in Seq(Minutes)
      /\ \A i \in 1..Len(times) - 1 : times[i] < times[i + 1]
  <2> HIDE DEF closed
  <2>1. CASE answer.current \in answer.rows \cup {None}
    BY <1>3, <2>1
  <2>2. CASE answer.current \notin answer.rows \cup {None}
    <3> DEFINE last == answer.current
    <3>1. last \in Minutes /\ \A m \in answer.rows : m < last
      BY <1>1, <1>2, <2>2 DEF NewestLast
    <3>2. times = Append(closed, last)
      BY <2>2
    <3> HIDE DEF times, last
    <3>3. times \in Seq(Minutes) /\ Len(times) = Len(closed) + 1
      BY <1>3, <3>1, <3>2
    <3>4. /\ \A i \in 1..Len(closed) : times[i] = closed[i] /\ closed[i] \in answer.rows
          /\ times[Len(closed) + 1] = last
      BY <1>3, <3>1, <3>2
    <3> QED
      BY <1>3, <3>1, <3>3, <3>4
  <2> QED
    BY <2>1, <2>2
<1>5. Fetched(p) = [i \in DOMAIN times |-> OfOnePrice(times[i])]
  BY DEF Fetched
<1> HIDE DEF times
<1>6. \A m \in Minutes :
        /\ OfOnePrice(m) \in Candles /\ OfOnePrice(m).time = m
        /\ OfOnePrice(m).low = p /\ OfOnePrice(m).close = p /\ OfOnePrice(m).high = p
  BY <1>2 DEF Candles
<1>7. p \in Nat
  BY ChartAssumption DEF ChartAssumption
<1> HIDE DEF OfOnePrice
<1>8. /\ Len(times) \in Nat /\ DOMAIN times = 1..Len(times)
      /\ \A i \in 1..Len(times) : times[i] \in Minutes
  BY <1>4
<1>9. /\ Fetched(p) \in Seq(Candles) /\ Len(Fetched(p)) = Len(times)
      /\ DOMAIN Fetched(p) = 1..Len(times)
      /\ \A i \in 1..Len(times) : Fetched(p)[i] = OfOnePrice(times[i])
  <2>1. DOMAIN Fetched(p) = 1..Len(times)
        /\ \A i \in 1..Len(times) : Fetched(p)[i] = OfOnePrice(times[i])
    BY <1>5, <1>8
  <2>2. Fetched(p) \in [1..Len(times) -> Candles]
    BY <1>5, <1>6, <1>8
  <2> QED
    BY <1>8, <2>1, <2>2
<1>10. Ascending(Fetched(p))
  <2> SUFFICES ASSUME NEW i \in 1..Len(times) - 1
               PROVE  Fetched(p)[i].time < Fetched(p)[i + 1].time
    BY <1>9 DEF Ascending
  <2>1. i \in 1..Len(times) /\ i + 1 \in 1..Len(times)
    BY <1>8
  <2> QED
    BY <1>4, <1>6, <1>8, <1>9, <2>1
<1> QED
  BY <1>6, <1>7, <1>8, <1>9, <1>10

\* The candle a price adds to the history, and the last one brought up to date.
Begun(p) == [time |-> LocalMinute, high |-> p, low |-> p, close |-> p]

Extended(c, p) == [c EXCEPT !.high = IF p > @ THEN p ELSE @,
                            !.low = IF p < @ THEN p ELSE @,
                            !.close = p]

\* The history with one more candle.
Lengthened(h, c) == LastOf(Append(h, c), MaxHistory)

\* A candle with a price is a candle.
LEMMA CandleWithPrice ==
  ASSUME minute \in Minutes, skew \in -MaxSkew..MaxSkew, NEW p \in Prices,
         NEW c \in Candles, c.low <= c.close, c.close <= c.high
  PROVE  /\ Begun(p) \in Candles /\ Begun(p).time = LocalMinute
         /\ Begun(p).low <= Begun(p).close /\ Begun(p).close <= Begun(p).high
         /\ Extended(c, p) \in Candles /\ Extended(c, p).time = c.time
         /\ Extended(c, p).low <= Extended(c, p).close
         /\ Extended(c, p).close <= Extended(c, p).high
<1>1. LocalMinute \in LocalMinutes
  BY ChartAssumption DEF ChartAssumption, LocalMinute, LocalMinutes, Minutes
<1>2. p \in Nat /\ c.high \in Nat /\ c.low \in Nat
  BY MarkTime, ChartAssumption DEF ChartAssumption
<1>3. /\ Begun(p) \in Candles /\ Begun(p).time = LocalMinute
      /\ Begun(p).low = p /\ Begun(p).close = p /\ Begun(p).high = p
  BY <1>1 DEF Begun, Candles
<1>4. /\ c.time \in LocalMinutes /\ c.high \in Prices /\ c.low \in Prices
      /\ c = [time |-> c.time, high |-> c.high, low |-> c.low, close |-> c.close]
  BY DEF Candles
<1>5. PICK h \in {p, c.high} : h = IF p > c.high THEN p ELSE c.high
  OBVIOUS
<1>6. PICK l \in {p, c.low} : l = IF p < c.low THEN p ELSE c.low
  OBVIOUS
<1>7. h \in Prices /\ l \in Prices /\ l <= p /\ p <= h
  BY <1>2, <1>4, <1>5, <1>6
<1>8. Extended(c, p) = [c EXCEPT !.high = h, !.low = l, !.close = p]
  BY <1>5, <1>6 DEF Extended
<1>9. /\ Extended(c, p) \in Candles /\ Extended(c, p).time = c.time
      /\ Extended(c, p).low = l /\ Extended(c, p).close = p /\ Extended(c, p).high = h
  BY ONLY <1>7, <1>8, c \in Candles, p \in Prices DEF Candles
<1> QED
  BY <1>2, <1>3, <1>7, <1>9

\* What a price does to the history: nothing, or another last candle, or one
\* more.
LEMMA DrawnIs ==
  ASSUME NEW h, NEW p
  PROVE  /\ p = 0 \/ h = <<>> => Drawn(h, p) = h
         /\ p # 0 /\ h # <<>> /\ LocalMinute > Last(h).time =>
              Drawn(h, p) = Lengthened(h, Begun(p))
         /\ p # 0 /\ h # <<>> /\ ~(LocalMinute > Last(h).time) =>
              Drawn(h, p) = [h EXCEPT ![Len(h)] = Extended(Last(h), p)]
  BY DEF Drawn, Begun, Extended, Lengthened

\* d is h with c at its end, cut to MaxHistory from the left.
IsLengthened(d, h, c) ==
  /\ d \in Seq(Candles)
  /\ Len(d) > 0 /\ Len(d) <= MaxHistory /\ Len(d) <= Len(h) + 1
  /\ d[Len(d)] = c
  /\ \A i \in 1..Len(d) - 1 : d[i] = h[Len(h) + 1 - Len(d) + i]

\* That is what one more candle makes of a history.
LEMMA AppendedAndCut ==
  ASSUME NEW h \in Seq(Candles), Len(h) <= MaxHistory, Len(h) > 0, NEW c \in Candles,
         NEW d, d = Lengthened(h, c)
  PROVE  IsLengthened(d, h, c)
<1>1. MaxHistory \in Nat \ {0} /\ Len(h) \in Nat /\ Len(h) > 0
  BY ChartAssumption DEF ChartAssumption
<1>2. /\ Append(h, c) \in Seq(Candles) /\ Len(Append(h, c)) = Len(h) + 1
      /\ Append(h, c)[Len(h) + 1] = c
      /\ \A i \in 1..Len(h) : Append(h, c)[i] = h[i]
  OBVIOUS
<1>3. PICK a \in Seq(Candles) : a = Append(h, c)
  BY <1>2
<1>4. /\ d \in Seq(Candles)
      /\ Len(d) = IF Len(h) + 1 <= MaxHistory THEN Len(h) + 1 ELSE MaxHistory
      /\ \A i \in 1..Len(d) : d[i] = a[Len(h) + 1 - Len(d) + i]
  <2> DEFINE IsCut(t) ==
               /\ t \in Seq(Candles)
               /\ Len(t) = IF Len(a) <= MaxHistory THEN Len(a) ELSE MaxHistory
               /\ \A i \in 1..Len(t) : t[i] = a[Len(a) - Len(t) + i]
  <2>1. IsCut(LastOf(a, MaxHistory))
    BY <1>1, LastOfIs
  <2>2. d = LastOf(a, MaxHistory) /\ Len(a) = Len(h) + 1
    BY <1>2, <1>3 DEF Lengthened
  <2> HIDE DEF IsCut
  <2>3. IsCut(d)
    BY <2>1, <2>2
  <2>4. d \in Seq(Candles) /\ Len(d) \in Nat
    BY <2>3 DEF IsCut
  <2>5. ASSUME NEW i \in 1..Len(d)
        PROVE  d[i] = a[Len(h) + 1 - Len(d) + i]
    <3>1. d[i] = a[Len(a) - Len(d) + i]
      BY <2>3 DEF IsCut
    <3>2. Len(a) - Len(d) + i = Len(h) + 1 - Len(d) + i
      BY <2>2
    <3> QED
      BY ONLY <3>1, <3>2
  <2>6. Len(d) = IF Len(h) + 1 <= MaxHistory THEN Len(h) + 1 ELSE MaxHistory
    BY <2>2, <2>3 DEF IsCut
  <2> QED
    BY ONLY <2>4, <2>5, <2>6
<1>5. Len(d) \in 1..Len(h) + 1 /\ Len(d) <= MaxHistory
  BY <1>1, <1>4
<1>6. d[Len(d)] = c
  <2>1. Len(h) + 1 - Len(d) + Len(d) = Len(h) + 1 /\ Len(d) \in 1..Len(d)
    BY <1>1, <1>5
  <2> QED
    BY <1>2, <1>3, <1>4, <2>1
<1>7. ASSUME NEW i \in 1..Len(d) - 1
      PROVE  d[i] = h[Len(h) + 1 - Len(d) + i]
  <2>1. i \in 1..Len(d) /\ Len(h) + 1 - Len(d) + i \in 1..Len(h)
    BY <1>1, <1>5
  <2> QED
    BY <1>2, <1>3, <1>4, <2>1
<1>8. d \in Seq(Candles) /\ Len(d) > 0 /\ Len(d) <= MaxHistory /\ Len(d) <= Len(h) + 1
  BY <1>1, <1>4, <1>5
<1> QED
  BY ONLY <1>6, <1>7, <1>8 DEF IsLengthened

\* A price leaves a good history good.
LEMMA DrawnGood ==
  ASSUME minute \in Minutes, skew \in -MaxSkew..MaxSkew,
         NEW h, GoodHistory(h), NEW p \in Prices \cup {0}
  PROVE  GoodHistory(Drawn(h, p))
<1> USE DEF GoodHistory
<1>1. CASE p = 0 \/ h = <<>>
  BY <1>1, DrawnIs
<1>2. CASE p # 0 /\ h # <<>>
  <2>1. /\ p \in Prices /\ Len(h) \in Nat /\ Len(h) > 0 /\ h[Len(h)] \in Candles
        /\ Last(h) = h[Len(h)]
        /\ h[Len(h)].low <= h[Len(h)].close /\ h[Len(h)].close <= h[Len(h)].high
    BY <1>2 DEF Last
  <2>2. PICK last \in Candles : last = h[Len(h)]
    BY <2>1
  <2>3. CASE LocalMinute > last.time
    <3>1. PICK c : c = Begun(p)
      OBVIOUS
    <3>2. c \in Candles /\ c.time = LocalMinute /\ c.low <= c.close /\ c.close <= c.high
      BY <2>1, <2>2, <3>1, CandleWithPrice
    <3>3. PICK d : d = Lengthened(h, c)
      OBVIOUS
    <3>4. Drawn(h, p) = d
      BY <1>2, <2>1, <2>2, <2>3, <3>1, <3>3, DrawnIs
    <3>5. /\ d \in Seq(Candles) /\ Len(d) > 0 /\ Len(d) <= MaxHistory
          /\ Len(d) <= Len(h) + 1
          /\ d[Len(d)] = c
          /\ \A i \in 1..Len(d) - 1 : d[i] = h[Len(h) + 1 - Len(d) + i]
      <4>1. h \in Seq(Candles) /\ Len(h) <= MaxHistory /\ Len(h) > 0 /\ c \in Candles
        BY <2>1, <3>2
      <4>2. IsLengthened(d, h, c)
        BY <3>3, <4>1, AppendedAndCut
      <4> QED
        BY ONLY <4>2 DEF IsLengthened
    <3>6. ASSUME NEW i \in 1..Len(d) - 1 PROVE d[i].time < d[i + 1].time
      <4> DEFINE j == Len(h) + 1 - Len(d) + i
      <4>1. Len(d) \in Nat /\ j \in 1..Len(h) /\ d[i] = h[j]
        BY <2>1, <3>5
      <4>2. CASE i = Len(d) - 1
        <5>1. j = Len(h) /\ i + 1 = Len(d)
          BY <2>1, <4>1, <4>2
        <5> QED
          BY <2>2, <2>3, <3>2, <3>5, <4>1, <5>1, MarkTime
      <4>3. CASE i # Len(d) - 1
        <5>1. /\ i + 1 \in 1..Len(d) - 1 /\ j \in 1..Len(h) - 1
              /\ Len(h) + 1 - Len(d) + (i + 1) = j + 1
          BY <2>1, <4>1, <4>3
        <5>2. d[i + 1] = h[j + 1]
          BY <3>5, <5>1
        <5> QED
          BY <4>1, <5>1, <5>2 DEF Ascending
      <4> QED
        BY <4>2, <4>3
    <3>7. ASSUME NEW i \in 1..Len(d) PROVE d[i].low <= d[i].close /\ d[i].close <= d[i].high
      <4>1. CASE i = Len(d)
        BY <3>2, <3>5, <4>1
      <4>2. CASE i # Len(d)
        <5>1. i \in 1..Len(d) - 1 /\ Len(h) + 1 - Len(d) + i \in 1..Len(h)
          BY <2>1, <3>5, <4>2
        <5> QED
          BY <3>5, <5>1
      <4> QED
        BY <4>1, <4>2
    <3>8. Ascending(d)
      BY <3>6 DEF Ascending
    <3> QED
      BY <3>4, <3>5, <3>7, <3>8
  <2>4. CASE ~(LocalMinute > last.time)
    <3>1. PICK c : c = Extended(last, p)
      OBVIOUS
    <3>2. c \in Candles /\ c.time = last.time /\ c.low <= c.close /\ c.close <= c.high
      BY <2>1, <2>2, <3>1, CandleWithPrice
    <3>3. PICK d : d = [h EXCEPT ![Len(h)] = c]
      OBVIOUS
    <3>4. Drawn(h, p) = d
      BY <1>2, <2>1, <2>2, <2>4, <3>1, <3>3, DrawnIs
    <3>5. /\ d \in Seq(Candles) /\ Len(d) = Len(h) /\ d[Len(h)] = c
          /\ \A i \in 1..Len(h) : i # Len(h) => d[i] = h[i]
      BY <2>1, <3>2, <3>3
    <3>6. \A i \in 1..Len(h) : d[i].time = h[i].time
      BY <2>2, <3>2, <3>5
    <3>7. Ascending(d)
      BY <2>1, <3>5, <3>6 DEF Ascending
    <3>8. \A i \in 1..Len(h) : d[i].low <= d[i].close /\ d[i].close <= d[i].high
      BY <3>2, <3>5
    <3> QED
      BY <3>4, <3>5, <3>7, <3>8
  <2> QED
    BY <2>3, <2>4
<1> QED
  BY <1>1, <1>2

\* A price is drawn on the chart as it is entered in the history: the bar of
\* the last candle replaces the last bar or follows it.
LEMMA RedrawnGood ==
  ASSUME minute \in Minutes, skew \in -MaxSkew..MaxSkew,
         NEW h, GoodHistory(h), NEW p \in Prices \cup {0},
         NEW type, NEW bars, GoodChart(bars, type, h)
  PROVE  GoodChart(Redrawn(bars, type, h, p), type, Drawn(h, p))
<1>1. CASE p = 0 \/ h = <<>>
  BY <1>1, DrawnIs DEF Redrawn
<1>2. CASE p # 0 /\ h # <<>>
  <2>1. /\ h \in Seq(Candles) /\ p \in Prices /\ Len(h) \in Nat /\ Len(h) > 0
        /\ h[Len(h)] \in Candles /\ Last(h) = h[Len(h)] /\ Len(h) <= MaxHistory
        /\ h[Len(h)].low <= h[Len(h)].close /\ h[Len(h)].close <= h[Len(h)].high
    BY <1>2 DEF Last, GoodHistory
  <2>2. PICK last \in Candles : last = h[Len(h)]
    BY <2>1
  <2>3. /\ bars \in Seq(Marks) /\ Len(bars) \in Nat /\ Len(bars) >= Len(h) /\ bars # <<>>
        /\ Last(bars) = bars[Len(bars)]
        /\ \A i \in 1..Len(h) : bars[Len(bars) - Len(h) + i] = Bar(type, h[i])
        /\ Ascending(bars)
    BY <2>1, ShownEach DEF GoodChart, Last
  <2>4. Last(bars) = Bar(type, last) /\ Last(bars).time = last.time
    <3>1. Len(bars) - Len(h) + Len(h) = Len(bars) /\ Len(h) \in 1..Len(h)
      BY <2>1, <2>3
    <3>2. bars[Len(bars)] = Bar(type, h[Len(h)])
      BY ONLY <2>3, <3>1
    <3>3. Last(bars) = Bar(type, last)
      BY ONLY <2>2, <2>3, <3>2
    <3> QED
      BY <2>2, <3>3, MarkTime
  <2>5. PICK d : d = Drawn(h, p)
    OBVIOUS
  <2>6. PICK new : new = Redrawn(bars, type, h, p)
    OBVIOUS
  <2>7. new = Update(bars, Bar(type, Last(d)))
    BY <1>2, <2>5, <2>6 DEF Redrawn
  <2>8. SUFFICES /\ new \in Seq(Marks) /\ Ascending(new) /\ d \in Seq(Candles)
                 /\ Len(new) >= Len(d)
                 /\ \A i \in 1..Len(d) : new[Len(new) - Len(d) + i] = Bar(type, d[i])
    BY <2>5, <2>6, ShownEach DEF GoodChart
  <2>9. CASE LocalMinute > last.time
    <3>1. PICK c : c = Begun(p)
      OBVIOUS
    <3>2. c \in Candles /\ c.time = LocalMinute
      BY <2>1, <2>2, <3>1, CandleWithPrice
    <3>3. d = Lengthened(h, c)
      BY <1>2, <2>1, <2>2, <2>5, <2>9, <3>1, DrawnIs
    <3>4. /\ d \in Seq(Candles) /\ Len(d) > 0
          /\ Len(d) <= Len(h) + 1
          /\ d[Len(d)] = c
          /\ \A i \in 1..Len(d) - 1 : d[i] = h[Len(h) + 1 - Len(d) + i]
      <4>1. h \in Seq(Candles) /\ Len(h) <= MaxHistory /\ Len(h) > 0 /\ c \in Candles
        BY <1>2, <2>1, <3>2
      <4>2. IsLengthened(d, h, c)
        BY <3>3, <4>1, AppendedAndCut
      <4> QED
        BY ONLY <4>2 DEF IsLengthened
    <3>5. PICK b \in Marks : b = Bar(type, c) /\ b.time = LocalMinute
      BY <3>2, MarkTime
    <3>6. new = Append(bars, b)
      <4>1. Last(d) = c
        BY <3>4 DEF Last
      <4>2. Last(bars).time # b.time
        BY <2>2, <2>4, <2>9, <3>2, <3>5, MarkTime
      <4> QED
        BY <2>7, <3>5, <4>1, <4>2 DEF Update
    <3>7. /\ new \in Seq(Marks) /\ Len(new) = Len(bars) + 1
          /\ new[Len(bars) + 1] = b
          /\ \A i \in 1..Len(bars) : new[i] = bars[i]
      BY <2>3, <3>6
    <3>8. Ascending(new)
      <4>1. ASSUME NEW i \in 1..Len(new) - 1 PROVE new[i].time < new[i + 1].time
        <5>1. CASE i = Len(bars)
          <6>1. Len(bars) \in 1..Len(bars) /\ i + 1 = Len(bars) + 1
            BY <2>3, <5>1
          <6>2. new[i] = Last(bars) /\ new[i + 1] = b
            BY <2>3, <3>7, <5>1, <6>1
          <6>3. last.time < LocalMinute
            BY <2>9, MarkTime, CandleWithPrice DEF LocalMinute
          <6> QED
            BY <2>4, <3>5, <6>2, <6>3
        <5>2. CASE i # Len(bars)
          <6>1. i \in 1..Len(bars) - 1 /\ i + 1 \in 1..Len(bars) /\ i \in 1..Len(bars)
            BY <2>3, <3>7, <5>2
          <6> QED
            BY <2>3, <3>7, <6>1 DEF Ascending
        <5> QED
          BY <5>1, <5>2
      <4> QED
        BY <4>1 DEF Ascending
    <3>9. Len(d) \in Nat /\ Len(d) > 0 /\ Len(new) >= Len(d)
      BY <2>1, <2>3, <3>4, <3>7
    <3>10. ASSUME NEW i \in 1..Len(d) PROVE new[Len(new) - Len(d) + i] = Bar(type, d[i])
      <4>1. CASE i = Len(d)
        <5>1. Len(new) - Len(d) + i = Len(bars) + 1
          BY <2>3, <3>7, <3>9, <4>1
        <5> QED
          BY <3>4, <3>5, <3>7, <4>1, <5>1
      <4>2. CASE i # Len(d)
        <5> DEFINE j == Len(h) + 1 - Len(d) + i
        <5>1. i \in 1..Len(d) - 1 /\ j \in 1..Len(h)
          BY <2>1, <3>4, <3>9, <4>2
        <5>2. d[i] = h[j]
          BY <3>4, <5>1
        <5>3. /\ Len(new) - Len(d) + i = Len(bars) - Len(h) + j
              /\ Len(bars) - Len(h) + j \in 1..Len(bars)
          BY <2>1, <2>3, <3>7, <3>9, <5>1
        <5> HIDE DEF j
        <5>4. new[Len(bars) - Len(h) + j] = bars[Len(bars) - Len(h) + j]
          BY <3>7, <5>3
        <5> QED
          BY <2>3, <5>1, <5>2, <5>3, <5>4
      <4> QED
        BY <4>1, <4>2
    <3> QED
      BY <3>4, <3>7, <3>8, <3>9, <3>10
  <2>10. CASE ~(LocalMinute > last.time)
    <3>1. PICK c : c = Extended(last, p)
      OBVIOUS
    <3>2. c \in Candles /\ c.time = last.time
      BY <2>1, <2>2, <3>1, CandleWithPrice
    <3>3. d = [h EXCEPT ![Len(h)] = c]
      BY <1>2, <2>1, <2>2, <2>5, <2>10, <3>1, DrawnIs
    <3>4. /\ d \in Seq(Candles) /\ Len(d) = Len(h) /\ d[Len(h)] = c
          /\ \A i \in 1..Len(h) : i # Len(h) => d[i] = h[i]
      BY <2>1, <3>2, <3>3
    <3>5. PICK b \in Marks : b = Bar(type, c) /\ b.time = last.time
      BY <3>2, MarkTime
    <3>6. new = [bars EXCEPT ![Len(bars)] = b]
      <4>1. Last(d) = c
        BY <3>4 DEF Last
      <4> QED
        BY <2>3, <2>4, <2>7, <3>5, <4>1 DEF Update
    <3>7. /\ new \in Seq(Marks) /\ Len(new) = Len(bars) /\ new[Len(bars)] = b
          /\ \A i \in 1..Len(bars) : i # Len(bars) => new[i] = bars[i]
      BY <2>3, <3>5, <3>6
    <3>8. \A i \in 1..Len(bars) : new[i].time = bars[i].time
      BY <2>3, <2>4, <3>5, <3>7
    <3>9. Ascending(new)
      BY <2>3, <3>7, <3>8 DEF Ascending
    <3>10. ASSUME NEW i \in 1..Len(h) PROVE new[Len(new) - Len(d) + i] = Bar(type, d[i])
      <4> DEFINE k == Len(bars) - Len(h) + i
      <4>1. k = Len(new) - Len(d) + i /\ k \in 1..Len(bars) /\ (i = Len(h) <=> k = Len(bars))
        <5>1. \A x, y \in Nat : \A z \in 1..y :
                x >= y => /\ x - y + z \in 1..x
                          /\ z = y <=> x - y + z = x
          OBVIOUS
        <5>2. Len(bars) \in Nat /\ Len(h) \in Nat /\ Len(bars) >= Len(h)
          BY <2>1, <2>3
        <5>3. Len(new) = Len(bars) /\ Len(d) = Len(h)
          BY <3>4, <3>7
        <5> QED
          BY ONLY <5>1, <5>2, <5>3, i \in 1..Len(h)
      <4>2. bars[k] = Bar(type, h[i])
        BY <2>3
      <4> HIDE DEF k
      <4> QED
        BY <3>4, <3>5, <3>7, <4>1, <4>2
    <3> QED
      BY <2>3, <3>4, <3>7, <3>9, <3>10
  <2> QED
    BY <2>9, <2>10
<1> QED
  BY <1>1, <1>2

\* A chart that is made from a good history shows it.
LEMMA BarsGood ==
  ASSUME NEW h, GoodHistory(h), NEW type
  PROVE  GoodChart(Bars(type, h), type, h)
<1> DEFINE b == Bars(type, h)
<1>1. h \in Seq(Candles) /\ Len(h) \in Nat
  BY DEF GoodHistory
<1>2. \A i \in 1..Len(h) : h[i] \in Candles
  BY <1>1
<1>3. /\ DOMAIN b = 1..Len(h)
      /\ \A i \in 1..Len(h) : b[i] = Bar(type, h[i])
  BY <1>1 DEF Bars
<1>4. b \in [1..Len(h) -> Marks]
  BY <1>1, <1>2, MarkTime DEF Bars
<1> HIDE DEF b
<1>5. b \in Seq(Marks) /\ Len(b) = Len(h)
  BY <1>1, <1>3, <1>4
<1>6. Ascending(b)
  <2> SUFFICES ASSUME NEW i \in 1..Len(h) - 1 PROVE b[i].time < b[i + 1].time
    BY <1>5 DEF Ascending
  <2>1. i \in 1..Len(h) /\ i + 1 \in 1..Len(h)
    BY <1>1
  <2>2. b[i].time = h[i].time /\ b[i + 1].time = h[i + 1].time
    BY <1>2, <1>3, <2>1, MarkTime
  <2>3. h[i].time < h[i + 1].time
    BY DEF GoodHistory, Ascending
  <2> QED
    BY <2>2, <2>3
<1>7. LastOf(b, Len(h)) = b
  BY <1>1, <1>5 DEF LastOf
<1> QED
  BY <1>1, <1>5, <1>6, <1>7 DEF GoodChart, b

\* What is kept of an answer is a good history.
LEMMA FetchedGood ==
  ASSUME answer \in Lookups, NewestLast(answer), NEW p \in Prices
  PROVE  GoodHistory(LastOf(Fetched(p), MaxHistory))
<1> DEFINE h == LastOf(Fetched(p), MaxHistory)
<1>1. PICK f \in Seq(Candles) :
        /\ f = Fetched(p)
        /\ Ascending(f)
        /\ \A i \in DOMAIN f : f[i].low <= f[i].close /\ f[i].close <= f[i].high
  BY FetchedInOrder
<1>2. MaxHistory \in Nat /\ Len(f) \in Nat /\ f \in Seq(Marks)
  BY ChartAssumption DEF ChartAssumption, Marks
<1>3. /\ h \in Seq(Candles)
      /\ Len(h) = IF Len(f) <= MaxHistory THEN Len(f) ELSE MaxHistory
      /\ \A i \in 1..Len(h) : h[i] = f[Len(f) - Len(h) + i]
  BY <1>1, <1>2, LastOfIs
<1>4. Ascending(h)
  BY <1>1, <1>2, LastOfAscending
<1> HIDE DEF h
<1>5. ASSUME NEW i \in 1..Len(h)
      PROVE  h[i].low <= h[i].close /\ h[i].close <= h[i].high
  <2>1. Len(f) - Len(h) + i \in 1..Len(f)
    BY <1>2, <1>3
  <2> QED
    BY <1>1, <1>3, <2>1
<1>6. Len(h) <= MaxHistory /\ DOMAIN h = 1..Len(h)
  BY <1>2, <1>3
<1> QED
  BY <1>3, <1>4, <1>5, <1>6 DEF GoodHistory, h

-----------------------------------------------------------------------------
\* The invariant of the chart, part by part.

\* The worker never looks ahead: rows are of minutes that are over, and the live
\* candle is of this minute or an earlier one, no older than any row.
Chronological ==
  /\ \A m \in rows : m < minute
  /\ current # None => current <= minute /\ \A m \in rows : m <= current

\* An answer has rows there are, and a live candle that was read after them.
AnswersInOrder ==
  /\ answer.rows \subseteq rows /\ NewestLast(answer)
  /\ cached.rows \subseteq rows /\ NewestLast(cached)

\* What a component that is gone has left behind.
Gone == ~mounted => ~retry /\ isLoading

\* The history, and the chart that shows it.
HistoryShown ==
  /\ GoodHistory(history)
  /\ series # NoSeries => GoodChart(series, chartType, history)
  /\ isLoading => series = NoSeries

ChartInv ==
  /\ ChartTypeOK
  /\ Chronological
  /\ AnswersInOrder
  /\ Gone
  /\ HistoryShown

LEMMA InitChart == ChartInit => ChartInv
<1> SUFFICES ASSUME ChartInit PROVE ChartInv
  OBVIOUS
<1>1. 0 \in Minutes /\ MaxHistory \in Nat
  BY ChartAssumption DEF ChartAssumption, Minutes
<1>2. ChartTypeOK
  <2>1. cached \in Lookups /\ answer \in Lookups
    BY DEF ChartInit, NoAnswer, Lookups
  <2>2. history \in Seq(Candles) /\ Len(history) <= MaxHistory
    BY <1>1 DEF ChartInit
  <2> QED
    BY <1>1, <2>1, <2>2 DEF ChartInit, ChartTypeOK
<1>3. Chronological /\ AnswersInOrder /\ Gone
  BY DEF ChartInit, Chronological, AnswersInOrder, Gone, NoAnswer, NewestLast
<1>4. HistoryShown
  BY <1>1 DEF ChartInit, HistoryShown, GoodHistory, Ascending
<1> QED
  BY <1>2, <1>3, <1>4 DEF ChartInv

\* Minutes are numbers, and None is before them all.
LEMMA MinuteFacts == \A m \in Minutes : m \in Nat /\ m # None
  BY ChartAssumption DEF ChartAssumption, Minutes, None

\* Time goes on, and the worker after it.
LEMMA ServerStep == ChartInv /\ [ChartNext]_chartVars => Chronological'
<1> SUFFICES ASSUME ChartInv, [ChartNext]_chartVars PROVE Chronological'
  OBVIOUS
<1> USE MinuteFacts DEF ChartInv, ChartTypeOK, Chronological
<1>1. CASE Clock
  BY <1>1 DEF Clock
<1>2. CASE Persist
  BY <1>2 DEF Persist
<1>3. CASE MoveOn
  BY <1>3 DEF MoveOn
<1>4. CASE LoseCache
  BY <1>4 DEF LoseCache
<1>5. CASE UNCHANGED feed
  BY <1>5 DEF feed
<1> QED
  BY <1>1, <1>2, <1>3, <1>4, <1>5
     DEF ChartNext, chartVars, ReadRows, ReadCurrent, FromCache, UpstreamFails, NothingYet,
         Loaded, PriceArrives, LoadFails, Late, Retry, Unmount, Mount, PriceForgotten,
         ChooseType

\* Rows are never deleted, so what an answer has of them stays there.
LEMMA AnswerStep == ChartInv /\ [ChartNext]_chartVars => AnswersInOrder'
<1> SUFFICES ASSUME ChartInv, [ChartNext]_chartVars PROVE AnswersInOrder'
  OBVIOUS
<1> USE DEF ChartInv, AnswersInOrder, NewestLast
<1>0. rows \subseteq rows'
  BY DEF ChartNext, chartVars, feed, Clock, Persist, MoveOn, LoseCache, ReadRows, ReadCurrent,
         FromCache, UpstreamFails, NothingYet, Loaded, PriceArrives, LoadFails, Late, Retry,
         Unmount, Mount, PriceForgotten, ChooseType
<1>1. CASE ReadRows
  BY <1>1 DEF ReadRows, feed, Newest
<1>2. CASE ReadCurrent
  <2>1. answer \in Lookups
    BY DEF ChartTypeOK
  <2>2. answer' = [answer EXCEPT !.current = current] /\ cached' = answer' /\ rows' = rows
    BY <1>2 DEF ReadCurrent, feed
  <2>3. answer'.rows = answer.rows /\ answer'.current = current
    BY <2>1, <2>2 DEF Lookups
  <2>4. NewestLast(answer)'
    BY <2>3 DEF Chronological
  <2>5. answer'.rows \subseteq rows'
    BY <2>2, <2>3
  <2> QED
    BY <2>2, <2>4, <2>5
<1>3. CASE FromCache
  BY <1>3 DEF FromCache, feed
<1>4. CASE answer' = NoAnswer /\ cached' = cached
  BY <1>0, <1>4 DEF NoAnswer
<1>5. CASE answer' = answer /\ cached' = cached
  BY <1>0, <1>5
<1>6. \/ ReadRows \/ ReadCurrent \/ FromCache
      \/ answer' = NoAnswer /\ cached' = cached
      \/ answer' = answer /\ cached' = cached
  BY ONLY [ChartNext]_chartVars
     DEF ChartNext, chartVars, request, Handled, Clock, Persist, MoveOn, LoseCache,
         UpstreamFails, NothingYet, Loaded, PriceArrives, LoadFails, Late, Retry, Unmount,
         Mount, PriceForgotten, ChooseType
<1> QED
  BY <1>1, <1>2, <1>3, <1>4, <1>5, <1>6

\* A component that is gone has set no timer.
LEMMA GoneStep == ChartInv /\ [ChartNext]_chartVars => Gone'
  BY DEF ChartInv, Gone, ChartNext, chartVars, drawing, Clock, Persist, MoveOn, LoseCache,
         ReadRows, ReadCurrent, FromCache, UpstreamFails, NothingYet, Loaded, PriceArrives,
         LoadFails, Late, Retry, Unmount, Mount, PriceForgotten, ChooseType

\* What the chart is created with.
LEMMA RecreatedGood ==
  ASSUME minute \in Minutes, skew \in -MaxSkew..MaxSkew, price \in Prices \cup {0},
         NEW h, GoodHistory(h), NEW type, Recreate(type, h)
  PROVE  GoodHistory(history') /\ GoodChart(series', type, history')
  BY BarsGood, DrawnGood, RedrawnGood DEF Recreate

\* The chart is drawn from the history, or along with it.
LEMMA HistoryStep == ChartInv /\ [ChartNext]_chartVars => HistoryShown'
<1> SUFFICES ASSUME ChartInv, [ChartNext]_chartVars PROVE HistoryShown'
  OBVIOUS
<1>0. /\ minute \in Minutes /\ skew \in -MaxSkew..MaxSkew /\ price \in Prices \cup {0}
      /\ answer \in Lookups /\ NewestLast(answer)
      /\ HistoryShown
  BY DEF ChartInv, ChartTypeOK, AnswersInOrder
<1>1. ASSUME NEW p \in Prices, Loaded(p) PROVE HistoryShown'
  <2>1. PICK h : h = LastOf(Fetched(p), MaxHistory)
    OBVIOUS
  <2>2. GoodHistory(h)
    BY <1>0, <2>1, FetchedGood
  <2>3. /\ Recreate(chartType, h) /\ ~isLoading' /\ chartType' = chartType
    BY <1>1, <2>1 DEF Loaded
  <2>4. GoodHistory(history') /\ GoodChart(series', chartType, history')
    BY <1>0, <2>2, <2>3, RecreatedGood
  <2> QED
    BY <2>3, <2>4 DEF HistoryShown
<1>2. ASSUME NEW p \in Prices, PriceArrives(p) PROVE HistoryShown'
  <2>1. Draw(p) /\ isLoading' = isLoading /\ chartType' = chartType
    BY <1>2 DEF PriceArrives
  <2>2. CASE series = NoSeries \/ isLoading
    BY <1>0, <2>1, <2>2 DEF Draw, HistoryShown
  <2>3. CASE series # NoSeries /\ ~isLoading
    <3>1. history' = Drawn(history, p) /\ series' = Redrawn(series, chartType, history, p)
      BY <2>1, <2>3 DEF Draw
    <3>2. GoodHistory(history) /\ GoodChart(series, chartType, history) /\ p \in Prices \cup {0}
      BY <1>0, <2>3 DEF HistoryShown
    <3>3. GoodHistory(Drawn(history, p))
      BY <1>0, <3>2, DrawnGood
    <3>4. GoodChart(Redrawn(series, chartType, history, p), chartType, Drawn(history, p))
      BY <1>0, <3>2, RedrawnGood
    <3> QED
      BY <2>1, <2>3, <3>1, <3>3, <3>4 DEF HistoryShown
  <2> QED
    BY <2>2, <2>3
<1>3. ASSUME NEW type, ChooseType(type) PROVE HistoryShown'
  <2>1. isLoading' = isLoading /\ chartType' = type
    BY <1>3 DEF ChooseType
  <2>2. CASE isLoading
    BY <1>0, <1>3, <2>1, <2>2 DEF ChooseType, HistoryShown
  <2>3. CASE ~isLoading
    <3>1. Recreate(type, history) /\ GoodHistory(history)
      BY <1>0, <1>3, <2>3 DEF ChooseType, HistoryShown
    <3>2. GoodHistory(history') /\ GoodChart(series', type, history')
      BY <1>0, <3>1, RecreatedGood
    <3> QED
      BY <2>1, <2>3, <3>2 DEF HistoryShown
  <2> QED
    BY <2>2, <2>3
<1>4. CASE Unmount
  <2>1. MaxHistory \in Nat
    BY ChartAssumption DEF ChartAssumption
  <2> QED
    BY <1>4, <2>1 DEF Unmount, HistoryShown, GoodHistory, Ascending
<1>5. CASE UNCHANGED <<drawing, isLoading>>
  BY <1>0, <1>5 DEF HistoryShown, drawing
<1> QED
  BY <1>1, <1>2, <1>3, <1>4, <1>5
     DEF ChartNext, chartVars, Clock, Persist, MoveOn, LoseCache, ReadRows, ReadCurrent,
         FromCache, UpstreamFails, NothingYet, LoadFails, Late, Retry, Mount, PriceForgotten

\* Every variable keeps its type.
LEMMA ChartTypeStep == ChartInv /\ [ChartNext]_chartVars => ChartTypeOK'
<1> SUFFICES ASSUME ChartInv, [ChartNext]_chartVars PROVE ChartTypeOK'
  OBVIOUS
<1>0. /\ ChartTypeOK
      /\ history' \in Seq(Candles) /\ Len(history') <= MaxHistory
  BY HistoryStep DEF ChartInv, HistoryShown, GoodHistory
<1> USE <1>0 DEF ChartTypeOK
<1>1. CASE Clock
  <2>1. minute' \in Minutes
    BY <1>1, ChartAssumption DEF Clock, Minutes, ChartAssumption
  <2> QED
    BY <1>1, <2>1 DEF Clock, request, drawing
<1>2. CASE Persist \/ MoveOn \/ LoseCache
  BY <1>2 DEF Persist, MoveOn, LoseCache, request, drawing
<1>3. CASE ReadRows \/ ReadCurrent \/ FromCache \/ UpstreamFails
  <2>1. UNCHANGED <<feed, mounted, retry, isLoading, drawing, price>>
    BY <1>3 DEF ReadRows, ReadCurrent, FromCache, UpstreamFails
  <2>2. fetch' \in {"read", "answered"}
    BY <1>3 DEF ReadRows, ReadCurrent, FromCache, UpstreamFails
  <2>3. answer' \in Lookups /\ cached' \in Lookups
    <3>1. CASE ReadRows
      BY <3>1 DEF ReadRows, Lookups, Newest
    <3>2. CASE ReadCurrent
      <4>1. PICK r \in SUBSET Minutes, c \in Minutes \cup {None} :
              answer = [rows |-> r, current |-> c]
        BY DEF Lookups
      <4>2. answer' = [rows |-> r, current |-> current] /\ cached' = answer'
        BY <3>2, <4>1 DEF ReadCurrent
      <4> QED
        BY <4>2 DEF Lookups
    <3>3. CASE FromCache
      BY <3>3 DEF FromCache
    <3>4. CASE UpstreamFails
      BY <3>4 DEF UpstreamFails, NoAnswer, Lookups
    <3> QED
      BY <1>3, <3>1, <3>2, <3>3, <3>4
  <2> QED
    BY <2>1, <2>2, <2>3 DEF feed, drawing
<1>4. CASE \/ \E p \in Prices : NothingYet(p) \/ Loaded(p)
           \/ LoadFails
           \/ Late
  <2>1. UNCHANGED <<feed, cached, mounted, chartType, price>> /\ Handled
    BY <1>4 DEF NothingYet, Loaded, LoadFails, Late, drawing
  <2>2. retry' \in BOOLEAN /\ isLoading' \in BOOLEAN
    BY <1>4 DEF NothingYet, Loaded, LoadFails, Late
  <2>3. NoAnswer \in Lookups
    BY DEF NoAnswer, Lookups
  <2> QED
    BY <2>1, <2>2, <2>3 DEF feed, Handled
<1>5. CASE Retry \/ Mount \/ Unmount
  BY <1>5 DEF Retry, Mount, Unmount, feed, request, drawing
<1>6. CASE \/ \E p \in Prices : PriceArrives(p)
           \/ PriceForgotten
           \/ \E type \in {"area", "candlestick"} : ChooseType(type)
  <2>1. UNCHANGED <<feed, request, mounted, retry, isLoading>>
    BY <1>6 DEF PriceArrives, PriceForgotten, ChooseType
  <2>2. price' \in Prices \cup {0} /\ chartType' \in {"area", "candlestick"}
    BY <1>6 DEF PriceArrives, PriceForgotten, ChooseType, drawing
  <2> QED
    BY <2>1, <2>2 DEF feed, request
<1>7. CASE UNCHANGED chartVars
  BY <1>7 DEF chartVars, feed, request, drawing
<1> QED
  BY <1>1, <1>2, <1>3, <1>4, <1>5, <1>6, <1>7 DEF ChartNext

\* The invariant holds throughout.
THEOREM ChartInvariance == ChartSpec => []ChartInv
<1>1. ChartInv /\ [ChartNext]_chartVars => ChartInv'
  BY ServerStep, AnswerStep, GoneStep, HistoryStep, ChartTypeStep DEF ChartInv
<1> QED
  BY <1>1, InitChart, PTL DEF ChartSpec

\* The bars go forward in time, in the history and on the chart.
THEOREM BarsInOrder == ChartSpec => []ChartInOrder
<1>1. ChartInv => ChartInOrder
  BY DEF ChartInv, HistoryShown, GoodHistory, GoodChart, ChartInOrder
<1> QED
  BY <1>1, ChartInvariance, PTL

\* The chart shows the history.
THEOREM HistoryOnChart == ChartSpec => []SeriesShowsHistory
<1>1. ChartInv => SeriesShowsHistory
  BY DEF ChartInv, HistoryShown, GoodChart, SeriesShowsHistory
<1> QED
  BY <1>1, ChartInvariance, PTL

\* Nothing happens to a component that is gone.
THEOREM GoneForGood == ChartSpec => NothingAfterUnmount
<1>1. ChartInv /\ [ChartNext]_chartVars =>
        [~mounted /\ ~mounted' => UNCHANGED <<retry, isLoading, drawing>>]_chartVars
  <2> SUFFICES ASSUME ChartInv, ChartNext, ~mounted, ~mounted'
               PROVE  UNCHANGED <<retry, isLoading, drawing>>
    BY DEF chartVars
  <2>1. ~retry /\ isLoading
    BY DEF ChartInv, Gone
  <2> QED
    BY <2>1
       DEF ChartNext, drawing, Clock, Persist, MoveOn, LoseCache, ReadRows, ReadCurrent,
           FromCache, UpstreamFails, NothingYet, Loaded, PriceArrives, Draw, LoadFails, Late,
           Retry, Unmount, Mount, PriceForgotten, ChooseType
<1> QED
  BY <1>1, ChartInvariance, PTL DEF ChartSpec, NothingAfterUnmount
=============================================================================

---------------------------- MODULE OrderHandler ----------------------------
(***************************************************************************)
(* placeOrderHandler (apps/api/src/controllers/orders.ts): one user's POST *)
(* /orders requests, running at once.  A handler looks a price up, calls   *)
(* placeOrder, which OrderExecution shows to be one step or nothing, then  *)
(* publishes the fill, reads the portfolio and publishes that.  Anything   *)
(* after the order can fail, and is then answered like a failed order.     *)
(*                                                                         *)
(* What an order does to the rows does not matter here: the tables are the *)
(* sequence of orders that were executed, and what a query of them returns *)
(* is how many of these it has seen.                                       *)
(***************************************************************************)
EXTENDS Integers, Sequences

CONSTANT Handlers

VARIABLES
  executed,   \* the orders that were committed, in that order
  published,  \* the events, in the order Redis got them
  balances,   \* [handler |-> what its query of the balances saw]
  positions,  \* [handler |-> what its query of the positions saw]
  pc          \* [handler |-> where it is, or its answer]

vars == <<executed, published, balances, positions, pc>>

Unread == -1

Answered == {"filled", "unavailable", "insufficient", "error"}

Snapshots == Unread..Len(executed)

Filled(h) == [kind |-> "order_filled", by |-> h]

Portfolio(h, b, p) == [kind |-> "portfolio", by |-> h, balances |-> b, positions |-> p]

TypeOK ==
  /\ executed \in Seq(Handlers)
  /\ published \in Seq({Filled(h) : h \in Handlers}
       \cup {Portfolio(h, b, p) : h \in Handlers, b \in Snapshots, p \in Snapshots})
  /\ balances \in [Handlers -> Snapshots]
  /\ positions \in [Handlers -> Snapshots]
  /\ pc \in [Handlers -> {"idle", "price", "place", "announce", "portfolio"}
                           \cup Answered]

Init ==
  /\ executed = <<>>
  /\ published = <<>>
  /\ balances = [h \in Handlers |-> Unread]
  /\ positions = [h \in Handlers |-> Unread]
  /\ pc = [h \in Handlers |-> "idle"]

Goto(h, label) == pc' = [pc EXCEPT ![h] = label]

Request(h) ==
  /\ pc[h] = "idle"
  /\ Goto(h, "price")
  /\ UNCHANGED <<executed, published, balances, positions>>

\* getPrice: fresh, missing or stale.
GetPrice(h) ==
  /\ pc[h] = "price"
  /\ \E label \in {"place", "unavailable"} : Goto(h, label)
  /\ UNCHANGED <<executed, published, balances, positions>>

\* Variant: the portfolio is read along with the order.
ExecuteAndRead(h) ==
  /\ pc[h] = "place"
  /\ executed' = Append(executed, h)
  /\ balances' = [balances EXCEPT ![h] = Len(executed)]
  /\ Goto(h, "announce")
  /\ UNCHANGED <<published, positions>>

\* The transaction of placeOrder commits.
Commits(h, label) ==
  /\ pc[h] = "place"
  /\ executed' = Append(executed, h)
  /\ Goto(h, label)
  /\ UNCHANGED <<published, balances, positions>>

\* placeOrder returns.
Execute(h) == Commits(h, "announce")

\* Variant: an order that was executed is refused all the same.
ExecuteThenCheck(h) ==
  /\ pc[h] = "place"
  /\ executed' = Append(executed, h)
  /\ Goto(h, "insufficient")
  /\ UNCHANGED <<published, balances, positions>>

\* placeOrder throws "Insufficient ...".
Refuse(h) ==
  /\ pc[h] = "place"
  /\ Goto(h, "insufficient")
  /\ UNCHANGED <<executed, published, balances, positions>>

\* publishOrderFilled reaches Redis.
Announces(h, label) ==
  /\ pc[h] = "announce"
  /\ published' = Append(published, Filled(h))
  /\ Goto(h, label)
  /\ UNCHANGED <<executed, balances, positions>>

AnnounceFill(h) == Announces(h, "portfolio")

\* getPortfolio sends its queries together; they run in any order and are not
\* in a transaction.
ReadBalances(h) ==
  /\ pc[h] = "portfolio"
  /\ balances[h] = Unread
  /\ balances' = [balances EXCEPT ![h] = Len(executed)]
  /\ UNCHANGED <<executed, published, positions, pc>>

ReadPositions(h) ==
  /\ pc[h] = "portfolio"
  /\ positions[h] = Unread
  /\ positions' = [positions EXCEPT ![h] = Len(executed)]
  /\ UNCHANGED <<executed, published, balances, pc>>

\* Variant: answered as soon as the portfolio has been read.
AnswerUnpublished(h) ==
  /\ pc[h] = "portfolio"
  /\ balances[h] # Unread /\ positions[h] # Unread
  /\ Goto(h, "filled")
  /\ UNCHANGED <<executed, published, balances, positions>>

\* publishPortfolioUpdate reaches Redis.
Publishes(h, label) ==
  /\ pc[h] = "portfolio"
  /\ balances[h] # Unread /\ positions[h] # Unread
  /\ published' = Append(published, Portfolio(h, balances[h], positions[h]))
  /\ Goto(h, label)
  /\ UNCHANGED <<executed, balances, positions>>

\* ... and the answer is 201.
PublishPortfolio(h) == Publishes(h, "filled")

\* Postgres or Redis fails, before the order is executed or after it, and may have
\* done what it was asked for: one catch block answers { success: false }.
Fail(h) ==
  \/ /\ pc[h] \in {"price", "place", "announce", "portfolio"}
     /\ Goto(h, "error")
     /\ UNCHANGED <<executed, published, balances, positions>>
  \/ Commits(h, "error")
  \/ Announces(h, "error")
  \/ Publishes(h, "error")

\* All requests are answered.
Quiescent ==
  /\ \A h \in Handlers : pc[h] \in Answered
  /\ UNCHANGED vars

Next ==
  \/ \E h \in Handlers :
       \/ Request(h)
       \/ GetPrice(h)
       \/ Execute(h)
       \/ Refuse(h)
       \/ AnnounceFill(h)
       \/ ReadBalances(h)
       \/ ReadPositions(h)
       \/ PublishPortfolio(h)
       \/ Fail(h)
  \/ Quiescent

Spec == Init /\ [][Next]_vars

-----------------------------------------------------------------------------
Executed(h) == \E i \in DOMAIN executed : executed[i] = h

Events(kind) == {i \in DOMAIN published : published[i].kind = kind}

\* What has been published for a request: nothing, ...
Silent(h) == \A e \in DOMAIN published : published[e].by # h

\* ... its fill, once, ...
FillAnnounced(h) ==
  \E f \in Events("order_filled") :
    \A e \in DOMAIN published : published[e].by = h <=> e = f

\* ... or its fill and then a portfolio, each once.
BothAnnounced(h) ==
  \E f \in Events("order_filled"), p \in Events("portfolio") :
    /\ \A e \in DOMAIN published : published[e].by = h <=> e \in {f, p}
    /\ f < p

\* Every variable has its type, and however requests overlap and fail: none is
\* executed twice, none is announced that was not executed, and none is announced
\* twice or in the wrong order.  An answer "filled" means executed and announced
\* in full; a refusal, for its price or for want of funds, means not executed.  Any
\* other error means nothing: the one catch block (orders.ts:101-125) serves for
\* failures before the order and after it, and an order that is answered
\* { success: false } may be executed, and announced in part or in full.
AnswersAreTrue ==
  /\ TypeOK
  /\ \A i, j \in DOMAIN executed : executed[i] = executed[j] => i = j
  /\ \A e \in DOMAIN published : Executed(published[e].by)
  /\ \A h \in Handlers :
       /\ Silent(h) \/ FillAnnounced(h) \/ BothAnnounced(h)
       /\ pc[h] = "filled" => Executed(h) /\ BothAnnounced(h)
       /\ pc[h] \in {"unavailable", "insufficient"} => ~Executed(h)

\* A portfolio that is published includes the order it was published for,
\* though other orders come between the commit and the two queries.
ReadsItsOwnOrder ==
  \A e \in Events("portfolio") :
    \E i \in DOMAIN executed :
      /\ executed[i] = published[e].by
      /\ published[e].balances >= i
      /\ published[e].positions >= i

Current(e) ==
  published[e].balances = Len(executed) /\ published[e].positions = Len(executed)

AllAnswered == \A h \in Handlers : pc[h] \in Answered

\* When every order that was executed has been published, one of the portfolios
\* is the current one, whichever way the requests overlapped.  (It need not be the
\* last: a browser that shows what it received last may show an older one.)
CurrentIsPublished ==
  (AllAnswered /\ executed # <<>> /\ \A h \in Handlers : pc[h] # "error")
    => \E e \in Events("portfolio") : Current(e)
=============================================================================

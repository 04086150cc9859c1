--------------------------- MODULE OrderHandlerProofs ---------------------------
(***************************************************************************)
(* The theorems of OrderHandler: what an answer says and what a portfolio  *)
(* shows, for any number of requests at once.                              *)
(***************************************************************************)
EXTENDS OrderHandler, TLAPS, SequenceTheorems

\* Before its order is executed a handler has no row, has read nothing and has
\* announced nothing; nor has one that is refused.
Untouched(h) ==
  pc[h] \in {"idle", "price", "place", "unavailable", "insufficient"} =>
    /\ ~Executed(h)
    /\ balances[h] = Unread /\ positions[h] = Unread

\* From then on the order is among those its queries see.
Sees(h) ==
  pc[h] \in {"announce", "portfolio", "filled"} =>
    \E i \in DOMAIN executed :
      /\ executed[i] = h
      /\ balances[h] = Unread \/ balances[h] >= i
      /\ positions[h] = Unread \/ positions[h] >= i

\* No order is executed twice.
Once == \A i, j \in DOMAIN executed : executed[i] = executed[j] => i = j

\* What a handler has published, at each step and with each answer.
Announced(h) ==
  /\ pc[h] \in {"idle", "price", "place", "announce", "unavailable", "insufficient"} =>
       Silent(h)
  /\ pc[h] = "portfolio" => FillAnnounced(h)
  /\ pc[h] = "filled" => BothAnnounced(h)
  /\ pc[h] = "error" => Silent(h) \/ FillAnnounced(h) \/ BothAnnounced(h)

\* Only what was executed is announced.
NothingInvented == \A e \in DOMAIN published : Executed(published[e].by)

IInv ==
  /\ TypeOK
  /\ \A h \in Handlers : Untouched(h) /\ Sees(h) /\ Announced(h)
  /\ Once
  /\ NothingInvented
  /\ ReadsItsOwnOrder

-----------------------------------------------------------------------------
\* The events are told apart by their field kind.
LEMMA EventFacts ==
  ASSUME NEW h, NEW b, NEW p
  PROVE  /\ Filled(h).kind = "order_filled" /\ Filled(h).by = h
         /\ Portfolio(h, b, p).kind = "portfolio" /\ Portfolio(h, b, p).by = h
         /\ Portfolio(h, b, p).balances = b /\ Portfolio(h, b, p).positions = p
BY DEF Filled, Portfolio

\* Appending to a sequence.
LEMMA Appended ==
  ASSUME NEW S, NEW s \in Seq(S), NEW x
  PROVE  /\ Len(s) \in Nat /\ DOMAIN s = 1..Len(s)
         /\ Len(Append(s, x)) = Len(s) + 1
         /\ DOMAIN Append(s, x) = DOMAIN s \cup {Len(s) + 1}
         /\ Len(s) + 1 \notin DOMAIN s
         /\ \A i \in DOMAIN s : Append(s, x)[i] = s[i]
         /\ Append(s, x)[Len(s) + 1] = x
OBVIOUS

\* The events that have been published.
Published ==
  {Filled(h) : h \in Handlers}
    \cup {Portfolio(h, b, p) : h \in Handlers, b \in Snapshots, p \in Snapshots}

-----------------------------------------------------------------------------
\* Initially nothing has happened.
LEMMA InitIInv == Init => IInv
<1> SUFFICES ASSUME Init PROVE IInv
  OBVIOUS
<1> USE DEF Init
<1>1. TypeOK
  BY DEF TypeOK, Snapshots, Unread
<1>2. DOMAIN executed = {} /\ DOMAIN published = {}
  OBVIOUS
<1> QED
  BY <1>1, <1>2 DEF IInv, Untouched, Sees, Once, Announced, Silent, NothingInvented,
                    Executed, ReadsItsOwnOrder, Events

\* A call fails and has not been carried out.
FailsBefore(h) ==
  /\ pc[h] \in {"price", "place", "announce", "portfolio"}
  /\ Goto(h, "error")
  /\ UNCHANGED <<executed, published, balances, positions>>

\* A step of a handler that does nothing but go on.
LEMMA GoOn ==
  ASSUME IInv, NEW h \in Handlers,
         Request(h) \/ GetPrice(h) \/ Refuse(h) \/ FailsBefore(h)
  PROVE  IInv'
<1> USE DEF IInv, Goto
<1>1. /\ UNCHANGED <<executed, published, balances, positions>>
      /\ \A k \in Handlers \ {h} : pc'[k] = pc[k]
      /\ \/ /\ pc[h] \in {"idle", "price", "place"}
            /\ pc'[h] \in {"price", "place", "unavailable", "insufficient"}
         \/ pc[h] \in {"price", "place", "announce", "portfolio"} /\ pc'[h] = "error"
      /\ pc' \in [Handlers -> {"idle", "price", "place", "announce", "portfolio"}
                               \cup Answered]
  <2> USE DEF TypeOK, Answered
  <2>1. CASE Request(h)
    BY <2>1 DEF Request
  <2>2. CASE GetPrice(h)
    BY <2>2 DEF GetPrice
  <2>3. CASE Refuse(h)
    BY <2>3 DEF Refuse
  <2>4. CASE FailsBefore(h)
    BY <2>4 DEF FailsBefore
  <2> QED
    BY <2>1, <2>2, <2>3, <2>4
<1>2. TypeOK'
  BY <1>1 DEF TypeOK, Snapshots
<1>3. ASSUME NEW k \in Handlers PROVE (Untouched(k) /\ Sees(k) /\ Announced(k))'
  BY <1>1 DEF Untouched, Sees, Announced, Silent, FillAnnounced, BothAnnounced,
              Executed, Events
<1>4. Once' /\ ReadsItsOwnOrder' /\ NothingInvented'
  BY <1>1 DEF Once, NothingInvented, ReadsItsOwnOrder, Executed, Events
<1> QED
  BY <1>2, <1>3, <1>4

\* The order of h is appended to those that were executed.
LEMMA ExecuteStep ==
  ASSUME IInv, NEW h \in Handlers, NEW label \in {"announce", "error"},
         Commits(h, label)
  PROVE  IInv'
<1> USE DEF IInv, Goto
<1>1. /\ pc[h] = "place" /\ executed' = Append(executed, h)
      /\ UNCHANGED <<published, balances, positions>>
  BY DEF Commits
<1>2. pc'[h] = label /\ \A k \in Handlers \ {h} : pc'[k] = pc[k]
  BY DEF Commits, TypeOK, Answered
<1>3. executed \in Seq(Handlers)
  BY DEF TypeOK
<1>4. /\ Len(executed) \in Nat /\ Len(executed') = Len(executed) + 1
      /\ DOMAIN executed = 1..Len(executed)
      /\ DOMAIN executed' = DOMAIN executed \cup {Len(executed) + 1}
      /\ Len(executed) + 1 \notin DOMAIN executed
      /\ \A i \in DOMAIN executed : executed'[i] = executed[i]
      /\ executed'[Len(executed) + 1] = h
  BY <1>1, <1>3, Appended
<1>5. TypeOK'
  <2>1. Snapshots \subseteq Snapshots'
    BY <1>4 DEF Snapshots, Unread
  <2>2. Published \subseteq Published'
    BY <2>1 DEF Published
  <2>3. published' \in Seq(Published')
    <3>1. published \in Seq(Published)
      BY DEF TypeOK, Published
    <3> QED
      BY <1>1, <2>2, <3>1, SeqMonotonic
  <2>4. executed' \in Seq(Handlers)
    BY <1>1, <1>3, AppendProperties
  <2>5. pc' \in [Handlers -> {"idle", "price", "place", "announce", "portfolio"}
                               \cup Answered]
    BY DEF Commits, TypeOK, Answered
  <2>6. balances' \in [Handlers -> Snapshots'] /\ positions' \in [Handlers -> Snapshots']
    BY <1>1, <2>1 DEF TypeOK
  <2> QED
    BY <2>3, <2>4, <2>5, <2>6 DEF TypeOK, Published
<1>6. /\ \A k : Executed(k) => Executed(k)'
      /\ \A k \in Handlers \ {h} : Executed(k)' => Executed(k)
      /\ Executed(h)' /\ ~Executed(h)
  BY <1>1, <1>4 DEF Executed, Untouched
<1>7. ASSUME NEW k \in Handlers PROVE Untouched(k)'
  BY <1>1, <1>2, <1>6 DEF Untouched
<1>8. ASSUME NEW k \in Handlers PROVE Sees(k)'
  <2>1. CASE k = h
    BY <1>1, <1>4, <2>1 DEF Sees, Untouched
  <2>2. CASE k # h
    BY <1>1, <1>2, <1>4, <2>2 DEF Sees
  <2> QED
    BY <2>1, <2>2
<1>9. ASSUME NEW k \in Handlers PROVE Announced(k)'
  BY <1>1, <1>2 DEF Announced, Silent, FillAnnounced, BothAnnounced, Events
<1>10. Once'
  BY <1>4, <1>6 DEF Once, Executed
<1>11. NothingInvented'
  BY <1>1, <1>6 DEF NothingInvented
<1>12. ReadsItsOwnOrder'
  BY <1>1, <1>4 DEF ReadsItsOwnOrder, Events
<1> QED
  BY <1>5, <1>7, <1>8, <1>9, <1>10, <1>11, <1>12

\* The fill is published.
LEMMA AnnounceStep ==
  ASSUME IInv, NEW h \in Handlers, NEW label \in {"portfolio", "error"},
         Announces(h, label)
  PROVE  IInv'
<1> USE DEF IInv, Goto
<1>0. Filled(h).by = h
  BY EventFacts
<1>1. /\ pc[h] = "announce" /\ published' = Append(published, Filled(h))
      /\ UNCHANGED <<executed, balances, positions>>
  BY DEF Announces
<1>2. pc'[h] = label /\ \A k \in Handlers \ {h} : pc'[k] = pc[k]
  BY DEF Announces, TypeOK, Answered
<1>3. published \in Seq(Published) /\ Filled(h) \in Published
  BY DEF TypeOK, Published
<1>4. /\ DOMAIN published = 1..Len(published) /\ Len(published) \in Nat
      /\ DOMAIN published' = DOMAIN published \cup {Len(published) + 1}
      /\ Len(published) + 1 \notin DOMAIN published
      /\ \A e \in DOMAIN published : published'[e] = published[e]
      /\ published'[Len(published) + 1] = Filled(h)
  BY <1>1, <1>3, Appended
<1>5. published' \in Seq(Published)
  BY <1>1, <1>3, AppendProperties
<1>6. TypeOK'
  <2>1. pc' \in [Handlers -> {"idle", "price", "place", "announce", "portfolio"}
                               \cup Answered]
    BY DEF Announces, TypeOK, Answered
  <2> QED
    BY <1>1, <1>5, <2>1 DEF TypeOK, Published, Snapshots
<1>7. \A kind : Events(kind)' = Events(kind) \cup
        (IF kind = "order_filled" THEN {Len(published) + 1} ELSE {})
  BY <1>4, EventFacts DEF Events
<1>8. ASSUME NEW k \in Handlers PROVE Untouched(k)' /\ Sees(k)'
  BY <1>1, <1>2 DEF Untouched, Sees, Executed
<1>9. ASSUME NEW k \in Handlers PROVE Announced(k)'
  <2>1. CASE k = h
    <3>1. Silent(h)
      BY <1>1 DEF Announced
    <3>2. Len(published) + 1 \in Events("order_filled")'
      BY <1>7
    <3>3. \A e \in DOMAIN published' : published'[e].by = h <=> e = Len(published) + 1
      BY <1>4, <1>0, <3>1 DEF Silent
    <3>4. FillAnnounced(h)'
      BY <3>2, <3>3 DEF FillAnnounced
    <3> QED
      BY <1>2, <2>1, <3>4 DEF Announced
  <2>2. CASE k # h
    <3>1. published'[Len(published) + 1].by # k
      BY <1>4, <2>2, EventFacts
    <3>2. Silent(k) => Silent(k)'
      BY <1>4, <3>1 DEF Silent
    <3>3. FillAnnounced(k) => FillAnnounced(k)'
      BY <1>4, <1>7, <3>1 DEF FillAnnounced, Events
    <3>4. BothAnnounced(k) => BothAnnounced(k)'
      BY <1>4, <1>7, <3>1 DEF BothAnnounced, Events
    <3> QED
      BY <1>2, <2>2, <3>2, <3>3, <3>4 DEF Announced
  <2> QED
    BY <2>1, <2>2
<1>10. NothingInvented'
  BY <1>1, <1>4, <1>0 DEF NothingInvented, Sees, Executed
<1>11. ReadsItsOwnOrder'
  BY <1>1, <1>4, <1>7 DEF ReadsItsOwnOrder, Events
<1> QED
  BY <1>1, <1>6, <1>8, <1>9, <1>10, <1>11 DEF Once

\* A query sees all orders that were executed, its own among them.
LEMMA ReadStep ==
  ASSUME IInv, NEW h \in Handlers, ReadBalances(h) \/ ReadPositions(h)
  PROVE  IInv'
<1> USE DEF IInv
<1>1. pc[h] = "portfolio" /\ UNCHANGED <<executed, published, pc>>
  BY DEF ReadBalances, ReadPositions
<1>2. /\ balances' \in {balances, [balances EXCEPT ![h] = Len(executed)]}
      /\ positions' \in {positions, [positions EXCEPT ![h] = Len(executed)]}
  BY DEF ReadBalances, ReadPositions
<1>3. executed \in Seq(Handlers) /\ Len(executed) \in Nat /\ DOMAIN executed = 1..Len(executed)
  BY LenProperties DEF TypeOK
<1>4. TypeOK'
  <2>1. Len(executed) \in Snapshots
    BY <1>3 DEF Snapshots, Unread
  <2>2. balances' \in [Handlers -> Snapshots] /\ positions' \in [Handlers -> Snapshots]
    BY <1>2, <2>1 DEF TypeOK
  <2> QED
    BY <1>1, <2>2 DEF TypeOK, Snapshots
<1>5. ASSUME NEW k \in Handlers PROVE Untouched(k)' /\ Sees(k)'
  <2>1. CASE k = h
    <3>1. balances'[h] \in {balances[h], Len(executed)}
          /\ positions'[h] \in {positions[h], Len(executed)}
      BY <1>2 DEF TypeOK
    <3>2. \A i \in DOMAIN executed : Len(executed) >= i
      BY <1>3
    <3> QED
      BY <1>1, <2>1, <3>1, <3>2 DEF Untouched, Sees
  <2>2. CASE k # h
    <3>1. balances'[k] = balances[k] /\ positions'[k] = positions[k]
      BY <1>2, <2>2 DEF TypeOK
    <3> QED
      BY <1>1, <3>1 DEF Untouched, Sees, Executed
  <2> QED
    BY <2>1, <2>2
<1>6. ASSUME NEW k \in Handlers PROVE Announced(k)'
  BY <1>1 DEF Announced, Silent, FillAnnounced, BothAnnounced, Events
<1> QED
  BY <1>1, <1>4, <1>5, <1>6 DEF Once, NothingInvented, Executed, ReadsItsOwnOrder, Events

\* The portfolio is published, after the fill.
LEMMA PublishStep ==
  ASSUME IInv, NEW h \in Handlers, NEW label \in {"filled", "error"},
         Publishes(h, label)
  PROVE  IInv'
<1> USE DEF IInv, Goto
<1> DEFINE event == Portfolio(h, balances[h], positions[h])
<1>1. /\ pc[h] = "portfolio" /\ published' = Append(published, event)
      /\ UNCHANGED <<executed, balances, positions>>
      /\ balances[h] # Unread /\ positions[h] # Unread
  BY DEF Publishes
<1>2. pc'[h] = label /\ \A k \in Handlers \ {h} : pc'[k] = pc[k]
  BY DEF Publishes, TypeOK
<1>3. published \in Seq(Published) /\ event \in Published
  BY DEF TypeOK, Published
<1>4. /\ event.kind = "portfolio" /\ event.by = h
      /\ event.balances = balances[h] /\ event.positions = positions[h]
  BY EventFacts
<1> HIDE DEF event
<1>5. /\ DOMAIN published = 1..Len(published) /\ Len(published) \in Nat
      /\ DOMAIN published' = DOMAIN published \cup {Len(published) + 1}
      /\ Len(published) + 1 \notin DOMAIN published
      /\ \A e \in DOMAIN published : published'[e] = published[e]
      /\ published'[Len(published) + 1] = event
  BY <1>1, <1>3, Appended
<1>6. TypeOK'
  <2>1. published' \in Seq(Published)
    BY <1>1, <1>3, AppendProperties
  <2>2. pc' \in [Handlers -> {"idle", "price", "place", "announce", "portfolio"}
                               \cup Answered]
    BY DEF Publishes, TypeOK, Answered
  <2> QED
    BY <1>1, <2>1, <2>2 DEF TypeOK, Published, Snapshots
<1>7. \A kind : Events(kind)' = Events(kind) \cup
        (IF kind = "portfolio" THEN {Len(published) + 1} ELSE {})
  BY <1>4, <1>5 DEF Events
<1>8. ASSUME NEW k \in Handlers PROVE Untouched(k)' /\ Sees(k)'
  BY <1>1, <1>2 DEF Untouched, Sees, Executed
<1>9. ASSUME NEW k \in Handlers PROVE Announced(k)'
  <2>1. CASE k = h
    <3>1. PICK f \in Events("order_filled") :
            \A e \in DOMAIN published : published[e].by = h <=> e = f
      BY <1>1 DEF Announced, FillAnnounced
    <3>2. f \in DOMAIN published /\ f < Len(published) + 1
      BY <1>5 DEF Events
    <3>3. BothAnnounced(h)'
      BY <1>4, <1>5, <1>7, <3>1, <3>2 DEF BothAnnounced
    <3> QED
      BY <1>2, <2>1, <3>3 DEF Announced
  <2>2. CASE k # h
    <3>1. published'[Len(published) + 1].by # k
      BY <1>4, <1>5, <2>2
    <3>2. Silent(k) => Silent(k)'
      BY <1>5, <3>1 DEF Silent
    <3>3. FillAnnounced(k) => FillAnnounced(k)'
      BY <1>5, <1>7, <3>1 DEF FillAnnounced, Events
    <3>4. BothAnnounced(k) => BothAnnounced(k)'
      BY <1>5, <1>7, <3>1 DEF BothAnnounced, Events
    <3> QED
      BY <1>2, <2>2, <3>2, <3>3, <3>4 DEF Announced
  <2> QED
    BY <2>1, <2>2
<1>10. NothingInvented'
  BY <1>1, <1>4, <1>5 DEF NothingInvented, Sees, Executed
<1>11. ReadsItsOwnOrder'
  <2>1. PICK i \in DOMAIN executed :
          executed[i] = h /\ balances[h] >= i /\ positions[h] >= i
    BY <1>1 DEF Sees
  <2> QED
    BY <1>1, <1>4, <1>5, <1>7, <2>1 DEF ReadsItsOwnOrder, Events
<1> QED
  BY <1>1, <1>6, <1>8, <1>9, <1>10, <1>11 DEF Once

\* Every step keeps the invariant.
LEMMA Inductive == IInv /\ [Next]_vars => IInv'
<1> SUFFICES ASSUME IInv, [Next]_vars PROVE IInv'
  OBVIOUS
<1>1. CASE UNCHANGED vars
  BY <1>1 DEF vars, IInv, TypeOK, Snapshots, Untouched, Sees, Announced, Silent,
              FillAnnounced, BothAnnounced, NothingInvented, Executed, Events, Once,
              ReadsItsOwnOrder
<1>2. ASSUME NEW h \in Handlers, Fail(h) PROVE IInv'
  BY <1>2, GoOn, ExecuteStep, AnnounceStep, PublishStep DEF Fail, FailsBefore
<1> QED
  BY <1>1, <1>2, GoOn, ExecuteStep, AnnounceStep, ReadStep, PublishStep
     DEF Next, Quiescent, Execute, AnnounceFill, PublishPortfolio

\* IInv holds throughout.
THEOREM Invariance == Spec => []IInv
  BY InitIInv, Inductive, PTL DEF Spec

-----------------------------------------------------------------------------
\* "Filled" means executed and announced in full, refused means not executed; any
\* other error leaves both open, but then too the order was executed at most once,
\* and announced only if it was, at most once and in order.
THEOREM TrueAnswers == Spec => []AnswersAreTrue
<1>1. IInv => AnswersAreTrue
  <2> SUFFICES ASSUME IInv PROVE AnswersAreTrue
    OBVIOUS
  <2>1. ASSUME NEW h \in Handlers
        PROVE  /\ Silent(h) \/ FillAnnounced(h) \/ BothAnnounced(h)
               /\ pc[h] = "filled" => Executed(h) /\ BothAnnounced(h)
               /\ pc[h] \in {"unavailable", "insufficient"} => ~Executed(h)
    <3>1. Untouched(h) /\ Sees(h) /\ Announced(h)
      BY DEF IInv
    <3>2. pc[h] \in {"idle", "price", "place", "announce", "portfolio"} \cup Answered
      BY DEF IInv, TypeOK
    <3> QED
      BY <3>1, <3>2 DEF Untouched, Sees, Announced, Executed, Answered
  <2> QED
    BY <2>1 DEF AnswersAreTrue, IInv, NothingInvented, Once
<1> QED
  BY <1>1, Invariance, PTL

\* A portfolio shows the order it is published for, whatever was executed between
\* the commit and the two queries.
THEOREM OwnOrderShown == Spec => []ReadsItsOwnOrder
  BY Invariance, PTL DEF IInv

\* Once nothing is under way any more, the portfolio published for the order that
\* was executed last is the current one: of all orders, its queries saw its own.
THEOREM CurrentShown == Spec => []CurrentIsPublished
<1>1. IInv => CurrentIsPublished
  <2> SUFFICES ASSUME IInv, AllAnswered, executed # <<>>,
                      \A h \in Handlers : pc[h] # "error"
               PROVE  \E e \in Events("portfolio") : Current(e)
    BY DEF CurrentIsPublished
  <2> DEFINE last == Len(executed)
             h == executed[last]
  <2>1. /\ last \in DOMAIN executed /\ DOMAIN executed = 1..last /\ last \in Nat
        /\ h \in Handlers
    BY DEF IInv, TypeOK
  <2>2. pc[h] = "filled"
    BY <2>1 DEF IInv, AllAnswered, Answered, Untouched, Executed
  <2>3. PICK p \in Events("portfolio") : published[p].by = h
    BY <2>1, <2>2 DEF IInv, Announced, BothAnnounced, Events
  <2>4. PICK i \in DOMAIN executed :
          /\ executed[i] = h
          /\ published[p].balances >= i /\ published[p].positions >= i
    BY <2>3 DEF IInv, ReadsItsOwnOrder
  <2>5. i = last
    BY <2>1, <2>4 DEF IInv, Once
  <2>6. published[p].balances \in Snapshots /\ published[p].positions \in Snapshots
    <3>1. p \in DOMAIN published /\ published[p].kind = "portfolio"
      BY DEF Events
    <3>2. published[p] \in Published
      BY <3>1, ElementOfSeq DEF IInv, TypeOK, Published
    <3>3. PICK k \in Handlers, b \in Snapshots, q \in Snapshots :
            published[p] = Filled(k) \/ published[p] = Portfolio(k, b, q)
      BY <2>1, <3>2 DEF Published, Snapshots, Unread
    <3>4. Filled(k).kind = "order_filled"
          /\ Portfolio(k, b, q).balances = b /\ Portfolio(k, b, q).positions = q
      BY EventFacts
    <3> QED
      BY <3>1, <3>3, <3>4
  <2> QED
    BY <2>1, <2>3, <2>4, <2>5, <2>6 DEF Current, Snapshots, Unread
<1> QED
  BY <1>1, Invariance, PTL
=============================================================================

---------------------------- MODULE CandleWorker ----------------------------
(***************************************************************************)
(* The candle aggregation worker: subscribeToPrice                         *)
(* (workers/candle-aggregation/src/subscriber.ts) and processPriceTick     *)
(* (packages/pricing/src/candles.ts), for one asset.  The open candle is a *)
(* Redis key, closed candles are rows.  The Redis client calls the handler *)
(* for every price and does not wait for it, so a price can arrive while   *)
(* another one is still being processed.  Volume is always 0 and left out. *)
(*                                                                         *)
(* All commands to Redis go through one connection, are executed in the    *)
(* order they are sent, and answered in that order.  So a command has its  *)
(* effect here when it is sent: GET when the price arrives, SET with the   *)
(* reply to GET, or with the end of the upsert, PUBLISH with the reply to  *)
(* SET.  Postgres has several connections and answers in any order.        *)
(***************************************************************************)
EXTENDS Integers, Sequences, FiniteSetsExt

CONSTANTS
  Prices,
  MaxBucket,    \* bound: prices of the buckets 0..MaxBucket
  MaxTicks,     \* bound: prices that are published
  MaxInFlight,  \* bound: handlers that run at once
  None

Buckets == 0..MaxBucket

Candles == [bucket : Buckets, open : Prices, high : Prices, low : Prices, close : Prices]

ASSUME BoundAssumption ==
  /\ Prices \subseteq Nat \ {0}
  /\ MaxBucket \in Nat /\ MaxTicks \in Nat /\ MaxInFlight \in Nat \ {0}
  /\ None \notin Candles

VARIABLES
  ticks,      \* the prices received: [bucket, price], in order
  pc,         \* where the handler of each is
  held,       \* the candle each has read, or None
  sent,       \* the handlers that wait for a reply of Redis, in order
  cache,      \* the open candle in Redis, or None
  rows,       \* [bucket |-> the row of the candles table, or None]
  complete,   \* candles that were broadcast with isComplete: true
  overlapped, \* history: a price arrived while another was being processed
  disturbed   \* history: ... or a handler failed, or the worker, or Redis

vars == <<ticks, pc, held, sent, cache, rows, complete, overlapped, disturbed>>

UnderWay == {"read", "persist", "save", "publish"}

Steps == UnderWay \cup {"done", "failed"}

TypeOK ==
  /\ ticks \in Seq([bucket : Buckets, price : Prices])
  /\ pc \in [DOMAIN ticks -> Steps]
  /\ held \in [DOMAIN ticks -> Candles \cup {None}]
  /\ sent \in Seq(Nat)
  /\ cache \in Candles \cup {None}
  /\ rows \in [Buckets -> Candles \cup {None}]
  /\ complete \subseteq Candles
  /\ overlapped \in BOOLEAN /\ disturbed \in BOOLEAN
  /\ \A b \in Buckets : rows[b] # None => rows[b].bucket = b

Init ==
  /\ ticks = <<>>
  /\ pc = <<>>
  /\ held = <<>>
  /\ sent = <<>>
  /\ cache = None
  /\ rows = [b \in Buckets |-> None]
  /\ complete = {}
  /\ overlapped = FALSE
  /\ disturbed = FALSE

InFlight == {n \in DOMAIN ticks : pc[n] \in UnderWay}

Larger(a, b) == IF a > b THEN a ELSE b

Smaller(a, b) == IF a < b THEN a ELSE b

Opened(t) == [bucket |-> t.bucket, open |-> t.price, high |-> t.price,
              low |-> t.price, close |-> t.price]

\* Variant: a candle is closed by the second bucket after it only.
ClosesLate(candle, t) == candle # None /\ candle.bucket + 1 < t.bucket

\* The cached candle is of an earlier bucket than the price.
Closes(candle, t) == candle # None /\ candle.bucket < t.bucket

\* Variant: the low follows the close.
UpdatedWithoutLow(candle, t) ==
  IF candle = None \/ Closes(candle, t) THEN Opened(t)
  ELSE [candle EXCEPT !.high = Larger(@, t.price), !.low = t.price, !.close = t.price]

\* The candle that is written back to the cache.
Updated(candle, t) ==
  IF candle = None \/ Closes(candle, t) THEN Opened(t)
  ELSE [candle EXCEPT !.high = Larger(@, t.price),
                      !.low = Smaller(@, t.price),
                      !.close = t.price]

-----------------------------------------------------------------------------
\* A price arrives, and GET is sent.
Receive(t) ==
  /\ Len(ticks) < MaxTicks
  /\ Cardinality(InFlight) < MaxInFlight
  /\ ticks # <<>> => t.bucket >= ticks[Len(ticks)].bucket
  /\ ticks' = Append(ticks, t)
  /\ held' = Append(held, cache)
  /\ pc' = Append(pc, "read")
  /\ sent' = Append(sent, Len(ticks) + 1)
  /\ overlapped' = (overlapped \/ InFlight # {})
  /\ disturbed' = (disturbed \/ InFlight # {})
  /\ UNCHANGED <<cache, rows, complete>>

Goto(n, label) == pc' = [pc EXCEPT ![n] = label]

\* The next reply of Redis is for this handler.
Replied(n) == sent # <<>> /\ n = Head(sent)

\* The reply to GET: the candle has to be closed first, and upsert is sent.
Close(n) ==
  /\ pc[n] = "read"
  /\ Replied(n)
  /\ Closes(held[n], ticks[n])
  /\ sent' = Tail(sent)
  /\ Goto(n, "persist")
  /\ UNCHANGED <<ticks, held, cache, rows, complete, overlapped, disturbed>>

\* candles.upsert: an update leaves the open price of the row.
Upserted(row, candle) ==
  IF row = None THEN candle ELSE [candle EXCEPT !.open = row.open]

\* persistCandle
Persist(n) ==
  /\ pc[n] = "persist"
  /\ rows' = [rows EXCEPT ![held[n].bucket] = Upserted(@, held[n])]
  /\ Goto(n, "save")
  /\ UNCHANGED <<ticks, held, sent, cache, complete, overlapped, disturbed>>

\* SET is sent, with the reply to GET if nothing was to be closed.
SendsSet(n) ==
  \/ /\ pc[n] = "read"
     /\ Replied(n)
     /\ ~Closes(held[n], ticks[n])
     /\ sent' = Append(Tail(sent), n)
  \/ /\ pc[n] = "save"
     /\ sent' = Append(sent, n)

\* Variant: the row that was just written gets the price that closed it.
SaveIntoRow(n) ==
  /\ SendsSet(n)
  /\ cache' = Updated(held[n], ticks[n])
  /\ rows' = IF Closes(held[n], ticks[n])
             THEN [rows EXCEPT ![held[n].bucket].close = ticks[n].price] ELSE rows
  /\ Goto(n, "publish")
  /\ UNCHANGED <<ticks, held, complete, overlapped, disturbed>>

\* saveCurrentCandle
Save(n) ==
  /\ SendsSet(n)
  /\ cache' = Updated(held[n], ticks[n])
  /\ Goto(n, "publish")
  /\ UNCHANGED <<ticks, held, rows, complete, overlapped, disturbed>>

\* publishCandleUpdate, for the open candle and for the closed one.
Publish(n) ==
  /\ pc[n] = "publish"
  /\ Replied(n)
  /\ sent' = Tail(sent)
  /\ complete' = complete \cup (IF Closes(held[n], ticks[n]) THEN {held[n]} ELSE {})
  /\ Goto(n, "done")
  /\ UNCHANGED <<ticks, held, cache, rows, overlapped, disturbed>>

\* Postgres or Redis fails; the error is logged and the price is dropped.
Fail(n) ==
  /\ \/ /\ n \in InFlight /\ Replied(n)
        /\ sent' = Tail(sent)
     \/ /\ pc[n] \in {"persist", "save"}
        /\ UNCHANGED sent
  /\ Goto(n, "failed")
  /\ disturbed' = TRUE
  /\ UNCHANGED <<ticks, held, cache, rows, complete, overlapped>>

\* The worker is stopped and started again: handlers in progress are lost.
Restart ==
  /\ InFlight # {}
  /\ pc' = [n \in DOMAIN pc |-> IF n \in InFlight THEN "failed" ELSE pc[n]]
  /\ sent' = <<>>
  /\ disturbed' = TRUE
  /\ UNCHANGED <<ticks, held, cache, rows, complete, overlapped>>

\* Redis loses the open candle.
LoseCache ==
  /\ cache # None
  /\ cache' = None
  /\ disturbed' = TRUE
  /\ UNCHANGED <<ticks, pc, held, sent, rows, complete, overlapped>>

\* The bound on prices is reached.
Quiescent ==
  /\ Len(ticks) = MaxTicks
  /\ InFlight = {}
  /\ UNCHANGED vars

Next ==
  \/ \E b \in Buckets, p \in Prices : Receive([bucket |-> b, price |-> p])
  \/ \E n \in DOMAIN ticks : Close(n) \/ Persist(n) \/ Save(n) \/ Publish(n) \/ Fail(n)
  \/ Restart
  \/ LoseCache
  \/ Quiescent

Spec == Init /\ [][Next]_vars

-----------------------------------------------------------------------------
TicksOf(b) == {n \in DOMAIN ticks : ticks[n].bucket = b}

\* The reference: the candle of all prices received in a bucket.
Aggregate(b) ==
  LET prices == {ticks[n].price : n \in TicksOf(b)}
  IN [bucket |-> b, open |-> ticks[Min(TicksOf(b))].price, high |-> Max(prices),
      low |-> Min(prices), close |-> ticks[Max(TicksOf(b))].price]

\* Every variable has its type; however prices overlap and whatever fails, a
\* candle shows prices of its own minute only, and closes between its low and its
\* high; and none is announced as complete before there is a row of it.
CandleOfOneBucket ==
  /\ TypeOK
  /\ \A c \in ({rows[b] : b \in Buckets} \cup {cache} \cup complete) \ {None} :
       /\ {c.open, c.high, c.low, c.close} \subseteq {ticks[n].price : n \in TicksOf(c.bucket)}
       /\ c.low <= c.close /\ c.close <= c.high
  /\ \A c \in complete : rows[c.bucket] # None

\* As long as nothing fails and prices come one at a time, the candles are
\* exactly the aggregates: every closed bucket in the table, the open one in
\* the cache.
ExactUnlessDisturbed ==
  (~disturbed /\ InFlight = {}) =>
    /\ \A b \in Buckets : rows[b] # None => rows[b] = Aggregate(b)
    /\ cache # None => cache = Aggregate(cache.bucket)
    /\ \A b \in Buckets :
         TicksOf(b) # {} => rows[b] # None \/ cache.bucket = b

\* "Uses upsert to ensure idempotency": a restart or a failure between writing
\* the row and moving the cache on has the next price write the row again, and
\* that changes nothing, as long as prices come one at a time.
RowsAreFinal ==
  [][~overlapped' =>
        \A b \in Buckets : rows[b] # None => rows'[b] = rows[b]]_vars
=============================================================================

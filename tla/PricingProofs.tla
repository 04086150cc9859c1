---------------------------- MODULE PricingProofs ----------------------------
(***************************************************************************)
(* The theorems of the two workers and packages/pricing: of CandleWorker,  *)
(* for any prices, any number of them and any number of handlers at once;  *)
(* and of PriceFeed, for every threshold and interval.  Each rests on an   *)
(* inductive invariant.                                                    *)
(***************************************************************************)
EXTENDS CandleWorker, PriceFeed, TLAPS, SequenceTheorems

\* A candle shows prices of its own minute, and closes between low and high.
Sound(c) ==
  /\ {c.open, c.high, c.low, c.close} \subseteq {ticks[n].price : n \in TicksOf(c.bucket)}
  /\ c.low <= c.close /\ c.close <= c.high

\* Prices come minute by minute.
InOrder == \A i, j \in DOMAIN ticks : i <= j => ticks[i].bucket <= ticks[j].bucket

\* What a handler has read is sound and not newer than its price; a candle that
\* its price closes has a row by the time it is written back.
Sees(n) ==
  /\ held[n] # None => Sound(held[n]) /\ held[n].bucket <= ticks[n].bucket
  /\ pc[n] = "persist" => Closes(held[n], ticks[n])
  /\ pc[n] \in {"save", "publish"} /\ Closes(held[n], ticks[n])
       => rows[held[n].bucket] # None

\* Only a minute that is over has a row.
RowsAreOver ==
  \A b \in Buckets : rows[b] # None => \E n \in DOMAIN ticks : b < ticks[n].bucket

CandlesAreSound ==
  /\ cache # None => Sound(cache)
  /\ \A b \in Buckets : rows[b] # None => Sound(rows[b])
  /\ \A c \in complete : Sound(c) /\ rows[c.bucket] # None

\* As long as prices come one at a time, the handler of the last one is the only
\* one that runs, and the row of the cached candle, if it has one, is that candle.
OneAtATime ==
  ~overlapped =>
    /\ InFlight \subseteq {Len(ticks)}
    /\ \A n \in InFlight :
         pc[n] \in {"read", "persist", "save"} => cache \in {held[n], None}
    /\ \A n \in InFlight :
         /\ pc[n] \in {"read", "persist"} /\ held[n] # None
         /\ rows[held[n].bucket] # None
         => rows[held[n].bucket] = held[n]
    /\ cache # None /\ rows[cache.bucket] # None => rows[cache.bucket] = cache

CandleInv ==
  /\ TypeOK
  /\ InOrder
  /\ \A n \in DOMAIN ticks : Sees(n)
  /\ RowsAreOver
  /\ CandlesAreSound
  /\ OneAtATime

-----------------------------------------------------------------------------
TickRecords == [bucket : Buckets, price : Prices]

\* What a candle and a price are made of.
LEMMA CandleFacts ==
  /\ \A c \in Candles :
       /\ c # None /\ c.bucket \in Buckets
       /\ {c.open, c.high, c.low, c.close} \subseteq Prices
  /\ \A t \in TickRecords : t.bucket \in Buckets /\ t.price \in Prices
  /\ \A p \in Prices : p \in Nat \ {0}
  /\ \A b \in Buckets : b \in Nat
BY BoundAssumption DEF Candles, Buckets, TickRecords

\* The candle that is written back: a new one, or the one read and the price.
LEMMA UpdatedFacts ==
  ASSUME NEW c \in Candles \cup {None}, NEW t \in TickRecords
  PROVE  /\ Updated(c, t) \in Candles
         /\ c = None \/ Closes(c, t) =>
              /\ Updated(c, t).bucket = t.bucket
              /\ Updated(c, t).open = t.price /\ Updated(c, t).close = t.price
              /\ Updated(c, t).high = t.price /\ Updated(c, t).low = t.price
         /\ c # None /\ ~Closes(c, t) =>
              /\ Updated(c, t).bucket = c.bucket
              /\ Updated(c, t).open = c.open /\ Updated(c, t).close = t.price
              /\ Updated(c, t).high \in {c.high, t.price}
              /\ Updated(c, t).low \in {c.low, t.price}
              /\ Updated(c, t).high >= c.high /\ Updated(c, t).high >= t.price
              /\ Updated(c, t).low <= c.low /\ Updated(c, t).low <= t.price
<1> USE CandleFacts
<1>1. CASE c = None \/ Closes(c, t)
  <2>1. Updated(c, t) = Opened(t)
    BY <1>1 DEF Updated
  <2> QED
    BY <1>1, <2>1 DEF Opened, Candles, TickRecords
<1>2. CASE c # None /\ ~Closes(c, t)
  <2>1. Updated(c, t) = [c EXCEPT !.high = Larger(@, t.price),
                                     !.low = Smaller(@, t.price),
                                     !.close = t.price]
    BY <1>2 DEF Updated
  <2>2. c.high \in Nat /\ c.low \in Nat /\ t.price \in Nat
    BY <1>2
  <2>3. /\ Larger(c.high, t.price) \in {c.high, t.price}
        /\ Larger(c.high, t.price) >= c.high /\ Larger(c.high, t.price) >= t.price
        /\ Smaller(c.low, t.price) \in {c.low, t.price}
        /\ Smaller(c.low, t.price) <= c.low /\ Smaller(c.low, t.price) <= t.price
    BY <2>2 DEF Larger, Smaller
  <2> HIDE DEF Larger, Smaller
  <2> QED
    BY <1>2, <2>1, <2>3 DEF Candles, TickRecords
<1> QED
  BY <1>1, <1>2

\* A sequence given as a function from the first n naturals.
LEMMA AppendedFunction ==
  ASSUME NEW n \in Nat, NEW S, NEW f \in [1..n -> S], NEW x \in S
  PROVE  /\ Len(f) = n /\ DOMAIN Append(f, x) = 1..n + 1
         /\ Append(f, x) \in [1..n + 1 -> S]
         /\ \A i \in 1..n : Append(f, x)[i] = f[i]
         /\ Append(f, x)[n + 1] = x
<1>1. f \in Seq(S) /\ Len(f) = n
  OBVIOUS
<1>2. Append(f, x) \in Seq(S) /\ Len(Append(f, x)) = n + 1
  BY <1>1
<1>3. \A s \in Seq(S) : s \in [1..Len(s) -> S]
  OBVIOUS
<1>4. Append(f, x) \in [1..n + 1 -> S]
  BY <1>2, <1>3
<1> QED
  BY <1>1, <1>4

\* What a handler has before it.
LEMMA HandlerFacts ==
  ASSUME TypeOK
  PROVE  /\ Len(ticks) \in Nat /\ DOMAIN ticks = 1..Len(ticks)
         /\ \A n \in DOMAIN ticks :
              /\ ticks[n] \in TickRecords /\ held[n] \in Candles \cup {None}
              /\ ticks[n].bucket \in Buckets /\ ticks[n].price \in Prices
<1>1. ticks \in Seq(TickRecords)
  BY DEF TypeOK, TickRecords
<1>2. \A n \in DOMAIN ticks : ticks[n] \in TickRecords
  BY <1>1
<1>3. \A t \in TickRecords : t.bucket \in Buckets /\ t.price \in Prices
  BY DEF TickRecords
<1> QED
  BY <1>1, <1>2, <1>3 DEF TypeOK

\* The handlers that wait for a reply, one fewer and one more.
LEMMA SentFacts ==
  ASSUME TypeOK, NEW n \in DOMAIN ticks
  PROVE  /\ Append(sent, n) \in Seq(Nat)
         /\ sent # <<>> =>
              Tail(sent) \in Seq(Nat) /\ Append(Tail(sent), n) \in Seq(Nat)
<1>1. sent \in Seq(Nat) /\ n \in Nat
  BY HandlerFacts DEF TypeOK
<1>2. sent # <<>> => Tail(sent) \in Seq(Nat)
  BY ONLY <1>1
<1> QED
  BY ONLY <1>1, <1>2, AppendProperties

\* SET is sent with the reply to GET, or when the closed candle has its row.
LEMMA SendsSetFacts ==
  ASSUME TypeOK, NEW n \in DOMAIN ticks, SendsSet(n)
  PROVE  /\ pc[n] = "save" \/ (pc[n] = "read" /\ ~Closes(held[n], ticks[n]))
         /\ sent' \in Seq(Nat)
BY SentFacts DEF SendsSet, Replied

-----------------------------------------------------------------------------
\* Initially there is nothing.
LEMMA CandleInit ==
  ASSUME Init
  PROVE  CandleInv
<1> USE DEF Init
<1>1. DOMAIN ticks = {}
  OBVIOUS
<1>2. TypeOK
  <2>1. \A S : <<>> \in [{} -> S]
    OBVIOUS
  <2>2. ticks \in Seq([bucket : Buckets, price : Prices]) /\ sent \in Seq(Nat)
    OBVIOUS
  <2> QED
    BY <1>1, <2>1, <2>2 DEF TypeOK
<1>3. InFlight = {}
  BY <1>1 DEF InFlight
<1> QED
  BY <1>1, <1>2, <1>3 DEF CandleInv, InOrder, RowsAreOver, CandlesAreSound, OneAtATime

\* A price arrives: it is not older than those before it, nor than the candle.
LEMMA ReceiveStep ==
  ASSUME CandleInv, NEW t \in TickRecords, Receive(t)
  PROVE  CandleInv'
<1> USE CandleFacts DEF CandleInv
<1> DEFINE n == Len(ticks)
<1>1. /\ n \in Nat /\ DOMAIN ticks = 1..n /\ ticks \in [1..n -> TickRecords]
      /\ ticks' = Append(ticks, t)
      /\ DOMAIN ticks' = 1..n + 1 /\ Len(ticks') = n + 1
      /\ \A i \in 1..n : ticks'[i] = ticks[i]
      /\ ticks'[n + 1] = t
  <2>1. ticks \in Seq(TickRecords)
    BY DEF TypeOK, TickRecords
  <2>2. n \in Nat /\ ticks \in [1..n -> TickRecords]
    BY <2>1
  <2>3. ticks' = Append(ticks, t)
    BY DEF Receive
  <2>4. ticks' \in [1..n + 1 -> TickRecords] /\ Len(ticks') = n + 1
    BY <2>1, <2>2, <2>3, AppendedFunction
  <2> QED
    BY <2>2, <2>3, <2>4, AppendedFunction
<1>2. /\ \A i \in 1..n : held'[i] = held[i] /\ pc'[i] = pc[i]
      /\ held'[n + 1] = cache /\ pc'[n + 1] = "read"
      /\ DOMAIN held' = 1..n + 1 /\ DOMAIN pc' = 1..n + 1
  BY <1>1, AppendedFunction DEF Receive, TypeOK
<1>3. UNCHANGED <<cache, rows, complete>>
      /\ overlapped' = (overlapped \/ InFlight # {})
      /\ disturbed' = (disturbed \/ InFlight # {})
  BY DEF Receive
<1>4. TypeOK'
  <2>1. ticks' \in Seq(TickRecords)
    BY <1>1, AppendProperties DEF TypeOK, TickRecords
  <2>2. /\ pc' \in [1..n + 1 -> Steps]
        /\ held' \in [1..n + 1 -> Candles \cup {None}]
    <3>1. /\ pc \in [1..n -> Steps]
          /\ held \in [1..n -> Candles \cup {None}] /\ cache \in Candles \cup {None}
      BY <1>1 DEF TypeOK
    <3>2. "read" \in Steps
      BY DEF Steps, UnderWay
    <3>3. pc' = Append(pc, "read") /\ held' = Append(held, cache)
      BY DEF Receive
    <3> QED
      BY <1>1, <3>1, <3>2, <3>3, AppendedFunction
  <2>3. /\ DOMAIN ticks' = 1..n + 1
        /\ cache' = cache /\ rows' = rows /\ complete' = complete
        /\ overlapped' \in BOOLEAN /\ disturbed' \in BOOLEAN
    BY <1>1, <1>3 DEF TypeOK
  <2>4. sent' \in Seq(Nat)
    <3>1. sent' = Append(sent, n + 1) /\ n + 1 \in Nat /\ sent \in Seq(Nat)
      BY <1>1 DEF Receive, TypeOK
    <3> QED
      BY ONLY <3>1, AppendProperties
  <2> QED
    BY <2>1, <2>2, <2>3, <2>4, SMTT(30) DEF TypeOK, TickRecords
<1>5. \A i \in 1..n : ticks[i].bucket <= t.bucket
  <2>1. ticks # <<>> => t.bucket >= ticks[n].bucket
    BY DEF Receive
  <2> QED
    BY <1>1, <2>1 DEF InOrder
<1>6. InOrder'
  BY <1>1, <1>5 DEF InOrder
<1>7. \A c : Sound(c) => Sound(c)'
  <2>1. \A b : {ticks[i].price : i \in TicksOf(b)}
                 \subseteq {ticks[i].price : i \in TicksOf(b)}'
    BY <1>1 DEF TicksOf
  <2> QED
    BY <2>1 DEF Sound
<1>8. ASSUME cache # None PROVE cache.bucket <= t.bucket
  <2>1. PICK i \in TicksOf(cache.bucket) : TRUE
    BY <1>8 DEF CandlesAreSound, Sound
  <2> QED
    BY <1>1, <1>5, <2>1 DEF TicksOf
<1>9. ASSUME NEW i \in DOMAIN ticks' PROVE Sees(i)'
  <2>1. CASE i \in 1..n
    BY <1>1, <1>2, <1>3, <1>7, <2>1 DEF Sees, Closes
  <2>2. CASE i = n + 1
    <3>1. cache # None => Sound(cache)'
      BY <1>3, <1>7 DEF CandlesAreSound
    <3> QED
      BY <1>1, <1>2, <1>3, <1>8, <2>2, <3>1 DEF Sees
  <2> QED
    BY <1>1, <2>1, <2>2
<1>10. RowsAreOver'
  BY <1>1, <1>3 DEF RowsAreOver
<1>11. CandlesAreSound'
  BY <1>3, <1>7 DEF CandlesAreSound
<1>12. OneAtATime'
  <2> SUFFICES ASSUME ~overlapped' PROVE OneAtATime'
    BY DEF OneAtATime
  <2>1. InFlight = {} /\ ~overlapped
    BY <1>3 DEF TypeOK
  <2>2. InFlight' \subseteq {n + 1}
    <3>1. InFlight' = {i \in 1..n + 1 : pc'[i] \in UnderWay}
      BY ONLY <1>1 DEF InFlight, UnderWay
    <3>2. \A i \in 1..n : pc[i] \notin UnderWay
      BY ONLY <1>1, <2>1 DEF InFlight
    <3>3. \A i \in 1..n + 1 : i # n + 1 => i \in 1..n
      BY ONLY <1>1
    <3> QED
      BY ONLY <1>2, <3>1, <3>2, <3>3
  <2>3. cache # None /\ rows[cache.bucket] # None => rows[cache.bucket] = cache
    BY <2>1 DEF OneAtATime
  <2>4. held'[n + 1] = cache /\ cache' = cache /\ rows' = rows /\ Len(ticks') = n + 1
    BY <1>1, <1>2, <1>3
  <2> QED
    BY ONLY <2>2, <2>3, <2>4 DEF OneAtATime
<1> QED
  BY <1>4, <1>6, <1>9, <1>10, <1>11, <1>12

\* The candle that was read is of an earlier minute.
LEMMA CloseStep ==
  ASSUME CandleInv, NEW n \in DOMAIN ticks, Close(n)
  PROVE  CandleInv'
<1> USE CandleFacts DEF CandleInv
<1>1. /\ pc[n] = "read" /\ pc' = [pc EXCEPT ![n] = "persist"]
      /\ Closes(held[n], ticks[n])
      /\ UNCHANGED <<ticks, held, cache, rows, complete, overlapped, disturbed>>
  BY DEF Close, Goto
<1>2. /\ pc'[n] = "persist" /\ \A i \in DOMAIN ticks \ {n} : pc'[i] = pc[i]
      /\ pc' \in [DOMAIN ticks -> Steps]
  BY <1>1 DEF TypeOK, Steps, UnderWay
<1>3. \A c : Sound(c)' <=> Sound(c)
  BY <1>1 DEF Sound, TicksOf
<1>4. TypeOK'
  <2>1. sent' \in Seq(Nat)
    BY SentFacts DEF Close, Replied
  <2> QED
    BY <1>1, <1>2, <2>1 DEF TypeOK
<1>5. InOrder' /\ RowsAreOver' /\ CandlesAreSound'
  BY <1>1, <1>3 DEF InOrder, RowsAreOver, CandlesAreSound
<1>6. ASSUME NEW i \in DOMAIN ticks' PROVE Sees(i)'
  BY <1>1, <1>2, <1>3 DEF Sees, Closes
<1>7. OneAtATime'
  <2>1. InFlight' = InFlight
    BY <1>1, <1>2 DEF InFlight, UnderWay
  <2> QED
    BY <1>1, <1>2, <2>1 DEF OneAtATime
<1> QED
  BY <1>4, <1>5, <1>6, <1>7

\* The row that is written for a candle: of its minute, sound if both are.
LEMMA UpsertedFacts ==
  ASSUME NEW c \in Candles, NEW row \in Candles \cup {None}
  PROVE  /\ Upserted(row, c) \in Candles
         /\ Upserted(row, c).bucket = c.bucket
         /\ row # None /\ row.bucket = c.bucket /\ Sound(row) /\ Sound(c)
              => Sound(Upserted(row, c))
         /\ row = None \/ row = c => Upserted(row, c) = c
<1> USE CandleFacts
<1>1. CASE row = None
  BY <1>1 DEF Upserted
<1>2. CASE row # None
  <2>1. Upserted(row, c) = [c EXCEPT !.open = row.open]
    BY <1>2 DEF Upserted
  <2>2. /\ Upserted(row, c) \in Candles
        /\ Upserted(row, c).bucket = c.bucket /\ Upserted(row, c).open = row.open
        /\ Upserted(row, c).high = c.high /\ Upserted(row, c).low = c.low
        /\ Upserted(row, c).close = c.close
    BY <1>2, <2>1 DEF Candles
  <2>3. row = c => Upserted(row, c) = c
    BY <2>1 DEF Candles
  <2> QED
    BY <1>2, <2>2, <2>3 DEF Sound
<1> QED
  BY <1>1, <1>2

\* The candle that closed gets its row.
LEMMA PersistStep ==
  ASSUME CandleInv, NEW n \in DOMAIN ticks, Persist(n)
  PROVE  CandleInv'
<1> USE CandleFacts DEF CandleInv
<1> DEFINE b == held[n].bucket
<1>1. /\ pc[n] = "persist" /\ pc' = [pc EXCEPT ![n] = "save"]
      /\ rows' = [rows EXCEPT ![b] = Upserted(rows[b], held[n])]
      /\ UNCHANGED <<ticks, held, sent, cache, complete, overlapped, disturbed>>
  BY DEF Persist, Goto
<1>2. /\ ticks[n] \in TickRecords /\ held[n] \in Candles /\ b \in Buckets
      /\ b < ticks[n].bucket /\ Sound(held[n])
  BY <1>1, HandlerFacts DEF TypeOK, Sees, Closes
<1>3. /\ pc'[n] = "save" /\ \A i \in DOMAIN ticks \ {n} : pc'[i] = pc[i]
      /\ rows'[b] = Upserted(rows[b], held[n])
      /\ \A d \in Buckets \ {b} : rows'[d] = rows[d]
      /\ rows[b] \in Candles \cup {None}
      /\ rows[b] # None => rows[b].bucket = b
  BY <1>1, <1>2 DEF TypeOK
<1>4. /\ rows'[b] \in Candles /\ rows'[b].bucket = b /\ rows'[b] # None
      /\ rows[b] = None \/ rows[b] = held[n] => rows'[b] = held[n]
  BY <1>2, <1>3, UpsertedFacts
<1>5. \A c : Sound(c)' <=> Sound(c)
  BY <1>1 DEF Sound, TicksOf
<1>6. Sound(rows'[b])
  BY <1>2, <1>3, UpsertedFacts DEF CandlesAreSound
<1>7. TypeOK'
  <2>1. pc' \in [DOMAIN ticks -> Steps]
    BY <1>1 DEF TypeOK, Steps, UnderWay
  <2>2. /\ rows' \in [Buckets -> Candles \cup {None}]
        /\ \A d \in Buckets : rows'[d] # None => rows'[d].bucket = d
    BY <1>1, <1>2, <1>3, <1>4 DEF TypeOK
  <2> QED
    BY <1>1, <2>1, <2>2 DEF TypeOK
<1>8. InOrder'
  BY <1>1 DEF InOrder
<1>9. ASSUME NEW i \in DOMAIN ticks' PROVE Sees(i)'
  <2>1. held[i] # None => held[i].bucket \in Buckets
    BY <1>1 DEF TypeOK
  <2>2. Closes(held[i], ticks[i]) /\ rows[held[i].bucket] # None
          => rows'[held[i].bucket] # None
    BY <1>3, <1>4, <2>1 DEF Closes
  <2>3. Sees(i)
    BY <1>1
  <2> QED
    BY <1>1, <1>3, <1>4, <1>5, <2>2, <2>3 DEF Sees, Closes
<1>10. RowsAreOver'
  BY <1>1, <1>2, <1>3 DEF RowsAreOver
<1>11. CandlesAreSound'
  <2>1. \A d \in Buckets : rows'[d] # None => Sound(rows'[d])
    BY <1>3, <1>6 DEF CandlesAreSound
  <2>2. \A c \in complete : rows'[c.bucket] # None
    BY <1>3, <1>4 DEF CandlesAreSound, TypeOK
  <2> QED
    BY <1>1, <1>5, <2>1, <2>2 DEF CandlesAreSound
<1>12. OneAtATime'
  <2> SUFFICES ASSUME ~overlapped PROVE OneAtATime'
    BY <1>1 DEF OneAtATime
  <2>1. n \in InFlight /\ InFlight' = InFlight
    BY <1>1, <1>3 DEF InFlight, UnderWay
  <2>2. InFlight = {n} /\ n = Len(ticks)
    BY <2>1 DEF OneAtATime
  <2>3. cache \in {held[n], None} /\ rows'[b] = held[n]
    BY <1>1, <1>2, <1>4, <2>1 DEF OneAtATime
  <2> QED
    BY <1>1, <1>3, <1>4, <2>1, <2>2, <2>3 DEF OneAtATime
<1> QED
  BY <1>7, <1>8, <1>9, <1>10, <1>11, <1>12

\* The candle is written back, with the price.
LEMMA SaveStep ==
  ASSUME CandleInv, NEW n \in DOMAIN ticks, Save(n)
  PROVE  CandleInv'
<1> USE CandleFacts DEF CandleInv
<1> DEFINE t == ticks[n]
<1>1. /\ pc[n] = "save" \/ (pc[n] = "read" /\ ~Closes(held[n], t))
      /\ pc' = [pc EXCEPT ![n] = "publish"]
      /\ cache' = Updated(held[n], t)
      /\ UNCHANGED <<ticks, held, rows, complete, overlapped, disturbed>>
      /\ sent' \in Seq(Nat)
  BY SendsSetFacts DEF Save, Goto
<1>2. t \in TickRecords /\ held[n] \in Candles \cup {None}
  BY HandlerFacts
<1>3. pc'[n] = "publish" /\ \A i \in DOMAIN ticks \ {n} : pc'[i] = pc[i]
  BY <1>1 DEF TypeOK
<1>4. \A c : Sound(c)' <=> Sound(c)
  BY <1>1 DEF Sound, TicksOf
<1>5. cache' \in Candles /\ cache' # None /\ cache'.bucket = t.bucket
      /\ t.price \in {ticks[i].price : i \in TicksOf(t.bucket)}
  <2>1. t.price \in {ticks[i].price : i \in TicksOf(t.bucket)}
    BY DEF TicksOf
  <2>2. held[n] # None /\ ~Closes(held[n], t) => held[n].bucket = t.bucket
    BY <1>2 DEF Sees, Closes
  <2> QED
    BY <1>1, <1>2, <2>1, <2>2, UpdatedFacts
<1>6. Sound(cache')
  <2>1. CASE held[n] = None \/ Closes(held[n], t)
    <3>1. /\ cache'.open = t.price /\ cache'.close = t.price
          /\ cache'.high = t.price /\ cache'.low = t.price
      BY <1>1, <1>2, <2>1, UpdatedFacts
    <3>2. t.price \in Nat
      BY <1>2
    <3> QED
      BY <1>5, <3>1, <3>2 DEF Sound
  <2>2. CASE held[n] # None /\ ~Closes(held[n], t)
    <3>1. Sound(held[n]) /\ held[n].bucket = t.bucket
      BY <1>2, <2>2 DEF Sees, Closes
    <3> DEFINE c == held[n]
    <3>2. /\ cache'.open = c.open /\ cache'.close = t.price
          /\ cache'.high \in {c.high, t.price} /\ cache'.low \in {c.low, t.price}
          /\ cache'.high >= t.price /\ cache'.low <= t.price
      BY <1>1, <1>2, <2>2, UpdatedFacts
    <3>3. t.price \in Nat /\ cache'.high \in Nat /\ cache'.low \in Nat
      BY <1>2, <1>5
    <3> DEFINE prices == {ticks[i].price : i \in TicksOf(t.bucket)}
    <3>4. {c.open, c.high, c.low, c.close} \subseteq prices /\ t.price \in prices
      BY <1>5, <3>1 DEF Sound
    <3> HIDE DEF prices
    <3>5. {cache'.open, cache'.high, cache'.low, cache'.close} \subseteq prices
      BY <3>2, <3>4
    <3>6. cache'.low <= cache'.close /\ cache'.close <= cache'.high
      BY <3>2, <3>3
    <3> QED
      BY <1>5, <3>5, <3>6 DEF Sound, prices
  <2> QED
    BY <2>1, <2>2
<1> HIDE DEF t
<1>7. TypeOK'
  <2>1. pc' \in [DOMAIN ticks -> Steps]
    BY <1>1 DEF TypeOK, Steps, UnderWay
  <2> QED
    BY <1>1, <1>5, <2>1 DEF TypeOK
<1>8. InOrder' /\ RowsAreOver'
  BY <1>1 DEF InOrder, RowsAreOver
<1>9. ASSUME NEW i \in DOMAIN ticks' PROVE Sees(i)'
  <2> i \in DOMAIN ticks /\ Sees(i)
    BY <1>1
  <2> QED
    BY <1>1, <1>3, <1>4 DEF Sees, Closes, t
<1>10. CandlesAreSound'
  BY <1>1, <1>4, <1>6 DEF CandlesAreSound
<1>11. OneAtATime'
  <2> SUFFICES ASSUME ~overlapped PROVE OneAtATime'
    BY <1>1 DEF OneAtATime
  <2>1. n \in InFlight /\ InFlight' = InFlight
    BY <1>1, <1>3 DEF InFlight, UnderWay
  <2>2. InFlight = {n} /\ n = Len(ticks)
    BY <2>1 DEF OneAtATime
  <2>3. rows[t.bucket] = None
    <3>1. \A i \in DOMAIN ticks : ~(t.bucket < ticks[i].bucket)
      <4>1. \A i \in DOMAIN ticks : i <= n /\ ticks[i] \in TickRecords
        BY <2>2, HandlerFacts
      <4> QED
        BY <1>2, <4>1 DEF InOrder, t
    <3> QED
      BY <1>2, <3>1 DEF RowsAreOver
  <2> QED
    BY <1>1, <1>3, <1>5, <2>1, <2>2, <2>3 DEF OneAtATime
<1> QED
  BY <1>7, <1>8, <1>9, <1>10, <1>11

\* The candles are announced.
LEMMA PublishStep ==
  ASSUME CandleInv, NEW n \in DOMAIN ticks, Publish(n)
  PROVE  CandleInv'
<1> USE CandleFacts DEF CandleInv
<1>1. /\ pc[n] = "publish" /\ pc' = [pc EXCEPT ![n] = "done"]
      /\ complete' = complete \cup (IF Closes(held[n], ticks[n]) THEN {held[n]} ELSE {})
      /\ UNCHANGED <<ticks, held, cache, rows, overlapped, disturbed>>
  BY DEF Publish, Goto
<1>2. /\ pc'[n] = "done" /\ \A i \in DOMAIN ticks \ {n} : pc'[i] = pc[i]
      /\ pc' \in [DOMAIN ticks -> Steps]
  BY <1>1 DEF TypeOK, Steps
<1>3. \A c : Sound(c)' <=> Sound(c)
  BY <1>1 DEF Sound, TicksOf
<1>4. Closes(held[n], ticks[n]) =>
        held[n] \in Candles /\ Sound(held[n]) /\ rows[held[n].bucket] # None
  BY <1>1, HandlerFacts DEF Sees, Closes
<1>5. TypeOK'
  <2>1. sent' \in Seq(Nat)
    BY SentFacts DEF Publish, Replied
  <2> QED
    BY <1>1, <1>2, <1>4, <2>1 DEF TypeOK
<1>6. InOrder' /\ RowsAreOver'
  BY <1>1 DEF InOrder, RowsAreOver
<1>7. ASSUME NEW i \in DOMAIN ticks' PROVE Sees(i)'
  BY <1>1, <1>2, <1>3 DEF Sees, Closes
<1>8. CandlesAreSound'
  BY <1>1, <1>3, <1>4 DEF CandlesAreSound
<1>9. OneAtATime'
  <2>1. \A i \in InFlight' : i \in InFlight /\ pc'[i] = pc[i]
    BY <1>1, <1>2 DEF InFlight, UnderWay
  <2> QED
    BY <1>1, <2>1 DEF OneAtATime
<1> QED
  BY <1>5, <1>6, <1>7, <1>8, <1>9

\* A failure, a restart, the loss of the cached candle: nothing is written.
LEMMA LossStep ==
  ASSUME CandleInv,
         (\E n \in DOMAIN ticks : Fail(n)) \/ Restart \/ LoseCache
  PROVE  CandleInv'
<1> USE CandleFacts DEF CandleInv
<1>1. /\ UNCHANGED <<ticks, held, rows, complete, overlapped>>
      /\ cache' \in {cache, None} /\ disturbed' \in BOOLEAN /\ sent' \in Seq(Nat)
  <2>1. CASE \E n \in DOMAIN ticks : Fail(n)
    <3>1. PICK n \in DOMAIN ticks : Fail(n)
      BY <2>1
    <3>2. sent' \in Seq(Nat)
      BY <3>1, SentFacts DEF Fail, Replied, TypeOK
    <3> QED
      BY <3>1, <3>2 DEF Fail, TypeOK
  <2>2. CASE Restart
    <3>1. \A S : <<>> \in Seq(S)
      OBVIOUS
    <3> QED
      BY <2>2, <3>1 DEF Restart, TypeOK
  <2>3. CASE LoseCache
    BY <2>3 DEF LoseCache, TypeOK
  <2> QED
    BY <2>1, <2>2, <2>3
<1>2. /\ pc' \in [DOMAIN ticks -> Steps]
      /\ \A i \in DOMAIN ticks : pc'[i] \in {pc[i], "failed"}
  <2>1. CASE \E n \in DOMAIN ticks : Fail(n)
    BY <2>1 DEF Fail, Goto, TypeOK, Steps
  <2>2. CASE Restart
    BY <2>2 DEF Restart, TypeOK, Steps
  <2>3. CASE LoseCache
    BY <2>3 DEF LoseCache, TypeOK, Steps
  <2> QED
    BY <2>1, <2>2, <2>3
<1>3. \A c : Sound(c)' <=> Sound(c)
  BY <1>1 DEF Sound, TicksOf
<1>4. TypeOK'
  BY <1>1, <1>2 DEF TypeOK
<1>5. InOrder' /\ RowsAreOver' /\ CandlesAreSound'
  BY <1>1, <1>3 DEF InOrder, RowsAreOver, CandlesAreSound
<1>6. ASSUME NEW i \in DOMAIN ticks' PROVE Sees(i)'
  BY <1>1, <1>2, <1>3 DEF Sees, Closes
<1>7. OneAtATime'
  <2>1. \A i \in InFlight' : i \in InFlight /\ pc'[i] = pc[i]
    BY <1>1, <1>2 DEF InFlight, UnderWay
  <2> QED
    BY <1>1, <2>1 DEF OneAtATime
<1> QED
  BY <1>4, <1>5, <1>6, <1>7

\* Every step keeps the invariant.
LEMMA CandleInductive ==
  CandleInv /\ [Next]_vars => CandleInv'
<1> SUFFICES ASSUME CandleInv, [Next]_vars PROVE CandleInv'
  OBVIOUS
<1>1. CASE UNCHANGED vars
  BY <1>1 DEF vars, CandleInv, TypeOK, InOrder, Sees, Sound, TicksOf, Closes,
              RowsAreOver, CandlesAreSound, OneAtATime, InFlight
<1>2. ASSUME NEW b \in Buckets, NEW p \in Prices,
             Receive([bucket |-> b, price |-> p])
      PROVE  CandleInv'
  <2>1. [bucket |-> b, price |-> p] \in TickRecords
    BY DEF TickRecords
  <2> QED
    BY <1>2, <2>1, ReceiveStep
<1> QED
  BY <1>1, <1>2, CloseStep, PersistStep, SaveStep, PublishStep, LossStep
     DEF Next, Quiescent

LEMMA CandleInvariance == Spec => []CandleInv
<1>1. Init => CandleInv
  BY CandleInit
<1>2. CandleInv /\ [Next]_vars => CandleInv'
  BY CandleInductive
<1> QED
  BY <1>1, <1>2, PTL DEF Spec

\* However prices overlap and whatever fails, a candle is of one minute, and one
\* that was announced as complete has a row.
THEOREM OwnPricesOnly ==
  Spec => []CandleOfOneBucket
<1>1. CandleInv => CandleOfOneBucket
  <2> SUFFICES ASSUME CandleInv PROVE CandleOfOneBucket
    OBVIOUS
  <2>1. ASSUME NEW c \in ({rows[b] : b \in Buckets} \cup {cache} \cup complete) \ {None}
        PROVE  Sound(c)
    BY DEF CandleInv, CandlesAreSound
  <2> QED
    BY <2>1 DEF CandleInv, CandlesAreSound, Sound, CandleOfOneBucket
<1> QED
  BY <1>1, CandleInvariance, PTL

\* The row is the candle the handler has, if there is one already.
LEMMA FinalStep ==
  ASSUME CandleInv, [Next]_vars, ~overlapped',
         NEW b \in Buckets, rows[b] # None
  PROVE  rows'[b] = rows[b]
<1>1. CASE UNCHANGED rows
  BY <1>1
<1>2. ASSUME NEW n \in DOMAIN ticks, Persist(n)
      PROVE  rows'[b] = rows[b]
  <2>1. /\ pc[n] = "persist" /\ ~overlapped
        /\ rows' = [rows EXCEPT
                      ![held[n].bucket] = Upserted(rows[held[n].bucket], held[n])]
    BY <1>2 DEF Persist
  <2>2. held[n] \in Candles /\ n \in InFlight
    BY <2>1, HandlerFacts DEF CandleInv, Sees, Closes, InFlight, UnderWay
  <2>3. CASE b = held[n].bucket
    <3>1. rows[b] = held[n]
      BY <2>1, <2>2, <2>3, CandleFacts DEF CandleInv, OneAtATime
    <3>2. Upserted(rows[b], held[n]) = rows[b]
      BY <2>2, <3>1, UpsertedFacts
    <3> QED
      BY <2>1, <2>3, <3>2 DEF CandleInv, TypeOK
  <2>4. CASE b # held[n].bucket
    BY <2>1, <2>4 DEF CandleInv, TypeOK
  <2> QED
    BY <2>3, <2>4
<1> QED
  BY <1>1, <1>2 DEF Next, vars, Receive, Close, Save, Publish, Fail,
                    Restart, LoseCache, Quiescent

\* A row that is written again, after a failure or a restart, is the same row, as
\* long as prices come one at a time.
THEOREM RowsStay == Spec => RowsAreFinal
<1>1. CandleInv /\ [Next]_vars =>
        [~overlapped' => \A b \in Buckets : rows[b] # None => rows'[b] = rows[b]]_vars
  BY FinalStep
<1> QED
  BY <1>1, CandleInvariance, PTL DEF Spec, RowsAreFinal

-----------------------------------------------------------------------------
\* The candle c is what the first k prices make of the minute b.
Exact(c, b, k) ==
  /\ c.bucket = b
  /\ \E first, last, top, bottom \in TicksOf(b) :
       /\ {first, last, top, bottom} \subseteq 1..k
       /\ c.open = ticks[first].price /\ c.close = ticks[last].price
       /\ c.high = ticks[top].price /\ c.low = ticks[bottom].price
       /\ \A m \in TicksOf(b) \cap 1..k :
            /\ first <= m /\ m <= last
            /\ c.low <= ticks[m].price /\ ticks[m].price <= c.high

\* How many prices the cached candle takes into account.
Seen ==
  IF \E n \in InFlight : pc[n] # "publish" THEN Len(ticks) - 1 ELSE Len(ticks)

\* As long as nothing is disturbed the cached candle is exact for the prices seen,
\* and so is the row of every earlier minute, which is there as soon as the cache
\* moves on.
Undisturbed ==
  ~disturbed =>
    /\ ~overlapped
    /\ \A n \in InFlight : pc[n] # "publish" => held[n] = cache
    /\ IF Seen = 0 THEN cache = None
       ELSE cache # None /\ Exact(cache, ticks[Seen].bucket, Seen)
    /\ \A b \in Buckets : rows[b] # None => Exact(rows[b], b, Len(ticks))
    /\ \A m \in 1..Seen :
         ticks[m].bucket = ticks[Seen].bucket \/ rows[ticks[m].bucket] # None

LEMMA UndisturbedInit == ASSUME Init PROVE Undisturbed
<1> USE DEF Init
<1>1. DOMAIN ticks = {} /\ Len(ticks) = 0
  OBVIOUS
<1>2. InFlight = {}
  BY <1>1 DEF InFlight
<1>3. Seen = 0
  BY <1>1, <1>2 DEF Seen
<1> QED
  BY <1>1, <1>2, <1>3 DEF Undisturbed

\* A price more, of a minute the candle is not of, or not counted yet.
LEMMA ExactKept ==
  ASSUME TypeOK, NEW t \in TickRecords, ticks' = Append(ticks, t), NEW c, NEW b,
         NEW k \in 1..Len(ticks), Exact(c, b, k)
  PROVE  /\ Exact(c, b, k)'
         /\ t.bucket # b /\ k = Len(ticks) => Exact(c, b, k + 1)'
<1> DEFINE n == Len(ticks)
<1>1. /\ n \in Nat /\ DOMAIN ticks = 1..n /\ DOMAIN ticks' = 1..n + 1
      /\ \A i \in 1..n : ticks'[i] = ticks[i]
      /\ ticks'[n + 1] = t
  <2>1. ticks \in Seq(TickRecords)
    BY DEF TypeOK, TickRecords
  <2> QED
    BY <2>1
<1>2. /\ TicksOf(b) \subseteq TicksOf(b)' /\ TicksOf(b) \subseteq 1..n
      /\ TicksOf(b)' \cap 1..k \subseteq TicksOf(b)
      /\ t.bucket # b => TicksOf(b)' = TicksOf(b)
  BY <1>1 DEF TicksOf
<1>0. c.bucket = b
  BY DEF Exact
<1>3. PICK first, last, top, bottom \in TicksOf(b) :
        /\ {first, last, top, bottom} \subseteq 1..k
        /\ c.open = ticks[first].price /\ c.close = ticks[last].price
        /\ c.high = ticks[top].price /\ c.low = ticks[bottom].price
        /\ \A m \in TicksOf(b) \cap 1..k :
             /\ first <= m /\ m <= last
             /\ c.low <= ticks[m].price /\ ticks[m].price <= c.high
  BY DEF Exact
<1>4. /\ {first, last, top, bottom} \subseteq TicksOf(b)' \cap 1..k
      /\ c.open = ticks'[first].price /\ c.close = ticks'[last].price
      /\ c.high = ticks'[top].price /\ c.low = ticks'[bottom].price
  BY <1>1, <1>2, <1>3
<1>5. \A m \in TicksOf(b)' \cap 1..k :
        /\ first <= m /\ m <= last
        /\ c.low <= ticks'[m].price /\ ticks'[m].price <= c.high
  BY <1>1, <1>2, <1>3
<1>6. Exact(c, b, k)'
  BY <1>0, <1>3, <1>4, <1>5 DEF Exact
<1>7. ASSUME t.bucket # b, k = n PROVE Exact(c, b, k + 1)'
  <2>1. TicksOf(b)' \cap 1..k + 1 = TicksOf(b)' \cap 1..k
    BY <1>1, <1>2, <1>7
  <2> QED
    BY <1>0, <1>3, <1>4, <1>5, <2>1, SMTT(30) DEF Exact
<1> QED
  BY <1>6, <1>7

LEMMA UndisturbedReceive ==
  ASSUME CandleInv, Undisturbed, NEW t \in TickRecords, Receive(t)
  PROVE  Undisturbed'
<1> USE CandleFacts DEF CandleInv
<1> SUFFICES ASSUME ~disturbed' PROVE Undisturbed'
  BY DEF Undisturbed
<1>0. PICK n \in Nat : n = Len(ticks)
  BY HandlerFacts
<1>1. InFlight = {} /\ ~disturbed /\ ~overlapped /\ ~overlapped'
  BY DEF Receive, TypeOK, Undisturbed
<1>2. /\ n \in Nat /\ n = Len(ticks) /\ DOMAIN ticks = 1..n /\ ticks' = Append(ticks, t)
      /\ DOMAIN ticks' = 1..n + 1 /\ Len(ticks') = n + 1
      /\ \A i \in 1..n : ticks'[i] = ticks[i]
      /\ ticks'[n + 1] = t
  BY <1>0, HandlerFacts DEF Receive, TypeOK
<1>3. /\ held'[n + 1] = cache /\ pc'[n + 1] = "read"
      /\ \A i \in 1..n : pc'[i] = pc[i]
      /\ UNCHANGED <<cache, rows>>
  BY <1>2, AppendedFunction DEF Receive, TypeOK
<1>4. InFlight' = {n + 1}
  <2>1. InFlight' = {i \in 1..n + 1 : pc'[i] \in UnderWay}
    BY ONLY <1>2 DEF InFlight, UnderWay
  <2>2. \A i \in 1..n : pc[i] \notin UnderWay
    BY ONLY <1>1, <1>2 DEF InFlight
  <2> QED
    BY ONLY <1>2, <1>3, <2>1, <2>2 DEF UnderWay
<1>5. Seen = n /\ Seen' = n
  <2>1. Seen = n
    BY <1>0, <1>1 DEF Seen
  <2>2. \E i \in InFlight' : pc'[i] # "publish"
    BY <1>3, <1>4
  <2>3. Seen' = Len(ticks') - 1
    BY <2>2 DEF Seen
  <2> QED
    BY <1>2, <2>1, <2>3
<1>6. n # 0 => cache # None /\ Exact(cache, ticks[n].bucket, n)'
  <2> SUFFICES ASSUME n # 0 PROVE cache # None /\ Exact(cache, ticks[n].bucket, n)'
    OBVIOUS
  <2>1. n \in 1..n /\ cache # None /\ Exact(cache, ticks[n].bucket, n)
    BY <1>1, <1>2, <1>5 DEF Undisturbed
  <2>2. \A c, b : Exact(c, b, n) => Exact(c, b, n)'
    BY <1>2, <2>1, ExactKept
  <2>3. Exact(cache, ticks[n].bucket, n)'
    BY <1>2, <1>3, <2>1, <2>2
  <2> QED
    BY <2>1, <2>3
<1>7. ASSUME NEW b \in Buckets, rows[b] # None
      PROVE  Exact(rows[b], b, n + 1)'
  <2>1. t.bucket # b /\ n # 0
    <3>1. PICK i \in 1..n : b < ticks[i].bucket
      BY <1>2, <1>7 DEF RowsAreOver
    <3>2. ticks[i].bucket <= ticks[n].bucket /\ ticks[n].bucket <= t.bucket
      <4>1. ticks # <<>> /\ n \in 1..n /\ i <= n
        BY <1>2, <3>1
      <4>2. ticks[i].bucket <= ticks[n].bucket
        BY <1>2, <3>1, <4>1 DEF InOrder
      <4> QED
        BY <1>0, <4>1, <4>2 DEF Receive
    <3>3. ticks[i] \in TickRecords /\ ticks[n] \in TickRecords
      BY <1>2, <3>1, HandlerFacts
    <3> QED
      BY <3>1, <3>2, <3>3
  <2> QED
    <3>1. n \in 1..n /\ Exact(rows[b], b, n)
      BY <1>1, <1>2, <1>7, <2>1 DEF Undisturbed
    <3>2. \A c : Exact(c, b, n) => Exact(c, b, n + 1)'
      BY <1>2, <2>1, <3>1, ExactKept
    <3> QED
      BY <1>3, <3>1, <3>2
<1>8. \A m \in 1..n :
        ticks[m].bucket = ticks[n].bucket \/ rows[ticks[m].bucket] # None
  BY <1>1, <1>5 DEF Undisturbed
<1>9. n = 0 => cache = None
  BY <1>1, <1>5 DEF Undisturbed
<1>10. \A b \in Buckets : rows'[b] # None => Exact(rows[b], b, Len(ticks))'
  BY <1>2, <1>3, <1>7
<1>11. IF Seen' = 0 THEN cache' = None
       ELSE cache' # None /\ Exact(cache, ticks[Seen].bucket, Seen)'
  BY <1>2, <1>3, <1>5, <1>6, <1>9
<1>12. \A m \in 1..Seen' :
         ticks'[m].bucket = ticks'[Seen'].bucket \/ rows'[ticks'[m].bucket] # None
  <2> \A m \in 1..n : m \in 1..n /\ n \in 1..n
    BY <1>2
  <2> QED
    BY <1>2, <1>3, <1>5, <1>8
<1>13. \A i \in InFlight' : held'[i] = cache'
  BY <1>3, <1>4
<1> QED
  BY <1>1, <1>10, <1>11, <1>12, <1>13 DEF Undisturbed

\* The next price is of another minute, ...
LEMMA ExactPassed ==
  ASSUME NEW c, NEW b, NEW n \in Nat \ {0}, Exact(c, b, n - 1), ticks[n].bucket # b
  PROVE  Exact(c, b, n)
<1>1. TicksOf(b) \cap 1..n = TicksOf(b) \cap 1..(n - 1)
  BY DEF TicksOf
<1>2. 1..(n - 1) \subseteq 1..n
  OBVIOUS
<1> QED
  BY <1>1, <1>2 DEF Exact

\* ... is the first of its minute, ...
LEMMA ExactOpened ==
  ASSUME TypeOK, NEW n \in DOMAIN ticks, NEW c \in Candles,
         c.bucket = ticks[n].bucket, c.open = ticks[n].price, c.close = ticks[n].price,
         c.high = ticks[n].price, c.low = ticks[n].price,
         \A m \in 1..(n - 1) : ticks[m].bucket # ticks[n].bucket
  PROVE  Exact(c, ticks[n].bucket, n)
<1>1. n \in Nat /\ n \in 1..n /\ ticks[n].price \in Nat
  <2>1. Prices \subseteq Nat
    BY CandleFacts
  <2>2. ticks[n].price \in Prices
    BY HandlerFacts
  <2>3. n \in 1..Len(ticks) /\ Len(ticks) \in Nat
    BY HandlerFacts
  <2>4. n \in Nat /\ n \in 1..n
    BY ONLY <2>3
  <2>5. ticks[n].price \in Nat
    BY ONLY <2>1, <2>2
  <2> QED
    BY <2>4, <2>5
<1>2. TicksOf(ticks[n].bucket) \cap 1..n = {n}
  <2>1. n \in TicksOf(ticks[n].bucket)
    BY DEF TicksOf
  <2> QED
    BY <1>1, <2>1 DEF TicksOf
<1> QED
  BY <1>1, <1>2 DEF Exact

\* ... or one more of the same minute.
LEMMA ExactUpdated ==
  ASSUME TypeOK, NEW n \in DOMAIN ticks,
         NEW c \in Candles, NEW d \in Candles,
         Exact(c, ticks[n].bucket, n - 1),
         d.bucket = c.bucket, d.open = c.open, d.close = ticks[n].price,
         d.high \in {c.high, ticks[n].price}, d.low \in {c.low, ticks[n].price},
         d.high >= c.high, d.high >= ticks[n].price,
         d.low <= c.low, d.low <= ticks[n].price
  PROVE  Exact(d, ticks[n].bucket, n)
<1> DEFINE b == ticks[n].bucket
           minute == TicksOf(b)
<1>1. PICK first, last, top, bottom \in minute :
        /\ {first, last, top, bottom} \subseteq 1..(n - 1)
        /\ c.open = ticks[first].price /\ c.close = ticks[last].price
        /\ c.high = ticks[top].price /\ c.low = ticks[bottom].price
        /\ \A m \in minute \cap 1..(n - 1) :
             /\ first <= m /\ m <= last
             /\ c.low <= ticks[m].price /\ ticks[m].price <= c.high
  BY DEF Exact
<1>2. c.bucket = b
  BY DEF Exact
<1>3. n \in minute /\ minute \subseteq DOMAIN ticks
  BY DEF TicksOf
<1>4. /\ DOMAIN ticks \subseteq Nat
      /\ \A m \in DOMAIN ticks : ticks[m].price \in Nat
      /\ {c.high, c.low, d.high, d.low} \subseteq Nat
  <2>1. Prices \subseteq Nat
    BY CandleFacts
  <2>2. \A m \in DOMAIN ticks : ticks[m].price \in Prices
    BY HandlerFacts
  <2>3. DOMAIN ticks = 1..Len(ticks) /\ Len(ticks) \in Nat
    BY HandlerFacts
  <2>4. DOMAIN ticks \subseteq Nat
    BY ONLY <2>3
  <2>5. \A m \in DOMAIN ticks : ticks[m].price \in Nat
    BY ONLY <2>1, <2>2
  <2>6. {c.high, c.low, d.high, d.low} \subseteq Nat
    BY CandleFacts
  <2> QED
    BY <2>4, <2>5, <2>6
<1> HIDE DEF minute, b
<1>5. PICK high \in {top, n} : d.high = ticks[high].price
  BY <1>1
<1>6. PICK low \in {bottom, n} : d.low = ticks[low].price
  BY <1>1
<1>7. {first, n, high, low} \subseteq minute \cap 1..n
  BY <1>1, <1>3, <1>4
<1>8. ASSUME NEW m \in minute \cap 1..n
      PROVE  /\ first <= m /\ m <= n
             /\ d.low <= ticks[m].price /\ ticks[m].price <= d.high
  <2>1. CASE m = n
    BY <1>1, <1>3, <1>4, <2>1
  <2>2. CASE m # n
    <3>1. m \in 1..(n - 1) /\ m \in DOMAIN ticks
      BY <1>3, <1>4, <2>2
    <3>2. /\ first <= m
          /\ c.low <= ticks[m].price /\ ticks[m].price <= c.high
      BY <1>1, <3>1
    <3> QED
      BY <1>4, <3>1, <3>2
  <2> QED
    BY <2>1, <2>2
<1>9. {first, n, high, low} \subseteq minute /\ {first, n, high, low} \subseteq 1..n
  BY ONLY <1>7
<1>10. d.bucket = b /\ d.open = ticks[first].price /\ d.close = ticks[n].price
  BY <1>1, <1>2 DEF b
<1>11. \E f, l, t, o \in minute :
        /\ {f, l, t, o} \subseteq 1..n
        /\ d.open = ticks[f].price /\ d.close = ticks[l].price
        /\ d.high = ticks[t].price /\ d.low = ticks[o].price
        /\ \A m \in minute \cap 1..n :
             /\ f <= m /\ m <= l
             /\ d.low <= ticks[m].price /\ ticks[m].price <= d.high
  BY ONLY <1>5, <1>6, <1>8, <1>9, <1>10
<1> QED
  BY ONLY <1>10, <1>11 DEF Exact, minute, b

\* In an undisturbed run the handler is that of the last price.
LEMMA OnlyHandler ==
  ASSUME CandleInv, Undisturbed, ~disturbed, NEW n \in InFlight
  PROVE  /\ InFlight = {n} /\ n = Len(ticks) /\ n \in Nat \ {0} /\ n \in DOMAIN ticks
         /\ Seen = IF pc[n] = "publish" THEN n ELSE n - 1
<1>1. InFlight = {n} /\ n = Len(ticks)
  BY DEF CandleInv, Undisturbed, OneAtATime
<1>2. n \in DOMAIN ticks
  BY DEF InFlight
<1> QED
  BY <1>1, <1>2, HandlerFacts DEF CandleInv, Seen

LEMMA UndisturbedClose ==
  ASSUME CandleInv, Undisturbed, NEW n \in DOMAIN ticks, Close(n)
  PROVE  Undisturbed'
<1> USE DEF CandleInv
<1> SUFFICES ASSUME ~disturbed PROVE Undisturbed'
  BY DEF Undisturbed, Close
<1>1. /\ pc[n] = "read" /\ pc' = [pc EXCEPT ![n] = "persist"]
      /\ UNCHANGED <<ticks, held, cache, rows, complete, overlapped, disturbed>>
  BY DEF Close, Goto
<1>2. /\ n \in InFlight /\ pc'[n] = "persist"
      /\ \A i \in DOMAIN ticks \ {n} : pc'[i] = pc[i]
  BY <1>1 DEF InFlight, UnderWay, TypeOK
<1>3. InFlight = {n} /\ n = Len(ticks) /\ Seen = n - 1
  BY <1>1, <1>2, OnlyHandler
<1>4. InFlight' = {n}
  BY <1>1, <1>2, <1>3 DEF InFlight, UnderWay
<1>5. Seen' = Seen
  BY <1>1, <1>2, <1>3, <1>4 DEF Seen
<1>6. \A e, b, k : Exact(e, b, k)' <=> Exact(e, b, k)
  BY <1>1 DEF Exact, TicksOf
<1> QED
  BY <1>1, <1>3, <1>4, <1>5, <1>6 DEF Undisturbed

LEMMA UndisturbedPersist ==
  ASSUME CandleInv, Undisturbed, NEW n \in DOMAIN ticks, Persist(n)
  PROVE  Undisturbed'
<1> USE CandleFacts DEF CandleInv
<1> SUFFICES ASSUME ~disturbed PROVE Undisturbed'
  BY DEF Undisturbed, Persist
<1>1. /\ pc[n] = "persist" /\ pc' = [pc EXCEPT ![n] = "save"]
      /\ rows' = [rows EXCEPT ![held[n].bucket] = Upserted(rows[held[n].bucket], held[n])]
      /\ UNCHANGED <<ticks, held, sent, cache, complete, overlapped, disturbed>>
  BY DEF Persist, Goto
<1>2. /\ n \in InFlight /\ pc'[n] = "save"
      /\ \A i \in DOMAIN ticks \ {n} : pc'[i] = pc[i]
  BY <1>1 DEF InFlight, UnderWay, TypeOK
<1>3. /\ InFlight = {n} /\ n = Len(ticks) /\ n \in Nat \ {0}
      /\ DOMAIN ticks = 1..n /\ Seen = n - 1
  BY <1>1, <1>2, OnlyHandler, HandlerFacts
<1>4. InFlight' = {n} /\ Seen' = n - 1
  <2>1. InFlight' = {n}
    BY <1>1, <1>2, <1>3 DEF InFlight, UnderWay
  <2> QED
    BY <1>1, <1>2, <1>3, <2>1 DEF Seen
<1>5. PICK candle \in Candles : candle = held[n] /\ candle = cache
  BY <1>1, <1>2, HandlerFacts DEF Undisturbed, Sees, Closes
<1>6. PICK b \in Buckets : b = candle.bucket
  OBVIOUS
<1>7. /\ n - 1 \in 1..(n - 1) /\ Exact(candle, ticks[n - 1].bucket, n - 1)
      /\ ticks[n - 1].bucket = b
  <2>1. cache # None
    BY <1>5, CandleFacts
  <2>2. n - 1 # 0 /\ Exact(candle, ticks[n - 1].bucket, n - 1)
    BY ONLY Undisturbed, ~disturbed, <1>3, <1>5, <2>1 DEF Undisturbed
  <2>3. n - 1 \in 1..(n - 1)
    BY ONLY <1>3, <2>2
  <2>4. ticks[n - 1].bucket = b
    BY ONLY <1>6, <2>2 DEF Exact
  <2> QED
    BY ONLY <2>2, <2>3, <2>4
<1>8. b < ticks[n].bucket /\ ticks[n].bucket # b
  <2>1. Closes(held[n], ticks[n])
    BY <1>1 DEF Sees
  <2>2. ticks[n].bucket \in Buckets
    BY HandlerFacts
  <2> QED
    BY <1>5, <1>6, <2>1, <2>2 DEF Closes
<1>9. Exact(candle, b, n)
  BY <1>3, <1>7, <1>8, ExactPassed
<1>10. rows'[b] = candle
  <2>1. rows[b] = None \/ rows[b] = candle
    BY <1>1, <1>2, <1>5, <1>6 DEF Undisturbed, OneAtATime
  <2>2. Upserted(rows[b], candle) = candle
    BY <2>1, UpsertedFacts
  <2> QED
    BY <1>1, <1>5, <1>6, <2>2 DEF TypeOK
<1>11. \A c, d, k : Exact(c, d, k)' <=> Exact(c, d, k)
  BY <1>1 DEF Exact, TicksOf
<1>12. \A d \in Buckets : d # b => rows'[d] = rows[d]
  BY <1>1, <1>5, <1>6 DEF TypeOK
<1>13. ASSUME NEW d \in Buckets, rows'[d] # None PROVE Exact(rows'[d], d, n)
  BY <1>3, <1>9, <1>10, <1>12, <1>13 DEF Undisturbed
<1>14. ASSUME NEW m \in 1..(n - 1)
       PROVE  ticks[m].bucket = ticks[n - 1].bucket \/ rows'[ticks[m].bucket] # None
  <2>1. ticks[m].bucket = b \/ rows[ticks[m].bucket] # None
    BY <1>3, <1>7 DEF Undisturbed
  <2>2. m \in DOMAIN ticks
    BY ONLY <1>3, m \in 1..(n - 1)
  <2>3. ticks[m].bucket \in Buckets
    BY <2>2, HandlerFacts
  <2> QED
    BY ONLY <1>5, <1>7, <1>10, <1>12, <2>1, <2>3, CandleFacts
<1> QED
  BY <1>1, <1>3, <1>4, <1>5, <1>7, <1>11, <1>13, <1>14 DEF Undisturbed

LEMMA UndisturbedSave ==
  ASSUME CandleInv, Undisturbed, NEW n \in DOMAIN ticks, Save(n)
  PROVE  Undisturbed'
<1> USE CandleFacts DEF CandleInv
<1> SUFFICES ASSUME ~disturbed PROVE Undisturbed'
  BY DEF Undisturbed, Save
<1>1. /\ pc[n] = "save" \/ (pc[n] = "read" /\ ~Closes(held[n], ticks[n]))
      /\ pc' = [pc EXCEPT ![n] = "publish"]
      /\ cache' = Updated(held[n], ticks[n])
      /\ UNCHANGED <<ticks, held, rows, complete, overlapped, disturbed>>
  BY SendsSetFacts DEF Save, Goto
<1>2. /\ n \in InFlight /\ pc'[n] = "publish"
      /\ \A i \in DOMAIN ticks \ {n} : pc'[i] = pc[i]
  BY <1>1 DEF InFlight, UnderWay, TypeOK
<1>3. /\ InFlight = {n} /\ n = Len(ticks) /\ n \in Nat \ {0}
      /\ DOMAIN ticks = 1..n /\ Seen = n - 1
  BY <1>1, <1>2, OnlyHandler, HandlerFacts
<1>4. InFlight' = {n} /\ Seen' = n
  <2>1. InFlight' = {n}
    BY <1>1, <1>2, <1>3 DEF InFlight, UnderWay
  <2> QED
    BY <1>1, <1>2, <1>3, <2>1 DEF Seen
<1>5. PICK t \in TickRecords,
    c \in Candles \cup {None} : t = ticks[n] /\ c = held[n] /\ c = cache
  BY <1>1, <1>2, HandlerFacts DEF Undisturbed
<1>6. PICK d \in Candles : d = Updated(c, t)
  BY UpdatedFacts
<1>7. t.bucket \in Nat /\ \A m \in DOMAIN ticks : ticks[m].bucket \in Nat
  <2>1. \A m \in DOMAIN ticks : ticks[m].bucket \in Buckets
    BY HandlerFacts
  <2> QED
    BY <1>5, <2>1
<1>8. /\ Exact(d, ticks[n].bucket, n)
      /\ \A m \in 1..n : ticks[m].bucket = ticks[n].bucket \/ rows[ticks[m].bucket] # None
  <2>1. CASE n = 1
    <3>1. c = None
      BY <1>3, <1>5, <2>1 DEF Undisturbed
    <3>2. \A m \in 1..(n - 1) : ticks[m].bucket # ticks[n].bucket
      BY <2>1
    <3>3. /\ d.bucket = t.bucket /\ d.open = t.price /\ d.close = t.price
          /\ d.high = t.price /\ d.low = t.price
      BY <1>5, <1>6, <3>1, UpdatedFacts
    <3>4. Exact(d, ticks[n].bucket, n)
      BY <1>5, <3>2, <3>3, ExactOpened
    <3>5. \A m \in 1..n : m = n
      BY <2>1
    <3> QED
      BY <3>4, <3>5
  <2>2. CASE n # 1
    <3>1. n - 1 \in 1..(n - 1) /\ n - 1 \in DOMAIN ticks /\ n \in DOMAIN ticks
      BY <1>3, <2>2
    <3>2. c # None /\ Exact(c, ticks[n - 1].bucket,
    n - 1) /\ c.bucket = ticks[n - 1].bucket
      BY <1>3, <1>5, <3>1 DEF Undisturbed, Exact
    <3>3. \A m \in 1..(n - 1) : ticks[m].bucket = c.bucket \/ rows[ticks[m].bucket] # None
      BY <1>3, <3>1, <3>2 DEF Undisturbed
    <3>4. \A m \in 1..n : m = n \/ m \in 1..(n - 1)
      BY <1>3
    <3>5. CASE Closes(c, t)
      <4>1. c.bucket < t.bucket /\ rows[c.bucket] # None
        BY <1>1, <1>5, <3>5 DEF Sees, Closes
      <4>2. ASSUME NEW m \in 1..(n - 1) PROVE ticks[m].bucket # ticks[n].bucket
        <5>1. m \in DOMAIN ticks /\ m <= n - 1
          BY <1>3
        <5>2. ticks[m].bucket <= c.bucket
          BY <3>1, <3>2, <5>1 DEF InOrder
        <5>3. c.bucket \in Nat /\ ticks[m].bucket \in Nat
          BY <1>7, <3>1, <3>2, <5>1
        <5> QED
          BY <1>5, <1>7, <4>1, <5>2, <5>3
      <4>3. /\ d.bucket = t.bucket /\ d.open = t.price /\ d.close = t.price
            /\ d.high = t.price /\ d.low = t.price
        BY <1>6, <3>5, UpdatedFacts
      <4>4. Exact(d, ticks[n].bucket, n)
        BY <1>5, <4>2, <4>3, ExactOpened
      <4> QED
        BY <3>3, <3>4, <4>1, <4>4
    <3>6. CASE ~Closes(c, t)
      <4>1. c.bucket = ticks[n].bucket
        <5>1. c.bucket \in Nat /\ ~(c.bucket < t.bucket) /\ c.bucket <= t.bucket
          BY <1>5, <1>7, <3>1, <3>2, <3>6 DEF Closes, Sees
        <5> QED
          BY <1>5, <1>7, <5>1
      <4>2. Exact(d, ticks[n].bucket, n)
        <5>1. c \in Candles
          BY <3>2
        <5>2. Exact(c, ticks[n].bucket, n - 1)
          BY <3>2, <4>1
        <5>3. /\ d.bucket = c.bucket /\ d.open = c.open /\ d.close = t.price
              /\ d.high \in {c.high, t.price} /\ d.low \in {c.low, t.price}
              /\ d.high >= c.high /\ d.high >= t.price
              /\ d.low <= c.low /\ d.low <= t.price
          BY <1>6, <3>2, <3>6, UpdatedFacts
        <5> QED
          BY <1>5, <5>1, <5>2, <5>3, ExactUpdated
      <4> QED
        BY <3>3, <3>4, <4>1, <4>2
    <3> QED
      BY <3>5, <3>6
  <2> QED
    BY <2>1, <2>2
<1>9. \A e, b, k : Exact(e, b, k)' <=> Exact(e, b, k)
  BY <1>1 DEF Exact, TicksOf
<1>10. cache' = d /\ d # None
  BY <1>1, <1>5, <1>6
<1> QED
  BY <1>1, <1>2, <1>3, <1>4, <1>8, <1>9, <1>10 DEF Undisturbed

LEMMA UndisturbedPublish ==
  ASSUME CandleInv, Undisturbed, NEW n \in DOMAIN ticks, Publish(n)
  PROVE  Undisturbed'
<1> USE CandleFacts DEF CandleInv
<1> SUFFICES ASSUME ~disturbed PROVE Undisturbed'
  BY DEF Undisturbed, Publish
<1>1. /\ pc[n] = "publish" /\ pc' = [pc EXCEPT ![n] = "done"]
      /\ UNCHANGED <<ticks, held, cache, rows, overlapped, disturbed>>
  BY DEF Publish, Goto
<1>2. n \in InFlight /\ pc'[n] = "done"
      /\ \A i \in DOMAIN ticks \ {n} : pc'[i] = pc[i]
  BY <1>1 DEF InFlight, UnderWay, TypeOK
<1>3. InFlight = {n} /\ n = Len(ticks) /\ Seen = n
  BY <1>1, <1>2, OnlyHandler
<1>4. InFlight' = {}
  BY <1>1, <1>2, <1>3 DEF InFlight, UnderWay
<1>5. Seen' = Seen
  BY <1>1, <1>3, <1>4 DEF Seen
<1>6. \A e, b, k : Exact(e, b, k)' <=> Exact(e, b, k)
  BY <1>1 DEF Exact, TicksOf
<1> QED
  BY <1>1, <1>4, <1>5, <1>6 DEF Undisturbed

LEMMA UndisturbedInductive ==
  CandleInv /\ Undisturbed /\ [Next]_vars => Undisturbed'
<1> SUFFICES ASSUME CandleInv, Undisturbed, [Next]_vars PROVE Undisturbed'
  OBVIOUS
<1>1. CASE UNCHANGED vars
  BY <1>1 DEF vars, Undisturbed, Seen, Exact, TicksOf, InFlight
<1>2. ASSUME NEW b \in Buckets, NEW p \in Prices,
             Receive([bucket |-> b, price |-> p])
      PROVE  Undisturbed'
  <2>1. [bucket |-> b, price |-> p] \in TickRecords
    BY DEF TickRecords
  <2> QED
    BY <1>2, <2>1, UndisturbedReceive
<1>3. CASE (\E n \in DOMAIN ticks : Fail(n)) \/ Restart \/ LoseCache
  BY <1>3 DEF Fail, Restart, LoseCache, Undisturbed
<1> QED
  BY <1>1, <1>2, <1>3, UndisturbedClose, UndisturbedPersist, UndisturbedSave,
     UndisturbedPublish
     DEF Next, Quiescent

\* The least and the greatest of a set of naturals.
LEMMA Extremes ==
  ASSUME NEW S \in SUBSET Nat, NEW x \in S
  PROVE  /\ (\A y \in S : x <= y) => Min(S) = x
         /\ (\A y \in S : y <= x) => Max(S) = x
<1>1. ASSUME \A y \in S : x <= y PROVE Min(S) = x
  <2>1. Min(S) \in S /\ \A y \in S : Min(S) <= y
    BY <1>1 DEF Min
  <2>2. Min(S) <= x /\ x <= Min(S) /\ Min(S) \in Nat /\ x \in Nat
    BY <1>1, <2>1
  <2> QED
    BY ONLY <2>2
<1>2. ASSUME \A y \in S : y <= x PROVE Max(S) = x
  <2>1. \A y \in S : x >= y
    BY <1>2
  <2>2. Max(S) \in S /\ \A y \in S : Max(S) >= y
    BY <2>1 DEF Max
  <2>3. x <= Max(S) /\ Max(S) <= x /\ Max(S) \in Nat /\ x \in Nat
    BY <1>2, <2>2
  <2> QED
    BY ONLY <2>3
<1> QED
  BY <1>1, <1>2

\* There is one candle that is exact for all prices of a minute: the aggregate.
LEMMA ExactIsAggregate ==
  ASSUME TypeOK, NEW b, NEW c \in Candles,
         Exact(c, b, Len(ticks))
  PROVE  c = Aggregate(b)
<1> DEFINE minute == TicksOf(b)
           prices == {ticks[n].price : n \in minute}
<1>1. PICK first, last, top, bottom \in minute :
        /\ c.open = ticks[first].price /\ c.close = ticks[last].price
        /\ c.high = ticks[top].price /\ c.low = ticks[bottom].price
        /\ \A m \in minute \cap 1..Len(ticks) :
             /\ first <= m /\ m <= last
             /\ c.low <= ticks[m].price /\ ticks[m].price <= c.high
  BY DEF Exact
<1>2. minute \subseteq 1..Len(ticks) /\ minute \subseteq Nat /\ prices \subseteq Nat
  <2>1. DOMAIN ticks = 1..Len(ticks) /\ Len(ticks) \in Nat
    BY HandlerFacts
  <2>2. \A m \in DOMAIN ticks : ticks[m].price \in Prices
    BY HandlerFacts
  <2>3. Prices \subseteq Nat
    BY CandleFacts
  <2>4. minute \subseteq DOMAIN ticks
    BY DEF TicksOf
  <2>5. minute \subseteq 1..Len(ticks) /\ minute \subseteq Nat
    BY <2>1, <2>4
  <2>6. prices \subseteq Nat
    <3> HIDE DEF minute
    <3> QED
      BY <2>2, <2>3, <2>4
  <2> QED
    BY <2>5, <2>6
<1>3. /\ c.high \in prices /\ c.low \in prices
      /\ \A p \in prices : c.low <= p /\ p <= c.high
  BY <1>1, <1>2
<1> HIDE DEF minute, prices
<1>4. Min(minute) = first /\ Max(minute) = last
  BY <1>1, <1>2, Extremes
<1>5. Min(prices) = c.low /\ Max(prices) = c.high
  BY <1>2, <1>3, Extremes
<1>6. Aggregate(b) = [bucket |-> b, open |-> c.open, high |-> c.high,
                         low |-> c.low, close |-> c.close]
  BY <1>1, <1>4, <1>5 DEF Aggregate, minute, prices
<1> QED
  BY <1>6 DEF Candles, Exact

\* As long as nothing fails and prices come one at a time, the candles are the
\* aggregates of the prices.
THEOREM CandlesExact ==
  Spec => []ExactUnlessDisturbed
<1>1. CandleInv /\ Undisturbed => ExactUnlessDisturbed
  <2> SUFFICES ASSUME CandleInv, Undisturbed, ~disturbed, InFlight = {}
               PROVE  /\ \A b \in Buckets : rows[b] # None => rows[b] = Aggregate(b)
                      /\ cache # None => cache = Aggregate(cache.bucket)
                      /\ \A b \in Buckets :
                           TicksOf(b) # {} => rows[b] # None \/ cache.bucket = b
    BY DEF ExactUnlessDisturbed
  <2> USE DEF CandleInv
  <2>1. /\ Seen = Len(ticks) /\ Len(ticks) \in Nat /\ DOMAIN ticks = 1..Len(ticks)
    BY HandlerFacts DEF Seen
  <2>2. ASSUME NEW b \in Buckets, rows[b] # None PROVE rows[b] = Aggregate(b)
    BY <2>2, ExactIsAggregate DEF Undisturbed, TypeOK
  <2>3. ASSUME Len(ticks) # 0
        PROVE  /\ cache # None /\ Exact(cache, cache.bucket, Len(ticks))
               /\ cache.bucket = ticks[Len(ticks)].bucket
    BY <2>1, <2>3 DEF Undisturbed, Exact
  <2>4. ASSUME cache # None PROVE cache = Aggregate(cache.bucket)
    BY <2>1, <2>3, <2>4, ExactIsAggregate DEF Undisturbed, TypeOK
  <2>5. ASSUME NEW b \in Buckets, TicksOf(b) # {}
        PROVE  rows[b] # None \/ cache.bucket = b
    <3>1. PICK m \in 1..Len(ticks) : ticks[m].bucket = b
      BY <2>1, <2>5 DEF TicksOf
    <3> QED
      BY <2>1, <2>3, <3>1 DEF Undisturbed
  <2> QED
    BY <2>2, <2>4, <2>5
<1>2. Init => CandleInv /\ Undisturbed
  BY CandleInit, UndisturbedInit
<1>3. CandleInv /\ Undisturbed /\ [Next]_vars => (CandleInv /\ Undisturbed)'
  BY CandleInductive, UndisturbedInductive
<1> QED
  BY <1>1, <1>2, <1>3, PTL DEF Spec

-----------------------------------------------------------------------------
(* The price in Redis and who reads it *)

\* The pair in Redis is one price and its own time: the two SETs are a MULTI.
PairIsWhole == price = stamp

\* What a call holds was a pair, too, unless a price was stored between.
HeldIsPair ==
  /\ call = "stamp" => got = price \/ torn
  /\ call = "check" => got = seen \/ torn

\* Prices get younger on their way: what is stored is not older than what it
\* replaces, what is announced is stored.
PassedOnInOrder ==
  /\ worker = "storing" /\ price # Absent => fetched <= price
  /\ worker = "publishing" => price \in 0..fetched
  /\ announced # Absent => price \in 0..announced

\* A call that runs gets nothing older than `since`, which was there before it.
NotOlderThan(since) ==
  since # Absent =>
    /\ call \in Running => price \in 0..since
    /\ call \in {"stamp", "check"} => got \in 0..since
    /\ call = "check" => seen \in 0..since
    /\ call = "served" => got \in 0..since

PriceInv ==
  /\ FeedTypeOK
  /\ PairIsWhole
  /\ HeldIsPair
  /\ PassedOnInOrder
  /\ NotOlderThan(before.price)
  /\ NotOlderThan(before.announced)
  /\ StaleIsNotServed
  /\ FreshIsServed

\* The steps of a call up to its answer, ...
Reads == (\E a \in Askers : Call(a)) \/ GetPriceKey \/ GetTimestampKey \/ CallFails

\* ... and the answers.
Replies ==
  \/ Answer
  \/ asker = "getPriceHandler" /\ Quote("unavailable")
  \/ asker \in Lists /\ Quote("unlisted")

\* The steps of the specification, grouped.
LEMMA CallSteps ==
  [FeedNext]_feedVars =>
    \/ Start \/ Stop \/ Wake \/ Fetch \/ Store \/ PublishPrice \/ RoundFails
    \/ Reads
    \/ Replies
    \/ RedisRestarts
    \/ Tick
    \/ UNCHANGED feedVars
  BY DEF FeedNext, Round, Reads, Replies, Lists, getPriceHandler, getAllPricesHandler,
         getMarketStatusHandler

\* The first state.
LEMMA PriceInit ==
  FeedInit => PriceInv
<1> SUFFICES ASSUME FeedInit PROVE PriceInv
  OBVIOUS
<1> USE FeedAssumption DEF FeedAssumption, FeedInit, Absent, Ages, MaybeAges, Old,
            Running, Answers, Askers, Lists
<1>1. FeedTypeOK
  <2>1. torn \in BOOLEAN
    OBVIOUS
  <2> QED
    BY <2>1 DEF FeedTypeOK
<1>2. PairIsWhole /\ HeldIsPair /\ PassedOnInOrder
  BY DEF PairIsWhole, HeldIsPair, PassedOnInOrder
<1>3. NotOlderThan(before.price) /\ NotOlderThan(before.announced)
  BY DEF NotOlderThan
<1>4. StaleIsNotServed /\ FreshIsServed
  BY DEF StaleIsNotServed, FreshIsServed
<1> QED
  BY <1>1, <1>2, <1>3, <1>4 DEF PriceInv

\* Every variable keeps its type.
LEMMA TypeStep ==
  FeedTypeOK /\ [FeedNext]_feedVars => FeedTypeOK'
<1> SUFFICES ASSUME FeedTypeOK, [FeedNext]_feedVars PROVE FeedTypeOK'
  OBVIOUS
<1> USE FeedAssumption DEF FeedAssumption, FeedTypeOK, Absent, Ages, MaybeAges, Old,
                        Running, Answers, feed,
        redis, reader, terms, Askers, Lists
<1>1. CASE Start \/ Stop \/ Wake \/ Fetch \/ Store \/ PublishPrice \/ RoundFails
  <2>1. torn' \in BOOLEAN
    BY <1>1 DEF Start, Stop, Wake, Fetch, Store, PublishPrice, RoundFails
  <2> QED
    BY <1>1, <2>1 DEF Start, Stop, Wake, Fetch, Store, PublishPrice, RoundFails
<1>2. CASE Reads
  <2>1. torn' \in BOOLEAN
    BY <1>2 DEF Reads, Call, GetPriceKey, GetTimestampKey, CallFails
  <2> QED
    BY <1>2, <2>1 DEF Reads, Call, GetPriceKey, GetTimestampKey, CallFails
<1>6. CASE Replies
  <2>1. torn' \in BOOLEAN
    BY <1>6 DEF Replies, Answer, Quote
  <2> QED
    BY <1>6, <2>1 DEF Replies, Answer, Quote, getPriceWithMetadata, ageMs
<1>3. CASE RedisRestarts
  BY <1>3 DEF RedisRestarts
<1>4. CASE Tick
  BY <1>4 DEF Tick, Older
<1>5. CASE UNCHANGED feedVars
  BY <1>5 DEF feedVars
<1> QED
  BY <1>1, <1>2, <1>3, <1>4, <1>5, <1>6, CallSteps

\* The pair in Redis, and what is on its way to the browsers, stay in order.
LEMMA FeedStep ==
  FeedTypeOK /\ PairIsWhole /\ PassedOnInOrder /\ [FeedNext]_feedVars
           => PairIsWhole' /\ PassedOnInOrder'
<1> SUFFICES ASSUME FeedTypeOK, PairIsWhole, PassedOnInOrder, [FeedNext]_feedVars
             PROVE  PairIsWhole' /\ PassedOnInOrder'
  OBVIOUS
<1> USE FeedAssumption DEF FeedAssumption, FeedTypeOK, PairIsWhole, PassedOnInOrder,
                        Absent, Ages,
        MaybeAges, Old, feed, redis, reader, terms,
        Askers, Lists
<1>1. CASE Start \/ Stop \/ Wake \/ Fetch \/ RoundFails
  BY <1>1 DEF Start, Stop, Wake, Fetch, RoundFails
<1>2. CASE Store
  BY <1>2 DEF Store
<1>3. CASE PublishPrice
  BY <1>3 DEF PublishPrice
<1>4. CASE Reads \/ Replies
  BY <1>4 DEF Reads, Call, GetPriceKey, GetTimestampKey, CallFails, Replies, Answer, Quote
<1>5. CASE RedisRestarts
  BY <1>5 DEF RedisRestarts
<1>6. CASE Tick
  BY <1>6 DEF Tick, Older
<1>7. CASE UNCHANGED feedVars
  BY <1>7 DEF feedVars
<1> QED
  BY <1>1, <1>2, <1>3, <1>4, <1>5, <1>6, <1>7, CallSteps

\* The price and the time in the hands of a call stay a pair until it answers,
\* and then the age of the one is the age of the other.
LEMMA PairStep ==
  FeedTypeOK /\ PairIsWhole /\ HeldIsPair /\ StaleIsNotServed /\ [FeedNext]_feedVars
           => HeldIsPair' /\ StaleIsNotServed'
<1> SUFFICES ASSUME FeedTypeOK, PairIsWhole, HeldIsPair, StaleIsNotServed,
    [FeedNext]_feedVars
             PROVE  HeldIsPair' /\ StaleIsNotServed'
  OBVIOUS
<1> USE FeedAssumption DEF FeedAssumption, FeedTypeOK, PairIsWhole, HeldIsPair,
                        StaleIsNotServed, Absent,
        Ages, MaybeAges, Old, Running, feed, redis, reader, terms,
        Askers, Lists
<1>1. CASE Start \/ Stop \/ Wake \/ Fetch \/ Store \/ PublishPrice \/ RoundFails
  BY <1>1 DEF Start, Stop, Wake, Fetch, Store, PublishPrice, RoundFails
<1>2. CASE Reads
  BY <1>2 DEF Reads, Call, GetPriceKey, GetTimestampKey, CallFails
<1>3. CASE Replies
  BY <1>3 DEF Replies, Answer, Quote, getPriceWithMetadata, ageMs
<1>4. CASE RedisRestarts
  BY <1>4 DEF RedisRestarts
<1>5. CASE Tick
  BY <1>5 DEF Tick, Older
<1>6. CASE UNCHANGED feedVars
  BY <1>6 DEF feedVars
<1> QED
  BY <1>1, <1>2, <1>3, <1>4, <1>5, <1>6, CallSteps

\* What a call gets is not older than what was there before it: the price that
\* was in Redis, and the price that had been announced.
LEMMA AgeStep ==
  (/\ FeedTypeOK /\ PairIsWhole /\ PassedOnInOrder
          /\ NotOlderThan(before.price) /\ NotOlderThan(before.announced)
          /\ [FeedNext]_feedVars)
         => NotOlderThan(before.price)' /\ NotOlderThan(before.announced)'
<1> SUFFICES ASSUME FeedTypeOK, PairIsWhole, PassedOnInOrder, NotOlderThan(before.price),
                    NotOlderThan(before.announced), [FeedNext]_feedVars
             PROVE  NotOlderThan(before.price)' /\ NotOlderThan(before.announced)'
  OBVIOUS
<1> USE FeedAssumption DEF FeedAssumption, FeedTypeOK, PairIsWhole, PassedOnInOrder,
                        NotOlderThan, Absent,
        Ages, MaybeAges, Old, Running, feed, redis, reader, terms,
        Askers, Lists
<1>1. CASE Start \/ Stop \/ Wake \/ Fetch \/ PublishPrice \/ RoundFails
  BY <1>1 DEF Start, Stop, Wake, Fetch, PublishPrice, RoundFails
<1>2. CASE Store
  BY <1>2 DEF Store
<1>3. CASE \E a \in Askers : Call(a)
  BY <1>3 DEF Call
<1>4. CASE GetPriceKey \/ GetTimestampKey \/ CallFails
  BY <1>4 DEF GetPriceKey, GetTimestampKey, CallFails
<1>5. CASE Replies
  BY <1>5 DEF Replies, Answer, Quote, getPriceWithMetadata, ageMs
<1>6. CASE RedisRestarts
  BY <1>6 DEF RedisRestarts
<1>7. CASE Tick
  BY <1>7 DEF Tick, Older
<1>8. CASE UNCHANGED feedVars
  BY <1>8 DEF feedVars
<1> QED
  BY <1>1, <1>2, <1>3, <1>4, <1>5, <1>6, <1>7, <1>8, CallSteps DEF Reads

\* What is refused was refused for what was there before the call.
LEMMA RefusalStep ==
  FeedTypeOK /\ NotOlderThan(before.price) /\ FreshIsServed /\ [FeedNext]_feedVars
           => FreshIsServed'
<1> SUFFICES ASSUME FeedTypeOK, NotOlderThan(before.price), FreshIsServed,
    [FeedNext]_feedVars
             PROVE  FreshIsServed'
  OBVIOUS
<1> USE FeedAssumption DEF FeedAssumption, FeedTypeOK, NotOlderThan, FreshIsServed,
                        Absent, Ages, MaybeAges,
        Old, Running, feed, redis, reader, terms,
        Askers, Lists
<1>1. CASE Start \/ Stop \/ Wake \/ Fetch \/ Store \/ PublishPrice \/ RoundFails
  BY <1>1 DEF Start, Stop, Wake, Fetch, Store, PublishPrice, RoundFails
<1>2. CASE Reads
  BY <1>2 DEF Reads, Call, GetPriceKey, GetTimestampKey, CallFails
<1>3. CASE Replies
  BY <1>3 DEF Replies, Answer, Quote, getPriceWithMetadata, ageMs
<1>4. CASE RedisRestarts
  BY <1>4 DEF RedisRestarts
<1>5. CASE Tick
  BY <1>5 DEF Tick, Older
<1>6. CASE UNCHANGED feedVars
  BY <1>6 DEF feedVars
<1> QED
  BY <1>1, <1>2, <1>3, <1>4, <1>5, <1>6, CallSteps

\* PriceInv holds in every state.
THEOREM PriceInvariance == FeedSpec => []PriceInv
<1>1. PriceInv /\ [FeedNext]_feedVars => PriceInv'
  BY TypeStep, FeedStep, PairStep, AgeStep, RefusalStep DEF PriceInv
<1> QED
  BY PriceInit, <1>1, PTL DEF FeedSpec

\* Every variable keeps its type.
THEOREM TypeCorrect == FeedSpec => []FeedTypeOK
  BY PriceInvariance, PTL DEF PriceInv

\* getPrice (getPrice.ts:43-53): a price beyond the threshold is not served,
\* unless a new one is stored between the two GETs.
THEOREM NoStalePrice == FeedSpec => []StaleIsNotServed
  BY PriceInvariance, PTL DEF PriceInv

\* getPrice: a price that was there and is still young enough is not refused.
THEOREM NoNeedlessRefusal == FeedSpec => []FreshIsServed
  BY PriceInvariance, PTL DEF PriceInv

\* updateSolPrice and getPrice together: who has seen a price announced gets
\* that one or a younger one.
THEOREM AnnouncedFirstServedLater == FeedSpec => []NeverOlderThanAnnounced
<1>1. PriceInv => NeverOlderThanAnnounced
  BY DEF PriceInv, FeedTypeOK, NotOlderThan, NeverOlderThanAnnounced, Ages, MaybeAges,
         Absent
<1> QED
  BY PriceInvariance, <1>1, PTL
=============================================================================

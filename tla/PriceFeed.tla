------------------------------ MODULE PriceFeed ------------------------------
(***************************************************************************)
(* The price of SOL: the loop of workers/price-ingestion, which fetches    *)
(* it, stores it in Redis together with the time (packages/pricing,        *)
(* setPrice) and then announces it to the browsers; and one call of        *)
(* getPrice or getPriceWithMetadata, which take the pair with two GETs and *)
(* check the age: for an order, or for one of the market endpoints of the  *)
(* API.  Calls change nothing, so one stands for all.                      *)
(*                                                                         *)
(* Of a price only its age matters, in ticks, since the worker had it;     *)
(* beyond the threshold all ages are the same (Old).                       *)
(***************************************************************************)
EXTENDS Integers

CONSTANTS
  Threshold,  \* PRICE_STALE_THRESHOLD_MS, in ticks
  Interval    \* PRICE_UPDATE_INTERVAL_MS, in ticks

ASSUME FeedAssumption == Threshold \in Nat /\ Interval \in Nat

VARIABLES
  worker,     \* where the loop is, or "stopped"
  wait,       \* ticks until its timer fires
  fetched,    \* the price the worker is passing on
  price,      \* the key trading:price:SOL
  stamp,      \* the key trading:price:SOL:ts
  announced,  \* the last price announced, as long as Redis has not restarted
  asker,      \* for whom the pair is read
  call,       \* where the call is, or its answer
  got,        \* the price it got
  seen,       \* the time it got
  quoted,     \* the age a market endpoint gives with the price
  before,     \* when it was called: the price in Redis, and the one announced
  torn        \* was a price stored between its two GETs?

feed == <<worker, wait, fetched>>
redis == <<price, stamp>>
terms == <<asker, quoted>>
reader == <<call, got, seen, before, torn, terms>>
feedVars == <<feed, redis, announced, reader>>

Absent == -1

Old == Threshold + 1

Ages == 0..Old

MaybeAges == Ages \cup {Absent}

Running == {"price", "stamp", "check"}

\* getPriceWithMetadata does not tell missing from stale (unavailable), and the
\* lists of markets tell neither from a failure (unlisted).
Answers == {"served", "missing", "stale", "unavailable", "unlisted", "error"}

Lists == {"getAllPricesHandler", "getMarketStatusHandler"}

Askers == {"getPrice", "getPriceHandler"} \cup Lists

FeedTypeOK ==
  /\ worker \in {"asleep", "fetching", "storing", "publishing", "stopped"}
  /\ wait \in 0..Interval
  /\ fetched \in Ages
  /\ price \in MaybeAges /\ stamp \in MaybeAges /\ announced \in MaybeAges
  /\ got \in MaybeAges /\ seen \in MaybeAges
  /\ call \in {"idle"} \cup Running \cup Answers
  /\ asker \in Askers
  /\ quoted \in MaybeAges
  /\ before \in [price : MaybeAges, announced : MaybeAges]
  /\ torn \in BOOLEAN

FeedInit ==
  /\ worker = "stopped"
  /\ wait = 0
  /\ fetched = 0
  /\ price = Absent /\ stamp = Absent
  /\ announced = Absent
  /\ call = "idle" /\ asker = "getPrice"
  /\ quoted = Absent
  /\ got = Absent /\ seen = Absent
  /\ before = [price |-> Absent, announced |-> Absent]
  /\ torn = FALSE

-----------------------------------------------------------------------------
(* The ingestion loop *)

\* main: Redis is there, and the loop begins at once.
Start ==
  /\ worker = "stopped"
  /\ worker' = "fetching"
  /\ UNCHANGED <<wait, fetched, redis, announced, reader>>

\* A signal or a crash, anywhere.
Stop ==
  /\ worker # "stopped"
  /\ worker' = "stopped"
  /\ wait' = 0
  /\ UNCHANGED <<fetched, redis, announced, reader>>

\* The timer of the last round fires.
Wake ==
  /\ worker = "asleep"
  /\ wait = 0
  /\ worker' = "fetching"
  /\ UNCHANGED <<wait, fetched, redis, announced, reader>>

\* Variant: the browsers are told first.
FetchAndAnnounce ==
  /\ worker = "fetching"
  /\ fetched' = 0
  /\ announced' = 0
  /\ worker' = "storing"
  /\ UNCHANGED <<wait, redis, reader>>

\* A valid price arrives; setPrice takes the time before it is awaited.
Fetch ==
  /\ worker = "fetching"
  /\ fetched' = 0
  /\ worker' = "storing"
  /\ UNCHANGED <<wait, redis, announced, reader>>

\* Variant: the two keys are deleted before they are written.
ReplaceKeys ==
  /\ worker = "storing"
  /\ IF price = Absent
       THEN price' = fetched /\ stamp' = fetched /\ worker' = "publishing"
       ELSE price' = Absent /\ stamp' = Absent /\ worker' = "storing"
  /\ torn' = (torn \/ call = "stamp")
  /\ UNCHANGED <<wait, fetched, announced, call, got, seen, before, terms>>

\* MULTI, SET, SET, EXEC: executed now or, when Redis was away, late.
Store ==
  /\ worker = "storing"
  /\ price' = fetched
  /\ stamp' = fetched
  /\ torn' = (torn \/ call = "stamp")
  /\ worker' = "publishing"
  /\ UNCHANGED <<wait, fetched, announced, call, got, seen, before, terms>>

\* publishPriceUpdate, and the next round is due in ten seconds.
PublishPrice ==
  /\ worker = "publishing"
  /\ announced' = fetched
  /\ worker' = "asleep"
  /\ wait' = Interval
  /\ UNCHANGED <<fetched, redis, reader>>

\* Variant: only a round that went well sets the timer.
FailForGood ==
  /\ worker \in {"fetching", "storing", "publishing"}
  /\ worker' = "failed"
  /\ UNCHANGED <<wait, fetched, redis, announced, reader>>

\* Pyth does not answer, its answer has no price or one that validatePrice
\* refuses, or Redis fails: logged, and the timer is set all the same.
RoundFails ==
  /\ worker \in {"fetching", "storing", "publishing"}
  /\ worker' = "asleep"
  /\ wait' = Interval
  /\ UNCHANGED <<fetched, redis, announced, reader>>

-----------------------------------------------------------------------------
(* getPrice and getPriceWithMetadata *)

Call(a) ==
  /\ call \notin Running
  /\ asker' = a
  /\ call' = "price"
  /\ quoted' = Absent
  /\ got' = Absent /\ seen' = Absent
  /\ before' = [price |-> price, announced |-> announced]
  /\ torn' = FALSE
  /\ UNCHANGED <<feed, redis, announced>>

\* The GETs are sent together, on one connection; Redis may serve others
\* between them.
GetPriceKey ==
  /\ call = "price"
  /\ got' = price
  /\ call' = "stamp"
  /\ UNCHANGED <<feed, redis, announced, seen, before, torn, terms>>

GetTimestampKey ==
  /\ call = "stamp"
  /\ seen' = stamp
  /\ call' = "check"
  /\ UNCHANGED <<feed, redis, announced, got, before, torn, terms>>

\* Variant: the limit is not compared with the age.
AnswerAnyAge ==
  /\ asker = "getPrice" /\ call = "check"
  /\ call' = IF got = Absent THEN "missing" ELSE "served"
  /\ UNCHANGED <<feed, redis, announced, got, seen, before, torn, terms>>

\* getPrice.  Without a time there is no limit.
Answer ==
  /\ asker = "getPrice" /\ call = "check"
  /\ \/ got = Absent /\ call' = "missing"
     \/ got # Absent /\ seen > Threshold /\ call' = "stale"
     \/ got # Absent /\ seen <= Threshold /\ call' = "served"
  /\ UNCHANGED <<feed, redis, announced, got, seen, before, torn, terms>>

\* A price without a time counts as one of this moment.
ageMs == IF seen = Absent THEN 0 ELSE seen

\* The age of the price it returns; Absent stands for null.
getPriceWithMetadata == IF got = Absent \/ ageMs > Threshold THEN Absent ELSE ageMs

\* A market endpoint answers: the price and its age, or that there is none.
Quote(none) ==
  /\ call = "check"
  /\ quoted' = getPriceWithMetadata
  /\ call' = IF getPriceWithMetadata = Absent THEN none ELSE "served"
  /\ UNCHANGED <<feed, redis, announced, asker, got, seen, before, torn>>

\* 200 or 503
getPriceHandler == asker = "getPriceHandler" /\ Quote("unavailable")

\* An entry for each symbol, available or not.
getAllPricesHandler == asker = "getAllPricesHandler" /\ Quote("unlisted")

\* The same without the price; healthy when every symbol is available.
getMarketStatusHandler == asker = "getMarketStatusHandler" /\ Quote("unlisted")

\* Redis fails, in either function: both throw, and only the lists catch it for
\* each symbol.
CallFails ==
  /\ call \in Running
  /\ call' = IF asker \in Lists THEN "unlisted" ELSE "error"
  /\ UNCHANGED <<feed, redis, announced, got, seen, before, torn, terms>>

-----------------------------------------------------------------------------
(* The surroundings *)

\* Redis restarts from its last snapshot or empty: an older pair, or none.  Who
\* waits for a reply of a command it has sent gets an error.
RedisRestarts ==
  /\ \E snapshot \in {Absent} \cup (IF price = Absent THEN {} ELSE price..Old) :
       price' = snapshot /\ stamp' = snapshot
  /\ announced' = Absent
  /\ before' = [price |-> Absent, announced |-> Absent]
  /\ call' = IF call # "stamp" THEN call
             ELSE IF asker \in Lists THEN "unlisted" ELSE "error"
  /\ IF worker = "publishing"
       THEN worker' = "asleep" /\ wait' = Interval
       ELSE UNCHANGED <<worker, wait>>
  /\ UNCHANGED <<fetched, got, seen, torn, terms>>

Older(age) ==
  IF age \in 0..Threshold THEN age + 1 ELSE age

\* Time passes; what has been answered stays as it was.
Tick ==
  /\ wait' = IF wait > 0 THEN wait - 1 ELSE 0
  /\ fetched' = Older(fetched)
  /\ price' = Older(price)
  /\ stamp' = Older(stamp)
  /\ announced' = Older(announced)
  /\ IF call \in Running
       THEN /\ got' = Older(got)
            /\ seen' = Older(seen)
            /\ before' = [price |-> Older(before.price),
                          announced |-> Older(before.announced)]
       ELSE UNCHANGED <<got, seen, before>>
  /\ UNCHANGED <<worker, call, torn, terms>>

Round == Wake \/ Fetch \/ Store \/ PublishPrice \/ RoundFails

FeedNext ==
  \/ Start
  \/ Stop
  \/ Round
  \/ \E a \in Askers : Call(a)
  \/ GetPriceKey
  \/ GetTimestampKey
  \/ Answer
  \/ getPriceHandler
  \/ getAllPricesHandler
  \/ getMarketStatusHandler
  \/ CallFails
  \/ RedisRestarts
  \/ Tick

FeedSpec == FeedInit /\ [][FeedNext]_feedVars

\* The container is started again, every step of a round ends, well or not, and
\* time passes.
FairFeedSpec ==
  /\ FeedSpec
  /\ WF_feedVars(Start)
  /\ WF_feedVars(Round)
  /\ WF_feedVars(Tick)

-----------------------------------------------------------------------------
\* No order is executed and no page shown at a price from before the threshold,
\* whatever became of the worker, and the age a page is told is that price's
\* own, unless a new one is stored exactly between the two GETs: then the old
\* price is judged, and dated, by the new time.
StaleIsNotServed ==
  call = "served" =>
    \/ got \in 0..Threshold /\ (asker # "getPrice" => quoted = got)
    \/ torn

\* A price that was there when it was asked for, and is young enough at the
\* answer, is served: no write of the worker makes it look missing or stale.
FreshIsServed ==
  call \in {"missing", "stale", "unavailable"} => before.price \notin 0..Threshold

\* Every variable has its type, and
\* a browser that has been told a price and then orders does not get an older
\* one, though the channel and the key are written separately and the worker
\* may die between the two.
NeverOlderThanAnnounced ==
  /\ FeedTypeOK
  /\ (call = "served" /\ before.announced # Absent) => got <= before.announced

\* "The loop continues even on errors (resilient)"
\* (workers/price-ingestion/src/index.ts:17).
KeepsFetching == []<>(worker = "fetching")
=============================================================================

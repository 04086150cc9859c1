------------------------------ MODULE PriceChart ------------------------------
(***************************************************************************)
(* The price chart of the trade page (price-chart.tsx), the route of the   *)
(* web application it fetches from (api/market/candles/route.ts), and the  *)
(* endpoint behind that (controllers/candles.ts), which reads the rows and *)
(* the live candle one after the other while the candle worker goes on.    *)
(* Time is counted in candle intervals; a fetched candle has one price,    *)
(* since how it came by its values is CandleWorker's matter.  Sizes,       *)
(* colours and scrolling are left out.                                     *)
(***************************************************************************)
EXTENDS Integers, Sequences, FiniteSets, SequencesExt

CONSTANTS
  Prices,
  MaxHistory,  \* MAX_HISTORY_CANDLES, and the limit of the query
  MaxSkew,     \* by how many minutes the browser's clock may be off
  NoSeries,    \* there is no chart
  LastMinute   \* bound: the clock stops here

ASSUME ChartAssumption ==
  /\ Prices \subseteq Nat \ {0} /\ Prices # {}
  /\ MaxHistory \in Nat \ {0} /\ LastMinute \in Nat /\ MaxSkew \in Nat

VARIABLES
  minute,     \* the time on the server
  skew,       \* the browser's clock minus the server's
  \* the server
  rows,       \* candles in Postgres
  current,    \* the start of the live candle in Redis, or None
  cached,     \* the answer the route's cache has kept, or NoAnswer
  \* the request under way
  fetch,      \* "none", "asked", "read", or "answered"
  answer,     \* what it has brought so far: rows, live candle
  \* the component
  mounted,
  retry,      \* the timer of the next attempt is set
  isLoading,
  chartType,
  history,    \* priceHistoryRef
  series,     \* what has been given to the chart, or NoSeries
  price       \* the price in the store, 0 if there is none

feed == <<minute, skew, rows, current>>

request == <<cached, fetch, answer>>

drawing == <<chartType, history, series>>

chartVars == <<feed, request, mounted, retry, isLoading, drawing, price>>

Minutes == 0..LastMinute

None == -1

NoAnswer == [rows |-> {}, current |-> None]

Lookups == [rows : SUBSET Minutes, current : Minutes \cup {None}]

\* Math.floor(Date.now() / 60000) in the browser.
LocalMinute == minute + skew

LocalMinutes == -MaxSkew..(LastMinute + MaxSkew)

Candles == [time : LocalMinutes, high : Prices, low : Prices, close : Prices]

\* The bar a candle becomes on the two kinds of chart (convertToAreaData).
Bar(type, c) ==
  IF type = "area" THEN [time |-> c.time, value |-> c.close] ELSE c

Bars(type, candles) == [i \in DOMAIN candles |-> Bar(type, candles[i])]

ChartTypeOK ==
  /\ minute \in Minutes /\ skew \in -MaxSkew..MaxSkew
  /\ rows \subseteq Minutes /\ current \in Minutes \cup {None}
  /\ {cached, answer} \subseteq Lookups
  /\ fetch \in {"none", "asked", "read", "answered"}
  /\ {mounted, retry, isLoading} \subseteq BOOLEAN
  /\ chartType \in {"area", "candlestick"}
  /\ history \in Seq(Candles) /\ Len(history) <= MaxHistory
  /\ price \in Prices \cup {0}

\* The store has nothing, or what localStorage kept of an earlier visit.
ChartInit ==
  /\ minute = 0 /\ skew \in -MaxSkew..MaxSkew /\ rows = {} /\ current = None
  /\ cached = NoAnswer
  /\ fetch = "asked" /\ answer = NoAnswer
  /\ mounted = TRUE /\ retry = FALSE /\ isLoading = TRUE
  /\ chartType = "area" /\ history = <<>> /\ series = NoSeries
  /\ price \in Prices \cup {0}

-----------------------------------------------------------------------------
(* The server *)

Clock ==
  /\ minute < LastMinute
  /\ minute' = minute + 1
  /\ UNCHANGED <<skew, rows, current, request, mounted, retry, isLoading, drawing, price>>

\* The worker's processPriceTick: the closed candle is persisted, then the
\* cache moves on.
Persist ==
  /\ current # None
  /\ current < minute
  /\ current \notin rows
  /\ rows' = rows \cup {current}
  /\ UNCHANGED <<minute, skew, current, request, mounted, retry, isLoading, drawing, price>>

MoveOn ==
  /\ current # minute
  /\ current = None \/ current \in rows
  /\ current' = minute
  /\ UNCHANGED <<minute, skew, rows, request, mounted, retry, isLoading, drawing, price>>

\* Redis loses the live candle: its minute will have no row.
LoseCache ==
  /\ current # None
  /\ current' = None
  /\ UNCHANGED <<minute, skew, rows, request, mounted, retry, isLoading, drawing, price>>

\* The newest MaxHistory of a set of minutes.
Newest(minutes) ==
  {m \in minutes : Cardinality({k \in minutes : k >= m}) <= MaxHistory}

\* Oldest first, as getLatestCandles returns them: the i-th of them is the one
\* with i that are not younger than it.
Nth(minutes, i) ==
  CHOOSE m \in minutes : Cardinality({k \in minutes : k <= m}) = i

InOrder(minutes) == [i \in 1..Cardinality(minutes) |-> Nth(minutes, i)]

\* getLatestCandles, the first await of getCandlesHandler.
ReadRows ==
  /\ fetch = "asked"
  /\ fetch' = "read"
  /\ answer' = [rows |-> Newest(rows), current |-> None]
  /\ UNCHANGED <<feed, cached, mounted, retry, isLoading, drawing, price>>

\* getCurrentCandle, the second; the route keeps the answer for a while.
ReadCurrent ==
  /\ fetch = "read"
  /\ fetch' = "answered"
  /\ answer' = [answer EXCEPT !.current = current]
  /\ cached' = answer'
  /\ UNCHANGED <<feed, mounted, retry, isLoading, drawing, price>>

\* The route answers from its cache, which is renewed behind its back.
FromCache ==
  /\ fetch = "asked"
  /\ cached # NoAnswer
  /\ fetch' = "answered"
  /\ answer' = cached
  /\ UNCHANGED <<feed, cached, mounted, retry, isLoading, drawing, price>>

\* The API fails: the route answers with the empty payload and status 200.
UpstreamFails ==
  /\ fetch \in {"asked", "read"}
  /\ fetch' = "answered"
  /\ answer' = NoAnswer
  /\ UNCHANGED <<feed, cached, mounted, retry, isLoading, drawing, price>>
-----------------------------------------------------------------------------
(* The component *)

\* Variant: the live candle is added without looking.
FetchedTwice(p) ==
  LET OfOnePrice(m) == [time |-> m, high |-> p, low |-> p, close |-> p]
      closed == InOrder(answer.rows)
      times == IF answer.current = None THEN closed
               ELSE Append(closed, answer.current)
  IN [i \in DOMAIN times |-> OfOnePrice(times[i])]

\* fetchCandles: the rows, and the live candle unless it is one of them.
Fetched(p) ==
  LET OfOnePrice(m) == [time |-> m, high |-> p, low |-> p, close |-> p]
      closed == InOrder(answer.rows)
      times == IF answer.current \in answer.rows \cup {None} THEN closed
               ELSE Append(closed, answer.current)
  IN [i \in DOMAIN times |-> OfOnePrice(times[i])]

\* The last n of a list.
LastOf(s, n) == IF Len(s) <= n THEN s ELSE SubSeq(s, Len(s) - n + 1, Len(s))

\* The price effect on priceHistoryRef: a candle for a new minute, or the last
\* one brought up to date.
Drawn(h, p) ==
  LET last == Last(h)
  IN IF p = 0 \/ h = <<>> THEN h
     ELSE IF LocalMinute > last.time
     THEN LastOf(Append(h, [time |-> LocalMinute, high |-> p, low |-> p, close |-> p]),
                 MaxHistory)
     ELSE [h EXCEPT ![Len(h)] = [last EXCEPT !.high = IF p > @ THEN p ELSE @,
                                             !.low = IF p < @ THEN p ELSE @,
                                             !.close = p]]

\* update() of the chart library replaces the last bar or adds one.
Update(bars, bar) ==
  IF bars # <<>> /\ Last(bars).time = bar.time
  THEN [bars EXCEPT ![Len(bars)] = bar]
  ELSE Append(bars, bar)

\* What is on the chart after the price effect.
Redrawn(bars, type, h, p) ==
  IF p = 0 \/ h = <<>> THEN bars ELSE Update(bars, Bar(type, Last(Drawn(h, p))))

\* The chart is created anew with the history, and the price drawn on it.
Recreate(type, h) ==
  /\ history' = Drawn(h, price)
  /\ series' = Redrawn(Bars(type, h), type, h, price)

\* The request is over, and its answer nobody's any more.
Handled ==
  /\ fetch' = "none"
  /\ answer' = NoAnswer

\* Variant: an empty answer is taken for the history.
GiveUp(p) ==
  /\ fetch = "answered"
  /\ mounted
  /\ Fetched(p) = <<>>
  /\ Handled
  /\ retry' = FALSE
  /\ UNCHANGED <<feed, cached, mounted, isLoading, drawing, price>>

\* loadData: nothing there yet, try again in 2 s.
NothingYet(p) ==
  /\ fetch = "answered"
  /\ mounted
  /\ Fetched(p) = <<>>
  /\ Handled
  /\ retry' = TRUE
  /\ UNCHANGED <<feed, cached, mounted, isLoading, drawing, price>>

\* ... the history, and the effects that follow isLoading.
Loaded(p) ==
  /\ fetch = "answered"
  /\ mounted
  /\ Fetched(p) # <<>>
  /\ Handled
  /\ isLoading' = FALSE
  /\ Recreate(chartType, LastOf(Fetched(p), MaxHistory))
  /\ UNCHANGED <<feed, cached, mounted, retry, chartType, price>>

\* ... the request failed.
LoadFails ==
  /\ fetch # "none"
  /\ mounted
  /\ Handled
  /\ retry' = TRUE
  /\ UNCHANGED <<feed, cached, mounted, isLoading, drawing, price>>

\* Variant: isMounted is not looked at after the await.
KeptLate ==
  /\ fetch = "answered"
  /\ ~mounted
  /\ Handled
  /\ retry' = (answer = NoAnswer)
  /\ UNCHANGED <<feed, cached, mounted, isLoading, drawing, price>>

\* ... the component is not there any more.
Late ==
  /\ fetch = "answered"
  /\ ~mounted
  /\ Handled
  /\ UNCHANGED <<feed, cached, mounted, retry, isLoading, drawing, price>>

Retry ==
  /\ retry
  /\ retry' = FALSE
  /\ fetch' = "asked"
  /\ UNCHANGED <<feed, cached, answer, mounted, isLoading, drawing, price>>

\* The cleanups of the effects; the state goes with the instance, and the next
\* one begins with its own.
Unmount ==
  /\ mounted
  /\ mounted' = FALSE
  /\ retry' = FALSE
  /\ isLoading' = TRUE
  /\ chartType' = "area" /\ history' = <<>> /\ series' = NoSeries
  /\ UNCHANGED <<feed, request, price>>

\* Another instance, once the answer for the last one has come (a bound: the two
\* share nothing).
Mount ==
  /\ ~mounted
  /\ fetch = "none"
  /\ mounted' = TRUE
  /\ fetch' = "asked"
  /\ UNCHANGED <<feed, cached, answer, retry, isLoading, drawing, price>>

\* Variant: the chart is given the price, and the history is not.
DrawOnChartOnly(p) ==
  /\ history' = history
  /\ series' = IF series = NoSeries \/ isLoading THEN series
               ELSE Redrawn(series, chartType, history, p)

\* The price effect, for a chart that is there.
Draw(p) ==
  IF series = NoSeries \/ isLoading THEN UNCHANGED <<history, series>>
  ELSE /\ history' = Drawn(history, p)
       /\ series' = Redrawn(series, chartType, history, p)

\* A price the store did not have: the same one again has no effect.
PriceArrives(p) ==
  /\ p # price
  /\ price' = p
  /\ Draw(p)
  /\ UNCHANGED <<feed, request, mounted, retry, isLoading, chartType>>

\* reset() of the store: a disconnect takes the prices with it.
PriceForgotten ==
  /\ price # 0
  /\ price' = 0
  /\ UNCHANGED <<feed, request, mounted, retry, isLoading, drawing>>

ChooseType(type) ==
  /\ mounted
  /\ type # chartType
  /\ chartType' = type
  /\ IF isLoading THEN UNCHANGED <<history, series>> ELSE Recreate(type, history)
  /\ UNCHANGED <<feed, request, mounted, retry, isLoading, price>>

ChartNext ==
  \/ Clock
  \/ Persist
  \/ MoveOn
  \/ LoseCache
  \/ ReadRows
  \/ ReadCurrent
  \/ FromCache
  \/ UpstreamFails
  \/ \E p \in Prices : NothingYet(p) \/ Loaded(p) \/ PriceArrives(p)
  \/ LoadFails
  \/ Late
  \/ Retry
  \/ Unmount
  \/ Mount
  \/ PriceForgotten
  \/ \E type \in {"area", "candlestick"} : ChooseType(type)

ChartSpec == ChartInit /\ [][ChartNext]_chartVars

\* Timers fire, and the API does not fail at every attempt: neither its calls
\* nor the request to the route do.
FairChartSpec ==
  /\ ChartSpec
  /\ WF_chartVars(Retry)
  /\ SF_chartVars(ReadRows)
  /\ SF_chartVars(ReadCurrent)
  /\ SF_chartVars(\E p \in Prices : Loaded(p))
  /\ WF_chartVars(\E p \in Prices : NothingYet(p))

-----------------------------------------------------------------------------
Ascending(s) == \A i \in 1..Len(s) - 1 : s[i].time < s[i + 1].time

\* The chart library throws on a bar that is older than the last one.  The
\* history and what is on the chart go forward in time, one bar a minute,
\* whatever the two reads of the API, the route's cache, and a clock that is
\* off have made of them; and no close is outside its candle.
ChartInOrder ==
  /\ ChartTypeOK
  /\ Ascending(history)
  /\ series # NoSeries => Ascending(series)
  /\ \A i \in DOMAIN history :
       history[i].low <= history[i].close /\ history[i].close <= history[i].high

\* What is on the chart is what priceHistoryRef holds, so that changing its kind
\* loses nothing; bars that were shifted out of the history may still be there.
SeriesShowsHistory ==
  series # NoSeries =>
    /\ Len(series) >= Len(history)
    /\ LastOf(series, Len(history)) = Bars(chartType, history)

\* A component that has gone sets no timer and changes nothing, though an answer
\* may come after it.
NothingAfterUnmount ==
  [][~mounted /\ ~mounted' => UNCHANGED <<retry, isLoading, drawing>>]_chartVars

\* The chart does not stay empty: every way an attempt can end without candles
\* leads to another one, until there is a candle to be had.
HistoryArrives ==
  <>[](current # None) => ((mounted /\ isLoading) ~> (~mounted \/ ~isLoading))
=============================================================================

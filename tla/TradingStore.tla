---------------------------- MODULE TradingStore ----------------------------
(***************************************************************************)
(* The rows of the trading tables and the arithmetic placeOrder does on    *)
(* them: prisma/schema.prisma, packages/trading/src/{fees,orders,          *)
(* constants}.ts.  No state: the modules that keep the rows extend this    *)
(* one.                                                                    *)
(*                                                                         *)
(* Amounts are natural numbers of a unit so fine that every product the    *)
(* code forms in memory (decimal.js keeps 20 digits) is a whole number of  *)
(* them.  A column is DECIMAL(20,8): it stores multiples of Quantum.       *)
(* Prices are whole numbers of their own unit, which the columns store     *)
(* exactly (the feed publishes at most 8 decimals).                        *)
(***************************************************************************)
EXTENDS Integers, FiniteSets

CONSTANTS
  Users,
  BaseAssets,      \* what can be bought and sold
  Quote,           \* what it is paid in: ASSETS.USDC
  Sol,             \* ASSETS.SOL, the one asset a new account gets a position in
  InitialBalance,  \* INITIAL_BALANCE: [asset |-> amount]
  Sizes, Prices,   \* order sizes and execution prices
  FeeDivisor,      \* 1 / FEE_RATE
  Quantum,         \* the unit of a DECIMAL(20,8) column, in fine units
  NoRow            \* a row that does not exist

ASSUME AssetAssumption ==
  /\ Sol \in BaseAssets
  /\ Quote \notin BaseAssets
  /\ DOMAIN InitialBalance \subseteq BaseAssets \cup {Quote}
  /\ {Sol, Quote} \subseteq DOMAIN InitialBalance
  /\ \A a \in DOMAIN InitialBalance : InitialBalance[a] \in Nat
  \* a new account holds no base asset, as its empty position says
  /\ \A a \in DOMAIN InitialBalance \cap BaseAssets :
       a = Sol /\ InitialBalance[a] = 0

ASSUME AmountAssumption ==
  /\ Sizes \subseteq Nat \ {0}
  /\ Prices \subseteq Nat \ {0}
  /\ FeeDivisor \in Nat \ {0}
  /\ Quantum \in Nat \ {0}

\* The unit is fine enough for every fee.
ASSUME UnitAssumption ==
  \A s \in Sizes, p \in Prices : (s * p) % FeeDivisor = 0

ASSUME NoRowAssumption ==
  /\ NoRow \notin Int
  /\ NoRow \notin [size : Int, avgEntryPrice : Int]

Assets == BaseAssets \cup {Quote}

\* What a request asks for, with the price the handler looked up for it.
Fills == [user : Users, side : {"buy", "sell"}, base : BaseAssets,
          size : Sizes, price : Prices]

Positions == [size : Int, avgEntryPrice : Int]

NoPosition == [size |-> 0, avgEntryPrice |-> 0]

-----------------------------------------------------------------------------
\* What a DECIMAL(20,8) column holds after x is written to it: the nearest
\* multiple of Quantum, halves rounded up.
Numeric(x) == Quantum * ((2 * x + Quantum) \div (2 * Quantum))

\* a / b, rounded to the unit of a price.
RoundedQuotient(a, b) == (2 * a + b) \div (2 * b)

Cost(f) == f.size * f.price

CalculateFee(f) == Cost(f) \div FeeDivisor

\* Variant: the fee is left out of what a purchase needs.
FeeForgotten(f, quoteAvailable, baseAvailable) ==
  IF f.side = "buy" THEN quoteAvailable >= Cost(f) ELSE baseAvailable >= f.size

\* What is checked before anything is written: a purchase needs its cost and
\* the fee, a sale the amount sold.
Sufficient(f, quoteAvailable, baseAvailable) ==
  IF f.side = "buy"
  THEN quoteAvailable >= Cost(f) + CalculateFee(f)
  ELSE baseAvailable >= f.size

\* The available amount the quote row is updated to.
QuoteAfter(f, available) ==
  Numeric(IF f.side = "buy" THEN available - Cost(f) - CalculateFee(f)
                            ELSE available + (Cost(f) - CalculateFee(f)))

\* Variant: the fee is kept from what is bought.
FeeTakenFromBase(f, available) ==
  Numeric(IF f.side = "buy" THEN available + f.size - f.size \div FeeDivisor
                            ELSE available - f.size)

\* ... and the base row.
BaseAfter(f, available) ==
  Numeric(IF f.side = "buy" THEN available + f.size ELSE available - f.size)

\* Variant: divided by the size before the trade.
AverageOfPrices(f, pos) ==
  RoundedQuotient(pos.size * pos.avgEntryPrice + Cost(f), pos.size)

\* The weighted average entry price of what is held after a purchase.
AverageEntry(f, pos) ==
  RoundedQuotient(pos.size * pos.avgEntryPrice + Cost(f), pos.size + f.size)

\* The position row after the trade.  A sale keeps the average entry price
\* unless nothing is left; whether anything is left is decided on the value
\* in memory, before the column rounds it.
PositionAfter(f, pos) ==
  IF f.side = "buy"
  THEN [size |-> Numeric(pos.size + f.size),
        avgEntryPrice |-> IF pos.size = 0 THEN f.price ELSE AverageEntry(f, pos)]
  ELSE [size |-> Numeric(pos.size - f.size),
        avgEntryPrice |-> IF pos.size = f.size THEN 0 ELSE pos.avgEntryPrice]

\* The rows a filled order leaves; the serial id of the order is represented
\* by the request that placed it.
OrderRow(id, f) ==
  [id |-> id, user |-> f.user, side |-> f.side, base |-> f.base,
   requestedSize |-> Numeric(f.size), priceAtOrderTime |-> f.price,
   feesApplied |-> Numeric(CalculateFee(f))]

TradeRow(id, f) ==
  [orderId |-> id, user |-> f.user, side |-> f.side,
   executedPrice |-> f.price, executedSize |-> Numeric(f.size),
   fee |-> Numeric(CalculateFee(f))]
=============================================================================

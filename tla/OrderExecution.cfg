SPECIFICATION FairSpec
CONSTANTS
  u1 = u1
  u2 = u2
  sol = sol
  alt = alt
  usdc = usdc
  r1 = r1
  r2 = r2
  r3 = r3
  NoTx = NoTx
  NoRow = NoRow
  Users = {u1, u2}
  BaseAssets = {sol, alt}
  Quote = usdc
  Sol = sol
  InitialBalance <- MCInitialBalance
  Sizes = {2000000, 1999000}
  Prices = {1, 4}
  FeeDivisor = 1000
  Quantum = 4000
  Calls <- MCCalls
  Requests = {r1, r2, r3}
INVARIANTS
  NoOverdraft
  HoldingsAgree
  NothingStaleIsUsed
  TradesExplainBalances
  CostBasisWithinPricesPaid
PROPERTIES
  RefinesLedger
  EveryRequestAnswered

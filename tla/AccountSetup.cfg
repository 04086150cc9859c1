SPECIFICATION FairSpec
CONSTANTS
  u1 = u1
  u2 = u2
  sol = sol
  usdc = usdc
  r1 = r1
  r2 = r2
  l1 = l1
  l2 = l2
  l3 = l3
  NoTx = NoTx
  NoRow = NoRow
  Users = {u1, u2}
  BaseAssets = {sol}
  Quote = usdc
  Sol = sol
  InitialBalance <- MCInitialBalance
  Sizes = {1000}
  Prices = {1, 2}
  FeeDivisor = 1000
  Quantum = 1
  Calls <- MCCalls
  Requests = {r1, r2}
  Logins = {l1, l2, l3}
INVARIANTS
  AccountsAreWhole
  LoggedInMeansOpen
  NoDuplicateKey
PROPERTIES
  RefinesLedger
  EveryLoginAnswered

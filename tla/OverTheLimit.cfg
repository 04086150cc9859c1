SPECIFICATION Spec
CONSTANTS
  Clients = {c1}
  Window = 2
  MaxRequests = 1
  LastTime = 2
  Requests = {r1, r2, r3}
  Wallets = {w1}
  Nonces = {n1}
  NonceLife = 2
INVARIANTS
  LimitKept
SYMMETRY Symmetry
CHECK_DEADLOCK FALSE

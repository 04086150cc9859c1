SPECIFICATION Spec
CONSTANTS
  Clients = {c1}
  Window = 2
  MaxRequests = 1
  LastTime = 2
  Requests = {r1, r2, r3}
  Wallets = {w1, w2}
  Nonces = {n1}
  NonceLife = 2
INVARIANTS
  OverByOneAtMost
  RefusedForCause
  SessionFromOwnNonce
SYMMETRY Symmetry
CHECK_DEADLOCK FALSE

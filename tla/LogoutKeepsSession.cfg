SPECIFICATION Spec
CONSTANTS
  Clients = {c1}
  Window = 1
  MaxRequests = 2
  LastTime = 0
  Requests = {r1, r2, r3}
  Wallets = {w1}
  Nonces = {n1}
  NonceLife = 1
INVARIANTS
  LogoutEndsSession
SYMMETRY Symmetry
CHECK_DEADLOCK FALSE

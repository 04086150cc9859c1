--------------------------- MODULE MCAccountSetup ---------------------------
(***************************************************************************)
(* AccountSetup with two wallets and three logins, which the initial state *)
(* gives to the wallets in every way, and up to two orders.                *)
(***************************************************************************)
EXTENDS AccountSetup, TLC

CONSTANTS u1, u2, sol, usdc, r1, r2, l1, l2, l3

MCInitialBalance == (sol :> 0) @@ (usdc :> 4000)

\* Two orders of one user use the account up.
MCCalls ==
  { [user |-> u, side |-> "buy", base |-> sol, size |-> 1000, price |-> 1]
      : u \in {u1, u2} }
  \cup { [user |-> u1, side |-> "sell", base |-> sol, size |-> 1000, price |-> 2] }
=============================================================================

-------------------------- MODULE MCOrderExecution --------------------------
(***************************************************************************)
(* OrderExecution on a small instance.                                     *)
(***************************************************************************)
EXTENDS OrderExecution, TLC

CONSTANTS u1, u2, sol, alt, usdc, r1, r2, r3

\* A column stores multiples of 4000; 1999000 is not one, so it rounds.
MCInitialBalance == (sol :> 0) @@ (usdc :> 10004000)

Call(u, side, base, size, price) ==
  [user |-> u, side |-> side, base |-> base, size |-> size, price |-> price]

\* The first two purchases leave nothing of the account, and with the fee no
\* other two fit into it; selling 1999000 of 2000000 leaves a remainder the
\* column rounds to nothing; alt has no balance row and no position row before
\* its first purchase.
MCCalls ==
  { Call(u1, "buy", sol, 2000000, 1),
    Call(u1, "buy", sol, 1999000, 4),
    Call(u1, "sell", sol, 1999000, 4),
    Call(u1, "sell", sol, 2000000, 1),
    Call(u1, "buy", alt, 2000000, 4),
    Call(u2, "buy", sol, 2000000, 4) }
=============================================================================

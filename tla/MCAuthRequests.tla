---------------------------- MODULE MCAuthRequests ----------------------------
(***************************************************************************)
(* AuthRequests with the permutations TLC may take for the same state.     *)
(***************************************************************************)
EXTENDS AuthRequests, TLC

Symmetry == Permutations(Requests) \cup Permutations(Wallets)
=============================================================================

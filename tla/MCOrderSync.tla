---------------------------- MODULE MCOrderSync ----------------------------
(* Small instances of OrderSync and OrderSyncCalm for TLC.                 *)
EXTENDS OrderSyncCalm, TLC
CONSTANTS r1, r2, o1, o2

OneRequest == {r1}
TwoRequests == {r1, r2}
OneOrder == {o1}
TwoOrders == {o1, o2}

\* Requests and trades are interchangeable: no action tells one from another.
Symmetry == Permutations(TwoRequests) \union Permutations(TwoOrders)
=============================================================================

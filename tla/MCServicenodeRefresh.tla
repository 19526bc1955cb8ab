------------------------ MODULE MCServicenodeRefresh ------------------------
(* Small instances of ServicenodeRefresh for TLC.                          *)
EXTENDS ServicenodeRefresh
CONSTANTS r1, r2, n1, n2, n3

OneRequest == {r1}
TwoRequests == {r1, r2}
TwoNodes == {n1, n2}
ThreeNodes == {n1, n2, n3}
=============================================================================

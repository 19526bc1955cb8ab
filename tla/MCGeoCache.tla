----------------------------- MODULE MCGeoCache -----------------------------
(* Small instances of GeoCache for TLC. *)
EXTENDS GeoCache, TLC
CONSTANTS r1, r2, a, b, c

TwoRequests == {r1, r2}
ThreeAddrs == {a, b, c}
Interchangeable == Permutations(TwoRequests) \union Permutations(ThreeAddrs)

\* Two peers of two addresses in the order of their ids, of which one that left too
\* soon may be missing.
TwoPeers ==
  {[k \in {0, second} |->
      LET pos == IF k = 0 THEN 1 ELSE 2
      IN  [ip |-> ips[pos], geo |-> ips[pos], live |-> TRUE, pos |-> pos]] :
     second \in 1..2, ips \in {f \in [1..2 -> ThreeAddrs] : f[1] # f[2]}}
=============================================================================

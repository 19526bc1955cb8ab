--------------------------- MODULE MCProposalSync ---------------------------
(* Small instances of ProposalSync for TLC: an oversubscribed superblock   *)
(* with one proposal paid, its unpaid twin and another one unpaid, then a  *)
(* superblock that the budget covers and in which one vote failed.         *)
EXTENDS ProposalSync, TLC
CONSTANTS r1, r2, p1, p2, p3, p4, p5, a, b

OneRequest == {r1}
TwoRequests == {r1, r2}

FiveProposals == {p1, p2, p3, p4, p5}
WithoutTwin == {p1, p2, p4, p5}
Of(f) == [p \in Proposals |-> f[p]]
Superblock == Of(p1 :> 2 @@ p2 :> 2 @@ p3 :> 2 @@ p4 :> 4 @@ p5 :> 4)
Amount == Of(p1 :> 2 @@ p2 :> 2 @@ p3 :> 2 @@ p4 :> 3 @@ p5 :> 1)
Address == Of(p1 :> a @@ p2 :> b @@ p3 :> a @@ p4 :> a @@ p5 :> b)
PassedVote == {p1, p2, p3, p4} \intersect Proposals
PaidOut == {p1, p4}
=============================================================================

---------------------- MODULE ServicenodeRefreshProofs ----------------------
(***************************************************************************)
(* Proofs about ServicenodeRefresh, for any number of visits, any network  *)
(* and every bound.                                                        *)
(***************************************************************************)
EXTENDS ServicenodeRefresh, FiniteSetTheorems, TLAPS

NetworkOK ==
  listed \subseteq Nodes /\ connected \subseteq Nodes /\ moves \in 0..MaxMoves

TablesOK ==
  /\ snodes \subseteq Nodes /\ counted \subseteq snodes /\ ranked \subseteq snodes
  /\ dx \in [Nodes -> Nat] /\ xr \in [Nodes -> Nat] /\ xc \in [Nodes -> Nat]
  /\ writer \in Requests \union {Free, Other}

VisitsOK ==
  /\ pc \in [Requests -> Steps]
  /\ snlist \in [Requests -> SUBSET Nodes] /\ xrlist \in [Requests -> SUBSET Nodes]
  /\ todo \in [Requests -> SUBSET Nodes] /\ cur \in [Requests -> Nodes \union {NoNode}]
  /\ ins \in [Requests -> SUBSET Nodes] /\ cnt \in [Requests -> SUBSET Nodes]
  /\ rows \in [Requests -> SUBSET Nodes]
  /\ lost \in [Requests -> SUBSET Guarded]

\* A visit is at a node while it works on one.
AtANode == \A r \in Requests : pc[r] \in {"wallets", "counts", "services"} => cur[r] \in Nodes

\* What a visit has counted is in the table or among its own rows, and as long as it
\* has counted any nobody else can empty the table.
CountedThere ==
  \A r \in Requests :
    /\ cnt[r] \subseteq snodes \union ins[r] /\ (cnt[r] # {} => writer = r)
    /\ pc[r] \in {"rank", "services"} => ins[r] = {}

\* Visits that may still add a copy are those between their DELETE and their COMMIT;
\* the others have added at most one each since the table was emptied last.
DxWork == {"delete xr", "delete xc", "list", "connected", "node", "wallets", "counts"}
XrWork == {"delete xc", "list", "connected", "node", "wallets", "counts", "rank", "services"}
XcWork == XrWork \ {"delete xc"}

Beyond(work) == {r \in Requests : pc[r] \notin work}
Bound(table, work) == \A n \in Nodes : table[n] <= Cardinality(Beyond(work))
Bounds == Bound(dx, DxWork) /\ Bound(xr, XrWork) /\ Bound(xc, XcWork)

IInv ==
  /\ NetworkOK /\ TablesOK /\ VisitsOK /\ aborts \in 0..MaxAborts
  /\ AtANode /\ CountedThere /\ Bounds

----------------------------------------------------------------------------
(* Copies.                                                                 *)

LEMMA BeyondIsFinite ==
  ASSUME NEW work
  PROVE  /\ IsFiniteSet(Beyond(work)) /\ Cardinality(Beyond(work)) \in Nat
         /\ Cardinality(Beyond(work)) <= Cardinality(Requests)
BY SetAssumption, FS_Subset, FS_CardinalityType DEF Beyond

LEMMA BeyondIsFiniteToo ==
  ASSUME NEW work
  PROVE  IsFiniteSet(Beyond(work)') /\ Cardinality(Beyond(work)') \in Nat
BY SetAssumption, FS_Subset, FS_CardinalityType DEF Beyond

\* A visit that does not go back to work keeps the bound, ...
LEMMA BoundKept ==
  ASSUME NEW work, NEW table \in [Nodes -> Nat], Bound(table, work),
         \A r \in Requests : pc[r] \notin work => pc'[r] \notin work
  PROVE  \A n \in Nodes : table[n] <= Cardinality(Beyond(work)')
<1>1. Beyond(work) \subseteq Beyond(work)'
  BY DEF Beyond
<1>2. Cardinality(Beyond(work)) <= Cardinality(Beyond(work)')
  BY <1>1, BeyondIsFinite, BeyondIsFiniteToo, FS_Subset
<1>3. Cardinality(Beyond(work)) \in Nat /\ Cardinality(Beyond(work)') \in Nat
  BY BeyondIsFinite, BeyondIsFiniteToo
<1> QED  BY <1>2, <1>3 DEF Bound

\* ... and one that commits may add a copy.
LEMMA BoundAdds ==
  ASSUME NEW work, NEW table \in [Nodes -> Nat], NEW r \in Requests, Bound(table, work),
         pc[r] \in work, pc'[r] \notin work, \A q \in Requests : q # r => pc'[q] = pc[q]
  PROVE  \A n \in Nodes : AddRows(table, r)[n] <= Cardinality(Beyond(work)')
<1>1. Beyond(work)' = Beyond(work) \union {r} /\ r \notin Beyond(work)
  BY DEF Beyond
<1>2. Cardinality(Beyond(work)') = Cardinality(Beyond(work)) + 1
  BY <1>1, BeyondIsFinite, FS_AddElement
<1>3. \A n \in Nodes : AddRows(table, r)[n] <= table[n] + 1 /\ table[n] \in Nat
                       /\ AddRows(table, r)[n] \in Nat
  BY DEF AddRows
<1> QED  BY <1>2, <1>3, BeyondIsFinite DEF Bound

\* No copies are within any bound.
LEMMA BoundOfNone ==
  ASSUME NEW work
  PROVE  \A n \in Nodes : NoRows[n] <= Cardinality(Beyond(work)')
BY BeyondIsFiniteToo DEF NoRows

LEMMA BoundsKept ==
  ASSUME IInv, UNCHANGED <<dx, xr, xc>>,
         \A r \in Requests : /\ pc[r] \notin DxWork => pc'[r] \notin DxWork
                             /\ pc[r] \notin XrWork => pc'[r] \notin XrWork
                             /\ pc[r] \notin XcWork => pc'[r] \notin XcWork
  PROVE  Bounds'
<1>1. dx \in [Nodes -> Nat] /\ xr \in [Nodes -> Nat] /\ xc \in [Nodes -> Nat] /\ Bounds
  BY DEF IInv, TablesOK
<1>2. Bound(dx, DxWork)'
  BY <1>1, BoundKept DEF Bounds, Bound
<1>3. Bound(xr, XrWork)'
  BY <1>1, BoundKept DEF Bounds, Bound
<1>4. Bound(xc, XcWork)'
  BY <1>1, BoundKept DEF Bounds, Bound
<1> QED  BY <1>2, <1>3, <1>4 DEF Bounds

----------------------------------------------------------------------------
(* The actions.                                                            *)

LEMMA InitIInv == Init => IInv
<1> SUFFICES ASSUME Init PROVE IInv
  OBVIOUS
<1>1. NetworkOK /\ TablesOK /\ aborts \in 0..MaxAborts
  BY SetAssumption DEF Init, NetworkOK, TablesOK, NoRows
<1>2. VisitsOK
  BY DEF Init, VisitsOK, Steps
<1>3. AtANode /\ CountedThere
  BY DEF Init, AtANode, CountedThere
<1>4. Bounds
  BY BeyondIsFinite DEF Init, Bounds, Bound, NoRows
<1> QED  BY <1>1, <1>2, <1>3, <1>4 DEF IInv

LEMMA NetworkStep == ASSUME IInv, NetworkMoves PROVE IInv'
<1>1. NetworkOK'
  BY SetAssumption DEF IInv, NetworkOK, NetworkMoves
<1>2. TablesOK' /\ VisitsOK' /\ aborts' \in 0..MaxAborts
  BY DEF IInv, TablesOK, VisitsOK, NetworkMoves, tables, draft
<1>3. AtANode' /\ CountedThere'
  BY DEF IInv, AtANode, CountedThere, NetworkMoves, tables, draft
<1>4. Bounds'
  BY BoundsKept DEF NetworkMoves, tables
<1> QED  BY <1>1, <1>2, <1>3, <1>4 DEF IInv

LEMMA OtherStep == ASSUME IInv, OtherLocks \/ OtherUnlocks PROVE IInv'
<1>1. NetworkOK' /\ TablesOK' /\ VisitsOK' /\ aborts' \in 0..MaxAborts
  BY DEF IInv, NetworkOK, TablesOK, VisitsOK, OtherLocks, OtherUnlocks, network, tables, draft
<1>2. AtANode' /\ CountedThere'
  BY SetAssumption DEF IInv, AtANode, CountedThere, OtherLocks, OtherUnlocks, tables, draft
<1>3. Bounds'
  BY BoundsKept DEF OtherLocks, OtherUnlocks, tables
<1> QED  BY <1>1, <1>2, <1>3 DEF IInv

LEMMA DieStep ==
  ASSUME NEW r \in Requests, IInv, Die(r), aborts' \in 0..MaxAborts
  PROVE  IInv'
<1>1. NetworkOK' /\ TablesOK'
  BY DEF IInv, NetworkOK, TablesOK, Die, Release, network, tables
<1>2. VisitsOK'
  BY DEF IInv, VisitsOK, Die, Goto, NewDraft, Steps
<1>3. AtANode' /\ CountedThere'
  BY DEF IInv, VisitsOK, AtANode, CountedThere, Die, Goto, NewDraft, Release, tables
<1>4. Bounds'
  BY BoundsKept DEF IInv, VisitsOK, Die, Goto, tables, DxWork, XrWork, XcWork
<1> QED  BY <1>1, <1>2, <1>3, <1>4 DEF IInv

\* While nobody holds the lock nobody has counted, so a table may go.
LEMMA DeleteStep ==
  ASSUME NEW r \in Requests, IInv,
         \/ DeleteServicenodes(r) \/ DeleteDxWallets(r)
         \/ DeleteXrServices(r) \/ DeleteXcServices(r)
  PROVE  IInv'
<1> USE DEF DeleteServicenodes, DeleteDxWallets, DeleteXrServices, DeleteXcServices, Goto
<1>1. NetworkOK' /\ aborts' \in 0..MaxAborts
  BY DEF IInv, NetworkOK, network
<1>2. TablesOK'
  <2>1. NoRows \in [Nodes -> Nat]
    BY DEF NoRows
  <2>2. CASE DeleteServicenodes(r)
    BY <2>2 DEF IInv, TablesOK
  <2>3. CASE DeleteDxWallets(r) \/ DeleteXrServices(r) \/ DeleteXcServices(r)
    BY <2>1, <2>3 DEF IInv, TablesOK
  <2> QED  BY <2>2, <2>3
<1>3. VisitsOK'
  BY DEF IInv, VisitsOK, draft, Steps
<1>4. AtANode'
  BY DEF IInv, VisitsOK, AtANode, draft
<1>5. CountedThere'
  <2>1. \A q \in Requests : cnt[q] = {}
    BY SetAssumption DEF IInv, CountedThere
  <2>2. \A q \in Requests : pc'[q] \in {"rank", "services"} => pc[q] = pc'[q]
    BY DEF IInv, VisitsOK
  <2> QED  BY <2>1, <2>2 DEF IInv, CountedThere, draft
<1>6. dx \in [Nodes -> Nat] /\ xr \in [Nodes -> Nat] /\ xc \in [Nodes -> Nat] /\ Bounds
  BY DEF IInv, TablesOK
<1>7. Bound(dx, DxWork)'
  <2>1. CASE DeleteDxWallets(r)
    BY <2>1, BoundOfNone DEF Bound
  <2>2. CASE ~DeleteDxWallets(r)
    BY <2>2, <1>6, BoundKept DEF Bounds, Bound, IInv, VisitsOK, DxWork
  <2> QED  BY <2>1, <2>2
<1>8. Bound(xr, XrWork)'
  <2>1. CASE DeleteXrServices(r)
    BY <2>1, BoundOfNone DEF Bound
  <2>2. CASE ~DeleteXrServices(r)
    BY <2>2, <1>6, BoundKept DEF Bounds, Bound, IInv, VisitsOK, XrWork
  <2> QED  BY <2>1, <2>2
<1>9. Bound(xc, XcWork)'
  <2>1. CASE DeleteXcServices(r)
    BY <2>1, BoundOfNone DEF Bound
  <2>2. CASE ~DeleteXcServices(r)
    BY <2>2, <1>6, BoundKept DEF Bounds, Bound, IInv, VisitsOK, XcWork, XrWork
  <2> QED  BY <2>1, <2>2
<1> QED  BY <1>1, <1>2, <1>3, <1>4, <1>5, <1>7, <1>8, <1>9 DEF IInv, Bounds

LEMMA QuestionStep ==
  ASSUME NEW r \in Requests, IInv, AskList(r) \/ AskConnected(r) \/ Show(r)
  PROVE  IInv'
<1> USE DEF AskList, AskConnected, Show, Goto
<1>1. NetworkOK' /\ TablesOK' /\ aborts' \in 0..MaxAborts
  BY DEF IInv, NetworkOK, TablesOK, network, tables
<1>2. VisitsOK'
  <2>1. lost' \in [Requests -> SUBSET Guarded]
    <3> HIDE DEF AskList, AskConnected, Show
    <3>1. CASE UNCHANGED lost
      BY <3>1 DEF IInv, VisitsOK
    <3>2. CASE lost' = [lost EXCEPT ![r] = {}]
      <4> HIDE DEF Guarded
      <4> QED  BY <3>2 DEF IInv, VisitsOK
    <3> QED  BY <3>1, <3>2 DEF AskList, AskConnected, Show
  <2>2. pc' \in [Requests -> Steps]
    BY DEF IInv, VisitsOK, Steps
  <2> QED  BY <2>1, <2>2 DEF IInv, NetworkOK, VisitsOK, NewDraft, draft
<1>3. AtANode' /\ CountedThere'
  BY DEF IInv, VisitsOK, AtANode, CountedThere, NewDraft, tables, draft
<1>4. Bounds'
  BY BoundsKept DEF IInv, VisitsOK, tables, DxWork, XrWork, XcWork
<1> QED  BY <1>1, <1>2, <1>3, <1>4 DEF IInv

LEMMA RowStep ==
  ASSUME NEW r \in Requests, IInv,
         \/ \E n \in Nodes : InsertNode(r, n) \/ UpdateRank(r, n)
         \/ InsertWallets(r) \/ UpdateCounts(r) \/ InsertServices(r)
  PROVE  IInv'
<1>1. NetworkOK' /\ TablesOK' /\ aborts' \in 0..MaxAborts
  BY DEF IInv, NetworkOK, TablesOK, network, tables, InsertNode, UpdateRank, InsertWallets,
         UpdateCounts, InsertServices
<1>2. UNCHANGED <<snlist, xrlist>>
  BY DEF InsertNode, UpdateRank, InsertWallets, UpdateCounts, InsertServices
<1>3. pc' \in [Requests -> Steps]
  BY DEF IInv, VisitsOK, InsertNode, UpdateRank, InsertWallets, UpdateCounts, InsertServices, Goto,
         Steps
<1>4. cur' \in [Requests -> Nodes \union {NoNode}] /\ todo' \in [Requests -> SUBSET Nodes]
  BY DEF IInv, VisitsOK, InsertNode, UpdateRank, InsertWallets, UpdateCounts, InsertServices
<1>5. ins' \in [Requests -> SUBSET Nodes]
  BY DEF IInv, VisitsOK, InsertNode, UpdateRank, InsertWallets, UpdateCounts, InsertServices
<1>6. cnt' \in [Requests -> SUBSET Nodes]
  BY DEF IInv, VisitsOK, AtANode, InsertNode, UpdateRank, InsertWallets, UpdateCounts, InsertServices
<1>7. rows' \in [Requests -> SUBSET Nodes]
  BY DEF IInv, VisitsOK, AtANode, InsertNode, UpdateRank, InsertWallets, UpdateCounts, InsertServices
<1>8. VisitsOK'
  <2>1. ASSUME NEW what \in {"row", "counts", "score"}, NEW n \in Nodes, Without(r, what, n)
        PROVE  lost' \in [Requests -> SUBSET Guarded]
    <3>1. <<what, n>> \in Guarded
      BY DEF Guarded
    <3> HIDE DEF Guarded
    <3> QED  BY <2>1, <3>1 DEF Without, IInv, VisitsOK
  <2>2. \/ \E what \in {"row", "counts", "score"} : \E n \in Nodes : Without(r, what, n)
        \/ UNCHANGED lost
    BY DEF InsertNode, UpdateRank, InsertWallets, UpdateCounts, InsertServices, IInv, AtANode
  <2>3. lost' \in [Requests -> SUBSET Guarded]
    BY <2>1, <2>2 DEF IInv, VisitsOK
  <2> QED  BY <1>2, <1>3, <1>4, <1>5, <1>6, <1>7, <2>3 DEF IInv, VisitsOK
<1>9. AtANode'
  BY DEF IInv, VisitsOK, AtANode, InsertNode, UpdateRank, InsertWallets, UpdateCounts,
         InsertServices, Goto
<1>10. CountedThere'
  BY SetAssumption DEF IInv, VisitsOK, CountedThere, tables, MayWrite, InsertNode, UpdateRank,
     InsertWallets, UpdateCounts, InsertServices, Goto
<1>11. Bounds'
  BY BoundsKept DEF IInv, VisitsOK, tables, DxWork, XrWork, XcWork, InsertNode, UpdateRank,
     InsertWallets, UpdateCounts, InsertServices, Goto
<1> QED  BY <1>1, <1>8, <1>9, <1>10, <1>11 DEF IInv

LEMMA CommitNodesStep == ASSUME NEW r \in Requests, IInv, CommitNodes(r) PROVE IInv'
<1>1. NetworkOK' /\ aborts' \in 0..MaxAborts
  BY DEF IInv, NetworkOK, CommitNodes, network
<1>2. TablesOK'
  BY DEF IInv, TablesOK, VisitsOK, CountedThere, CommitNodes, AddRows, Release
<1>3. VisitsOK'
  BY DEF IInv, VisitsOK, CommitNodes, Goto, NewDraft, Steps
<1>4. AtANode' /\ CountedThere'
  BY DEF IInv, VisitsOK, AtANode, CountedThere, CommitNodes, Goto, NewDraft, Release
<1>5. dx \in [Nodes -> Nat] /\ xr \in [Nodes -> Nat] /\ xc \in [Nodes -> Nat] /\ Bounds
  BY DEF IInv, TablesOK
<1>6. pc[r] = "node" /\ pc'[r] = "rank" /\ \A q \in Requests : q # r => pc'[q] = pc[q]
  BY DEF IInv, VisitsOK, CommitNodes, Goto
<1>7. Bound(dx, DxWork)'
  BY <1>5, <1>6, BoundAdds DEF Bounds, Bound, DxWork, CommitNodes
<1>8. Bound(xr, XrWork)'
  BY <1>5, <1>6, BoundKept DEF Bounds, Bound, XrWork, CommitNodes
<1>9. Bound(xc, XcWork)'
  BY <1>5, <1>6, BoundKept DEF Bounds, Bound, XcWork, XrWork, CommitNodes
<1> QED  BY <1>1, <1>2, <1>3, <1>4, <1>7, <1>8, <1>9 DEF IInv, Bounds

LEMMA CommitServicesStep == ASSUME NEW r \in Requests, IInv, CommitServices(r) PROVE IInv'
<1>1. NetworkOK' /\ aborts' \in 0..MaxAborts
  BY DEF IInv, NetworkOK, CommitServices, network
<1>2. TablesOK'
  BY DEF IInv, TablesOK, VisitsOK, CountedThere, CommitServices, AddRows, Release
<1>3. VisitsOK'
  BY DEF IInv, VisitsOK, CommitServices, Goto, NewDraft, Steps
<1>4. AtANode' /\ CountedThere'
  BY DEF IInv, VisitsOK, AtANode, CountedThere, CommitServices, Goto, NewDraft, Release
<1>5. dx \in [Nodes -> Nat] /\ xr \in [Nodes -> Nat] /\ xc \in [Nodes -> Nat] /\ Bounds
  BY DEF IInv, TablesOK
<1>6. pc[r] = "rank" /\ pc'[r] = "show" /\ \A q \in Requests : q # r => pc'[q] = pc[q]
  BY DEF IInv, VisitsOK, CommitServices, Goto
<1>7. Bound(dx, DxWork)'
  BY <1>5, <1>6, BoundKept DEF Bounds, Bound, DxWork, CommitServices
<1>8. Bound(xr, XrWork)'
  BY <1>5, <1>6, BoundAdds DEF Bounds, Bound, XrWork, CommitServices
<1>9. Bound(xc, XcWork)'
  BY <1>5, <1>6, BoundAdds DEF Bounds, Bound, XcWork, XrWork, CommitServices
<1> QED  BY <1>1, <1>2, <1>3, <1>4, <1>7, <1>8, <1>9 DEF IInv, Bounds

LEMMA NextIInv == IInv /\ [Next]_vars => IInv'
<1> SUFFICES ASSUME IInv, [Next]_vars PROVE IInv'
  OBVIOUS
<1>1. CASE NetworkMoves
  BY <1>1, NetworkStep
<1>2. ASSUME NEW r \in Requests, Abort(r) PROVE IInv'
  <2>1. aborts' \in 0..MaxAborts
    BY <1>2, SetAssumption DEF Abort, IInv
  <2> QED  BY <1>2, <2>1, DieStep DEF Abort
<1>3. ASSUME NEW r \in Requests, Step(r) PROVE IInv'
  <2>1. CASE DeleteRefused(r) \/ InsertRefused(r)
    BY <2>1, DieStep DEF DeleteRefused, InsertRefused, IInv
  <2> QED
    BY <1>3, <2>1, DeleteStep, QuestionStep, RowStep, CommitNodesStep, CommitServicesStep DEF Step
<1>4. CASE UNCHANGED vars
  <2>1. UNCHANGED <<network, tables, writer, pc, snlist, xrlist, draft, lost, aborts>>
    BY <1>4 DEF vars
  <2>2. NetworkOK' /\ TablesOK' /\ VisitsOK' /\ aborts' \in 0..MaxAborts
    BY <2>1 DEF IInv, NetworkOK, TablesOK, VisitsOK, network, tables, draft
  <2>3. AtANode' /\ CountedThere'
    BY <2>1 DEF IInv, AtANode, CountedThere, tables, draft
  <2>4. Bounds'
    BY <2>1, BoundsKept DEF tables
  <2> QED  BY <2>2, <2>3, <2>4 DEF IInv
<1>5. CASE OtherLocks \/ OtherUnlocks
  BY <1>5, OtherStep
<1> QED  BY <1>1, <1>2, <1>3, <1>4, <1>5 DEF Next, Others, World, Refresh

LEMMA AlwaysIInv == Spec => []IInv
BY InitIInv, NextIInv, PTL DEF Spec

\* However many visits overlap, a table holds no more copies of a row than there are
\* visits.
THEOREM CopiesAreBounded == Spec => []CopiesBounded
<1>1. IInv => CopiesBounded
  <2> SUFFICES ASSUME IInv, NEW n \in Nodes
               PROVE  \A table \in {dx, xr, xc} : table[n] <= Cardinality(Requests)
    BY DEF CopiesBounded
  <2>1. dx[n] \in Nat /\ xr[n] \in Nat /\ xc[n] \in Nat /\ Cardinality(Requests) \in Nat
    BY SetAssumption, FS_CardinalityType DEF IInv, TablesOK
  <2>2. dx[n] <= Cardinality(Beyond(DxWork)) /\ xr[n] <= Cardinality(Beyond(XrWork))
        /\ xc[n] <= Cardinality(Beyond(XcWork))
    BY DEF IInv, Bounds, Bound
  <2>3. dx[n] <= Cardinality(Requests)
    BY <2>1, <2>2, BeyondIsFinite
  <2>4. xr[n] <= Cardinality(Requests)
    BY <2>1, <2>2, BeyondIsFinite
  <2>5. xc[n] <= Cardinality(Requests)
    BY <2>1, <2>2, BeyondIsFinite
  <2> QED  BY <2>3, <2>4, <2>5
<1> QED  BY <1>1, AlwaysIInv, PTL

\* Every variable keeps its range, and "servicenodes" never has counts or scores
\* without their row.
THEOREM TypeCorrect == Spec => []TypeOK
<1> DEFINE T == overlapped \in BOOLEAN /\ others \in 0..MaxOthers
<1>1. Init => T
  <2>1. 0 \in 0..MaxOthers
    BY SetAssumption
  <2> QED  BY <2>1 DEF Init
<1>2. T /\ [Next]_vars => T'
  <2> SUFFICES ASSUME T, [Next]_vars PROVE T'
    OBVIOUS
  <2>1. ASSUME NEW r \in Requests, Refresh(r) PROVE T'
    BY <2>1, Zenon DEF Refresh, Overlap
  <2>2. CASE OtherLocks /\ UNCHANGED overlapped
    <3>1. others' \in 0..MaxOthers
      BY <2>2, SetAssumption DEF OtherLocks
    <3> QED  BY <2>2, <3>1
  <2>3. CASE (World \/ OtherUnlocks) /\ UNCHANGED overlapped
    BY <2>3 DEF World, OtherUnlocks
  <2>4. CASE UNCHANGED vars  BY <2>4 DEF vars
  <2> QED  BY <2>1, <2>2, <2>3, <2>4 DEF Next, Others
<1>3. IInv /\ T => TypeOK
  BY DEF IInv, NetworkOK, TablesOK, VisitsOK, TypeOK
<1> QED  BY <1>1, <1>2, <1>3, AlwaysIInv, PTL DEF Spec

----------------------------------------------------------------------------
\* Visits one at a time: until its commit a visit finds the counts gone, and then
\* they come together with the wallets they are the counts of.

CountsHaveRows ==
  \A r \in Requests :
    /\ pc[r] = "counts" /\ cur[r] \in Trading => cur[r] \in rows[r]
    /\ pc[r] \in {"node", "wallets", "counts"} => cnt[r] \intersect Trading \subseteq rows[r]

JustOne == \A r, q \in Requests : pc[r] # "idle" /\ pc[q] # "idle" => r = q

EmptiedFirst ==
  \A r \in Requests :
    /\ pc[r] \in DxWork \union {"delete dx"} => counted = {}
    /\ pc[r] \in DxWork => dx = NoRows

Alone == JustOne /\ EmptiedFirst /\ \A n \in counted \intersect Trading : dx[n] = 1

LEMMA CountsHaveRowsStep ==
  ASSUME IInv, CountsHaveRows, [Next]_vars
  PROVE  CountsHaveRows'
<1>1. ASSUME NEW r \in Requests, Step(r) PROVE CountsHaveRows'
  <2>1. CASE DeleteServicenodes(r) \/ DeleteDxWallets(r) \/ DeleteXrServices(r) \/ DeleteXcServices(r)
             \/ AskList(r) \/ AskConnected(r) \/ Show(r)
    BY <2>1 DEF IInv, VisitsOK, CountsHaveRows, DeleteServicenodes, DeleteDxWallets, DeleteXrServices,
                DeleteXcServices, AskList, AskConnected, Show, Goto, NewDraft, draft
  <2>2. CASE DeleteRefused(r) \/ InsertRefused(r)
    BY <2>2 DEF IInv, VisitsOK, CountsHaveRows, DeleteRefused, InsertRefused, Die, Goto, NewDraft
  <2>3. CASE \E n \in Nodes : InsertNode(r, n) \/ UpdateRank(r, n)
    BY <2>3 DEF IInv, VisitsOK, CountsHaveRows, InsertNode, UpdateRank, Goto
  <2>4. CASE InsertWallets(r) \/ UpdateCounts(r)
    BY <2>4 DEF IInv, VisitsOK, CountsHaveRows, InsertWallets, UpdateCounts, Goto
  <2>5. CASE InsertServices(r) \/ CommitNodes(r) \/ CommitServices(r)
    BY <2>5 DEF IInv, VisitsOK, CountsHaveRows, InsertServices, CommitNodes, CommitServices, Goto,
                NewDraft
  <2> QED  BY <1>1, <2>1, <2>2, <2>3, <2>4, <2>5 DEF Step
<1>2. ASSUME NEW r \in Requests, Abort(r) PROVE CountsHaveRows'
  BY <1>2 DEF IInv, VisitsOK, CountsHaveRows, Abort, Die, Goto, NewDraft
<1>3. CASE UNCHANGED <<pc, draft>>
  BY <1>3 DEF CountsHaveRows, draft
<1> QED  BY <1>1, <1>2, <1>3 DEF Next, Others, World, OtherLocks, OtherUnlocks, Refresh, NetworkMoves, vars

\* A visit moves nobody but itself.
LEMMA MovesItself ==
  ASSUME NEW r \in Requests, NEW q \in Requests, q # r, IInv, Step(r) \/ Abort(r)
  PROVE  pc'[q] = pc[q]
BY DEF IInv, VisitsOK, Step, Abort, Die, DeleteServicenodes, DeleteDxWallets, DeleteXrServices,
       DeleteXcServices, DeleteRefused, AskList, AskConnected, InsertNode, UpdateRank, InsertWallets,
       UpdateCounts, CommitNodes, InsertServices, CommitServices, InsertRefused, Show, Goto

\* What the visit that moves has to show of itself.
Agreement == \A n \in counted \intersect Trading : dx[n] = 1

LEMMA StepAlone ==
  ASSUME NEW r \in Requests, IInv, CountsHaveRows, Alone, Step(r)
  PROVE  /\ Agreement'
         /\ pc'[r] \in DxWork \union {"delete dx"} => counted' = {}
         /\ pc'[r] \in DxWork => dx' = NoRows
<1>1. CASE DeleteServicenodes(r)
  BY <1>1 DEF IInv, VisitsOK, DeleteServicenodes, Goto, Agreement, DxWork
<1>2. CASE DeleteDxWallets(r)
  <2>1. counted = {} /\ counted' = {} /\ dx' = NoRows
    BY <1>2 DEF DeleteDxWallets, Alone, EmptiedFirst
  <2> QED  BY <2>1 DEF Agreement
<1>3. CASE CommitNodes(r)
  <2>1. pc[r] = "node" /\ pc'[r] = "rank"
    BY <1>3 DEF IInv, VisitsOK, CommitNodes, Goto
  <2>2. counted = {} /\ dx = NoRows
    BY <2>1 DEF Alone, EmptiedFirst, DxWork
  <2>3. counted' = cnt[r] /\ dx' = AddRows(NoRows, r)
    BY <1>3, <2>2 DEF CommitNodes
  <2>4. cnt[r] \intersect Trading \subseteq rows[r] /\ cnt[r] \subseteq Nodes
    BY <2>1 DEF CountsHaveRows, IInv, VisitsOK
  <2>5. \A n \in counted' \intersect Trading : dx'[n] = 1
    BY <2>3, <2>4 DEF AddRows, NoRows
  <2> QED  BY <2>1, <2>5 DEF Agreement, DxWork
<1>4. CASE UNCHANGED <<counted, dx>>
            /\ (pc'[r] \in DxWork \union {"delete dx"} => pc[r] \in DxWork \union {"delete dx"})
            /\ (pc'[r] \in DxWork => pc[r] \in DxWork)
  BY <1>4 DEF Alone, EmptiedFirst, Agreement
<1>5. CASE DeleteRefused(r) \/ InsertRefused(r)
  BY <1>4, <1>5 DEF IInv, VisitsOK, DeleteRefused, InsertRefused, Die, Goto, tables, DxWork
<1>6. CASE DeleteXrServices(r) \/ DeleteXcServices(r)
  BY <1>4, <1>6 DEF IInv, VisitsOK, DeleteXrServices, DeleteXcServices, Goto, DxWork
<1>7. CASE AskList(r) \/ AskConnected(r) \/ Show(r) \/ InsertWallets(r) \/ UpdateCounts(r)
           \/ InsertServices(r) \/ CommitServices(r)
  BY <1>4, <1>7 DEF IInv, VisitsOK, AskList, AskConnected, Show, InsertWallets, UpdateCounts,
                    InsertServices, CommitServices, Goto, tables, DxWork
<1>8. CASE \E n \in Nodes : InsertNode(r, n) \/ UpdateRank(r, n)
  BY <1>4, <1>8 DEF IInv, VisitsOK, InsertNode, UpdateRank, Goto, tables, DxWork
<1> QED  BY <1>1, <1>2, <1>3, <1>5, <1>6, <1>7, <1>8 DEF Step

LEMMA NextAlone ==
  ASSUME IInv, CountsHaveRows, ~overlapped => Alone, [Next]_vars
  PROVE  ~overlapped' => Alone'
<1> SUFFICES ASSUME ~overlapped' PROVE Alone'
  OBVIOUS
<1>1. CASE UNCHANGED <<pc, counted, dx, overlapped>>
  BY <1>1 DEF Alone, JustOne, EmptiedFirst
<1>2. ASSUME NEW r \in Requests, Abort(r), UNCHANGED overlapped PROVE Alone'
  <2>1. \A q \in Requests : pc'[q] = IF q = r THEN "idle" ELSE pc[q]
    BY <1>2, MovesItself DEF Abort, Die, Goto, IInv, VisitsOK
  <2>2. UNCHANGED <<counted, dx>>
    BY <1>2 DEF Abort, Die, tables
  <2> QED  BY <1>2, <2>1, <2>2 DEF Alone, JustOne, EmptiedFirst, DxWork
<1>3. ASSUME NEW r \in Requests, Refresh(r) PROVE Alone'
  <2>1. ~overlapped /\ \A q \in Requests \ {r} : pc[q] = "idle"
    BY <1>3, Zenon DEF Refresh, Overlap
  <2>2. \A q \in Requests \ {r} : pc'[q] = "idle"
    BY <1>3, <2>1, MovesItself DEF Refresh
  <2>3. /\ Agreement'
        /\ pc'[r] \in DxWork \union {"delete dx"} => counted' = {}
        /\ pc'[r] \in DxWork => dx' = NoRows
    BY <1>3, <2>1, StepAlone DEF Refresh
  <2> QED  BY <2>2, <2>3 DEF Alone, JustOne, EmptiedFirst, Agreement, DxWork
<1> QED
  BY <1>1, <1>2, <1>3 DEF Next, Others, World, OtherLocks, OtherUnlocks, NetworkMoves, vars, tables

\* While visits come one at a time, a servicenode's count agrees with its rows,
\* whenever somebody looks.
THEOREM CountsAlwaysAgree == Spec => []CountsAgree
<1>1. Init => CountsHaveRows /\ (~overlapped => Alone)
  BY DEF Init, CountsHaveRows, Alone, JustOne, EmptiedFirst, DxWork
<1>2. IInv /\ CountsHaveRows /\ [Next]_vars => CountsHaveRows'
  BY CountsHaveRowsStep
<1>3. IInv /\ CountsHaveRows /\ (~overlapped => Alone) /\ [Next]_vars => (~overlapped => Alone)'
  BY NextAlone
<1>4. (~overlapped => Alone) => CountsAgree
  BY DEF Alone, CountsAgree
<1> QED  BY <1>1, <1>2, <1>3, <1>4, AlwaysIInv, PTL DEF Spec

----------------------------------------------------------------------------
\* The rows a visit has given to wallets are those of the nodes it has passed, and with
\* the first of them it has taken the lock, which nobody takes from it.

Passed(r) == snlist[r] \ todo[r]

RowsOfPassed ==
  \A r \in Requests :
    /\ pc[r] \in {"node", "wallets", "counts"} => todo[r] \subseteq snlist[r]
    /\ pc[r] \in {"wallets", "counts", "services"} => cur[r] \in todo[r]
    /\ pc[r] \in {"node", "wallets"} => rows[r] = Passed(r) \intersect Trading
    /\ pc[r] = "counts" => rows[r] = (Passed(r) \union {cur[r]}) \intersect Trading
    /\ pc[r] \in {"node", "wallets", "counts"} /\ rows[r] # {} => writer = r

\* A visit that is not in a transaction does not hold the lock.
LockInUse ==
  \A r \in Requests : writer = r => pc[r] \in {"node", "wallets", "counts", "rank", "services"}

LEMMA PassedStep ==
  ASSUME IInv, RowsOfPassed, LockInUse, [Next]_vars
  PROVE  RowsOfPassed' /\ LockInUse'
<1> USE DEF IInv, VisitsOK, RowsOfPassed, LockInUse, Passed, Goto
<1>1. ASSUME NEW r \in Requests, Step(r) PROVE RowsOfPassed' /\ LockInUse'
  <2>1. CASE DeleteServicenodes(r) \/ DeleteDxWallets(r) \/ DeleteXrServices(r) \/ DeleteXcServices(r)
             \/ AskList(r) \/ Show(r)
    BY <2>1 DEF DeleteServicenodes, DeleteDxWallets, DeleteXrServices, DeleteXcServices, AskList, Show,
                draft
  <2>2. CASE AskConnected(r)
    BY <2>2 DEF AskConnected, NewDraft
  <2>3. CASE Die(r)
    BY <2>3, SetAssumption DEF Die, NewDraft, Release
  <2>4. ASSUME NEW n \in Nodes, InsertNode(r, n) PROVE RowsOfPassed' /\ LockInUse'
    BY <2>4, SetAssumption DEF InsertNode, MayWrite
  <2>5. ASSUME NEW n \in Nodes, UpdateRank(r, n) PROVE RowsOfPassed' /\ LockInUse'
    BY <2>5, SetAssumption DEF UpdateRank, MayWrite
  <2>6. CASE InsertWallets(r)
    BY <2>6, SetAssumption DEF InsertWallets, MayWrite
  <2>7. CASE UpdateCounts(r)
    BY <2>7, SetAssumption DEF UpdateCounts, MayWrite
  <2>8. CASE InsertServices(r)
    BY <2>8, SetAssumption DEF InsertServices, MayWrite
  <2>9. CASE CommitNodes(r) \/ CommitServices(r)
    BY <2>9, SetAssumption DEF CommitNodes, CommitServices, NewDraft, Release
  <2> QED
    BY <1>1, <2>1, <2>2, <2>3, <2>4, <2>5, <2>6, <2>7, <2>8, <2>9 DEF Step, DeleteRefused, InsertRefused
<1>2. ASSUME NEW r \in Requests, Abort(r) PROVE RowsOfPassed' /\ LockInUse'
  BY <1>2, SetAssumption DEF Abort, Die, NewDraft, Release
<1>3. CASE UNCHANGED <<writer, pc, snlist, draft>>
  BY <1>3 DEF draft
<1>4. CASE OtherLocks \/ OtherUnlocks
  BY <1>4, SetAssumption DEF OtherLocks, OtherUnlocks, draft
<1> QED  BY <1>1, <1>2, <1>3, <1>4 DEF Next, Others, World, Refresh, NetworkMoves, vars

\* Only a commit adds wallets, and what it adds are those of its whole list.
LEMMA WholeStep ==
  ASSUME IInv, RowsOfPassed, [Next]_vars, NEW n \in Nodes, dx'[n] > dx[n]
  PROVE  \E r \in Requests :
           /\ pc[r] = "node" /\ writer = r
           /\ \A m \in snlist[r] \intersect Trading : dx'[m] = dx[m] + 1
<1>1. PICK r \in Requests : CommitNodes(r)
  <2>1. dx[n] \in Nat
    BY DEF IInv, TablesOK
  <2>2. dx' # dx
    BY <2>1
  <2>3. ASSUME NEW r \in Requests, DeleteDxWallets(r) PROVE FALSE
    <3>1. dx'[n] = 0
      BY <2>3 DEF DeleteDxWallets, NoRows
    <3> QED  BY <2>1, <3>1
  <2>4. ASSUME NEW r \in Requests, Step(r) PROVE CommitNodes(r)
    BY <2>2, <2>3, <2>4 DEF Step, DeleteServicenodes, DeleteXrServices, DeleteXcServices, DeleteRefused,
       AskList, AskConnected, InsertNode, UpdateRank, InsertWallets, UpdateCounts, InsertServices,
       CommitServices, InsertRefused, Show, Die, tables
  <2> QED
    BY <2>2, <2>4 DEF Next, Others, World, OtherLocks, OtherUnlocks, Refresh, NetworkMoves, Abort, Die,
                      vars, tables
<1>2. dx' = AddRows(dx, r) /\ pc[r] = "node" /\ todo[r] = {}
  BY <1>1 DEF CommitNodes
<1>3. rows[r] = snlist[r] \intersect Trading /\ snlist[r] \subseteq Nodes
  BY <1>2 DEF RowsOfPassed, Passed, IInv, VisitsOK
<1>4. n \in rows[r]
  <2>1. n \notin rows[r] => dx'[n] = dx[n]
    BY <1>2 DEF AddRows
  <2>2. dx[n] \in Nat
    BY DEF IInv, TablesOK
  <2> QED  BY <2>1, <2>2
<1>5. writer = r
  BY <1>2, <1>4 DEF RowsOfPassed
<1> QED  BY <1>2, <1>3, <1>5 DEF AddRows

\* Whatever other visits do to the lock in between, a visit brings the wallets of its
\* whole list to the table or none.
THEOREM WalletsStayWhole == Spec => WalletsCommitWhole
<1>1. Init => RowsOfPassed /\ LockInUse
  BY SetAssumption DEF Init, RowsOfPassed, LockInUse
<1>2. IInv /\ RowsOfPassed /\ LockInUse /\ [Next]_vars => (RowsOfPassed /\ LockInUse)'
  BY PassedStep
<1>3. IInv /\ RowsOfPassed /\ [Next]_vars =>
        [(\E n \in Nodes : dx'[n] > dx[n]) =>
           \E r \in Requests :
             /\ pc[r] = "node" /\ writer = r
             /\ \A n \in snlist[r] \intersect Trading : dx'[n] = dx[n] + 1]_vars
  BY WholeStep
<1> QED  BY <1>1, <1>2, <1>3, AlwaysIInv, PTL DEF Spec, WalletsCommitWhole

----------------------------------------------------------------------------
\* What a visit went on without.
Lost(r, what) == {n \in Nodes : <<what, n>> \in lost[r]}
NothingLost(r) == \A what \in {"row", "counts", "score"} : Lost(r, what) = {}

\* What a visit that is alone finds and has done so far.
Answered(r) ==
  /\ snodes = snlist[r] \ Lost(r, "row") /\ counted = snodes \ Lost(r, "counts")
  /\ Copies(dx, snlist[r] \intersect Trading)

Early == {"idle", "delete dx", "delete xr", "delete xc", "list", "connected"}

Answering(r) ==
  /\ pc[r] \in DxWork \union {"delete dx"} => snodes = {} /\ counted = {}
  /\ pc[r] \in DxWork => dx = NoRows
  /\ pc[r] \in DxWork \union XrWork \union {"delete dx"} => ranked = {}
  /\ pc[r] \in XrWork => xr = NoRows
  /\ pc[r] \in XcWork => xc = NoRows
  /\ pc[r] \in Early => NothingLost(r)
  /\ pc[r] = "node" =>
       /\ ins[r] = Passed(r) \ Lost(r, "row") /\ cnt[r] = ins[r] \ Lost(r, "counts")
       /\ Lost(r, "row") \subseteq Passed(r) /\ Lost(r, "counts") \subseteq Passed(r)
       /\ Lost(r, "score") = {}
  /\ pc[r] \in {"wallets", "counts"} =>
       /\ ins[r] = (Passed(r) \union {cur[r]}) \ Lost(r, "row")
       /\ cnt[r] = (Passed(r) \ Lost(r, "row")) \ Lost(r, "counts")
       /\ Lost(r, "row") \subseteq Passed(r) \union {cur[r]} /\ Lost(r, "counts") \subseteq Passed(r)
       /\ Lost(r, "score") = {}
  /\ pc[r] \in {"rank", "services", "show"} => Answered(r)
  /\ pc[r] \in {"rank", "services"} =>
       todo[r] \subseteq xrlist[r] /\ rows[r] = xrlist[r] \ todo[r] /\ ins[r] = {}
  /\ pc[r] = "rank" =>
       /\ cnt[r] = (rows[r] \intersect snodes) \ Lost(r, "score")
       /\ Lost(r, "score") \subseteq rows[r]
  /\ pc[r] = "services" =>
       /\ cnt[r] = ((rows[r] \union {cur[r]}) \intersect snodes) \ Lost(r, "score")
       /\ Lost(r, "score") \subseteq rows[r] \union {cur[r]}
  /\ pc[r] = "show" =>
       /\ ranked = (snodes \intersect xrlist[r]) \ Lost(r, "score")
       /\ Copies(xr, xrlist[r]) /\ Copies(xc, xrlist[r])

AllAnswering == JustOne /\ \A r \in Requests : Answering(r)

LEMMA LosesOne ==
  ASSUME NEW r \in Requests, NEW what, NEW n \in Nodes, VisitsOK, Without(r, what, n)
  PROVE  \A w : Lost(r, w)' = IF w = what THEN Lost(r, w) \union {n} ELSE Lost(r, w)
<1>1. lost'[r] = lost[r] \union {<<what, n>>}
  BY DEF Without, VisitsOK
<1> QED  BY <1>1 DEF Lost

LEMMA LosesNone ==
  ASSUME NEW r \in Requests, UNCHANGED lost
  PROVE  \A w : Lost(r, w)' = Lost(r, w)
BY DEF Lost

LEMMA LosesAll ==
  ASSUME NEW r \in Requests, VisitsOK, lost' = [lost EXCEPT ![r] = {}]
  PROVE  NothingLost(r)'
BY DEF Lost, NothingLost, VisitsOK

LEMMA StepAnswers ==
  ASSUME NEW r \in Requests, IInv, RowsOfPassed, Answering(r), Step(r)
  PROVE  Answering(r)'
<1> USE DEF IInv, VisitsOK, Goto, Answering, Answered, DxWork, XrWork, XcWork, Early
<1>0. VisitsOK
  OBVIOUS
<1>1. CASE DeleteServicenodes(r) \/ DeleteDxWallets(r) \/ DeleteXrServices(r) \/ DeleteXcServices(r)
  BY <1>1, LosesNone DEF DeleteServicenodes, DeleteDxWallets, DeleteXrServices, DeleteXcServices,
                         NothingLost
<1>2. CASE Die(r)
  BY <1>0, <1>2, LosesAll DEF Die
<1>3. CASE AskList(r)
  BY <1>3, LosesNone DEF AskList, tables, draft, NothingLost
<1>4. CASE AskConnected(r)
  BY <1>4, LosesNone DEF AskConnected, NewDraft, tables, Passed, NothingLost
<1>5. ASSUME NEW n \in Nodes, InsertNode(r, n) PROVE Answering(r)'
  <2>1. CASE MayWrite(r)
    BY <1>5, <2>1, LosesNone DEF InsertNode, tables, Passed
  <2>2. CASE ~MayWrite(r)
    <3>1. Without(r, "row", n)
      BY <1>5, <2>2 DEF InsertNode
    <3>2. \A w : Lost(r, w)' = IF w = "row" THEN Lost(r, w) \union {n} ELSE Lost(r, w)
      BY <1>0, <3>1, LosesOne
    <3> QED  BY <1>5, <2>2, <3>2 DEF InsertNode, tables, Passed
  <2> QED  BY <2>1, <2>2
<1>6. CASE InsertWallets(r)
  BY <1>6, LosesNone DEF InsertWallets, tables, Passed
<1>7. CASE UpdateCounts(r)
  <2>1. CASE MayWrite(r)
    BY <1>7, <2>1, LosesNone DEF UpdateCounts, tables, RowsOfPassed, Passed
  <2>2. CASE ~MayWrite(r)
    <3>1. Without(r, "counts", cur[r]) /\ cur[r] \in Nodes
      BY <1>7, <2>2 DEF UpdateCounts, AtANode
    <3>2. \A w : Lost(r, w)' = IF w = "counts" THEN Lost(r, w) \union {cur[r]} ELSE Lost(r, w)
      BY <1>0, <3>1, LosesOne
    <3> QED  BY <1>7, <2>2, <3>2 DEF UpdateCounts, tables, RowsOfPassed, Passed
  <2> QED  BY <2>1, <2>2
<1>8. CASE CommitNodes(r)
  BY <1>8, LosesNone DEF CommitNodes, NewDraft, AddRows, NoRows, Copies, RowsOfPassed, Passed
<1>9. ASSUME NEW n \in Nodes, UpdateRank(r, n) PROVE Answering(r)'
  <2>1. CASE MayWrite(r)
    BY <1>9, <2>1, LosesNone DEF UpdateRank, tables
  <2>2. CASE ~MayWrite(r)
    <3>1. Without(r, "score", n)
      BY <1>9, <2>2 DEF UpdateRank
    <3>2. \A w : Lost(r, w)' = IF w = "score" THEN Lost(r, w) \union {n} ELSE Lost(r, w)
      BY <1>0, <3>1, LosesOne
    <3> QED  BY <1>9, <2>2, <3>2 DEF UpdateRank, tables
  <2> QED  BY <2>1, <2>2
<1>10. CASE InsertServices(r)
  BY <1>10, LosesNone DEF InsertServices, tables, RowsOfPassed
<1>11. CASE CommitServices(r)
  BY <1>11, LosesNone DEF CommitServices, AddRows, NoRows, Copies
<1>12. CASE Show(r)
  BY <1>0, <1>12, LosesAll DEF Show
<1> QED
  BY <1>1, <1>2, <1>3, <1>4, <1>5, <1>6, <1>7, <1>8, <1>9, <1>10, <1>11, <1>12
     DEF Step, DeleteRefused, InsertRefused

\* A visit that is not under way has lost nothing.
IdleLostNothing == \A r \in Requests : pc[r] = "idle" => NothingLost(r)

LEMMA IdleStep ==
  ASSUME IInv, IdleLostNothing, [Next]_vars
  PROVE  IdleLostNothing'
<1>1. VisitsOK
  BY DEF IInv
<1> SUFFICES ASSUME NEW q \in Requests, pc'[q] = "idle" PROVE NothingLost(q)'
  BY DEF IdleLostNothing
<1>2. CASE UNCHANGED <<lost, pc>>
  BY <1>2, LosesNone DEF IdleLostNothing, NothingLost
<1>3. ASSUME NEW r \in Requests, Step(r) \/ Abort(r) PROVE NothingLost(q)'
  <2>1. CASE q = r
    <3>1. Die(r) \/ Show(r)
      BY <1>1, <1>3, <2>1 DEF VisitsOK, Step, Abort, DeleteServicenodes, DeleteDxWallets,
         DeleteXrServices, DeleteXcServices, DeleteRefused, AskList, AskConnected, InsertNode,
         UpdateRank, InsertWallets, UpdateCounts, CommitNodes, InsertServices, CommitServices,
         InsertRefused, Goto
    <3> QED  BY <1>1, <2>1, <3>1, LosesAll DEF Die, Show
  <2>2. CASE q # r
    <3>1. pc'[q] = pc[q]
      BY <1>3, <2>2, MovesItself
    <3>2. lost'[q] = lost[q]
      BY <1>1, <1>3, <2>2 DEF VisitsOK, Step, Abort, Die, DeleteServicenodes, DeleteDxWallets,
         DeleteXrServices, DeleteXcServices, DeleteRefused, AskList, AskConnected, InsertNode,
         UpdateRank, InsertWallets, UpdateCounts, CommitNodes, InsertServices, CommitServices,
         InsertRefused, Show, Without
    <3> QED  BY <3>1, <3>2 DEF IdleLostNothing, NothingLost, Lost
  <2> QED  BY <2>1, <2>2
<1> QED
  BY <1>2, <1>3 DEF Next, Others, World, OtherLocks, OtherUnlocks, Refresh, NetworkMoves, vars

LEMMA IdleAnswers == ASSUME NEW r \in Requests, pc[r] = "idle", NothingLost(r) PROVE Answering(r)
BY DEF Answering, DxWork, XrWork, XcWork

LEMMA NextAnswers ==
  ASSUME IInv, RowsOfPassed, IdleLostNothing', ~overlapped => AllAnswering, [Next]_vars
  PROVE  ~overlapped' => AllAnswering'
<1> SUFFICES ASSUME ~overlapped' PROVE AllAnswering'
  OBVIOUS
<1>1. CASE UNCHANGED <<tables, pc, snlist, xrlist, draft, lost, overlapped>>
  BY <1>1 DEF AllAnswering, JustOne, Answering, Answered, Passed, Lost, NothingLost, tables, draft
<1>2. ASSUME NEW q \in Requests, pc'[q] = "idle" PROVE Answering(q)'
  BY <1>2 DEF IdleLostNothing, Answering, DxWork, XrWork, XcWork
<1>3. ASSUME NEW r \in Requests, Abort(r), UNCHANGED overlapped PROVE AllAnswering'
  <2>1. \A q \in Requests : pc'[q] = IF q = r THEN "idle" ELSE pc[q]
    BY <1>3, MovesItself DEF Abort, Die, Goto, IInv, VisitsOK
  <2>2. \A q \in Requests : pc[q] # "idle" => q = r
    BY <1>3 DEF AllAnswering, JustOne, Abort
  <2>3. \A q \in Requests : pc'[q] = "idle"
    BY <2>1, <2>2
  <2> QED  BY <1>2, <2>3 DEF AllAnswering, JustOne
<1>4. ASSUME NEW r \in Requests, Refresh(r) PROVE AllAnswering'
  <2>1. ~overlapped /\ \A q \in Requests \ {r} : pc[q] = "idle"
    BY <1>4, Zenon DEF Refresh, Overlap
  <2>2. \A q \in Requests \ {r} : pc'[q] = "idle"
    BY <1>4, <2>1, MovesItself DEF Refresh
  <2>3. Answering(r)'
    BY <1>4, <2>1, StepAnswers DEF Refresh, AllAnswering
  <2>4. \A q \in Requests \ {r} : Answering(q)'
    BY <1>2, <2>2
  <2> QED  BY <2>2, <2>3, <2>4 DEF AllAnswering, JustOne
<1>5. CASE UNCHANGED vars
  BY <1>1, <1>5 DEF vars
<1>6. CASE Others
  BY <1>1, <1>3, <1>6 DEF Others, World, NetworkMoves, OtherLocks, OtherUnlocks
<1>7. CASE \E r \in Requests : Refresh(r)
  BY <1>4, <1>7
<1> QED  BY <1>5, <1>6, <1>7 DEF Next

\* While visits come one at a time, a page shows after its refresh the node's two
\* answers, whatever earlier visits left behind, dead ones too, and short of nothing but
\* the rows, counts and scores of servicenodes whose statements found another page writing.
THEOREM ShowsTheAnswer == Spec => []RefreshIsTheAnswer
<1> DEFINE J == RowsOfPassed /\ LockInUse /\ IdleLostNothing
<1>1. Init => J /\ (~overlapped => AllAnswering)
  <2> SUFFICES ASSUME Init PROVE J /\ AllAnswering
    OBVIOUS
  <2>1. J
    BY SetAssumption DEF Init, RowsOfPassed, LockInUse, IdleLostNothing, NothingLost, Lost
  <2> QED  BY <2>1, IdleAnswers DEF Init, IdleLostNothing, AllAnswering, JustOne
<1>2. IInv /\ J /\ [Next]_vars => J'
  BY PassedStep, IdleStep
<1>3. IInv /\ J /\ J' /\ (~overlapped => AllAnswering) /\ [Next]_vars => (~overlapped => AllAnswering)'
  BY NextAnswers
<1>4. IInv /\ (~overlapped => AllAnswering) => RefreshIsTheAnswer
  <2> SUFFICES ASSUME IInv, AllAnswering, NEW r \in Requests, pc[r] = "show"
               PROVE  /\ snodes = {n \in snlist[r] : <<"row", n>> \notin lost[r]}
                      /\ counted = {n \in snodes : <<"counts", n>> \notin lost[r]}
                      /\ ranked = {n \in snodes \intersect xrlist[r] : <<"score", n>> \notin lost[r]}
                      /\ Copies(dx, snlist[r] \intersect Trading)
                      /\ Copies(xr, xrlist[r]) /\ Copies(xc, xrlist[r])
    BY DEF RefreshIsTheAnswer
  <2>1. Answering(r)
    BY DEF AllAnswering
  <2>2. snlist[r] \subseteq Nodes /\ snodes \subseteq Nodes
    BY DEF IInv, VisitsOK, TablesOK
  <2> QED  BY <2>1, <2>2 DEF Answering, Answered, Lost
<1> QED  BY <1>1, <1>2, <1>3, <1>4, AlwaysIInv, PTL DEF Spec
=============================================================================

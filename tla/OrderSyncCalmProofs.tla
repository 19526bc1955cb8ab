------------------------ MODULE OrderSyncCalmProofs ------------------------
(***************************************************************************)
(* With one request at a time and an environment that does not disturb it, *)
(* the cache of completed trades is complete up to its watermark.          *)
(***************************************************************************)
EXTENDS OrderSyncCalm, OrderSyncProofs

\* None of the ways to step over a trade is open.
NothingSteppedOver ==
  /\ Exposed = {}
  /\ writer # Other
  /\ watermark <= height
  /\ \A r \in Requests : ht[r] <= height
  /\ \A r \in Requests : Between(r) => ht[r] = height

CalmInv == IInv /\ NothingSteppedOver

LEMMA CalmIsNext == CalmNext => Next
BY DEF CalmNext, Next

LEMMA CalmMine ==
  ASSUME CalmInv, Mine, \A r \in Requests : ~Between(r)
  PROVE  NothingSteppedOver'
BY DEF CalmInv, IInv, TypeOK, Stages, Steps, NothingSteppedOver, Exposed, Between, Mine,
       Accounted, db, local

\* The tip is where it was when the height was asked for, so the window of
\* dxGetTradingData starts just above the watermark.
LEMMA CalmFetch ==
  ASSUME CalmInv, NEW r \in Requests, Fetch(r)
  PROVE  NothingSteppedOver'
BY DEF CalmInv, IInv, TypeOK, Stages, Steps, NothingSteppedOver, Exposed, Between, Fetch,
       node, db

\* Nobody else writes, so no INSERT is refused.
LEMMA CalmInsert ==
  ASSUME OneAtATime, CalmInv, NEW r \in Requests, NEW o \in Orders,
         Insert(r, o) \/ InsertRefused(r, o)
  PROVE  NothingSteppedOver'
<1>1. ~InsertRefused(r, o)
  BY DEF OneAtATime, CalmInv, IInv, TypeOK, NothingSteppedOver, InsertRefused, MayWrite
<1> QED
  BY <1>1, LockAssumption
     DEF CalmInv, IInv, TypeOK, NothingSteppedOver, Exposed, Between, Insert, node, history

LEMMA CalmOtherSteps ==
  ASSUME CalmInv, NEW r \in Requests,
         \/ GetHeight(r) \/ ReadWatermark(r) \/ MoveWatermark(r) \/ WatermarkRefused(r)
         \/ Commit(r) \/ Abort(r)
  PROVE  NothingSteppedOver'
<1>1. CASE GetHeight(r) \/ ReadWatermark(r) \/ MoveWatermark(r)
  BY <1>1, LockAssumption
     DEF CalmInv, IInv, TypeOK, Steps, NothingSteppedOver, Exposed, Between,
       GetHeight, ReadWatermark, Due, MoveWatermark, AllInserted, node, db, history
<1>2. CASE WatermarkRefused(r) \/ Abort(r)
  BY <1>2, LockAssumption
     DEF CalmInv, IInv, TypeOK, Steps, NothingSteppedOver, Exposed, Between,
       WatermarkRefused, AllInserted, Abort, Rollback, Unlocked, Finish, node, history
<1>3. CASE Commit(r)
  BY <1>3, LockAssumption
     DEF CalmInv, IInv, TypeOK, Steps, NothingSteppedOver, Exposed, Between,
       Commit, NewWatermark, Finish, node, history
<1> QED  BY <1>1, <1>2, <1>3

LEMMA CalmStep ==
  ASSUME OneAtATime, CalmInv, [CalmNext]_vars
  PROVE  CalmInv'
<1>1. IInv'  BY NextIInv, CalmIsNext DEF CalmInv
<1>2. NothingSteppedOver'
  <2>1. CASE Mine /\ \A r \in Requests : ~Between(r)  BY <2>1, CalmMine
  <2>2. CASE \E r \in Requests : Sync(r) \/ Abort(r)
    BY <2>2, CalmFetch, CalmInsert, CalmOtherSteps DEF Sync
  <2>3. CASE UNCHANGED vars
    BY <2>3 DEF CalmInv, NothingSteppedOver, Exposed, Between, vars, node, db, local,
                history
  <2> QED  BY <2>1, <2>2, <2>3 DEF CalmNext
<1> QED  BY <1>1, <1>2 DEF CalmInv

\* One undisturbed request at a time, killed or not at any point, leaves no
\* trade up to the watermark out of the cache.
THEOREM CalmIsComplete == ASSUME OneAtATime PROVE CalmSpec => []WatermarkIsTruth
<1>1. Init => CalmInv
  BY InitIInv, LockAssumption DEF Init, CalmInv, NothingSteppedOver, Exposed, Between
<1>2. CalmInv /\ [CalmNext]_vars => CalmInv'  BY CalmStep
<1>3. CalmInv => WatermarkIsTruth
  BY DEF CalmInv, IInv, NothingSteppedOver, WatermarkCovers, WatermarkIsTruth
<1> QED  BY <1>1, <1>2, <1>3, PTL DEF CalmSpec
=============================================================================

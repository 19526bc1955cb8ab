-------------------------- MODULE OrderSyncProofs --------------------------
(***************************************************************************)
(* Proofs about OrderSync, for every set of requests and trades and every  *)
(* bound.                                                                  *)
(***************************************************************************)
EXTENDS OrderSync, TLAPS

\* A request's watermark was right when it was read, and rows are never taken
\* out of the cache, so it is right still.
BaseCovered ==
  \A r \in Requests, o \in Orders :
    blockOf[o] \in 1..base[r] => o \in stored \union Exposed

\* A request that has its trades carries, in its open transaction or among the
\* rows to come, whatever the cache lacks up to its height.
BatchCovers ==
  \A r \in Requests, o \in Orders :
    pc[r] \in {"insert", "commit"} /\ blockOf[o] \in 1..ht[r]
      => o \in stored \union rows[r] \union txn[r] \union Exposed

\* What the program counter of a request says of its other variables.
Stages ==
  \A r \in Requests :
    /\ pc[r] \in {"idle", "read"} => base[r] = 0
    /\ pc[r] \in {"fetch", "insert", "commit"} => base[r] < ht[r]
    /\ pc[r] # "insert" => rows[r] = {}
    /\ pc[r] \notin {"insert", "commit"} => txn[r] = {}

\* Uncommitted rows belong to the one connection that holds the write lock,
\* and a request that is about to commit holds it.
OneWriter ==
  \A r \in Requests : txn[r] # {} \/ pc[r] = "commit" => writer = r

IInv ==
  /\ TypeOK /\ OneWriter /\ Stages /\ WatermarkCovers /\ BaseCovered /\ BatchCovers

----------------------------------------------------------------------------
USE SeededAssumption, LockAssumption, BoundAssumption

\* The four facts below are IInv's induction: it holds at first, each action
\* keeps it (a lemma per action, a step per conjunct), so it always holds.
LEMMA InitIInv == Init => IInv
BY DEF Init, IInv, TypeOK, Steps, OneWriter, Stages, WatermarkCovers, BaseCovered, BatchCovers

LEMMA MineStep ==
  ASSUME IInv, Mine
  PROVE  IInv'
<1>1. TypeOK'
  BY DEF Mine, IInv, db, local, bounds, TypeOK
<1>2. OneWriter'
  BY DEF Mine, IInv, db, local, OneWriter
<1>3. Stages'
  BY DEF Mine, IInv, local, Stages
<1>4. WatermarkCovers'
  BY DEF Mine, IInv, db, TypeOK, WatermarkCovers, Exposed
<1>5. BaseCovered'
  BY DEF Mine, IInv, db, local, Accounted, TypeOK, Stages, BaseCovered, Exposed
<1>6. BatchCovers'
  BY DEF Mine, IInv, db, local, Accounted, TypeOK, BatchCovers, Exposed
<1> QED  BY <1>1, <1>2, <1>3, <1>4, <1>5, <1>6 DEF IInv

LEMMA DisconnectStep ==
  ASSUME IInv, Disconnect
  PROVE  IInv'
<1>1. TypeOK'
  BY DEF Disconnect, IInv, db, local, history, bounds, TypeOK
<1>2. OneWriter'
  BY DEF Disconnect, IInv, db, local, OneWriter
<1>3. Stages'
  BY DEF Disconnect, IInv, local, Stages
<1>4. WatermarkCovers'
  BY DEF Disconnect, IInv, db, history, WatermarkCovers, Exposed
<1>5. BaseCovered'
  BY DEF Disconnect, IInv, db, local, history, BaseCovered, Exposed
<1>6. BatchCovers'
  BY DEF Disconnect, IInv, db, local, history, BatchCovers, Exposed
<1> QED  BY <1>1, <1>2, <1>3, <1>4, <1>5, <1>6 DEF IInv

LEMMA OtherLocksStep ==
  ASSUME IInv, OtherLocks
  PROVE  IInv'
<1>1. TypeOK'
  BY DEF OtherLocks, IInv, node, local, history, TypeOK
<1>2. OneWriter'
  BY DEF OtherLocks, IInv, local, OneWriter
<1>3. Stages'
  BY DEF OtherLocks, IInv, local, Stages
<1>4. WatermarkCovers'
  BY DEF OtherLocks, IInv, node, history, WatermarkCovers, Exposed
<1>5. BaseCovered'
  BY DEF OtherLocks, IInv, node, local, history, BaseCovered, Exposed
<1>6. BatchCovers'
  BY DEF OtherLocks, IInv, node, local, history, BatchCovers, Exposed
<1> QED  BY <1>1, <1>2, <1>3, <1>4, <1>5, <1>6 DEF IInv

LEMMA OtherUnlocksStep ==
  ASSUME IInv, OtherUnlocks
  PROVE  IInv'
<1>1. TypeOK'
  BY DEF OtherUnlocks, IInv, node, local, history, bounds, TypeOK
<1>2. OneWriter'
  BY DEF OtherUnlocks, IInv, local, OneWriter
<1>3. Stages'
  BY DEF OtherUnlocks, IInv, local, Stages
<1>4. WatermarkCovers'
  BY DEF OtherUnlocks, IInv, node, history, WatermarkCovers, Exposed
<1>5. BaseCovered'
  BY DEF OtherUnlocks, IInv, node, local, history, BaseCovered, Exposed
<1>6. BatchCovers'
  BY DEF OtherUnlocks, IInv, node, local, history, BatchCovers, Exposed
<1> QED  BY <1>1, <1>2, <1>3, <1>4, <1>5, <1>6 DEF IInv

LEMMA GetHeightStep ==
  ASSUME NEW r \in Requests, IInv, GetHeight(r)
  PROVE  IInv'
<1>1. TypeOK'
  BY DEF GetHeight, IInv, node, db, history, bounds, TypeOK, Steps
<1>2. OneWriter'
  BY DEF GetHeight, IInv, db, OneWriter
<1>3. Stages'
  BY DEF GetHeight, IInv, Stages
<1>4. WatermarkCovers'
  BY DEF GetHeight, IInv, node, db, history, WatermarkCovers, Exposed
<1>5. BaseCovered'
  BY DEF GetHeight, IInv, node, db, history, BaseCovered, Exposed
<1>6. BatchCovers'
  BY DEF GetHeight, IInv, node, db, history, BatchCovers, Exposed
<1> QED  BY <1>1, <1>2, <1>3, <1>4, <1>5, <1>6 DEF IInv

LEMMA ReadWatermarkStep ==
  ASSUME NEW r \in Requests, IInv, ReadWatermark(r)
  PROVE  IInv'
<1>1. TypeOK'
  BY DEF ReadWatermark, Due, IInv, node, db, history, bounds, TypeOK, Steps
<1>2. OneWriter'
  BY DEF ReadWatermark, Due, IInv, db, TypeOK, OneWriter
<1>3. Stages'
  BY DEF ReadWatermark, Due, IInv, TypeOK, Stages
<1>4. WatermarkCovers'
  BY DEF ReadWatermark, Due, IInv, node, db, history, WatermarkCovers, Exposed
<1>5. BaseCovered'
  BY DEF ReadWatermark, Due, IInv, node, db, history, TypeOK, BaseCovered, WatermarkCovers,
         Exposed
<1>6. BatchCovers'
  BY DEF ReadWatermark, Due, IInv, node, db, history, TypeOK, BatchCovers, Exposed
<1> QED  BY <1>1, <1>2, <1>3, <1>4, <1>5, <1>6 DEF IInv

LEMMA FetchStep ==
  ASSUME NEW r \in Requests, IInv, Fetch(r)
  PROVE  IInv'
<1>1. TypeOK'
  BY DEF Fetch, IInv, node, db, bounds, TradingData, TypeOK, Steps
<1>2. OneWriter'
  BY DEF Fetch, IInv, db, OneWriter
<1>3. Stages'
  BY DEF Fetch, IInv, TypeOK, Stages
<1>4. WatermarkCovers'
  BY DEF Fetch, IInv, node, db, WatermarkCovers, Exposed
<1>5. BaseCovered'
  BY DEF Fetch, IInv, node, db, BaseCovered, Exposed
<1>6. BatchCovers'
  BY DEF Fetch, IInv, node, db, TradingData, TypeOK, BatchCovers, BaseCovered, Exposed
<1> QED  BY <1>1, <1>2, <1>3, <1>4, <1>5, <1>6 DEF IInv

LEMMA InsertStep ==
  ASSUME NEW r \in Requests, NEW o \in Orders, IInv, Insert(r, o)
  PROVE  IInv'
<1>1. TypeOK'
  BY DEF Insert, IInv, node, history, bounds, TypeOK
<1>2. OneWriter'
  BY DEF Insert, IInv, MayWrite, OneWriter
<1>3. Stages'
  BY DEF Insert, IInv, Stages
<1>4. WatermarkCovers'
  BY DEF Insert, IInv, node, history, WatermarkCovers, Exposed
<1>5. BaseCovered'
  BY DEF Insert, IInv, node, history, BaseCovered, Exposed
<1>6. BatchCovers'
  BY DEF Insert, IInv, node, history, TypeOK, BatchCovers, Exposed
<1> QED  BY <1>1, <1>2, <1>3, <1>4, <1>5, <1>6 DEF IInv

LEMMA InsertRefusedStep ==
  ASSUME NEW r \in Requests, NEW o \in Orders, IInv, InsertRefused(r, o)
  PROVE  IInv'
<1>1. TypeOK'
  BY DEF InsertRefused, IInv, node, db, bounds, TypeOK
<1>2. OneWriter'
  BY DEF InsertRefused, IInv, db, OneWriter
<1>3. Stages'
  BY DEF InsertRefused, IInv, Stages
<1>4. WatermarkCovers'
  BY DEF InsertRefused, IInv, node, db, WatermarkCovers, Exposed
<1>5. BaseCovered'
  BY DEF InsertRefused, IInv, node, db, BaseCovered, Exposed
<1>6. BatchCovers'
  BY DEF InsertRefused, IInv, node, db, BatchCovers, Exposed
<1> QED  BY <1>1, <1>2, <1>3, <1>4, <1>5, <1>6 DEF IInv

LEMMA MoveWatermarkStep ==
  ASSUME NEW r \in Requests, IInv, MoveWatermark(r)
  PROVE  IInv'
<1>1. TypeOK'
  BY DEF MoveWatermark, IInv, node, history, bounds, TypeOK, Steps
<1>2. OneWriter'
  BY DEF MoveWatermark, IInv, MayWrite, OneWriter
<1>3. Stages'
  BY DEF MoveWatermark, AllInserted, IInv, Stages
<1>4. WatermarkCovers'
  BY DEF MoveWatermark, IInv, node, history, WatermarkCovers, Exposed
<1>5. BaseCovered'
  BY DEF MoveWatermark, IInv, node, history, BaseCovered, Exposed
<1>6. BatchCovers'
  BY DEF MoveWatermark, AllInserted, IInv, node, history, BatchCovers, Exposed
<1> QED  BY <1>1, <1>2, <1>3, <1>4, <1>5, <1>6 DEF IInv

LEMMA WatermarkRefusedStep ==
  ASSUME NEW r \in Requests, IInv, WatermarkRefused(r)
  PROVE  IInv'
<1>1. TypeOK'
  BY DEF WatermarkRefused, IInv, node, history, bounds, Rollback, Unlocked, Finish, TypeOK,
         Steps
<1>2. OneWriter'
  BY DEF WatermarkRefused, IInv, Rollback, Unlocked, Finish, TypeOK, OneWriter
<1>3. Stages'
  BY DEF WatermarkRefused, IInv, Rollback, Finish, TypeOK, Stages
<1>4. WatermarkCovers'
  BY DEF WatermarkRefused, IInv, node, history, Rollback, WatermarkCovers, Exposed
<1>5. BaseCovered'
  BY DEF WatermarkRefused, IInv, node, history, Rollback, Finish, BaseCovered, Exposed
<1>6. BatchCovers'
  BY DEF WatermarkRefused, IInv, node, history, Rollback, Finish, TypeOK, BatchCovers, Exposed
<1> QED  BY <1>1, <1>2, <1>3, <1>4, <1>5, <1>6 DEF IInv

LEMMA CommitStep ==
  ASSUME NEW r \in Requests, IInv, Commit(r)
  PROVE  IInv'
<1>1. TypeOK'
  BY DEF Commit, NewWatermark, IInv, node, history, bounds, Finish, TypeOK, Steps
<1>2. OneWriter'
  BY DEF Commit, IInv, Finish, TypeOK, OneWriter
<1>3. Stages'
  BY DEF Commit, IInv, Finish, TypeOK, Stages
<1>4. WatermarkCovers'
  BY DEF Commit, NewWatermark, IInv, node, history, Stages, WatermarkCovers, BatchCovers,
         Exposed
<1>5. BaseCovered'
  BY DEF Commit, IInv, node, history, Finish, BaseCovered, Exposed
<1>6. BatchCovers'
  BY DEF Commit, IInv, node, history, Finish, Stages, BatchCovers, Exposed
<1> QED  BY <1>1, <1>2, <1>3, <1>4, <1>5, <1>6 DEF IInv

LEMMA AbortStep ==
  ASSUME NEW r \in Requests, IInv, Abort(r)
  PROVE  IInv'
<1>1. TypeOK'
  BY DEF Abort, IInv, node, history, Rollback, Unlocked, Finish, TypeOK, Steps
<1>2. OneWriter'
  BY DEF Abort, IInv, Rollback, Unlocked, Finish, TypeOK, OneWriter
<1>3. Stages'
  BY DEF Abort, IInv, Rollback, Finish, TypeOK, Stages
<1>4. WatermarkCovers'
  BY DEF Abort, IInv, node, history, Rollback, WatermarkCovers, Exposed
<1>5. BaseCovered'
  BY DEF Abort, IInv, node, history, Rollback, Finish, BaseCovered, Exposed
<1>6. BatchCovers'
  BY DEF Abort, IInv, node, history, Rollback, Finish, TypeOK, BatchCovers, Exposed
<1> QED  BY <1>1, <1>2, <1>3, <1>4, <1>5, <1>6 DEF IInv

LEMMA NextIInv == IInv /\ [Next]_vars => IInv'
<1> SUFFICES ASSUME IInv, [Next]_vars PROVE IInv'
  OBVIOUS
<1>1. CASE Mine  BY <1>1, MineStep
<1>2. CASE Disconnect  BY <1>2, DisconnectStep
<1>3. CASE OtherLocks  BY <1>3, OtherLocksStep
<1>4. CASE OtherUnlocks  BY <1>4, OtherUnlocksStep
<1>5. ASSUME NEW r \in Requests, Sync(r) PROVE IInv'
  <2>1. CASE GetHeight(r)  BY <2>1, GetHeightStep
  <2>2. CASE ReadWatermark(r)  BY <2>2, ReadWatermarkStep
  <2>3. CASE Fetch(r)  BY <2>3, FetchStep
  <2>4. ASSUME NEW o \in Orders, Insert(r, o) PROVE IInv'  BY <2>4, InsertStep
  <2>5. ASSUME NEW o \in Orders, InsertRefused(r, o) PROVE IInv'
    BY <2>5, InsertRefusedStep
  <2>6. CASE MoveWatermark(r)  BY <2>6, MoveWatermarkStep
  <2>7. CASE WatermarkRefused(r)  BY <2>7, WatermarkRefusedStep
  <2>8. CASE Commit(r)  BY <2>8, CommitStep
  <2> QED
    BY <1>5, <2>1, <2>2, <2>3, <2>4, <2>5, <2>6, <2>7, <2>8 DEF Sync
<1>6. ASSUME NEW r \in Requests, Abort(r) PROVE IInv'  BY <1>6, AbortStep
<1>7. CASE UNCHANGED vars
  BY <1>7 DEF IInv, TypeOK, OneWriter, Stages, WatermarkCovers, BaseCovered, BatchCovers,
              Exposed, vars, node, db, local, history, bounds
<1> QED
  BY <1>1, <1>2, <1>3, <1>4, <1>5, <1>6, <1>7 DEF Next

LEMMA AlwaysIInv == Spec => []IInv
BY InitIInv, NextIInv, PTL DEF Spec

\* Every variable of updatePastOrders() keeps its range.
THEOREM TypeCorrect == Spec => []TypeOK
<1>1. IInv => TypeOK  BY DEF IInv
<1> QED  BY <1>1, AlwaysIInv, PTL

\* Every trade up to the watermark is cached or is one of those that the three
\* named ways of the code stepped over, with any number of requests, trades,
\* reorganisations and failures.
THEOREM Coverage == Spec => []WatermarkCovers
<1>1. IInv => WatermarkCovers  BY DEF IInv
<1> QED  BY <1>1, AlwaysIInv, PTL

\* Open transactions that have written are the lock holder's.
THEOREM WriterExclusive == Spec => []OneWriter
<1>1. IInv => OneWriter  BY DEF IInv
<1> QED  BY <1>1, AlwaysIInv, PTL

\* Only a commit changes the cache or its watermark.
LEMMA CacheUntouched ==
  ASSUME [Next]_vars, ~\E r \in Requests : Commit(r)
  PROVE  UNCHANGED <<stored, watermark>>
BY DEF Next, vars, node, db, Mine, Disconnect, OtherLocks, OtherUnlocks, Sync, GetHeight,
       ReadWatermark, Due, Fetch, Insert, InsertRefused, MoveWatermark, AllInserted,
       WatermarkRefused, Abort, Rollback

\* A step that changes the cache is the commit of a whole batch.
LEMMA CacheStep ==
  ASSUME IInv, [Next]_vars, stored' # stored
  PROVE  \E r \in Requests : /\ stored' = stored \union txn[r]
                             /\ rows[r] = {}
                             /\ Seeded => watermark' = ht[r]
<1>1. \E r \in Requests : Commit(r)
  BY DEF Next, vars, node, db, Mine, Disconnect, OtherLocks, OtherUnlocks, Sync, GetHeight,
         ReadWatermark, Due, Fetch, Insert, InsertRefused, MoveWatermark, AllInserted, WatermarkRefused,
         Abort, Rollback, Unlocked
<1> QED  BY <1>1 DEF Commit, NewWatermark, IInv, Stages

\* Rows reach the cache only as a whole batch, with its height.
THEOREM AtomicBatches == Spec => RowsComeWithTheirHeight
BY AlwaysIInv, CacheStep, PTL DEF Spec, RowsComeWithTheirHeight

\* The watermark goes back only under a request that another one overtook.
THEOREM RetreatExplained == Spec => OnlyTheOvertakenRetreat
<1>1. ASSUME IInv, [Next]_vars, watermark' < watermark
      PROVE  \E r \in Requests : pc[r] = "commit" /\ base[r] # watermark
  <2>1. \E r \in Requests : Commit(r)
    BY <1>1 DEF Next, vars, node, db, Mine, Disconnect, OtherLocks, OtherUnlocks, Sync,
                GetHeight, ReadWatermark, Fetch, Insert, InsertRefused, MoveWatermark,
                WatermarkRefused, Abort, Rollback, IInv, TypeOK
  <2> QED  BY <1>1, <2>1 DEF Commit, NewWatermark, IInv, TypeOK, Stages
<1> QED  BY <1>1, AlwaysIInv, PTL DEF Spec, OnlyTheOvertakenRetreat

\* On a database whose "events" has its row, a cache that is not empty knows the
\* height it was filled up to: the next request fetches only what came after.
THEOREM HeightIsKept == ASSUME Seeded PROVE Spec => []CacheKnowsItsHeight
<1>1. Init => CacheKnowsItsHeight
  BY DEF Init, CacheKnowsItsHeight
<1>2. IInv /\ CacheKnowsItsHeight /\ [Next]_vars => CacheKnowsItsHeight'
  <2> SUFFICES ASSUME IInv, CacheKnowsItsHeight, [Next]_vars PROVE CacheKnowsItsHeight'
    OBVIOUS
  <2>1. CASE \E r \in Requests : Commit(r)
    BY <2>1 DEF Commit, NewWatermark, IInv, Stages, TypeOK, CacheKnowsItsHeight
  <2>2. CASE ~\E r \in Requests : Commit(r)
    BY <2>2, CacheUntouched DEF CacheKnowsItsHeight
  <2> QED  BY <2>1, <2>2
<1> QED  BY <1>1, <1>2, AlwaysIInv, PTL DEF Spec

----------------------------------------------------------------------------
(* The cache implements the abstract ledger.                               *)

LEMMA LagStep ==
  ASSUME IInv, IInv', [Next]_vars, ~\E r \in Requests : Commit(r)
  PROVE  Ledger!Lag
<1>1. UNCHANGED <<stored, watermark>>
  BY CacheUntouched
<1>2. Exposed \subseteq Exposed'
  BY DEF Exposed, Next, vars, history, Mine, Disconnect, OtherLocks, OtherUnlocks, Sync,
         GetHeight, ReadWatermark, Due, Fetch, Insert, InsertRefused, MoveWatermark,
         WatermarkRefused, Commit, Abort, Rollback
<1>3. blockOf' \in [Orders -> Nat] /\ Ledger!Complete'
  BY DEF IInv, TypeOK, WatermarkCovers, Ledger!Complete
<1> QED  BY <1>1, <1>2, <1>3 DEF Ledger!Lag

LEMMA RecordStep ==
  ASSUME NEW r \in Requests, IInv, IInv', Commit(r)
  PROVE  Ledger!Record
<1>1. stored \subseteq stored' /\ UNCHANGED <<blockOf, Exposed>>
  BY DEF Commit, node, history, Exposed
<1>2. stored' \subseteq Orders /\ watermark' \in Nat /\ Ledger!Complete'
  BY DEF IInv, TypeOK, WatermarkCovers, Ledger!Complete
<1> QED  BY <1>1, <1>2 DEF Ledger!Record

\* Whatever number of requests overlap, are refused and die, over whatever
\* reorganisations, together they are one ledger: every step is an atomic record of
\* a batch with its height, or leaves the ledger alone.
THEOREM LedgerImplemented == Spec => IsALedger
<1>1. Init => Ledger!Init
  BY DEF Init, Exposed, Ledger!Init
<1>2. IInv /\ IInv' /\ [Next]_vars =>
        [Ledger!Lag \/ Ledger!Record]_<<blockOf, stored, watermark, Exposed>>
  BY LagStep, RecordStep
<1> QED  BY <1>1, <1>2, AlwaysIInv, PTL DEF Spec, IsALedger, Ledger!Spec

----------------------------------------------------------------------------
(* One request at a time.                                                  *)

OneAtATime == \A r, s \in Requests : r = s

\* Nobody else moves the watermark while a request runs.
BaseIsCurrent ==
  \A r \in Requests : pc[r] \in {"fetch", "insert", "commit"} => base[r] = watermark

LEMMA BaseStep ==
  ASSUME OneAtATime, IInv, BaseIsCurrent, [Next]_vars
  PROVE  BaseIsCurrent' /\ watermark' >= watermark
<1>1. CASE \E r \in Requests : Commit(r)
  BY <1>1 DEF OneAtATime, BaseIsCurrent, Commit, NewWatermark, Finish, IInv, TypeOK, Stages
<1>2. CASE \E r \in Requests : WatermarkRefused(r) \/ Abort(r)
  BY <1>2 DEF BaseIsCurrent, WatermarkRefused, AllInserted, Abort, Rollback, Unlocked,
              Finish, IInv, TypeOK
<1>3. CASE Mine \/ Disconnect \/ OtherLocks \/ OtherUnlocks \/ UNCHANGED vars
  BY <1>3 DEF BaseIsCurrent, Mine, Disconnect, OtherLocks, OtherUnlocks, vars, node, db,
              local, IInv, TypeOK
<1>4. CASE \E r \in Requests : GetHeight(r) \/ ReadWatermark(r) \/ Fetch(r) \/ MoveWatermark(r)
  BY <1>4 DEF BaseIsCurrent, GetHeight, ReadWatermark, Due, Fetch, MoveWatermark,
              AllInserted, node, db,
              IInv, TypeOK
<1>5. CASE \E r \in Requests, o \in Orders : Insert(r, o) \/ InsertRefused(r, o)
  BY <1>5 DEF BaseIsCurrent, Insert, InsertRefused, db, IInv, TypeOK
<1> QED  BY <1>1, <1>2, <1>3, <1>4, <1>5 DEF Next, Sync

\* With one request at a time the watermark never moves back, though blocks
\* are disconnected and requests die.
THEOREM NoRetreat == ASSUME OneAtATime PROVE Spec => WatermarkNeverRetreats
<1>1. Init => BaseIsCurrent  BY DEF Init, BaseIsCurrent
<1>2. IInv /\ BaseIsCurrent /\ [Next]_vars => BaseIsCurrent' /\ watermark' >= watermark
  BY BaseStep
<1>3. IInv /\ UNCHANGED watermark => watermark' >= watermark  BY DEF IInv, TypeOK
<1> QED  BY <1>1, <1>2, <1>3, AlwaysIInv, PTL DEF Spec, WatermarkNeverRetreats
=============================================================================

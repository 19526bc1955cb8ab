------------------------- MODULE ProposalSyncProofs -------------------------
(***************************************************************************)
(* Proofs about ProposalSync, for every set of visits and proposals, every *)
(* cycle and budget and every bound.                                       *)
(***************************************************************************)
EXTENDS ProposalSync, SumLemmas, TLAPS

\* A visit that has its list carries, in its open transaction or among the rows to
\* come, whatever the table lacks up to the superblock it is about to record.
BatchComplete ==
  \A r \in Requests, p \in Proposals :
    pc[r] \in {"insert", "commit"} /\ SuperblockOf[p] <= LastSuperblock(ht[r]) =>
      status[p] # "absent" \/ p \in rows[r] \union txn[r] \union refused

\* Rows are left over only while they are inserted.
Stages == \A r \in Requests : pc[r] # "insert" => rows[r] = {}

IInv ==
  /\ DatabaseOK /\ VisitsOK /\ aborts \in 0..MaxAborts
  /\ Stages /\ SuperblocksAreComplete /\ BatchComplete

----------------------------------------------------------------------------
\* What the proofs use of the constants.
LEMMA Constants ==
  /\ Cycle \in Nat /\ Cycle > 0 /\ MaxHeight \in Nat /\ MaxAborts \in Nat
  /\ SuperblockOf \in [Proposals -> 1..MaxHeight]
  /\ IsFiniteSet(Proposals) /\ AmountOf \in [Proposals -> Nat] /\ Budget \in Nat
  /\ Paid \subseteq Passed /\ Passed \subseteq Proposals
  /\ Free # Other /\ Free \notin Requests /\ Other \notin Requests /\ MaxOthers \in Nat
BY ChainAssumption, OtherAssumption

\* The superblock at or below a height.
LEMMA LastIsBelow ==
  \A h \in Nat : LastSuperblock(h) \in Nat /\ LastSuperblock(h) <= h
<1>1. \A h, c \in Nat : c > 0 => (h \div c) * c \in Nat /\ (h \div c) * c <= h
  OBVIOUS
<1> QED  BY <1>1, Constants DEF LastSuperblock

\* IInv holds at first, each action keeps it (a lemma per action, a step per
\* conjunct), so it always holds.
LEMMA InitIInv == Init => IInv
<1> SUFFICES ASSUME Init PROVE IInv
  OBVIOUS
<1>1. DatabaseOK /\ aborts \in 0..MaxAborts
  BY Constants DEF Init, DatabaseOK
<1>2. VisitsOK
  BY Constants DEF Init, VisitsOK, Steps
<1>3. Stages /\ SuperblocksAreComplete /\ BatchComplete
  BY Constants DEF Init, Stages, SuperblocksAreComplete, BatchComplete
<1> QED  BY <1>1, <1>2, <1>3 DEF IInv

LEMMA MineStep ==
  ASSUME IInv, Mine
  PROVE  IInv'
<1>1. DatabaseOK' /\ aborts' \in 0..MaxAborts
  <2>1. height \in 0..MaxHeight /\ height < MaxHeight /\ height' = height + 1 /\ MaxHeight \in Nat
    BY Constants DEF IInv, Mine, DatabaseOK
  <2>2. height' \in 0..MaxHeight
    BY <2>1
  <2>3. aborts' \in 0..MaxAborts
    BY DEF IInv, Mine
  <2> QED  BY <2>2, <2>3 DEF IInv, Mine, db, DatabaseOK
<1>2. VisitsOK'
  BY DEF IInv, Mine, db, local, Goto, VisitsOK, Steps
<1>3. Stages'
  BY DEF IInv, Mine, db, local, Goto, Stages, VisitsOK
<1>4. SuperblocksAreComplete'
  BY DEF IInv, Mine, db, local, Goto, SuperblocksAreComplete, DatabaseOK
<1>5. BatchComplete'
  BY DEF IInv, Mine, db, local, Goto, BatchComplete, DatabaseOK, VisitsOK
<1> QED  BY <1>1, <1>2, <1>3, <1>4, <1>5 DEF IInv

LEMMA DieStep ==
  ASSUME NEW r \in Requests, IInv, Die(r), aborts' \in 0..MaxAborts
  PROVE  IInv'
<1>1. DatabaseOK' /\ aborts' \in 0..MaxAborts
  BY DEF IInv, Die, Goto, DatabaseOK
<1>2. VisitsOK'
  BY Constants DEF IInv, Die, Goto, VisitsOK, Steps
<1>3. Stages'
  BY DEF IInv, Die, Goto, Stages, VisitsOK
<1>4. SuperblocksAreComplete'
  BY DEF IInv, Die, Goto, SuperblocksAreComplete, DatabaseOK
<1>5. BatchComplete'
  BY DEF IInv, Die, Goto, BatchComplete, DatabaseOK, VisitsOK
<1> QED  BY <1>1, <1>2, <1>3, <1>4, <1>5 DEF IInv

LEMMA OtherStep ==
  ASSUME IInv, OtherLocks \/ OtherUnlocks
  PROVE  IInv'
<1>1. DatabaseOK' /\ aborts' \in 0..MaxAborts
  BY DEF IInv, OtherLocks, OtherUnlocks, DatabaseOK
<1> QED
  BY <1>1 DEF IInv, OtherLocks, OtherUnlocks, local, VisitsOK, Stages, SuperblocksAreComplete,
              BatchComplete

LEMMA GetHeightStep ==
  ASSUME NEW r \in Requests, IInv, GetHeight(r)
  PROVE  IInv'
<1>1. DatabaseOK' /\ aborts' \in 0..MaxAborts
  BY DEF IInv, GetHeight, db, Goto, DatabaseOK
<1>2. VisitsOK'
  <2>1. ht' \in [Requests -> 0..MaxHeight]
    BY DEF IInv, GetHeight, VisitsOK, DatabaseOK
  <2>2. pc' \in [Requests -> Steps]
    BY DEF IInv, GetHeight, Goto, VisitsOK, Steps
  <2> QED  BY <2>1, <2>2 DEF IInv, GetHeight, VisitsOK
<1>3. Stages'
  BY DEF IInv, GetHeight, db, Goto, Stages, VisitsOK
<1>4. SuperblocksAreComplete'
  BY DEF IInv, GetHeight, db, Goto, SuperblocksAreComplete, DatabaseOK
<1>5. BatchComplete'
  BY DEF IInv, GetHeight, db, Goto, BatchComplete, DatabaseOK, VisitsOK
<1> QED  BY <1>1, <1>2, <1>3, <1>4, <1>5 DEF IInv

LEMMA ListStep ==
  ASSUME NEW r \in Requests, IInv, List(r)
  PROVE  IInv'
<1>1. DatabaseOK' /\ aborts' \in 0..MaxAborts
  BY DEF IInv, List, db, Past, Goto, DatabaseOK
<1>2. VisitsOK'
  <2>1. last' \in [Requests -> 0..MaxHeight]
    BY DEF IInv, List, VisitsOK, DatabaseOK
  <2>2. pc' \in [Requests -> Steps]
    BY DEF IInv, List, Goto, VisitsOK, Steps
  <2>3. Past(ht[r]) \in SUBSET Proposals
    BY DEF Past
  <2>4. rows' \in [Requests -> SUBSET Proposals]
    BY <2>3 DEF IInv, List, VisitsOK
  <2> QED  BY <2>1, <2>2, <2>4 DEF IInv, List, VisitsOK
<1>3. Stages'
  BY DEF IInv, List, db, Past, Goto, Stages, VisitsOK
<1>4. SuperblocksAreComplete'
  BY DEF IInv, List, db, Past, Goto, SuperblocksAreComplete, DatabaseOK
<1>5. BatchComplete'
  <2> SUFFICES ASSUME NEW q \in Requests, NEW p \in Proposals,
                      pc'[q] \in {"insert", "commit"}, SuperblockOf[p] <= LastSuperblock(ht'[q])
               PROVE  status'[p] # "absent" \/ p \in (rows'[q] \union txn'[q] \union refused')
    BY DEF BatchComplete
  <2>1. CASE q # r
    BY <2>1 DEF IInv, List, db, Goto, BatchComplete, VisitsOK
  <2>2. CASE q = r
    <3>1. ht'[r] = ht[r] /\ status' = status /\ refused' = refused
      BY DEF List, db
    <3>2. pc'[r] = "insert" /\ rows'[r] = Past(ht[r])
      BY <2>2 DEF IInv, List, Goto, VisitsOK
    <3>3. CASE SuperblockOf[p] <= lastproposal
      BY <3>1, <3>3 DEF IInv, SuperblocksAreComplete
    <3>4. CASE ~(SuperblockOf[p] <= lastproposal)
      <4>1. ht[r] \in Nat /\ lastproposal \in Nat /\ SuperblockOf[p] \in Nat
        <5>1. ht[r] \in 0..MaxHeight /\ lastproposal \in 0..MaxHeight
          BY DEF IInv, VisitsOK, DatabaseOK
        <5>2. SuperblockOf[p] \in 1..MaxHeight
          BY Constants
        <5> QED  BY <5>1, <5>2, Constants
      <4>2. SuperblockOf[p] <= ht[r]
        <5>1. LastSuperblock(ht[r]) \in Nat /\ LastSuperblock(ht[r]) <= ht[r]
          BY <4>1, LastIsBelow
        <5> QED  BY <2>2, <3>1, <4>1, <5>1
      <4>3. SuperblockOf[p] \in (lastproposal + 1)..ht[r]
        BY <3>4, <4>1, <4>2
      <4> QED  BY <2>2, <3>2, <4>3 DEF Past
    <3> QED  BY <3>3, <3>4
  <2> QED  BY <2>1, <2>2
<1> QED  BY <1>1, <1>2, <1>3, <1>4, <1>5 DEF IInv

LEMMA InsertStep ==
  ASSUME NEW r \in Requests, NEW p \in Proposals, IInv, Insert(r, p)
  PROVE  IInv'
<1>1. DatabaseOK' /\ aborts' \in 0..MaxAborts
  BY DEF IInv, Insert, MayWrite, Goto, DatabaseOK
<1>2. VisitsOK'
  BY DEF IInv, Insert, MayWrite, Goto, VisitsOK, Steps
<1>3. Stages'
  BY DEF IInv, Insert, MayWrite, Goto, Stages, VisitsOK
<1>4. SuperblocksAreComplete'
  BY DEF IInv, Insert, MayWrite, Goto, SuperblocksAreComplete, DatabaseOK
<1>5. BatchComplete'
  BY DEF IInv, Insert, MayWrite, Goto, BatchComplete, DatabaseOK, VisitsOK
<1> QED  BY <1>1, <1>2, <1>3, <1>4, <1>5 DEF IInv

LEMMA InsertRefusedStep ==
  ASSUME NEW r \in Requests, NEW p \in Proposals, IInv, InsertRefused(r, p)
  PROVE  IInv'
<1>1. DatabaseOK' /\ aborts' \in 0..MaxAborts
  BY DEF IInv, InsertRefused, db, Goto, DatabaseOK
<1>2. VisitsOK'
  BY DEF IInv, InsertRefused, db, Goto, VisitsOK, Steps
<1>3. Stages'
  BY DEF IInv, InsertRefused, db, Goto, Stages, VisitsOK
<1>4. SuperblocksAreComplete'
  BY DEF IInv, InsertRefused, db, Goto, SuperblocksAreComplete, DatabaseOK
<1>5. BatchComplete'
  BY DEF IInv, InsertRefused, db, Goto, BatchComplete, DatabaseOK, VisitsOK
<1> QED  BY <1>1, <1>2, <1>3, <1>4, <1>5 DEF IInv

LEMMA MoveLastStep ==
  ASSUME NEW r \in Requests, IInv, MoveLast(r), ~Die(r)
  PROVE  IInv'
<1>1. DatabaseOK' /\ aborts' \in 0..MaxAborts
  BY DEF IInv, MoveLast, Goto, DatabaseOK
<1>2. VisitsOK'
  BY DEF IInv, MoveLast, Goto, VisitsOK, Steps
<1>3. Stages'
  BY DEF IInv, MoveLast, Goto, Stages, VisitsOK
<1>4. SuperblocksAreComplete'
  BY DEF IInv, MoveLast, Goto, SuperblocksAreComplete, DatabaseOK
<1>5. BatchComplete'
  BY DEF IInv, MoveLast, Goto, BatchComplete, DatabaseOK, VisitsOK
<1> QED  BY <1>1, <1>2, <1>3, <1>4, <1>5 DEF IInv

LEMMA CommitProposalsStep ==
  ASSUME NEW r \in Requests, IInv, CommitProposals(r), ~Die(r)
  PROVE  IInv'
<1>1. DatabaseOK' /\ aborts' \in 0..MaxAborts
  <2>1. ht[r] \in 0..MaxHeight /\ MaxHeight \in Nat
    BY Constants DEF IInv, VisitsOK
  <2>2. LastSuperblock(ht[r]) \in Nat /\ LastSuperblock(ht[r]) <= ht[r]
    BY <2>1, LastIsBelow
  <2>3. LastSuperblock(ht[r]) \in 0..MaxHeight
    BY <2>1, <2>2
  <2>4. lastproposal' \in 0..MaxHeight
    BY <2>3 DEF IInv, CommitProposals, DatabaseOK
  <2>5. status' \in [Proposals -> {"absent", "passed", "failed", "not paid"}]
    BY DEF IInv, CommitProposals, DatabaseOK
  <2> QED  BY <2>4, <2>5 DEF IInv, CommitProposals, DatabaseOK
<1>2. VisitsOK'
  BY DEF IInv, CommitProposals, Goto, VisitsOK, Steps
<1>3. Stages'
  BY DEF IInv, CommitProposals, Goto, Stages, VisitsOK
<1>4. SuperblocksAreComplete'
  <2>1. lastproposal' = lastproposal \/ lastproposal' = LastSuperblock(ht[r])
    BY DEF CommitProposals
  <2>2. CASE lastproposal' = lastproposal
    BY <2>2 DEF IInv, CommitProposals, SuperblocksAreComplete, DatabaseOK
  <2>3. CASE lastproposal' = LastSuperblock(ht[r])
    <3>1. ASSUME NEW p \in Proposals, SuperblockOf[p] <= LastSuperblock(ht[r])
          PROVE  status[p] # "absent" \/ p \in txn[r] \/ p \in refused
      BY <3>1 DEF IInv, CommitProposals, BatchComplete, Stages
    <3>2. refused' = refused
      BY DEF CommitProposals
    <3>3. ASSUME NEW p \in Proposals, status[p] # "absent" \/ p \in txn[r]
          PROVE  status'[p] # "absent"
      BY <3>3 DEF CommitProposals
    <3> QED  BY <2>3, <3>1, <3>2, <3>3 DEF SuperblocksAreComplete
  <2> QED  BY <2>1, <2>2, <2>3
<1>5. BatchComplete'
  BY DEF IInv, CommitProposals, Goto, BatchComplete, DatabaseOK, VisitsOK
<1> QED  BY <1>1, <1>2, <1>3, <1>4, <1>5 DEF IInv

LEMMA ClearStep ==
  ASSUME NEW r \in Requests, IInv, Clear(r), ~Die(r)
  PROVE  IInv'
<1>1. DatabaseOK' /\ aborts' \in 0..MaxAborts
  BY DEF IInv, Clear, Goto, DatabaseOK
<1>2. VisitsOK'
  BY DEF IInv, Clear, Goto, VisitsOK, Steps
<1>3. Stages'
  BY DEF IInv, Clear, Goto, Stages, VisitsOK
<1>4. SuperblocksAreComplete'
  BY DEF IInv, Clear, Goto, SuperblocksAreComplete, DatabaseOK
<1>5. BatchComplete'
  BY DEF IInv, Clear, Goto, BatchComplete, DatabaseOK, VisitsOK
<1> QED  BY <1>1, <1>2, <1>3, <1>4, <1>5 DEF IInv

LEMMA CollectStep ==
  ASSUME NEW r \in Requests, IInv, Collect(r)
  PROVE  IInv'
<1>1. DatabaseOK' /\ aborts' \in 0..MaxAborts
  BY DEF IInv, Collect, db, Oversubscribed, Goto, DatabaseOK
<1>2. VisitsOK'
  BY DEF IInv, Collect, db, Oversubscribed, Goto, VisitsOK, Steps
<1>3. Stages'
  BY DEF IInv, Collect, db, Oversubscribed, Goto, Stages, VisitsOK
<1>4. SuperblocksAreComplete'
  BY DEF IInv, Collect, db, Oversubscribed, Goto, SuperblocksAreComplete, DatabaseOK
<1>5. BatchComplete'
  BY DEF IInv, Collect, db, Oversubscribed, Goto, BatchComplete, DatabaseOK, VisitsOK
<1> QED  BY <1>1, <1>2, <1>3, <1>4, <1>5 DEF IInv

LEMMA FillStep ==
  ASSUME NEW r \in Requests, IInv, Fill(r), ~Die(r)
  PROVE  IInv'
<1>1. DatabaseOK' /\ aborts' \in 0..MaxAborts
  BY DEF IInv, Fill, db, Goto, DatabaseOK
<1>2. VisitsOK'
  BY DEF IInv, Fill, db, Goto, VisitsOK, Steps
<1>3. Stages'
  BY DEF IInv, Fill, db, Goto, Stages, VisitsOK
<1>4. SuperblocksAreComplete'
  BY DEF IInv, Fill, db, Goto, SuperblocksAreComplete, DatabaseOK
<1>5. BatchComplete'
  BY DEF IInv, Fill, db, Goto, BatchComplete, DatabaseOK, VisitsOK
<1> QED  BY <1>1, <1>2, <1>3, <1>4, <1>5 DEF IInv

LEMMA SaveStep ==
  ASSUME NEW r \in Requests, IInv, Save(r), ~Die(r)
  PROVE  IInv'
<1>1. DatabaseOK' /\ aborts' \in 0..MaxAborts
  <2>1. Payments(over[r]) \subseteq {Payment(p) : p \in Proposals}
    BY Constants DEF Payments
  <2>2. scratch' \subseteq {Payment(p) : p \in Proposals}
    BY <2>1 DEF IInv, Save, ScratchSaved, DatabaseOK
  <2> QED  BY <2>2 DEF IInv, Save, DatabaseOK
<1>2. VisitsOK'
  BY Constants DEF IInv, Save, ScratchSaved, Payments, Goto, VisitsOK, Steps
<1>3. Stages'
  BY DEF IInv, Save, ScratchSaved, Payments, Goto, Stages, VisitsOK
<1>4. SuperblocksAreComplete'
  BY DEF IInv, Save, ScratchSaved, Payments, Goto, SuperblocksAreComplete, DatabaseOK
<1>5. BatchComplete'
  BY DEF IInv, Save, ScratchSaved, Payments, Goto, BatchComplete, DatabaseOK, VisitsOK
<1> QED  BY <1>1, <1>2, <1>3, <1>4, <1>5 DEF IInv

LEMMA MarkStep ==
  ASSUME NEW r \in Requests, IInv, Mark(r), ~Die(r)
  PROVE  IInv'
<1>1. DatabaseOK' /\ aborts' \in 0..MaxAborts
  BY DEF IInv, Mark, Goto, DatabaseOK
<1>2. VisitsOK'
  <2>1. 0 \in 0..MaxHeight
    BY Constants
  <2>2. ht' \in [Requests -> 0..MaxHeight] /\ last' \in [Requests -> 0..MaxHeight]
    BY <2>1 DEF IInv, Mark, VisitsOK
  <2>3. pc' \in [Requests -> Steps]
    BY DEF IInv, Mark, Goto, VisitsOK, Steps
  <2> QED  BY <2>2, <2>3 DEF IInv, Mark, VisitsOK
<1>3. Stages'
  BY DEF IInv, Mark, Goto, Stages, VisitsOK
<1>4. SuperblocksAreComplete'
  BY DEF IInv, Mark, Goto, SuperblocksAreComplete, DatabaseOK
<1>5. BatchComplete'
  <2>1. \A p \in Proposals : status[p] # "absent" => status'[p] # "absent"
    BY DEF Mark
  <2>2. \A q \in Requests : q # r => pc'[q] = pc[q] /\ ht'[q] = ht[q]
    BY DEF IInv, VisitsOK, Mark, Goto
  <2>3. pc'[r] = "idle"
    BY DEF IInv, Mark, Goto, VisitsOK
  <2>4. rows' = rows /\ txn' = txn /\ refused' = refused
    BY DEF Mark
  <2> QED  BY <2>1, <2>2, <2>3, <2>4 DEF IInv, BatchComplete
<1> QED  BY <1>1, <1>2, <1>3, <1>4, <1>5 DEF IInv

LEMMA NextIInv == IInv /\ [Next]_vars => IInv'
<1> SUFFICES ASSUME IInv, [Next]_vars PROVE IInv'
  OBVIOUS
<1>1. CASE Mine  BY <1>1, MineStep
<1>2. ASSUME NEW r \in Requests, Abort(r) PROVE IInv'
  <2>1. aborts' \in 0..MaxAborts
    BY <1>2, Constants DEF Abort, IInv
  <2> QED  BY <1>2, <2>1, DieStep DEF Abort
<1>3. ASSUME NEW r \in Requests, Step(r) PROVE IInv'
  <2>1. CASE Die(r) /\ UNCHANGED aborts
    BY <2>1, DieStep DEF IInv
  <2>2. CASE GetHeight(r)  BY <2>2, GetHeightStep
  <2>3. CASE List(r)  BY <2>3, ListStep
  <2>4. ASSUME NEW p \in Proposals, Insert(r, p) PROVE IInv'  BY <2>4, InsertStep
  <2>5. ASSUME NEW p \in Proposals, InsertRefused(r, p) PROVE IInv'
    BY <2>5, InsertRefusedStep
  <2>6. CASE MoveLast(r)  BY <2>1, <2>6, MoveLastStep DEF MoveLast
  <2>7. CASE CommitProposals(r)  BY <2>1, <2>7, CommitProposalsStep DEF CommitProposals
  <2>8. CASE Clear(r)  BY <2>1, <2>8, ClearStep DEF Clear
  <2>9. CASE Collect(r)  BY <2>9, CollectStep
  <2>10. CASE Fill(r)  BY <2>1, <2>10, FillStep DEF Fill
  <2>11. CASE Save(r)  BY <2>1, <2>11, SaveStep DEF Save
  <2>12. CASE Mark(r)  BY <2>1, <2>12, MarkStep DEF Mark
  <2> QED
    BY <1>3, <2>2, <2>3, <2>4, <2>5, <2>6, <2>7, <2>8, <2>9, <2>10, <2>11, <2>12 DEF Step
<1>4. CASE UNCHANGED vars
  BY <1>4 DEF IInv, DatabaseOK, VisitsOK, Stages, SuperblocksAreComplete, BatchComplete, vars,
              db, local
<1>5. CASE OtherLocks \/ OtherUnlocks  BY <1>5, OtherStep
<1> QED  BY <1>1, <1>2, <1>3, <1>4, <1>5 DEF Next, Others, World, Visit

LEMMA AlwaysIInv == Spec => []IInv
BY InitIInv, NextIInv, PTL DEF Spec

\* Whatever visits overlap, are refused and die: up to the recorded superblock every
\* proposal is in the table, but for those whose INSERT found another writer.
THEOREM Completeness == Spec => []SuperblocksAreComplete
<1>1. IInv => SuperblocksAreComplete  BY DEF IInv
<1> QED  BY <1>1, AlwaysIInv, PTL

\* All that TypeOK says.
THEOREM TypeCorrect == Spec => []TypeOK
<1> DEFINE T == overlapped \in BOOLEAN /\ others \in 0..MaxOthers
<1>1. Init => T
  <2>1. 0 \in 0..MaxOthers
    BY Constants
  <2> QED  BY <2>1 DEF Init
<1>2. T /\ [Next]_vars => T'
  <2> SUFFICES ASSUME T, [Next]_vars PROVE T'
    OBVIOUS
  <2>1. ASSUME NEW r \in Requests, Visit(r) PROVE T'
    BY <2>1, Zenon DEF Visit, Overlap
  <2>2. CASE OtherLocks /\ UNCHANGED overlapped
    <3>1. others' \in 0..MaxOthers
      BY <2>2, Constants DEF OtherLocks
    <3> QED  BY <2>2, <3>1
  <2>3. CASE (World \/ OtherUnlocks) /\ UNCHANGED overlapped
    BY <2>3 DEF World, OtherUnlocks
  <2>4. CASE UNCHANGED vars  BY <2>4 DEF vars
  <2> QED  BY <2>1, <2>2, <2>3, <2>4 DEF Next, Others
<1>3. IInv /\ T => TypeOK
  BY DEF IInv, TypeOK
<1> QED  BY <1>1, <1>2, <1>3, AlwaysIInv, PTL DEF Spec

----------------------------------------------------------------------------
\* Visits one at a time.  The verdicts are right because nothing comes between a
\* visit's reading of the oversubscribed superblocks, its filling of scratch and
\* its conclusion.

JustOne == \A r, q \in Requests : pc[r] # "idle" /\ pc[q] # "idle" => r = q

\* What was collected is still what there is.
OverIsCurrent == \A r \in Requests : pc[r] \in {"fill", "save"} => over[r] = Oversubscribed

\* A visit that is about to mark finds every payment that it needs.
ScratchIsEnough == \A r \in Requests : pc[r] = "mark" => Payments(Oversubscribed) \subseteq scratch

Alone == JustOne /\ NotPaidIsTruth /\ OverIsCurrent /\ ScratchIsEnough

LEMMA SameStatus == ASSUME UNCHANGED status PROVE Oversubscribed' = Oversubscribed
BY DEF Oversubscribed

\* A visit moves nobody but itself.
LEMMA MovesItself ==
  ASSUME NEW r \in Requests, NEW q \in Requests, q # r, VisitsOK, Step(r) \/ Abort(r)
  PROVE  pc'[q] = pc[q]
BY DEF VisitsOK, Step, Abort, Die, GetHeight, List, Insert, InsertRefused, MoveLast, CommitProposals,
       Clear, Collect, Fill, Save, Mark, Goto

\* What the visit that moves has to show of itself.
LEMMA StepAlone ==
  ASSUME NEW r \in Requests, VisitsOK, Alone, Step(r)
  PROVE  /\ NotPaidIsTruth'
         /\ pc'[r] \in {"fill", "save"} => over'[r] = Oversubscribed'
         /\ pc'[r] = "mark" => Payments(Oversubscribed') \subseteq scratch'
<1> DEFINE Early == UNCHANGED status /\ pc'[r] \in {"idle", "read", "insert", "commit", "clear", "collect"}
<1>1. CASE Early
  BY <1>1 DEF Alone, NotPaidIsTruth
<1>2. CASE Die(r)
  BY <1>1, <1>2 DEF Die, Goto, VisitsOK
<1>3. CASE GetHeight(r) \/ List(r)
  BY <1>1, <1>3 DEF GetHeight, List, db, Goto, VisitsOK
<1>4. ASSUME NEW p \in Proposals, Insert(r, p) \/ InsertRefused(r, p) PROVE Early
  BY <1>4 DEF Insert, InsertRefused, db
<1>5. CASE MoveLast(r) \/ Clear(r)
  BY <1>1, <1>2, <1>5 DEF MoveLast, Clear, Goto, VisitsOK
<1>6. CASE CommitProposals(r) /\ ~Die(r)
  <2>1. pc'[r] = "clear"
    BY <1>6 DEF CommitProposals, Goto, VisitsOK
  <2>2. \A p \in Proposals : status'[p] = "not paid" => status[p] = "not paid"
    BY <1>6 DEF CommitProposals
  <2> QED  BY <2>1, <2>2 DEF Alone, NotPaidIsTruth
<1>7. CASE Collect(r)
  <2>1. pc'[r] = "fill" /\ over'[r] = Oversubscribed /\ UNCHANGED status
    BY <1>7 DEF Collect, Goto, VisitsOK, db
  <2> QED  BY <2>1, SameStatus DEF Alone, NotPaidIsTruth
<1>8. CASE Fill(r) /\ ~Die(r)
  <2>1. pc[r] = "fill" /\ pc'[r] = "save" /\ UNCHANGED <<over, status>>
    BY <1>8 DEF Fill, Goto, VisitsOK, db
  <2> QED  BY <2>1, SameStatus DEF Alone, NotPaidIsTruth, OverIsCurrent
<1>9. CASE Save(r) /\ ~Die(r)
  <2>1. pc[r] = "save" /\ pc'[r] = "mark" /\ scratch' = scratch \union Payments(over[r])
    BY <1>9 DEF Save, ScratchSaved, Goto, VisitsOK
  <2>2. UNCHANGED status /\ over[r] = Oversubscribed
    BY <1>9, <2>1 DEF Save, Alone, OverIsCurrent
  <2> QED  BY <2>1, <2>2, SameStatus DEF Alone, NotPaidIsTruth
<1>10. CASE Mark(r) /\ ~Die(r)
  <2>1. pc[r] = "mark" /\ pc'[r] = "idle"
    BY <1>10 DEF Mark, Goto, VisitsOK
  <2>2. ASSUME NEW p \in Proposals, status'[p] = "not paid" PROVE p \notin Paid
    <3>1. CASE p \notin Unpaid
      BY <1>10, <2>2, <3>1 DEF Mark, Alone, NotPaidIsTruth
    <3>2. CASE p \in Unpaid
      <4>1. SuperblockOf[p] \in Oversubscribed /\ Payment(p) \notin scratch
        BY <3>2 DEF Unpaid
      <4>2. Payments(Oversubscribed) \subseteq scratch
        BY <2>1 DEF Alone, ScratchIsEnough
      <4>3. p \in Paid => Payment(p) \in Payments(Oversubscribed)
        BY <4>1 DEF Payments
      <4> QED  BY <4>1, <4>2, <4>3
    <3> QED  BY <3>1, <3>2
  <2> QED  BY <2>1, <2>2 DEF NotPaidIsTruth
<1> QED
  BY <1>1, <1>2, <1>3, <1>4, <1>5, <1>6, <1>7, <1>8, <1>9, <1>10 DEF Step

LEMMA InitAlone == Init => Alone
BY DEF Init, Alone, JustOne, NotPaidIsTruth, OverIsCurrent, ScratchIsEnough

LEMMA NextAlone ==
  ASSUME VisitsOK, ~overlapped => Alone, [Next]_vars
  PROVE  ~overlapped' => Alone'
<1> SUFFICES ASSUME ~overlapped' PROVE Alone'
  OBVIOUS
<1>1. CASE UNCHANGED <<status, scratch, pc, over, overlapped>>
  BY <1>1, SameStatus DEF Alone, JustOne, NotPaidIsTruth, OverIsCurrent, ScratchIsEnough
<1>2. ASSUME NEW r \in Requests, Abort(r), UNCHANGED overlapped PROVE Alone'
  <2>1. Alone
    BY <1>2
  <2>2. \A q \in Requests : pc'[q] = IF q = r THEN "idle" ELSE pc[q]
    BY <1>2, MovesItself DEF Abort, Die, Goto, VisitsOK
  <2>3. \A q \in Requests : q # r => over'[q] = over[q]
    BY <1>2 DEF Abort, Die, VisitsOK
  <2>4. UNCHANGED <<status, scratch>>
    BY <1>2 DEF Abort, Die
  <2> QED
    BY <2>1, <2>2, <2>3, <2>4, SameStatus
       DEF Alone, JustOne, NotPaidIsTruth, OverIsCurrent, ScratchIsEnough
<1>3. ASSUME NEW r \in Requests, Visit(r) PROVE Alone'
  <2>1. ~overlapped /\ \A q \in Requests \ {r} : pc[q] = "idle"
    BY <1>3, Zenon DEF Visit, Overlap
  <2>2. \A q \in Requests \ {r} : pc'[q] = "idle"
    BY <1>3, <2>1, MovesItself DEF Visit
  <2>3. /\ NotPaidIsTruth'
        /\ pc'[r] \in {"fill", "save"} => over'[r] = Oversubscribed'
        /\ pc'[r] = "mark" => Payments(Oversubscribed') \subseteq scratch'
    BY <1>3, <2>1, StepAlone DEF Visit
  <2> QED
    BY <2>2, <2>3 DEF Alone, JustOne, OverIsCurrent, ScratchIsEnough
<1>4. CASE (Mine \/ OtherLocks \/ OtherUnlocks) /\ UNCHANGED overlapped
  BY <1>1, <1>4 DEF Mine, OtherLocks, OtherUnlocks, db, local
<1> QED  BY <1>1, <1>2, <1>3, <1>4 DEF Next, Others, World, vars, db, local

\* While visits come one at a time, whatever they die of, what the table says was
\* not paid was not paid.
THEOREM VerdictsAreTrue == Spec => []NotPaidIsTruthAlone
<1>1. Init => (~overlapped => Alone)
  BY InitAlone
<1>2. VisitsOK /\ (~overlapped => Alone) /\ [Next]_vars => (~overlapped => Alone)'
  BY NextAlone
<1>3. IInv => VisitsOK
  BY DEF IInv
<1>4. (~overlapped => Alone) => NotPaidIsTruthAlone
  BY DEF Alone, NotPaidIsTruthAlone
<1> QED  BY <1>1, <1>2, <1>3, <1>4, AlwaysIInv, PTL DEF Spec

----------------------------------------------------------------------------
\* What the table says of a vote is what the vote was.
PassedIsPassed == \A p \in Proposals : status[p] \in {"passed", "not paid"} => p \in Passed

LEMMA AskedIsSum == \A proposals : Asked(proposals) = Sum(AmountOf, proposals)
BY DEF Asked, Sum

\* Fewer proposals ask for no more.
LEMMA AskedMonotone ==
  ASSUME NEW A, NEW B, A \subseteq B, B \subseteq Proposals
  PROVE  Asked(A) \in Nat /\ Asked(B) \in Nat /\ Asked(A) <= Asked(B)
<1>1. IsFiniteSet(B) /\ \A p \in B : AmountOf[p] \in Nat
  BY Constants, FS_Subset
<1> QED  BY <1>1, AskedIsSum, SumMonotone

LEMMA MoreThan ==
  ASSUME NEW a \in Nat, NEW b \in Nat, NEW c \in Nat, a > c, a <= b
  PROVE  b > c
OBVIOUS

LEMMA NotMore ==
  ASSUME NEW a \in Nat, NEW c \in Nat, ~(a > c)
  PROVE  a <= c
OBVIOUS

LEMMA PassedIsPassedStep ==
  ASSUME VisitsOK, PassedIsPassed, [Next]_vars
  PROVE  PassedIsPassed'
<1>1. CASE UNCHANGED status
  BY <1>1 DEF PassedIsPassed
<1>2. ASSUME NEW r \in Requests, CommitProposals(r), ~Die(r) PROVE PassedIsPassed'
  BY <1>2 DEF PassedIsPassed, CommitProposals
<1>3. ASSUME NEW r \in Requests, Mark(r), ~Die(r) PROVE PassedIsPassed'
  BY <1>3 DEF PassedIsPassed, Mark, Unpaid
<1>4. ASSUME NEW r \in Requests, Step(r) PROVE PassedIsPassed'
  BY <1>1, <1>2, <1>3, <1>4 DEF Step, GetHeight, List, Insert, InsertRefused, MoveLast, Clear, Collect,
     Fill, Save, Die, db
<1> QED
  BY <1>1, <1>4 DEF Next, Others, World, OtherLocks, OtherUnlocks, Visit, Mine, Abort, Die, vars, db

\* A row is marked where the rows that passed ask for more than the budget; so all
\* that passed there do.
LEMMA CoveredStep ==
  ASSUME VisitsOK, PassedIsPassed, CoveredSuperblocksUntouched, [Next]_vars
  PROVE  CoveredSuperblocksUntouched'
<1>1. CASE \A p \in Proposals : status'[p] = "not paid" => status[p] = "not paid"
  BY <1>1 DEF CoveredSuperblocksUntouched
<1>2. ASSUME NEW r \in Requests, Mark(r), ~Die(r) PROVE CoveredSuperblocksUntouched'
  <2> SUFFICES ASSUME NEW p \in Proposals, status'[p] = "not paid"
               PROVE  Asked({q \in Passed : SuperblockOf[q] = SuperblockOf[p]}) > Budget
    BY DEF CoveredSuperblocksUntouched
  <2>1. CASE p \notin Unpaid
    BY <1>2, <2>1 DEF Mark, CoveredSuperblocksUntouched
  <2>2. CASE p \in Unpaid
    <3> DEFINE marked == {q \in Proposals : SuperblockOf[q] = SuperblockOf[p] /\ status[q] = "passed"}
               all    == {q \in Passed : SuperblockOf[q] = SuperblockOf[p]}
    <3>1. Asked(marked) > Budget
      <4>1. SuperblockOf[p] \in Oversubscribed
        BY <2>2 DEF Unpaid
      <4> QED  BY <4>1 DEF Oversubscribed
    <3>2. marked \subseteq all /\ all \subseteq Proposals
      BY Constants DEF PassedIsPassed
    <3>3. Asked(marked) \in Nat /\ Asked(all) \in Nat /\ Asked(marked) <= Asked(all)
      BY <3>2, AskedMonotone
    <3>4. Budget \in Nat
      BY Constants
    <3> HIDE DEF marked, all
    <3>5. Asked(all) > Budget
      BY <3>1, <3>3, <3>4, MoreThan
    <3> QED  BY <3>5 DEF all
  <2> QED  BY <2>1, <2>2
<1>3. ASSUME NEW r \in Requests, CommitProposals(r), ~Die(r) PROVE CoveredSuperblocksUntouched'
  BY <1>1, <1>3 DEF CommitProposals
<1>4. ASSUME NEW r \in Requests, Step(r) PROVE CoveredSuperblocksUntouched'
  BY <1>1, <1>2, <1>3, <1>4 DEF Step, GetHeight, List, Insert, InsertRefused, MoveLast, Clear, Collect,
     Fill, Save, Die, db
<1> QED
  BY <1>1, <1>4 DEF Next, Others, World, OtherLocks, OtherUnlocks, Visit, Mine, Abort, Die, vars, db

\* However visits interleave, "not paid" appears only where what passed asks for more
\* than a superblock pays: the UPDATE goes by the sum of the rows there are, which is
\* at most the sum of all that passed.
THEOREM CoveredStaysPaid == Spec => []CoveredSuperblocksUntouched
<1>1. Init => PassedIsPassed /\ CoveredSuperblocksUntouched
  BY DEF Init, PassedIsPassed, CoveredSuperblocksUntouched
<1>2. VisitsOK /\ PassedIsPassed /\ [Next]_vars => PassedIsPassed'
  BY PassedIsPassedStep
<1>3. VisitsOK /\ PassedIsPassed /\ CoveredSuperblocksUntouched /\ [Next]_vars
        => CoveredSuperblocksUntouched'
  BY CoveredStep
<1>4. IInv => VisitsOK
  BY DEF IInv
<1> QED  BY <1>1, <1>2, <1>3, <1>4, AlwaysIInv, PTL DEF Spec

----------------------------------------------------------------------------
\* What a visit alone shows as paid.

\* Scratch never holds anything else than payments.
ScratchIsPaid == scratch \subseteq {Payment(p) : p \in Paid}

\* Superblocks that the open transaction of a visit is to complete.
Reached(r) == (last[r] + 1)..ht[r]

\* No superblock is recorded that the chain, or a visit that is to record one, has not seen.
NotAhead ==
  /\ lastproposal <= height
  /\ \A r \in Requests :
       /\ pc[r] \in {"read", "insert", "commit"} => lastproposal <= ht[r]
       /\ pc[r] \in {"insert", "commit"} => last[r] = lastproposal

\* A visit inserts nothing but what the table lacks of the superblocks it reached, and
\* all of it that is not refused.
Inserts(r, proposals) ==
  \A p \in Proposals : status[p] = "absent" =>
    /\ p \in proposals => SuperblockOf[p] \in Reached(r)
    /\ SuperblockOf[p] \in Reached(r) => p \in proposals \union refused

InsertsAll ==
  \A r \in Requests :
    /\ pc[r] = "insert" => Inserts(r, rows[r] \union txn[r])
    /\ pc[r] = "commit" => Inserts(r, txn[r])
    /\ \A p \in txn[r] : status[p] = "absent" /\ pc[r] \in {"insert", "commit"}

\* Where superblocks are recorded, none is in the table before.
NothingAbove == Seeded => \A p \in Proposals : SuperblockOf[p] > lastproposal => status[p] = "absent"

\* So what was not refused of a superblock is in the table as a whole: not yet, as its
\* votes went, or as the join tells who was paid.
Verdict(p) == IF \E q \in Paid : Payment(q) = Payment(p) THEN "passed" ELSE "not paid"

AsAWhole ==
  \A s \in Superblocks :
    \/ Piecemeal(s)
    \/ \A p \in Summed(s) : status[p] = "absent"
    \/ \A p \in Summed(s) : status[p] = "passed"
    \/ \A p \in Summed(s) : status[p] = Verdict(p)

AloneWhole == NotAhead /\ InsertsAll /\ NothingAbove /\ AsAWhole

LEMMA InitWhole == Init => AloneWhole /\ ScratchIsPaid
<1> SUFFICES ASSUME Init PROVE AloneWhole /\ ScratchIsPaid
  OBVIOUS
<1>1. NotAhead /\ InsertsAll /\ NothingAbove /\ ScratchIsPaid
  BY Constants DEF Init, NotAhead, InsertsAll, NothingAbove, ScratchIsPaid
<1>2. AsAWhole
  BY Constants DEF Init, AsAWhole, Summed
<1> QED  BY <1>1, <1>2 DEF AloneWhole

LEMMA ScratchStep ==
  ASSUME VisitsOK, ScratchIsPaid, [Next]_vars
  PROVE  ScratchIsPaid'
<1>1. CASE scratch' \subseteq scratch
  BY <1>1 DEF ScratchIsPaid
<1>2. ASSUME NEW r \in Requests, Save(r), ~Die(r) PROVE ScratchIsPaid'
  BY <1>2 DEF ScratchIsPaid, Save, ScratchSaved, Payments
<1>3. ASSUME NEW r \in Requests, Step(r) PROVE ScratchIsPaid'
  BY <1>1, <1>2, <1>3 DEF Step, GetHeight, List, Insert, InsertRefused, MoveLast, CommitProposals,
     Clear, Collect, Fill, Mark, Die, db
<1> QED
  BY <1>1, <1>3 DEF Next, Others, World, OtherLocks, OtherUnlocks, Visit, Mine, Abort, Die, vars, db

\* A superblock that a height has reached is at or below the last one it has reached.
LEMMA ReachedIsRecorded ==
  ASSUME NEW p \in Proposals, NEW h \in Nat, SuperblockOf[p] <= h
  PROVE  SuperblockOf[p] <= LastSuperblock(h)
<1> DEFINE k == SuperblockOf[p] \div Cycle
           n == h \div Cycle
<1>1. Cycle \in Nat /\ Cycle > 0 /\ SuperblockOf[p] \in Nat
  BY Constants
<1>2. SuperblockOf[p] % Cycle = 0
  BY ChainAssumption
<1>3. SuperblockOf[p] = k * Cycle /\ k \in Nat
  BY <1>1, <1>2
<1>4. n \in Nat /\ h < (n + 1) * Cycle
  BY <1>1
<1>5. k <= n
  <2> SUFFICES ASSUME k >= n + 1 PROVE FALSE
    BY <1>3, <1>4
  <2>1. \A i, j, c \in Nat : i >= j => i * c >= j * c
    OBVIOUS
  <2>2. n + 1 \in Nat
    BY <1>4
  <2> HIDE DEF k, n
  <2>3. k * Cycle >= (n + 1) * Cycle
    BY <1>1, <1>3, <2>1, <2>2
  <2> QED  BY <1>1, <1>3, <1>4, <2>3
<1>6. k * Cycle <= n * Cycle
  <2>1. \A i, j, c \in Nat : i <= j => i * c <= j * c
    OBVIOUS
  <2> HIDE DEF k, n
  <2> QED  BY <1>1, <1>3, <1>4, <1>5, <2>1
<1> QED  BY <1>3, <1>6 DEF LastSuperblock

LEMMA AheadStep ==
  ASSUME NEW r \in Requests, DatabaseOK, VisitsOK, NotAhead, ht[r] <= height,
         \A q \in Requests \ {r} : pc[q] = "idle", Step(r) \/ Abort(r)
  PROVE  NotAhead'
<1> USE DEF VisitsOK, NotAhead, Goto, db
<1>1. CASE Die(r)
  BY <1>1 DEF Die
<1>2. CASE GetHeight(r)
  BY <1>2 DEF GetHeight
<1>3. CASE List(r)
  BY <1>3 DEF List
<1>4. ASSUME NEW p \in Proposals, Insert(r, p) \/ InsertRefused(r, p) PROVE NotAhead'
  BY <1>4 DEF Insert, InsertRefused
<1>5. CASE MoveLast(r) /\ ~Die(r)
  BY <1>5 DEF MoveLast
<1>6. CASE CommitProposals(r) /\ ~Die(r)
  <2>1. ht[r] \in Nat /\ height \in Nat /\ lastproposal \in Nat
    <3>1. ht[r] \in 0..MaxHeight /\ height \in 0..MaxHeight /\ lastproposal \in 0..MaxHeight
      BY DEF DatabaseOK
    <3> QED  BY <3>1, Constants
  <2>2. LastSuperblock(ht[r]) \in Nat /\ LastSuperblock(ht[r]) <= ht[r]
    BY <2>1, LastIsBelow
  <2>3. lastproposal' <= height' /\ \A q \in Requests : pc'[q] \in {"clear", "idle"}
    BY <1>6, <2>1, <2>2 DEF CommitProposals
  <2> QED  BY <2>3
<1>7. CASE (Clear(r) \/ Collect(r) \/ Fill(r) \/ Save(r) \/ Mark(r)) /\ ~Die(r)
  BY <1>7 DEF Clear, Collect, Fill, Save, Mark
<1> QED  BY <1>1, <1>2, <1>3, <1>4, <1>5, <1>6, <1>7 DEF Step, Abort

LEMMA InsertsStep ==
  ASSUME NEW r \in Requests, DatabaseOK, VisitsOK, InsertsAll,
         \A q \in Requests \ {r} : pc[q] = "idle", Step(r) \/ Abort(r)
  PROVE  InsertsAll'
<1> USE DEF VisitsOK, InsertsAll, Inserts, Reached, Goto, db
<1>1. CASE Die(r)
  BY <1>1 DEF Die
<1>2. CASE GetHeight(r)
  BY <1>2 DEF GetHeight
<1>3. CASE List(r)
  BY <1>3 DEF List, Past
<1>4. ASSUME NEW p \in Proposals, Insert(r, p) PROVE InsertsAll'
  BY <1>4 DEF Insert
<1>5. ASSUME NEW p \in Proposals, InsertRefused(r, p) PROVE InsertsAll'
  BY <1>5 DEF InsertRefused
<1>6. CASE MoveLast(r) /\ ~Die(r)
  BY <1>6 DEF MoveLast
<1>7. CASE CommitProposals(r) /\ ~Die(r)
  BY <1>7 DEF CommitProposals
<1>8. CASE (Clear(r) \/ Collect(r) \/ Fill(r) \/ Save(r)) /\ ~Die(r)
  BY <1>8 DEF Clear, Collect, Fill, Save
<1>9. CASE Mark(r) /\ ~Die(r)
  <2>1. \A q \in Requests : txn'[q] = {} /\ pc'[q] = "idle"
    BY <1>9 DEF Mark
  <2> QED  BY <2>1
<1> QED
  BY <1>1, <1>2, <1>3, <1>4, <1>5, <1>6, <1>7, <1>8, <1>9 DEF Step, Abort

\* What a COMMIT does to the rows: those that the table lacked of the superblocks
\* reached, but for refused ones, and no others.
LEMMA Committed ==
  ASSUME NEW r \in Requests, InsertsAll, CommitProposals(r), ~Die(r), NEW p \in Proposals
  PROVE  /\ p \in txn[r] => status[p] = "absent" /\ SuperblockOf[p] \in Reached(r)
         /\ status[p] = "absent" /\ SuperblockOf[p] \in Reached(r) => p \in txn[r] \union refused
         /\ status'[p] = IF p \notin txn[r] THEN status[p]
                         ELSE IF p \in Passed THEN "passed" ELSE "failed"
         /\ lastproposal' = IF Seeded THEN LastSuperblock(ht[r]) ELSE lastproposal
         /\ UNCHANGED refused
BY DEF InsertsAll, Inserts, CommitProposals

\* The superblocks recorded after the COMMIT are those recorded before and those reached.
LEMMA RecordedByCommit ==
  ASSUME NEW r \in Requests, DatabaseOK, VisitsOK, NotAhead, InsertsAll, Seeded,
         CommitProposals(r), ~Die(r), NEW p \in Proposals
  PROVE  SuperblockOf[p] <= lastproposal' <=>
           SuperblockOf[p] <= lastproposal \/ SuperblockOf[p] \in Reached(r)
<1>1. lastproposal' = LastSuperblock(ht[r]) /\ last[r] = lastproposal /\ lastproposal <= ht[r]
  BY DEF CommitProposals, NotAhead
<1>2. ht[r] \in Nat /\ lastproposal \in Nat /\ SuperblockOf[p] \in Nat
  <2>1. ht[r] \in 0..MaxHeight /\ lastproposal \in 0..MaxHeight /\ SuperblockOf[p] \in 1..MaxHeight
    BY Constants DEF DatabaseOK, VisitsOK
  <2> QED  BY <2>1, Constants
<1>3. LastSuperblock(ht[r]) \in Nat /\ LastSuperblock(ht[r]) <= ht[r]
  BY <1>2, LastIsBelow
<1>4. SuperblockOf[p] <= ht[r] => SuperblockOf[p] <= LastSuperblock(ht[r])
  BY <1>2, ReachedIsRecorded
<1> QED  BY <1>1, <1>2, <1>3, <1>4 DEF Reached

LEMMA AboveAtCommit ==
  ASSUME NEW r \in Requests, DatabaseOK, VisitsOK, NotAhead, InsertsAll, NothingAbove,
         CommitProposals(r), ~Die(r)
  PROVE  NothingAbove'
<1> SUFFICES ASSUME Seeded, NEW p \in Proposals, SuperblockOf[p] > lastproposal'
             PROVE  status'[p] = "absent"
  BY DEF NothingAbove
<1>1. SuperblockOf[p] \in Nat /\ lastproposal \in Nat /\ lastproposal' \in Nat
  <2>1. lastproposal \in 0..MaxHeight /\ SuperblockOf[p] \in 1..MaxHeight /\ ht[r] \in 0..MaxHeight
    BY Constants DEF DatabaseOK, VisitsOK
  <2>2. LastSuperblock(ht[r]) \in Nat
    BY <2>1, Constants, LastIsBelow
  <2> QED  BY <2>1, <2>2, Constants, Committed
<1>2. ~(SuperblockOf[p] <= lastproposal) /\ SuperblockOf[p] \notin Reached(r)
  BY <1>1, RecordedByCommit
<1> QED  BY <1>1, <1>2, Committed DEF NothingAbove

LEMMA WholeAtCommit ==
  ASSUME NEW r \in Requests, DatabaseOK, VisitsOK, AloneWhole, CommitProposals(r), ~Die(r)
  PROVE  AsAWhole'
<1> SUFFICES ASSUME NEW s \in Superblocks, ~Piecemeal(s)'
             PROVE  \/ \A p \in Summed(s)' : status'[p] = "absent"
                    \/ \A p \in Summed(s)' : status'[p] = "passed"
                    \/ \A p \in Summed(s)' : status'[p] = Verdict(p)
  BY DEF AsAWhole, Verdict
<1>1. ~Piecemeal(s)
  BY Committed, Constants DEF Piecemeal, CommitProposals
<1>2. \/ \A p \in Summed(s) : status[p] = "absent"
      \/ \A p \in Summed(s) : status[p] = "passed"
      \/ \A p \in Summed(s) : status[p] = Verdict(p)
  BY <1>1 DEF AloneWhole, AsAWhole
<1>3. \A p \in Passed : p \in Proposals
  BY Constants
<1>4. CASE s \in Reached(r) /\ Seeded
  <2> SUFFICES ASSUME NEW p \in Summed(s)' PROVE status'[p] = "passed"
    OBVIOUS
  <2>1. p \in Passed /\ p \in Proposals /\ SuperblockOf[p] = s /\ p \notin Late'
    BY <1>3 DEF Summed
  <2>2. status[p] = "absent"
    <3>1. SuperblockOf[p] > lastproposal
      <4>1. last[r] = lastproposal
        BY DEF AloneWhole, NotAhead, CommitProposals
      <4>2. lastproposal \in 0..MaxHeight /\ ht[r] \in 0..MaxHeight /\ MaxHeight \in Nat
        BY Constants DEF DatabaseOK, VisitsOK
      <4>3. SuperblockOf[p] \in (lastproposal + 1)..ht[r]
        BY <1>4, <2>1, <4>1 DEF Reached
      <4> QED  BY <4>2, <4>3
    <3> QED  BY <1>4, <2>1, <3>1 DEF AloneWhole, NothingAbove
  <2>3. SuperblockOf[p] <= lastproposal'
    BY <1>4, <2>1, RecordedByCommit DEF AloneWhole
  <2>4. p \in txn[r]
    <3>1. p \in txn[r] \union refused
      BY <1>4, <2>1, <2>2, Committed DEF AloneWhole
    <3>2. p \in refused /\ p \notin txn[r] => p \in Late'
      BY <2>1, <2>2, <2>3, Committed DEF Late, AloneWhole
    <3> QED  BY <2>1, <3>1, <3>2
  <2> QED  BY <2>1, <2>4, Committed DEF AloneWhole
<1>5. CASE s \notin Reached(r)
  <2>1. \A p \in Proposals : SuperblockOf[p] = s => status'[p] = status[p]
    BY <1>5, Committed DEF AloneWhole
  <2>2. \A p \in Proposals : SuperblockOf[p] = s /\ p \in Late => p \in Late'
    <3> SUFFICES ASSUME NEW p \in Proposals, SuperblockOf[p] = s, p \in Late PROVE p \in Late'
      OBVIOUS
    <3>1. p \in refused' /\ status'[p] = "absent" /\ SuperblockOf[p] <= lastproposal
      BY <2>1, Committed DEF Late, AloneWhole
    <3>2. SuperblockOf[p] <= lastproposal'
      BY <3>1, RecordedByCommit, Committed DEF AloneWhole
    <3> QED  BY <3>1, <3>2 DEF Late
  <2>3. \A p \in Summed(s)' : p \in Summed(s) /\ status'[p] = status[p]
    BY <1>3, <2>1, <2>2 DEF Summed
  <2> QED  BY <1>2, <2>3
<1>6. CASE s \in Reached(r) /\ ~Seeded
  <2>1. \A p \in Proposals : SuperblockOf[p] = s => p \notin refused
    BY <1>1, <1>6 DEF Piecemeal
  <2>2. \A p \in Summed(s)' : p \in Proposals /\ p \in Passed /\ SuperblockOf[p] = s
    BY <1>3 DEF Summed
  <2>3. \A p \in Summed(s)' : p \in Summed(s)
    BY <2>1, <2>2 DEF Summed, Late
  <2>4. \A p \in Summed(s)' : status'[p] = IF status[p] = "absent" THEN "passed" ELSE status[p]
    BY <1>6, <2>1, <2>2, Committed DEF AloneWhole
  <2>5. \A p \in Summed(s)' : Verdict(p) # "absent"
    BY DEF Verdict
  <2> QED  BY <1>2, <2>3, <2>4, <2>5
<1> QED  BY <1>4, <1>5, <1>6

LEMMA WholeAtMark ==
  ASSUME NEW r \in Requests, AloneWhole, Alone, DatabaseOK, ScratchIsPaid, Mark(r), ~Die(r)
  PROVE  AsAWhole'
<1>1. \A p \in Proposals : status'[p] = IF p \in Unpaid THEN "not paid" ELSE status[p]
  BY DEF Mark
<1>2. Late' = Late
  <2>1. \A p \in Unpaid : status[p] # "absent"
    BY DEF Unpaid
  <2>2. \A p \in refused : p \in Proposals
    BY DEF DatabaseOK
  <2>3. UNCHANGED <<refused, lastproposal>>
    BY DEF Mark
  <2> QED  BY <1>1, <2>1, <2>2, <2>3 DEF Late
<1> SUFFICES ASSUME NEW s \in Superblocks, ~Piecemeal(s)
             PROVE  \/ \A p \in Summed(s) : status'[p] = "absent"
                    \/ \A p \in Summed(s) : status'[p] = "passed"
                    \/ \A p \in Summed(s) : status'[p] = Verdict(p)
  BY <1>2 DEF AsAWhole, Summed, Verdict, Piecemeal, Mark
<1>3. \A p \in Summed(s) : p \in Proposals /\ p \in Passed /\ SuperblockOf[p] = s
  BY Constants DEF Summed
<1>4. Payments(Oversubscribed) \subseteq scratch
  BY DEF Alone, ScratchIsEnough, Mark
<1>5. \A p \in Summed(s) :
        status'[p] = IF status[p] = "passed" /\ s \in Oversubscribed THEN Verdict(p) ELSE status[p]
  <2> SUFFICES ASSUME NEW p \in Summed(s)
               PROVE  status'[p] = IF status[p] = "passed" /\ s \in Oversubscribed
                                   THEN Verdict(p) ELSE status[p]
    OBVIOUS
  <2>1. CASE status[p] = "passed" /\ s \in Oversubscribed
    <3>1. ASSUME NEW q \in Paid, Payment(q) = Payment(p) PROVE Payment(p) \in scratch
      <4>1. SuperblockOf[q] = s
        BY <1>3, <3>1 DEF Payment
      <4> QED  BY <1>4, <2>1, <3>1, <4>1 DEF Payments
    <3>2. Payment(p) \in scratch <=> \E q \in Paid : Payment(q) = Payment(p)
      BY <3>1 DEF ScratchIsPaid
    <3> QED  BY <1>1, <1>3, <2>1, <3>2 DEF Unpaid, Verdict
  <2>2. CASE ~(status[p] = "passed" /\ s \in Oversubscribed)
    BY <1>1, <1>3, <2>2 DEF Unpaid
  <2> QED  BY <2>1, <2>2
<1>6. \/ \A p \in Summed(s) : status[p] = "absent"
      \/ \A p \in Summed(s) : status[p] = "passed"
      \/ \A p \in Summed(s) : status[p] = Verdict(p)
  BY DEF AloneWhole, AsAWhole
<1> QED  BY <1>5, <1>6

LEMMA AboveAtMark ==
  ASSUME NEW r \in Requests, NothingAbove, Mark(r), ~Die(r)
  PROVE  NothingAbove'
BY DEF NothingAbove, Mark, Unpaid

\* What a refusal leaves is at most what there was.
LEMMA WholeAtOthers ==
  ASSUME AloneWhole, UNCHANGED <<status, lastproposal>>, refused \subseteq refused'
  PROVE  AsAWhole' /\ NothingAbove'
<1>1. NothingAbove'
  BY DEF AloneWhole, NothingAbove
<1>2. Late \subseteq Late'
  BY DEF Late
<1>3. ASSUME NEW s \in Superblocks PROVE Summed(s)' \subseteq Summed(s) /\ (Piecemeal(s) => Piecemeal(s)')
  BY <1>2 DEF Summed, Piecemeal
<1>4. AsAWhole'
  BY <1>3 DEF AloneWhole, AsAWhole, Verdict
<1> QED  BY <1>1, <1>4

LEMMA WholeStep ==
  ASSUME NEW r \in Requests, DatabaseOK, VisitsOK, ScratchIsPaid, Alone, AloneWhole, ht[r] <= height,
         \A q \in Requests \ {r} : pc[q] = "idle", Step(r) \/ Abort(r)
  PROVE  AloneWhole'
<1>1. NotAhead' /\ InsertsAll'
  BY AheadStep, InsertsStep DEF AloneWhole
<1>2. CASE UNCHANGED <<status, lastproposal>> /\ refused \subseteq refused'
  BY <1>1, <1>2, WholeAtOthers DEF AloneWhole
<1>3. CASE CommitProposals(r) /\ ~Die(r)
  BY <1>1, <1>3, WholeAtCommit, AboveAtCommit DEF AloneWhole
<1>4. CASE Mark(r) /\ ~Die(r)
  BY <1>1, <1>4, WholeAtMark, AboveAtMark DEF AloneWhole
<1>5. \/ UNCHANGED <<status, lastproposal>> /\ refused \subseteq refused'
      \/ CommitProposals(r) /\ ~Die(r)
      \/ Mark(r) /\ ~Die(r)
  BY DEF Step, Abort, GetHeight, List, Insert, InsertRefused, MoveLast, Clear, Collect, Fill,
     Save, Die, db
<1> QED  BY <1>2, <1>3, <1>4, <1>5

\* A height that was asked for is none to come.
HeightsWereSeen == \A r \in Requests : ht[r] <= height

LEMMA HeightsStep ==
  ASSUME DatabaseOK, VisitsOK, HeightsWereSeen, [Next]_vars
  PROVE  HeightsWereSeen'
<1> USE DEF HeightsWereSeen, VisitsOK
<1>1. height \in Nat /\ \A r \in Requests : ht[r] \in Nat
  <2>1. height \in 0..MaxHeight /\ \A r \in Requests : ht[r] \in 0..MaxHeight
    BY DEF DatabaseOK
  <2> QED  BY <2>1, Constants
<1>2. CASE Mine
  <2>1. height' = height + 1 /\ ht' = ht
    BY <1>2 DEF Mine, local
  <2> QED  BY <1>1, <2>1
<1>3. ASSUME NEW r \in Requests, Step(r) \/ Abort(r) PROVE HeightsWereSeen'
  <2>1. height' = height /\ \A q \in Requests : ht'[q] \in {0, ht[q], height}
    BY <1>3 DEF Step, Abort, GetHeight, List, Insert, InsertRefused, MoveLast, CommitProposals,
       Clear, Collect, Fill, Save, Mark, Die
  <2> QED  BY <1>1, <2>1
<1>4. CASE UNCHANGED <<height, ht>>
  BY <1>4
<1> QED
  BY <1>2, <1>3, <1>4 DEF Next, Others, World, OtherLocks, OtherUnlocks, Visit, vars, local

LEMMA NextWhole ==
  ASSUME DatabaseOK, VisitsOK, ScratchIsPaid, HeightsWereSeen, ~overlapped => Alone /\ AloneWhole,
         [Next]_vars
  PROVE  ~overlapped' => AloneWhole'
<1> SUFFICES ASSUME ~overlapped' PROVE AloneWhole'
  OBVIOUS
<1>1. ASSUME UNCHANGED <<status, lastproposal, refused, pc, last, ht, rows, txn, overlapped>>,
             height' \in {height, height + 1}
      PROVE  AloneWhole'
  <2>1. lastproposal <= height /\ height \in Nat /\ lastproposal \in Nat
    <3>1. height \in 0..MaxHeight /\ lastproposal \in 0..MaxHeight
      BY DEF DatabaseOK
    <3> QED  BY <1>1, <3>1, Constants DEF AloneWhole, NotAhead
  <2>2. NotAhead'
    BY <1>1, <2>1 DEF AloneWhole, NotAhead
  <2>3. InsertsAll'
    BY <1>1 DEF AloneWhole, InsertsAll, Inserts, Reached
  <2> QED  BY <1>1, <2>2, <2>3, WholeAtOthers DEF AloneWhole
<1>2. ASSUME NEW r \in Requests, (Abort(r) /\ UNCHANGED overlapped) \/ Visit(r) PROVE AloneWhole'
  <2>1. ~overlapped /\ (Step(r) \/ Abort(r))
    <3>1. CASE Visit(r)
      BY <3>1, Zenon DEF Visit, Overlap
    <3>2. CASE Abort(r) /\ UNCHANGED overlapped
      BY <3>2
    <3> QED  BY <1>2, <3>1, <3>2
  <2>2. \A q \in Requests \ {r} : pc[q] = "idle"
    <3>1. CASE Visit(r)
      BY <3>1, Zenon DEF Visit, Overlap
    <3>2. CASE Abort(r)
      BY <2>1, <3>2 DEF Abort, Alone, JustOne
    <3> QED  BY <1>2, <3>1, <3>2
  <2> QED  BY <2>1, <2>2, WholeStep DEF HeightsWereSeen
<1>3. CASE Others
  <2>1. CASE (Mine \/ OtherLocks \/ OtherUnlocks) /\ UNCHANGED overlapped
    BY <1>1, <2>1 DEF Mine, OtherLocks, OtherUnlocks, db, local
  <2> QED  BY <1>2, <1>3, <2>1 DEF Others, World
<1>4. CASE UNCHANGED vars
  BY <1>1, <1>4 DEF vars, db, local
<1> QED  BY <1>2, <1>3, <1>4 DEF Next

\* What the UPDATE leaves as passed in a superblock is what was paid there, or has a
\* paid twin; or the superblock was left as its votes went, and then its sum was within
\* the budget.
LEMMA ShownStep ==
  ASSUME ScratchIsPaid, PassedIsPassed, AsAWhole, NEW r \in Requests, Mark(r), MayRunAlone(r),
         NEW p \in Proposals, status'[p] = "passed"
  PROVE  p \in Paid \/ Overlooked(p)
<1> SUFFICES ASSUME p \notin Paid, ~HasPaidTwin(p), ~Piecemeal(SuperblockOf[p])
             PROVE  Asked(Summed(SuperblockOf[p])) <= Budget
  BY DEF Overlooked
<1> DEFINE s == SuperblockOf[p]
           there == {q \in Proposals : SuperblockOf[q] = s /\ status[q] = "passed"}
<1>1. status[p] = "passed" /\ p \notin Unpaid
  BY DEF Mark
<1>2. p \in Summed(s) /\ s \in Superblocks
  BY <1>1 DEF PassedIsPassed, Superblocks, Summed, Late
<1>3. \A q \in Paid : Payment(q) # Payment(p)
  BY DEF HasPaidTwin, Payment
<1>4. Payment(p) \notin scratch
  BY <1>3 DEF ScratchIsPaid
<1>5. s \notin Oversubscribed
  BY <1>1, <1>4 DEF Unpaid
<1>6. \A q \in Summed(s) : status[q] = "passed"
  <2>1. status[p] # "absent" /\ status[p] # Verdict(p)
    BY <1>1, <1>3 DEF Verdict
  <2> QED  BY <1>2, <2>1 DEF AsAWhole
<1>7. there = Summed(s)
  BY <1>6, Constants DEF Summed, Late, PassedIsPassed
<1>8. ~(Asked(there) > Budget)
  BY <1>2, <1>5 DEF Oversubscribed
<1>9. Asked(there) \in Nat /\ Budget \in Nat
  BY AskedMonotone, Constants
<1> HIDE DEF there
<1>10. Asked(there) <= Budget
  BY <1>8, <1>9, NotMore
<1> QED  BY <1>7, <1>10

LEMMA OverlapStays == ASSUME [Next]_vars, ~overlapped' PROVE ~overlapped
<1>1. CASE UNCHANGED overlapped
  BY <1>1
<1>2. ASSUME NEW r \in Requests, Visit(r) PROVE ~overlapped
  BY <1>2, Zenon DEF Visit, Overlap
<1> QED  BY <1>1, <1>2 DEF Next, Others, vars

\* While visits come one at a time, the page counts as paid only what was paid or what
\* one of the three reasons explains, whatever the other pages' writes refuse, and also
\* after a visit that recorded proposals and died before it marked any.
THEOREM ShownWasPaid == Spec => ShownAsPaidWasPaid
<1> DEFINE J == /\ ~overlapped => Alone
                /\ ~overlapped => AloneWhole
                /\ ScratchIsPaid /\ PassedIsPassed /\ HeightsWereSeen
<1>1. Init => J
  BY InitAlone, InitWhole DEF Init, PassedIsPassed, HeightsWereSeen
<1>2. DatabaseOK /\ VisitsOK /\ J /\ [Next]_vars => J'
  BY NextAlone, NextWhole, ScratchStep, PassedIsPassedStep, HeightsStep
<1>3. J /\ [Next]_vars
      => [\A r \in Requests :
            Mark(r) /\ MayRunAlone(r) /\ ~overlapped' =>
              \A p \in Proposals : status'[p] = "passed" => p \in Paid \/ Overlooked(p)]_vars
  BY OverlapStays, ShownStep DEF AloneWhole
<1>4. IInv => DatabaseOK /\ VisitsOK
  BY DEF IInv
<1> QED  BY <1>1, <1>2, <1>3, <1>4, AlwaysIInv, PTL DEF Spec, ShownAsPaidWasPaid
=============================================================================

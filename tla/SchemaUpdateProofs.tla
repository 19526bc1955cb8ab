------------------------- MODULE SchemaUpdateProofs -------------------------
(***************************************************************************)
(* Proofs about SchemaUpdate, for every number of visits and every state   *)
(* of the installation.                                                    *)
(***************************************************************************)
EXTENDS SchemaUpdate, TLAPS

\* What a visit has read is backed too: the schema never loses what a version
\* needs, so a version once recorded stays backed, however stale it is.
SeenIsBacked ==
  \A r \in Requests : seen[r] \in Versions => Needs(seen[r]) \subseteq schema

StepsInRange == \A r \in Requests : pc[r] = "commit" => seen[r] \in 0..(Last - 1)

IInv == TypeOK /\ StepsInRange /\ VersionIsBacked /\ SeenIsBacked

----------------------------------------------------------------------------
(* The migrations.                                                         *)

LEMMA StepCases == \A v \in 0..(Last - 1) : v \in {0, 1, 2, 3, 4, 5}
BY DEF Last

\* A step takes nothing away but the name "spvWallets", which no version needs ...
LEMMA AfterKeeps ==
  ASSUME NEW v \in 0..(Last - 1), NEW s, NEW x \in s, x # "spvWallets"
  PROVE  x \in After(v, s)
<1>1. CASE v = 0  BY <1>1 DEF After, Created
<1>2. CASE v = 1  BY <1>2 DEF After, Created
<1>3. CASE v = 2  BY <1>3 DEF After, Created
<1>4. CASE v = 3  BY <1>4 DEF After, Created
<1>5. CASE v = 4  BY <1>5 DEF After, Created
<1>6. CASE v = 5  BY <1>6 DEF After, Created
<1> QED  BY <1>1, <1>2, <1>3, <1>4, <1>5, <1>6, StepCases

LEMMA SpvWalletsNotNeeded ==
  ASSUME NEW k \in Versions
  PROVE  "spvWallets" \notin Needs(k)
<1>1. ASSUME NEW j \in 1..k PROVE "spvWallets" \notin Adds(j)
  <2>1. j \in {1, 2, 3, 4, 5, 6}  BY DEF Versions, Last
  <2> QED  BY <2>1 DEF Adds, Step1, Counts
<1> QED  BY <1>1 DEF Needs

LEMMA AfterKeepsNeeds ==
  ASSUME NEW v \in 0..(Last - 1), NEW k \in Versions, NEW s, Needs(k) \subseteq s
  PROVE  Needs(k) \subseteq After(v, s)
BY AfterKeeps, SpvWalletsNotNeeded

\* ... and adds what the next version needs.
LEMMA AfterAdds ==
  ASSUME NEW v \in 0..(Last - 1), NEW s
  PROVE  Adds(v + 1) \subseteq After(v, s)
<1>1. CASE v = 0  BY <1>1 DEF After, Created, Adds
<1>2. CASE v = 1  BY <1>2 DEF After, Created, Adds
<1>3. CASE v = 2  BY <1>3 DEF After, Created, Adds
<1>4. CASE v = 3  BY <1>4 DEF After, Created, Adds
<1>5. CASE v = 4  BY <1>5 DEF After, Created, Adds
<1>6. CASE v = 5  BY <1>6 DEF After, Created, Adds
<1> QED  BY <1>1, <1>2, <1>3, <1>4, <1>5, <1>6, StepCases

LEMMA NeedsSucc ==
  ASSUME NEW v \in 0..(Last - 1)
  PROVE  Needs(v + 1) = Needs(v) \union Adds(v + 1)
<1>1. 1..(v + 1) = (1..v) \union {v + 1}  BY DEF Last
<1> QED  BY <1>1 DEF Needs

LEMMA AfterAddsNeeds ==
  ASSUME NEW v \in 0..(Last - 1), NEW s, Needs(v) \subseteq s
  PROVE  Needs(v + 1) \subseteq After(v, s)
<1>1. v \in Versions  BY DEF Versions, Last
<1> QED  BY <1>1, AfterKeepsNeeds, AfterAdds, NeedsSucc

LEMMA AfterInObjects ==
  ASSUME NEW v \in 0..(Last - 1), NEW s \in SUBSET Objects
  PROVE  After(v, s) \subseteq Objects
<1>1. CASE v = 0  BY <1>1 DEF After, Created, Objects
<1>2. CASE v = 1  BY <1>2 DEF After, Created, Objects
<1>3. CASE v = 2  BY <1>3 DEF After, Created, Objects
<1>4. CASE v = 3  BY <1>4 DEF After, Created, Objects
<1>5. CASE v = 4  BY <1>5 DEF After, Created, Objects
<1>6. CASE v = 5  BY <1>6 DEF After, Created, Objects
<1> QED  BY <1>1, <1>2, <1>3, <1>4, <1>5, <1>6, StepCases

----------------------------------------------------------------------------

LEMMA InitIInv == Init => IInv
<1> SUFFICES ASSUME Init PROVE IInv
  OBVIOUS
<1>1. TypeOK
  <2>1. schema \subseteq Objects  BY DEF Init, Objects
  <2>2. page \in [Requests -> [old : Versions \union {NoStep}, new : Versions \union {NoStep}]]
    BY DEF Init, Blank
  <2>3. version \in Versions  BY DEF Init, Versions, Last
  <2>4. aborts \in 0..MaxAborts /\ others \in 0..MaxOthers  BY BoundAssumption DEF Init
  <2>5. overlapped \in BOOLEAN  BY DEF Init
  <2> QED  BY <2>1, <2>2, <2>3, <2>4, <2>5 DEF Init, TypeOK
<1>2. StepsInRange  BY DEF Init, StepsInRange
<1>3. VersionIsBacked  BY DEF Init, VersionIsBacked, Needs
<1>4. SeenIsBacked  BY DEF Init, SeenIsBacked, NoStep, Versions, Last
<1> QED  BY <1>1, <1>2, <1>3, <1>4 DEF IInv

LEMMA ReadVersionStep ==
  ASSUME IInv, NEW r \in Requests, ReadVersion(r) \/ ReadFails(r), Overlap(r)
  PROVE  IInv'
<1>1. VersionRead \in {version, NoStep} /\ {version, NoStep, 0} \subseteq Versions \union {NoStep}
  BY DEF VersionRead, IInv, TypeOK, Versions, Last
<1>2. TypeOK'
  BY <1>1 DEF IInv, TypeOK, ReadVersion, ReadFails, Overlap
<1>3. StepsInRange'
  BY DEF IInv, TypeOK, StepsInRange, ReadVersion, ReadFails
<1>4. VersionIsBacked'
  BY DEF IInv, VersionIsBacked, ReadVersion, ReadFails
<1>5. Needs(0) = {}  BY DEF Needs
<1>6. SeenIsBacked'
  BY <1>1, <1>5
  DEF IInv, TypeOK, VersionIsBacked, SeenIsBacked, ReadVersion, ReadFails, NoStep, Versions, Last
<1> QED  BY <1>2, <1>3, <1>4, <1>6 DEF IInv

LEMMA RunStepStep ==
  ASSUME IInv, NEW r \in Requests, RunStep(r), Overlap(r)
  PROVE  IInv'
<1>1. seen[r] \in 0..(Last - 1)
  BY DEF IInv, TypeOK, RunStep, Possible, Versions, NoStep, Last
<1>2. TypeOK'  BY DEF IInv, TypeOK, RunStep, Overlap
<1>3. StepsInRange'  BY <1>1 DEF IInv, TypeOK, StepsInRange, RunStep
<1>4. VersionIsBacked' /\ SeenIsBacked'
  BY DEF IInv, VersionIsBacked, SeenIsBacked, RunStep
<1> QED  BY <1>2, <1>3, <1>4 DEF IInv

LEMMA CommitStep ==
  ASSUME IInv, NEW r \in Requests, Commit(r), Overlap(r)
  PROVE  IInv'
<1>1. seen[r] \in 0..(Last - 1)  BY DEF IInv, StepsInRange, Commit
<1>2. seen[r] + 1 \in Versions  BY <1>1 DEF Versions, Last
<1>3. TypeOK'
  BY <1>1, <1>2, AfterInObjects DEF IInv, TypeOK, Commit, NewVersion, Overlap, Versions, Last
<1>4. StepsInRange'  BY DEF IInv, TypeOK, StepsInRange, Commit
<1>5. ASSUME NEW k \in Versions, Needs(k) \subseteq schema
      PROVE  Needs(k) \subseteq schema'
  BY <1>1, <1>5, AfterKeepsNeeds DEF Commit
<1>6. Needs(seen[r]) \subseteq schema
  BY <1>1 DEF IInv, SeenIsBacked, Versions, Last
<1>7. Needs(seen[r] + 1) \subseteq schema'
  BY <1>1, <1>6, AfterAddsNeeds DEF Commit
<1>8. VersionIsBacked'
  BY <1>5, <1>7 DEF IInv, TypeOK, VersionIsBacked, Commit, NewVersion
<1>9. SeenIsBacked'
  BY <1>5 DEF IInv, TypeOK, SeenIsBacked, Commit
<1> QED  BY <1>3, <1>4, <1>8, <1>9 DEF IInv

LEMMA IdleSteps ==
  ASSUME IInv, NEW r \in Requests, NothingToDo(r) \/ StepFails(r), Overlap(r)
  PROVE  IInv'
<1>1. TypeOK'
  BY LockAssumption DEF IInv, TypeOK, NothingToDo, StepFails, Die, Unlocked, Overlap
<1>2. StepsInRange'
  BY DEF IInv, TypeOK, StepsInRange, NothingToDo, StepFails, Die
<1>3. VersionIsBacked' /\ SeenIsBacked'
  BY DEF IInv, VersionIsBacked, SeenIsBacked, NothingToDo, StepFails, Die
<1> QED  BY <1>1, <1>2, <1>3 DEF IInv

LEMMA OtherSteps ==
  ASSUME IInv, Others \/ UNCHANGED vars
  PROVE  IInv'
<1>1. TypeOK'
  BY LockAssumption, BoundAssumption
  DEF IInv, TypeOK, Others, OtherLocks, OtherUnlocks, vars, Abort, Die, Unlocked
<1>2. StepsInRange'
  BY DEF IInv, TypeOK, StepsInRange, Others, OtherLocks, OtherUnlocks, vars, Abort, Die
<1>3. VersionIsBacked' /\ SeenIsBacked'
  BY DEF IInv, VersionIsBacked, SeenIsBacked, Others, OtherLocks, OtherUnlocks, vars,
         Abort, Die
<1> QED  BY <1>1, <1>2, <1>3 DEF IInv

LEMMA NextIInv == IInv /\ [Next]_vars => IInv'
<1> SUFFICES ASSUME IInv, [Next]_vars PROVE IInv'
  OBVIOUS
<1>1. CASE \E r \in Requests : Visit(r)
  BY <1>1, ReadVersionStep, RunStepStep, CommitStep, IdleSteps DEF Visit, Step
<1>2. CASE Others \/ UNCHANGED vars
  BY <1>2, OtherSteps
<1> QED  BY <1>1, <1>2 DEF Next

LEMMA AlwaysIInv == Spec => []IInv
BY InitIInv, NextIInv, PTL DEF Spec

\* Every variable of the migration keeps its range.
THEOREM TypeCorrect == Spec => []TypeOK
<1>1. IInv => TypeOK  BY DEF IInv
<1> QED  BY <1>1, AlwaysIInv, PTL

\* The recorded version never promises an object that is not there, on any
\* installation, with any number of visits and however they die.
THEOREM Backed == Spec => []VersionIsBacked
<1>1. IInv => VersionIsBacked  BY DEF IInv
<1> QED  BY <1>1, AlwaysIInv, PTL

LEMMA KeepStep ==
  ASSUME IInv, [Next]_vars, NEW k \in Versions, Needs(k) \subseteq schema
  PROVE  Needs(k) \subseteq schema'
<1>1. CASE \E r \in Requests : Commit(r)
  BY <1>1, AfterKeepsNeeds DEF IInv, StepsInRange, Commit
<1>2. CASE UNCHANGED schema  BY <1>2
<1> QED
  BY <1>1, <1>2 DEF Next, Visit, Step, Others, vars, OtherLocks, OtherUnlocks, ReadVersion,
                    ReadFails, RunStep, NothingToDo, StepFails, Abort, Die

\* No migration takes away what a version's pages need.
THEOREM NothingTakenAway == Spec => PagesKeepWorking
<1>1. IInv /\ [Next]_vars =>
        [\A k \in Versions : Needs(k) \subseteq schema => Needs(k) \subseteq schema']_vars
  BY KeepStep
<1> QED  BY <1>1, AlwaysIInv, PTL DEF Spec, PagesKeepWorking

----------------------------------------------------------------------------
(* Visits one at a time, on a database kept from an older release.         *)

SchemaOf(k) == Needs(k) \union (IF k = 2 THEN {"spvWallets"} ELSE {})

\* One visit at a time acts on the version it has read, unless the version could
\* not be read; the statements of step 0 then tell.
Alone ==
  ~overlapped =>
    /\ schema = SchemaOf(version)
    /\ \A r, s \in Requests : pc[r] # "idle" /\ pc[s] # "idle" => r = s
    /\ \A r \in Requests : pc[r] = "run" => seen[r] \in {version, 0, NoStep}
    /\ \A r \in Requests : pc[r] = "commit" => seen[r] = version

\* From the schema of its version each step leads to that of the next.
LEMMA AfterSchemaOf ==
  ASSUME NEW v \in 0..(Last - 1)
  PROVE  After(v, SchemaOf(v)) = SchemaOf(v + 1)
<1>1. Needs(0) = {}  BY DEF Needs
<1>2. Needs(v + 1) = Needs(v) \union Adds(v + 1)  BY NeedsSucc
<1>3. Needs(1) = {"events.dbversion", "events.lastproposal"}
  <2>1. Needs(0 + 1) = Needs(0) \union Adds(0 + 1)  BY NeedsSucc DEF Last
  <2> QED  BY <1>1, <2>1 DEF Adds
<1>4. "spvWallets" \notin Needs(v)  BY SpvWalletsNotNeeded DEF Versions, Last
<1>5. CASE v = 0  BY <1>1, <1>2, <1>5 DEF After, SchemaOf, Adds
<1>6. CASE v = 1
  <2>1. SchemaOf(1) = Needs(1)  BY DEF SchemaOf
  <2>2. ~SpvWalletsTaken(Needs(1))  BY <1>3 DEF SpvWalletsTaken
  <2>3. Created(Needs(1)) = Needs(1) \union Step1 \union {"spvWallets"}  BY <2>2 DEF Created
  <2>4. Adds(2) = Step1  BY DEF Adds
  <2> QED  BY <1>2, <1>6, <2>1, <2>3, <2>4 DEF After, SchemaOf
<1>7. CASE v = 2  BY <1>2, <1>4, <1>7 DEF After, SchemaOf, Adds
<1>8. CASE v = 3
  <2>1. SchemaOf(3) = Needs(3) /\ SchemaOf(4) = Needs(4)  BY DEF SchemaOf
  <2>2. Needs(4) = Needs(3) \union Adds(4)  BY <1>2, <1>8
  <2>3. After(3, Needs(3)) = Needs(3) \union Adds(4)  BY DEF After, Adds
  <2> QED  BY <1>8, <2>1, <2>2, <2>3
<1>9. CASE v = 4
  <2>1. SchemaOf(4) = Needs(4) /\ SchemaOf(5) = Needs(5)  BY DEF SchemaOf
  <2>2. Needs(5) = Needs(4) \union Counts  BY <1>2, <1>9 DEF Adds
  <2> QED  BY <1>9, <2>1, <2>2 DEF After
<1>10. CASE v = 5
  <2>1. SchemaOf(5) = Needs(5) /\ SchemaOf(6) = Needs(6)  BY DEF SchemaOf
  <2>2. Needs(6) = Needs(5) \union {"servicenodes.services"}  BY <1>2, <1>10 DEF Adds
  <2> QED  BY <1>10, <2>1, <2>2 DEF After
<1> QED  BY <1>5, <1>6, <1>7, <1>8, <1>9, <1>10, StepCases

\* Step 0 fails on the schema of any later version.
LEMMA StepZeroFails ==
  ASSUME NEW v \in Versions, v # 0
  PROVE  ~Possible(0, SchemaOf(v))
<1>1. 1 \in 1..v  BY DEF Versions, Last
<1>2. "events.dbversion" \in Adds(1)  BY DEF Adds
<1>3. "events.dbversion" \in Needs(v)  BY <1>1, <1>2 DEF Needs
<1> QED  BY <1>3 DEF Possible, SchemaOf

LEMMA InitAlone ==
  ASSUME ~FreshInstall
  PROVE  Init => Alone
<1>1. Needs(0) = {}  BY DEF Needs
<1> QED  BY <1>1 DEF Init, Alone, SchemaOf

LEMMA VisitAlone ==
  ASSUME HasRow, IInv, Alone, NEW r \in Requests, Step(r), Overlap(r)
  PROVE  Alone'
<1> SUFFICES ASSUME ~overlapped' PROVE Alone'
  BY DEF Alone
<1>1. ~overlapped /\ \A s \in Requests \ {r} : pc[s] = "idle"  BY DEF Overlap
<1> USE <1>1
<1>2. CASE ReadVersion(r) \/ ReadFails(r)
  BY <1>2 DEF Alone, IInv, TypeOK, ReadVersion, ReadFails, VersionRead
<1>3. CASE RunStep(r)
  <2>1. seen[r] \in {version, 0, NoStep} /\ Possible(seen[r], SchemaOf(version))
    BY <1>3 DEF Alone, RunStep
  <2>2. ~Possible(NoStep, SchemaOf(version))  BY DEF Possible, NoStep
  <2>3. seen[r] = version
    BY <2>1, <2>2, StepZeroFails DEF IInv, TypeOK
  <2> QED  BY <1>3, <2>3 DEF Alone, IInv, TypeOK, RunStep
<1>4. CASE Commit(r)
  <2>1. seen[r] = version /\ seen[r] \in 0..(Last - 1)
    BY <1>4 DEF Alone, IInv, StepsInRange, Commit
  <2>2. schema' = After(version, SchemaOf(version)) /\ version' = version + 1
    BY <1>4, <2>1 DEF Alone, Commit, NewVersion
  <2>3. schema' = SchemaOf(version')  BY <2>1, <2>2, AfterSchemaOf
  <2>4. \A s \in Requests : pc'[s] = "idle"  BY <1>4 DEF IInv, TypeOK, Commit
  <2> QED  BY <2>3, <2>4 DEF Alone
<1>5. CASE NothingToDo(r) \/ StepFails(r)
  BY <1>5 DEF Alone, IInv, TypeOK, NothingToDo, StepFails, Die
<1> QED  BY <1>2, <1>3, <1>4, <1>5 DEF Step

LEMMA OthersAlone ==
  ASSUME IInv, Alone, Others \/ UNCHANGED vars
  PROVE  Alone'
BY DEF IInv, TypeOK, Alone, Others, OtherLocks, OtherUnlocks, vars, Abort, Die

\* While visits come one at a time, on a database kept from an older release, its
\* schema is exactly that of the version it records, however they die and whoever
\* else takes the write lock.
THEOREM ExactSchema ==
  ASSUME ~FreshInstall, HasRow
  PROVE  Spec => []SchemaIsVersion
<1>1. IInv /\ Alone /\ [Next]_vars => Alone'
  BY VisitAlone, OthersAlone DEF Next, Visit
<1>2. Alone => SchemaIsVersion  BY DEF Alone, SchemaIsVersion, SchemaOf
<1>3. Init => Alone  BY InitAlone
<1> QED  BY <1>1, <1>2, <1>3, AlwaysIInv, PTL DEF Spec
=============================================================================

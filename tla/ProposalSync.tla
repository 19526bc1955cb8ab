---------------------------- MODULE ProposalSync ----------------------------
(***************************************************************************)
(* updatePastProposals(): the table of past proposals.                     *)
(*                                                                         *)
(* The first half lists the proposals of the superblocks since the last    *)
(* one recorded and inserts them, in one transaction.  The second half     *)
(* "polishes" them: in a superblock whose passed proposals ask for more    *)
(* than the budget some are not paid, and which ones only the block tells. *)
(* It copies the payments of those superblocks to the table "scratch" and  *)
(* marks "not paid" whatever passed and has no payment there.  Emptying    *)
(* scratch, filling it and marking are three transactions.                 *)
(*                                                                         *)
(* SQLite (rollback journal, no busy timeout): one connection writes at a  *)
(* time; a transaction that has read keeps the others from committing      *)
(* until it ends; what is locked out fails at once.  The writer may be any *)
(* page that writes to the same file, not only another visit of this one.  *)
(***************************************************************************)
EXTENDS Integers, FiniteSets, FiniteSetsExt

CONSTANTS
  Requests,      \* visits of the past proposals page that may run together
  Proposals,     \* by their hash
  SuperblockOf, AmountOf, AddressOf,  \* functions on Proposals
  Passed,        \* proposals whose vote passed
  Paid,          \* those the chain paid in their superblock
  Cycle,         \* blocks from a superblock to the next (42000)
  Budget,        \* what a superblock pays at most (30000)
  Seeded,        \* does "events" hold its row?
  Free, Other,   \* nobody holds the write lock; another page does
  MaxHeight,     \* bound: height of the chain
  MaxAborts,     \* bound: visits that die on their own
  MaxOthers      \* bound: times another page takes the write lock

ASSUME ChainAssumption ==
  /\ Cycle \in Nat \ {0} /\ Budget \in Nat /\ MaxHeight \in Nat
  /\ IsFiniteSet(Proposals)
  /\ SuperblockOf \in [Proposals -> {h \in 1..MaxHeight : h % Cycle = 0}]
  /\ AmountOf \in [Proposals -> Nat]
  /\ DOMAIN AddressOf = Proposals
  /\ Paid \subseteq Passed /\ Passed \subseteq Proposals
ASSUME OtherAssumption ==
  /\ Seeded \in BOOLEAN
  /\ Free # Other /\ Free \notin Requests /\ Other \notin Requests
  /\ MaxAborts \in Nat /\ MaxOthers \in Nat

VARIABLES
  height,        \* getblockcount()
  status,        \* "pastproposals": the status of each row, "absent" if there is none
  lastproposal,  \* "events"."lastproposal" (NULL counts as 0)
  scratch,       \* rows of "scratch"
  writer,        \* connection that holds the write lock
  pc,
  ht, last,      \* $height, $lastProposal
  rows, txn,     \* proposals to insert, and those the open transaction inserted
  over,          \* superblocks of the result of $statement1
  refused,       \* history: proposals whose INSERT found another writer
  overlapped,    \* history: has a visit run while another was under way?
  aborts, others

db    == <<status, lastproposal, scratch, writer>>
local == <<pc, ht, last, rows, txn, over>>
vars  == <<height, db, local, refused, overlapped, aborts, others>>

Steps == {"idle", "read", "insert", "commit", "clear", "collect", "fill", "save", "mark"}

\* Slip: the join does not compare addresses.
PaymentOfAmount(p) == <<SuperblockOf[p], AmountOf[p]>>

\* A payment in a superblock, as the join of the final UPDATE compares it.
Payment(p) == <<SuperblockOf[p], AmountOf[p], AddressOf[p]>>

Superblocks == {SuperblockOf[p] : p \in Proposals}

DatabaseOK ==
  /\ height \in 0..MaxHeight
  /\ status \in [Proposals -> {"absent", "passed", "failed", "not paid"}]
  /\ lastproposal \in 0..MaxHeight
  /\ scratch \subseteq {Payment(p) : p \in Proposals}
  /\ writer \in Requests \union {Free, Other}
  /\ refused \subseteq Proposals

VisitsOK ==
  /\ pc \in [Requests -> Steps]
  /\ ht \in [Requests -> 0..MaxHeight] /\ last \in [Requests -> 0..MaxHeight]
  /\ rows \in [Requests -> SUBSET Proposals] /\ txn \in [Requests -> SUBSET Proposals]
  /\ over \in [Requests -> SUBSET Superblocks]

TypeOK ==
  /\ DatabaseOK /\ VisitsOK
  /\ overlapped \in BOOLEAN /\ aborts \in 0..MaxAborts /\ others \in 0..MaxOthers

Init ==
  /\ height = 0
  /\ status = [p \in Proposals |-> "absent"] /\ lastproposal = 0
  /\ scratch = {} /\ writer = Free
  /\ pc = [r \in Requests |-> "idle"]
  /\ ht = [r \in Requests |-> 0] /\ last = [r \in Requests |-> 0]
  /\ rows = [r \in Requests |-> {}] /\ txn = [r \in Requests |-> {}]
  /\ over = [r \in Requests |-> {}]
  /\ refused = {} /\ overlapped = FALSE /\ aborts = 0 /\ others = 0

----------------------------------------------------------------------------

Goto(r, step) == pc' = [pc EXCEPT ![r] = step]

MayWrite(r) == writer \in {Free, r}

\* Requests whose open transaction has read the database.
Readers == {r \in Requests : pc[r] \in {"fill", "save"}}
MayCommit(r) == Readers \subseteq {r}

\* A statement of its own: it writes and commits at once.
MayRunAlone(r) == writer = Free /\ MayCommit(r)

Mine ==
  /\ height < MaxHeight /\ height' = height + 1
  /\ UNCHANGED <<db, local, refused, aborts>>

\* The request dies: its connection closes and its transaction is rolled back.
Die(r) ==
  /\ Goto(r, "idle")
  /\ writer' = IF writer = r THEN Free ELSE writer
  /\ ht' = [ht EXCEPT ![r] = 0] /\ last' = [last EXCEPT ![r] = 0]
  /\ rows' = [rows EXCEPT ![r] = {}] /\ txn' = [txn EXCEPT ![r] = {}]
  /\ over' = [over EXCEPT ![r] = {}]
  /\ UNCHANGED <<height, status, lastproposal, scratch, refused>>

(* First half: record the proposals of the superblocks that have passed.   *)

\* Slip: the superblock to come.
NextSuperblock(h) == (h \div Cycle + 1) * Cycle

LastSuperblock(h) == (h \div Cycle) * Cycle

\* Slip: superblocks strictly below the height.
PastBelow(h) == {p \in Proposals : SuperblockOf[p] \in (lastproposal + 1)..(h - 1)}

\* listproposals($lastProposal + 1), of which the loop takes those up to h.
Past(h) == {p \in Proposals : SuperblockOf[p] \in (lastproposal + 1)..h}

GetHeight(r) ==
  /\ pc[r] = "idle"
  /\ ht' = [ht EXCEPT ![r] = height]
  /\ Goto(r, "read")
  /\ UNCHANGED <<height, db, last, rows, txn, over, refused, aborts>>

\* SELECT "lastproposal"; listproposals($lastProposal + 1), of which the loop
\* takes those up to $height; BEGIN.  A submitted proposal is listed from long
\* before its superblock, so the list of those does not change any more.
List(r) ==
  /\ pc[r] = "read"
  /\ last' = [last EXCEPT ![r] = lastproposal]
  /\ IF LastSuperblock(ht[r]) # lastproposal
       THEN /\ rows' = [rows EXCEPT ![r] = Past(ht[r])]
            /\ Goto(r, "insert")
       ELSE Goto(r, "clear") /\ UNCHANGED rows
  /\ UNCHANGED <<height, db, ht, txn, over, refused, aborts>>

\* A hash that is there already makes the INSERT fail, with the lock taken.
Insert(r, p) ==
  /\ pc[r] = "insert" /\ p \in rows[r] /\ MayWrite(r)
  /\ writer' = r
  /\ rows' = [rows EXCEPT ![r] = @ \ {p}]
  /\ txn' = [txn EXCEPT ![r] = IF status[p] = "absent" THEN @ \union {p} ELSE @]
  /\ UNCHANGED <<height, status, lastproposal, scratch, pc, ht, last, over, refused, aborts>>

\* "database is locked" is caught like any other failure of the INSERT.
InsertRefused(r, p) ==
  /\ pc[r] = "insert" /\ p \in rows[r] /\ ~MayWrite(r)
  /\ rows' = [rows EXCEPT ![r] = @ \ {p}]
  /\ refused' = IF status[p] = "absent" THEN refused \union {p} ELSE refused
  /\ UNCHANGED <<height, db, pc, ht, last, txn, over, aborts>>

\* UPDATE "events" SET "lastproposal"
MoveLast(r) ==
  /\ pc[r] = "insert" /\ rows[r] = {}
  /\ IF MayWrite(r)
       THEN /\ writer' = r /\ Goto(r, "commit")
            /\ UNCHANGED <<height, status, lastproposal, scratch, ht, last, rows, txn, over,
                           refused>>
       ELSE Die(r)
  /\ UNCHANGED aborts

CommitProposals(r) ==
  /\ pc[r] = "commit"
  /\ IF MayCommit(r)
       THEN /\ status' = [p \in Proposals |-> IF p \notin txn[r] THEN status[p]
                                              ELSE IF p \in Passed THEN "passed" ELSE "failed"]
            /\ lastproposal' = IF Seeded THEN LastSuperblock(ht[r]) ELSE lastproposal
            /\ writer' = Free /\ txn' = [txn EXCEPT ![r] = {}]
            /\ Goto(r, "clear")
            /\ UNCHANGED <<height, scratch, ht, last, rows, over, refused>>
       ELSE Die(r)
  /\ UNCHANGED aborts

(* Second half: find those which passed but did not get paid.              *)

\* SUM("amount")
Asked(proposals) == MapThenSumSet(LAMBDA p : AmountOf[p], proposals)

\* Superblocks whose passed proposals ask for more than the budget.
Oversubscribed ==
  {s \in Superblocks :
     Asked({p \in Proposals : SuperblockOf[p] = s /\ status[p] = "passed"}) > Budget}

\* DELETE FROM "scratch"
Clear(r) ==
  /\ pc[r] = "clear"
  /\ IF MayRunAlone(r)
       THEN /\ scratch' = {} /\ Goto(r, "collect")
            /\ UNCHANGED <<height, status, lastproposal, writer, ht, last, rows, txn, over,
                           refused>>
       ELSE Die(r)
  /\ UNCHANGED aborts

\* BEGIN; the SELECT runs, inside the transaction, when its rows are fetched.
Collect(r) ==
  /\ pc[r] = "collect"
  /\ over' = [over EXCEPT ![r] = Oversubscribed]
  /\ Goto(r, "fill")
  /\ UNCHANGED <<height, db, ht, last, rows, txn, refused, aborts>>

\* What the payment transaction of each superblock pays.
Payments(superblocks) == {Payment(p) : p \in {q \in Paid : SuperblockOf[q] \in superblocks}}

\* INSERT INTO "scratch", for every payment; here a refusal is not caught.
Fill(r) ==
  /\ pc[r] = "fill"
  /\ \/ /\ Payments(over[r]) = {}
        /\ Goto(r, "save") /\ UNCHANGED <<height, db, ht, last, rows, txn, over, refused>>
     \/ /\ Payments(over[r]) # {} /\ MayWrite(r)
        /\ writer' = r /\ Goto(r, "save")
        /\ UNCHANGED <<height, status, lastproposal, scratch, ht, last, rows, txn, over,
                       refused>>
     \/ Payments(over[r]) # {} /\ ~MayWrite(r) /\ Die(r)
  /\ UNCHANGED aborts

\* Slip: the COMMIT is missing and the rows are rolled back.
ScratchLost(r) == scratch

ScratchSaved(r) == scratch \union Payments(over[r])

\* COMMIT
Save(r) ==
  /\ pc[r] = "save"
  /\ IF writer # r \/ MayCommit(r)
       THEN /\ scratch' = ScratchSaved(r)
            /\ writer' = IF writer = r THEN Free ELSE writer
            /\ over' = [over EXCEPT ![r] = {}]
            /\ Goto(r, "mark")
            /\ UNCHANGED <<height, status, lastproposal, ht, last, rows, txn, refused>>
       ELSE Die(r)
  /\ UNCHANGED aborts

\* Slip: the UPDATE without its condition on the superblock.
UnpaidAnywhere == {p \in Proposals : status[p] = "passed" /\ Payment(p) \notin scratch}

Unpaid ==
  {p \in Proposals : /\ status[p] = "passed" /\ SuperblockOf[p] \in Oversubscribed
                     /\ Payment(p) \notin scratch}

\* The UPDATE that marks what passed, is in an oversubscribed superblock and
\* joins with no row of scratch.
Mark(r) ==
  /\ pc[r] = "mark"
  /\ IF MayRunAlone(r)
       THEN /\ status' = [p \in Proposals |-> IF p \in Unpaid THEN "not paid" ELSE status[p]]
            /\ ht' = [ht EXCEPT ![r] = 0] /\ last' = [last EXCEPT ![r] = 0]
            /\ Goto(r, "idle")
            /\ UNCHANGED <<height, lastproposal, scratch, writer, rows, txn, over, refused>>
       ELSE Die(r)
  /\ UNCHANGED aborts

\* An RPC call throws, the time limit, a COMMIT or a SELECT finds another page
\* reading or committing, the process ends.
Abort(r) ==
  /\ pc[r] # "idle" /\ aborts < MaxAborts
  /\ aborts' = aborts + 1
  /\ Die(r)

\* A writing statement of another page (main, past orders, servicenodes,
\* dbupdate) and the end of its transaction.
OtherLocks ==
  /\ writer = Free /\ others < MaxOthers
  /\ writer' = Other /\ others' = others + 1
  /\ UNCHANGED <<height, status, lastproposal, scratch, local, refused, aborts>>

OtherUnlocks ==
  /\ writer = Other /\ writer' = Free
  /\ UNCHANGED <<height, status, lastproposal, scratch, local, refused, aborts, others>>

----------------------------------------------------------------------------

Overlap(r) == overlapped' = (overlapped \/ \E s \in Requests \ {r} : pc[s] # "idle")

Step(r) ==
  \/ GetHeight(r) \/ List(r)
  \/ \E p \in Proposals : Insert(r, p) \/ InsertRefused(r, p)
  \/ MoveLast(r) \/ CommitProposals(r)
  \/ Clear(r) \/ Collect(r) \/ Fill(r) \/ Save(r) \/ Mark(r)

Visit(r) == Step(r) /\ Overlap(r) /\ UNCHANGED others

World == (Mine \/ \E r \in Requests : Abort(r)) /\ UNCHANGED others

Others == (World \/ OtherLocks \/ OtherUnlocks) /\ UNCHANGED overlapped

Next == Others \/ \E r \in Requests : Visit(r)

\* The page keeps being visited, a visit runs on and another page's transaction ends.
Fairness ==
  (\A r \in Requests : WF_vars(Visit(r))) /\ WF_vars(OtherUnlocks /\ UNCHANGED overlapped)

Spec == Init /\ [][Next]_vars /\ Fairness

----------------------------------------------------------------------------
(* What updatePastProposals() cannot tell of a proposal that passed and    *)
(* was not paid.                                                           *)

\* A refused INSERT was stepped over and the superblock recorded: it is not listed again.
Late == {p \in refused : status[p] = "absent" /\ SuperblockOf[p] <= lastproposal}

\* What the sum of a superblock is taken over at most.
Summed(s) == {p \in Passed \ Late : SuperblockOf[p] = s}

\* Somebody else was paid the same amount at the same address.
HasPaidTwin(p) ==
  \E q \in Paid : /\ SuperblockOf[q] = SuperblockOf[p]
                  /\ AmountOf[q] = AmountOf[p] /\ AddressOf[q] = AddressOf[p]

\* Superblocks are listed again as long as none is ever recorded, so that what was
\* refused comes after the others were judged.
Piecemeal(s) == ~Seeded /\ \E p \in refused : SuperblockOf[p] = s

\* The three reasons to take for paid what was not: the sum of its superblock is within
\* the budget, its twin was paid, or the superblock was recorded piece by piece.
Overlooked(p) ==
  \/ Asked(Summed(SuperblockOf[p])) <= Budget
  \/ HasPaidTwin(p)
  \/ Piecemeal(SuperblockOf[p])

\* "Find those which passed but did not get paid and change their status":
\* what the table says was not paid was not paid.
NotPaidIsTruth == \A p \in Proposals : status[p] = "not paid" => p \notin Paid

\* That is so while visits come one at a time, whatever they die of.
NotPaidIsTruthAlone == overlapped \/ NotPaidIsTruth

\* ... and then what passed and was not paid is marked so in the end, unless it never
\* got into the table or is overlooked for one of the three reasons.
EveryVerdictArrives ==
  \A p \in Passed \ Paid :
    (height >= SuperblockOf[p]) ~>
      (status[p] = "not paid" \/ overlapped \/ p \in Late \/ Overlooked(p))

\* Up to the recorded superblock every proposal is in the table, unless its
\* INSERT was refused.
SuperblocksAreComplete ==
  \A p \in Proposals : SuperblockOf[p] <= lastproposal => status[p] # "absent" \/ p \in refused

\* However visits interleave, a superblock that the budget covers keeps all of
\* its verdicts: a wrong "not paid" can only appear where the budget ran out.
CoveredSuperblocksUntouched ==
  \A p \in Proposals :
    status[p] = "not paid" =>
      Asked({q \in Passed : SuperblockOf[q] = SuperblockOf[p]}) > Budget

\* "Passed and paid": while visits come one at a time, what the page counts as paid when
\* a visit has marked the unpaid was paid, or was overlooked for one of the three
\* reasons - also after a visit that recorded proposals and died before it marked any,
\* and whatever the other pages' writes refuse.
ShownAsPaidWasPaid ==
  [][\A r \in Requests :
       Mark(r) /\ MayRunAlone(r) /\ ~overlapped' =>
         \A p \in Proposals : status'[p] = "passed" => p \in Paid \/ Overlooked(p)]_vars
=============================================================================

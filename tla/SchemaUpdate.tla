---------------------------- MODULE SchemaUpdate ----------------------------
(***************************************************************************)
(* dbupdate(): the schema migrations of the SQLite database, one version   *)
(* per visit of the "dbupdate" page.                                       *)
(*                                                                         *)
(* The version is read outside the transaction that migrates, so a visit   *)
(* may act on a version another visit has left behind.  A statement that   *)
(* fails throws; nothing catches it, the script dies and SQLite rolls the  *)
(* open transaction back.                                                  *)
(***************************************************************************)
EXTENDS Integers, FiniteSets

CONSTANTS
  Requests,       \* visits of the page that may run at the same time
  FreshInstall,   \* "events" was created by this index.php, with "lastproposal"
  HasRow,         \* "events" holds its row
  LiteralIsZero,  \* PHP 7: 'dbversion' == 0 holds; PHP 8: it does not
  Free, Other,    \* holders of the write lock that are no visit of this page
  MaxAborts,      \* bound: visits that die on their own
  MaxOthers       \* bound: times another page takes the write lock

ASSUME FlagAssumption ==
  FreshInstall \in BOOLEAN /\ HasRow \in BOOLEAN /\ LiteralIsZero \in BOOLEAN
ASSUME LockAssumption ==
  Free # Other /\ Free \notin Requests /\ Other \notin Requests
ASSUME BoundAssumption == MaxAborts \in Nat /\ MaxOthers \in Nat

VARIABLES
  schema,   \* tables, views and added columns of the database
  version,  \* "events"."dbversion" (NULL counts as 0)
  writer,   \* connection that holds the write lock
  pc,
  seen,     \* $dbversion of each visit
  page,     \* the versions the last page of each visitor spoke of
  aborts, others,
  overlapped \* history: has a visit ever run while another was under way?

vars == <<schema, version, writer, pc, seen, page, aborts, others, overlapped>>

Last   == 6
NoStep == -1   \* $dbversion equals no number: no step of dbupdate is for it
Blank  == [old |-> NoStep, new |-> NoStep]

Versions == 0..Last

\* The objects each step adds to the database.
Step1 == {"servicenodes", "coins", "xrServices", "xcServices", "spvConfigs", "fees"}
Counts == {"servicenodes.dxcount", "servicenodes.xrcount", "servicenodes.xccount"}
Objects ==
  {"events.dbversion", "events.lastproposal", "spvWallets", "dxWallets",
   "spvwallets view", "servicenodes.services"} \union Step1 \union Counts

\* Tables and views share their names, and SQLite ignores case in them.
SpvWalletsTaken(s) == s \intersect {"spvWallets", "spvwallets view"} # {}

\* Can all statements of the step from version v be executed on schema s?
\* ADD COLUMN fails on a column that is there, RENAME on a view and on a
\* name that is taken, CREATE VIEW on a name that is taken.
Possible(v, s) ==
  CASE v = 0 -> s \intersect {"events.dbversion", "events.lastproposal"} = {}
    [] v = 1 -> "events.dbversion" \in s
    [] v = 2 -> "spvWallets" \in s /\ "dxWallets" \notin s /\ "xrServices" \in s
    [] v = 3 -> ~SpvWalletsTaken(s)
    [] v = 4 -> "servicenodes" \in s /\ Counts \intersect s = {}
    [] v = 5 -> "servicenodes" \in s /\ "servicenodes.services" \notin s
    [] OTHER -> FALSE

\* Slip: the tables are dropped and created afresh.
CreatedAfresh(s) ==
  (s \ (Counts \union {"servicenodes.services"})) \union Step1 \union {"spvWallets"}

\* CREATE TABLE IF NOT EXISTS, for each table of version 2.
Created(s) == s \union Step1 \union (IF SpvWalletsTaken(s) THEN {} ELSE {"spvWallets"})

\* The schema after that step.
After(v, s) ==
  CASE v = 0 -> s \union {"events.dbversion", "events.lastproposal"}
    [] v = 1 -> Created(s)
    [] v = 2 -> (s \ {"spvWallets"}) \union {"dxWallets"}
    [] v = 3 -> s \union {"spvwallets view"}
    [] v = 4 -> s \union Counts
    [] v = 5 -> s \union {"servicenodes.services"}

TypeOK ==
  /\ schema \subseteq Objects
  /\ version \in Versions
  /\ writer \in Requests \union {Free, Other}
  /\ pc \in [Requests -> {"idle", "run", "commit"}]
  /\ seen \in [Requests -> Versions \union {NoStep}]
  /\ page \in [Requests -> [old : Versions \union {NoStep}, new : Versions \union {NoStep}]]
  /\ aborts \in 0..MaxAborts /\ others \in 0..MaxOthers
  /\ overlapped \in BOOLEAN

\* index.php has just made sure that "events" exists; a database kept from an
\* older release has it without the column "lastproposal".
Init ==
  /\ schema = IF FreshInstall THEN {"events.lastproposal"} ELSE {}
  /\ version = 0
  /\ writer = Free
  /\ pc = [r \in Requests |-> "idle"]
  /\ seen = [r \in Requests |-> NoStep]
  /\ page = [r \in Requests |-> Blank]
  /\ aborts = 0 /\ others = 0 /\ overlapped = FALSE

----------------------------------------------------------------------------

\* Slip: the version to reach, not the one reached.
VersionToCome == version + 1

\* SELECT "dbversion" FROM "events".  While there is no such column SQLite takes
\* the quoted name for a string, which it returns for the row, if there is one.
VersionRead ==
  IF "events.dbversion" \notin schema /\ HasRow /\ ~LiteralIsZero THEN NoStep ELSE version

ReadVersion(r) ==
  /\ pc[r] = "idle"
  /\ pc' = [pc EXCEPT ![r] = "run"]
  /\ seen' = [seen EXCEPT ![r] = VersionRead]
  /\ UNCHANGED <<schema, version, writer, page, aborts, others>>

\* The SELECT finds another connection committing; the exception is caught and
\* the version taken for 0.
ReadFails(r) ==
  /\ pc[r] = "idle" /\ writer # Free
  /\ pc' = [pc EXCEPT ![r] = "run"]
  /\ seen' = [seen EXCEPT ![r] = 0]
  /\ UNCHANGED <<schema, version, writer, page, aborts, others>>

\* BEGIN TRANSACTION and the statements of the one step $dbversion asks for.
RunStep(r) ==
  /\ pc[r] = "run"
  /\ writer = Free /\ Possible(seen[r], schema)
  /\ writer' = r
  /\ pc' = [pc EXCEPT ![r] = "commit"]
  /\ UNCHANGED <<schema, version, seen, page, aborts, others>>

\* Slips: the version is incremented, not set; the UPDATE is forgotten.
VersionIncremented(r) == IF HasRow /\ version < Last THEN version + 1 ELSE version
VersionForgotten(r) == version

\* The UPDATE of "dbversion" changes nothing when "events" has no row.
NewVersion(r) == IF HasRow THEN seen[r] + 1 ELSE version

Commit(r) ==
  /\ pc[r] = "commit"
  /\ schema' = After(seen[r], schema)
  /\ version' = NewVersion(r)
  /\ writer' = Free
  /\ pc' = [pc EXCEPT ![r] = "idle"]
  /\ page' = [page EXCEPT ![r] = [old |-> seen[r], new |-> seen[r] + 1]]
  /\ UNCHANGED <<seen, aborts, others>>

\* No step is for this version: the page is shown with no new version.
NothingToDo(r) ==
  /\ pc[r] = "run" /\ seen[r] \in {NoStep, Last}
  /\ pc' = [pc EXCEPT ![r] = "idle"]
  /\ page' = [page EXCEPT ![r] = [old |-> seen[r], new |-> NoStep]]
  /\ UNCHANGED <<schema, version, writer, seen, aborts, others>>

\* Slip: a persistent connection keeps the transaction open.
StillLocked(r) == writer

Unlocked(r) == IF writer = r THEN Free ELSE writer

Die(r) ==
  /\ pc' = [pc EXCEPT ![r] = "idle"]
  /\ writer' = Unlocked(r)
  /\ UNCHANGED <<schema, version, seen, page>>

\* A statement of the step fails: another writer, or the schema is not the one
\* the step is for.
StepFails(r) ==
  /\ pc[r] = "run" /\ seen[r] \in 0..(Last - 1)
  /\ writer # Free \/ ~Possible(seen[r], schema)
  /\ Die(r)
  /\ UNCHANGED <<aborts, others>>

\* COMMIT finds a reader, or the process ends.
Abort(r) ==
  /\ pc[r] # "idle" /\ aborts < MaxAborts
  /\ aborts' = aborts + 1
  /\ Die(r)
  /\ UNCHANGED others

OtherLocks ==
  /\ writer = Free /\ others < MaxOthers
  /\ writer' = Other /\ others' = others + 1
  /\ UNCHANGED <<schema, version, pc, seen, page, aborts>>

OtherUnlocks ==
  /\ writer = Other /\ writer' = Free
  /\ UNCHANGED <<schema, version, pc, seen, page, aborts, others>>

Overlap(r) == overlapped' = (overlapped \/ \E s \in Requests \ {r} : pc[s] # "idle")

Step(r) ==
  \/ ReadVersion(r) \/ ReadFails(r) \/ RunStep(r) \/ Commit(r)
  \/ NothingToDo(r) \/ StepFails(r)

Visit(r) == Step(r) /\ Overlap(r)

Others ==
  /\ OtherLocks \/ OtherUnlocks \/ \E r \in Requests : Abort(r)
  /\ UNCHANGED overlapped

Next == Others \/ \E r \in Requests : Visit(r)

\* The page keeps being visited, visits run on, other transactions end.
Fairness ==
  (\A r \in Requests : WF_vars(Visit(r))) /\ WF_vars(OtherUnlocks /\ UNCHANGED overlapped)

Spec == Init /\ [][Next]_vars /\ Fairness

----------------------------------------------------------------------------

\* What the pages of release 0.2.0 need from version k on.
Adds(k) ==
  CASE k = 1 -> {"events.dbversion", "events.lastproposal"}
    [] k = 2 -> Step1
    [] k = 3 -> {"dxWallets"}
    [] k = 4 -> {"spvwallets view"}
    [] k = 5 -> Counts
    [] k = 6 -> {"servicenodes.services"}

Needs(k) == UNION {Adds(j) : j \in 1..k}

\* However visits interleave and die, the recorded version never promises an
\* object that the database does not have.
VersionIsBacked == Needs(version) \subseteq schema

\* No migration, however late and from whatever stale version, takes away an
\* object the servicenode pages already use.
PagesKeepWorking ==
  [][\A k \in Versions : Needs(k) \subseteq schema => Needs(k) \subseteq schema']_vars

\* While visits have come one at a time the schema is exactly the recorded
\* version's, although the other pages write and visits die in between.
SchemaIsVersion ==
  ~overlapped =>
    schema = Needs(version) \union (IF version = 2 THEN {"spvWallets"} ELSE {})

\* Visiting the page again and again, one visit at a time, brings the database
\* to the last version.
ReachesLast == <>[](version = Last) \/ <>overlapped
=============================================================================

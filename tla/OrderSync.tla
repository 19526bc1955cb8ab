----------------------------- MODULE OrderSync -----------------------------
(***************************************************************************)
(* The cache of completed trades: updatePastOrders() and the two tables it *)
(* keeps, "pastorders" and "events"."lastorderheight".                     *)
(*                                                                         *)
(* Each page request that shows completed trades first brings the cache up *)
(* to date: it asks the node for its height, reads the watermark, asks the *)
(* node for the trades of the blocks in between, inserts them one by one   *)
(* and moves the watermark, the last two in one SQLite transaction.  Every *)
(* call to the node and every SQL statement is a step of its own here, so  *)
(* the chain and the other requests move in between.                       *)
(*                                                                         *)
(* SQLite lets one connection write at a time.  No busy timeout is set, so *)
(* a write that finds another writer fails at once ("database is locked"). *)
(***************************************************************************)
EXTENDS Integers, FiniteSets

CONSTANTS
  Requests,    \* PHP requests that may run at the same time, one connection each
  Orders,      \* completed trades, by their id
  Seeded,      \* does "events" hold its row?  (no code of the monitor adds it)
  Free, Other, \* nobody holds the write lock; another page's statement does
  MaxHeight,   \* bound: height of the chain
  MaxReorgs,   \* bound: blocks disconnected
  MaxAborts,   \* bound: requests that die (RPC error, locked COMMIT, time limit)
  MaxOthers    \* bound: times another page's statement takes the write lock

ASSUME SeededAssumption == Seeded \in BOOLEAN
ASSUME LockAssumption ==
  Free # Other /\ Free \notin Requests /\ Other \notin Requests
ASSUME BoundAssumption ==
  /\ MaxHeight \in Nat /\ MaxReorgs \in Nat /\ MaxAborts \in Nat /\ MaxOthers \in Nat

VARIABLES
  \* The node.
  height,      \* what getblockcount() returns
  blockOf,     \* height of the block that holds a trade, 0 if it is on no block
  reorgs,
  \* The database, as last committed.
  stored,      \* ids in "pastorders"
  watermark,   \* "events"."lastorderheight" as PHP reads it (NULL counts as 0)
  writer,      \* connection that holds the write lock
  \* Local to a request.
  pc,
  ht,          \* $height
  base,        \* $lastheight
  rows,        \* trades of $pastorders still to be inserted
  txn,         \* ids inserted by the open transaction
  \* History: trades an execution of the code has stepped over.
  slid,        \* left the window of dxGetTradingData before it was asked for
  refused,     \* their INSERT was refused while another connection wrote
  remined,     \* mined again, or late, at a height already accounted for
  aborts, others

node    == <<height, blockOf, reorgs>>
db      == <<stored, watermark, writer>>
local   == <<pc, ht, base, rows, txn>>
history == <<slid, refused, remined>>
bounds  == <<aborts, others>>
vars    == <<node, db, local, history, bounds>>

Steps == {"idle", "read", "fetch", "insert", "commit"}

Exposed == slid \union refused \union remined

TypeOK ==
  /\ height \in 0..MaxHeight
  /\ blockOf \in [Orders -> 0..MaxHeight]
  /\ reorgs \in 0..MaxReorgs
  /\ stored \subseteq Orders
  /\ watermark \in 0..MaxHeight
  /\ writer \in Requests \union {Free, Other}
  /\ pc \in [Requests -> Steps]
  /\ ht \in [Requests -> 0..MaxHeight]
  /\ base \in [Requests -> 0..MaxHeight]
  /\ rows \in [Requests -> SUBSET Orders]
  /\ txn \in [Requests -> SUBSET Orders]
  /\ slid \subseteq Orders /\ refused \subseteq Orders /\ remined \subseteq Orders
  /\ aborts \in 0..MaxAborts /\ others \in 0..MaxOthers

Init ==
  /\ height = 0 /\ blockOf = [o \in Orders |-> 0] /\ reorgs = 0
  /\ stored = {} /\ watermark = 0 /\ writer = Free
  /\ pc = [r \in Requests |-> "idle"]
  /\ ht = [r \in Requests |-> 0] /\ base = [r \in Requests |-> 0]
  /\ rows = [r \in Requests |-> {}] /\ txn = [r \in Requests |-> {}]
  /\ slid = {} /\ refused = {} /\ remined = {}
  /\ aborts = 0 /\ others = 0

----------------------------------------------------------------------------
(* The node.  Blocks arrive, and the tip may be disconnected.              *)

\* The height below which request r no longer looks: its watermark until it
\* has its trades, its own height afterwards.
Accounted(r) == IF pc[r] \in {"insert", "commit"} THEN ht[r] ELSE base[r]

Mine ==
  /\ height < MaxHeight
  /\ height' = height + 1
  /\ \E S \in SUBSET {o \in Orders : blockOf[o] = 0} :
       /\ blockOf' = [o \in Orders |-> IF o \in S THEN height + 1 ELSE blockOf[o]]
       /\ remined' = IF height < watermark \/ \E r \in Requests : height < Accounted(r)
                       THEN remined \union S ELSE remined
  /\ UNCHANGED <<reorgs, db, local, slid, refused, bounds>>

Disconnect ==
  /\ height > 0 /\ reorgs < MaxReorgs
  /\ height' = height - 1 /\ reorgs' = reorgs + 1
  /\ blockOf' = [o \in Orders |-> IF blockOf[o] = height THEN 0 ELSE blockOf[o]]
  /\ UNCHANGED <<db, local, history, bounds>>

\* Slip: the window starts one block late.
TradingDataShort(blocks) ==
  {o \in Orders : blockOf[o] > 0 /\ blockOf[o] > height - blocks + 1}

\* dxGetTradingData(blocks): the trades of the last `blocks' blocks, counted
\* down from the tip the node has when it is asked.
TradingData(blocks) ==
  {o \in Orders : blockOf[o] > 0 /\ blockOf[o] > height - blocks}

----------------------------------------------------------------------------
(* updatePastOrders(), one call to the node or one statement at a time.    *)

\* $height = $coind->getblockcount()
GetHeight(r) ==
  /\ pc[r] = "idle"
  /\ pc' = [pc EXCEPT ![r] = "read"]
  /\ ht' = [ht EXCEPT ![r] = height]
  /\ UNCHANGED <<node, db, base, rows, txn, history, bounds>>

\* Slips: fetch whenever the heights differ; not for a single block.
DueIfDifferent(r) == ht[r] # watermark
DueLate(r) == ht[r] - watermark > 1

\* $blocks > 0
Due(r) == ht[r] - watermark > 0

\* SELECT "lastorderheight", and the early return when there is no new block.
ReadWatermark(r) ==
  /\ pc[r] = "read"
  /\ IF Due(r)
       THEN /\ pc' = [pc EXCEPT ![r] = "fetch"]
            /\ base' = [base EXCEPT ![r] = watermark]
            /\ UNCHANGED ht
       ELSE /\ pc' = [pc EXCEPT ![r] = "idle"]
            /\ ht' = [ht EXCEPT ![r] = 0]
            /\ UNCHANGED base
  /\ UNCHANGED <<node, db, rows, txn, history, bounds>>

\* $pastorders = $coind->dxGetTradingData($blocks); BEGIN (deferred: no lock).
Fetch(r) ==
  LET blocks == ht[r] - base[r] IN
  /\ pc[r] = "fetch"
  /\ pc' = [pc EXCEPT ![r] = "insert"]
  /\ rows' = [rows EXCEPT ![r] = TradingData(blocks)]
  /\ slid' = slid \union {o \in Orders : /\ base[r] < blockOf[o] /\ blockOf[o] <= ht[r]
                                         /\ blockOf[o] <= height - blocks
                                         /\ o \notin stored}
  /\ UNCHANGED <<node, db, ht, base, txn, refused, remined, bounds>>

MayWrite(r) == writer \in {Free, r}

\* INSERT INTO "pastorders": takes the write lock; a duplicate key fails, is
\* caught and leaves the transaction open.
Insert(r, o) ==
  /\ pc[r] = "insert" /\ o \in rows[r] /\ MayWrite(r)
  /\ writer' = r
  /\ rows' = [rows EXCEPT ![r] = @ \ {o}]
  /\ txn' = [txn EXCEPT ![r] = IF o \in stored THEN @ ELSE @ \union {o}]
  /\ UNCHANGED <<node, stored, watermark, pc, ht, base, history, bounds>>

\* The INSERT finds another writer; the exception is caught and the loop goes on.
InsertRefused(r, o) ==
  /\ pc[r] = "insert" /\ o \in rows[r] /\ ~MayWrite(r)
  /\ rows' = [rows EXCEPT ![r] = @ \ {o}]
  /\ refused' = IF o \in stored THEN refused ELSE refused \union {o}
  /\ UNCHANGED <<node, db, pc, ht, base, txn, slid, remined, bounds>>

\* Slip: the UPDATE inside the loop over the trades.
SomeInserted(r) == pc[r] = "insert"

AllInserted(r) == pc[r] = "insert" /\ rows[r] = {}

\* UPDATE "events": takes the lock, or keeps it, even if there is no row.
MoveWatermark(r) ==
  /\ AllInserted(r) /\ MayWrite(r)
  /\ pc' = [pc EXCEPT ![r] = "commit"]
  /\ writer' = r
  /\ UNCHANGED <<node, stored, watermark, ht, base, rows, txn, history, bounds>>

Finish(r) ==
  /\ pc' = [pc EXCEPT ![r] = "idle"]
  /\ ht' = [ht EXCEPT ![r] = 0]
  /\ base' = [base EXCEPT ![r] = 0]
  /\ rows' = [rows EXCEPT ![r] = {}]
  /\ txn' = [txn EXCEPT ![r] = {}]

\* Slips: the UPDATE is forgotten; the tip is asked for again; the next height to
\* fetch is written.
WatermarkForgotten(r) == watermark
WatermarkAskedAgain(r) == IF Seeded THEN height ELSE watermark
WatermarkToCome(r) == IF Seeded THEN ht[r] + 1 ELSE watermark

\* What the UPDATE leaves: it changes nothing if "events" has no row.
NewWatermark(r) == IF Seeded THEN ht[r] ELSE watermark

\* COMMIT
Commit(r) ==
  /\ pc[r] = "commit"
  /\ stored' = stored \union txn[r]
  /\ watermark' = NewWatermark(r)
  /\ writer' = Free
  /\ Finish(r)
  /\ UNCHANGED <<node, history, bounds>>

Unlocked(r) == IF writer = r THEN Free ELSE writer

\* The connection closes with the transaction open: SQLite rolls it back.
Rollback(r) ==
  /\ writer' = Unlocked(r)
  /\ Finish(r)
  /\ UNCHANGED <<node, stored, watermark, history>>

\* UPDATE "events" finds another writer: not caught here, the request dies.
WatermarkRefused(r) ==
  /\ AllInserted(r) /\ ~MayWrite(r)
  /\ Rollback(r)
  /\ UNCHANGED bounds

\* The request dies anywhere else: an RPC call throws, COMMIT finds a reader,
\* PHP's time limit.
Abort(r) ==
  /\ pc[r] # "idle" /\ aborts < MaxAborts
  /\ aborts' = aborts + 1
  /\ Rollback(r)
  /\ UNCHANGED others

----------------------------------------------------------------------------
(* Another page's writing statement (proposals, servicenodes, dbupdate).   *)

OtherLocks ==
  /\ writer = Free /\ others < MaxOthers
  /\ writer' = Other /\ others' = others + 1
  /\ UNCHANGED <<node, stored, watermark, local, history, aborts>>

OtherUnlocks ==
  /\ writer = Other
  /\ writer' = Free
  /\ UNCHANGED <<node, stored, watermark, local, history, bounds>>

----------------------------------------------------------------------------

Sync(r) ==
  \/ GetHeight(r) \/ ReadWatermark(r) \/ Fetch(r)
  \/ \E o \in Orders : Insert(r, o) \/ InsertRefused(r, o)
  \/ MoveWatermark(r) \/ WatermarkRefused(r) \/ Commit(r)

Next ==
  \/ Mine \/ Disconnect \/ OtherLocks \/ OtherUnlocks
  \/ \E r \in Requests : Sync(r) \/ Abort(r)

\* Pages that show trades keep being requested and every request runs on;
\* another page's transaction ends.  Nothing obliges the chain to move.
Fairness ==
  /\ \A r \in Requests : WF_vars(Sync(r))
  /\ WF_vars(OtherUnlocks)

Spec == Init /\ [][Next]_vars /\ Fairness

----------------------------------------------------------------------------
(* Properties.                                                             *)

\* Every trade in a block up to the watermark is cached, but for those the
\* three ways of updatePastOrders() to step over a trade account for: the
\* sliding window, a refused INSERT, a block mined below the watermark.  In
\* particular a dead request, a stale watermark written by a slower request
\* and a duplicate key lose nothing.
WatermarkCovers ==
  \A o \in Orders : blockOf[o] \in 1..watermark => o \in stored \union Exposed

\* Rows appear in the cache only together with the watermark of the request
\* that fetched them: never part of a batch, never a batch without its height.
RowsComeWithTheirHeight ==
  [][stored' # stored =>
       \E r \in Requests : /\ stored' = stored \union txn[r]
                           /\ rows[r] = {}
                           /\ Seeded => watermark' = ht[r]]_vars

\* A cache with rows in it knows the height up to which it was filled, so that
\* the next request only asks for what came after.
CacheKnowsItsHeight == stored # {} => watermark > 0

\* The watermark moves back only when a request writes that another one has
\* overtaken since it read the watermark: never because the chain got shorter,
\* and never when one request runs at a time.
OnlyTheOvertakenRetreat ==
  [][watermark' < watermark =>
       \E r \in Requests : pc[r] = "commit" /\ base[r] # watermark]_vars

\* When one request runs at a time, the watermark never moves back at all.
WatermarkNeverRetreats == [][watermark' >= watermark]_vars

\* A trade that stays on the chain is in the end cached or stepped over: no
\* request and no lock keeps it waiting for ever.
EveryTradeSettles ==
  \A o \in Orders : (blockOf[o] > 0) ~> (o \in stored \union Exposed \/ blockOf[o] = 0)

\* Every trade in a block up to the watermark is cached.  This is what the main
\* page's count of trades of "all time" takes for granted.
WatermarkIsTruth ==
  \A o \in Orders : blockOf[o] \in 1..watermark => o \in stored

\* All requests together are one ledger that lags behind the chain: their
\* overlapping, refused and dying transactions add up to atomic records of a batch
\* with its height, after each of which the ledger is complete but for the trades
\* stepped over.
Ledger == INSTANCE TradeLedger WITH missed <- Exposed
IsALedger == Ledger!Spec
=============================================================================

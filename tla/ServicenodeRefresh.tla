------------------------- MODULE ServicenodeRefresh -------------------------
(***************************************************************************)
(* updateSnodesContent(): the tables "servicenodes", "dxWallets",          *)
(* "xrServices" and "xcServices", which the servicenode and service pages  *)
(* rebuild on every visit and the wallets page only reads.                 *)
(*                                                                         *)
(* A visit empties the four tables, each in a transaction of its own, and  *)
(* only then asks the node for its two lists; it inserts the servicenodes  *)
(* and their wallets in one transaction and the services in another.  Only *)
(* "servicenodes" has a key: the rows of the other tables are counted here *)
(* in copies (of all the rows one visit inserts for a servicenode).        *)
(*                                                                         *)
(* One connection writes at a time; a statement that finds another writer  *)
(* fails at once, and the code catches that for "servicenodes" only: there *)
(* it goes on without the row, its counts or its score.  The writer may be *)
(* any page that writes to the same file.                                  *)
(***************************************************************************)
EXTENDS Integers, FiniteSets

CONSTANTS
  Requests,   \* visits that may run at the same time
  Nodes,      \* servicenodes, by public key
  Trading,    \* those that offer wallets of the exchange
  Free, Other, \* nobody holds the write lock; another page does
  MaxMoves,   \* bound: changes of the network
  MaxAborts,  \* bound: visits that die on their own
  MaxOthers   \* bound: times another page takes the write lock

ASSUME SetAssumption ==
  /\ IsFiniteSet(Requests) /\ Trading \subseteq Nodes
  /\ Free # Other /\ Free \notin Requests /\ Other \notin Requests
  /\ MaxMoves \in Nat /\ MaxAborts \in Nat /\ MaxOthers \in Nat

VARIABLES
  listed, connected,  \* what servicenodelist and xrConnectedNodes return now
  moves,
  snodes,             \* keys in "servicenodes"
  counted, ranked,    \* of these: with counts of services; with their score
  dx, xr, xc,         \* copies of each node's rows in the other three tables
  writer,
  pc,
  snlist, xrlist,     \* $servicenodes, $xrConnectedNodes
  todo, cur,          \* nodes the loop has not reached, and the one it is at
  ins, cnt, rows,     \* uncommitted: nodes inserted, counted or ranked, given rows
  lost,               \* history: what a visit under way went on without
  overlapped,         \* history: has a visit run while another was under way?
  aborts, others

network == <<listed, connected, moves>>
tables  == <<snodes, counted, ranked, dx, xr, xc>>
draft   == <<todo, cur, ins, cnt, rows>>
vars    == <<network, tables, writer, pc, snlist, xrlist, draft, lost, overlapped, aborts, others>>

Steps == {"idle", "delete dx", "delete xr", "delete xc", "list", "connected",
          "node", "wallets", "counts", "rank", "services", "show"}

NoNode == "no node"

\* The guarded statements, each for a node.
Guarded == {"row", "counts", "score"} \X Nodes

TypeOK ==
  /\ listed \subseteq Nodes /\ connected \subseteq Nodes /\ moves \in 0..MaxMoves
  /\ snodes \subseteq Nodes /\ counted \subseteq snodes /\ ranked \subseteq snodes
  /\ dx \in [Nodes -> Nat] /\ xr \in [Nodes -> Nat] /\ xc \in [Nodes -> Nat]
  /\ writer \in Requests \union {Free, Other}
  /\ pc \in [Requests -> Steps]
  /\ snlist \in [Requests -> SUBSET Nodes] /\ xrlist \in [Requests -> SUBSET Nodes]
  /\ todo \in [Requests -> SUBSET Nodes] /\ cur \in [Requests -> Nodes \union {NoNode}]
  /\ ins \in [Requests -> SUBSET Nodes] /\ cnt \in [Requests -> SUBSET Nodes]
  /\ rows \in [Requests -> SUBSET Nodes]
  /\ lost \in [Requests -> SUBSET Guarded]
  /\ overlapped \in BOOLEAN /\ aborts \in 0..MaxAborts /\ others \in 0..MaxOthers

NoRows == [n \in Nodes |-> 0]

Init ==
  /\ listed \in SUBSET Nodes /\ connected \in SUBSET Nodes /\ moves = 0
  /\ snodes = {} /\ counted = {} /\ ranked = {}
  /\ dx = NoRows /\ xr = NoRows /\ xc = NoRows
  /\ writer = Free
  /\ pc = [r \in Requests |-> "idle"]
  /\ snlist = [r \in Requests |-> {}] /\ xrlist = [r \in Requests |-> {}]
  /\ todo = [r \in Requests |-> {}] /\ cur = [r \in Requests |-> NoNode]
  /\ ins = [r \in Requests |-> {}] /\ cnt = [r \in Requests |-> {}]
  /\ rows = [r \in Requests |-> {}]
  /\ lost = [r \in Requests |-> {}] /\ overlapped = FALSE /\ aborts = 0 /\ others = 0

----------------------------------------------------------------------------

Goto(r, step) == pc' = [pc EXCEPT ![r] = step]

MayWrite(r) == writer \in {Free, r}

\* Servicenodes register, start and stop.
NetworkMoves ==
  /\ moves < MaxMoves /\ moves' = moves + 1
  /\ listed' \in SUBSET Nodes /\ connected' \in SUBSET Nodes
  /\ UNCHANGED <<tables, writer, pc, snlist, xrlist, draft, lost, aborts>>

NewDraft(r, nodes) ==
  /\ todo' = [todo EXCEPT ![r] = nodes] /\ cur' = [cur EXCEPT ![r] = NoNode]
  /\ ins' = [ins EXCEPT ![r] = {}] /\ cnt' = [cnt EXCEPT ![r] = {}]
  /\ rows' = [rows EXCEPT ![r] = {}]

\* Slip: a persistent connection keeps the transaction open.
ReleaseNever(r) == UNCHANGED writer

Release(r) == writer' = IF writer = r THEN Free ELSE writer

\* An exception nobody catches: the open transaction is rolled back.
Die(r) ==
  /\ Goto(r, "idle") /\ Release(r)
  /\ NewDraft(r, {})
  /\ snlist' = [snlist EXCEPT ![r] = {}] /\ xrlist' = [xrlist EXCEPT ![r] = {}]
  /\ lost' = [lost EXCEPT ![r] = {}]
  /\ UNCHANGED <<network, tables>>

\* Slips: the rows go and their counts stay; the DELETE is missing.
DeleteKeepsCounts(r) ==
  /\ pc[r] = "idle" /\ writer = Free
  /\ snodes' = {} /\ ranked' = {} /\ Goto(r, "delete dx")
  /\ UNCHANGED <<network, counted, dx, xr, xc, writer, snlist, xrlist, draft, lost, aborts>>

NoDelete(r) ==
  /\ pc[r] = "idle" /\ writer = Free /\ Goto(r, "delete dx")
  /\ UNCHANGED <<network, tables, writer, snlist, xrlist, draft, lost, aborts>>

\* DELETE FROM a table: transactions of their own, in this order.
DeleteServicenodes(r) ==
  /\ pc[r] = "idle" /\ writer = Free
  /\ snodes' = {} /\ counted' = {} /\ ranked' = {}
  /\ Goto(r, "delete dx")
  /\ UNCHANGED <<network, dx, xr, xc, writer, snlist, xrlist, draft, lost, aborts>>

\* Slip: the DELETE is missing.
NoDeleteDx(r) ==
  /\ pc[r] = "delete dx" /\ writer = Free /\ Goto(r, "delete xr")
  /\ UNCHANGED <<network, tables, writer, snlist, xrlist, draft, lost, aborts>>

DeleteDxWallets(r) ==
  /\ pc[r] = "delete dx" /\ writer = Free
  /\ dx' = NoRows /\ Goto(r, "delete xr")
  /\ UNCHANGED <<network, snodes, counted, ranked, xr, xc, writer, snlist, xrlist, draft, lost, aborts>>

\* Slip: the DELETE is missing.
NoDeleteXr(r) ==
  /\ pc[r] = "delete xr" /\ writer = Free /\ Goto(r, "delete xc")
  /\ UNCHANGED <<network, tables, writer, snlist, xrlist, draft, lost, aborts>>

DeleteXrServices(r) ==
  /\ pc[r] = "delete xr" /\ writer = Free
  /\ xr' = NoRows /\ Goto(r, "delete xc")
  /\ UNCHANGED <<network, snodes, counted, ranked, dx, xc, writer, snlist, xrlist, draft, lost, aborts>>

DeleteXcServices(r) ==
  /\ pc[r] = "delete xc" /\ writer = Free
  /\ xc' = NoRows /\ Goto(r, "list")
  /\ UNCHANGED <<network, snodes, counted, ranked, dx, xr, writer, snlist, xrlist, draft, lost, aborts>>

DeleteRefused(r) ==
  /\ pc[r] \in {"delete dx", "delete xr", "delete xc"} /\ writer # Free
  /\ Die(r) /\ UNCHANGED aborts

\* $servicenodes = $coind->servicenodelist()
AskList(r) ==
  /\ pc[r] = "list"
  /\ snlist' = [snlist EXCEPT ![r] = listed]
  /\ Goto(r, "connected")
  /\ UNCHANGED <<network, tables, writer, xrlist, draft, lost, aborts>>

\* $xrConnectedNodes = $coind->xrConnectedNodes(); BEGIN TRANSACTION
AskConnected(r) ==
  /\ pc[r] = "connected"
  /\ xrlist' = [xrlist EXCEPT ![r] = connected]
  /\ NewDraft(r, snlist[r])
  /\ Goto(r, "node")
  /\ UNCHANGED <<network, tables, writer, snlist, lost, aborts>>

(* The first transaction: each servicenode, its wallets, its counts.       *)

\* A guarded statement found another writer; the loop goes on without it.
Without(r, what, n) == lost' = [lost EXCEPT ![r] = @ \union {<<what, n>>}]

\* INSERT INTO "servicenodes": a key that is there or another writer makes it
\* fail, and the loop goes on with the node's services all the same.
InsertNode(r, n) ==
  /\ pc[r] = "node" /\ n \in todo[r]
  /\ cur' = [cur EXCEPT ![r] = n]
  /\ \/ /\ MayWrite(r) /\ writer' = r
        /\ ins' = [ins EXCEPT ![r] = IF n \in snodes THEN @ ELSE @ \union {n}]
        /\ UNCHANGED lost
     \/ ~MayWrite(r) /\ Without(r, "row", n) /\ UNCHANGED <<writer, ins>>
  /\ Goto(r, "wallets")
  /\ UNCHANGED <<network, tables, snlist, xrlist, todo, cnt, rows, aborts>>

\* Slip: the INSERT of wallets is guarded like that of servicenodes.
InsertWalletsGuarded(r) ==
  /\ pc[r] = "wallets"
  /\ IF cur[r] \in Trading /\ MayWrite(r)
       THEN writer' = r /\ rows' = [rows EXCEPT ![r] = @ \union {cur[r]}]
       ELSE UNCHANGED <<writer, rows>>
  /\ Goto(r, "counts")
  /\ UNCHANGED <<network, tables, snlist, xrlist, todo, cur, ins, cnt, lost, aborts>>

\* INSERT INTO "dxWallets", not guarded.
InsertWallets(r) ==
  /\ pc[r] = "wallets" /\ (cur[r] \in Trading => MayWrite(r))
  /\ IF cur[r] \in Trading
       THEN writer' = r /\ rows' = [rows EXCEPT ![r] = @ \union {cur[r]}]
       ELSE UNCHANGED <<writer, rows>>
  /\ Goto(r, "counts")
  /\ UNCHANGED <<network, tables, snlist, xrlist, todo, cur, ins, cnt, lost, aborts>>

\* UPDATE "servicenodes" with the counts of the node's services.
UpdateCounts(r) ==
  /\ pc[r] = "counts"
  /\ \/ /\ MayWrite(r) /\ writer' = r
        /\ cnt' = [cnt EXCEPT ![r] = @ \union ({cur[r]} \intersect (snodes \union ins[r]))]
        /\ UNCHANGED lost
     \/ ~MayWrite(r) /\ Without(r, "counts", cur[r]) /\ UNCHANGED <<writer, cnt>>
  /\ todo' = [todo EXCEPT ![r] = @ \ {cur[r]}]
  /\ cur' = [cur EXCEPT ![r] = NoNode]
  /\ Goto(r, "node")
  /\ UNCHANGED <<network, tables, snlist, xrlist, ins, rows, aborts>>

AddRows(table, r) == [n \in Nodes |-> IF n \in rows[r] THEN table[n] + 1 ELSE table[n]]

\* COMMIT; BEGIN TRANSACTION
CommitNodes(r) ==
  /\ pc[r] = "node" /\ todo[r] = {}
  /\ snodes' = snodes \union ins[r] /\ counted' = counted \union cnt[r]
  /\ dx' = AddRows(dx, r)
  /\ Release(r)
  /\ NewDraft(r, xrlist[r])
  /\ Goto(r, "rank")
  /\ UNCHANGED <<network, ranked, xr, xc, snlist, xrlist, lost, aborts>>

(* The second transaction: score and services of the connected nodes.      *)

\* UPDATE "servicenodes": again nothing is done about a failure.
UpdateRank(r, n) ==
  /\ pc[r] = "rank" /\ n \in todo[r]
  /\ cur' = [cur EXCEPT ![r] = n]
  /\ \/ /\ MayWrite(r) /\ writer' = r
        /\ cnt' = [cnt EXCEPT ![r] = @ \union ({n} \intersect snodes)]
        /\ UNCHANGED lost
     \/ ~MayWrite(r) /\ Without(r, "score", n) /\ UNCHANGED <<writer, cnt>>
  /\ Goto(r, "services")
  /\ UNCHANGED <<network, tables, snlist, xrlist, todo, ins, rows, aborts>>

\* INSERT INTO "xrServices" and "xcServices", not guarded.
InsertServices(r) ==
  /\ pc[r] = "services" /\ MayWrite(r)
  /\ writer' = r
  /\ rows' = [rows EXCEPT ![r] = @ \union {cur[r]}]
  /\ todo' = [todo EXCEPT ![r] = @ \ {cur[r]}]
  /\ cur' = [cur EXCEPT ![r] = NoNode]
  /\ Goto(r, "rank")
  /\ UNCHANGED <<network, tables, snlist, xrlist, ins, cnt, lost, aborts>>

CommitServices(r) ==
  /\ pc[r] = "rank" /\ todo[r] = {}
  /\ ranked' = ranked \union cnt[r]
  /\ xr' = AddRows(xr, r) /\ xc' = AddRows(xc, r)
  /\ Release(r)
  /\ NewDraft(r, {})
  /\ Goto(r, "show")
  /\ UNCHANGED <<network, snodes, counted, dx, snlist, xrlist, lost, aborts>>

\* The INSERT of wallets or services finds another writer.
InsertRefused(r) ==
  /\ \/ pc[r] = "wallets" /\ cur[r] \in Trading
     \/ pc[r] = "services"
  /\ ~MayWrite(r)
  /\ Die(r) /\ UNCHANGED aborts

\* The page SELECTs what it shows and is sent.
Show(r) ==
  /\ pc[r] = "show"
  /\ snlist' = [snlist EXCEPT ![r] = {}] /\ xrlist' = [xrlist EXCEPT ![r] = {}]
  /\ lost' = [lost EXCEPT ![r] = {}]
  /\ Goto(r, "idle")
  /\ UNCHANGED <<network, tables, writer, draft, aborts>>

\* An RPC call throws, COMMIT finds a reader, the process ends.
Abort(r) ==
  /\ pc[r] # "idle" /\ aborts < MaxAborts
  /\ aborts' = aborts + 1
  /\ Die(r)

\* A writing statement of another page (main, past orders, past proposals, dbupdate)
\* and the end of its transaction.
OtherLocks ==
  /\ writer = Free /\ others < MaxOthers
  /\ writer' = Other /\ others' = others + 1
  /\ UNCHANGED <<network, tables, pc, snlist, xrlist, draft, lost, aborts>>

OtherUnlocks ==
  /\ writer = Other /\ writer' = Free
  /\ UNCHANGED <<network, tables, pc, snlist, xrlist, draft, lost, aborts, others>>

----------------------------------------------------------------------------

Overlap(r) == overlapped' = (overlapped \/ \E s \in Requests \ {r} : pc[s] # "idle")

Step(r) ==
  \/ DeleteServicenodes(r) \/ DeleteDxWallets(r) \/ DeleteXrServices(r)
  \/ DeleteXcServices(r) \/ DeleteRefused(r)
  \/ AskList(r) \/ AskConnected(r)
  \/ \E n \in Nodes : InsertNode(r, n) \/ UpdateRank(r, n)
  \/ InsertWallets(r) \/ UpdateCounts(r) \/ CommitNodes(r)
  \/ InsertServices(r) \/ CommitServices(r) \/ InsertRefused(r) \/ Show(r)

Refresh(r) == Step(r) /\ Overlap(r) /\ UNCHANGED others

World == (NetworkMoves \/ \E r \in Requests : Abort(r)) /\ UNCHANGED others

Others == (World \/ OtherLocks \/ OtherUnlocks) /\ UNCHANGED overlapped

Next == Others \/ \E r \in Requests : Refresh(r)

\* The pages keep being visited, a visit runs on and another page's transaction ends.
Fairness ==
  (\A r \in Requests : WF_vars(Refresh(r))) /\ WF_vars(OtherUnlocks /\ UNCHANGED overlapped)

Spec == Init /\ [][Next]_vars /\ Fairness

----------------------------------------------------------------------------

Copies(table, set) == \A n \in Nodes : table[n] = IF n \in set THEN 1 ELSE 0

\* While visits come one at a time, what a page shows after its refresh is the node's
\* two answers, whatever earlier visits left behind.  The other pages' writes cost it at
\* most what the code goes on without: rows, counts and scores of servicenodes, and
\* never a wallet or a service.
RefreshIsTheAnswer ==
  \A r \in Requests : pc[r] = "show" /\ ~overlapped =>
    /\ snodes = {n \in snlist[r] : <<"row", n>> \notin lost[r]}
    /\ counted = {n \in snodes : <<"counts", n>> \notin lost[r]}
    /\ ranked = {n \in snodes \intersect xrlist[r] : <<"score", n>> \notin lost[r]}
    /\ Copies(dx, snlist[r] \intersect Trading)
    /\ Copies(xr, xrlist[r]) /\ Copies(xc, xrlist[r])

\* While visits come one at a time, a servicenode's count of wallets agrees with the
\* rows of "dxWallets" in every state a reader can see.
CountsAgree == ~overlapped => \A n \in counted \intersect Trading : dx[n] = 1

\* A refresh that dies half-way leaves tables empty only until the next one.
TablesComeBack ==
  []<>(overlapped \/ (counted = listed /\ Copies(dx, listed \intersect Trading)))

\* Visits that overlap duplicate rows, but never beyond one copy each.
CopiesBounded ==
  \A n \in Nodes : \A table \in {dx, xr, xc} : table[n] <= Cardinality(Requests)

\* Wallets reach the table for the whole list of a visit or not at all, though
\* other visits take the lock in between.
WalletsCommitWhole ==
  [][(\E n \in Nodes : dx'[n] > dx[n]) =>
       \E r \in Requests :
         /\ pc[r] = "node" /\ writer = r
         /\ \A n \in snlist[r] \intersect Trading : dx'[n] = dx[n] + 1]_vars

\* "Trading servicenodes" is the COUNT of a coin's rows: each node once.
TradingServicenodesAreCounted == \A n \in Nodes : dx[n] <= 1
=============================================================================

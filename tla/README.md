# A TLA+ model of Scalaris Monitor

Scalaris Monitor is a PHP web application that shows the state of a Scalaris node. Every page
request is one run of `src/index.php`: it asks the node over JSON-RPC, keeps part of the answers in
an SQLite database (`data/scalaris.db`) and renders a view. There is no process of its own and no
lock but SQLite's and PHP's session lock, which makes the requests of one browser wait for each
other. Requests of different visitors overlap (the project's README names Apache), die at any RPC
call, statement or time limit, and the chain, the peers and the clock move while they run. What can
go wrong is in the five places that write, four to the database and one to a file, and in the pages
that put several answers together; those are what is modelled here.

## The system

| Part | Source | State it keeps | Model |
|---|---|---|---|
| Trade cache, `updatePastOrders` | `src/src/Content.php:771-815` | table `pastorders`, `events.lastorderheight` | `OrderSync` |
| Schema migrations, `dbupdate` | `src/src/Utility.php:869-1023` | the schema, `events.dbversion` | `SchemaUpdate` |
| Past proposals, `updatePastProposals` | `src/src/Content.php:571-670` | `pastproposals`, `scratch`, `events.lastproposal` | `ProposalSync` |
| Servicenode tables, `updateSnodesContent` | `src/src/Content.php:189-354` | `servicenodes`, `dxWallets`, `xrServices`, `xcServices` | `ServicenodeRefresh` |
| Peer geo data, `createPeersGeo`, `getIpData` | `src/src/Utility.php:430-582, 718-763` | the file `data/geodatapeers.inc` | `GeoCache` |
| Pages of several answers (main page's counts, proposals, past orders, blocks, forks) | `src/src/Content.php:15-177, 493-515, 817-875` | none | `Pages` |
| Peers' services, clients' chart, map legend | `src/src/Utility.php:5-50, 302-335, 765-806` | none | `PeerFigures` |
| Budgets, open orders, mempool, `getMostPop`, trades and fees, services, wallets | `src/src/Content.php`, `src/src/Utility.php` | none | not modelled |
| JSON-RPC client | `src/src/jsonRPCClient.php` | a request id | a call answers or throws (`Abort`) |
| Router, session | `src/index.php` | the session; creates the tables | `Init`, `Abort`; the login is not modelled |
| Views, templates, value objects | `src/views`, `src/src/*.php` | none | not modelled (formatting, field by field copies) |

How the parts interact: the router calls one page function; the main page and the past orders page
call `updatePastOrders`, the main page and the peers page `createPeersGeo`, the past proposals page `updatePastProposals`, the servicenode, XRouter and
XCloud pages `updateSnodesContent`, and the dbupdate page `dbupdate`. All but the geo data share one
database file, so all of them compete for its write lock, and each of them trusts what an earlier
request left there. Each of the four writers' modules therefore has, besides its own requests, the
other pages as holders of the lock (`OtherLocks`, `OtherUnlocks`). Only the main page catches exceptions (`index.php:114-118`), and it does nothing with them
that touches the database: everywhere a failure means that the script ends, its connection closes
and SQLite rolls the open transaction back.

What is hard, and what makes each part correct:

* **Trades.** Height, watermark and trades are read at three moments. The cache must hold every trade
  up to its watermark, and a batch and its watermark must become visible together.
* **Migrations.** The version is read outside of the transaction that acts on it. The recorded
  version must never promise what the schema does not have.
* **Proposals.** Emptying `scratch`, filling it and drawing the conclusion are three transactions.
  A proposal must be marked "not paid" if and only if it passed and was not paid.
* **Servicenodes.** The tables are emptied first, then the node is asked, then two transactions fill
  them. A page must show the node's answer, once.
* **Peers.** The geo data file is read, changed and written by every request, without a lock, and is
  empty between its opening and its writing. Peers are found by the ids the node gave them, which
  start anew with the node, and go through two passes with a call of another service in between. An
  entry must be the data of its own address, and a peer must be shown where it is or not at all.
* **Pages.** What is computed from two answers must hold although the world moved in between; the
  blocks and forks pages ask once for every line they show.

## How the code became TLA+

A step is one RPC call or one SQL statement, with the PHP code around it. `pc[r]` says where request
`r` is; the other functions on `Requests` are its PHP variables and its uncommitted rows. What is
committed is in plain variables. After its last step a request is `"idle"` again: the same element
of `Requests` then stands for a later page load. Rows are ids; contents and formatting are left out.

SQLite is modelled as the code opens it: rollback journal, exceptions on, no busy timeout
(`index.php:67-70`). `writer` is the connection that holds the write lock, from its first writing
statement to the end of its transaction; it is `Other` while a page of another module writes. A
statement that finds another writer fails at once. What the code does then differs and is modelled
site by site: it goes on without the row (the INSERTs of trades, of proposals and of servicenodes,
the UPDATEs of counts and scores) or stops there (`WatermarkRefused`, `StepFails`, the DELETEs, the INSERTs
of wallets and services). A `COMMIT` that finds a reader, an RPC call that throws (`jsonRPCClient`)
and PHP's time limit are `Abort`: they may happen to a request at any step, and end it with a rollback.

Variables named *history* are not in the code; they record that something has happened so that a
property can speak of it. `overlapped` says that two requests of a module have run at the same time:
properties of requests that come one at a time are stated under `~overlapped`, and checked in the run that
also lets them overlap or, with more deaths and foreign locks, in one of their own (`proposals_alone`,
`snodes_alone`). One at a time never means undisturbed: another page may write between any two
statements. Definitions headed `Slip` are not part of any specification: each is a small mistake in
the definition below it, and the property named for it in `PROJECT.json` ("mutants") is violated when
it takes that definition's place.

### OrderSync, OrderSyncCalm

State: `height`, `blockOf` (the node), `stored`, `watermark`, `writer` (the database), and per request
`ht`, `base`, `rows`, `txn`. `GetHeight`, `ReadWatermark`, `Fetch`, `Insert`, `InsertRefused`,
`MoveWatermark`, `WatermarkRefused` and `Commit` follow the lines of `updatePastOrders` in order;
`Mine` and `Disconnect` are the chain. `dxGetTradingData(n)` returns the trades of the last `n` blocks
of the chain as it is when the call arrives.

Three ways of the code to step over a trade are recorded in the history variables `slid` (a block
arrived between `getblockcount` and `dxGetTradingData`, so the window begins too late), `refused` (the
INSERT found another writer, was caught and taken for a duplicate) and `remined` (mined at or below a
height that was accounted for already, after a reorganisation). `WatermarkCovers` says that there is
no fourth way. `OrderSyncCalm` closes these three, and then the cache is complete (`WatermarkIsTruth`).

### SchemaUpdate

The schema is the set of the objects the migrations add. `Possible(v, s)` says whether all statements of
the migration from version `v` can be executed on schema `s`, `After(v, s)` what they make of it. The
statements of a migration run in one transaction and nobody else can see their effect before the
commit, so they are two steps: `RunStep` takes the lock, `Commit` shows the result. `FreshInstall`,
`HasRow` and `LiteralIsZero` are facts about an installation: whether this release created `events`
(then it has the column `lastproposal` already), whether the table has its row, and how PHP compares a
string with 0.

### ProposalSync

The votes, the amounts, the addresses and what the chain paid are constants. `List` to
`CommitProposals` record the proposals of past superblocks, `Clear` to `Mark` find the unpaid ones.
Here a reader matters as well as a writer: `Collect` reads within the transaction that fills
`scratch`, and while it is open nobody else can commit (`MayCommit`).

`refused` is the history of the INSERTs that found another writer, be it a visit or another page.
The code steps over them (`Content.php:604-610`) and records the superblock all the same, so such a
proposal is never listed again (`Late`) and is missing from the sum that decides whether its superblock is
judged. What passed and was not paid is therefore not always found. `Overlooked` names the reasons: the
sum of what did get into the table is within the budget; another proposal of the superblock was paid the
same amount at the same address, and the join at line 660 cannot tell the two apart (`HasPaidTwin`); or,
where `events` has no row and every superblock is listed again on every visit, a refused proposal arrives
after the others have been judged (`Piecemeal`). `ShownAsPaidWasPaid` and `EveryVerdictArrives` say that
there is no fourth, whatever a visit dies of.

### ServicenodeRefresh

`snodes`, `counted` and `ranked` say which rows of `servicenodes` are there, have their counts and have
their score; `dx`, `xr` and `xc` count copies, because those three tables have no key. A copy is all the rows
that one refresh inserts for one servicenode. Every connected node is taken to offer services.

Three statements are guarded: the INSERT of a servicenode, the UPDATE of its counts and that of its score
are caught and skipped when another page writes (`Content.php:221, 255, 311`); `lost` records which. The
others end the visit. So `RefreshIsTheAnswer` says what a page shows to the row: the node's answer less what
is in `lost`, which costs no wallet and no service.

### TradeLedger

What the pages that read `pastorders` may rely on: a ledger with a height. Trades and height are
recorded at once, nothing is struck out, and a trade up to the height is in the ledger or known to be
missed. `OrderSync` implements it with `missed <- Exposed` (`IsALedger`): of all the steps of all the
requests only `Commit` is a `Record`; everything else is a `Lag` or leaves the ledger alone.

### GeoCache

State: `peers`, `nextId`, `clock` (the node and the time), `file`, and per request `list`
(`$peerinfo`), `cache` (`$arrayPeers`), `noGeo`, `asked`, `heard` (`$ipData`) and `shown`. A peer is a
record of its id, address and time of connection; an entry of the file is the address it was stored
for, the address whose data it holds, its mark and its position in the PHP array, which the loop
that clears the marks and `array_search` go by. `GetPeers`, `ReadFile`, `Ask`, then `ShowKnown`,
`ShowFound` or `ShowUnknown` for each peer, `Truncate` and `Put` are `createPeersGeo` from top to
bottom. `Tick` lets two minutes go by, also between the two passes, which compute a peer's age
each for themselves.

`array_search` returns FALSE, which is index 0, for an address the geo service was not asked for or
did not answer: the peer then gets the first answer there is, and that is stored. The model does the
same (`Answer`). The history variable `excused` holds the addresses for which the code may do so,
for three reasons: the peer turned two minutes old between the two passes; its batch timed out or it
was beyond the 1500th; or, after a restart of the node, another peer was stored under the id of its
entry, which was in the first pass and is gone in the second. `EntriesAreTruthful` says that there is
no fourth reason. `settled` and `calm` say that the network has stood still, for the properties about
reloads. `Earlier` are files left by requests of the node's earlier run: without them TLC could not
reach the third reason within the bounds. The geo service answers with the right data or not at
all; its answer to a private or reserved address is left out.

### Pages, PeerFigures

A page of `Pages` is the sequence of its reads (`MainReads` and so on), one step each, between which
the chain grows or is reorganised, other requests cache trades and time passes. What the code
computes from the answers is computed from them when the page is complete. Two pages are walks: the
blocks page from the tip down, and the forks page along the list of tips, with a `getblock` and a look at
the clock for each (`ReadFork`), the count growing on the way. `Recent` rounds a fork's age to whole hours as the
code does, half an hour up. Budgets of the proposals page and everything that is only formatted are left out.
`PeerFigures` has the figures of one answer, the list of peers: `getServices`, `ClientCounts`, `Tops`,
`Legend`. Two pages of `Pages` show them (`VisitPeers`, `VisitCharts`) for every mask and every list of
peers within the bounds, at the start only, as they depend on nothing that happens.

## What is checked

| Run | Bounds | Shows |
|---|---|---|
| `orders_concurrent` | 2 requests, 2 trades, 2 blocks, 1 reorganisation, 1 death, 1 foreign lock | safety under overlap, and that no trade waits for ever |
| `orders_calm` | 1 request, 2 trades, 3 blocks, 2 deaths | without disturbance the cache is complete |
| `orders_all_time` (violated) | 1 request, no failure at all | a block that arrives at the wrong moment hides a trade for good |
| `schema_concurrent` | 2 visits, 2 deaths, 2 foreign locks, kept database | the version is backed by the schema; one at a time the visits reach the last version |
| `proposals_concurrent` | 2 visits, 4 proposals in 2 superblocks (1 oversubscribed), 1 death, 1 foreign lock | what overlap cannot damage; one at a time nothing paid is marked "not paid" |
| `proposals_alone` | 1 visit, 5 proposals (2 that the join cannot tell apart, 1 that failed), 2 deaths, 2 foreign locks | what is shown as paid was paid and every verdict arrives, but for the reasons named |
| `proposals_race` (violated) | 2 visits, no failure | overlapping visits mark paid proposals "not paid" |
| `snodes_concurrent` | 2 visits, 2 servicenodes, 1 change of the network, 1 death, 1 foreign lock | at most one copy per visit, whole lists |
| `snodes_alone` | 1 visit, 3 servicenodes (2 trading), 1 change of the network, 2 deaths, 2 foreign locks | the page shows the node's answer but for the statements it was refused; emptied tables fill again |
| `snodes_duplicates` (violated) | 2 visits, no failure | overlapping visits count a servicenode twice |
| `geo_concurrent` | 2 requests, 3 addresses, 3 ids, 4 moves of peers, 1 tick, 1 restart, death or lost answer, batches of 1, 2 lookups | what is stored and shown of a peer stays true; quiet reloads ask for nothing; only entries behind the oldest peer's outlive their peers |
| `pages` | 6 events (blocks, trades, units of time), 2 blocks and 3 forks shown, superblocks every 3, an hour of 2 units; masks of bits 0 to 11, 18 and 19, lists of 5 peers with 5 names | what pages of several answers still say truly, that the number of forks lies between those that were young when the walk began and those that still are, and that figures are what they stand for |

Why the bounds are enough. Every conflict in this code is between two connections: the write lock has
one holder, and a stale read needs one other request to become stale. Two trades are needed for a part
of a batch. Two blocks let the window slide, let a request overtake another by a block, and let the
chain get shorter than the watermark. A superblock with two passed proposals, of which one is paid,
and a second superblock that the budget covers, are the two sides of the test `SUM("amount")>30000`;
`Budget` and `Cycle` are scaled down with the amounts. In `proposals_alone` the oversubscribed superblock
has three that passed, so that it is still oversubscribed when one INSERT was refused and within the budget
when two were, which is what two foreign locks are for; a third lock adds little, as a superblock
with all but one of its rows missing is within the budget already. The runs are of a
database with its row in `events`; without it the same run passes as well (380,000 states), and fails when
`Piecemeal` is left out. Two servicenodes that may be listed,
connected, both or neither make every loop of the refresh run with something to do and with nothing,
and a list of wallets have a part; the third, in `snodes_alone`, does not trade. Two foreign locks refuse
two of the three guarded statements of one visit, or one statement each of two visits.

For the geo data file, two requests undo each other's changes, three addresses give a peer that is
stored, one that is asked for and one that is passed over, and batches of one with two lookups have
all of: an answered batch, a lost one and an address beyond the limit. A restart needs a peer before
it and two after it, which `Earlier` provides without the steps of the first run. With one request the
module was also run once at 4 ids, 6 moves, 2 ticks and 2 faults (21.3 million states), with the same
result. For the pages, six events are enough for a reorganisation by two blocks under a walk of two,
a superblock between two reads and a fork that falls out of the last day. A day is an hour of
two units, so that an age of a day and half an hour, which is rounded up, and the ages next to it
occur (that an age between the two is rounded down is left to the proof), and three forks are shown, so
that time can pass after one was counted and before the last one is read. The bits include those
`getServices` reads, those next to them, and both sides of the width of a PHP integer; two names share
their first characters. The safety properties are proved for every value of the
bounds, see below.

The three violated runs are disagreements between the code and what it or its views say; each is
described under "findings" in `PROJECT.json`. What else the models show, without a run of their own:

* Where this release created `events`, the first migration adds a column that is there
  (`index.php:83-87`, `Utility.php:881`), fails and is tried again on every visit: with `FreshInstall` TRUE
  `ReachesLast` is violated, and there never are servicenode tables.
* Nothing inserts the row of `events`. Without it the UPDATE of the watermark changes nothing
  (`Content.php:783`) and each request asks for the trades of the whole chain: with `Seeded` FALSE
  `CacheKnowsItsHeight` is violated.
* The join at `Content.php:660` takes an unpaid proposal for paid if another one of the superblock was
  paid the same at the same address: `EveryVerdictArrives` is violated when `HasPaidTwin` is no reason.
* A fork up to 24 and a half hours old counts as one of the "last 24 hours" (`Content.php:141, 162-165`,
  `forks.phtml:12-13`). `Young` says half an hour more than a day for that reason.
* `dbupdate`'s page reports the version it meant to write, which a stale visit does not write.
* One INSERT that another page's lock refuses can cost more than its own row: without it the sum of an
  oversubscribed superblock may be within the budget, and then none of its unpaid proposals is marked.
* A servicenode whose INSERT is refused is not shown, while its wallets and services are counted.
* A wrong country can be stored for good. The three ways are those of `excused` above; the third was
  found by the attempt to prove `EntriesAreTruthful` without it.
* "Removes all peers that the node is not connected to anymore" (`Utility.php:571`) holds for the
  entries stored before the oldest peer's only: the loop that clears the marks stops there
  (`Utility.php:456-459`), and a restart may give an entry's id to another peer, which then marks it.
  `OnlyBehindTheOldestOutlive` states what does hold.
* The forks page takes one off for the active tip, which need not be among the forks it has counted,
  and can show -1.
* A mask whose highest service bit is 9 is shown as "Network Limited", and bits are lost from 19 on.
* "Other" in the charts counts names, not peers.
* On a node without peers the peers page fails.

### Fairness

`WF` of each request's steps: a page that needs the data keeps being requested and PHP runs a request on
until it ends; and `WF` of the end of a foreign lock (`OtherUnlocks`): the other page's transaction ends too,
as its script does. How often other pages take the lock is bounded (`MaxOthers`), as deaths are
(`MaxAborts`): a page that for ever found the database locked would never get anything done. No fairness
is assumed of the chain, of the network or of the order among requests. The liveness properties are `EveryTradeSettles`, `EveryTradeIsCached`, `ReachesLast`, `EveryVerdictArrives` and
`TablesComeBack`. `GeoCache` and `Pages` assume no fairness and state no liveness: nothing in them
waits. Where a request may step over something for good (`Exposed`) or where overlap may
spoil the database for good (`overlapped`), the property says so.

## What is proved

TLAPS proves for every set of requests, of trades and every bound:

* `OrderSyncProofs`: `TypeCorrect`, `Coverage` (`WatermarkCovers`), `WriterExclusive` (uncommitted rows
  belong to the holder of the write lock), `AtomicBatches` (`RowsComeWithTheirHeight`),
  `RetreatExplained` (`OnlyTheOvertakenRetreat`), `NoRetreat` (with one request at a time the watermark
  never moves back); `HeightIsKept` (`CacheKnowsItsHeight`) where `events` has its row, and `LedgerImplemented`
  (`IsALedger`): the refinement of `TradeLedger`.
* `OrderSyncCalmProofs`: `CalmIsComplete` (`WatermarkIsTruth` of `CalmSpec`, one request at a time).
* `SchemaUpdateProofs`: `TypeCorrect`, `Backed` (`VersionIsBacked`), `NothingTakenAway`
  (`PagesKeepWorking`), for every kind of installation, and `ExactSchema` (`SchemaIsVersion`) for a
  database kept from an older release.
* `ProposalSyncProofs`: `TypeCorrect`, `Completeness` (`SuperblocksAreComplete`), `VerdictsAreTrue`
  (`NotPaidIsTruthAlone`), `CoveredStaysPaid` (`CoveredSuperblocksUntouched`), `ShownWasPaid`
  (`ShownAsPaidWasPaid`).
* `ServicenodeRefreshProofs`: `TypeCorrect`, `CopiesAreBounded` (`CopiesBounded`), `CountsAlwaysAgree`
  (`CountsAgree`), `WalletsStayWhole` (`WalletsCommitWhole`), `ShowsTheAnswer` (`RefreshIsTheAnswer`).
* `GeoCacheProofs`: `Types` (`TypeOK`), `FileIsTruthful` (`EntriesAreTruthful`), `PeersShownWhereTheyAre`
  (`ShownIsTheirs`), `RestIsRemoved` (`OnlyBehindTheOldestOutlive`), `QuietReloads`
  (`QuietReloadAsksNothing`), `QuietRequests` (`QuietRequestLocatesAll`).
* `PagesProofs`: `Types` (`TypeOK`), `OneChain` (`BlocksShownAreOneChain`), `DayWithinAllTime`
  (`RecentWithinAllTime`), `WindowIsOpen` (`OpenWindowIsOpen`), `SearchFinds` (`SearchFindsTheRest`),
  `ForksBetween` (`ForksAreCounted`), `ServicesOfTheBits` (`ServicesAreTheBits`), `EachPeerOnce`
  (`ChartsCountPeersOnce`).

So every invariant and every action property of a run that passes is a theorem.

The assumptions are the named `ASSUME`s of the modules and, where stated, `OneAtATime`. They say that
bounds are natural numbers, that the lock's other values are no requests, that the proposals and the
service bits are finite sets, what a file left by the node's earlier run looks like
(`EarlierAssumption`: marked entries of their own addresses, at different places of the array),
that cutting a cut name changes nothing (`FiguresAssumption`), and that a day is a whole number of hours and
the last `Closing` blocks are part of a cycle (`PagesAssumption`). Nothing is assumed about which
proposals pass, are paid or ask for the same, and nothing about when other pages write.

*Sums and folds.* `SumLemmas` says what the library's sums and extrema are without recursion: a sum over
a finite set is the number of its units (`SumIsUnits`), it is monotone and splits, and the sizes of
disjoint sets add up to the size of their union (`SumOfParts`). There is no induction over data to
be had from the provers; instead a candidate is written down in closed form and shown to satisfy the
recursion, and that nothing else does follows from a smallest counterexample, which the well-founded
order on the subsets of a finite set provides (`SmallestSubset`).

*OrderSync.* `WatermarkCovers` alone is not inductive: a commit moves the watermark to a height that
only the request itself knows. The inductive invariant `IInv` therefore says the same of each request:
up to `base` everything was accounted for when the watermark was read (`BaseCovered`; rows never leave
the cache, so a stale watermark stays true), and from the fetch on, everything up to `ht` is
stored, in the open transaction, still to be inserted, or exposed (`BatchCovers`). `Stages` ties `base`,
`rows` and `txn` to the program counter, and `OneWriter` makes the commit the only way to the cache.
There is a lemma per action with a step per conjunct.

*Calm.* `NothingSteppedOver` strengthens it: the three history sets are empty, no height that is known
exceeds the node's, and between its two RPC calls a request's height is the node's. So the window
begins right above the watermark, and with one request nobody can refuse an INSERT.

*SchemaUpdate.* A version once read stays backed because no migration takes away what a version needs
(`AfterKeepsNeeds`), and each adds what the next version needs (`AfterAdds`); hence a commit from a
version however stale records one that is backed.

For visits one at a time, `Alone` adds that the schema is exactly the recorded version's, and that
the one visit under way acts on that version, on 0 or on none: step 0 fails on every later schema
(`StepZeroFails`), so a visit that commits had the right version, and `AfterSchemaOf` says that each
step leads from the schema of its version to that of the next.

*Refinement.* `LagStep` and `RecordStep` map the steps; that the ledger's `Complete` holds after each is
`WatermarkCovers`, from `IInv`.

*ProposalSync.* `SuperblocksAreComplete` is about what is committed, so a visit between its list and its
commit must carry what the table lacks: `BatchComplete` says that every proposal up to the
superblock the visit is about to record is in the table, among its rows, in its transaction or
refused. For `NotPaidIsTruthAlone` the second invariant, `Alone`, follows one visit at a time from the
emptied `scratch` over the superblocks collected and the payments filled in to the marking.

`CoveredSuperblocksUntouched` holds under overlap because the UPDATE goes by the sum of the rows there
are, and these are among what passed: a sum over fewer proposals is no larger (`SumMonotone`). For
`ShownAsPaidWasPaid` a visit that died between its two halves matters, and what it was refused before. The
invariant is `AloneWhole`: no visit records a superblock the chain has not seen (`NotAhead`), what it
commits is all of the superblocks it reached but what was refused (`InsertsAll`), and none is in the table before
(`NothingAbove`). From these, `AsAWhole`: but for what came too late, a superblock is in the table as a whole, not at
all, as its votes went, or as the join tells who was paid. So the next marking sums over all of
`Summed`, and what it leaves as "passed" has a payment in `scratch`, which holds nothing else (`ScratchIsPaid`):
its own or its twin's.

*ServicenodeRefresh.* Every DELETE sets a bound anew, every COMMIT adds at most a copy: a row has at
most as many copies as there are visits that are not between the two (`Bounds`, by cardinalities of
finite sets). `CountedThere` keeps the counts with the rows they were set on.

`RowsOfPassed` ties a visit's uncommitted wallets to the nodes it has passed and to the lock, which
nobody takes from it; so its COMMIT shows the whole list. For visits one at a time `AllAnswering` says
of every step which tables are still empty, which hold the first answer and which the second, each
less what the visit has gone on without so far: the row, the counts or the score of a node it has passed, and
nothing of a node it has not. A node without its row gets no counts and no score, as an UPDATE of no row
changes nothing.

*GeoCache.* The second pass keeps a request's copy truthful because of what the first pass did:
a peer that was not asked for is too young, known or excused (`PassedOverKnown`), and one that was not
answered is excused (`UnansweredExcused`). Everything a request writes was truthful when it read it
and stays so, as `excused` only grows; so the order of the writes does not matter.

The other properties rest on a second invariant, `JInv`. `OneOwner`: until the node is restarted an id
belongs to one address, in the node, the file and every request's copies alike; it makes a stale file
harmless. `Afresh` and `Following` say what a copy is made of: of what the request itself found, if it
gave the file up, or else of what it read, with the oldest peer's entry still the first of its
address. `StandsStill`, `QuietKnows` and `QuietLocates` follow a request whose network stands still from its
list to its file, and `SettledFile` says that what it wrote stays complete while other requests, who
find everything known, write the file too.

`OnlyBehindTheOldestOutlive` was first stated without the restart, and the proof did not go through: an
entry before the oldest peer's whose id now is another peer's is marked again by that peer, if its
address is known by another entry. The bounds did not reach that; the property now names the case, and `Earlier`
has files with a gap between the ids.

*Pages.* `Rooted` says that every block but the first stands on one that is a step lower, and `WalkOK` that
the walk has reached the predecessor of its last block; so a block read next is one lower, whatever
was mined meanwhile. `CountsOK` bounds the first count by the trades there are, which only grow.
`WindowOK` remembers that the superblock named was next after some height there was. Heights
only grow, and a height that has not reached the end of a lower one's cycle is in the same cycle
(`SameCycle`), so it is still the next one. The theorem needs `Closing` to be positive, as it is in the code.

A second invariant, `PInv`, is about the other pages. `SearchOK`: the search's days are the full ones
there were at its first look at the clock, so less than a day is left out, and of what has passed at
its second look as much. `ChainOK` says that blocks stand on full ones and no full one is higher than
the tip. For the forks there is, at each step of the walk, a set of tips it has counted (`AreCounted`), of
which each was young when the page began (`RoundedIsYoung`: an age that is rounded to a day is less than a day
and half an hour, by arithmetic over whole hours) and to which each tip it has walked past
belongs that still is young; the page's number is the size of that set less the active chain's tip, so it lies
between the two. `FiguresOK` says of which mask or which list the figures are.
For the services, the digits of a mask that is no wider than an integer are its bits (`DigitsOf`,
`DigitIsBit`). For the charts, the counts are the sizes of disjoint parts of the list (`ArePartsOf`): a
client's count is reset by a name that is cut to it, so it is that of the places after which no
such name comes (`PartOf`, `CountsAreParts`). "Other" counts for one place of each part left out
(`LegendOf`), so the whole is never more than the list.

Only model-checked are the five liveness properties: with `ENABLED`, which fairness is made of, they are
out of the prover's reach.

## What is not modelled

The contents of rows and pages; the login; the budgets of the proposals page, open orders, mempool,
`getMostPop`, trades and fees, the service and wallet lists, which are sums and copies of one answer or
of one SELECT; `createPeers`, which keeps no file; `Node`, which copies five answers field by field for the main and the mempool
page (`Content.php:20, 184`), and `SNode`, which copies a row of `servicenodes` (`Content.php:367`); `MSNode`,
`createNodes`, `createNodesGeo`, `updateHosted` and `secondsToHuman`, which no page reaches; third-party libraries and assets (all of
`src/assets/js`); power loss (SQLite's journal is trusted); a proposal list that changes for past
superblocks; a reorganisation across a superblock; the cached entries of `GeoCache` for a peer whose
address the geo service answers with an error.

## Plan

What is left, in order of worth:

1. `Monitor`: the four writers on one database, with one lock they share instead of the other pages that
   each of their modules now has (`OtherLocks`).
2. The proposals page's budgets and the trades and fees page as sums against a reference definition.
3. The proofs that 1 and 2 call for: that each writer of the shared database implements its own
   module, which carries the theorems above over, and the sums with `SumLemmas`.

-------------------------------- MODULE Pages --------------------------------
(***************************************************************************)
(* Pages put together from several answers while the world moves on: the   *)
(* main page's counts of trades, the proposals page, the search for past   *)
(* orders, the blocks page and the forks page; and two that are figures of *)
(* one answer, the list of peers: the peers' services and the charts.      *)
(*                                                                         *)
(* None of these reads is part of a transaction with another: between two  *)
(* of them blocks arrive, the chain is reorganised, another request caches *)
(* trades and time passes.  A page of this module is therefore its reads,  *)
(* one step each, in the order of the code; what it computes from them it  *)
(* computes at the end or, on the blocks and forks pages, which are walks, *)
(* on the way.                                                             *)
(***************************************************************************)
EXTENDS PeerFigures

CONSTANTS
  DisplayBlocks,  \* Config::DISPLAY_BLOCKS
  DisplayForks,   \* Config::DISPLAY_FORKS
  Cycle,          \* blocks from a superblock to the next (42000)
  Closing,        \* blocks before a superblock no proposal is taken any more (2000)
  FirstStake,     \* height of the first block with a coinstake transaction
  Hour, Day,      \* units of time per hour and per day
  Coins,          \* coins that are traded
  AnyCoin,        \* no coin is asked for
  MaxEvents       \* bound: blocks, trades and units of time, together

ASSUME PagesAssumption ==
  /\ DisplayBlocks \in Nat \ {0} /\ DisplayForks \in Nat \ {0}
  /\ Cycle \in Nat \ {0} /\ Closing \in 1..Cycle /\ FirstStake \in Nat
  /\ Hour \in Nat \ {0} /\ Day \in Nat \ {0} /\ Day = (Day \div Hour) * Hour
  /\ AnyCoin \notin Coins
ASSUME BoundAssumption == MaxEvents \in Nat

VARIABLES
  blocks,   \* the block index of the node, by hash (here: the order of arrival)
  best,     \* the hash of the tip of the active chain
  trades,   \* the rows of "pastorders"
  clock,
  page,     \* the page that is being put together
  args,     \* its parameters
  got       \* what it has read so far, by name

world == <<blocks, best, trades, clock>>
vars  == <<world, page, args, got>>

Genesis == [height |-> 0, prev |-> 0, full |-> TRUE, at |-> 0]
Nothing == [x \in {} |-> x]
NoArgs  == [days |-> 0, maker |-> AnyCoin]

Height == blocks[best].height

\* Slip: all time is counted first.
MainReadsSwapped == <<"alltimeOrders", "recentOrders">>

\* The reads of each page, in the order of the code.
MainReads == <<"recentOrders", "alltimeOrders">>

\* Slip: the height is looked at first.
ProposalsReadsSwapped == <<"currentBlock", "nextSuperblock">>

ProposalsReads == <<"nextSuperblock", "currentBlock">>

PastOrdersReads == <<"days", "order">>

Reads(p) ==
  CASE p = "main"       -> MainReads
    [] p = "proposals"  -> ProposalsReads
    [] p = "pastorders" -> PastOrdersReads

ReadPages == {"main", "proposals", "pastorders"}
FigurePages == {"peers", "charts"}
PageNames == ReadPages \union FigurePages \union {"none", "blocks", "forks"}

\* Slip: the list is not cut before it is counted.
ForksUncut(tips) == Len(tips)

\* How many tips of a list the forks page shows.
ForksShown(tips) == IF Len(tips) < DisplayForks THEN Len(tips) ELSE DisplayForks

TypeOK ==
  /\ \A h \in DOMAIN blocks :
       /\ blocks[h].prev < h /\ blocks[h].at \in 0..clock
       /\ h > 1 => /\ blocks[blocks[h].prev].full
                   /\ blocks[h].height = blocks[blocks[h].prev].height + 1
  /\ best \in DOMAIN blocks /\ blocks[best].full
  /\ \A h \in DOMAIN blocks : blocks[h].full => blocks[h].height <= Height
  /\ \A i \in DOMAIN trades : trades[i] \in [at : 0..clock, maker : Coins]
  /\ clock \in 0..MaxEvents
  /\ page \in PageNames /\ args \in [days : 0..1, maker : Coins \union {AnyCoin}]
  /\ page = "blocks" => /\ got.next \in 0..Len(blocks)
                        /\ Len(got.walk) <= DisplayBlocks
                        /\ \A i \in DOMAIN got.walk : got.walk[i] \in DOMAIN blocks
  /\ page \in ReadPages => DOMAIN got \subseteq Range(Reads(page))
  /\ page = "forks" => /\ \A i \in DOMAIN got.forks : got.forks[i] \in DOMAIN blocks
                       /\ got.i \in 0..DisplayForks /\ got.i <= Len(got.forks)
                       /\ got.recent \in 0..got.i

Init ==
  /\ blocks = <<Genesis>> /\ best = 1 /\ trades = <<>> /\ clock = 0
  /\ page = "none" /\ args = NoArgs /\ got = Nothing

----------------------------------------------------------------------------
(* The world.                                                              *)

Events == (Len(blocks) - 1) + Len(trades) + clock

\* The figures depend on nothing else of the world.  Bound: they are looked at before
\* anything happens, and nothing happens meanwhile.
Happens == Events < MaxEvents /\ page \notin FigurePages

\* A block on top of any block there is; the longest chain of full blocks is the
\* active one.
Mine(h, full) ==
  /\ Happens /\ blocks[h].full
  /\ LET new == [height |-> blocks[h].height + 1, prev |-> h, full |-> full, at |-> clock]
     IN  /\ blocks' = Append(blocks, new)
         /\ best' = IF full /\ new.height > Height THEN Len(blocks) + 1 ELSE best
  /\ UNCHANGED <<trades, clock, page, args, got>>

\* Another request caches a trade of now or before.
Trade(t) ==
  /\ Happens
  /\ trades' = Append(trades, t)
  /\ UNCHANGED <<blocks, best, clock, page, args, got>>

Tick ==
  /\ Happens
  /\ clock' = clock + 1
  /\ UNCHANGED <<blocks, best, trades, page, args, got>>

----------------------------------------------------------------------------
(* What a read finds.                                                      *)

\* nextsuperblock
NextSuperblock == (Height \div Cycle + 1) * Cycle

Since(t) == {i \in DOMAIN trades : trades[i].at >= t}

\* Slip: the special case is forgotten.
DaysOrOne == IF args.days # 0 THEN args.days ELSE 1

\* days=0 stands for all time if something is searched for, and for the last day
\* if not.
Days ==
  IF args.days # 0 THEN args.days
  ELSE IF args.maker # AnyCoin THEN (clock - Genesis.at) \div Day
  ELSE 1

\* SELECT * FROM "pastorders" WHERE "timestamp" >= :since AND ...
Orders(days) ==
  {i \in Since(clock - days * Day) : args.maker \in {trades[i].maker, AnyCoin}}

\* getchaintips: blocks nothing is built on.
Tips == DOMAIN blocks \ {blocks[h].prev : h \in DOMAIN blocks}

\* ... the highest first.
TipLists ==
  {s \in [1..Cardinality(Tips) -> Tips] :
     /\ IsInjective(s)
     /\ \A i, j \in DOMAIN s : i < j => blocks[s[i]].height >= blocks[s[j]].height}

\* Slip: the hour that is not full is dropped.
FullHours(age) == age \div Hour

\* round((time() - $block['time'])/3600)
RoundedHours(age) == (2 * age + Hour) \div (2 * Hour)

Recent(h) == RoundedHours(clock - blocks[h].at) <= Day \div Hour

Answers(what) ==
  CASE what = "recentOrders"   -> {Cardinality(Since(clock - Day))}
    [] what = "alltimeOrders"  -> {Len(trades)}
    [] what = "nextSuperblock" -> {NextSuperblock}
    [] what = "currentBlock"   -> {Height}
    [] what = "days"           -> {[days |-> Days, now |-> clock]}
    [] what = "order"          -> {Orders(got.days.days)}

----------------------------------------------------------------------------
(* The pages.                                                              *)

Visit(p) ==
  /\ page = "none" /\ page' = p
  /\ args' = NoArgs /\ got' = Nothing
  /\ UNCHANGED world

VisitPastOrders(days, maker) ==
  /\ page = "none" /\ page' = "pastorders"
  /\ args' = [days |-> days, maker |-> maker] /\ got' = Nothing
  /\ UNCHANGED world

\* One RPC call or SELECT.
Read ==
  /\ page \in ReadPages /\ Cardinality(DOMAIN got) < Len(Reads(page))
  /\ LET what == Reads(page)[Cardinality(DOMAIN got) + 1]
     IN  \E answer \in Answers(what) :
           got' = [x \in DOMAIN got \union {what} |-> IF x = what THEN answer ELSE got[x]]
  /\ UNCHANGED <<world, page, args>>

\* The blocks page starts from getbestblockhash ...
VisitBlocks ==
  /\ page = "none" /\ page' = "blocks"
  /\ args' = NoArgs /\ got' = [walk |-> <<>>, next |-> best]
  /\ UNCHANGED world

HasCoinstake(h) == blocks[h].height >= FirstStake

\* Slip: the block below is asked for by its height.
BelowByHeight(h) ==
  LET f[k \in DOMAIN blocks] == IF blocks[k].height < blocks[h].height THEN k ELSE f[blocks[k].prev]
  IN  IF blocks[h].height = 0 THEN 0 ELSE f[best]

\* previousblockhash
Below(h) == blocks[h].prev

\* ... and walks down, a getblock and two getrawtransactions a block.
ReadBlock ==
  /\ page = "blocks" /\ Len(got.walk) < DisplayBlocks
  /\ got.next # 0 /\ HasCoinstake(got.next)
  /\ got' = [walk |-> Append(got.walk, got.next), next |-> Below(got.next)]
  /\ UNCHANGED <<world, page, args>>

\* There is no block below the first one and no coinstake in a mined one: the node
\* answers with an error, which nothing catches.
BlocksFail ==
  /\ page = "blocks" /\ Len(got.walk) < DisplayBlocks
  /\ got.next = 0 \/ ~HasCoinstake(got.next)
  /\ page' = "none" /\ args' = NoArgs /\ got' = Nothing
  /\ UNCHANGED world

\* The forks page starts from getchaintips ...  (History: when, and which was the
\* active chain's.)
VisitForks ==
  /\ page = "none" /\ page' = "forks"
  /\ args' = NoArgs
  /\ \E tips \in TipLists :
       got' = [forks |-> tips, i |-> 0, recent |-> 0, tip |-> best, since |-> clock]
  /\ UNCHANGED world

\* ... and takes them one by one: a getblock and a look at the clock for each that is
\* more than a header.
ReadFork ==
  /\ page = "forks" /\ got.i < ForksShown(got.forks)
  /\ LET h == got.forks[got.i + 1]
     IN  got' = [got EXCEPT !.i = @ + 1,
                            !.recent = IF blocks[h].full /\ Recent(h) THEN @ + 1 ELSE @]
  /\ UNCHANGED <<world, page, args>>

\* $content['recentForks'], less one for the active chain's tip.
RecentForks == got.recent - 1

\* The peers page shows the services of any mask a peer announces, ...
VisitPeers ==
  /\ page = "none" /\ Events = 0 /\ page' = "peers"
  /\ args' = NoArgs
  /\ \E mask \in SUBSET Bits : got' = [mask |-> mask, services |-> getServices(mask)]
  /\ UNCHANGED world

\* ... the main page's chart the clients of any list of peers and its map their
\* countries.
VisitCharts ==
  /\ page = "none" /\ Events = 0 /\ page' = "charts"
  /\ args' = NoArgs
  /\ \E list \in Lists : \E counts \in {ClientCounts(list), CountryCounts(list)} :
     \E top \in Tops(counts) :
       got' = [list |-> list, all |-> top = DOMAIN counts, legend |-> Legend(counts, top)]
  /\ UNCHANGED world

Complete ==
  \/ page \in FigurePages
  \/ page = "blocks" /\ Len(got.walk) = DisplayBlocks
  \/ page = "forks" /\ got.i = ForksShown(got.forks)
  \/ page \in ReadPages /\ Cardinality(DOMAIN got) = Len(Reads(page))

\* The page is complete and sent.
Show ==
  /\ Complete
  /\ page' = "none" /\ args' = NoArgs /\ got' = Nothing
  /\ UNCHANGED world

Next ==
  \/ \E h \in DOMAIN blocks, full \in BOOLEAN : Mine(h, full)
  \/ \E t \in [at : 0..clock, maker : Coins] : Trade(t)
  \/ Tick
  \/ \E p \in {"main", "proposals"} : Visit(p)
  \/ \E days \in 0..1, maker \in Coins \union {AnyCoin} : VisitPastOrders(days, maker)
  \/ VisitBlocks \/ VisitForks \/ VisitPeers \/ VisitCharts
  \/ Read \/ ReadBlock \/ BlocksFail \/ ReadFork \/ Show

Spec == Init /\ [][Next]_vars

----------------------------------------------------------------------------
(* Properties.                                                             *)

\* The main page never shows more trades of the last day than of all time, though
\* others cache trades between the two counts.
RecentWithinAllTime ==
  page = "main" /\ Complete => got.recentOrders <= got.alltimeOrders

\* The proposals page names the superblock first and looks at the height last.  If it
\* says that proposals are still taken for that superblock, they are, at that
\* moment, and it is the next one - whatever arrived in between.
OpenWindowIsOpen ==
  [][page = "proposals" /\ Complete' /\ ~Complete
       /\ ~(got'.currentBlock > got'.nextSuperblock - Closing) =>
         got'.nextSuperblock = NextSuperblock /\ Height <= NextSuperblock - Closing]_vars

\* A search over all time finds every trade of the coin but those of the chain's
\* first day (and of as much longer as passes between the search's two looks at the
\* clock).
SearchFindsTheRest ==
  [][page = "pastorders" /\ Complete' /\ ~Complete /\ args.days = 0 /\ args.maker # AnyCoin =>
       \A i \in DOMAIN trades :
         trades[i].maker = args.maker /\ trades[i].at >= Day + (clock - got.days.now) =>
           i \in got'.order]_vars

\* The blocks shown are one chain, a block for each height, also when the chain was
\* reorganised under the walk.
BlocksShownAreOneChain ==
  page = "blocks" =>
    \A i, j \in DOMAIN got.walk :
      /\ blocks[got.walk[i]].height = blocks[got.walk[1]].height - (i - 1)
      /\ j = i + 1 => got.walk[j] = blocks[got.walk[i]].prev

\* The forks there were when the page began: full tips but the active chain's.
Forks == {h \in Range(got.forks) \ {got.tip} : blocks[h].full}

\* Younger, at some time, than a day and half an hour.
Young(h, time) == 2 * (time - blocks[h].at) < 2 * Day + Hour

\* However much time passes under the forks page, and whatever is mined and
\* reorganised, it reports no more forks than were younger than 24 and a half hours
\* when it began, and no fewer than those it shows that still are when it is
\* complete.  (One fewer, down to -1, if the active chain's tip, which is taken off
\* anyway, is not shown or not that young itself.)
ForksAreCounted ==
  [][page = "forks" /\ Complete' /\ ~Complete =>
       LET shown == {got.forks[i] : i \in 1..ForksShown(got.forks)}
       IN  /\ RecentForks' <= Cardinality({h \in Forks : Young(h, got.since)})
           /\ RecentForks' >= Cardinality({h \in Forks \cap shown : Young(h, clock)})
                                - (IF got.tip \in shown /\ Young(got.tip, clock) THEN 0 ELSE 1)]_vars

\* A peer is shown with exactly the services whose bits it announces, for every mask
\* of up to 19 bits but those whose highest bit is 9 (there the first digit is read
\* for the eleventh, and "Network Limited" is shown for it).
ServicesAreTheBits ==
  page = "peers" /\ got.mask # {} /\ Max(got.mask) < 19 /\ Max(got.mask) # 9 =>
    got.services \ {"Unknown"} = {s \in Services : Place[s] - 1 \in got.mask}

\* A chart never counts more peers than there are, under no name and over all
\* names; it counts every peer if no name is cut and none is left out.
ChartsCountPeersOnce ==
  page = "charts" =>
    /\ \A k \in DOMAIN got.legend \ {Other} :
         got.legend[k] <=
           Cardinality({i \in DOMAIN got.list : k \in {got.list[i], Cut[got.list[i]]}})
    /\ Total(got.legend) <= Len(got.list)
    /\ got.all /\ (\A i \in DOMAIN got.list : Cut[got.list[i]] = got.list[i]) =>
         Total(got.legend) = Len(got.list)
=============================================================================

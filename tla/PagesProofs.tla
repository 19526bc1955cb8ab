---------------------------- MODULE PagesProofs ----------------------------
(***************************************************************************)
(* Proofs about Pages and PeerFigures, for every length of a cycle, every  *)
(* number of blocks shown and every bound: the blocks page's walk, the     *)
(* main page's counts and the proposals page's window (IInv); the search,  *)
(* the forks, the services and the charts (PInv).                          *)
(***************************************************************************)
EXTENDS Pages, SumLemmas, FiniteSetTheorems, TLAPS

Block == [height : Nat, prev : Nat, full : BOOLEAN, at : Nat]

WorldOK ==
  /\ blocks \in Seq(Block) /\ trades \in Seq([at : Nat, maker : Coins]) /\ clock \in Nat
  /\ best \in DOMAIN blocks

\* Every block but the first stands on one a step lower.
Rooted ==
  /\ 1 \in DOMAIN blocks /\ blocks[1].prev = 0
  /\ \A h \in DOMAIN blocks :
       h # 1 => /\ blocks[h].prev \in DOMAIN blocks
                /\ blocks[h].height = blocks[blocks[h].prev].height + 1

\* The walk has reached the block below the last one it has read.
WalkOK ==
  page = "blocks" =>
    /\ got.walk \in Seq(DOMAIN blocks) /\ got.next \in DOMAIN blocks \union {0}
    /\ got.walk # <<>> => got.next = blocks[got.walk[Len(got.walk)]].prev

\* What the main page has counted so far, and that the first count stays within all
\* there is.
CountsOK ==
  page = "main" =>
    /\ DOMAIN got \in {{}, {"recentOrders"}, {"recentOrders", "alltimeOrders"}}
    /\ "recentOrders" \in DOMAIN got => got.recentOrders \in 0..Len(trades)
    /\ "alltimeOrders" \in DOMAIN got =>
         got.alltimeOrders \in Nat /\ got.recentOrders <= got.alltimeOrders

\* The superblock named is the next one after a height there was.
WindowOK ==
  page = "proposals" =>
    /\ DOMAIN got \in {{}, {"nextSuperblock"}, {"nextSuperblock", "currentBlock"}}
    /\ "nextSuperblock" \in DOMAIN got =>
         \E h \in Nat : h <= Height /\ got.nextSuperblock = (h \div Cycle + 1) * Cycle

IInv == WorldOK /\ Rooted /\ WalkOK /\ BlocksShownAreOneChain /\ CountsOK /\ WindowOK

----------------------------------------------------------------------------
LEMMA Heights ==
  ASSUME WorldOK
  PROVE  \A h \in DOMAIN blocks : blocks[h] \in Block /\ blocks[h].height \in Nat
<1>1. \A h \in DOMAIN blocks : blocks[h] \in Block
  BY DEF WorldOK
<1> QED  BY <1>1 DEF Block

LEMMA InitIInv == Init => IInv
<1> SUFFICES ASSUME Init PROVE IInv
  OBVIOUS
<1>1. blocks = <<Genesis>> /\ Genesis \in Block
  BY DEF Init, Genesis, Block
<1>2. DOMAIN blocks = {1} /\ blocks[1] = Genesis /\ blocks \in Seq(Block)
  BY <1>1
<1>3. WorldOK /\ Rooted
  BY <1>2 DEF Init, WorldOK, Rooted, Genesis
<1> QED  BY <1>3 DEF Init, IInv, WalkOK, BlocksShownAreOneChain, CountsOK, WindowOK

\* Blocks and trades that are there stay as they are.
LEMMA MineStep ==
  ASSUME IInv, NEW h \in DOMAIN blocks, NEW full \in BOOLEAN, Mine(h, full)
  PROVE  IInv'
<1> DEFINE new == [height |-> blocks[h].height + 1, prev |-> h, full |-> full, at |-> clock]
<1>1. blocks' = Append(blocks, new) /\ UNCHANGED <<trades, clock, page, args, got>>
  BY DEF Mine
<1>2. new \in Block
  <2>1. blocks[h].height \in Nat /\ h \in Nat /\ clock \in Nat
    BY Heights DEF IInv, WorldOK
  <2> QED  BY <2>1 DEF Block
<1>3. /\ blocks' \in Seq(Block) /\ Len(blocks') = Len(blocks) + 1 /\ Len(blocks) \in Nat
      /\ DOMAIN blocks = 1..Len(blocks) /\ DOMAIN blocks' = 1..Len(blocks')
      /\ \A k \in DOMAIN blocks : blocks'[k] = blocks[k]
      /\ blocks'[Len(blocks) + 1] = new
  BY <1>1, <1>2 DEF IInv, WorldOK
<1> HIDE DEF new
<1>4. /\ best' \in DOMAIN blocks' /\ blocks'[best'].height >= blocks[best].height
  <2>1. CASE full /\ new.height > Height
    <3>1. best' = Len(blocks) + 1  BY <2>1 DEF Mine, new
    <3>2. blocks'[best'] = new  BY <3>1, <1>3
    <3>3. new.height \in Nat /\ blocks[best].height \in Nat  BY <1>2, Heights DEF IInv, WorldOK, Block
    <3> QED  BY <2>1, <3>1, <3>2, <3>3, <1>3 DEF Height
  <2>2. CASE ~(full /\ new.height > Height)
    <3>1. best' = best  BY <2>2 DEF Mine, new
    <3>2. blocks[best].height \in Nat  BY Heights DEF IInv, WorldOK
    <3> QED  BY <3>1, <3>2, <1>3 DEF IInv, WorldOK
  <2> QED  BY <2>1, <2>2
<1>5. WorldOK'
  BY <1>1, <1>3, <1>4 DEF IInv, WorldOK
<1>6. Rooted'
  <2>1. new.prev = h /\ new.height = blocks[h].height + 1
    BY DEF new
  <2>2. ASSUME NEW k \in DOMAIN blocks', k # 1
        PROVE  /\ blocks'[k].prev \in DOMAIN blocks'
               /\ blocks'[k].height = blocks'[blocks'[k].prev].height + 1
    <3>1. CASE k \in DOMAIN blocks  BY <2>2, <3>1, <1>3 DEF IInv, Rooted
    <3>2. CASE k = Len(blocks) + 1  BY <3>2, <2>1, <1>3
    <3> QED  BY <3>1, <3>2, <1>3
  <2> QED  BY <2>2, <1>3 DEF IInv, Rooted
<1>7. WalkOK' /\ BlocksShownAreOneChain'
  <2> SUFFICES ASSUME page = "blocks" PROVE WalkOK' /\ BlocksShownAreOneChain'
    BY <1>1 DEF WalkOK, BlocksShownAreOneChain
  <2>1. /\ got.walk \in Seq(DOMAIN blocks) /\ got.next \in DOMAIN blocks \union {0}
        /\ \A i \in DOMAIN got.walk : got.walk[i] \in DOMAIN blocks
        /\ got.walk # <<>> => Len(got.walk) \in DOMAIN got.walk
    BY DEF IInv, WalkOK
  <2>2. got.walk \in Seq(DOMAIN blocks')
    BY <2>1, <1>3
  <2>3. WalkOK'
    BY <2>1, <2>2, <1>1, <1>3 DEF IInv, WalkOK
  <2>4. got.walk # <<>> => 1 \in DOMAIN got.walk
    BY <2>1
  <2>5. \A i \in DOMAIN got.walk : blocks'[got.walk[i]] = blocks[got.walk[i]]
    BY <2>1, <1>3
  <2>6. \A i \in DOMAIN got.walk : 1 \in DOMAIN got.walk
    BY <2>1
  <2>7. BlocksShownAreOneChain
    BY DEF IInv
  <2>8. BlocksShownAreOneChain'
    <3> SUFFICES ASSUME NEW i \in DOMAIN got.walk, NEW j \in DOMAIN got.walk
                 PROVE  /\ blocks'[got.walk[i]].height = blocks'[got.walk[1]].height - (i - 1)
                        /\ j = i + 1 => got.walk[j] = blocks'[got.walk[i]].prev
      BY <1>1 DEF BlocksShownAreOneChain
    <3>1. /\ blocks'[got.walk[i]] = blocks[got.walk[i]]
          /\ blocks'[got.walk[1]] = blocks[got.walk[1]]
      BY <2>5, <2>6
    <3>2. /\ blocks[got.walk[i]].height = blocks[got.walk[1]].height - (i - 1)
          /\ j = i + 1 => got.walk[j] = blocks[got.walk[i]].prev
      BY <2>7 DEF BlocksShownAreOneChain
    <3> QED  BY <3>1, <3>2
  <2> QED  BY <2>3, <2>8
<1>8. CountsOK'
  BY <1>1 DEF IInv, CountsOK
<1>9. WindowOK'
  <2>1. ASSUME NEW x \in Nat, x <= blocks[best].height PROVE x <= blocks'[best'].height
    <3>1. blocks[best].height \in Nat /\ blocks'[best'].height \in Nat
      <4>1. blocks[best].height \in Nat  BY Heights DEF IInv, WorldOK
      <4>2. blocks'[best'] \in Block  BY <1>3, <1>4
      <4> QED  BY <4>1, <4>2 DEF Block
    <3> QED  BY <2>1, <3>1, <1>4
  <2> QED  BY <1>1, <2>1 DEF IInv, WindowOK, Height
<1> QED  BY <1>5, <1>6, <1>7, <1>8, <1>9 DEF IInv

LEMMA TradeStep ==
  ASSUME IInv, NEW t \in [at : 0..clock, maker : Coins], Trade(t)
  PROVE  IInv'
<1>1. trades' = Append(trades, t) /\ UNCHANGED <<blocks, best, clock, page, args, got>>
  BY DEF Trade
<1>2. t \in [at : Nat, maker : Coins]
  BY DEF IInv, WorldOK
<1>3. trades' \in Seq([at : Nat, maker : Coins]) /\ Len(trades') = Len(trades) + 1
      /\ Len(trades) \in Nat
  BY <1>1, <1>2 DEF IInv, WorldOK
<1>4. WorldOK' /\ Rooted'
  BY <1>1, <1>3 DEF IInv, WorldOK, Rooted
<1>5. WalkOK' /\ BlocksShownAreOneChain' /\ WindowOK'
  BY <1>1 DEF IInv, WalkOK, BlocksShownAreOneChain, WindowOK, Height
<1>6. CountsOK'
  BY <1>1, <1>3 DEF IInv, CountsOK
<1> QED  BY <1>4, <1>5, <1>6 DEF IInv

LEMMA TickStep ==
  ASSUME IInv, Tick \/ UNCHANGED vars
  PROVE  IInv'
<1>1. UNCHANGED <<blocks, best, trades, page, got>> /\ clock' \in Nat
  BY DEF Tick, vars, world, IInv, WorldOK
<1> QED
  BY <1>1 DEF IInv, WorldOK, Rooted, WalkOK, BlocksShownAreOneChain, CountsOK, WindowOK, Height

----------------------------------------------------------------------------
(* The pages.                                                              *)

\* A page that starts with nothing read, or ends, or is one of the figures.
LEMMA FreshPage ==
  ASSUME IInv, UNCHANGED world,
         \/ page' \in {"main", "proposals", "pastorders"} /\ got' = Nothing
         \/ page' \in {"none", "peers", "charts", "forks"}
  PROVE  IInv'
<1>1. WorldOK' /\ Rooted'
  BY DEF IInv, WorldOK, Rooted, world
<1>2. DOMAIN Nothing = {}
  BY DEF Nothing
<1>3. WalkOK' /\ BlocksShownAreOneChain'
  BY DEF WalkOK, BlocksShownAreOneChain
<1>4. CountsOK' /\ WindowOK'
  BY <1>2 DEF CountsOK, WindowOK
<1> QED  BY <1>1, <1>3, <1>4 DEF IInv

LEMMA VisitBlocksStep ==
  ASSUME IInv, VisitBlocks
  PROVE  IInv'
<1>1. UNCHANGED <<blocks, best, trades, clock>> /\ page' = "blocks"
      /\ got'.walk = <<>> /\ got'.next = best
  BY DEF VisitBlocks, world
<1>2. WorldOK' /\ Rooted'
  BY <1>1 DEF IInv, WorldOK, Rooted
<1>3. WalkOK' /\ BlocksShownAreOneChain'
  BY <1>1 DEF IInv, WorldOK, WalkOK, BlocksShownAreOneChain
<1>4. CountsOK' /\ WindowOK'
  BY <1>1 DEF CountsOK, WindowOK
<1> QED  BY <1>2, <1>3, <1>4 DEF IInv

\* The next block is one lower than the last one: it is not the first's predecessor.
LEMMA ReadBlockStep ==
  ASSUME IInv, ReadBlock
  PROVE  IInv'
<1> DEFINE walk == got.walk  next == got.next  n == Len(got.walk)
<1>1. /\ UNCHANGED <<blocks, best, trades, clock, page>> /\ page = "blocks" /\ next # 0
      /\ got'.walk = Append(walk, next) /\ got'.next = blocks[next].prev
  BY DEF ReadBlock, Below, world
<1>2. /\ walk \in Seq(DOMAIN blocks) /\ next \in DOMAIN blocks /\ n \in Nat
      /\ walk # <<>> => next = blocks[walk[n]].prev /\ n \in DOMAIN walk /\ 1 \in DOMAIN walk
      /\ DOMAIN walk = 1..n
  BY <1>1 DEF IInv, WalkOK
<1>3. /\ got'.walk \in Seq(DOMAIN blocks) /\ DOMAIN got'.walk = 1..(n + 1)
      /\ Len(got'.walk) = n + 1 /\ got'.walk[n + 1] = next
      /\ \A i \in DOMAIN walk : got'.walk[i] = walk[i] /\ walk[i] \in DOMAIN blocks
  BY <1>1, <1>2
<1>4. /\ \A i \in DOMAIN walk : blocks[walk[i]].height = blocks[walk[1]].height - (i - 1)
      /\ \A i, j \in DOMAIN walk : j = i + 1 => walk[j] = blocks[walk[i]].prev
  BY <1>1 DEF IInv, BlocksShownAreOneChain
<1>5. \A h \in DOMAIN blocks : blocks[h].height \in Nat
  BY Heights DEF IInv
<1>6. blocks[next].prev \in DOMAIN blocks \union {0}
  BY <1>2 DEF IInv, Rooted
<1>7. walk # <<>> => blocks[next].height = blocks[walk[1]].height - n
  <2> SUFFICES ASSUME walk # <<>> PROVE blocks[next].height = blocks[walk[1]].height - n
    OBVIOUS
  <2>1. walk[n] \in DOMAIN blocks /\ walk[n] # 1
    BY <1>1, <1>2, <1>3 DEF IInv, Rooted
  <2>2. blocks[walk[n]].height = blocks[next].height + 1
    BY <2>1, <1>2 DEF IInv, Rooted
  <2>3. blocks[walk[n]].height = blocks[walk[1]].height - (n - 1)
    BY <1>2, <1>4
  <2>4. blocks[next].height \in Nat /\ blocks[walk[1]].height \in Nat
    BY <1>2, <1>3, <1>5
  <2> QED  BY <2>2, <2>3, <2>4, <1>2
<1> HIDE DEF walk, next, n
<1>8. WorldOK' /\ Rooted' /\ CountsOK' /\ WindowOK'
  BY <1>1 DEF IInv, WorldOK, Rooted, CountsOK, WindowOK
<1>9. WalkOK'
  BY <1>1, <1>3, <1>6 DEF WalkOK
<1>10. BlocksShownAreOneChain'
  <2>1. CASE walk = <<>>
    <3>1. n = 0  BY <2>1 DEF walk, n
    <3>2. DOMAIN got'.walk = {1}  BY <3>1, <1>3
    <3>3. got'.walk[1] = next  BY <3>1, <1>3
    <3> QED  BY <3>2, <3>3, <1>1, <1>2, <1>5 DEF BlocksShownAreOneChain
  <2>2. CASE walk # <<>>
    <3>1. got'.walk[1] = walk[1]  BY <2>2, <1>2, <1>3
    <3>2. ASSUME NEW i \in DOMAIN got'.walk
          PROVE  blocks[got'.walk[i]].height = blocks[got'.walk[1]].height - (i - 1)
      <4>1. CASE i \in DOMAIN walk  BY <4>1, <3>1, <1>3, <1>4
      <4>2. CASE i = n + 1  BY <4>2, <2>2, <3>1, <1>2, <1>3, <1>7
      <4> QED  BY <4>1, <4>2, <1>2, <1>3
    <3>3. ASSUME NEW i \in DOMAIN got'.walk, NEW j \in DOMAIN got'.walk, j = i + 1
          PROVE  got'.walk[j] = blocks[got'.walk[i]].prev
      <4>1. CASE j \in DOMAIN walk
        <5>1. i \in DOMAIN walk  BY <4>1, <3>3, <1>2, <1>3
        <5> QED  BY <4>1, <5>1, <3>3, <1>3, <1>4
      <4>2. CASE j = n + 1
        <5>1. i = n  BY <4>2, <3>3, <1>2, <1>3
        <5> QED  BY <5>1, <4>2, <2>2, <1>2, <1>3
      <4> QED  BY <4>1, <4>2, <1>2, <1>3
    <3> QED  BY <3>2, <3>3, <1>1 DEF BlocksShownAreOneChain
  <2> QED  BY <2>1, <2>2
<1> QED  BY <1>8, <1>9, <1>10 DEF IInv

LEMMA TwoNames ==
  ASSUME NEW a, NEW b, a # b
  PROVE  Cardinality({a, b}) = 2
<1>1. IsFiniteSet({a}) /\ Cardinality({a}) = 1
  BY FS_Singleton
<1>2. b \notin {a} /\ {a} \union {b} = {a, b}
  OBVIOUS
<1>3. Cardinality({a} \union {b}) = Cardinality({a}) + 1
  BY <1>1, <1>2, FS_AddElement
<1> QED  BY <1>1, <1>2, <1>3

\* The first count is at most the second, which is taken later.
LEMMA CountsMain ==
  ASSUME IInv, page = "main", Read
  PROVE  CountsOK'
<1>1. /\ DOMAIN got \in {{}, {"recentOrders"}} \/ DOMAIN got = {"recentOrders", "alltimeOrders"}
      /\ UNCHANGED <<trades, page>>
  BY DEF Read, IInv, CountsOK, world
<1>2. Len(trades) \in Nat
  BY DEF IInv, WorldOK
<1>3. /\ Reads("main") = MainReads /\ MainReads[1] = "recentOrders"
      /\ MainReads[2] = "alltimeOrders" /\ Len(MainReads) = 2
  BY DEF Reads, MainReads
<1>4. CASE DOMAIN got = {}
  <2>1. Cardinality(DOMAIN got) = 0
    BY <1>4, FS_EmptySet
  <2>2. PICK answer \in Answers("recentOrders") :
          got' = [x \in {"recentOrders"} |-> answer]
    BY <1>3, <1>4, <2>1 DEF Read
  <2>3. answer \in 0..Len(trades)
    <3>1. answer = Cardinality(Since(clock - Day))
      BY <2>2 DEF Answers
    <3>2. Since(clock - Day) \subseteq 1..Len(trades)
      BY DEF IInv, WorldOK, Since
    <3>3. IsFiniteSet(1..Len(trades)) /\ Cardinality(1..Len(trades)) = Len(trades)
      BY <1>2, FS_Interval
    <3>4. /\ IsFiniteSet(Since(clock - Day))
          /\ Cardinality(Since(clock - Day)) <= Cardinality(1..Len(trades))
      BY <3>2, <3>3, FS_Subset
    <3>5. Cardinality(Since(clock - Day)) \in Nat
      BY <3>4, FS_CardinalityType
    <3> QED  BY <1>2, <3>1, <3>3, <3>4, <3>5
  <2> QED  BY <1>1, <2>2, <2>3 DEF CountsOK
<1>5. CASE DOMAIN got = {"recentOrders"}
  <2>1. Cardinality(DOMAIN got) = 1
    BY <1>5, FS_Singleton
  <2>2. PICK answer \in Answers("alltimeOrders") :
          got' = [x \in {"recentOrders", "alltimeOrders"} |->
                    IF x = "alltimeOrders" THEN answer ELSE got[x]]
    BY <1>3, <1>5, <2>1 DEF Read
  <2>3. answer = Len(trades)
    BY <2>2 DEF Answers
  <2>4. got.recentOrders \in 0..Len(trades)
    BY <1>5 DEF IInv, CountsOK
  <2> QED  BY <1>1, <1>2, <2>2, <2>3, <2>4 DEF CountsOK
<1>6. CASE DOMAIN got = {"recentOrders", "alltimeOrders"}
  <2>1. Cardinality(DOMAIN got) = 2
    BY <1>6, TwoNames
  <2> QED  BY <1>3, <2>1 DEF Read
<1> QED  BY <1>1, <1>4, <1>5, <1>6

\* The superblock is named before the height is looked at, and the height only grows.
LEMMA WindowProposals ==
  ASSUME IInv, page = "proposals", Read
  PROVE  WindowOK'
<1>1. /\ DOMAIN got \in {{}, {"nextSuperblock"}} \/ DOMAIN got = {"nextSuperblock", "currentBlock"}
      /\ UNCHANGED <<blocks, best, page>>
  BY DEF Read, IInv, WindowOK, world
<1>2. /\ Reads("proposals") = ProposalsReads /\ ProposalsReads[1] = "nextSuperblock"
      /\ ProposalsReads[2] = "currentBlock" /\ Len(ProposalsReads) = 2
  BY DEF Reads, ProposalsReads
<1>3. Height' = Height /\ Height \in Nat
  BY <1>1, Heights DEF Height, IInv, WorldOK
<1>4. CASE DOMAIN got = {}
  <2>1. Cardinality(DOMAIN got) = 0
    BY <1>4, FS_EmptySet
  <2>2. PICK answer \in Answers("nextSuperblock") :
          got' = [x \in {"nextSuperblock"} |-> answer]
    BY <1>2, <1>4, <2>1 DEF Read
  <2>3. answer = (Height \div Cycle + 1) * Cycle
    BY <2>2 DEF Answers, NextSuperblock
  <2>4. DOMAIN got' = {"nextSuperblock"} /\ got'.nextSuperblock = (Height \div Cycle + 1) * Cycle
    BY <2>2, <2>3
  <2>5. \E h \in Nat : h <= Height /\ got'.nextSuperblock = (h \div Cycle + 1) * Cycle
    BY <2>4, <1>3
  <2> QED  BY <1>1, <1>3, <2>4, <2>5 DEF WindowOK
<1>5. CASE DOMAIN got = {"nextSuperblock"}
  <2>1. Cardinality(DOMAIN got) = 1
    BY <1>5, FS_Singleton
  <2>2. PICK answer \in Answers("currentBlock") :
          got' = [x \in {"nextSuperblock", "currentBlock"} |->
                    IF x = "currentBlock" THEN answer ELSE got[x]]
    BY <1>2, <1>5, <2>1 DEF Read
  <2>3. /\ DOMAIN got' = {"nextSuperblock", "currentBlock"}
        /\ got'.nextSuperblock = got.nextSuperblock
    BY <2>2
  <2>4. \E h \in Nat : h <= Height /\ got.nextSuperblock = (h \div Cycle + 1) * Cycle
    BY <1>5 DEF IInv, WindowOK
  <2> QED  BY <1>1, <1>3, <2>3, <2>4 DEF WindowOK
<1>6. CASE DOMAIN got = {"nextSuperblock", "currentBlock"}
  <2>1. Cardinality({"nextSuperblock", "currentBlock"}) = 2
    BY TwoNames, "nextSuperblock" # "currentBlock"
  <2>2. Cardinality(DOMAIN got) = 2
    BY <1>6, <2>1
  <2> QED  BY <1>2, <2>2 DEF Read
<1> QED  BY <1>1, <1>4, <1>5, <1>6

LEMMA ReadStep ==
  ASSUME IInv, Read
  PROVE  IInv'
<1>1. UNCHANGED <<blocks, best, trades, clock, page>> /\ page # "blocks"
  BY DEF Read, world, ReadPages
<1>2. WorldOK' /\ Rooted' /\ WalkOK' /\ BlocksShownAreOneChain'
  BY <1>1 DEF IInv, WorldOK, Rooted, WalkOK, BlocksShownAreOneChain
<1>3. CountsOK'
  BY <1>1, CountsMain DEF CountsOK
<1>4. WindowOK'
  BY <1>1, WindowProposals DEF WindowOK
<1> QED  BY <1>2, <1>3, <1>4 DEF IInv

LEMMA NextIInv == IInv /\ [Next]_vars => IInv'
<1> SUFFICES ASSUME IInv, [Next]_vars PROVE IInv'
  OBVIOUS
<1>1. CASE \E h \in DOMAIN blocks, full \in BOOLEAN : Mine(h, full)
  BY <1>1, MineStep
<1>2. CASE \E t \in [at : 0..clock, maker : Coins] : Trade(t)
  BY <1>2, TradeStep
<1>3. CASE Tick \/ UNCHANGED vars
  BY <1>3, TickStep
<1>4. CASE \E p \in {"main", "proposals"} : Visit(p)
  BY <1>4, FreshPage DEF Visit
<1>5. CASE \E days \in 0..1, maker \in Coins \union {AnyCoin} : VisitPastOrders(days, maker)
  BY <1>5, FreshPage DEF VisitPastOrders
<1>6. CASE VisitPeers \/ VisitCharts \/ VisitForks \/ ReadFork
  BY <1>6, FreshPage DEF VisitPeers, VisitCharts, VisitForks, ReadFork
<1>7. CASE BlocksFail \/ Show
  BY <1>7, FreshPage DEF BlocksFail, Show
<1>8. CASE VisitBlocks
  BY <1>8, VisitBlocksStep
<1>9. CASE Read
  BY <1>9, ReadStep
<1>10. CASE ReadBlock
  BY <1>10, ReadBlockStep
<1> QED
  BY <1>1, <1>2, <1>3, <1>4, <1>5, <1>6, <1>7, <1>8, <1>9, <1>10 DEF Next

LEMMA AlwaysIInv == Spec => []IInv
<1> QED  BY InitIInv, NextIInv, PTL DEF Spec

LEMMA DivMod ==
  ASSUME NEW x \in Nat, NEW c \in Nat \ {0}
  PROVE  x \div c \in Nat /\ (x \div c) * c <= x /\ x < (x \div c + 1) * c
<1> QED  BY SMTT(20)

LEMMA Cancel ==
  ASSUME NEW a \in Int, NEW b \in Int, NEW c \in Nat \ {0}, a * c < b * c
  PROVE  a < b
<1> SUFFICES ASSUME a >= b PROVE FALSE
  OBVIOUS
<1>1. (a - b) * c >= 0 /\ (a - b) * c = a * c - b * c
  BY SMTT(20)
<1>2. a * c \in Int /\ b * c \in Int
  OBVIOUS
<1> QED  BY <1>1, <1>2

\* A height that has not reached the end of a lower one's cycle is in the same cycle.
LEMMA SameCycle ==
  ASSUME NEW x \in Nat, NEW y \in Nat, NEW c \in Nat \ {0}, x <= y, y < (x \div c + 1) * c
  PROVE  y \div c = x \div c
<1> DEFINE p == x \div c  q == y \div c
<1>1. /\ p \in Nat /\ p * c <= x /\ x < (p + 1) * c
      /\ q \in Nat /\ q * c <= y /\ y < (q + 1) * c
  BY DivMod
<1>2. y < (p + 1) * c
  OBVIOUS
<1> HIDE DEF p, q
<1>3. /\ p * c \in Int /\ q * c \in Int /\ (p + 1) * c \in Int /\ (q + 1) * c \in Int
  BY <1>1
<1>4. q < p + 1
  <2>1. q * c < (p + 1) * c  BY <1>1, <1>2, <1>3
  <2> QED  BY <1>1, <2>1, Cancel
<1>5. p < q + 1
  <2>1. p * c < (q + 1) * c  BY <1>1, <1>3
  <2> QED  BY <1>1, <2>1, Cancel
<1>6. p = q
  BY <1>1, <1>4, <1>5
<1> QED  BY <1>6 DEF p, q

----------------------------------------------------------------------------
(* Theorems.                                                               *)

\* The blocks page shows one chain, a block for each height, whatever arrives under
\* the walk: every block is asked for by the hash the one above names (blocks()).
THEOREM OneChain == Spec => []BlocksShownAreOneChain
<1>1. IInv => BlocksShownAreOneChain
  BY DEF IInv
<1> QED  BY <1>1, AlwaysIInv, PTL

\* The main page never shows more trades of the last day than of all time: the last
\* day's are counted first (index()).
THEOREM DayWithinAllTime == Spec => []RecentWithinAllTime
<1>1. IInv => RecentWithinAllTime
  <2> SUFFICES ASSUME IInv, page = "main", Complete
               PROVE  got.recentOrders <= got.alltimeOrders
    BY DEF RecentWithinAllTime
  <2>1. Cardinality(DOMAIN got) = 2
    BY DEF Complete, FigurePages, Reads, MainReads
  <2>2. DOMAIN got # {} /\ DOMAIN got # {"recentOrders"}
    <3>1. Cardinality({}) = 0 /\ Cardinality({"recentOrders"}) = 1
      BY FS_EmptySet, FS_Singleton
    <3> QED  BY <2>1, <3>1
  <2>3. "alltimeOrders" \in DOMAIN got
    BY <2>2 DEF IInv, CountsOK
  <2> QED  BY <2>3 DEF IInv, CountsOK
<1> QED  BY <1>1, AlwaysIInv, PTL

\* If the proposals page says that proposals are taken for the superblock it names,
\* they are: the superblock is named first, heights only grow, and the height looked
\* at last has not left its cycle (proposals()).
THEOREM WindowIsOpen == Spec => OpenWindowIsOpen
<1> DEFINE Shown1 == page = "proposals" /\ Complete' /\ ~Complete
           Open == ~(got'.currentBlock > got'.nextSuperblock - Closing)
           Good == got'.nextSuperblock = NextSuperblock /\ Height <= NextSuperblock - Closing
<1>1. IInv /\ [Next]_vars => [Shown1 /\ Open => Good]_vars
  <2> SUFFICES ASSUME IInv, Next, Shown1, Open PROVE Good
    OBVIOUS
  <2>1. Read
    <3>1. ~UNCHANGED <<page, got>>
      BY DEF Complete
    <3>2. ~(page' = "none")
      BY DEF Complete, FigurePages, ReadPages
    <3> QED
      BY <3>1, <3>2 DEF Next, Mine, Trade, Tick, Visit, VisitPastOrders, VisitBlocks, VisitForks,
                        VisitPeers, VisitCharts, ReadBlock, ReadFork, BlocksFail, Show
  <2>2. page' = "proposals" /\ Cardinality(DOMAIN got') = 2 /\ Cardinality(DOMAIN got) # 2
    BY <2>1 DEF Read, Complete, FigurePages, ReadPages, Reads, ProposalsReads
  <2>3. /\ Reads("proposals") = ProposalsReads /\ ProposalsReads[1] = "nextSuperblock"
        /\ ProposalsReads[2] = "currentBlock" /\ Len(ProposalsReads) = 2
    BY DEF Reads, ProposalsReads
  <2>4. DOMAIN got = {"nextSuperblock"}
    <3>1. CASE DOMAIN got = {}
      <4>1. Cardinality(DOMAIN got) = 0
        BY <3>1, FS_EmptySet
      <4>2. DOMAIN got' = {"nextSuperblock"}
        BY <3>1, <4>1, <2>1, <2>3 DEF Read
      <4>3. Cardinality({"nextSuperblock"}) = 1
        BY FS_Singleton
      <4> QED  BY <4>2, <4>3, <2>2
    <3>2. CASE DOMAIN got = {"nextSuperblock", "currentBlock"}
      <4>1. Cardinality({"nextSuperblock", "currentBlock"}) = 2
        BY TwoNames, "nextSuperblock" # "currentBlock"
      <4> QED  BY <3>2, <4>1, <2>2
    <3> QED  BY <3>1, <3>2 DEF IInv, WindowOK
  <2>5. got'.currentBlock = Height /\ got'.nextSuperblock = got.nextSuperblock
    <3>1. Cardinality(DOMAIN got) = 1
      BY <2>4, FS_Singleton
    <3>2. PICK answer \in Answers("currentBlock") :
            got' = [x \in {"nextSuperblock", "currentBlock"} |->
                      IF x = "currentBlock" THEN answer ELSE got[x]]
      BY <2>1, <2>3, <2>4, <3>1 DEF Read
    <3>3. answer = Height
      BY <3>2 DEF Answers
    <3> QED  BY <3>2, <3>3
  <2>6. PICK h \in Nat : h <= Height /\ got.nextSuperblock = (h \div Cycle + 1) * Cycle
    BY <2>4 DEF IInv, WindowOK
  <2>7. Height \in Nat
    BY Heights DEF IInv, WorldOK, Height
  <2>8. Cycle \in Nat \ {0} /\ Closing \in Nat \ {0}
    BY PagesAssumption
  <2> DEFINE end == (h \div Cycle + 1) * Cycle
  <2>9. end \in Int
    BY <2>8, DivMod
  <2>10. ~(Height > end - Closing)
    BY <2>5, <2>6
  <2> HIDE DEF end
  <2>11. Height <= end - Closing /\ Height < end
    BY <2>7, <2>8, <2>9, <2>10
  <2>12. Height \div Cycle = h \div Cycle
    BY <2>6, <2>7, <2>8, <2>11, SameCycle DEF end
  <2>13. end = NextSuperblock
    BY <2>12 DEF end, NextSuperblock
  <2> QED  BY <2>5, <2>6, <2>11, <2>13 DEF end
<1> QED  BY <1>1, AlwaysIInv, PTL DEF Spec, OpenWindowIsOpen

----------------------------------------------------------------------------
(* The ranges, the search and the forks.                                   *)

\* Blocks stand on full ones, and no full one is higher than the tip.
ChainOK ==
  /\ \A h \in DOMAIN blocks : /\ blocks[h].prev < h /\ blocks[h].at \in 0..clock
                              /\ h > 1 => blocks[blocks[h].prev].full
  /\ blocks[best].full
  /\ \A h \in DOMAIN blocks : blocks[h].full => blocks[h].height <= Height

TradesOK == clock \in 0..MaxEvents /\ \A i \in DOMAIN trades : trades[i] \in [at : 0..clock, maker : Coins]

PageOK ==
  /\ page \in PageNames /\ args \in [days : 0..1, maker : Coins \union {AnyCoin}]
  /\ page = "blocks" => Len(got.walk) <= DisplayBlocks

\* A search of all time goes back by the full days there were when it looked.
SearchOK ==
  page = "pastorders" =>
    /\ DOMAIN got \in {{}, {"days"}, {"days", "order"}}
    /\ "days" \in DOMAIN got /\ args.days = 0 /\ args.maker # AnyCoin =>
         got.days.now \in Nat /\ got.days.days = got.days.now \div Day

\* The tips the forks page has walked past, and what a set of them must be to be those
\* it has counted: all that are young still, and none that was not when it began.
Walked(n) == {h \in {got.forks[k] : k \in 1..n} : blocks[h].full}

AreCounted(C) ==
  /\ C \subseteq Walked(got.i) /\ IsFiniteSet(C) /\ Cardinality(C) = got.recent
  /\ \A h \in C : Young(h, got.since)
  /\ \A h \in Walked(got.i) : Young(h, clock) => h \in C

ForksOK ==
  page = "forks" =>
    /\ DOMAIN got = {"forks", "i", "recent", "tip", "since"} /\ got.recent \in 0..got.i
    /\ got.forks \in Seq(DOMAIN blocks) /\ IsInjective(got.forks)
    /\ got.i \in Nat /\ got.i <= ForksShown(got.forks)
    /\ got.since \in 0..clock
    /\ got.tip \in DOMAIN blocks /\ blocks[got.tip].full
    /\ \E C : AreCounted(C)

\* The figures are of a mask, or of a list of peers.
FiguresOK ==
  /\ page = "peers" => got.mask \in SUBSET Bits /\ got.services = getServices(got.mask)
  /\ page = "charts" =>
       /\ got.list \in Lists
       /\ \E counts \in {ClientCounts(got.list), CountryCounts(got.list)} :
          \E top \in Tops(counts) :
            got.all = (top = DOMAIN counts) /\ got.legend = Legend(counts, top)

PInv == ChainOK /\ TradesOK /\ PageOK /\ SearchOK /\ ForksOK /\ FiguresOK

\* Lists of tips are shown up to DisplayForks.
LEMMA ShownIsThere ==
  ASSUME NEW S, NEW tips \in Seq(S), NEW n \in Nat, n <= ForksShown(tips)
  PROVE  /\ n <= Len(tips) /\ n <= DisplayForks
         /\ \A k \in 1..n : k \in DOMAIN tips /\ tips[k] \in S
<1>1. Len(tips) \in Nat /\ DisplayForks \in Nat
  BY PagesAssumption
<1> QED  BY <1>1 DEF ForksShown

\* The pages keep what holds of them while the world moves on.
PagesAside == PageOK /\ SearchOK /\ ForksOK /\ FiguresOK

LEMMA PagesStay ==
  ASSUME IInv, PInv, UNCHANGED <<page, args, got>>, clock' \in Nat, clock <= clock',
         \A k \in DOMAIN blocks : k \in DOMAIN blocks' /\ blocks'[k] = blocks[k]
  PROVE  PagesAside'
<1>1. PageOK' /\ SearchOK' /\ FiguresOK'
  BY DEF PInv, PageOK, SearchOK, FiguresOK
<1>2. ForksOK'
  <2> SUFFICES ASSUME page = "forks" PROVE ForksOK'
    BY DEF ForksOK
  <2>1. /\ DOMAIN got = {"forks", "i", "recent", "tip", "since"} /\ got.recent \in 0..got.i
        /\ got.forks \in Seq(DOMAIN blocks) /\ IsInjective(got.forks)
        /\ got.i \in Nat /\ got.i <= ForksShown(got.forks)
        /\ got.since \in 0..clock /\ got.tip \in DOMAIN blocks /\ blocks[got.tip].full
    BY DEF PInv, ForksOK
  <2>2. PICK C : AreCounted(C)
    BY DEF PInv, ForksOK
  <2>3. got.forks \in Seq(DOMAIN blocks')
    BY <2>1
  <2>4. clock \in Nat /\ got.since \in 0..clock'
    BY <2>1 DEF IInv, WorldOK
  <2>5. ASSUME NEW h \in DOMAIN blocks
        PROVE  /\ Young(h, got.since)' <=> Young(h, got.since)
               /\ Young(h, clock)' => Young(h, clock)
    <3>1. blocks'[h] = blocks[h]
      OBVIOUS
    <3>2. blocks[h].at \in Nat /\ Day \in Nat /\ Hour \in Nat
      BY Heights, PagesAssumption DEF IInv, Block
    <3> QED  BY <2>4, <3>1, <3>2 DEF Young
  <2>6. \A k \in 1..got.i : got.forks[k] \in DOMAIN blocks
    BY <2>1, ShownIsThere
  <2>7. Walked(got.i)' = Walked(got.i) /\ Walked(got.i) \subseteq DOMAIN blocks
    BY <2>6 DEF Walked
  <2>8. AreCounted(C)'
    BY <2>2, <2>5, <2>7 DEF AreCounted
  <2> QED  BY <2>1, <2>3, <2>4, <2>8 DEF ForksOK, ForksShown
<1> QED  BY <1>1, <1>2 DEF PagesAside

LEMMA InitPInv == Init => PInv
<1> SUFFICES ASSUME Init PROVE PInv
  OBVIOUS
<1>1. DOMAIN blocks = {1} /\ blocks[1] = Genesis /\ best = 1
  BY DEF Init
<1>2. ChainOK
  BY <1>1 DEF Init, ChainOK, Genesis, Height
<1>3. TradesOK
  BY BoundAssumption DEF Init, TradesOK
<1> QED
  BY <1>2, <1>3 DEF Init, PInv, PageOK, PageNames, NoArgs, SearchOK, ForksOK, FiguresOK

LEMMA MineP ==
  ASSUME IInv, PInv, NEW h \in DOMAIN blocks, NEW full \in BOOLEAN, Mine(h, full)
  PROVE  PInv'
<1> DEFINE new == [height |-> blocks[h].height + 1, prev |-> h, full |-> full, at |-> clock]
<1>1. /\ blocks' = Append(blocks, new) /\ blocks[h].full
      /\ best' = IF full /\ new.height > Height THEN Len(blocks) + 1 ELSE best
      /\ UNCHANGED <<trades, clock, page, args, got>>
  BY DEF Mine
<1>2. new \in Block /\ blocks[h].height \in Nat
  <2>1. blocks[h].height \in Nat /\ h \in Nat /\ clock \in Nat
    BY Heights DEF IInv, WorldOK
  <2> QED  BY <2>1 DEF Block
<1>3. /\ Len(blocks) \in Nat /\ DOMAIN blocks = 1..Len(blocks)
      /\ DOMAIN blocks' = 1..(Len(blocks) + 1)
      /\ \A k \in DOMAIN blocks : blocks'[k] = blocks[k]
      /\ blocks'[Len(blocks) + 1] = new
  BY <1>1, <1>2 DEF IInv, WorldOK
<1>4. new.height = blocks[h].height + 1 /\ new.prev = h /\ new.full = full /\ new.at = clock
  OBVIOUS
<1> HIDE DEF new
<1>5. best \in DOMAIN blocks /\ Height \in Nat /\ blocks[best].height = Height
  BY Heights DEF IInv, WorldOK, Height
<1>6. /\ best' \in DOMAIN blocks' /\ blocks'[best'].full
      /\ Height <= Height' /\ Height' \in Nat /\ (full => new.height <= Height')
  <2>1. CASE full /\ new.height > Height
    <3>1. best' = Len(blocks) + 1 /\ blocks'[best'] = new
      BY <1>1, <1>3, <2>1
    <3>2. Height' = new.height /\ new.height \in Nat
      BY <1>2, <1>4, <3>1 DEF Height
    <3>3. blocks'[best'].full
      BY <1>4, <2>1, <3>1, Zenon
    <3>4. Height <= Height' /\ new.height <= Height'
      BY <1>5, <2>1, <3>2
    <3>5. best' \in DOMAIN blocks'
      BY <1>3, <3>1
    <3> QED  BY <3>2, <3>3, <3>4, <3>5, Zenon
  <2>2. CASE ~(full /\ new.height > Height)
    <3>1. best' = best /\ blocks'[best'] = blocks[best]
      BY <1>1, <1>3, <1>5, <2>2
    <3>2. Height' = Height
      BY <3>1 DEF Height
    <3> QED  BY <1>2, <1>3, <1>4, <1>5, <2>2, <3>1, <3>2 DEF PInv, ChainOK
  <2> QED  BY <2>1, <2>2
<1>7. ASSUME NEW k \in DOMAIN blocks'
      PROVE  /\ blocks'[k].prev < k /\ blocks'[k].at \in 0..clock
             /\ k > 1 => blocks'[blocks'[k].prev].full
             /\ blocks'[k].full => blocks'[k].height <= Height'
  <2>1. CASE k \in DOMAIN blocks
    <3>1. blocks'[k] = blocks[k] /\ (k > 1 => blocks[k].prev \in DOMAIN blocks)
      BY <1>3, <2>1 DEF IInv, Rooted
    <3>2. blocks[k].height \in Nat
      BY <2>1, Heights DEF IInv
    <3> QED  BY <1>3, <1>5, <1>6, <2>1, <3>1, <3>2 DEF PInv, ChainOK
  <2>2. CASE k = Len(blocks) + 1
    <3>1. blocks'[k] = new /\ clock \in Nat /\ blocks'[h] = blocks[h]
      BY <1>3, <2>2 DEF IInv, WorldOK
    <3> QED  BY <1>1, <1>3, <1>4, <1>6, <2>2, <3>1
  <2> QED  BY <1>3, <2>1, <2>2
<1>8. ChainOK'
  BY <1>1, <1>6, <1>7 DEF ChainOK
<1>9. TradesOK'
  BY <1>1 DEF PInv, TradesOK
<1>10. PagesAside'
  <2>1. clock' \in Nat /\ clock <= clock'
    BY <1>1 DEF IInv, WorldOK
  <2> QED  BY <1>1, <1>3, <2>1, PagesStay
<1> QED  BY <1>8, <1>9, <1>10 DEF PInv, PagesAside

LEMMA TradeP ==
  ASSUME IInv, PInv, NEW t \in [at : 0..clock, maker : Coins], Trade(t)
  PROVE  PInv'
<1>1. trades' = Append(trades, t) /\ UNCHANGED <<blocks, best, clock, page, args, got>>
  BY DEF Trade
<1>2. ChainOK'
  BY <1>1 DEF PInv, ChainOK, Height
<1>3. TradesOK'
  <2>1. t \in [at : Nat, maker : Coins]
    BY DEF IInv, WorldOK
  <2>2. \A i \in DOMAIN trades' : (i \in DOMAIN trades /\ trades'[i] = trades[i]) \/ trades'[i] = t
    BY <1>1, <2>1 DEF IInv, WorldOK
  <2> QED  BY <1>1, <2>2 DEF PInv, TradesOK
<1>4. PagesAside'
  <2>1. clock' \in Nat /\ clock <= clock'
    BY <1>1 DEF IInv, WorldOK
  <2> QED  BY <1>1, <2>1, PagesStay
<1> QED  BY <1>2, <1>3, <1>4 DEF PInv, PagesAside

LEMMA TickP == ASSUME IInv, PInv, Tick PROVE PInv'
<1>1. Happens /\ clock' = clock + 1 /\ UNCHANGED <<blocks, best, trades, page, args, got>>
  BY DEF Tick
<1>2. clock \in Nat /\ Len(blocks) \in Nat /\ Len(blocks) >= 1 /\ Len(trades) \in Nat
  BY DEF IInv, WorldOK, Rooted
<1>3. clock' \in 0..MaxEvents
  BY <1>1, <1>2, BoundAssumption DEF Happens, Events
<1>4. ChainOK'
  BY <1>1, <1>2 DEF PInv, ChainOK, Height
<1>5. TradesOK'
  <2>1. 0..clock \subseteq 0..clock'
    BY <1>1, <1>2
  <2> QED  BY <1>1, <1>3, <2>1 DEF PInv, TradesOK
<1>6. PagesAside'
  <2>1. clock' \in Nat /\ clock <= clock'
    BY <1>1, <1>2
  <2> QED  BY <1>1, <2>1, PagesStay
<1> QED  BY <1>4, <1>5, <1>6 DEF PInv, PagesAside

\* If the world stands still, what is left is the page.
LEMMA PageStep ==
  ASSUME PInv, UNCHANGED world, PagesAside'
  PROVE  PInv'
BY DEF world, PInv, PagesAside, ChainOK, TradesOK, Height

LEMMA FreshPageP ==
  ASSUME PInv, UNCHANGED world, got' = Nothing,
         page' \in {"main", "proposals", "pastorders", "none"},
         args' \in [days : 0..1, maker : Coins \union {AnyCoin}]
  PROVE  PInv'
<1>1. DOMAIN Nothing = {}
  BY DEF Nothing
<1> QED
  BY <1>1, PageStep DEF PagesAside, PageOK, PageNames, ReadPages, SearchOK, ForksOK, FiguresOK

LEMMA VisitBlocksP == ASSUME IInv, PInv, VisitBlocks PROVE PInv'
<1>1. UNCHANGED world /\ page' = "blocks" /\ args' = NoArgs /\ got'.walk = <<>>
  BY DEF VisitBlocks
<1>2. Len(<<>>) = 0 /\ DisplayBlocks \in Nat
  BY PagesAssumption
<1>3. PageOK'
  BY <1>1, <1>2 DEF PageOK, PageNames, NoArgs
<1> QED  BY <1>1, <1>3, PageStep DEF PagesAside, SearchOK, ForksOK, FiguresOK

LEMMA ReadBlockP == ASSUME IInv, PInv, ReadBlock PROVE PInv'
<1>1. /\ page = "blocks" /\ Len(got.walk) < DisplayBlocks /\ UNCHANGED <<world, page, args>>
      /\ got.next # 0 /\ got'.walk = Append(got.walk, got.next)
  BY DEF ReadBlock
<1>2. got.walk \in Seq(DOMAIN blocks) /\ got.next \in DOMAIN blocks
  BY <1>1 DEF IInv, WalkOK
<1>3. Len(got'.walk) <= DisplayBlocks
  <2>1. Len(got'.walk) = Len(got.walk) + 1 /\ Len(got.walk) \in Nat
    BY <1>1, <1>2
  <2> QED  BY <1>1, <2>1, PagesAssumption
<1>4. PageOK'
  BY <1>1, <1>3 DEF PInv, PageOK
<1> QED  BY <1>1, <1>4, PageStep DEF PagesAside, SearchOK, ForksOK, FiguresOK

LEMMA FiguresP == ASSUME PInv, VisitPeers \/ VisitCharts PROVE PInv'
<1>1. UNCHANGED world /\ page' \in {"peers", "charts"} /\ args' = NoArgs
  BY DEF VisitPeers, VisitCharts
<1>2. PageOK' /\ SearchOK' /\ ForksOK'
  BY <1>1 DEF PageOK, PageNames, FigurePages, NoArgs, SearchOK, ForksOK
<1>3. FiguresOK'
  <2>1. CASE VisitPeers
    <3>1. PICK mask \in SUBSET Bits : got' = [mask |-> mask, services |-> getServices(mask)]
      BY <2>1 DEF VisitPeers
    <3>2. got'.mask = mask /\ got'.services = getServices(mask) /\ page' = "peers"
      BY <2>1, <3>1 DEF VisitPeers
    <3> QED  BY <3>2 DEF FiguresOK
  <2>2. CASE VisitCharts
    <3>1. PICK list \in Lists :
            \E counts \in {ClientCounts(list), CountryCounts(list)} : \E top \in Tops(counts) :
              got' = [list |-> list, all |-> top = DOMAIN counts, legend |-> Legend(counts, top)]
      BY <2>2, Zenon DEF VisitCharts
    <3>2. PICK counts \in {ClientCounts(list), CountryCounts(list)} : \E top \in Tops(counts) :
            got' = [list |-> list, all |-> top = DOMAIN counts, legend |-> Legend(counts, top)]
      BY <3>1, Zenon
    <3>3. PICK top \in Tops(counts) :
            got' = [list |-> list, all |-> top = DOMAIN counts, legend |-> Legend(counts, top)]
      BY <3>2, Zenon
    <3>4. /\ got'.list = list /\ got'.all = (top = DOMAIN counts)
          /\ got'.legend = Legend(counts, top)
      BY <3>3
    <3>5. page' = "charts" /\ page' # "peers"
      BY <2>2 DEF VisitCharts
    <3> QED  BY <3>4, <3>5 DEF FiguresOK
  <2> QED  BY <2>1, <2>2
<1> QED  BY <1>1, <1>2, <1>3, PageStep DEF PagesAside

\* What the last look at the clock and at the tips leaves.
LEMMA ReadsSearch ==
  ASSUME IInv, PInv, Read, page = "pastorders"
  PROVE  /\ SearchOK'
         /\ DOMAIN got = {"days"} => DOMAIN got' = {"days", "order"} /\ got'.order = Orders(got.days.days)
         /\ DOMAIN got # {"days"} => DOMAIN got' = {"days"}
<1>1. /\ DOMAIN got \in {{}, {"days"}, {"days", "order"}}
      /\ UNCHANGED <<world, page, args>>
  BY DEF Read, PInv, SearchOK
<1>2. /\ Reads("pastorders") = PastOrdersReads /\ PastOrdersReads[1] = "days"
      /\ PastOrdersReads[2] = "order" /\ Len(PastOrdersReads) = 2
  BY DEF Reads, PastOrdersReads
<1>3. CASE DOMAIN got = {}
  <2>1. Cardinality(DOMAIN got) = 0
    BY <1>3, FS_EmptySet
  <2>2. PICK answer \in Answers("days") : got' = [x \in {"days"} |-> answer]
    BY <1>2, <1>3, <2>1 DEF Read
  <2>3. answer = [days |-> Days, now |-> clock]
    BY <2>2 DEF Answers
  <2>4. DOMAIN got' = {"days"} /\ got'.days.days = Days /\ got'.days.now = clock
    BY <2>2, <2>3
  <2>5. args.days = 0 /\ args.maker # AnyCoin => Days = clock \div Day
    <3>1. clock \in Nat /\ Genesis.at = 0 /\ clock - 0 = clock
      BY DEF Genesis, IInv, WorldOK
    <3> QED  BY <3>1 DEF Days
  <2>6. clock \in Nat
    BY DEF IInv, WorldOK
  <2> QED  BY <1>1, <1>3, <2>4, <2>5, <2>6 DEF SearchOK
<1>4. CASE DOMAIN got = {"days"}
  <2>1. Cardinality(DOMAIN got) = 1
    BY <1>4, FS_Singleton
  <2>2. PICK answer \in Answers("order") :
          got' = [x \in {"days", "order"} |-> IF x = "order" THEN answer ELSE got[x]]
    BY <1>2, <1>4, <2>1 DEF Read
  <2>3. answer = Orders(got.days.days)
    BY <2>2 DEF Answers
  <2>4. DOMAIN got' = {"days", "order"} /\ got'.days = got.days /\ got'.order = Orders(got.days.days)
    BY <2>2, <2>3
  <2> QED  BY <1>1, <1>4, <2>4 DEF PInv, SearchOK
<1>5. CASE DOMAIN got = {"days", "order"}
  <2>1. Cardinality({"days", "order"}) = 2
    BY TwoNames, "days" # "order"
  <2>2. Cardinality(DOMAIN got) = 2
    BY <1>5, <2>1
  <2> QED  BY <1>2, <2>2 DEF Read
<1> QED  BY <1>1, <1>3, <1>4, <1>5

LEMMA TipsAreFinite == ASSUME IInv PROVE IsFiniteSet(Tips) /\ Cardinality(Tips) \in Nat
<1>1. Len(blocks) \in Nat /\ Tips \subseteq 1..Len(blocks)
  BY DEF IInv, WorldOK, Tips
<1>2. IsFiniteSet(1..Len(blocks))
  BY <1>1, FS_Interval
<1> QED  BY <1>1, <1>2, FS_Subset, FS_CardinalityType

\* Rounded to whole hours no more than a day's is less than a day and half an hour.
LEMMA RoundedIsYoung ==
  ASSUME NEW age \in Nat
  PROVE  RoundedHours(age) <= Day \div Hour <=> 2 * age < 2 * Day + Hour
<1> DEFINE x == 2 * age + Hour  c == 2 * Hour  q == x \div c  d == Day \div Hour
<1>1. Hour \in Nat \ {0} /\ Day \in Nat \ {0} /\ Day = d * Hour
  BY PagesAssumption
<1>2. d \in Nat
  BY <1>1, DivMod
<1>3. x \in Nat /\ c \in Nat \ {0}
  BY <1>1
<1>4. (d + 1) * c = 2 * Day + c
  <2> HIDE DEF d
  <2> QED  BY <1>1, <1>2, SMTT(20)
<1>5. q \in Nat /\ q * c <= x /\ x < (q + 1) * c
  <2> HIDE DEF x, c
  <2> QED  BY <1>3, DivMod
<1>6. 2 * age < 2 * Day + Hour <=> x < (d + 1) * c
  <2> HIDE DEF d
  <2> QED  BY <1>1, <1>4
<1> HIDE DEF q, d, c, x
<1>7. q * c \in Int /\ (q + 1) * c \in Int /\ (d + 1) * c \in Int
  BY <1>2, <1>3, <1>5
<1>8. x < (d + 1) * c => q <= d
  <2> SUFFICES ASSUME x < (d + 1) * c PROVE q <= d
    OBVIOUS
  <2>1. q * c < (d + 1) * c
    BY <1>3, <1>5, <1>7
  <2>2. q < d + 1
    BY <1>2, <1>3, <1>5, <2>1, Cancel
  <2> QED  BY <1>2, <1>5, <2>2
<1>9. q <= d => x < (d + 1) * c
  <2> SUFFICES ASSUME x >= (d + 1) * c PROVE ~(q <= d)
    BY <1>3, <1>7
  <2>1. (d + 1) * c < (q + 1) * c
    BY <1>3, <1>5, <1>7
  <2>2. d + 1 < q + 1
    BY <1>2, <1>3, <1>5, <2>1, Cancel
  <2> QED  BY <1>2, <1>5, <2>2
<1> QED  BY <1>6, <1>8, <1>9 DEF RoundedHours, q, d, x, c

LEMMA RecentIsYoung ==
  ASSUME IInv, PInv, NEW h \in DOMAIN blocks
  PROVE  Recent(h) <=> Young(h, clock)
<1>1. clock - blocks[h].at \in Nat
  <2>1. blocks[h].at \in 0..clock /\ clock \in Nat
    BY DEF PInv, ChainOK, IInv, WorldOK
  <2> QED  BY <2>1
<1> DEFINE age == clock - blocks[h].at
<1>2. RoundedHours(age) <= Day \div Hour <=> 2 * age < 2 * Day + Hour
  <2> HIDE DEF age
  <2> QED  BY <1>1, RoundedIsYoung DEF age
<1> QED  BY <1>2, Zenon DEF Recent, Young

LEMMA VisitForksP == ASSUME IInv, PInv, VisitForks PROVE PInv'
<1>1. UNCHANGED world /\ page' = "forks" /\ args' = NoArgs
  BY DEF VisitForks
<1>2. PICK tips \in TipLists :
        got' = [forks |-> tips, i |-> 0, recent |-> 0, tip |-> best, since |-> clock]
  BY DEF VisitForks
<1>3. /\ DOMAIN got' = {"forks", "i", "recent", "tip", "since"}
      /\ got'.forks = tips /\ got'.i = 0 /\ got'.recent = 0
      /\ got'.tip = best /\ got'.since = clock
  BY <1>2
<1>4. UNCHANGED <<blocks, clock>>
  BY <1>1 DEF world
<1>5. tips \in Seq(DOMAIN blocks) /\ IsInjective(tips)
  <2>1. Cardinality(Tips) \in Nat /\ Tips \subseteq DOMAIN blocks
    BY TipsAreFinite DEF Tips
  <2>2. tips \in [1..Cardinality(Tips) -> Tips] /\ IsInjective(tips)
    BY DEF TipLists
  <2> QED  BY <2>1, <2>2
<1>6. 0 <= ForksShown(tips)
  BY <1>5, PagesAssumption DEF ForksShown
<1>7. clock \in 0..clock /\ best \in DOMAIN blocks /\ blocks[best].full
  BY DEF IInv, WorldOK, PInv, ChainOK
<1>8. AreCounted({})'
  <2>1. Walked(got.i)' = {}
    BY <1>3 DEF Walked
  <2>2. IsFiniteSet({}) /\ Cardinality({}) = 0
    BY FS_EmptySet
  <2> QED  BY <1>3, <2>1, <2>2 DEF AreCounted
<1>9. ForksOK'
  BY <1>3, <1>4, <1>5, <1>6, <1>7, <1>8 DEF ForksOK, ForksShown
<1>10. PageOK' /\ SearchOK' /\ FiguresOK'
  BY <1>1 DEF PageOK, PageNames, NoArgs, SearchOK, FiguresOK
<1> QED  BY <1>1, <1>9, <1>10, PageStep DEF PagesAside

\* One tip more: it is not among those walked past, and it is counted if and only if
\* it is young now, which it was all the more when the page began.
LEMMA ReadForkP == ASSUME IInv, PInv, ReadFork PROVE PInv'
<1> DEFINE n == got.i + 1
           h == got.forks[n]
           counts == blocks[h].full /\ Recent(h)
<1>1. /\ page = "forks" /\ got.i < ForksShown(got.forks) /\ UNCHANGED <<world, page, args>>
      /\ got' = [got EXCEPT !.i = @ + 1, !.recent = IF counts THEN @ + 1 ELSE @]
  BY DEF ReadFork
<1>2. /\ DOMAIN got = {"forks", "i", "recent", "tip", "since"} /\ got.recent \in 0..got.i
      /\ got.forks \in Seq(DOMAIN blocks) /\ IsInjective(got.forks)
      /\ got.i \in Nat /\ got.i <= ForksShown(got.forks)
      /\ got.since \in 0..clock /\ got.tip \in DOMAIN blocks /\ blocks[got.tip].full
  BY <1>1 DEF PInv, ForksOK
<1>3. PICK C : AreCounted(C)
  BY <1>1 DEF PInv, ForksOK
<1>4. UNCHANGED <<blocks, clock>>
  BY <1>1 DEF world
<1>5. n \in Nat /\ n <= ForksShown(got.forks)
  <2>1. ForksShown(got.forks) \in Nat
    BY <1>2, PagesAssumption DEF ForksShown
  <2> QED  BY <1>1, <1>2, <2>1
<1>6. \A k \in 1..n : k \in DOMAIN got.forks /\ got.forks[k] \in DOMAIN blocks
  <2> HIDE DEF n
  <2> QED  BY <1>2, <1>5, ShownIsThere
<1>7. n \in 1..n /\ \A k \in 1..got.i : k \in 1..n /\ k # n
  BY <1>2
<1>8. h \in DOMAIN blocks /\ h \notin Walked(got.i)
  <2>1. \A k \in 1..got.i : got.forks[k] # got.forks[n]
    BY <1>2, <1>6, <1>7 DEF IsInjective
  <2> QED  BY <1>6, <1>7, <2>1 DEF Walked
<1>9. /\ got'.forks = got.forks /\ got'.since = got.since /\ got'.tip = got.tip
      /\ got'.i = n /\ got'.recent = IF counts THEN got.recent + 1 ELSE got.recent
  BY <1>1, <1>2
<1>10. /\ DOMAIN got' = {"forks", "i", "recent", "tip", "since"}
       /\ got'.recent \in 0..got'.i
  <2>1. DOMAIN got' = DOMAIN got
    BY <1>1
  <2> QED  BY <1>2, <1>9, <2>1
<1>11. 1..n = 1..got.i \union {n}
  BY <1>2
<1> HIDE DEF n
<1>12. Walked(n) = Walked(got.i) \union (IF blocks[h].full THEN {h} ELSE {})
  BY <1>11 DEF Walked
<1>13. Recent(h) <=> Young(h, clock)
  BY <1>8, RecentIsYoung
<1>14. Young(h, clock) => Young(h, got.since)
  <2>1. blocks[h].at \in Nat /\ Day \in Nat /\ Hour \in Nat /\ clock \in Nat
    BY <1>8, Heights, PagesAssumption DEF IInv, WorldOK, Block
  <2> HIDE DEF h
  <2> QED  BY <1>2, <2>1 DEF Young
<1>15. Walked(got.i)' = Walked(n)
  BY <1>4, <1>9 DEF Walked
<1>16. \A k : Young(k, clock)' = Young(k, clock) /\ Young(k, got.since)' = Young(k, got.since)
  BY <1>4, <1>9 DEF Young
<1>17. PICK D : D = IF counts THEN C \union {h} ELSE C
  OBVIOUS
<1>18. AreCounted(D)'
  <2>1. IsFiniteSet(C) /\ C \subseteq Walked(got.i) /\ Cardinality(C) = got.recent
    BY <1>3 DEF AreCounted
  <2>2. IsFiniteSet(D) /\ Cardinality(D) = got'.recent
    <3>1. CASE counts
      <4>1. h \notin C
        BY <1>8, <2>1
      <4>2. IsFiniteSet(C \union {h}) /\ Cardinality(C \union {h}) = Cardinality(C) + 1
        <5> HIDE DEF h
        <5> QED  BY <2>1, <4>1, FS_AddElement
      <4> QED  BY <1>9, <1>17, <2>1, <3>1, <4>2
    <3>2. CASE ~counts
      BY <1>9, <1>17, <2>1, <3>2
    <3> QED  BY <3>1, <3>2
  <2>3. D \subseteq Walked(n)
    BY <1>12, <1>17, <2>1
  <2>4. \A k \in D : Young(k, got.since)
    BY <1>3, <1>13, <1>14, <1>17 DEF AreCounted
  <2>5. \A k \in Walked(n) : Young(k, clock) => k \in D
    BY <1>3, <1>12, <1>13, <1>17 DEF AreCounted
  <2> HIDE DEF h
  <2> QED  BY <1>15, <1>16, <2>2, <2>3, <2>4, <2>5 DEF AreCounted
<1>19. ForksOK'
  BY <1>2, <1>10, <1>4, <1>5, <1>9, <1>18 DEF ForksOK, ForksShown
<1>20. PageOK' /\ SearchOK' /\ FiguresOK'
  BY <1>1 DEF PInv, PageOK, SearchOK, FiguresOK
<1> QED  BY <1>1, <1>19, <1>20, PageStep DEF PagesAside

LEMMA ReadP == ASSUME IInv, PInv, Read PROVE PInv'
<1>1. UNCHANGED <<world, page, args>> /\ page \in ReadPages
  BY DEF Read
<1>2. PageOK' /\ FiguresOK'
  BY <1>1 DEF PInv, PageOK, FiguresOK, ReadPages
<1>3. SearchOK'
  BY <1>1, ReadsSearch DEF SearchOK
<1>4. ForksOK'
  BY <1>1 DEF ForksOK, ReadPages
<1> QED  BY <1>1, <1>2, <1>3, <1>4, PageStep DEF PagesAside

LEMMA NextPInv == IInv /\ PInv /\ [Next]_vars => PInv'
<1> SUFFICES ASSUME IInv, PInv, [Next]_vars PROVE PInv'
  OBVIOUS
<1>1. CASE \E h \in DOMAIN blocks, full \in BOOLEAN : Mine(h, full)
  BY <1>1, MineP
<1>2. CASE \E t \in [at : 0..clock, maker : Coins] : Trade(t)
  BY <1>2, TradeP
<1>3. CASE Tick
  BY <1>3, TickP
<1>4. NoArgs \in [days : 0..1, maker : Coins \union {AnyCoin}]
  BY DEF NoArgs
<1>5. CASE \E p \in {"main", "proposals"} : Visit(p)
  BY <1>4, <1>5, FreshPageP DEF Visit
<1>6. CASE \E days \in 0..1, maker \in Coins \union {AnyCoin} : VisitPastOrders(days, maker)
  BY <1>6, FreshPageP DEF VisitPastOrders
<1>7. CASE BlocksFail \/ Show
  BY <1>4, <1>7, FreshPageP DEF BlocksFail, Show
<1>8. CASE VisitBlocks \/ ReadBlock
  BY <1>8, VisitBlocksP, ReadBlockP
<1>9. CASE VisitPeers \/ VisitCharts
  BY <1>9, FiguresP
<1>10. CASE Read
  BY <1>10, ReadP
<1>11. CASE UNCHANGED vars
  <2>1. /\ UNCHANGED <<page, args, got>> /\ UNCHANGED world /\ clock' = clock /\ clock \in Nat
        /\ \A k \in DOMAIN blocks : k \in DOMAIN blocks' /\ blocks'[k] = blocks[k]
    BY <1>11 DEF vars, world, IInv, WorldOK
  <2>2. clock' \in Nat /\ clock <= clock'
    BY <2>1
  <2>3. PagesAside'
    BY <2>1, <2>2, PagesStay
  <2> QED  BY <2>1, <2>3, PageStep
<1>12. CASE VisitForks \/ ReadFork
  BY <1>12, VisitForksP, ReadForkP
<1> QED
  BY <1>1, <1>2, <1>3, <1>5, <1>6, <1>7, <1>8, <1>9, <1>10, <1>11, <1>12 DEF Next

LEMMA AlwaysPInv == Spec => [](IInv /\ PInv)
BY InitIInv, InitPInv, NextIInv, NextPInv, PTL DEF Spec

\* The ranges of the chain, of the trades and of what each page has read.
THEOREM Types == Spec => []TypeOK
<1>1. ASSUME IInv, PInv PROVE TypeOK
  <2>1. ASSUME NEW h \in DOMAIN blocks
        PROVE  /\ blocks[h].prev < h /\ blocks[h].at \in 0..clock
               /\ h > 1 => /\ blocks[blocks[h].prev].full
                           /\ blocks[h].height = blocks[blocks[h].prev].height + 1
    BY <1>1 DEF PInv, ChainOK, IInv, Rooted
  <2>2. /\ best \in DOMAIN blocks /\ blocks[best].full
        /\ \A h \in DOMAIN blocks : blocks[h].full => blocks[h].height <= Height
    BY <1>1 DEF PInv, ChainOK, IInv, WorldOK
  <2>3. page = "blocks" => /\ got.next \in 0..Len(blocks) /\ Len(got.walk) <= DisplayBlocks
                           /\ \A i \in DOMAIN got.walk : got.walk[i] \in DOMAIN blocks
    <3> SUFFICES ASSUME page = "blocks"
                 PROVE  /\ got.next \in 0..Len(blocks) /\ Len(got.walk) <= DisplayBlocks
                        /\ \A i \in DOMAIN got.walk : got.walk[i] \in DOMAIN blocks
      OBVIOUS
    <3>1. got.walk \in Seq(DOMAIN blocks) /\ got.next \in DOMAIN blocks \union {0}
      BY <1>1 DEF IInv, WalkOK
    <3>2. DOMAIN blocks = 1..Len(blocks) /\ Len(blocks) \in Nat
      BY <1>1 DEF IInv, WorldOK
    <3> QED  BY <1>1, <3>1, <3>2 DEF PInv, PageOK
  <2>4. page \in ReadPages => DOMAIN got \subseteq Range(Reads(page))
    <3>1. /\ page = "main" => DOMAIN got \subseteq {"recentOrders", "alltimeOrders"}
          /\ page = "proposals" => DOMAIN got \subseteq {"nextSuperblock", "currentBlock"}
          /\ page = "pastorders" => DOMAIN got \subseteq {"days", "order"}
      BY <1>1 DEF IInv, CountsOK, WindowOK, PInv, SearchOK
    <3>2. ASSUME NEW a, NEW b PROVE Range(<<a, b>>) = {a, b}
      <4>1. DOMAIN <<a, b>> = {1, 2} /\ <<a, b>>[1] = a /\ <<a, b>>[2] = b
        OBVIOUS
      <4> QED  BY <4>1 DEF Range
    <3>3. /\ Range(Reads("main")) = {"recentOrders", "alltimeOrders"}
          /\ Range(Reads("proposals")) = {"nextSuperblock", "currentBlock"}
          /\ Range(Reads("pastorders")) = {"days", "order"}
      BY <3>2 DEF Reads, MainReads, ProposalsReads, PastOrdersReads
    <3> QED  BY <3>1, <3>3 DEF ReadPages
  <2>5. page = "forks" => /\ \A i \in DOMAIN got.forks : got.forks[i] \in DOMAIN blocks
                          /\ got.i \in 0..DisplayForks /\ got.i <= Len(got.forks)
                          /\ got.recent \in 0..got.i
    <3> SUFFICES ASSUME page = "forks"
                 PROVE  /\ \A i \in DOMAIN got.forks : got.forks[i] \in DOMAIN blocks
                        /\ got.i \in 0..DisplayForks /\ got.i <= Len(got.forks)
                        /\ got.recent \in 0..got.i
      OBVIOUS
    <3>1. /\ got.forks \in Seq(DOMAIN blocks) /\ got.i \in Nat
          /\ got.i <= ForksShown(got.forks) /\ got.recent \in 0..got.i
      BY <1>1 DEF PInv, ForksOK
    <3>2. got.i <= Len(got.forks) /\ got.i <= DisplayForks
      BY <3>1, ShownIsThere
    <3> QED  BY <3>1, <3>2, PagesAssumption
  <2>6. /\ \A i \in DOMAIN trades : trades[i] \in [at : 0..clock, maker : Coins]
        /\ clock \in 0..MaxEvents
        /\ page \in PageNames /\ args \in [days : 0..1, maker : Coins \union {AnyCoin}]
    BY <1>1 DEF PInv, TradesOK, PageOK
  <2> QED  BY <2>1, <2>2, <2>3, <2>4, <2>5, <2>6 DEF TypeOK
<1> QED  BY <1>1, AlwaysPInv, PTL

LEMMA OnlyReadCompletes ==
  ASSUME IInv, Next, page \in ReadPages, Complete', ~Complete
  PROVE  Read /\ page' = page
<1>1. ~UNCHANGED <<page, got>>
  BY DEF Complete
<1>2. page' # "none"
  BY DEF Complete, FigurePages, ReadPages
<1> QED
  BY <1>1, <1>2 DEF Next, Mine, Trade, Tick, Visit, VisitPastOrders, VisitBlocks, VisitForks,
                    VisitPeers, VisitCharts, Read, ReadBlock, ReadFork, BlocksFail, Show, ReadPages

\* A search over all time finds every trade but those of the chain's first day: the
\* days are counted down to full ones, and the clock is looked at a second time
\* (getPastOrders()).
THEOREM SearchFinds == Spec => SearchFindsTheRest
<1>1. IInv /\ PInv /\ [Next]_vars =>
        [page = "pastorders" /\ Complete' /\ ~Complete /\ args.days = 0 /\ args.maker # AnyCoin =>
           \A i \in DOMAIN trades :
             trades[i].maker = args.maker /\ trades[i].at >= Day + (clock - got.days.now) =>
               i \in got'.order]_vars
  <2> SUFFICES ASSUME IInv, PInv, Next, page = "pastorders", Complete', ~Complete,
                      args.days = 0, args.maker # AnyCoin, NEW i \in DOMAIN trades,
                      trades[i].maker = args.maker, trades[i].at >= Day + (clock - got.days.now)
               PROVE  i \in got'.order
    OBVIOUS
  <2>1. Read /\ page' = "pastorders"
    BY OnlyReadCompletes DEF ReadPages
  <2>2. DOMAIN got = {"days"}
    <3>1. Cardinality(DOMAIN got') = 2
      BY <2>1 DEF Complete, FigurePages, ReadPages, Reads, PastOrdersReads
    <3>2. Cardinality({"days"}) = 1
      BY FS_Singleton
    <3> QED  BY <2>1, <3>1, <3>2, ReadsSearch
  <2>3. got'.order = Orders(got.days.days)
    BY <2>1, <2>2, ReadsSearch
  <2> DEFINE now == got.days.now  days == got.days.days
  <2>4. now \in Nat /\ days = now \div Day /\ Day \in Nat \ {0} /\ clock \in Nat
        /\ trades[i].at \in Nat
    BY <2>2, PagesAssumption DEF PInv, SearchOK, TradesOK, IInv, WorldOK
  <2> HIDE DEF now, days
  <2>5. days \in Nat /\ now < (days + 1) * Day
    BY <2>4, DivMod
  <2>6. (days + 1) * Day = days * Day + Day /\ days * Day \in Nat
    BY <2>4, <2>5
  <2>7. trades[i].at >= Day + (clock - now)
    BY DEF now
  <2> DEFINE back == days * Day
  <2>8. trades[i].at >= clock - back
    <3>1. now < back + Day /\ back \in Nat
      BY <2>5, <2>6
    <3> HIDE DEF back
    <3> QED  BY <2>4, <2>7, <3>1
  <2> QED  BY <2>3, <2>8 DEF Orders, Since, days
<1> QED  BY <1>1, AlwaysPInv, PTL DEF Spec, SearchFindsTheRest

LEMMA ImageIsFinite ==
  ASSUME NEW f, IsFiniteSet(DOMAIN f)
  PROVE  IsFiniteSet({f[i] : i \in DOMAIN f})
<1> DEFINE S == DOMAIN f  T == {f[i] : i \in S}  e == [i \in S |-> f[i]]
<1>1. e \in Surjection(S, T)
  <2>1. e \in [S -> T] /\ \A y \in T : \E i \in S : e[i] = y
    OBVIOUS
  <2> HIDE DEF e, S, T
  <2> QED  BY <2>1 DEF Surjection
<1>2. IsFiniteSet(S)
  OBVIOUS
<1> HIDE DEF e, S, T
<1>3. IsFiniteSet(T)
  BY <1>1, <1>2, FS_Surjection
<1> QED  BY <1>3 DEF S, T

LEMMA OnlyReadForkCompletes ==
  ASSUME Next, page = "forks", Complete', ~Complete
  PROVE  ReadFork
<1>1. ~UNCHANGED <<page, got>> /\ page' # "none"
  BY DEF Complete, FigurePages, ReadPages
<1>2. /\ \A h \in DOMAIN blocks, full \in BOOLEAN : ~Mine(h, full)
      /\ \A t \in [at : 0..clock, maker : Coins] : ~Trade(t)
      /\ ~Tick
  BY <1>1 DEF Mine, Trade, Tick
<1>3. /\ \A p \in {"main", "proposals"} : ~Visit(p)
      /\ \A days \in 0..1, maker \in Coins \union {AnyCoin} : ~VisitPastOrders(days, maker)
      /\ ~VisitBlocks /\ ~VisitForks /\ ~VisitPeers /\ ~VisitCharts
  BY DEF Visit, VisitPastOrders, VisitBlocks, VisitForks, VisitPeers, VisitCharts
<1>4. ~Read /\ ~ReadBlock /\ ~BlocksFail /\ ~Show
  BY <1>1 DEF Read, ReadPages, ReadBlock, BlocksFail, Show
<1> QED  BY <1>2, <1>3, <1>4 DEF Next

\* However much time passes under the forks page, it reports no more forks than were
\* younger than 24 and a half hours when it began and no fewer than those shown that
\* still are at the end, less one if the active chain's tip was not counted (forks()).
\* The tips are walked past once each; of those walked past, the counted ones are a
\* set between these two.
THEOREM ForksBetween == Spec => ForksAreCounted
<1>1. ASSUME IInv, PInv, PInv', Next, page = "forks", Complete', ~Complete
      PROVE  LET shown == {got.forks[i] : i \in 1..ForksShown(got.forks)}
             IN  /\ RecentForks' <= Cardinality({h \in Forks : Young(h, got.since)})
                 /\ RecentForks' >= Cardinality({h \in Forks \cap shown : Young(h, clock)})
                       - (IF got.tip \in shown /\ Young(got.tip, clock) THEN 0 ELSE 1)
  <2> DEFINE n == ForksShown(got.forks)
             shown == {got.forks[i] : i \in 1..n}
             Before == {h \in Forks : Young(h, got.since)}
             Still == {h \in Forks \cap shown : Young(h, clock)}
             tip == got.tip
  <2>1. ReadFork
    BY <1>1, OnlyReadForkCompletes
  <2>2. /\ page' = "forks" /\ UNCHANGED <<blocks, clock>>
        /\ got'.forks = got.forks /\ got'.tip = got.tip /\ got'.since = got.since
    <3>1. DOMAIN got = {"forks", "i", "recent", "tip", "since"}
      BY <1>1 DEF PInv, ForksOK
    <3> QED  BY <1>1, <2>1, <3>1 DEF ReadFork, world
  <2>3. got'.i = n
    BY <1>1, <2>2 DEF Complete, FigurePages, ReadPages, ForksShown
  <2>4. /\ got.forks \in Seq(DOMAIN blocks) /\ n \in Nat
        /\ blocks[tip].full
    <3>1. /\ got.forks \in Seq(DOMAIN blocks) /\ blocks[tip].full
      BY <1>1 DEF PInv, ForksOK
    <3> QED  BY <3>1, PagesAssumption DEF ForksShown
  <2>5. PICK C : AreCounted(C)'
    BY <1>1, <2>2 DEF PInv, ForksOK
  <2>6. Walked(got.i)' = {h \in shown : blocks[h].full}
    BY <2>2, <2>3 DEF Walked
  <2>7. /\ C \subseteq {h \in shown : blocks[h].full} /\ IsFiniteSet(C)
        /\ Cardinality(C) = got'.recent
        /\ \A h \in C : Young(h, got.since)
        /\ \A h \in shown : blocks[h].full /\ Young(h, clock) => h \in C
    <3>1. \A k : /\ Young(k, clock)' <=> Young(k, clock)
                 /\ Young(k, got.since)' <=> Young(k, got.since)
      BY <2>2 DEF Young
    <3> HIDE DEF shown
    <3> QED  BY <2>5, <2>6, <3>1 DEF AreCounted
  <2>8. \A h \in shown : h \in Range(got.forks)
    <3>1. n <= Len(got.forks) /\ n <= DisplayForks
          /\ \A k \in 1..n : k \in DOMAIN got.forks
      <4>1. n <= ForksShown(got.forks)
        BY <2>4
      <4> HIDE DEF n
      <4> QED  BY <2>4, <4>1, ShownIsThere
    <3> HIDE DEF n
    <3> QED  BY <3>1 DEF Range
  <2>9. \A h : h \in Forks <=> h \in Range(got.forks) /\ h # tip /\ blocks[h].full
    BY DEF Forks
  <2>10. IsFiniteSet(Before)
    <3>1. IsFiniteSet(DOMAIN got.forks)
      <4>1. DOMAIN got.forks = 1..Len(got.forks) /\ Len(got.forks) \in Nat
        BY <2>4
      <4> QED  BY <4>1, FS_Interval
    <3>2. IsFiniteSet(Range(got.forks))
      BY <3>1, ImageIsFinite DEF Range
    <3>3. Before \subseteq Range(got.forks)
      BY <2>9
    <3> HIDE DEF Before
    <3> QED  BY <3>2, <3>3, FS_Subset
  <2> HIDE DEF n, shown, tip
  <2>11. C \ {tip} \subseteq Before
    BY <2>7, <2>8, <2>9
  <2>12. Still \subseteq C \ {tip}
    BY <2>7, <2>9
  <2>13. tip \in shown /\ Young(tip, clock) => tip \in C
    BY <2>4, <2>7
  <2> HIDE DEF Before, Still
  <2>14. /\ IsFiniteSet(C \ {tip})
         /\ Cardinality(C \ {tip}) = IF tip \in C THEN Cardinality(C) - 1 ELSE Cardinality(C)
    BY <2>7, FS_RemoveElement, Zenon
  <2>15. /\ Cardinality(C \ {tip}) <= Cardinality(Before)
         /\ Cardinality(Still) <= Cardinality(C \ {tip})
    BY <2>10, <2>11, <2>12, <2>14, FS_Subset
  <2>16. IsFiniteSet(Still)
    BY <2>12, <2>14, FS_Subset
  <2>17. /\ Cardinality(C) \in Nat /\ Cardinality(C \ {tip}) \in Nat
         /\ Cardinality(Before) \in Nat /\ Cardinality(Still) \in Nat
    BY <2>7, <2>10, <2>14, <2>16, FS_CardinalityType
  <2>18. RecentForks' = Cardinality(C) - 1
    BY <2>7 DEF RecentForks
  <2>19. /\ RecentForks' <= Cardinality(Before)
         /\ RecentForks' >= Cardinality(Still)
                              - (IF tip \in shown /\ Young(tip, clock) THEN 0 ELSE 1)
    <3> DEFINE seen == tip \in shown /\ Young(tip, clock)
    <3>1. seen => tip \in C
      BY <2>13
    <3> HIDE DEF seen
    <3>2. /\ RecentForks' <= Cardinality(Before)
          /\ RecentForks' >= Cardinality(Still) - (IF seen THEN 0 ELSE 1)
      BY <2>14, <2>15, <2>17, <2>18, <3>1
    <3> QED  BY <3>2 DEF seen
  <2> QED  BY <2>19 DEF Before, Still, shown, n, tip
<1>2. IInv /\ PInv /\ PInv' /\ [Next]_vars =>
        [page = "forks" /\ Complete' /\ ~Complete =>
           LET shown == {got.forks[i] : i \in 1..ForksShown(got.forks)}
           IN  /\ RecentForks' <= Cardinality({h \in Forks : Young(h, got.since)})
               /\ RecentForks' >= Cardinality({h \in Forks \cap shown : Young(h, clock)})
                     - (IF got.tip \in shown /\ Young(got.tip, clock) THEN 0 ELSE 1)]_vars
  BY <1>1
<1> QED  BY <1>2, AlwaysPInv, PTL DEF Spec, ForksAreCounted

----------------------------------------------------------------------------
(* The figures.                                                            *)

LEMMA MaxOfTwo ==
  ASSUME NEW a \in Nat, NEW b \in Nat
  PROVE  /\ Max({a, b}) = IF a >= b THEN a ELSE b
         /\ Min({a, b}) = IF a <= b THEN a ELSE b
<1>1. IsFiniteSet({a, b})
  <2>1. IsFiniteSet({a}) /\ {a} \union {b} = {a, b}
    BY FS_Singleton
  <2> QED  BY <2>1, FS_AddElement
<1>2. Max({a, b}) \in {a, b} /\ \A n \in {a, b} : n <= Max({a, b})
  BY <1>1, MaxIsThere
<1>3. Min({a, b}) \in {a, b} /\ \A n \in {a, b} : Min({a, b}) <= n
  BY MinIsThere
<1> QED  BY <1>2, <1>3

\* The digits of a mask that is no wider than an integer.
LEMMA DigitsOf ==
  ASSUME NEW mask \in SUBSET Bits, mask # {}, Max(mask) < 19
  PROVE  /\ Max(mask) \in mask /\ Max(mask) \in Nat /\ \A b \in mask : b \in Nat /\ b <= Max(mask)
         /\ \E n \in Nat :
              /\ n >= 10 /\ n >= Max(mask) + 1 /\ (n = 10 \/ n = Max(mask) + 1)
              /\ Len(Digits(mask)) = n
              /\ \A i \in 1..n : Digits(mask)[i] = IF i - 1 \in mask THEN 1 ELSE 0
<1>1. mask \subseteq Nat /\ IsFiniteSet(mask)
  BY FiguresAssumption, FS_Subset
<1>2. Max(mask) \in mask /\ \A b \in mask : b <= Max(mask)
  BY <1>1, MaxIsThere
<1>3. Max(mask \union {0}) = Max(mask)
  <2> DEFINE both == mask \union {0}
  <2>1. both \subseteq Nat /\ both # {} /\ mask \subseteq both /\ \A b \in both : b \in mask \/ b = 0
    BY <1>1
  <2>2. IsFiniteSet(both)
    BY <1>1, FS_AddElement
  <2> HIDE DEF both
  <2>3. Max(both) \in both /\ \A b \in both : b <= Max(both)
    BY <2>1, <2>2, MaxIsThere
  <2>4. Max(mask) \in Nat /\ Max(mask) \in both /\ Max(both) \in Nat
    BY <1>1, <1>2, <2>1, <2>3
  <2>5. Max(both) <= Max(mask)
    BY <1>2, <2>1, <2>3, <2>4
  <2>6. Max(mask) <= Max(both)
    BY <2>3, <2>4
  <2> QED  BY <2>4, <2>5, <2>6 DEF both
<1> DEFINE top == Max(mask)  n == Max({10, top + 1})
<1>4. top \in Nat /\ top < 19
  BY <1>1, <1>2
<1>5. n \in Nat /\ n >= 10 /\ n >= top + 1 /\ (n = 10 \/ n = top + 1)
  <2> HIDE DEF top
  <2>1. n = IF 10 >= top + 1 THEN 10 ELSE top + 1
    BY <1>4, MaxOfTwo
  <2> QED  BY <1>4, <2>1
<1>6. Len(PhpIntMax) = 19
  BY DEF PhpIntMax
<1>7. Digits(mask) = [i \in 1..n |-> IF i - 1 \in mask THEN 1 ELSE 0]
  <2> DEFINE wide == Max(mask \union {0})
  <2>1. Digits(mask) = IF wide >= Len(PhpIntMax) THEN PhpIntMax
                       ELSE [i \in 1..Max({10, wide + 1}) |-> IF i - 1 \in mask THEN 1 ELSE 0]
    BY DEF Digits
  <2>2. wide = top
    BY <1>3
  <2> HIDE DEF wide
  <2>3. ~(wide >= Len(PhpIntMax))
    BY <1>4, <1>6, <2>2
  <2> QED  BY <2>1, <2>2, <2>3, Zenon
<1> HIDE DEF n
<1>8. Len(Digits(mask)) = n
  BY <1>5, <1>7
<1>9. \A i \in 1..n : Digits(mask)[i] = IF i - 1 \in mask THEN 1 ELSE 0
  BY <1>7
<1> QED  BY <1>1, <1>2, <1>5, <1>8, <1>9

\* The digit of a place is the bit below it, and for the place beyond the padding it is
\* the first digit, of which only a mask that ends at bit 9 has a one.
LEMMA DigitIsBit ==
  ASSUME NEW mask \in SUBSET Bits, mask # {}, Max(mask) < 19, NEW place \in 1..11,
         place = 11 => Max(mask) # 9
  PROVE  Digit(Digits(mask), place) = 1 <=> place - 1 \in mask
<1>1. PICK n \in Nat :
        /\ n >= 10 /\ n >= Max(mask) + 1 /\ (n = 10 \/ n = Max(mask) + 1)
        /\ Len(Digits(mask)) = n
        /\ \A i \in 1..n : Digits(mask)[i] = IF i - 1 \in mask THEN 1 ELSE 0
  BY DigitsOf
<1>2. /\ Max(mask) \in mask /\ Max(mask) \in Nat
      /\ \A b \in mask : b \in Nat /\ b <= Max(mask)
  BY DigitsOf
<1>3. Digit(Digits(mask), place) = Digits(mask)[IF place <= n THEN place ELSE n]
  <2>1. Min({place, n}) = IF place <= n THEN place ELSE n
    <3>1. place \in Nat /\ n \in Nat
      OBVIOUS
    <3> QED  BY <3>1, MaxOfTwo, Zenon
  <2>2. Digit(Digits(mask), place) = Digits(mask)[Min({place, n})]
    BY <1>1, Zenon DEF Digit
  <2> QED  BY <2>1, <2>2
<1>4. CASE place <= n
  BY <1>1, <1>3, <1>4
<1>5. CASE place > n
  <2>1. place = 11 /\ n = 10 /\ Max(mask) < 9
    <3> DEFINE top == Max(mask)
    <3>1. n \in Nat /\ n >= 10 /\ n >= top + 1 /\ top \in Nat
      BY <1>1, <1>2
    <3>2. place = 11 => top # 9
      OBVIOUS
    <3> HIDE DEF top
    <3>3. place = 11 /\ n = 10
      BY <1>5, <3>1
    <3>4. top < 9
      BY <3>1, <3>2, <3>3
    <3> QED  BY <3>3, <3>4 DEF top
  <2>2. 9 \notin mask /\ 10 \notin mask
    BY <1>2, <2>1
  <2>3. Digits(mask)[10] = 0
    BY <1>1, <2>1, <2>2
  <2> QED  BY <1>3, <2>1, <2>2, <2>3
<1> QED  BY <1>1, <1>4, <1>5

\* A peer is shown with the services whose bits it announces and no others, for every
\* mask but those that end at bit 9 or are wider than an integer (getServices()).
THEOREM ServicesOfTheBits == Spec => []ServicesAreTheBits
<1>1. ASSUME PInv, page = "peers", got.mask # {}, Max(got.mask) < 19, Max(got.mask) # 9
      PROVE  got.services \ {"Unknown"} = {s \in Services : Place[s] - 1 \in got.mask}
  <2>1. got.mask \in SUBSET Bits /\ got.services = getServices(got.mask)
    BY <1>1 DEF PInv, FiguresOK
  <2>2. \A s \in Services : Place[s] \in 1..11
    <3>1. /\ Place["Network"] = 1 /\ Place["Getutxo"] = 2 /\ Place["Bloom"] = 3
          /\ Place["Witness"] = 4 /\ Place["Xthin"] = 5 /\ Place["Cash"] = 6
          /\ Place["Segwit2X"] = 8 /\ Place["Network Limited"] = 11
      BY DEF Services, Place
    <3>2. SUFFICES ASSUME NEW s \in Services PROVE Place[s] \in 1..11
      OBVIOUS
    <3>3. Place[s] \in {1, 2, 3, 4, 5, 6, 8, 11}
      <4>1. \/ s = "Network" \/ s = "Getutxo" \/ s = "Bloom" \/ s = "Witness" \/ s = "Xthin"
            \/ s = "Cash" \/ s = "Segwit2X" \/ s = "Network Limited"
        BY DEF Services
      <4> QED  BY <3>1, <4>1, Zenon
    <3> QED  BY <3>3
  <2>3. \A s \in Services : Digit(Digits(got.mask), Place[s]) = 1 <=> Place[s] - 1 \in got.mask
    BY <1>1, <2>1, <2>2, DigitIsBit
  <2> DEFINE found == {s \in Services : Digit(Digits(got.mask), Place[s]) = 1}
  <2>4. found = {s \in Services : Place[s] - 1 \in got.mask}
    BY <2>3
  <2>5. "Unknown" \notin found
    BY DEF Services
  <2>6. got.services = IF found = {} THEN {"Unknown"} ELSE found
    BY <1>1, <2>1 DEF getServices
  <2> HIDE DEF found
  <2> QED  BY <2>4, <2>5, <2>6
<1>2. PInv => ServicesAreTheBits
  BY <1>1 DEF ServicesAreTheBits
<1> QED  BY <1>2, AlwaysPInv, PTL

----------------------------------------------------------------------------
(* The charts.  A client's count is the size of a set of places in the     *)
(* list: those of its name that no place with another name, cut to the     *)
(* same, comes after.                                                      *)

KeyOf(list, i) == Cut[list[i]]
Keys(list, s)  == {KeyOf(list, i) : i \in s}

PartOf(list, s, k) ==
  {i \in s : /\ KeyOf(list, i) = k
             /\ \A j \in s : j > i /\ KeyOf(list, j) = k => list[j] = k}

PartCounts(list, s) == [k \in Keys(list, s) |-> Cardinality(PartOf(list, s, k))]

\* The recursion that the counts are defined by.
CountsUp(g, list, S) ==
  g = [s \in SUBSET S |-> IF s = {} THEN [k \in {} |-> 0]
                          ELSE Counted(g[s \ {Max(s)}], list[Max(s)])]

LEMMA CountsUnfold ==
  ASSUME NEW list
  PROVE  ClientCounts(list) = (CHOOSE g : CountsUp(g, list, DOMAIN list))[DOMAIN list]
BY DEF ClientCounts, FoldLeft, MapThenFoldSet, CountsUp

\* One more client at the end of the list.
LEMMA PartsOfOneMore ==
  ASSUME NEW list, NEW s, s \subseteq DOMAIN list, s \subseteq Nat, IsFiniteSet(s),
         \A i \in DOMAIN list : list[i] \in Names,
         NEW m \in s, \A i \in s : i <= m
  PROVE  PartCounts(list, s) = Counted(PartCounts(list, s \ {m}), list[m])
<1> DEFINE t == s \ {m}
           n == list[m]
           key == Cut[n]
           before == PartCounts(list, t)
           old == IF n \in DOMAIN before THEN before[key] ELSE 0
<1>1. DOMAIN before = Keys(list, t) /\ KeyOf(list, m) = key
  BY DEF PartCounts, KeyOf
<1>2. Keys(list, s) = Keys(list, t) \union {key}
  BY DEF Keys, KeyOf
<1>3. ASSUME NEW k \in Keys(list, t), k # key
      PROVE  PartOf(list, s, k) = PartOf(list, t, k)
  BY <1>1, <1>3 DEF PartOf
<1>4. IsFiniteSet(t) /\ m \notin t
  BY FS_RemoveElement
<1>5. n \in Keys(list, t) => key = n
  <2> SUFFICES ASSUME n \in Keys(list, t) PROVE key = n
    OBVIOUS
  <2>1. PICK i \in t : n = Cut[list[i]]
    BY DEF Keys, KeyOf
  <2>2. list[i] \in Names /\ Cut[list[i]] \in Names
    BY <2>1
  <2>3. Cut[Cut[list[i]]] = Cut[list[i]]
    BY <2>2, FiguresAssumption
  <2> QED  BY <2>1, <2>3
<1>6. Cardinality(PartOf(list, s, key)) = old + 1
  <2>1. CASE n \in Keys(list, t)
    <3>1. key = n
      BY <1>5, <2>1
    <3>2. PartOf(list, s, n) = PartOf(list, t, n) \union {m}
      <4>1. ASSUME NEW i \in PartOf(list, s, n), i # m PROVE i \in PartOf(list, t, n)
        BY <4>1 DEF PartOf
      <4>2. ASSUME NEW i \in PartOf(list, t, n) PROVE i \in PartOf(list, s, n)
        BY DEF PartOf
      <4>3. m \in PartOf(list, s, n)
        <5>1. \A j \in s : ~(j > m)
          OBVIOUS
        <5> QED  BY <1>1, <3>1, <5>1 DEF PartOf
      <4> QED  BY <4>1, <4>2, <4>3
    <3>3. m \notin PartOf(list, t, n) /\ PartOf(list, t, n) \subseteq t
      BY DEF PartOf
    <3>4. IsFiniteSet(PartOf(list, t, n)) /\ Cardinality(PartOf(list, t, n)) \in Nat
      BY <1>4, <3>3, FS_Subset, FS_CardinalityType
    <3>5. Cardinality(PartOf(list, s, n)) = Cardinality(PartOf(list, t, n)) + 1
      BY <3>2, <3>3, <3>4, FS_AddElement
    <3>6. old = Cardinality(PartOf(list, t, n))
      BY <1>1, <2>1, <3>1 DEF PartCounts
    <3> QED  BY <3>1, <3>5, <3>6
  <2>2. CASE n \notin Keys(list, t)
    <3>1. PartOf(list, s, key) = {m}
      <4>1. \A j \in s : ~(j > m)
        OBVIOUS
      <4>2. m \in PartOf(list, s, key)
        BY <1>1, <4>1 DEF PartOf
      <4>3. ASSUME NEW i \in PartOf(list, s, key), i # m PROVE FALSE
        <5>1. i \in t /\ KeyOf(list, i) = key
          BY <4>3 DEF PartOf
        <5>2. key \in Keys(list, t)
          BY <5>1 DEF Keys
        <5>3. m > i
          BY <4>3, <5>1
        <5>4. list[m] = key
          BY <1>1, <5>3 DEF PartOf
        <5> QED  BY <2>2, <5>2, <5>4
      <4> QED  BY <4>2, <4>3
    <3>2. old = 0
      BY <1>1, <2>2
    <3>3. Cardinality({m}) = 1
      BY FS_Singleton
    <3>4. Cardinality(PartOf(list, s, key)) = 1
      BY <3>1, <3>3, Zenon
    <3> QED  BY <3>2, <3>4
  <2> QED  BY <2>1, <2>2
<1>7. PartCounts(list, s) =
        [k \in Keys(list, t) \union {key} |-> IF k = key THEN old + 1 ELSE before[k]]
  <2>1. \A k \in Keys(list, t) \union {key} :
          Cardinality(PartOf(list, s, k)) = IF k = key THEN old + 1 ELSE before[k]
    <3> HIDE DEF old
    <3>1. \A k \in Keys(list, t) : before[k] = Cardinality(PartOf(list, t, k))
      BY DEF PartCounts
    <3> HIDE DEF before, key, t
    <3> QED  BY <1>3, <1>6, <3>1
  <2> HIDE DEF old, before, key, t
  <2> QED  BY <1>2, <2>1 DEF PartCounts
<1>8. Counted(before, n) =
        [k \in DOMAIN before \union {key} |-> IF k = key THEN old + 1 ELSE before[k]]
  BY DEF Counted
<1> QED  BY <1>1, <1>7, <1>8, Zenon

LEMMA CountsAreParts ==
  ASSUME NEW list \in Lists
  PROVE  ClientCounts(list) = PartCounts(list, DOMAIN list)
<1> DEFINE D == DOMAIN list
           h == [s \in SUBSET D |-> PartCounts(list, s)]
<1>1. /\ D \subseteq Nat /\ IsFiniteSet(D) /\ \A i \in D : list[i] \in Names
  <2>1. PICK n \in 0..MaxPeers : list \in [1..n -> Names]
    BY DEF Lists
  <2>2. n \in Nat /\ IsFiniteSet(1..n)
    BY FS_Interval, FiguresAssumption
  <2> QED  BY <2>1, <2>2
<1>2. \A s \in SUBSET D : IsFiniteSet(s) /\ s \subseteq Nat
  BY <1>1, FS_Subset
<1>3. ASSUME NEW s \in SUBSET D, s # {}
      PROVE  PartCounts(list, s) = Counted(PartCounts(list, s \ {Max(s)}), list[Max(s)])
  <2>1. s \subseteq D /\ s \subseteq Nat /\ IsFiniteSet(s)
    BY <1>2
  <2>2. Max(s) \in s /\ \A i \in s : i <= Max(s)
    BY <1>3, <2>1, MaxIsThere
  <2> QED  BY <1>1, <2>1, <2>2, PartsOfOneMore
<1>4. PartCounts(list, {}) = [k \in {} |-> 0]
  BY DEF PartCounts, Keys
<1>5. \A s \in SUBSET D : s # {} => Max(s) \in s
  BY <1>2, MaxIsThere
<1>6. CountsUp(h, list, D)
  <2>1. ASSUME NEW s \in SUBSET D
        PROVE  h[s] = IF s = {} THEN [k \in {} |-> 0] ELSE Counted(h[s \ {Max(s)}], list[Max(s)])
    <3>1. s \ {Max(s)} \in SUBSET D
      OBVIOUS
    <3>2. h[s] = PartCounts(list, s) /\ h[s \ {Max(s)}] = PartCounts(list, s \ {Max(s)})
      BY <3>1
    <3> HIDE DEF h
    <3> QED  BY <1>3, <1>4, <3>2
  <2>2. h = [s \in SUBSET D |-> h[s]]
    OBVIOUS
  <2> HIDE DEF h
  <2> QED  BY <2>1, <2>2 DEF CountsUp
<1> DEFINE g == CHOOSE k : CountsUp(k, list, D)
<1>7. CountsUp(g, list, D)
  <2> HIDE DEF h, D
  <2> QED  BY <1>6
<1>8. ClientCounts(list) = g[D]
  BY CountsUnfold
<1> HIDE DEF g, h
<1>9. \A s \in SUBSET D : g[s] = IF s = {} THEN [k \in {} |-> 0]
                                 ELSE Counted(g[s \ {Max(s)}], list[Max(s)])
  BY <1>7, Zenon DEF CountsUp
<1> DEFINE Bad == {s \in SUBSET D : g[s] # PartCounts(list, s)}
<1>10. ASSUME Bad # {} PROVE FALSE
  <2>1. \E s \in Bad : \A t \in Bad : t \subseteq s => t = s
    <3>1. Bad \subseteq SUBSET D
      OBVIOUS
    <3>2. IsFiniteSet(D) /\ Bad # {}
      BY <1>1, <1>10
    <3> HIDE DEF Bad, D
    <3> QED  BY <3>1, <3>2, SmallestSubset
  <2>2. PICK s \in Bad : \A t \in Bad : t \subseteq s => t = s
    BY <2>1
  <2>3. s \in SUBSET D /\ s # {}
    BY <1>4, <1>9
  <2> DEFINE t == s \ {Max(s)}
  <2>4. t \in SUBSET D /\ t \subseteq s /\ t # s
    BY <1>5, <2>3
  <2> HIDE DEF t
  <2>5. g[t] = PartCounts(list, t)
    BY <2>2, <2>4
  <2>6. g[s] = Counted(g[t], list[Max(s)])
    BY <1>9, <2>3 DEF t
  <2>7. PartCounts(list, s) = Counted(PartCounts(list, t), list[Max(s)])
    BY <1>3, <2>3 DEF t
  <2> QED  BY <2>5, <2>6, <2>7
<1> QED  BY <1>8, <1>10

\* The places that count under a name; not all of them need to.
PlacesOf(list, k) == {i \in DOMAIN list : k \in {list[i], Cut[list[i]]}}

NoneCut(list) == \A i \in DOMAIN list : Cut[list[i]] = list[i]

\* Counts are sizes of parts of the list that share no place.
ArePartsOf(P, counts, list) ==
  /\ IsFiniteSet(DOMAIN counts)
  /\ \A k \in DOMAIN counts : /\ counts[k] = Cardinality(P[k]) /\ P[k] # {}
                              /\ P[k] \subseteq PlacesOf(list, k)
  /\ \A k, l \in DOMAIN counts : k # l => P[k] \cap P[l] = {}
  /\ NoneCut(list) => \A i \in DOMAIN list : \E k \in DOMAIN counts : i \in P[k]

LEMMA ListsAreFinite ==
  ASSUME NEW list \in Lists
  PROVE  /\ DOMAIN list \subseteq Nat /\ IsFiniteSet(DOMAIN list)
         /\ Len(list) = Cardinality(DOMAIN list) /\ Len(list) \in Nat
<1>1. PICK n \in 0..MaxPeers : list \in [1..n -> Names]
  BY DEF Lists
<1>2. n \in Nat /\ IsFiniteSet(1..n) /\ Cardinality(1..n) = n
  BY FS_Interval, FiguresAssumption
<1> QED  BY <1>1, <1>2

LEMMA ClientParts ==
  ASSUME NEW list \in Lists
  PROVE  \E P : ArePartsOf(P, ClientCounts(list), list)
<1> DEFINE D == DOMAIN list
           P == [k \in Keys(list, D) |-> PartOf(list, D, k)]
           counts == PartCounts(list, D)
<1>1. D \subseteq Nat /\ IsFiniteSet(D)
  BY ListsAreFinite
<1>2. DOMAIN counts = Keys(list, D)
  BY DEF PartCounts
<1>3. IsFiniteSet(Keys(list, D))
  <2> DEFINE key == [i \in D |-> KeyOf(list, i)]
  <2>1. IsFiniteSet(DOMAIN key)
    BY <1>1
  <2>2. Keys(list, D) = {key[i] : i \in DOMAIN key}
    BY DEF Keys
  <2> HIDE DEF key
  <2> QED  BY <2>1, <2>2, ImageIsFinite
<1>4. ASSUME NEW k \in Keys(list, D)
      PROVE  /\ counts[k] = Cardinality(P[k]) /\ P[k] # {} /\ P[k] \subseteq PlacesOf(list, k)
  <2>1. P[k] = PartOf(list, D, k) /\ counts[k] = Cardinality(PartOf(list, D, k))
    BY DEF PartCounts
  <2> DEFINE Under == {i \in D : KeyOf(list, i) = k}
  <2>2. Under # {} /\ Under \subseteq D
    BY DEF Keys
  <2>3. IsFiniteSet(Under)
    BY <1>1, <2>2, FS_Subset
  <2>4. Under \subseteq Nat
    BY <1>1
  <2>5. PICK m \in Under : \A i \in Under : i <= m
    <3> HIDE DEF Under
    <3> QED  BY <2>2, <2>3, <2>4, LargestNumber
  <2>6. m \in PartOf(list, D, k)
    <3>1. \A j \in D : j > m => KeyOf(list, j) # k
      BY <1>1, <2>5
    <3> QED  BY <2>5, <3>1 DEF PartOf
  <2>7. PartOf(list, D, k) \subseteq PlacesOf(list, k)
    BY DEF PartOf, PlacesOf, KeyOf
  <2> QED  BY <2>1, <2>6, <2>7
<1>5. ASSUME NEW k \in Keys(list, D), NEW l \in Keys(list, D), k # l
      PROVE  P[k] \cap P[l] = {}
  BY <1>5 DEF PartOf
<1>6. ASSUME NoneCut(list), NEW i \in D
      PROVE  \E k \in Keys(list, D) : i \in P[k]
  <2>1. KeyOf(list, i) \in Keys(list, D)
    BY DEF Keys
  <2>2. i \in PartOf(list, D, KeyOf(list, i))
    BY <1>6 DEF PartOf, KeyOf, NoneCut
  <2> QED  BY <2>1, <2>2
<1>7. ArePartsOf(P, counts, list)
  <2> HIDE DEF P, counts
  <2> QED  BY <1>2, <1>3, <1>4, <1>5, <1>6 DEF ArePartsOf
<1> QED  BY <1>7, CountsAreParts

LEMMA CountryParts ==
  ASSUME NEW list \in Lists
  PROVE  \E P : ArePartsOf(P, CountryCounts(list), list)
<1> DEFINE D == DOMAIN list
           counts == CountryCounts(list)
           P == [k \in DOMAIN counts |-> {i \in D : list[i] = k}]
<1>1. IsFiniteSet(D)
  BY ListsAreFinite
<1>2. DOMAIN counts = {list[i] : i \in D}
  BY DEF CountryCounts, Range
<1>3. IsFiniteSet(DOMAIN counts)
  BY <1>1, <1>2, ImageIsFinite
<1>4. \A k \in DOMAIN counts : counts[k] = Cardinality(P[k])
  BY DEF CountryCounts
<1>5. \A k \in DOMAIN counts : P[k] # {} /\ P[k] \subseteq PlacesOf(list, k)
  BY <1>2 DEF PlacesOf
<1>6. \A k, l \in DOMAIN counts : k # l => P[k] \cap P[l] = {}
  OBVIOUS
<1>7. \A i \in D : list[i] \in DOMAIN counts /\ i \in P[list[i]]
  BY <1>2
<1> HIDE DEF P, counts
<1>8. ArePartsOf(P, counts, list)
  BY <1>3, <1>4, <1>5, <1>6, <1>7 DEF ArePartsOf
<1> QED  BY <1>8 DEF counts

LEMMA TotalIsSum ==
  ASSUME NEW legend
  PROVE  Total(legend) = Sum(legend, DOMAIN legend)
BY DEF Total, FoldFunction, FoldFunctionOnSet, Sum, MapThenSumSet, MapThenFoldSet

\* A legend whose entries are sizes of parts, and the last the number of the other parts.
LEMMA LegendOf ==
  ASSUME NEW list \in Lists, NEW P, NEW counts, ArePartsOf(P, counts, list),
         NEW top \in Tops(counts)
  PROVE  LET legend == Legend(counts, top)
         IN  /\ \A k \in DOMAIN legend \ {Other} : legend[k] <= Cardinality(PlacesOf(list, k))
             /\ Total(legend) <= Len(list)
             /\ top = DOMAIN counts /\ NoneCut(list) => Total(legend) = Len(list)
<1> DEFINE legend == Legend(counts, top)
           D == DOMAIN counts
           L == DOMAIN legend
           U == DOMAIN list
<1>1. IsFiniteSet(U) /\ Len(list) = Cardinality(U)
  BY ListsAreFinite
<1>2. top \subseteq D /\ IsFiniteSet(D) /\ IsFiniteSet(top)
  <2>1. top \subseteq D
    BY DEF Tops, kSubset
  <2>2. IsFiniteSet(D)
    BY DEF ArePartsOf
  <2> QED  BY <2>1, <2>2, FS_Subset
<1>3. /\ L = top \union (IF top = D THEN {} ELSE {Other})
      /\ \A k \in L : legend[k] = IF k \in top THEN counts[k] ELSE Cardinality(D) - Cardinality(top)
  BY DEF Legend
<1>4. \A k \in D : /\ counts[k] = Cardinality(P[k]) /\ P[k] # {}
                   /\ P[k] \subseteq PlacesOf(list, k) /\ P[k] \subseteq U
  BY DEF ArePartsOf, PlacesOf
<1>5. \A k, l \in D : k # l => P[k] \cap P[l] = {}
  BY DEF ArePartsOf
<1>6. Total(legend) = Sum(legend, L)
  BY TotalIsSum
<1> HIDE DEF legend, L, U, D
<1>7. ASSUME NEW k \in L \ {Other} PROVE legend[k] <= Cardinality(PlacesOf(list, k))
  <2>1. k \in top /\ legend[k] = Cardinality(P[k]) /\ P[k] \subseteq PlacesOf(list, k)
    BY <1>2, <1>3, <1>4
  <2>2. IsFiniteSet(PlacesOf(list, k))
    <3>1. PlacesOf(list, k) \subseteq U
      BY DEF PlacesOf, U
    <3> QED  BY <1>1, <3>1, FS_Subset
  <2>3. Cardinality(P[k]) <= Cardinality(PlacesOf(list, k))
    BY <2>1, <2>2, FS_Subset
  <2> QED  BY <2>1, <2>3
\* Nothing is left out, or a name is the last entry's.
<1>8. ASSUME L = top
      PROVE  /\ Total(legend) = Cardinality(Whole(P, top)) /\ Total(legend) <= Len(list)
  <2>1. \A k \in top : P[k] \subseteq U /\ legend[k] = Cardinality(P[k])
    BY <1>2, <1>3, <1>4, <1>8
  <2>2. \A k, l \in top : k # l => P[k] \cap P[l] = {}
    BY <1>2, <1>5
  <2>3. Sum(legend, top) = Cardinality(Whole(P, top)) /\ Sum(legend, top) <= Cardinality(U)
    BY <1>1, <1>2, <2>1, <2>2, SumOfParts
  <2> QED  BY <1>1, <1>6, <1>8, <2>3
<1>9. ASSUME top = D, NoneCut(list) PROVE Total(legend) = Len(list)
  <2>1. L = top
    BY <1>3, <1>9
  <2>2. \A i \in U : \E k \in D : i \in P[k]
    BY <1>9 DEF ArePartsOf, U, D
  <2>3. Whole(P, top) = U
    BY <1>4, <1>9, <2>2 DEF Whole
  <2> QED  BY <1>1, <1>8, <2>1, <2>3
\* Each name left out counts for one of its places.
<1>10. ASSUME L # top PROVE Total(legend) <= Len(list)
  <2>1. top # D /\ Other \notin top /\ L = top \union {Other}
    BY <1>3, <1>10
  <2> DEFINE Rest == D \ top
             one == [k \in Rest |-> CHOOSE i \in P[k] : TRUE]
             Ones == {one[k] : k \in Rest}
             Q == [k \in L |-> IF k \in top THEN P[k] ELSE Ones]
  <2>2. \A k \in Rest : one[k] \in P[k] /\ one[k] \in U
    BY <1>4
  <2>3. one \in Bijection(Rest, Ones)
    <3>1. one \in [Rest -> Ones] /\ \A i \in Ones : \E k \in Rest : one[k] = i
      OBVIOUS
    <3>2. \A k, l \in Rest : one[k] = one[l] => k = l
      BY <1>5, <2>2
    <3> HIDE DEF one, Ones, Rest
    <3> QED  BY <3>1, <3>2 DEF Bijection, Injection, Surjection, IsInjective
  <2>4. /\ Cardinality(Ones) = Cardinality(Rest)
        /\ Cardinality(Rest) = Cardinality(D) - Cardinality(top)
    <3>1. IsFiniteSet(Rest) /\ Cardinality(Rest) = Cardinality(D) - Cardinality(D \cap top)
      BY <1>2, FS_Difference
    <3>2. D \cap top = top
      BY <1>2
    <3>3. ExistsBijection(Rest, Ones)
      BY <2>3 DEF ExistsBijection
    <3> HIDE DEF Rest, Ones
    <3>4. Cardinality(Ones) = Cardinality(Rest)
      BY <3>1, <3>3, FS_Bijection
    <3> QED  BY <3>1, <3>2, <3>4
  <2>5. Ones \subseteq U
    BY <2>2
  <2>6. \A k \in top : Ones \cap P[k] = {}
    BY <1>2, <1>5, <2>2
  <2>7. IsFiniteSet(L)
    BY <1>2, <2>1, FS_AddElement
  <2>8. \A k \in L : Q[k] \subseteq U
    BY <1>2, <1>4, <2>5
  <2>9. \A k \in L : legend[k] = Cardinality(Q[k])
    <3>1. \A k \in top : k \in L /\ legend[k] = Cardinality(P[k]) /\ Q[k] = P[k]
      BY <1>2, <1>3, <1>4, <2>1
    <3>2. legend[Other] = Cardinality(Ones) /\ Q[Other] = Ones
      BY <1>3, <2>1, <2>4
    <3> HIDE DEF Q, Ones
    <3> QED  BY <2>1, <3>1, <3>2
  <2>10. \A k, l \in L : k # l => Q[k] \cap Q[l] = {}
    <3>1. \A k \in top : k \in L /\ Q[k] = P[k]
      BY <2>1
    <3>2. Q[Other] = Ones
      BY <2>1
    <3> HIDE DEF Q, Ones
    <3> QED  BY <1>2, <1>5, <2>1, <2>6, <3>1, <3>2
  <2> HIDE DEF Q
  <2>11. Sum(legend, L) <= Cardinality(U)
    BY <1>1, <2>7, <2>8, <2>9, <2>10, SumOfParts
  <2> QED  BY <1>1, <1>6, <2>11
<1> QED  BY <1>7, <1>8, <1>9, <1>10 DEF legend, L, D

\* A chart never counts more peers than there are, under no name and over all names, and
\* it counts every peer if no name is cut and none is left out (getTopClients() and the
\* counts that createPeersGeo() gives to createMapJs()).
THEOREM EachPeerOnce == Spec => []ChartsCountPeersOnce
<1>1. ASSUME PInv, page = "charts"
      PROVE  /\ \A k \in DOMAIN got.legend \ {Other} :
                  got.legend[k] <= Cardinality(PlacesOf(got.list, k))
             /\ Total(got.legend) <= Len(got.list)
             /\ got.all /\ NoneCut(got.list) => Total(got.legend) = Len(got.list)
  <2>1. PICK counts \in {ClientCounts(got.list), CountryCounts(got.list)} :
          \E top \in Tops(counts) :
            got.all = (top = DOMAIN counts) /\ got.legend = Legend(counts, top)
    BY <1>1, Zenon DEF PInv, FiguresOK
  <2>2. PICK top \in Tops(counts) :
          got.all = (top = DOMAIN counts) /\ got.legend = Legend(counts, top)
    BY <2>1, Zenon
  <2>3. got.list \in Lists
    BY <1>1 DEF PInv, FiguresOK
  <2>4. PICK P : ArePartsOf(P, counts, got.list)
    BY <2>1, <2>3, ClientParts, CountryParts
  <2> DEFINE list == got.list
  <2>5. LET legend == Legend(counts, top)
        IN  /\ \A k \in DOMAIN legend \ {Other} : legend[k] <= Cardinality(PlacesOf(list, k))
            /\ Total(legend) <= Len(list)
            /\ top = DOMAIN counts /\ NoneCut(list) => Total(legend) = Len(list)
    <3> HIDE DEF list
    <3> QED  BY <2>3, <2>4, LegendOf DEF list
  <2> QED  BY <2>2, <2>5
<1>2. PInv => ChartsCountPeersOnce
  BY <1>1 DEF ChartsCountPeersOnce, PlacesOf, NoneCut
<1> QED  BY <1>2, AlwaysPInv, PTL
=============================================================================

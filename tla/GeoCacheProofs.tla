--------------------------- MODULE GeoCacheProofs ---------------------------
(***************************************************************************)
(* Proofs about GeoCache, for every number of requests, peers, restarts    *)
(* and failures, and every size of batch: what the file tells of an        *)
(* address is true (IInv), peers are shown where they are, what stays of   *)
(* those who left, and that nothing is asked for twice (JInv).             *)
(***************************************************************************)
EXTENDS GeoCache, SumLemmas, SequenceTheorems, TLAPS

\* The shapes that the proof needs.
PeerRecord == [id : Nat, ip : Addrs, at : Nat]
IsEntry(e) == e = [ip |-> e.ip, geo |-> e.geo, live |-> e.live, pos |-> e.pos]
IsSeq(s)   == \E S : s \in Seq(S)

NodeOK ==
  /\ clock \in Nat /\ nextId \in Nat
  /\ peers \in Seq(PeerRecord)

RequestsOK ==
  /\ pc \in [Requests -> Steps]
  /\ list \in [Requests -> Seq(PeerRecord)]
  /\ DOMAIN cache = Requests /\ DOMAIN noGeo = Requests /\ DOMAIN asked = Requests
  /\ DOMAIN heard = Requests /\ DOMAIN shown = Requests
  /\ \A r \in Requests : IsSeq(shown[r])

\* An entry holds the data of its address, or of an excused one.
Truthful(e) == IsEntry(e) /\ (e.geo = e.ip \/ e.ip \in excused)

FileSound == \A k \in DOMAIN file : Truthful(file[k])

\* The same of a request's copy, and why its second pass keeps it so: a peer that was
\* not asked for is too young, known or excused, and one that was not answered is
\* excused.
CopySound(r) == \A k \in DOMAIN cache[r] : Truthful(cache[r][k])

UnansweredExcused(r) ==
  pc[r] = "show" => \A i \in asked[r] \ heard[r] : list[r][i].ip \in excused

PassedOverKnown(r) ==
  \A i \in PassedOver(r) :
    ~Old(list[r][i]) \/ Known(r, list[r][i].ip) \/ list[r][i].ip \in excused

Sound(r) == CopySound(r) /\ UnansweredExcused(r) /\ PassedOverKnown(r)

IInv == NodeOK /\ RequestsOK /\ FileSound /\ \A r \in Requests : Sound(r)

----------------------------------------------------------------------------

LEMMA AppendIsSeq ==
  ASSUME NEW s, IsSeq(s), NEW e
  PROVE  IsSeq(Append(s, e)) /\ DOMAIN Append(s, e) = DOMAIN s \union {Len(s) + 1}
         /\ DOMAIN s = 1..Len(s) /\ Len(s) \in Nat
<1>1. PICK S : s \in Seq(S)
  BY DEF IsSeq
<1>2. s \in Seq(S \union {e})
  BY <1>1, SeqMonotonic
<1>3. Append(s, e) \in Seq(S \union {e}) /\ Len(Append(s, e)) = Len(s) + 1
  BY <1>2
<1>4. DOMAIN s = 1..Len(s) /\ Len(s) \in Nat /\ DOMAIN Append(s, e) = 1..(Len(s) + 1)
  BY <1>2, <1>3, LenProperties
<1> QED  BY <1>3, <1>4 DEF IsSeq

LEMMA EmptyIsSeq == IsSeq(<<>>)
BY EmptySeq DEF IsSeq

\* A change of the mark changes nothing else.
LEMMA MarkOnly ==
  ASSUME NEW e, IsEntry(e), NEW b, NEW m, m = [e EXCEPT !.live = b]
  PROVE  IsEntry(m) /\ m.ip = e.ip /\ m.geo = e.geo
<1>1. [e EXCEPT !.live = b] = [ip |-> e.ip, geo |-> e.geo, live |-> b, pos |-> e.pos]
  <2> DEFINE ip == e.ip  geo == e.geo  live == e.live  pos == e.pos
  <2>1. e = [ip |-> ip, geo |-> geo, live |-> live, pos |-> pos]
    BY DEF IsEntry
  <2> HIDE DEF ip, geo, live, pos
  <2>2. [e EXCEPT !.live = b] = [ip |-> ip, geo |-> geo, live |-> b, pos |-> pos]
    BY <2>1
  <2> QED  BY <2>2 DEF ip, geo, live, pos
<1> QED  BY <1>1 DEF IsEntry

\* A step that leaves a request alone and excuses no less leaves it sound.
LEMMA Untouched ==
  ASSUME NEW q \in Requests, Sound(q), excused \subseteq excused', clock' = clock,
         pc'[q] = pc[q], list'[q] = list[q], cache'[q] = cache[q], noGeo'[q] = noGeo[q],
         asked'[q] = asked[q], heard'[q] = heard[q], shown'[q] = shown[q]
  PROVE  Sound(q)'
BY DEF Sound, CopySound, Truthful, UnansweredExcused, PassedOverKnown, PassedOver, Known, Has, Old

LEMMA InitIInv == Init => IInv
<1> SUFFICES ASSUME Init PROVE IInv
  OBVIOUS
<1>1. NodeOK
  BY EmptySeq DEF Init, NodeOK
<1>2. RequestsOK
  BY EmptySeq, EmptyIsSeq DEF Init, RequestsOK, Steps
<1>3. FileSound
  BY EarlierAssumption DEF Init, FileSound, Truthful, IsEntry, Entry, Empty
<1>4. ASSUME NEW r \in Requests PROVE Sound(r)
  BY DEF Init, Sound, CopySound, UnansweredExcused, PassedOverKnown, PassedOver, Empty
<1> QED  BY <1>1, <1>2, <1>3, <1>4 DEF IInv

LEMMA NetworkStep ==
  ASSUME IInv, (\E a \in Addrs : Connect(a)) \/ (\E i \in DOMAIN peers : Disconnect(i)) \/ Restart
  PROVE  IInv'
<1>1. NodeOK'
  <2>1. ASSUME NEW a \in Addrs, Connect(a) PROVE NodeOK'
    <3>1. [id |-> nextId, ip |-> a, at |-> clock] \in PeerRecord
      BY DEF IInv, NodeOK, PeerRecord
    <3> QED  BY <2>1, <3>1 DEF IInv, NodeOK, Connect
  <2>2. ASSUME NEW i \in DOMAIN peers, Disconnect(i) PROVE NodeOK'
    <3>1. Len(peers) \in Nat /\ DOMAIN peers = 1..Len(peers)
          /\ \A j \in 1..Len(peers) : peers[j] \in PeerRecord
      BY LenProperties DEF IInv, NodeOK
    <3>2. Len(peers) - 1 \in Nat
      BY <3>1
    <3>3. \A j \in 1..(Len(peers) - 1) : j \in 1..Len(peers) /\ j + 1 \in 1..Len(peers)
      BY <3>1
    <3>4. [j \in 1..(Len(peers) - 1) |-> IF j < i THEN peers[j] ELSE peers[j + 1]] \in Seq(PeerRecord)
      BY <3>1, <3>2, <3>3, SeqDef
    <3> QED  BY <2>2, <3>4 DEF IInv, NodeOK, Disconnect
  <2>3. CASE Restart
    BY <2>3, EmptySeq DEF IInv, NodeOK, Restart
  <2> QED  BY <2>1, <2>2, <2>3
<1>2. UNCHANGED <<file, local, excused, clock>>
  BY DEF Connect, Disconnect, Restart, history
<1>3. RequestsOK' /\ FileSound'
  BY <1>2 DEF IInv, RequestsOK, FileSound, Truthful, local
<1>4. \A r \in Requests : Sound(r)'
  BY <1>2, Untouched DEF IInv, local
<1> QED  BY <1>1, <1>3, <1>4 DEF IInv

\* Who turns two minutes old behind a request's back is excused.
LEMMA TickStep == ASSUME IInv, Tick PROVE IInv'
<1>1. clock' = clock + 1 /\ UNCHANGED <<peers, nextId, file, local>>
      /\ excused' = excused \union UNION {{list[r][i].ip : i \in Ripened(r)} : r \in Requests}
  BY DEF Tick
<1>2. NodeOK' /\ RequestsOK' /\ FileSound'
  BY <1>1 DEF IInv, NodeOK, RequestsOK, FileSound, Truthful, local
<1>3. ASSUME NEW r \in Requests PROVE Sound(r)'
  <2>1. CopySound(r)' /\ UnansweredExcused(r)'
    BY <1>1 DEF IInv, Sound, CopySound, Truthful, UnansweredExcused, local
  <2>2. ASSUME NEW i \in PassedOver(r)'
        PROVE  (~Old(list[r][i]) \/ Known(r, list[r][i].ip) \/ list[r][i].ip \in excused)'
    <3>1. i \in PassedOver(r) /\ list'[r] = list[r] /\ Known(r, list[r][i].ip)' = Known(r, list[r][i].ip)
      BY <1>1, <2>2 DEF PassedOver, local, Known, Has
    <3>2. list[r][i].at \in Nat /\ clock \in Nat
      <4>1. list[r] \in Seq(PeerRecord) /\ i \in DOMAIN list[r]
        BY <3>1 DEF IInv, RequestsOK, PassedOver
      <4>2. list[r][i] \in PeerRecord
        BY <4>1, LenProperties, ElementOfSeq
      <4> QED  BY <4>2 DEF PeerRecord, IInv, NodeOK
    <3>3. CASE list[r][i].at = clock /\ ~Known(r, list[r][i].ip)
      BY <1>1, <3>1, <3>3 DEF Ripened
    <3>4. CASE list[r][i].at # clock /\ ~Old(list[r][i])
      BY <1>1, <3>1, <3>2, <3>4 DEF Old
    <3>5. CASE Known(r, list[r][i].ip) \/ list[r][i].ip \in excused
      BY <1>1, <3>1, <3>5
    <3> QED  BY <3>1, <3>3, <3>4, <3>5 DEF IInv, Sound, PassedOverKnown
  <2> QED  BY <2>1, <2>2 DEF Sound, PassedOverKnown
<1> QED  BY <1>2, <1>3 DEF IInv

----------------------------------------------------------------------------
(* The steps of a request r: what it leaves of the others, and its own part. *)

LEMMA GetPeersStep == ASSUME NEW r \in Requests, IInv, GetPeers(r) PROVE IInv'
<1>1. UNCHANGED <<network, file, cache, noGeo, asked, heard, shown, excused>>
      /\ pc' = [pc EXCEPT ![r] = "read"] /\ list' = [list EXCEPT ![r] = peers]
  BY DEF GetPeers, Goto
<1>2. NodeOK' /\ RequestsOK' /\ FileSound'
  BY <1>1 DEF IInv, NodeOK, RequestsOK, FileSound, Truthful, network, Steps
<1>3. ASSUME NEW q \in Requests, q # r PROVE Sound(q)'
  BY <1>1, <1>3, Untouched DEF IInv, RequestsOK, network
<1>4. Sound(r)'
  BY <1>1 DEF IInv, RequestsOK, Sound, CopySound, Truthful, UnansweredExcused, PassedOverKnown,
              PassedOver
<1> QED  BY <1>2, <1>3, <1>4 DEF IInv

LEMMA UnmarkedSound ==
  ASSUME NEW r \in Requests, IInv
  PROVE  \A k \in DOMAIN Unmarked(r) : Truthful(Unmarked(r)[k])
<1> SUFFICES ASSUME NEW k \in DOMAIN file PROVE Truthful(Unmarked(r)[k])
  BY DEF Unmarked
<1>1. Truthful(file[k])
  BY DEF IInv, FileSound
<1>2. CASE Unmarked(r)[k] = file[k]
  BY <1>1, <1>2
<1>3. CASE Unmarked(r)[k] = [file[k] EXCEPT !.live = FALSE]
  <2>1. IsEntry(file[k])
    BY <1>1 DEF Truthful
  <2>2. IsEntry(Unmarked(r)[k]) /\ Unmarked(r)[k].ip = file[k].ip /\ Unmarked(r)[k].geo = file[k].geo
    BY <1>3, <2>1, MarkOnly
  <2> QED  BY <1>1, <2>2 DEF Truthful
<1> QED  BY <1>2, <1>3 DEF Unmarked

LEMMA ReadFileStep == ASSUME NEW r \in Requests, IInv, ReadFile(r) PROVE IInv'
<1>1. UNCHANGED <<network, file, list, heard, shown, excused>>
      /\ pc' \in {[pc EXCEPT ![r] = "show"], [pc EXCEPT ![r] = "ask"]}
      /\ noGeo' = [noGeo EXCEPT ![r] = ~SameOldest(r)]
      /\ cache' = [cache EXCEPT ![r] = IF SameOldest(r) THEN Unmarked(r) ELSE Empty]
      /\ asked' = [asked EXCEPT ![r] = {i \in DOMAIN list[r] :
                       Old(list[r][i]) /\ ~Has(cache'[r], list[r][i].ip)}]
      /\ (asked'[r] # {} => pc' = [pc EXCEPT ![r] = "ask"])
  BY DEF ReadFile, Goto, history
<1>2. NodeOK' /\ RequestsOK' /\ FileSound'
  BY <1>1 DEF IInv, NodeOK, RequestsOK, FileSound, Truthful, network, Steps
<1>3. ASSUME NEW q \in Requests, q # r PROVE Sound(q)'
  BY <1>1, <1>3, Untouched DEF IInv, RequestsOK, network
<1>4. CopySound(r)'
  BY <1>1, UnmarkedSound DEF IInv, RequestsOK, CopySound, Truthful, Empty
<1>5. UnansweredExcused(r)'
  BY <1>1 DEF IInv, RequestsOK, UnansweredExcused
<1>6. PassedOverKnown(r)'
  <2> SUFFICES ASSUME NEW i \in PassedOver(r)', Old(list[r][i])
               PROVE  Known(r, list[r][i].ip)'
    BY <1>1 DEF PassedOverKnown, Old, network
  <2>1. i \in DOMAIN list[r] /\ i \notin asked'[r]
    BY <1>1 DEF PassedOver
  <2>2. Has(cache'[r], list[r][i].ip)
    BY <1>1, <2>1 DEF IInv, RequestsOK
  <2>3. CASE SameOldest(r)
    BY <1>1, <2>2, <2>3 DEF IInv, RequestsOK, Known, Has
  <2>4. CASE ~SameOldest(r)
    BY <1>1, <2>2, <2>4 DEF IInv, RequestsOK, Has, Empty
  <2> QED  BY <2>3, <2>4
<1> QED  BY <1>2, <1>3, <1>4, <1>5, <1>6 DEF IInv, Sound

LEMMA AskStep == ASSUME NEW r \in Requests, IInv, Ask(r) PROVE IInv'
<1>1. UNCHANGED <<network, file, list, cache, noGeo, asked, shown>>
      /\ pc[r] = "ask" /\ pc' = [pc EXCEPT ![r] = "show"]
      /\ excused' = excused \union {list[r][i].ip : i \in asked[r] \ heard'[r]}
  BY DEF Ask, Goto
<1>2. PICK h : heard' = [heard EXCEPT ![r] = h]
  BY DEF Ask
<1>3. NodeOK' /\ RequestsOK' /\ FileSound'
  BY <1>1, <1>2 DEF IInv, NodeOK, RequestsOK, FileSound, Truthful, network, Steps
<1>4. ASSUME NEW q \in Requests, q # r PROVE Sound(q)'
  BY <1>1, <1>2, <1>4, Untouched DEF IInv, RequestsOK, network
<1>5. Sound(r)'
  BY <1>1 DEF IInv, RequestsOK, Sound, CopySound, Truthful, UnansweredExcused, PassedOverKnown,
              PassedOver, Known, Has, Old, network
<1> QED  BY <1>3, <1>4, <1>5 DEF IInv

LEMMA ShowKnownStep == ASSUME NEW r \in Requests, IInv, ShowKnown(r) PROVE IInv'
<1>1. PICK k \in EntryFor(cache[r], Now(r)) :
        /\ ShowAs(r, cache[r][k].geo)
        /\ cache' = [cache EXCEPT ![r] = Marked(cache[r], k)]
  BY DEF ShowKnown, IInv, RequestsOK
<1>2. UNCHANGED <<network, file, pc, list, noGeo, asked, heard, excused>> /\ pc[r] = "show"
      /\ shown' = [shown EXCEPT ![r] = Append(shown[r], cache[r][k].geo)]
  BY <1>1 DEF ShowKnown, ShowAs, Looking, history, IInv, RequestsOK
<1>3. IsSeq(shown[r])
  BY DEF IInv, RequestsOK
<1>4. IsSeq(shown'[r]) /\ DOMAIN shown[r] \subseteq DOMAIN shown'[r]
  BY <1>2, <1>3, AppendIsSeq DEF IInv, RequestsOK
<1>5. NodeOK' /\ RequestsOK' /\ FileSound'
  BY <1>1, <1>2, <1>4 DEF IInv, NodeOK, RequestsOK, FileSound, Truthful, network
<1>6. ASSUME NEW q \in Requests, q # r PROVE Sound(q)'
  BY <1>1, <1>2, <1>6, Untouched DEF IInv, RequestsOK, network
<1>7. DOMAIN cache'[r] = DOMAIN cache[r]
      /\ \A j \in DOMAIN cache[r] : cache'[r][j].ip = cache[r][j].ip
                                   /\ cache'[r][j].geo = cache[r][j].geo /\ IsEntry(cache'[r][j])
  <2>1. cache'[r] = [cache[r] EXCEPT ![k] = [cache[r][k] EXCEPT !.live = TRUE]]
    BY <1>1 DEF IInv, RequestsOK, Marked
  <2>2. \A j \in DOMAIN cache[r] : IsEntry(cache[r][j])
    BY DEF IInv, Sound, CopySound, Truthful
  <2>3. ASSUME NEW j \in DOMAIN cache[r]
        PROVE  /\ cache'[r][j].ip = cache[r][j].ip /\ cache'[r][j].geo = cache[r][j].geo
               /\ IsEntry(cache'[r][j])
    <3>1. CASE j = k
      <4>1. cache'[r][j] = [cache[r][j] EXCEPT !.live = TRUE]
        BY <2>1, <3>1
      <4> QED  BY <2>2, <4>1, MarkOnly
    <3>2. CASE j # k
      BY <2>1, <2>2, <3>2
    <3> QED  BY <3>1, <3>2
  <2>4. DOMAIN cache'[r] = DOMAIN cache[r]
    BY <2>1
  <2> QED  BY <2>3, <2>4
<1>8. CopySound(r)' /\ UnansweredExcused(r)'
  BY <1>2, <1>7 DEF IInv, Sound, CopySound, Truthful, UnansweredExcused
<1>9. PassedOverKnown(r)'
  BY <1>2, <1>4, <1>7 DEF IInv, Sound, PassedOverKnown, PassedOver, Known, Has, Old, network
<1> QED  BY <1>5, <1>6, <1>8, <1>9 DEF IInv, Sound

\* Where a request finds an answer for an address, it is the address's, or else the
\* address is excused.
LEMMA AnswerSound ==
  ASSUME NEW r \in Requests, IInv, ShowFound(r)
  PROVE  Answer(r, Now(r).ip) = Now(r).ip \/ Now(r).ip \in excused
<1> DEFINE i == At(r)
<1>1. pc[r] = "show" /\ Now(r) = list[r][i] /\ Old(list[r][i]) /\ ~Known(r, list[r][i].ip)
  BY DEF ShowFound, Looking, Now
<1>2. i \in DOMAIN list[r] /\ i \notin DOMAIN shown[r]
  <2>1. DOMAIN shown[r] = 1..Len(shown[r]) /\ Len(shown[r]) \in Nat
    BY AppendIsSeq DEF IInv, RequestsOK
  <2>2. DOMAIN list[r] = 1..Len(list[r]) /\ Len(list[r]) \in Nat
    BY LenProperties DEF IInv, RequestsOK
  <2> QED  BY <2>1, <2>2 DEF ShowFound, Looking, At
<1> HIDE DEF i
<1>3. CASE i \in heard[r]
  BY <1>1, <1>3 DEF Answer
<1>4. CASE i \in asked[r] \ heard[r]
  BY <1>1, <1>4 DEF IInv, Sound, UnansweredExcused
<1>5. CASE i \notin asked[r]
  BY <1>1, <1>2, <1>5 DEF IInv, Sound, PassedOverKnown, PassedOver
<1> QED  BY <1>3, <1>4, <1>5

LEMMA ShowFoundStep == ASSUME NEW r \in Requests, IInv, ShowFound(r) PROVE IInv'
<1> DEFINE p == Now(r)  geo == Answer(r, p.ip)
<1>1. UNCHANGED <<network, file, pc, list, noGeo, asked, heard>> /\ pc[r] = "show"
      /\ shown' = [shown EXCEPT ![r] = Append(shown[r], geo)]
      /\ cache' = [cache EXCEPT ![r] = Stored(cache[r], p, geo)]
      /\ excused' = excused \union {cache[r][k].ip : k \in {p.id} \intersect DOMAIN cache[r]}
  BY DEF ShowFound, ShowAs, Looking, IInv, RequestsOK
<1>2. geo = p.ip \/ p.ip \in excused
  BY AnswerSound
<1>3. PICK pos : Stored(cache[r], p, geo) =
        [k \in DOMAIN cache[r] \union {p.id} |->
           IF k = p.id THEN [ip |-> p.ip, geo |-> geo, live |-> TRUE, pos |-> pos] ELSE cache[r][k]]
  BY DEF Stored
<1> HIDE DEF p, geo
<1>4. IsSeq(shown[r])
  BY DEF IInv, RequestsOK
<1>5. IsSeq(shown'[r]) /\ DOMAIN shown[r] \subseteq DOMAIN shown'[r]
  BY <1>1, <1>4, AppendIsSeq DEF IInv, RequestsOK
<1>6. NodeOK' /\ RequestsOK' /\ FileSound'
  BY <1>1, <1>5 DEF IInv, NodeOK, RequestsOK, FileSound, Truthful, network
<1>7. ASSUME NEW q \in Requests, q # r PROVE Sound(q)'
  BY <1>1, <1>7, Untouched DEF IInv, RequestsOK, network
<1>8. cache'[r] = Stored(cache[r], p, geo)
  BY <1>1 DEF IInv, RequestsOK
<1>9. CopySound(r)'
  <2> SUFFICES ASSUME NEW k \in DOMAIN cache'[r] PROVE Truthful(cache[r][k])'
    BY DEF CopySound
  <2>1. CASE k = p.id
    <3>1. cache'[r][k] = [ip |-> p.ip, geo |-> geo, live |-> TRUE, pos |-> pos]
      BY <1>3, <1>8, <2>1
    <3> QED  BY <1>1, <1>2, <3>1 DEF Truthful, IsEntry
  <2>2. CASE k # p.id
    <3>1. k \in DOMAIN cache[r] /\ cache'[r][k] = cache[r][k]
      BY <1>3, <1>8, <2>2
    <3> QED  BY <1>1, <3>1 DEF IInv, Sound, CopySound, Truthful
  <2> QED  BY <2>1, <2>2
<1>10. UnansweredExcused(r)'
  BY <1>1 DEF IInv, Sound, UnansweredExcused
<1>11. PassedOverKnown(r)'
  <2> SUFFICES ASSUME NEW i \in PassedOver(r)', Old(list[r][i])
               PROVE  Known(r, list[r][i].ip)' \/ list[r][i].ip \in excused'
    BY <1>1 DEF PassedOverKnown, Old, network
  <2>1. i \in PassedOver(r)
    BY <1>1, <1>5 DEF PassedOver
  <2>2. CASE list[r][i].ip \in excused
    BY <1>1, <2>2
  <2>3. CASE Known(r, list[r][i].ip)
    <3>1. PICK k \in DOMAIN cache[r] : cache[r][k].ip = list[r][i].ip
      BY <2>3 DEF Known, Has
    <3>2. CASE k = p.id
      BY <1>1, <3>1, <3>2
    <3>3. CASE k # p.id
      <4>1. k \in DOMAIN cache'[r] /\ cache'[r][k].ip = list[r][i].ip
        BY <1>3, <1>8, <3>1, <3>3
      <4> QED  BY <1>1, <2>3, <4>1 DEF Known, Has
    <3> QED  BY <3>2, <3>3
  <2> QED  BY <2>1, <2>2, <2>3 DEF IInv, Sound, PassedOverKnown
<1> QED  BY <1>6, <1>7, <1>9, <1>10, <1>11 DEF IInv, Sound

LEMMA ShowUnknownStep == ASSUME NEW r \in Requests, IInv, ShowUnknown(r) PROVE IInv'
<1>1. PICK geo : shown' = [shown EXCEPT ![r] = Append(shown[r], geo)]
  BY DEF ShowUnknown, ShowAs, IInv, RequestsOK
<1>2. UNCHANGED <<network, file, pc, list, cache, noGeo, asked, heard, excused>>
  BY DEF ShowUnknown, history
<1>3. IsSeq(shown[r])
  BY DEF IInv, RequestsOK
<1>4. IsSeq(shown'[r]) /\ DOMAIN shown[r] \subseteq DOMAIN shown'[r]
  <2>1. shown'[r] = Append(shown[r], geo)
    BY <1>1 DEF IInv, RequestsOK
  <2> QED  BY <1>3, <2>1, AppendIsSeq
<1>5. NodeOK' /\ RequestsOK' /\ FileSound'
  BY <1>1, <1>2, <1>4 DEF IInv, NodeOK, RequestsOK, FileSound, Truthful, network
<1>6. ASSUME NEW q \in Requests, q # r PROVE Sound(q)'
  BY <1>1, <1>2, <1>6, Untouched DEF IInv, RequestsOK, network
<1>7. Sound(r)'
  BY <1>2, <1>4 DEF IInv, Sound, CopySound, Truthful, UnansweredExcused, PassedOverKnown, PassedOver,
                    Known, Has, Old, network
<1> QED  BY <1>5, <1>6, <1>7 DEF IInv

LEMMA TruncateStep == ASSUME NEW r \in Requests, IInv, Truncate(r) PROVE IInv'
<1>1. UNCHANGED <<network, list, noGeo, asked, heard, shown, excused>> /\ file' = Empty
      /\ pc' = [pc EXCEPT ![r] = "write"] /\ cache' = [cache EXCEPT ![r] = Kept(cache[r])]
  BY DEF Truncate, Goto, IInv, RequestsOK
<1>2. NodeOK' /\ RequestsOK' /\ FileSound'
  BY <1>1 DEF IInv, NodeOK, RequestsOK, FileSound, Empty, network, Steps
<1>3. ASSUME NEW q \in Requests, q # r PROVE Sound(q)'
  BY <1>1, <1>3, Untouched DEF IInv, RequestsOK, network
<1>4. \A k \in DOMAIN cache'[r] : k \in DOMAIN cache[r] /\ cache'[r][k] = cache[r][k]
  BY <1>1 DEF IInv, RequestsOK, Kept, Restrict
<1>5. pc'[r] = "write"
  BY <1>1 DEF IInv, RequestsOK
<1>6. Sound(r)'
  BY <1>1, <1>4, <1>5
     DEF IInv, Sound, CopySound, Truthful, UnansweredExcused, PassedOverKnown, PassedOver
<1> QED  BY <1>2, <1>3, <1>6 DEF IInv

LEMMA FinishStep ==
  ASSUME NEW r \in Requests, IInv, Finish(r), UNCHANGED <<network, excused>>,
         file' \in {file, cache[r]}
  PROVE  IInv'
<1>1. NodeOK' /\ FileSound'
  BY DEF IInv, NodeOK, FileSound, Sound, CopySound, Truthful, network
<1>2. RequestsOK'
  BY EmptySeq, EmptyIsSeq DEF IInv, RequestsOK, Finish, Goto, Steps
<1>3. ASSUME NEW q \in Requests, q # r PROVE Sound(q)'
  BY <1>3, Untouched DEF IInv, RequestsOK, network, Finish, Goto
<1>4. pc'[r] = "idle" /\ cache'[r] = Empty
  BY DEF IInv, RequestsOK, Finish, Goto
<1>5. Sound(r)'
  BY <1>4 DEF Sound, CopySound, UnansweredExcused, PassedOverKnown, PassedOver, Empty
<1> QED  BY <1>1, <1>2, <1>3, <1>5 DEF IInv

LEMMA NextIInv == IInv /\ [Next]_vars => IInv'
<1> SUFFICES ASSUME IInv, [Next]_vars PROVE IInv'
  OBVIOUS
<1>1. CASE (\E a \in Addrs : Connect(a)) \/ (\E i \in DOMAIN peers : Disconnect(i)) \/ Restart
  BY <1>1, NetworkStep
<1>2. CASE Tick
  BY <1>2, TickStep
<1>3. ASSUME NEW r \in Requests, Step(r) PROVE IInv'
  <2>1. CASE Put(r)
    BY <2>1, FinishStep DEF Put
  <2> QED
    BY <1>3, <2>1, GetPeersStep, ReadFileStep, AskStep, ShowKnownStep, ShowFoundStep,
       ShowUnknownStep, TruncateStep DEF Step
<1>4. ASSUME NEW r \in Requests, Abort(r) PROVE IInv'
  BY <1>4, FinishStep DEF Abort
<1>5. CASE UNCHANGED vars
  <2>1. NodeOK' /\ RequestsOK' /\ FileSound'
    BY <1>5 DEF IInv, NodeOK, RequestsOK, FileSound, Truthful, vars, network, local, history
  <2>2. \A q \in Requests : Sound(q)'
    BY <1>5, Untouched DEF IInv, vars, network, local, history
  <2> QED  BY <2>1, <2>2 DEF IInv
<1> QED  BY <1>1, <1>2, <1>3, <1>4, <1>5 DEF Next

\* However requests overlap and die and whoever connects, an entry of the file holds
\* the data of its own address, but for the three ways the model names.
THEOREM FileIsTruthful == Spec => []EntriesAreTruthful
<1>1. IInv => EntriesAreTruthful
  BY DEF IInv, FileSound, Truthful, EntriesAreTruthful
<1> QED  BY <1>1, InitIInv, NextIInv, PTL DEF Spec

----------------------------------------------------------------------------
\* The ranges, and what the order of the ids and of the entries tells.

Ordered(s) == \A i, j \in DOMAIN s : i < j => s[i].id < s[j].id /\ s[i].at <= s[j].at
Apart(array) == \A j, k \in DOMAIN array : array[j].pos = array[k].pos => j = k
IsArray(array) ==
  DOMAIN array \subseteq Ids /\ (\A k \in DOMAIN array : array[k] \in Entry) /\ Apart(array)

NodeRanges ==
  /\ nextId \in 0..MaxPeers /\ moves \in 0..MaxMoves /\ clock \in 0..MaxClock
  /\ \A i \in DOMAIN peers : peers[i] \in Peer /\ peers[i].id < nextId /\ peers[i].at <= clock
  /\ Ordered(peers)
  /\ IsArray(file) /\ \A k \in DOMAIN file : file[k].live
  /\ noGeo \in [Requests -> BOOLEAN] /\ calm \in [Requests -> BOOLEAN]
  /\ settled \in BOOLEAN /\ excused \subseteq Addrs /\ restarted \in BOOLEAN
  /\ faults \in 0..MaxFaults

Words == Addrs \union {"New", "Unknown"}

RequestRanges(r) ==
  /\ \A i \in DOMAIN list[r] : list[r][i] \in Peer
  /\ Ordered(list[r])
  /\ IsArray(cache[r])
  /\ heard[r] \subseteq asked[r] /\ asked[r] \subseteq DOMAIN list[r]
  /\ DOMAIN shown[r] \subseteq DOMAIN list[r] /\ Range(shown[r]) \subseteq Words
  /\ pc[r] \in {"idle", "read", "ask"} => heard[r] = {} /\ shown[r] = <<>>
  /\ pc[r] \in {"idle", "read"} => cache[r] = Empty /\ asked[r] = {}
  /\ pc[r] = "write" => DOMAIN shown[r] = DOMAIN list[r] /\ \A k \in DOMAIN cache[r] : cache[r][k].live

Ranges == NodeRanges /\ \A r \in Requests : RequestRanges(r)

\* Until the node is restarted an id belongs to one address, wherever it turns up.
InList(s, id, ip)      == \E i \in DOMAIN s : s[i].id = id /\ s[i].ip = ip
InArray(array, id, ip) == id \in DOMAIN array /\ array[id].ip = ip
Owned(id, ip) ==
  \/ InList(peers, id, ip) \/ InArray(file, id, ip)
  \/ \E r \in Requests : InList(list[r], id, ip) \/ InArray(cache[r], id, ip)

OneOwner ==
  restarted \/ \A id \in Ids, ip, other \in Addrs :
                 Owned(id, ip) => id < nextId /\ (Owned(id, other) => ip = other)

ShownTheirs(r) ==
  restarted \/ \A i \in DOMAIN shown[r] :
    shown[r][i] \in {list[r][i].ip, "New", "Unknown"} \/ list[r][i].ip \in excused

\* What a request that gave up the file has is what it found itself, the oldest peer
\* first.
Working == {"ask", "show", "write"}

Afresh(r) ==
  pc[r] \in Working /\ noGeo[r] =>
    /\ \A k \in DOMAIN cache[r] :
         \E i \in DOMAIN shown[r] :
           list[r][i].id = k /\ list[r][i].ip = cache[r][k].ip /\ cache[r][k].live
    /\ list[r] # <<>> /\ list[r][1].id \in DOMAIN cache[r] =>
         \A k \in DOMAIN cache[r] : cache[r][list[r][1].id].pos <= cache[r][k].pos

\* For one that did not, the oldest peer stays the first of its address, and what is
\* marked is of a peer or came after the oldest.
Listed(r, k) ==
  \E i \in DOMAIN list[r] : list[r][i].ip = cache[r][k].ip \/ (restarted /\ list[r][i].id = k)

Following(r) ==
  pc[r] \in Working /\ ~noGeo[r] =>
    /\ list[r] # <<>> /\ list[r][1].id \in First(cache[r], list[r][1].ip)
    /\ cache[r][list[r][1].id].live
    /\ \A k \in DOMAIN cache[r] :
         cache[r][k].live => Listed(r, k) \/ cache[r][list[r][1].id].pos < cache[r][k].pos

\* What a request asked for is the node's peers, but for those that came since.
StandsStill(r) ==
  calm[r] =>
    /\ pc[r] # "idle"
    /\ \A i \in DOMAIN list[r] : i \in DOMAIN peers /\ peers[i] = list[r][i]
    /\ \A i \in DOMAIN peers \ DOMAIN list[r] : ~Old(peers[i])

\* It asks for what it does not know, and so has everything when it has been told.
Quiet(r) == calm[r] /\ ~restarted
Told(r)  == asked[r] = {} \/ heard[r] # {}

QuietKnows(r) ==
  Quiet(r) /\ pc[r] \in {"ask", "show"} =>
    \A i \in DOMAIN list[r] : Old(list[r][i]) => i \in asked[r] \/ Known(r, list[r][i].ip)

Located(r, i) ==
  IF noGeo[r] THEN list[r][i].id \in DOMAIN cache[r]
  ELSE \E k \in DOMAIN cache[r] : cache[r][k].live /\ cache[r][k].ip = list[r][i].ip

QuietLocates(r) ==
  Quiet(r) /\ pc[r] \in {"show", "write"} /\ Told(r) =>
    \A i \in DOMAIN shown[r] : Old(list[r][i]) => Located(r, i)

\* Once it has written, the file has everybody, the oldest first of its address.
SettledFile ==
  settled /\ ~restarted =>
    /\ \A i \in DOMAIN peers : Old(peers[i]) => Has(file, peers[i].ip)
    /\ peers # <<>> /\ Old(peers[1]) => peers[1].id \in First(file, peers[1].ip)

Progress(r) ==
  /\ ShownTheirs(r) /\ Afresh(r) /\ Following(r)
  /\ StandsStill(r) /\ QuietKnows(r) /\ QuietLocates(r)

JInv == Ranges /\ OneOwner /\ SettledFile /\ \A r \in Requests : Progress(r)

----------------------------------------------------------------------------
(* What the operations on an array do.                                     *)

LEMMA LastIsLast ==
  ASSUME NEW array, IsArray(array)
  PROVE  Last(array) \in Nat /\ \A k \in DOMAIN array : array[k].pos <= Last(array)
<1> DEFINE places == {array[k].pos : k \in DOMAIN array}
           pos    == [k \in DOMAIN array |-> array[k].pos]
<1>1. IsFiniteSet(DOMAIN array)
  <2>1. IsFiniteSet(Ids)
    BY BoundAssumption, FS_Interval DEF Ids
  <2> QED  BY <2>1, FS_Subset DEF IsArray
<1>2. pos \in Surjection(DOMAIN array, places)
  BY DEF Surjection
<1>3. IsFiniteSet(places)
  <2> HIDE DEF pos, places
  <2> QED  BY <1>1, <1>2, FS_Surjection
<1>4. places \subseteq Nat
  BY DEF IsArray, Entry
<1>5. IsFiniteSet(places \union {0})
  <2> HIDE DEF places
  <2> QED  BY <1>3, FS_AddElement
<1>6. Max(places \union {0}) \in Nat /\ \A n \in places : n <= Max(places \union {0})
  <2> HIDE DEF places
  <2> DEFINE all == places \union {0}
  <2>1. all \subseteq Nat /\ all # {} /\ IsFiniteSet(all)
    BY <1>4, <1>5
  <2> HIDE DEF all
  <2>2. Max(all) \in all /\ \A n \in all : n <= Max(all)
    BY <2>1, MaxIsThere
  <2> QED  BY <2>1, <2>2 DEF all
<1> QED  BY <1>6 DEF Last

\* An entry that is stored gets the last place, or keeps the place of its id.
LEMMA StoredArray ==
  ASSUME NEW array, IsArray(array), NEW p \in Peer, NEW geo \in Addrs,
         NEW new, new = Stored(array, p, geo)
  PROVE  /\ IsArray(new) /\ DOMAIN new = DOMAIN array \union {p.id}
         /\ \A k \in DOMAIN array : k # p.id => new[k] = array[k]
         /\ new[p.id].ip = p.ip /\ new[p.id].geo = geo /\ new[p.id].live
         /\ p.id \notin DOMAIN array => \A k \in DOMAIN array : array[k].pos < new[p.id].pos
         /\ p.id \in DOMAIN array => new[p.id].pos = array[p.id].pos
<1> DEFINE pos == IF p.id \in DOMAIN array THEN array[p.id].pos ELSE Last(array) + 1
<1>1. new = [k \in DOMAIN array \union {p.id} |->
               IF k = p.id THEN [ip |-> p.ip, geo |-> geo, live |-> TRUE, pos |-> pos] ELSE array[k]]
  BY DEF Stored
<1>2. /\ pos \in Nat
      /\ p.id \in DOMAIN array => pos = array[p.id].pos
      /\ p.id \notin DOMAIN array => \A k \in DOMAIN array : array[k].pos < pos
  BY LastIsLast DEF IsArray, Entry
<1> HIDE DEF pos
<1>3. p.id \in Ids /\ p.ip \in Addrs
  BY DEF Peer
<1>4. /\ DOMAIN new = DOMAIN array \union {p.id}
      /\ \A k \in DOMAIN array : k # p.id => new[k] = array[k]
      /\ new[p.id] = [ip |-> p.ip, geo |-> geo, live |-> TRUE, pos |-> pos]
  BY <1>1
<1>5. new[p.id] \in Entry
  BY <1>2, <1>3, <1>4 DEF Entry
<1>6. DOMAIN new \subseteq Ids /\ \A k \in DOMAIN new : new[k] \in Entry
  BY <1>3, <1>4, <1>5 DEF IsArray
<1>7. new[p.id].pos = pos
  BY <1>4
<1>8. \A k \in DOMAIN array : k # p.id => new[k].pos = array[k].pos /\ array[k].pos # pos
  BY <1>2, <1>4 DEF IsArray, Apart, Entry
<1>9. Apart(new)
  BY <1>4, <1>7, <1>8 DEF IsArray, Apart
<1> QED  BY <1>2, <1>4, <1>6, <1>7, <1>9 DEF IsArray

\* A change of marks changes nothing else.
SameButMarks(array, new) ==
  /\ DOMAIN new = DOMAIN array
  /\ \A k \in DOMAIN array :
       /\ new[k].ip = array[k].ip /\ new[k].geo = array[k].geo /\ new[k].pos = array[k].pos
       /\ new[k] \in Entry

LEMMA MarksChangeNothing ==
  ASSUME NEW array, IsArray(array), NEW new, SameButMarks(array, new)
  PROVE  IsArray(new) /\ \A ip : First(new, ip) = First(array, ip) /\ (Has(new, ip) <=> Has(array, ip))
BY DEF IsArray, Apart, SameButMarks, First, Has

LEMMA MarkedArray ==
  ASSUME NEW array, IsArray(array), NEW k \in DOMAIN array, NEW new, new = Marked(array, k)
  PROVE  /\ SameButMarks(array, new)
         /\ new[k].live /\ \A j \in DOMAIN array : j # k => new[j] = array[j]
<1>1. new = [array EXCEPT ![k] = [array[k] EXCEPT !.live = TRUE]]
  BY DEF Marked
<1>2. array[k] \in Entry /\ \A j \in DOMAIN array : array[j] \in Entry
  BY DEF IsArray
<1>3. DOMAIN new = DOMAIN array /\ \A j \in DOMAIN array : j # k => new[j] = array[j]
  BY <1>1
<1>4. new[k] = [array[k] EXCEPT !.live = TRUE]
  BY <1>1
<1>5. /\ new[k] \in Entry /\ new[k].live
      /\ new[k].ip = array[k].ip /\ new[k].geo = array[k].geo /\ new[k].pos = array[k].pos
  BY <1>2, <1>4 DEF Entry
<1> QED  BY <1>2, <1>3, <1>5 DEF SameButMarks

LEMMA UnmarkedArray ==
  ASSUME NEW r, IsArray(file), SameOldest(r)
  PROVE  /\ SameButMarks(file, Unmarked(r))
         /\ \A k \in DOMAIN file :
              Unmarked(r)[k] = IF file[k].pos < file[list[r][1].id].pos
                               THEN [file[k] EXCEPT !.live = FALSE] ELSE file[k]
<1>1. DOMAIN Unmarked(r) = DOMAIN file
  BY DEF Unmarked
<1>2. \A k \in DOMAIN file :
        Unmarked(r)[k] = IF file[k].pos < file[list[r][1].id].pos
                         THEN [file[k] EXCEPT !.live = FALSE] ELSE file[k]
  BY DEF Unmarked
<1>3. ASSUME NEW k \in DOMAIN file
      PROVE  /\ Unmarked(r)[k].ip = file[k].ip /\ Unmarked(r)[k].geo = file[k].geo
             /\ Unmarked(r)[k].pos = file[k].pos /\ Unmarked(r)[k] \in Entry
  <2>1. file[k] \in Entry
    BY DEF IsArray
  <2>2. CASE Unmarked(r)[k] = file[k]
    BY <2>1, <2>2
  <2>3. CASE Unmarked(r)[k] = [file[k] EXCEPT !.live = FALSE]
    BY <2>1, <2>3 DEF Entry
  <2> QED  BY <1>2, <2>2, <2>3
<1> QED  BY <1>1, <1>2, <1>3 DEF SameButMarks

LEMMA KeptArray ==
  ASSUME NEW array, IsArray(array), NEW new, new = Kept(array)
  PROVE  /\ IsArray(new) /\ DOMAIN new = {k \in DOMAIN array : array[k].live}
         /\ \A k \in DOMAIN new : new[k] = array[k]
BY DEF Kept, Restrict, IsArray, Apart

LEMMA EmptyArray == IsArray(Empty) /\ DOMAIN Empty = {}
BY DEF Empty, IsArray, Apart

----------------------------------------------------------------------------
(* Who owns an id, and the requests that a step leaves alone.              *)

LEMMA OwnersKept ==
  ASSUME OneOwner, restarted' = restarted, nextId' = nextId,
         \A id \in Ids, ip \in Addrs : Owned(id, ip)' => Owned(id, ip)
  PROVE  OneOwner'
BY DEF OneOwner

LEMMA ListedIsOwned ==
  ASSUME NEW r \in Requests, NEW i \in DOMAIN list[r]
  PROVE  Owned(list[r][i].id, list[r][i].ip)
BY DEF Owned, InList

LEMMA StoredIsOwned ==
  ASSUME NEW r \in Requests, NEW k \in DOMAIN cache[r]
  PROVE  Owned(k, cache[r][k].ip)
BY DEF Owned, InArray

\* Until a restart the entry of a peer's id is of the peer's address.
LEMMA EntryOfId ==
  ASSUME NEW r \in Requests, RequestRanges(r), OneOwner, ~restarted,
         NEW i \in DOMAIN list[r], list[r][i].id \in DOMAIN cache[r]
  PROVE  cache[r][list[r][i].id].ip = list[r][i].ip
<1> DEFINE id == list[r][i].id
<1>1. id \in Ids /\ list[r][i].ip \in Addrs /\ cache[r][id].ip \in Addrs
  BY DEF RequestRanges, Peer, IsArray, Entry
<1>2. Owned(id, list[r][i].ip) /\ Owned(id, cache[r][id].ip)
  BY ListedIsOwned, StoredIsOwned
<1> HIDE DEF id
<1> QED  BY <1>1, <1>2 DEF OneOwner, id

\* A step of r leaves the node alone, and the other requests.
Leaves(r) ==
  /\ UNCHANGED <<network, restarted>>
  /\ excused \subseteq excused' /\ excused' \subseteq Addrs
  /\ \A q \in Requests \ {r} :
       /\ pc'[q] = pc[q] /\ list'[q] = list[q] /\ cache'[q] = cache[q] /\ noGeo'[q] = noGeo[q]
       /\ asked'[q] = asked[q] /\ heard'[q] = heard[q] /\ shown'[q] = shown[q] /\ calm'[q] = calm[q]

LEMMA LeftAlone ==
  ASSUME NEW r \in Requests, NEW q \in Requests, q # r, Leaves(r), RequestRanges(q), Progress(q)
  PROVE  RequestRanges(q)' /\ Progress(q)'
<1>1. RequestRanges(q)'
  BY DEF Leaves, RequestRanges
<1>2. ShownTheirs(q)' /\ Afresh(q)'
  BY DEF Leaves, Progress, ShownTheirs, Afresh
<1>3. Following(q)'
  BY DEF Leaves, Progress, Following, Listed
<1>4. StandsStill(q)'
  BY DEF Leaves, Progress, StandsStill, network, Old
<1>5. QuietKnows(q)'
  BY DEF Leaves, Progress, QuietKnows, Quiet, Known, network, Old
<1>6. QuietLocates(q)'
  BY DEF Leaves, Progress, QuietLocates, Quiet, Told, Located, network, Old
<1> QED  BY <1>1, <1>2, <1>3, <1>4, <1>5, <1>6 DEF Progress

LEMMA OwnersLeft ==
  ASSUME NEW r \in Requests, OneOwner, Leaves(r),
         \A id \in Ids, ip \in Addrs :
           InList(list'[r], id, ip) \/ InArray(cache'[r], id, ip) \/ InArray(file', id, ip) =>
             Owned(id, ip)
  PROVE  OneOwner'
<1>1. ASSUME NEW id \in Ids, NEW ip \in Addrs, Owned(id, ip)' PROVE Owned(id, ip)
  <2>1. CASE InList(peers', id, ip)
    BY <2>1 DEF Owned, Leaves, network
  <2>2. CASE InArray(file', id, ip)
    BY <2>2
  <2>3. ASSUME NEW q \in Requests, InList(list'[q], id, ip) \/ InArray(cache'[q], id, ip)
        PROVE  Owned(id, ip)
    BY <2>3 DEF Owned, Leaves
  <2> QED  BY <1>1, <2>1, <2>2, <2>3 DEF Owned
<1> QED  BY <1>1, OwnersKept DEF Leaves, network

\* So a step of r has to show this.
LEMMA RequestStep ==
  ASSUME NEW r \in Requests, JInv, Leaves(r), NodeRanges', RequestRanges(r)', Progress(r)',
         SettledFile',
         \A id \in Ids, ip \in Addrs :
           InList(list'[r], id, ip) \/ InArray(cache'[r], id, ip) \/ InArray(file', id, ip) =>
             Owned(id, ip)
  PROVE  JInv'
<1>1. OneOwner'
  BY OwnersLeft DEF JInv
<1>2. ASSUME NEW q \in Requests PROVE RequestRanges(q)' /\ Progress(q)'
  BY <1>2, LeftAlone DEF JInv, Ranges
<1> QED  BY <1>1, <1>2 DEF JInv, Ranges

\* If the node and the file are as they were, the file still has everybody.
LEMMA SettledKept ==
  ASSUME SettledFile, UNCHANGED <<peers, clock, file, settled, restarted>>
  PROVE  SettledFile'
BY DEF SettledFile, Old

----------------------------------------------------------------------------
(* The node and the time.                                                  *)

LEMMA InitJInv == Init => JInv
<1> SUFFICES ASSUME Init PROVE JInv
  OBVIOUS
<1> USE BoundAssumption
<1>1. IsArray(file) /\ \A k \in DOMAIN file : file[k].live
  <2>1. CASE file = Empty
    BY <2>1, EmptyArray
  <2>2. CASE file \in Earlier
    BY <2>2, EarlierAssumption DEF IsArray, Apart
  <2> QED  BY <2>1, <2>2 DEF Init
<1>2. NodeRanges
  <2>1. nextId \in 0..MaxPeers /\ moves \in 0..MaxMoves /\ clock \in 0..MaxClock /\ faults \in 0..MaxFaults
    BY DEF Init
  <2>2. peers = <<>> /\ Ordered(<<>>)
    BY DEF Init, Ordered
  <2>3. /\ noGeo \in [Requests -> BOOLEAN] /\ calm \in [Requests -> BOOLEAN]
        /\ settled \in BOOLEAN /\ excused \subseteq Addrs
    BY DEF Init
  <2>4. restarted \in BOOLEAN
    BY DEF Init
  <2> QED  BY <1>1, <2>1, <2>2, <2>3, <2>4 DEF NodeRanges
<1>3. ASSUME NEW r \in Requests PROVE RequestRanges(r)
  <2>1. /\ pc[r] = "idle" /\ list[r] = <<>> /\ cache[r] = Empty
        /\ asked[r] = {} /\ heard[r] = {} /\ shown[r] = <<>>
    BY DEF Init
  <2>2. Ordered(<<>>) /\ Range(<<>>) = {}
    BY DEF Ordered, Range
  <2> QED  BY <2>1, <2>2, EmptyArray DEF RequestRanges
<1>4. OneOwner
  <2>1. CASE restarted
    BY <2>1 DEF OneOwner
  <2>2. CASE file = Empty
    <3>1. DOMAIN peers = {} /\ DOMAIN file = {}
      BY <2>2, EmptyArray DEF Init
    <3>2. \A r \in Requests : DOMAIN list[r] = {} /\ DOMAIN cache[r] = {}
      BY EmptyArray DEF Init
    <3>3. \A id \in Ids, ip \in Addrs : ~Owned(id, ip)
      BY <3>1, <3>2 DEF Owned, InList, InArray
    <3> QED  BY <3>3 DEF OneOwner
  <2> QED  BY <2>1, <2>2 DEF Init
<1>5. SettledFile /\ \A r \in Requests : Progress(r)
  BY DEF Init, SettledFile, Progress, ShownTheirs, Afresh, Following, StandsStill, QuietKnows,
         QuietLocates, Quiet, Working
<1> QED  BY <1>2, <1>3, <1>4, <1>5 DEF JInv, Ranges

\* What a step of the node has to show.
LEMMA NodeStep ==
  ASSUME JInv, UNCHANGED <<file, local>>, restarted => restarted', excused \subseteq excused',
         NodeRanges', OneOwner', SettledFile',
         \A q \in Requests : calm'[q] => calm[q] /\ StandsStill(q)',
         \A q \in Requests : \A i \in DOMAIN list[q] :
           calm'[q] => Old(list[q][i])' = Old(list[q][i])
  PROVE  JInv'
<1>1. ASSUME NEW q \in Requests PROVE RequestRanges(q)' /\ Progress(q)'
  <2>1. RequestRanges(q)'
    BY DEF local, JInv, Ranges, RequestRanges
  <2>2. ShownTheirs(q)' /\ Afresh(q)'
    BY DEF local, JInv, Progress, ShownTheirs, Afresh
  <2>3. Following(q)'
    BY DEF local, JInv, Progress, Following, Listed
  <2>4. StandsStill(q)'
    BY DEF StandsStill
  <2>5. CASE ~calm'[q]
    BY <2>1, <2>2, <2>3, <2>4, <2>5 DEF Progress, QuietKnows, QuietLocates, Quiet
  <2>6. CASE calm'[q]
    <3>1. calm[q] /\ (Quiet(q)' => Quiet(q))
      BY <2>6 DEF Quiet
    <3>2. \A i \in DOMAIN list[q] : Old(list[q][i])' = Old(list[q][i])
      BY <2>6
    <3>3. DOMAIN shown[q] \subseteq DOMAIN list[q]
      BY DEF JInv, Ranges, RequestRanges
    <3>4. QuietKnows(q)'
      BY <3>1, <3>2 DEF local, JInv, Progress, QuietKnows, Known
    <3>5. QuietLocates(q)'
      BY <3>1, <3>2, <3>3 DEF local, JInv, Progress, QuietLocates, Told, Located
    <3> QED  BY <2>1, <2>2, <2>3, <2>4, <3>4, <3>5 DEF Progress
  <2> QED  BY <2>5, <2>6
<1> QED  BY <1>1 DEF JInv, Ranges

LEMMA PeersIsSeq ==
  ASSUME IInv
  PROVE  Len(peers) \in Nat /\ DOMAIN peers = 1..Len(peers) /\ (peers = <<>> <=> Len(peers) = 0)
BY LenProperties, EmptySeq DEF IInv, NodeOK

LEMMA ConnectJ == ASSUME IInv, JInv, NEW a \in Addrs, Connect(a) PROVE JInv'
<1> DEFINE p == [id |-> nextId, ip |-> a, at |-> clock]
<1>1. /\ nextId < MaxPeers /\ moves < MaxMoves /\ nextId' = nextId + 1 /\ moves' = moves + 1
      /\ peers' = Append(peers, p)
      /\ UNCHANGED <<clock, file, local, excused, calm, settled, restarted, faults>>
  BY DEF Connect, history
<1>2. nextId \in 0..MaxPeers /\ moves \in 0..MaxMoves /\ clock \in 0..MaxClock
      /\ MaxPeers \in Nat /\ MaxMoves \in Nat /\ MaxClock \in Nat
  BY BoundAssumption DEF JInv, Ranges, NodeRanges
<1>3. p \in Peer /\ nextId' \in 0..MaxPeers /\ moves' \in 0..MaxMoves
  BY <1>1, <1>2 DEF Peer, Ids
<1>4. /\ DOMAIN peers' = 1..(Len(peers) + 1) /\ Len(peers) \in Nat /\ DOMAIN peers = 1..Len(peers)
      /\ \A i \in DOMAIN peers : peers'[i] = peers[i]
      /\ peers'[Len(peers) + 1] = p
  BY <1>1, PeersIsSeq DEF IInv, NodeOK
<1>5. p.id = nextId /\ p.ip = a /\ p.at = clock
  OBVIOUS
<1> HIDE DEF p
<1>6. \A i \in DOMAIN peers : peers[i] \in Peer /\ peers[i].id < nextId /\ peers[i].at <= clock
                              /\ peers[i].id \in Nat /\ peers[i].at \in Nat
  BY DEF JInv, Ranges, NodeRanges, Peer, Ids
<1>7. NodeRanges'
  <2>1. \A i \in DOMAIN peers' : /\ peers'[i] \in Peer /\ peers'[i].id < nextId' /\ peers'[i].at <= clock'
    <3> SUFFICES ASSUME NEW i \in DOMAIN peers'
                 PROVE  peers'[i] \in Peer /\ peers'[i].id < nextId' /\ peers'[i].at <= clock'
      OBVIOUS
    <3>1. CASE i \in DOMAIN peers
      BY <1>1, <1>2, <1>4, <1>6, <3>1
    <3>2. CASE i = Len(peers) + 1
      BY <1>1, <1>2, <1>3, <1>4, <1>5, <3>2
    <3> QED  BY <1>4, <3>1, <3>2
  <2>2. Ordered(peers')
    <3> SUFFICES ASSUME NEW i \in DOMAIN peers', NEW j \in DOMAIN peers', i < j
                 PROVE  peers'[i].id < peers'[j].id /\ peers'[i].at <= peers'[j].at
      BY DEF Ordered
    <3>1. i \in DOMAIN peers
      BY <1>4
    <3>2. CASE j \in DOMAIN peers
      BY <1>4, <3>1, <3>2 DEF JInv, Ranges, NodeRanges, Ordered
    <3>3. CASE j = Len(peers) + 1
      BY <1>4, <1>5, <1>6, <3>1, <3>3
    <3> QED  BY <1>4, <3>2, <3>3
  <2> QED  BY <1>1, <1>3, <2>1, <2>2 DEF JInv, Ranges, NodeRanges, local
<1>8. OneOwner'
  <2> SUFFICES ASSUME ~restarted, NEW id \in Ids, NEW ip \in Addrs, NEW other \in Addrs, Owned(id, ip)'
               PROVE  id < nextId' /\ (Owned(id, other)' => ip = other)
    BY <1>1 DEF OneOwner
  <2>1. \A x \in Addrs : Owned(id, x)' => Owned(id, x) \/ (id = nextId /\ x = a)
    BY <1>1, <1>4, <1>5 DEF Owned, InList, local
  <2>2. \A x \in Addrs : Owned(id, x) => id < nextId
    BY DEF JInv, OneOwner
  <2>3. id \in Nat /\ nextId \in Nat
    BY <1>2 DEF Ids
  <2>4. \A x, y \in Addrs : Owned(id, x) /\ Owned(id, y) => x = y
    BY DEF JInv, OneOwner
  <2> QED  BY <1>1, <2>1, <2>2, <2>3, <2>4
<1>9. ~Old(p)
  BY <1>2, <1>5 DEF Old
<1>10. SettledFile'
  <2> SUFFICES ASSUME settled, ~restarted
               PROVE  /\ \A i \in DOMAIN peers' : Old(peers'[i]) => Has(file, peers'[i].ip)
                      /\ peers' # <<>> /\ Old(peers'[1]) => peers'[1].id \in First(file, peers'[1].ip)
    BY <1>1 DEF SettledFile, Old
  <2>1. \A i \in DOMAIN peers' : Old(peers'[i]) => i \in DOMAIN peers
    BY <1>4, <1>9
  <2>2. 1 \in DOMAIN peers' /\ (1 \in DOMAIN peers => peers # <<>>)
    BY <1>4
  <2> QED  BY <1>4, <2>1, <2>2 DEF JInv, SettledFile
<1>11. ASSUME NEW q \in Requests, calm'[q] PROVE calm[q] /\ StandsStill(q)'
  <2>1. calm[q] /\ StandsStill(q)
    BY <1>1, <1>11 DEF JInv, Progress
  <2>2. \A i \in DOMAIN peers' : i \in DOMAIN peers \/ ~Old(peers'[i])
    BY <1>4, <1>9
  <2> QED  BY <1>1, <1>4, <2>1, <2>2 DEF StandsStill, local, Old
<1>12. \A q \in Requests : \A i \in DOMAIN list[q] : Old(list[q][i])' = Old(list[q][i])
  BY <1>1 DEF Old, local
<1> QED  BY <1>1, <1>7, <1>8, <1>10, <1>11, <1>12, NodeStep

LEMMA DisconnectJ ==
  ASSUME IInv, JInv, NEW x \in DOMAIN peers, Disconnect(x)
  PROVE  JInv'
<1>1. /\ moves < MaxMoves /\ moves' = moves + 1
      /\ peers' = [j \in 1..(Len(peers) - 1) |-> IF j < x THEN peers[j] ELSE peers[j + 1]]
      /\ settled' = (settled /\ x # 1) /\ calm' = [r \in Requests |-> FALSE]
      /\ UNCHANGED <<nextId, clock, file, local, excused, restarted, faults>>
  BY DEF Disconnect
<1>2. Len(peers) \in Nat /\ DOMAIN peers = 1..Len(peers) /\ x \in 1..Len(peers)
  BY PeersIsSeq
<1> DEFINE was(j) == IF j < x THEN j ELSE j + 1
<1>3. /\ DOMAIN peers' = 1..(Len(peers) - 1)
      /\ \A j \in DOMAIN peers' : peers'[j] = peers[was(j)]
  BY <1>1
<1>4. /\ \A j \in DOMAIN peers' : was(j) \in DOMAIN peers
      /\ \A i, j \in DOMAIN peers' : i < j => was(i) < was(j)
      /\ x # 1 => was(1) = 1
  BY <1>2, <1>3
<1> HIDE DEF was
<1>5. NodeRanges'
  <2>1. moves' \in 0..MaxMoves
    BY <1>1, BoundAssumption DEF JInv, Ranges, NodeRanges
  <2>2. \A i \in DOMAIN peers' : peers'[i] \in Peer /\ peers'[i].id < nextId' /\ peers'[i].at <= clock'
    BY <1>1, <1>3, <1>4 DEF JInv, Ranges, NodeRanges
  <2>3. Ordered(peers')
    BY <1>3, <1>4 DEF JInv, Ranges, NodeRanges, Ordered
  <2>4. settled' \in BOOLEAN /\ calm' \in [Requests -> BOOLEAN]
    BY <1>1
  <2> QED  BY <1>1, <2>1, <2>2, <2>3, <2>4 DEF JInv, Ranges, NodeRanges, local
<1>6. OneOwner'
  <2>1. \A id \in Ids, ip \in Addrs : Owned(id, ip)' => Owned(id, ip)
    BY <1>1, <1>3, <1>4 DEF Owned, InList, local
  <2> QED  BY <1>1, <2>1, OwnersKept DEF JInv
<1>7. SettledFile'
  <2> SUFFICES ASSUME settled, x # 1, ~restarted
               PROVE  /\ \A i \in DOMAIN peers' : Old(peers'[i]) => Has(file, peers'[i].ip)
                      /\ peers' # <<>> /\ Old(peers'[1]) => peers'[1].id \in First(file, peers'[1].ip)
    BY <1>1 DEF SettledFile, Old
  <2>1. \A i \in DOMAIN peers' : Old(peers'[i]) => Has(file, peers'[i].ip)
    BY <1>3, <1>4 DEF JInv, SettledFile
  <2>2. 1 \in DOMAIN peers' /\ peers # <<>>
    BY <1>2, <1>3
  <2>3. peers'[1] = peers[1]
    BY <1>3, <1>4, <2>2
  <2> QED  BY <2>1, <2>2, <2>3 DEF JInv, SettledFile
<1>8. \A q \in Requests : ~calm'[q]
  BY <1>1
<1> QED  BY <1>1, <1>5, <1>6, <1>7, <1>8, NodeStep

LEMMA RestartJ == ASSUME IInv, JInv, Restart PROVE JInv'
<1>1. /\ faults < MaxFaults /\ faults' = faults + 1 /\ restarted' = TRUE
      /\ peers' = <<>> /\ nextId' = 0
      /\ settled' = FALSE /\ calm' = [r \in Requests |-> FALSE]
      /\ UNCHANGED <<moves, clock, file, local, excused>>
  BY DEF Restart, Fault, Disturb
<1>2. NodeRanges'
  <2>1. nextId' \in 0..MaxPeers /\ faults' \in 0..MaxFaults
    BY <1>1, BoundAssumption DEF JInv, Ranges, NodeRanges
  <2>2. Ordered(<<>>)
    BY DEF Ordered
  <2>3. settled' \in BOOLEAN /\ restarted' \in BOOLEAN /\ calm' \in [Requests -> BOOLEAN]
    BY <1>1
  <2> QED  BY <1>1, <2>1, <2>2, <2>3 DEF JInv, Ranges, NodeRanges, local
<1>3. OneOwner' /\ SettledFile'
  BY <1>1 DEF OneOwner, SettledFile
<1>4. \A q \in Requests : ~calm'[q]
  BY <1>1
<1> QED  BY <1>1, <1>2, <1>3, <1>4, NodeStep

LEMMA TickJ == ASSUME IInv, JInv, Tick PROVE JInv'
<1>1. /\ clock < MaxClock /\ clock' = clock + 1
      /\ IF \E i \in DOMAIN peers : peers[i].at = clock THEN Disturb ELSE UNCHANGED <<settled, calm>>
      /\ excused' = excused \union UNION {{list[r][i].ip : i \in Ripened(r)} : r \in Requests}
      /\ UNCHANGED <<peers, nextId, moves, file, local, restarted, faults>>
  BY DEF Tick
<1>2. excused' \subseteq Addrs
  <2>1. \A r \in Requests : \A i \in Ripened(r) : list[r][i].ip \in Addrs
    BY DEF Ripened, PassedOver, JInv, Ranges, RequestRanges, Peer
  <2> QED  BY <1>1, <2>1 DEF JInv, Ranges, NodeRanges
<1>3. clock \in Nat /\ MaxClock \in Nat /\ \A i \in DOMAIN peers : peers[i].at \in Nat
  BY BoundAssumption DEF JInv, Ranges, NodeRanges, Peer
<1>4. settled' \in {settled, FALSE} /\ calm' \in {calm, [r \in Requests |-> FALSE]}
  BY <1>1 DEF Disturb
<1>5. NodeRanges'
  <2>1. clock' \in 0..MaxClock
    BY <1>1, <1>3
  <2>2. \A i \in DOMAIN peers : peers[i].at <= clock'
    BY <1>1, <1>3 DEF JInv, Ranges, NodeRanges
  <2>3. settled' \in BOOLEAN /\ calm' \in [Requests -> BOOLEAN]
    BY <1>4 DEF JInv, Ranges, NodeRanges
  <2> QED  BY <1>1, <1>2, <2>1, <2>2, <2>3 DEF JInv, Ranges, NodeRanges, local
<1>6. OneOwner'
  BY <1>1, OwnersKept DEF JInv, Owned, InList, local
<1>7. CASE \E i \in DOMAIN peers : peers[i].at = clock
  <2>1. settled' = FALSE /\ calm' = [r \in Requests |-> FALSE]
    BY <1>1, <1>7 DEF Disturb
  <2>2. SettledFile' /\ \A q \in Requests : ~calm'[q]
    BY <2>1 DEF SettledFile
  <2> QED  BY <1>1, <1>5, <1>6, <2>2, NodeStep
<1>8. CASE ~\E i \in DOMAIN peers : peers[i].at = clock
  <2>1. UNCHANGED <<settled, calm>>
    BY <1>1, <1>8
  <2>2. \A i \in DOMAIN peers : Old(peers[i])' = Old(peers[i])
    <3> SUFFICES ASSUME NEW i \in DOMAIN peers PROVE Old(peers[i])' = Old(peers[i])
      OBVIOUS
    <3>1. peers[i].at # clock /\ peers'[i] = peers[i]
      BY <1>1, <1>8
    <3> QED  BY <1>1, <1>3, <3>1 DEF Old
  <2>3. SettledFile'
    BY <1>1, <2>1, <2>2 DEF JInv, SettledFile
  <2>4. ASSUME NEW q \in Requests, calm'[q]
        PROVE  /\ calm[q] /\ StandsStill(q)'
               /\ \A i \in DOMAIN list[q] : Old(list[q][i])' = Old(list[q][i])
    <3>1. calm[q] /\ StandsStill(q) /\ list'[q] = list[q] /\ pc'[q] = pc[q]
      BY <1>1, <2>1, <2>4 DEF JInv, Progress, local
    <3>2. \A i \in DOMAIN list[q] : i \in DOMAIN peers /\ peers[i] = list[q][i]
      BY <3>1 DEF StandsStill
    <3>3. \A i \in DOMAIN list[q] : Old(list[q][i])' = Old(list[q][i])
      BY <1>1, <2>2, <3>1, <3>2
    <3>4. StandsStill(q)'
      BY <1>1, <2>2, <3>1 DEF StandsStill
    <3> QED  BY <3>1, <3>3, <3>4
  <2> QED  BY <1>1, <1>5, <1>6, <2>3, <2>4, NodeStep
<1> QED  BY <1>7, <1>8

----------------------------------------------------------------------------
(* The steps of a request.                                                 *)

LEMMA GetPeersJ == ASSUME IInv, JInv, NEW r \in Requests, GetPeers(r) PROVE JInv'
<1>1. /\ pc[r] = "idle" /\ pc' = [pc EXCEPT ![r] = "read"]
      /\ list' = [list EXCEPT ![r] = peers] /\ calm' = [calm EXCEPT ![r] = TRUE]
      /\ UNCHANGED <<network, file, cache, noGeo, asked, heard, shown, settled, excused,
                     restarted, faults>>
  BY DEF GetPeers, Goto
<1>2. pc'[r] = "read" /\ list'[r] = peers /\ calm'[r]
  BY <1>1 DEF IInv, RequestsOK, JInv, Ranges, NodeRanges
<1>3. Leaves(r)
  BY <1>1 DEF Leaves, IInv, RequestsOK, JInv, Ranges, NodeRanges
<1>4. NodeRanges'
  BY <1>1 DEF network, JInv, Ranges, NodeRanges
<1>5. cache'[r] = Empty /\ asked'[r] = {} /\ heard'[r] = {} /\ shown'[r] = <<>>
  BY <1>1 DEF JInv, Ranges, RequestRanges
<1>6. RequestRanges(r)'
  <2>1. Ordered(peers) /\ \A i \in DOMAIN peers : peers[i] \in Peer
    BY DEF JInv, Ranges, NodeRanges
  <2>2. Range(<<>>) = {}
    BY DEF Range
  <2> QED  BY <1>2, <1>5, <2>1, <2>2, EmptyArray DEF RequestRanges
<1>7. StandsStill(r)'
  BY <1>1, <1>2 DEF StandsStill, network
<1>8. Progress(r)'
  BY <1>2, <1>5, <1>7 DEF Progress, ShownTheirs, Afresh, Following, QuietKnows, QuietLocates, Working
<1>9. SettledFile'
  BY <1>1, SettledKept DEF network, JInv
<1>10. ASSUME NEW id \in Ids, NEW ip \in Addrs,
              InList(list'[r], id, ip) \/ InArray(cache'[r], id, ip) \/ InArray(file', id, ip)
       PROVE  Owned(id, ip)
  BY <1>1, <1>2, <1>10 DEF Owned
<1> QED  BY <1>3, <1>4, <1>6, <1>8, <1>9, <1>10, RequestStep

LEMMA ReadFileJ == ASSUME IInv, JInv, NEW r \in Requests, ReadFile(r) PROVE JInv'
<1>1. /\ pc[r] = "read"
      /\ noGeo' = [noGeo EXCEPT ![r] = ~SameOldest(r)]
      /\ cache' = [cache EXCEPT ![r] = IF SameOldest(r) THEN Unmarked(r) ELSE Empty]
      /\ asked' = [asked EXCEPT ![r] = {i \in DOMAIN list[r] :
                       Old(list[r][i]) /\ ~Has(cache'[r], list[r][i].ip)}]
      /\ pc' = [pc EXCEPT ![r] = IF asked'[r] = {} THEN "show" ELSE "ask"]
      /\ UNCHANGED <<network, file, list, heard, shown, calm, settled, excused, restarted, faults>>
  BY DEF ReadFile, Goto, history
<1> DEFINE c == cache'[r]
<1>2. /\ pc'[r] \in {"show", "ask"} /\ noGeo'[r] = ~SameOldest(r)
      /\ c = (IF SameOldest(r) THEN Unmarked(r) ELSE Empty)
      /\ asked'[r] = {i \in DOMAIN list[r] : Old(list[r][i]) /\ ~Has(c, list[r][i].ip)}
  BY <1>1 DEF IInv, RequestsOK, JInv, Ranges, NodeRanges
<1> HIDE DEF c
<1>3. Leaves(r)
  BY <1>1 DEF Leaves, IInv, RequestsOK, JInv, Ranges, NodeRanges
<1>4. NodeRanges'
  BY <1>1 DEF network, JInv, Ranges, NodeRanges
<1>5. heard'[r] = {} /\ shown'[r] = <<>> /\ list'[r] = list[r] /\ calm'[r] = calm[r]
  BY <1>1 DEF JInv, Ranges, RequestRanges
<1>6. IsArray(file) /\ \A k \in DOMAIN file : file[k].live
  BY DEF JInv, Ranges, NodeRanges
<1>7. ASSUME SameOldest(r)
      PROVE  /\ SameButMarks(file, c) /\ IsArray(c)
             /\ \A k \in DOMAIN file :
                  c[k] = IF file[k].pos < file[list[r][1].id].pos
                         THEN [file[k] EXCEPT !.live = FALSE] ELSE file[k]
  BY <1>2, <1>6, <1>7, UnmarkedArray, MarksChangeNothing
<1>8. IsArray(c)
  BY <1>2, <1>7, EmptyArray
<1>9. RequestRanges(r)'
  <2>1. Range(<<>>) = {}
    BY DEF Range
  <2>2. asked'[r] \subseteq DOMAIN list[r]
    BY <1>2
  <2> QED  BY <1>2, <1>5, <1>8, <2>1, <2>2 DEF RequestRanges, JInv, Ranges, c
<1>10. Afresh(r)'
  BY <1>2, <1>5, EmptyArray DEF Afresh, c
<1>11. Following(r)'
  <2> SUFFICES ASSUME SameOldest(r)
               PROVE  /\ list[r] # <<>> /\ list[r][1].id \in First(c, list[r][1].ip)
                      /\ c[list[r][1].id].live
                      /\ \A k \in DOMAIN c :
                           c[k].live => Listed(r, k)' \/ c[list[r][1].id].pos < c[k].pos
    BY <1>2, <1>5 DEF Following, c
  <2> DEFINE o == list[r][1].id
  <2>1. list[r] # <<>> /\ o \in First(file, list[r][1].ip) /\ o \in DOMAIN file
    BY DEF SameOldest, First
  <2>2. o \in First(c, list[r][1].ip)
    BY <1>6, <1>7, <2>1, MarksChangeNothing
  <2>3. \A k \in DOMAIN file : file[k].pos \in Nat /\ file[k] \in Entry
    BY <1>6 DEF IsArray, Entry
  <2>4. c[o].live
    <3>1. c[o] = IF file[o].pos < file[o].pos THEN [file[o] EXCEPT !.live = FALSE] ELSE file[o]
      BY <1>7, <2>1, Zenon
    <3>2. ~(file[o].pos < file[o].pos)
      BY <2>1, <2>3
    <3> QED  BY <1>6, <2>1, <3>1, <3>2
  <2>5. ASSUME NEW k \in DOMAIN c, c[k].live
        PROVE  Listed(r, k)' \/ c[o].pos < c[k].pos
    <3>1. k \in DOMAIN file /\ c[k].pos = file[k].pos /\ c[o].pos = file[o].pos /\ o \in DOMAIN c
      BY <1>7, <2>1, <2>5 DEF SameButMarks
    <3>2. ~(file[k].pos < file[o].pos)
      <4>1. ASSUME c[k] = [file[k] EXCEPT !.live = FALSE] PROVE FALSE
        BY <2>3, <2>5, <3>1, <4>1 DEF Entry
      <4> QED  BY <1>7, <3>1, <4>1
    <3>3. CASE k = o
      <4>1. c[k].ip = list[r][1].ip
        BY <2>2, <3>3 DEF First
      <4>2. 1 \in DOMAIN list[r]
        BY <2>1, LenProperties, EmptySeq DEF IInv, RequestsOK
      <4> QED  BY <1>5, <4>1, <4>2 DEF Listed, c
    <3>4. CASE k # o
      <4>1. file[k].pos # file[o].pos
        BY <1>6, <2>1, <3>1, <3>4 DEF IsArray, Apart
      <4> QED  BY <2>1, <2>3, <3>1, <3>2, <4>1
    <3> QED  BY <3>3, <3>4
  <2> QED  BY <2>1, <2>2, <2>4, <2>5
<1>12. StandsStill(r)'
  BY <1>1, <1>2, <1>5 DEF JInv, Progress, StandsStill, network, Old
<1>13. QuietKnows(r)'
  <2> SUFFICES ASSUME NEW i \in DOMAIN list[r], Old(list[r][i])
               PROVE  i \in asked'[r] \/ Known(r, list[r][i].ip)'
    BY <1>1, <1>5 DEF QuietKnows, Old, network
  <2>1. i \in asked'[r] \/ Has(c, list[r][i].ip)
    BY <1>2
  <2>2. ~Has(Empty, list[r][i].ip)
    BY EmptyArray DEF Has
  <2> QED  BY <1>2, <1>5, <2>1, <2>2 DEF Known, c
<1>14. ShownTheirs(r)' /\ QuietLocates(r)'
  BY <1>5 DEF ShownTheirs, QuietLocates
<1>15. Progress(r)'
  BY <1>10, <1>11, <1>12, <1>13, <1>14 DEF Progress
<1>16. SettledFile'
  BY <1>1, SettledKept DEF network, JInv
<1>17. ASSUME NEW id \in Ids, NEW ip \in Addrs,
              InList(list'[r], id, ip) \/ InArray(c, id, ip) \/ InArray(file', id, ip)
       PROVE  Owned(id, ip)
  <2>1. InArray(c, id, ip) => InArray(file, id, ip)
    BY <1>2, <1>7, EmptyArray DEF InArray, SameButMarks
  <2> QED  BY <1>1, <1>5, <1>17, <2>1 DEF Owned
<1> QED  BY <1>3, <1>4, <1>9, <1>15, <1>16, <1>17, RequestStep DEF c

LEMMA BatchesAreFinite ==
  ASSUME IInv, NEW r \in Requests, asked[r] \subseteq DOMAIN list[r]
  PROVE  IsFiniteSet(Batches(r))
<1> DEFINE called == {j \in asked[r] : Place(r, j) < MaxLookups}
           batch  == [j \in called |-> Batch(r, j)]
<1>1. DOMAIN list[r] = 1..Len(list[r]) /\ Len(list[r]) \in Nat
  BY LenProperties DEF IInv, RequestsOK
<1>2. called \subseteq 1..Len(list[r])
  BY <1>1
<1>3. batch \in Surjection(called, Batches(r))
  <2>1. Batches(r) = {Batch(r, j) : j \in called}
    BY DEF Batches
  <2> HIDE DEF called
  <2>2. \A j \in called : batch[j] = Batch(r, j)
    OBVIOUS
  <2>3. DOMAIN batch = called /\ batch = [j \in called |-> batch[j]]
    OBVIOUS
  <2> HIDE DEF batch
  <2>4. \A b \in Batches(r) : \E j \in called : batch[j] = b
    BY <2>1, <2>2, Zenon
  <2>5. \A j \in called : batch[j] \in Batches(r)
    BY <2>1, <2>2, Zenon
  <2>6. batch \in [called -> Batches(r)]
    BY <2>3, <2>5, Zenon
  <2> QED  BY <2>4, <2>6, Zenon DEF Surjection
<1> HIDE DEF called, batch
<1>4. IsFiniteSet(called)
  <2>1. IsFiniteSet(1..Len(list[r]))
    BY <1>1, FS_Interval
  <2> QED  BY <1>2, <2>1, FS_Subset, Zenon
<1> QED  BY <1>3, <1>4, FS_Surjection

LEMMA AskJ == ASSUME IInv, JInv, NEW r \in Requests, Ask(r) PROVE JInv'
<1>1. PICK late \in SUBSET Batches(r) :
        /\ pc[r] = "ask" /\ pc' = [pc EXCEPT ![r] = "show"]
        /\ faults + Cardinality(late) <= MaxFaults
        /\ faults' = faults + Cardinality(late)
        /\ heard' = [heard EXCEPT ![r] =
                       {i \in asked[r] : Place(r, i) < MaxLookups /\ Batch(r, i) \notin late}]
        /\ excused' = excused \union {list[r][i].ip : i \in asked[r] \ heard'[r]}
        /\ UNCHANGED <<network, file, list, cache, noGeo, asked, shown, calm, settled, restarted>>
  BY DEF Ask, Goto
<1>2. pc'[r] = "show" /\ heard'[r] \subseteq asked[r]
  BY <1>1 DEF IInv, RequestsOK
<1>3. shown'[r] = <<>> /\ list'[r] = list[r] /\ cache'[r] = cache[r] /\ noGeo'[r] = noGeo[r]
      /\ asked'[r] = asked[r] /\ calm'[r] = calm[r]
  BY <1>1 DEF JInv, Ranges, RequestRanges
<1>4. faults' \in 0..MaxFaults
  <2>1. asked[r] \subseteq DOMAIN list[r]
    BY DEF JInv, Ranges, RequestRanges
  <2>2. Cardinality(late) \in Nat
    BY <2>1, BatchesAreFinite, FS_Subset, FS_CardinalityType
  <2> QED  BY <1>1, <2>2, BoundAssumption DEF JInv, Ranges, NodeRanges
<1>5. excused' \subseteq Addrs
  <2>1. \A i \in asked[r] : list[r][i].ip \in Addrs
    BY DEF JInv, Ranges, RequestRanges, Peer
  <2> QED  BY <1>1, <2>1 DEF JInv, Ranges, NodeRanges
<1>6. Leaves(r)
  BY <1>1, <1>5 DEF Leaves, IInv, RequestsOK
<1>7. NodeRanges'
  BY <1>1, <1>4, <1>5 DEF network, JInv, Ranges, NodeRanges
<1>8. RequestRanges(r)'
  BY <1>1, <1>2, <1>3 DEF RequestRanges, JInv, Ranges
<1>9. Afresh(r)' /\ Following(r)'
  BY <1>1, <1>2, <1>3 DEF JInv, Progress, Afresh, Following, Listed, Working
<1>10. StandsStill(r)'
  BY <1>1, <1>2, <1>3 DEF JInv, Progress, StandsStill, network, Old
<1>11. QuietKnows(r)'
  BY <1>1, <1>3 DEF JInv, Progress, QuietKnows, Quiet, Known, network, Old
<1>12. Progress(r)'
  BY <1>3, <1>9, <1>10, <1>11 DEF Progress, ShownTheirs, QuietLocates
<1>13. SettledFile'
  BY <1>1, SettledKept DEF network, JInv
<1>14. ASSUME NEW id \in Ids, NEW ip \in Addrs,
              InList(list'[r], id, ip) \/ InArray(cache'[r], id, ip) \/ InArray(file', id, ip)
       PROVE  Owned(id, ip)
  BY <1>1, <1>3, <1>14 DEF Owned
<1> QED  BY <1>6, <1>7, <1>8, <1>12, <1>13, <1>14, RequestStep

\* Where the second pass is.
LEMMA LookingAt ==
  ASSUME IInv, JInv, NEW r \in Requests, Looking(r), NEW geo, ShowAs(r, geo)
  PROVE  /\ At(r) \in DOMAIN list[r] /\ At(r) \notin DOMAIN shown[r]
         /\ At(r) \in Nat /\ 1 \in DOMAIN list[r]
         /\ At(r) # 1 => list[r][1].id < Now(r).id
         /\ Now(r) \in Peer /\ Now(r) = list[r][At(r)]
         /\ At(r) = 1 => DOMAIN shown[r] = {}
         /\ DOMAIN shown'[r] = DOMAIN shown[r] \union {At(r)}
         /\ shown'[r][At(r)] = geo /\ \A i \in DOMAIN shown[r] : shown'[r][i] = shown[r][i]
         /\ pc[r] = "show"
         /\ \A q \in Requests \ {r} : shown'[q] = shown[q]
<1>1. IsSeq(shown[r]) /\ shown'[r] = Append(shown[r], geo)
      /\ \A q \in Requests \ {r} : shown'[q] = shown[q]
  BY DEF IInv, RequestsOK, ShowAs
<1>2. /\ DOMAIN shown'[r] = DOMAIN shown[r] \union {At(r)}
      /\ DOMAIN shown[r] = 1..Len(shown[r]) /\ Len(shown[r]) \in Nat
  BY <1>1, AppendIsSeq DEF At
<1>3. shown'[r][At(r)] = geo /\ \A i \in DOMAIN shown[r] : shown'[r][i] = shown[r][i]
  <2>1. PICK S : shown[r] \in Seq(S)
    BY <1>1 DEF IsSeq
  <2>2. shown[r] \in Seq(S \union {geo})
    BY <2>1, SeqMonotonic
  <2> QED  BY <1>1, <1>2, <2>2 DEF At
<1>4. DOMAIN list[r] = 1..Len(list[r]) /\ Len(list[r]) \in Nat
  BY LenProperties DEF IInv, RequestsOK
<1>5. At(r) \in DOMAIN list[r] /\ At(r) \notin DOMAIN shown[r] /\ At(r) \in Nat
      /\ 1 \in DOMAIN list[r] /\ (At(r) = 1 => DOMAIN shown[r] = {}) /\ (At(r) # 1 => 1 < At(r))
  BY <1>2, <1>4 DEF Looking, At
<1>6. Now(r) \in Peer /\ Now(r) = list[r][At(r)]
  BY <1>5 DEF Now, JInv, Ranges, RequestRanges
<1>7. At(r) # 1 => list[r][1].id < Now(r).id
  BY <1>5, <1>6 DEF JInv, Ranges, RequestRanges, Ordered
<1> QED  BY <1>1, <1>2, <1>3, <1>5, <1>6, <1>7 DEF Looking

LEMMA ShowKnownJ == ASSUME IInv, JInv, NEW r \in Requests, ShowKnown(r) PROVE JInv'
<1> DEFINE p == Now(r)
<1>1. PICK k \in EntryFor(cache[r], p) :
        /\ ShowAs(r, cache[r][k].geo)
        /\ cache' = [cache EXCEPT ![r] = Marked(cache[r], k)]
  BY DEF ShowKnown, IInv, RequestsOK
<1>2. /\ Looking(r) /\ Known(r, p.ip)
      /\ UNCHANGED <<network, file, pc, list, noGeo, asked, heard, calm, settled, excused,
                     restarted, faults>>
  BY DEF ShowKnown, history
<1>3. /\ At(r) \in DOMAIN list[r] /\ p \in Peer /\ p = list[r][At(r)] /\ pc[r] = "show"
      /\ DOMAIN shown'[r] = DOMAIN shown[r] \union {At(r)}
      /\ shown'[r][At(r)] = cache[r][k].geo
      /\ \A i \in DOMAIN shown[r] : shown'[r][i] = shown[r][i]
      /\ \A q \in Requests \ {r} : shown'[q] = shown[q]
  BY <1>1, <1>2, LookingAt
<1> HIDE DEF p
<1>4. RequestRanges(r) /\ Progress(r) /\ OneOwner /\ IsArray(cache[r])
  BY DEF JInv, Ranges, RequestRanges
<1>5. k \in DOMAIN cache[r] /\ (k = p.id \/ cache[r][k].ip = p.ip)
  BY <1>1 DEF EntryFor, First
<1>6. ~restarted => cache[r][k].ip = p.ip
  BY <1>3, <1>4, <1>5, EntryOfId
<1>7. /\ ~noGeo[r] /\ cache'[r] = Marked(cache[r], k)
      /\ \A q \in Requests \ {r} : cache'[q] = cache[q]
  BY <1>1, <1>2 DEF Known, IInv, RequestsOK
<1>8. /\ SameButMarks(cache[r], cache'[r]) /\ cache'[r][k].live
      /\ \A j \in DOMAIN cache[r] : j # k => cache'[r][j] = cache[r][j]
  BY <1>4, <1>5, <1>7, MarkedArray
<1>9. /\ IsArray(cache'[r])
      /\ \A ip : /\ First(cache'[r], ip) = First(cache[r], ip)
                 /\ Has(cache'[r], ip) <=> Has(cache[r], ip)
  BY <1>4, <1>8, MarksChangeNothing
<1>10. Leaves(r)
  BY <1>2, <1>3, <1>7 DEF Leaves, JInv, Ranges, NodeRanges
<1>11. NodeRanges'
  BY <1>2 DEF network, JInv, Ranges, NodeRanges
<1>12. RequestRanges(r)'
  <2>1. Range(shown'[r]) \subseteq Words
    BY <1>3, <1>4, <1>5 DEF Range, RequestRanges, Words, IsArray, Entry
  <2>2. DOMAIN shown'[r] \subseteq DOMAIN list[r]
    BY <1>3, <1>4 DEF RequestRanges
  <2> QED  BY <1>2, <1>3, <1>4, <1>9, <2>1, <2>2 DEF RequestRanges
<1>13. ShownTheirs(r)'
  <2> SUFFICES ASSUME ~restarted, NEW i \in DOMAIN shown'[r]
               PROVE  shown'[r][i] \in {list[r][i].ip, "New", "Unknown"} \/ list[r][i].ip \in excused
    BY <1>2 DEF ShownTheirs
  <2>1. CASE i = At(r)
    <3>1. cache[r][k].geo = cache[r][k].ip \/ cache[r][k].ip \in excused
      BY <1>5 DEF IInv, Sound, CopySound, Truthful
    <3> QED  BY <1>3, <1>6, <2>1, <3>1
  <2>2. CASE i \in DOMAIN shown[r]
    BY <1>3, <1>4, <2>2 DEF Progress, ShownTheirs
  <2> QED  BY <1>3, <2>1, <2>2
<1>14. Afresh(r)' /\ StandsStill(r)'
  BY <1>2, <1>4, <1>7 DEF Progress, Afresh, StandsStill, network, Old
<1>15. Following(r)'
  <2> DEFINE o == list[r][1].id
  <2>1. /\ list[r] # <<>> /\ o \in First(cache[r], list[r][1].ip) /\ cache[r][o].live
        /\ \A j \in DOMAIN cache[r] : cache[r][j].live => Listed(r, j) \/ cache[r][o].pos < cache[r][j].pos
    BY <1>3, <1>4, <1>7 DEF Progress, Following, Working
  <2> HIDE DEF o
  <2>2. o \in DOMAIN cache[r]
    BY <2>1 DEF First
  <2>3. cache'[r][o].live /\ o \in First(cache'[r], list[r][1].ip)
    BY <1>8, <1>9, <2>1, <2>2
  <2>4. ASSUME NEW j \in DOMAIN cache'[r], cache'[r][j].live
        PROVE  Listed(r, j)' \/ cache'[r][o].pos < cache'[r][j].pos
    <3>1. j \in DOMAIN cache[r] /\ (Listed(r, j) => Listed(r, j)')
          /\ cache'[r][o].pos = cache[r][o].pos /\ cache'[r][j].pos = cache[r][j].pos
      BY <1>2, <1>8, <2>2 DEF SameButMarks, Listed
    <3>2. CASE j # k
      BY <1>8, <2>1, <2>4, <3>1, <3>2
    <3>3. CASE j = k
      <4>1. Listed(r, k)
        BY <1>3, <1>5, <1>6 DEF Listed
      <4> QED  BY <3>1, <3>3, <4>1
    <3> QED  BY <3>2, <3>3
  <2> QED  BY <1>2, <2>1, <2>3, <2>4 DEF Following, o
<1>16. QuietKnows(r)'
  BY <1>2, <1>3, <1>4, <1>9 DEF Progress, QuietKnows, Quiet, Known, network, Old
<1>17. QuietLocates(r)'
  <2> SUFFICES ASSUME Quiet(r), Told(r), NEW i \in DOMAIN shown'[r], Old(list[r][i])
               PROVE  \E j \in DOMAIN cache'[r] : cache'[r][j].live /\ cache'[r][j].ip = list[r][i].ip
    BY <1>2, <1>7 DEF QuietLocates, Quiet, Told, Located, Old, network
  <2>1. k \in DOMAIN cache'[r] /\ cache'[r][k].ip = cache[r][k].ip
    BY <1>5, <1>8 DEF SameButMarks
  <2>2. CASE i = At(r)
    BY <1>3, <1>6, <1>8, <2>1, <2>2 DEF Quiet
  <2>3. CASE i \in DOMAIN shown[r]
    <3>1. PICK j \in DOMAIN cache[r] : cache[r][j].live /\ cache[r][j].ip = list[r][i].ip
      BY <1>3, <1>4, <1>7, <2>3 DEF Progress, QuietLocates, Located
    <3> QED  BY <1>8, <3>1 DEF SameButMarks
  <2> QED  BY <1>3, <2>2, <2>3
<1>18. Progress(r)'
  BY <1>13, <1>14, <1>15, <1>16, <1>17 DEF Progress
<1>19. SettledFile'
  BY <1>2, SettledKept DEF network, JInv
<1>20. ASSUME NEW id \in Ids, NEW ip \in Addrs,
              InList(list'[r], id, ip) \/ InArray(cache'[r], id, ip) \/ InArray(file', id, ip)
       PROVE  Owned(id, ip)
  <2>1. InArray(cache'[r], id, ip) => InArray(cache[r], id, ip)
    BY <1>8 DEF InArray, SameButMarks
  <2> QED  BY <1>2, <1>20, <2>1 DEF Owned
<1> QED  BY <1>10, <1>11, <1>12, <1>18, <1>19, <1>20, RequestStep

LEMMA ShowFoundJ == ASSUME IInv, JInv, NEW r \in Requests, ShowFound(r) PROVE JInv'
<1> DEFINE p == Now(r)  geo == Answer(r, p.ip)
<1>1. /\ Looking(r) /\ ~Known(r, p.ip) /\ heard[r] # {} /\ ShowAs(r, geo)
      /\ cache' = [cache EXCEPT ![r] = Stored(cache[r], p, geo)]
      /\ excused' = excused \union {cache[r][k].ip : k \in {p.id} \intersect DOMAIN cache[r]}
      /\ UNCHANGED <<network, file, pc, list, noGeo, asked, heard, calm, settled, restarted, faults>>
  BY DEF ShowFound, IInv, RequestsOK
<1>2. geo = p.ip \/ p.ip \in excused
  BY AnswerSound
<1>3. geo \in Addrs
  <2>1. \A i \in heard[r] : list[r][i].ip \in Addrs /\ i \in Nat
    BY LenProperties DEF JInv, Ranges, RequestRanges, Peer, IInv, RequestsOK
  <2>2. Min(heard[r]) \in heard[r]
    BY <1>1, <2>1, MinIsThere
  <2>3. (\E i \in heard[r] : list[r][i].ip = p.ip) => p.ip \in Addrs
    BY <2>1
  <2> QED  BY <2>1, <2>2, <2>3 DEF Answer
<1> HIDE DEF geo
<1>4. /\ At(r) \in DOMAIN list[r] /\ p \in Peer /\ p = list[r][At(r)] /\ pc[r] = "show"
      /\ 1 \in DOMAIN list[r] /\ list[r][1].id \in Nat
      /\ At(r) # 1 => list[r][1].id # p.id
      /\ At(r) = 1 => DOMAIN shown[r] = {}
      /\ DOMAIN shown'[r] = DOMAIN shown[r] \union {At(r)}
      /\ shown'[r][At(r)] = geo
      /\ \A i \in DOMAIN shown[r] : shown'[r][i] = shown[r][i]
      /\ \A q \in Requests \ {r} : shown'[q] = shown[q]
  BY <1>1, LookingAt DEF Peer, Ids, JInv, Ranges, RequestRanges
<1> HIDE DEF p
<1>5. RequestRanges(r) /\ Progress(r) /\ OneOwner /\ IsArray(cache[r])
  BY DEF JInv, Ranges, RequestRanges
<1>6. cache'[r] = Stored(cache[r], p, geo) /\ \A q \in Requests \ {r} : cache'[q] = cache[q]
  BY <1>1 DEF IInv, RequestsOK
<1>7. /\ IsArray(cache'[r]) /\ DOMAIN cache'[r] = DOMAIN cache[r] \union {p.id}
      /\ \A k \in DOMAIN cache[r] : k # p.id => cache'[r][k] = cache[r][k]
      /\ cache'[r][p.id].ip = p.ip /\ cache'[r][p.id].live
      /\ p.id \notin DOMAIN cache[r] =>
           \A k \in DOMAIN cache[r] : cache[r][k].pos < cache'[r][p.id].pos
      /\ p.id \in DOMAIN cache[r] => cache'[r][p.id].pos = cache[r][p.id].pos
  <2> DEFINE old == cache[r]  new == cache'[r]
  <2>1. IsArray(old) /\ p \in Peer /\ geo \in Addrs /\ new = Stored(old, p, geo)
    BY <1>3, <1>4, <1>5, <1>6
  <2> HIDE DEF old, new
  <2>2. /\ IsArray(new) /\ DOMAIN new = DOMAIN old \union {p.id}
        /\ \A k \in DOMAIN old : k # p.id => new[k] = old[k]
        /\ new[p.id].ip = p.ip /\ new[p.id].live
        /\ p.id \notin DOMAIN old => \A k \in DOMAIN old : old[k].pos < new[p.id].pos
        /\ p.id \in DOMAIN old => new[p.id].pos = old[p.id].pos
    BY <2>1, StoredArray
  <2> QED  BY <2>2 DEF old, new
<1>8. ~restarted /\ p.id \in DOMAIN cache[r] => cache[r][p.id].ip = p.ip
  BY <1>4, <1>5, EntryOfId
<1>9. excused \subseteq excused' /\ excused' \subseteq Addrs
  BY <1>1, <1>5 DEF IsArray, Entry, JInv, Ranges, NodeRanges
<1>10. Leaves(r)
  BY <1>1, <1>4, <1>6, <1>9 DEF Leaves, JInv, Ranges, NodeRanges
<1>11. NodeRanges'
  BY <1>1, <1>9 DEF network, JInv, Ranges, NodeRanges
<1>12. RequestRanges(r)'
  <2>1. Range(shown'[r]) \subseteq Words
    BY <1>3, <1>4, <1>5 DEF Range, RequestRanges, Words
  <2>2. DOMAIN shown'[r] \subseteq DOMAIN list[r]
    BY <1>4, <1>5 DEF RequestRanges
  <2> QED  BY <1>1, <1>4, <1>5, <1>7, <2>1, <2>2 DEF RequestRanges
<1>13. ShownTheirs(r)'
  <2> SUFFICES ASSUME ~restarted, NEW i \in DOMAIN shown'[r]
               PROVE  shown'[r][i] \in {list[r][i].ip, "New", "Unknown"} \/ list[r][i].ip \in excused
    BY <1>1, <1>9 DEF ShownTheirs
  <2>1. CASE i = At(r)
    BY <1>2, <1>4, <2>1
  <2>2. CASE i \in DOMAIN shown[r]
    BY <1>4, <1>5, <2>2 DEF Progress, ShownTheirs
  <2> QED  BY <1>4, <2>1, <2>2
<1>14. StandsStill(r)'
  BY <1>1, <1>5 DEF Progress, StandsStill, network, Old
<1> DEFINE o == list[r][1].id
<1>15. Afresh(r)'
  <2> SUFFICES ASSUME noGeo[r]
               PROVE  /\ \A k \in DOMAIN cache'[r] :
                           \E i \in DOMAIN shown'[r] :
                             list[r][i].id = k /\ list[r][i].ip = cache'[r][k].ip /\ cache'[r][k].live
                      /\ o \in DOMAIN cache'[r] =>
                           \A k \in DOMAIN cache'[r] : cache'[r][o].pos <= cache'[r][k].pos
    BY <1>1 DEF Afresh
  <2>1. /\ \A k \in DOMAIN cache[r] :
             \E i \in DOMAIN shown[r] :
               list[r][i].id = k /\ list[r][i].ip = cache[r][k].ip /\ cache[r][k].live
        /\ o \in DOMAIN cache[r] => \A k \in DOMAIN cache[r] : cache[r][o].pos <= cache[r][k].pos
    <3>1. list[r] # <<>>
      BY <1>4, EmptySeq
    <3> QED  BY <1>4, <1>5, <3>1 DEF Progress, Afresh, Working
  <2>2. ASSUME NEW k \in DOMAIN cache'[r]
        PROVE  \E i \in DOMAIN shown'[r] :
                 list[r][i].id = k /\ list[r][i].ip = cache'[r][k].ip /\ cache'[r][k].live
    <3>1. CASE k = p.id
      BY <1>4, <1>7, <3>1
    <3>2. CASE k # p.id
      BY <1>4, <1>7, <2>1, <3>2
    <3> QED  BY <3>1, <3>2
  <2>3. ASSUME o \in DOMAIN cache'[r], NEW k \in DOMAIN cache'[r]
        PROVE  cache'[r][o].pos <= cache'[r][k].pos
    <3>1. \A j \in DOMAIN cache'[r] : cache'[r][j].pos \in Nat
      BY <1>7 DEF IsArray, Entry
    <3>2. \A j \in DOMAIN cache[r] : cache[r][j].pos \in Nat
      BY <1>5 DEF IsArray, Entry
    <3>3. CASE At(r) = 1
      <4>1. DOMAIN cache[r] = {} /\ o = p.id
        BY <1>4, <2>1, <3>3
      <4>2. k = o
        BY <1>7, <4>1
      <4> QED  BY <2>3, <3>1, <4>2
    <3>4. CASE At(r) # 1
      <4>1. o # p.id
        BY <1>4, <3>4
      <4> HIDE DEF o
      <4>2. o \in DOMAIN cache[r] /\ cache'[r][o] = cache[r][o]
        BY <1>7, <2>3, <4>1
      <4>3. CASE k # p.id
        BY <1>7, <2>1, <2>3, <4>2, <4>3
      <4>4. CASE k = p.id /\ p.id \in DOMAIN cache[r]
        BY <1>7, <2>1, <4>2, <4>4
      <4>5. CASE k = p.id /\ p.id \notin DOMAIN cache[r]
        <5>1. cache[r][o].pos < cache'[r][k].pos
          BY <1>7, <4>2, <4>5
        <5> QED  BY <2>3, <3>1, <4>2, <5>1
      <4> QED  BY <4>3, <4>4, <4>5
    <3> QED  BY <3>3, <3>4
  <2> QED  BY <2>2, <2>3
<1>16. Following(r)'
  <2> SUFFICES ASSUME ~noGeo[r]
               PROVE  /\ list[r] # <<>> /\ o \in First(cache'[r], list[r][1].ip)
                      /\ cache'[r][o].live
                      /\ \A k \in DOMAIN cache'[r] :
                           cache'[r][k].live => Listed(r, k)' \/ cache'[r][o].pos < cache'[r][k].pos
    BY <1>1 DEF Following
  <2>1. /\ list[r] # <<>> /\ o \in First(cache[r], list[r][1].ip) /\ cache[r][o].live
        /\ \A k \in DOMAIN cache[r] : cache[r][k].live => Listed(r, k) \/ cache[r][o].pos < cache[r][k].pos
    BY <1>4, <1>5 DEF Progress, Following, Working
  <2>2. o \in DOMAIN cache[r] /\ cache[r][o].ip = list[r][1].ip
    BY <2>1 DEF First
  <2>3. \A k \in DOMAIN cache[r] : cache[r][k].ip # p.ip
    BY <1>1 DEF Known, Has
  <2>4. o # p.id
    BY <1>4, <2>2, <2>3
  <2> HIDE DEF o
  <2>5. cache'[r][o] = cache[r][o] /\ o \in DOMAIN cache'[r]
    BY <1>7, <2>2, <2>4
  <2>6. o \in First(cache'[r], list[r][1].ip)
    <3> SUFFICES ASSUME NEW k \in DOMAIN cache'[r], cache'[r][k].ip = list[r][1].ip
                 PROVE  cache'[r][o].pos <= cache'[r][k].pos
      BY <2>2, <2>5 DEF First
    <3>1. k # p.id
      BY <1>7, <2>2, <2>3
    <3> QED  BY <1>7, <2>1, <2>5, <3>1 DEF First
  <2>7. ASSUME NEW k \in DOMAIN cache'[r], cache'[r][k].live
        PROVE  Listed(r, k)' \/ cache'[r][o].pos < cache'[r][k].pos
    <3>1. CASE k = p.id
      BY <1>1, <1>4, <1>7, <3>1 DEF Listed
    <3>2. CASE k # p.id
      <4>1. k \in DOMAIN cache[r] /\ cache'[r][k] = cache[r][k]
        BY <1>7, <3>2
      <4>2. Listed(r, k) => Listed(r, k)'
        BY <1>1, <4>1 DEF Listed
      <4> QED  BY <2>1, <2>5, <2>7, <4>1, <4>2
    <3> QED  BY <3>1, <3>2
  <2> QED  BY <2>1, <2>5, <2>6, <2>7
\* Until a restart the entry in whose place the new one comes was of the same address.
<1>17. ASSUME ~restarted, NEW k \in DOMAIN cache[r]
       PROVE  k \in DOMAIN cache'[r] /\ cache'[r][k].ip = cache[r][k].ip
              /\ (cache[r][k].live => cache'[r][k].live)
  <2>1. CASE k = p.id
    BY <1>7, <1>8, <1>17, <2>1
  <2>2. CASE k # p.id
    BY <1>7, <2>2
  <2> QED  BY <2>1, <2>2
<1>18. QuietKnows(r)'
  BY <1>1, <1>4, <1>5, <1>17 DEF Progress, QuietKnows, Quiet, Known, Has, network, Old
<1>19. QuietLocates(r)'
  <2> SUFFICES ASSUME Quiet(r), Told(r), NEW i \in DOMAIN shown'[r], Old(list[r][i])
               PROVE  Located(r, i)'
    BY <1>1 DEF QuietLocates, Quiet, Told, Old, network
  <2>1. CASE i = At(r)
    BY <1>1, <1>4, <1>7, <2>1 DEF Located
  <2>2. CASE i \in DOMAIN shown[r]
    <3>1. Located(r, i) /\ ~restarted
      BY <1>4, <1>5, <2>2 DEF Progress, QuietLocates, Quiet
    <3> QED  BY <1>1, <1>17, <3>1 DEF Located
  <2> QED  BY <1>4, <2>1, <2>2
<1>20. Progress(r)'
  BY <1>13, <1>14, <1>15, <1>16, <1>18, <1>19 DEF Progress
<1>21. SettledFile'
  BY <1>1, SettledKept DEF network, JInv
<1>22. ASSUME NEW id \in Ids, NEW ip \in Addrs,
              InList(list'[r], id, ip) \/ InArray(cache'[r], id, ip) \/ InArray(file', id, ip)
       PROVE  Owned(id, ip)
  <2>1. CASE InArray(cache'[r], id, ip) /\ id = p.id
    <3>1. InList(list[r], id, ip)
      BY <1>4, <1>7, <2>1 DEF InArray, InList
    <3> QED  BY <3>1 DEF Owned
  <2>2. CASE InArray(cache'[r], id, ip) /\ id # p.id
    <3>1. InArray(cache[r], id, ip)
      BY <1>7, <2>2 DEF InArray
    <3> QED  BY <3>1 DEF Owned
  <2> QED  BY <1>1, <1>22, <2>1, <2>2 DEF Owned
<1> QED  BY <1>10, <1>11, <1>12, <1>20, <1>21, <1>22, RequestStep

LEMMA ShowUnknownJ == ASSUME IInv, JInv, NEW r \in Requests, ShowUnknown(r) PROVE JInv'
<1> DEFINE p == Now(r)
<1>1. PICK geo \in {"Unknown", "New"} : ShowAs(r, geo)
  BY DEF ShowUnknown
<1>2. /\ Looking(r) /\ ~Known(r, p.ip) /\ (heard[r] = {} \/ ~Old(p))
      /\ UNCHANGED <<network, file, pc, list, cache, noGeo, asked, heard, calm, settled, excused,
                     restarted, faults>>
  BY DEF ShowUnknown, history
<1>3. /\ At(r) \in DOMAIN list[r] /\ p = list[r][At(r)] /\ pc[r] = "show"
      /\ DOMAIN shown'[r] = DOMAIN shown[r] \union {At(r)}
      /\ shown'[r][At(r)] = geo
      /\ \A i \in DOMAIN shown[r] : shown'[r][i] = shown[r][i]
      /\ \A q \in Requests \ {r} : shown'[q] = shown[q]
  BY <1>1, <1>2, LookingAt
<1> HIDE DEF p
<1>4. RequestRanges(r) /\ Progress(r)
  BY DEF JInv, Ranges
<1>5. Leaves(r)
  BY <1>2, <1>3 DEF Leaves, JInv, Ranges, NodeRanges
<1>6. NodeRanges'
  BY <1>2 DEF network, JInv, Ranges, NodeRanges
<1>7. RequestRanges(r)'
  <2>1. Range(shown'[r]) \subseteq Words
    BY <1>3, <1>4 DEF Range, RequestRanges, Words
  <2>2. DOMAIN shown'[r] \subseteq DOMAIN list[r]
    BY <1>3, <1>4 DEF RequestRanges
  <2> QED  BY <1>2, <1>3, <1>4, <2>1, <2>2 DEF RequestRanges
<1>8. ShownTheirs(r)' /\ Afresh(r)' /\ Following(r)' /\ StandsStill(r)'
  <2>1. ShownTheirs(r)'
    BY <1>2, <1>3, <1>4 DEF Progress, ShownTheirs
  <2>2. Afresh(r)' /\ Following(r)'
    BY <1>2, <1>3, <1>4 DEF Progress, Afresh, Following, Listed
  <2>3. StandsStill(r)'
    BY <1>2, <1>4 DEF Progress, StandsStill, network, Old
  <2> QED  BY <2>1, <2>2, <2>3
<1>9. QuietKnows(r)'
  BY <1>2, <1>4 DEF Progress, QuietKnows, Quiet, Known, network, Old
<1>10. QuietLocates(r)'
  <2> SUFFICES ASSUME Quiet(r), Told(r), NEW i \in DOMAIN shown'[r], Old(list[r][i])
               PROVE  Located(r, i)
    BY <1>2 DEF QuietLocates, Quiet, Told, Located, Old, network
  <2>1. i # At(r)
    <3>1. ASSUME i = At(r) PROVE FALSE
      <4>1. asked[r] = {}
        BY <1>2, <1>3, <3>1 DEF Told
      <4> QED  BY <1>2, <1>3, <1>4, <3>1, <4>1 DEF Progress, QuietKnows
    <3> QED  BY <3>1
  <2> QED  BY <1>3, <1>4, <2>1 DEF Progress, QuietLocates
<1>11. Progress(r)'
  BY <1>8, <1>9, <1>10 DEF Progress
<1>12. SettledFile'
  BY <1>2, SettledKept DEF network, JInv
<1>13. ASSUME NEW id \in Ids, NEW ip \in Addrs,
              InList(list'[r], id, ip) \/ InArray(cache'[r], id, ip) \/ InArray(file', id, ip)
       PROVE  Owned(id, ip)
  BY <1>2, <1>13 DEF Owned
<1> QED  BY <1>5, <1>6, <1>7, <1>11, <1>12, <1>13, RequestStep

LEMMA TruncateJ == ASSUME IInv, JInv, NEW r \in Requests, Truncate(r) PROVE JInv'
<1>1. /\ pc[r] = "show" /\ At(r) > Len(list[r]) /\ pc' = [pc EXCEPT ![r] = "write"]
      /\ cache' = [cache EXCEPT ![r] = Kept(cache[r])]
      /\ file' = Empty /\ settled' = FALSE
      /\ UNCHANGED <<network, list, noGeo, asked, heard, shown, calm, excused, restarted, faults>>
  BY DEF Truncate, Goto, IInv, RequestsOK
<1>2. pc'[r] = "write" /\ cache'[r] = Kept(cache[r])
  BY <1>1 DEF IInv, RequestsOK
<1>3. RequestRanges(r) /\ Progress(r) /\ IsArray(cache[r])
  BY DEF JInv, Ranges, RequestRanges
<1>4. /\ IsArray(cache'[r]) /\ DOMAIN cache'[r] = {k \in DOMAIN cache[r] : cache[r][k].live}
      /\ \A k \in DOMAIN cache'[r] : cache'[r][k] = cache[r][k]
  BY <1>2, <1>3, KeptArray
<1>5. Leaves(r)
  BY <1>1 DEF Leaves, IInv, RequestsOK, JInv, Ranges, NodeRanges
<1>6. NodeRanges'
  BY <1>1, EmptyArray DEF network, JInv, Ranges, NodeRanges
<1>7. DOMAIN shown[r] = DOMAIN list[r]
  <2>1. DOMAIN shown[r] = 1..Len(shown[r]) /\ Len(shown[r]) \in Nat
    BY AppendIsSeq DEF IInv, RequestsOK
  <2>2. DOMAIN list[r] = 1..Len(list[r]) /\ Len(list[r]) \in Nat
    BY LenProperties DEF IInv, RequestsOK
  <2>3. DOMAIN shown[r] \subseteq DOMAIN list[r]
    BY <1>3 DEF RequestRanges
  <2>4. Len(list[r]) <= Len(shown[r])
    BY <1>1, <2>1, <2>2 DEF At
  <2>5. DOMAIN list[r] \subseteq DOMAIN shown[r]
    BY <2>1, <2>2, <2>4
  <2> QED  BY <2>3, <2>5
<1>8. RequestRanges(r)'
  BY <1>1, <1>2, <1>3, <1>4, <1>7 DEF RequestRanges
<1>9. Afresh(r)'
  BY <1>1, <1>3, <1>4 DEF Progress, Afresh, Working
<1>10. Following(r)'
  BY <1>1, <1>3, <1>4 DEF Progress, Following, Listed, First, Working
<1>11. ShownTheirs(r)'
  BY <1>1, <1>3 DEF Progress, ShownTheirs
<1>12. StandsStill(r)' /\ QuietKnows(r)'
  BY <1>1, <1>2, <1>3 DEF Progress, StandsStill, QuietKnows, network, Old
<1>13. QuietLocates(r)'
  <2> SUFFICES ASSUME Quiet(r), Told(r), NEW i \in DOMAIN shown[r], Old(list[r][i])
               PROVE  Located(r, i)'
    BY <1>1 DEF QuietLocates, Quiet, Told, Old, network
  <2>1. Located(r, i)
    BY <1>1, <1>3 DEF Progress, QuietLocates
  <2>2. noGeo[r] => \A k \in DOMAIN cache[r] : cache[r][k].live
    BY <1>1, <1>3 DEF Progress, Afresh, Working
  <2> QED  BY <1>1, <1>4, <2>1, <2>2 DEF Located
<1>14. Progress(r)'
  BY <1>9, <1>10, <1>11, <1>12, <1>13 DEF Progress
<1>15. SettledFile'
  BY <1>1 DEF SettledFile
<1>16. ASSUME NEW id \in Ids, NEW ip \in Addrs,
              InList(list'[r], id, ip) \/ InArray(cache'[r], id, ip) \/ InArray(file', id, ip)
       PROVE  Owned(id, ip)
  <2>1. InArray(cache'[r], id, ip) => InArray(cache[r], id, ip)
    BY <1>4 DEF InArray
  <2>2. ~InArray(Empty, id, ip)
    BY EmptyArray DEF InArray
  <2> QED  BY <1>1, <1>16, <2>1, <2>2 DEF Owned
<1> QED  BY <1>5, <1>6, <1>8, <1>14, <1>15, <1>16, RequestStep

\* A request that is over leaves nothing of its own.
LEMMA FinishedRequest ==
  ASSUME IInv, JInv, NEW r \in Requests, Finish(r), UNCHANGED <<network, excused, restarted>>
  PROVE  /\ Leaves(r) /\ RequestRanges(r)' /\ Progress(r)'
         /\ \A id, ip : ~InList(list'[r], id, ip) /\ ~InArray(cache'[r], id, ip)
         /\ noGeo' \in [Requests -> BOOLEAN] /\ calm' \in [Requests -> BOOLEAN]
<1>1. /\ pc'[r] = "idle" /\ list'[r] = <<>> /\ cache'[r] = Empty /\ ~calm'[r]
      /\ asked'[r] = {} /\ heard'[r] = {} /\ shown'[r] = <<>>
  BY DEF Finish, Goto, IInv, RequestsOK, JInv, Ranges, NodeRanges
<1>2. Leaves(r)
  BY DEF Finish, Goto, Leaves, IInv, RequestsOK, JInv, Ranges, NodeRanges
<1>3. RequestRanges(r)'
  <2>1. Ordered(<<>>) /\ Range(<<>>) = {}
    BY DEF Ordered, Range
  <2> QED  BY <1>1, <2>1, EmptyArray DEF RequestRanges
<1>4. Progress(r)'
  BY <1>1 DEF Progress, ShownTheirs, Afresh, Following, StandsStill, QuietKnows, QuietLocates,
              Quiet, Working
<1>5. noGeo' \in [Requests -> BOOLEAN] /\ calm' \in [Requests -> BOOLEAN]
  BY DEF Finish, JInv, Ranges, NodeRanges
<1> QED  BY <1>1, <1>2, <1>3, <1>4, <1>5, EmptyArray DEF InList, InArray

LEMMA AbortJ == ASSUME IInv, JInv, NEW r \in Requests, Abort(r) PROVE JInv'
<1>1. /\ faults < MaxFaults /\ faults' = faults + 1 /\ Finish(r)
      /\ UNCHANGED <<network, file, settled, excused, restarted>>
  BY DEF Abort, Fault
<1>2. /\ Leaves(r) /\ RequestRanges(r)' /\ Progress(r)'
      /\ \A id, ip : ~InList(list'[r], id, ip) /\ ~InArray(cache'[r], id, ip)
      /\ noGeo' \in [Requests -> BOOLEAN] /\ calm' \in [Requests -> BOOLEAN]
  BY <1>1, FinishedRequest
<1>3. NodeRanges'
  <2>1. faults' \in 0..MaxFaults
    BY <1>1, BoundAssumption DEF JInv, Ranges, NodeRanges
  <2> QED  BY <1>1, <1>2, <2>1 DEF network, JInv, Ranges, NodeRanges
<1>4. SettledFile'
  BY <1>1, SettledKept DEF network, JInv
<1>5. ASSUME NEW id \in Ids, NEW ip \in Addrs, InArray(file', id, ip) PROVE Owned(id, ip)
  BY <1>1, <1>5 DEF Owned
<1> QED  BY <1>2, <1>3, <1>4, <1>5, RequestStep

\* What a quiet request writes has every peer that is old enough, whatever the file had.
LEMMA WritesEverybody ==
  ASSUME IInv, JInv, NEW r \in Requests, pc[r] = "write", Quiet(r), Told(r)
  PROVE  /\ \A i \in DOMAIN peers : Old(peers[i]) => Has(cache[r], peers[i].ip)
         /\ peers # <<>> /\ Old(peers[1]) => peers[1].id \in First(cache[r], peers[1].ip)
<1>1. RequestRanges(r) /\ Progress(r) /\ OneOwner /\ ~restarted /\ calm[r]
  BY DEF JInv, Ranges, Quiet
<1>2. ASSUME NEW i \in DOMAIN peers, Old(peers[i])
      PROVE  i \in DOMAIN list[r] /\ list[r][i] = peers[i] /\ Located(r, i)
  <2>1. i \in DOMAIN list[r] /\ list[r][i] = peers[i]
    BY <1>1, <1>2 DEF Progress, StandsStill
  <2>2. i \in DOMAIN shown[r]
    BY <1>1, <2>1 DEF RequestRanges
  <2> QED  BY <1>1, <1>2, <2>1, <2>2 DEF Progress, QuietLocates
<1>3. ASSUME NEW i \in DOMAIN peers, Old(peers[i])
      PROVE  Has(cache[r], peers[i].ip)
  <2>1. i \in DOMAIN list[r] /\ list[r][i] = peers[i] /\ Located(r, i)
    BY <1>2, <1>3
  <2>2. CASE ~noGeo[r]
    BY <2>1, <2>2 DEF Located, Has
  <2>3. CASE noGeo[r]
    <3>1. peers[i].id \in DOMAIN cache[r]
      BY <2>1, <2>3 DEF Located
    <3>2. cache[r][peers[i].id].ip = peers[i].ip
      BY <1>1, <2>1, <3>1, EntryOfId
    <3> QED  BY <3>1, <3>2 DEF Has
  <2> QED  BY <2>2, <2>3
<1>4. ASSUME peers # <<>>, Old(peers[1])
      PROVE  peers[1].id \in First(cache[r], peers[1].ip)
  <2>1. 1 \in DOMAIN peers
    BY <1>4, PeersIsSeq
  <2>2. 1 \in DOMAIN list[r] /\ list[r][1] = peers[1] /\ Located(r, 1)
    BY <1>2, <1>4, <2>1
  <2>3. list[r] # <<>>
    BY <2>2, EmptySeq
  <2>4. CASE ~noGeo[r]
    BY <1>1, <2>2, <2>4 DEF Progress, Following, Working
  <2>5. CASE noGeo[r]
    <3>1. peers[1].id \in DOMAIN cache[r]
      BY <2>2, <2>5 DEF Located
    <3>2. cache[r][peers[1].id].ip = peers[1].ip
      BY <1>1, <2>2, <3>1, EntryOfId
    <3>3. \A k \in DOMAIN cache[r] : cache[r][peers[1].id].pos <= cache[r][k].pos
      BY <1>1, <2>2, <2>3, <2>5, <3>1 DEF Progress, Afresh, Working
    <3> QED  BY <3>1, <3>2, <3>3 DEF First
  <2> QED  BY <2>4, <2>5
<1> QED  BY <1>3, <1>4

LEMMA PutJ == ASSUME IInv, JInv, NEW r \in Requests, Put(r) PROVE JInv'
<1>1. /\ pc[r] = "write" /\ file' = cache[r] /\ settled' = (calm[r] /\ Told(r))
      /\ Finish(r) /\ UNCHANGED <<network, excused, restarted, faults>>
  BY DEF Put, Told
<1>2. /\ Leaves(r) /\ RequestRanges(r)' /\ Progress(r)'
      /\ \A id, ip : ~InList(list'[r], id, ip) /\ ~InArray(cache'[r], id, ip)
      /\ noGeo' \in [Requests -> BOOLEAN] /\ calm' \in [Requests -> BOOLEAN]
  BY <1>1, FinishedRequest
<1>3. IsArray(cache[r]) /\ \A k \in DOMAIN cache[r] : cache[r][k].live
  BY <1>1 DEF JInv, Ranges, RequestRanges
<1>4. NodeRanges'
  <2>1. settled' \in BOOLEAN
    BY <1>1 DEF JInv, Ranges, NodeRanges, Told
  <2> QED  BY <1>1, <1>2, <1>3, <2>1 DEF network, JInv, Ranges, NodeRanges
<1>5. SettledFile'
  <2> SUFFICES ASSUME calm[r], Told(r), ~restarted
               PROVE  /\ \A i \in DOMAIN peers : Old(peers[i]) => Has(cache[r], peers[i].ip)
                      /\ peers # <<>> /\ Old(peers[1]) => peers[1].id \in First(cache[r], peers[1].ip)
    BY <1>1 DEF SettledFile, Old, network
  <2> QED  BY <1>1, WritesEverybody DEF Quiet
<1>6. ASSUME NEW id \in Ids, NEW ip \in Addrs, InArray(file', id, ip) PROVE Owned(id, ip)
  BY <1>1, <1>6 DEF Owned
<1> QED  BY <1>2, <1>4, <1>5, <1>6, RequestStep

LEMMA NextJInv == IInv /\ JInv /\ [Next]_vars => JInv'
<1> SUFFICES ASSUME IInv, JInv, [Next]_vars PROVE JInv'
  OBVIOUS
<1>1. ASSUME NEW a \in Addrs, Connect(a) PROVE JInv'
  BY <1>1, ConnectJ
<1>2. ASSUME NEW i \in DOMAIN peers, Disconnect(i) PROVE JInv'
  BY <1>2, DisconnectJ
<1>3. CASE Restart \/ Tick
  BY <1>3, RestartJ, TickJ
<1>4. ASSUME NEW r \in Requests, Step(r) \/ Abort(r) PROVE JInv'
  BY <1>4, GetPeersJ, ReadFileJ, AskJ, ShowKnownJ, ShowFoundJ, ShowUnknownJ, TruncateJ, PutJ,
     AbortJ DEF Step
<1>5. CASE UNCHANGED vars
  <2>1. UNCHANGED <<network, file, local, calm, settled, excused, restarted, faults>>
    BY <1>5 DEF vars, history
  <2>2. NodeRanges' /\ OneOwner' /\ SettledFile'
    <3>1. NodeRanges'
      BY <2>1 DEF network, local, JInv, Ranges, NodeRanges
    <3>2. OneOwner'
      BY <2>1, OwnersKept DEF network, local, JInv, Owned, InList
    <3> QED  BY <2>1, <3>1, <3>2, SettledKept DEF network, JInv
  <2>3. \A q \in Requests : calm'[q] => calm[q] /\ StandsStill(q)'
    BY <2>1 DEF network, local, JInv, Progress, StandsStill, Old
  <2>4. \A q \in Requests : \A i \in DOMAIN list[q] : Old(list[q][i])' = Old(list[q][i])
    BY <2>1 DEF network, local, Old
  <2> QED  BY <2>1, <2>2, <2>3, <2>4, NodeStep
<1> QED  BY <1>1, <1>2, <1>3, <1>4, <1>5 DEF Next

LEMMA SpecInvs == Spec => [](IInv /\ JInv)
BY InitIInv, InitJInv, NextIInv, NextJInv, PTL DEF Spec

\* The ranges of the state, of every request's copies as of the node and the file.
THEOREM Types == Spec => []TypeOK
<1>1. IInv /\ JInv => TypeOK
  <2> SUFFICES ASSUME IInv, JInv PROVE TypeOK
    OBVIOUS
  <2>1. pc \in [Requests -> Steps]
    BY DEF IInv, RequestsOK
  <2>2. \A r \in Requests : RequestRanges(r)
    BY DEF JInv, Ranges
  <2>3. NodeRanges
    BY DEF JInv, Ranges
  <2> QED  BY <2>1, <2>2, <2>3 DEF TypeOK, NodeRanges, RequestRanges, IsArray, Words
<1> QED  BY <1>1, SpecInvs, PTL

\* However requests overlap and overwrite each other's file, until the node is restarted
\* no peer is shown where another is, but for the addresses that the service did not
\* tell of.
THEOREM PeersShownWhereTheyAre == Spec => []ShownIsTheirs
<1>1. JInv => ShownIsTheirs
  BY DEF JInv, Progress, ShownTheirs, ShownIsTheirs
<1> QED  BY <1>1, SpecInvs, PTL

\* Of what a request writes, only entries behind the oldest peer's can be of a peer that
\* is not connected, whatever the file it read was.
THEOREM RestIsRemoved == Spec => []OnlyBehindTheOldestOutlive
<1>1. IInv /\ JInv => OnlyBehindTheOldestOutlive
  <2> SUFFICES ASSUME IInv, JInv, NEW r \in Requests, pc[r] = "write", NEW k \in DOMAIN cache[r]
               PROVE  \/ \E i \in DOMAIN list[r] :
                           list[r][i].ip = cache[r][k].ip \/ (restarted /\ list[r][i].id = k)
                      \/ \E j \in First(cache[r], list[r][1].ip) : cache[r][j].pos < cache[r][k].pos
    BY DEF OnlyBehindTheOldestOutlive
  <2>1. RequestRanges(r) /\ Progress(r) /\ cache[r][k].live
    BY DEF JInv, Ranges, RequestRanges
  <2>2. CASE noGeo[r]
    <3>1. \E i \in DOMAIN shown[r] : list[r][i].id = k /\ list[r][i].ip = cache[r][k].ip
      BY <2>1, <2>2 DEF Progress, Afresh, Working
    <3> QED  BY <2>1, <3>1 DEF RequestRanges
  <2>3. CASE ~noGeo[r]
    BY <2>1, <2>3 DEF Progress, Following, Listed, Working
  <2> QED  BY <2>2, <2>3
<1> QED  BY <1>1, SpecInvs, PTL

\* A request that is about to ask, while nothing has changed since a complete file was
\* written, does not: whoever else overwrites the file in between.
THEOREM QuietReloads == Spec => QuietReloadAsksNothing
<1>1. IInv /\ JInv /\ [Next]_vars =>
        [\A r \in Requests :
           pc[r] = "read" /\ pc'[r] = "ask" => restarted \/ ~(settled /\ calm[r])]_vars
  <2> SUFFICES ASSUME IInv, JInv, Next, NEW r \in Requests, pc[r] = "read", pc'[r] = "ask",
                      ~restarted, settled, calm[r]
               PROVE  FALSE
    OBVIOUS
  <2>1. ReadFile(r)
    <3>1. UNCHANGED local => FALSE
      BY DEF local
    <3>2. ASSUME NEW q \in Requests, Step(q) \/ Abort(q), pc'[q] # "ask" \/ q # r PROVE FALSE
      <4>1. pc' = pc \/ \E s \in Steps : pc' = [pc EXCEPT ![q] = s]
        BY <3>2 DEF Step, GetPeers, ReadFile, Ask, ShowKnown, ShowFound, ShowUnknown, Truncate,
                    Put, Abort, Finish, Goto, Steps
      <4> QED  BY <3>2, <4>1 DEF IInv, RequestsOK
    <3>3. Step(r) /\ pc[r] = "read" => ReadFile(r)
      BY DEF Step, GetPeers, Ask, ShowKnown, ShowFound, ShowUnknown, Looking, Truncate, Put
    <3>4. ~Abort(r)
      BY DEF Abort, Finish, Goto, IInv, RequestsOK
    <3> QED  BY <3>1, <3>2, <3>3, <3>4 DEF Next, Connect, Disconnect, Restart, Tick
  <2>2. /\ noGeo'[r] = ~SameOldest(r)
        /\ cache'[r] = (IF SameOldest(r) THEN Unmarked(r) ELSE Empty)
        /\ asked'[r] = {i \in DOMAIN list[r] : Old(list[r][i]) /\ ~Has(cache'[r], list[r][i].ip)}
        /\ asked'[r] # {}
    BY <2>1 DEF ReadFile, Goto, IInv, RequestsOK, JInv, Ranges, NodeRanges
  <2>3. PICK i \in DOMAIN list[r] : Old(list[r][i]) /\ ~Has(cache'[r], list[r][i].ip)
    BY <2>2
  <2>4. \A j \in DOMAIN list[r] : j \in DOMAIN peers /\ peers[j] = list[r][j]
    BY DEF JInv, Progress, StandsStill
  <2>5. Has(file, list[r][i].ip)
    BY <2>3, <2>4 DEF JInv, SettledFile
  <2>6. SameOldest(r)
    <3>1. 1 \in DOMAIN list[r] /\ list[r] # <<>> /\ i \in Nat /\ (i # 1 => 1 < i)
      BY <2>3, LenProperties, EmptySeq DEF IInv, RequestsOK
    <3>2. list[r][1].at <= list[r][i].at /\ list[r][1].at \in Nat /\ list[r][i].at \in Nat
      BY <3>1 DEF JInv, Ranges, RequestRanges, Ordered, Peer
    <3>3. Old(peers[1])
      BY <2>3, <2>4, <3>1, <3>2 DEF Old, IInv, NodeOK
    <3>4. peers # <<>> /\ peers[1] = list[r][1]
      BY <2>4, <3>1, PeersIsSeq
    <3> QED  BY <3>1, <3>3, <3>4 DEF JInv, SettledFile, SameOldest
  <2>7. IsArray(file)
    BY DEF JInv, Ranges, NodeRanges
  <2>8. Has(Unmarked(r), list[r][i].ip)
    BY <2>5, <2>6, <2>7, UnmarkedArray, MarksChangeNothing
  <2> QED  BY <2>2, <2>3, <2>6, <2>8
<1> QED  BY <1>1, SpecInvs, PTL DEF Spec, QuietReloadAsksNothing

\* A request that nothing disturbs and that is told of all it asks for writes a file with
\* every peer that is old enough, whatever others wrote before, or left empty when they
\* died.
THEOREM QuietRequests == Spec => QuietRequestLocatesAll
<1>1. IInv /\ JInv =>
        [\A r \in Requests :
           Put(r) /\ calm[r] /\ ~restarted /\ heard[r] = asked[r] =>
             \A i \in DOMAIN peers : Old(peers[i]) => Has(file', peers[i].ip)]_vars
  <2> SUFFICES ASSUME IInv, JInv, NEW r \in Requests, Put(r), calm[r], ~restarted,
                      heard[r] = asked[r]
               PROVE  \A i \in DOMAIN peers : Old(peers[i]) => Has(file', peers[i].ip)
    OBVIOUS
  <2>1. pc[r] = "write" /\ file' = cache[r] /\ Quiet(r) /\ Told(r)
    BY DEF Put, Quiet, Told
  <2> QED  BY <2>1, WritesEverybody
<1> QED  BY <1>1, SpecInvs, PTL DEF Spec, QuietRequestLocatesAll
=============================================================================

------------------------------ MODULE GeoCache ------------------------------
(***************************************************************************)
(* createPeersGeo() and getIpData(): where the node's peers are, and the   *)
(* file data/geodatapeers.inc that remembers it.                           *)
(*                                                                         *)
(* A page that shows peers asks the node for them, reads the file, goes    *)
(* through the peers to collect the addresses it has no data for, asks the *)
(* geo service in batches, goes through the peers again to look each of    *)
(* them up, and writes the file anew.  Nothing locks the file; meanwhile   *)
(* peers come and go, the node restarts and numbers its peers from 0, and  *)
(* time passes, which matters because only peers older than two minutes    *)
(* are looked up.                                                          *)
(*                                                                         *)
(* The file is a PHP array by peer id, in order of insertion ("pos").  For *)
(* an entry's data stands the address they are the data of.                *)
(***************************************************************************)
EXTENDS Integers, Sequences, FiniteSets, Functions, FiniteSetsExt

CONSTANTS
  Requests,     \* page requests that may run at the same time
  Addrs,        \* addresses of peers
  BatchSize,    \* addresses per call of the geo service (100)
  MaxLookups,   \* addresses looked up per request (1500)
  Earlier,      \* files that requests of the node's earlier run may have left
  MaxPeers,     \* bound: ids the node gives out before it is restarted
  MaxMoves,     \* bound: peers that connect or leave, over all
  MaxClock,     \* bound: times two minutes go by
  MaxFaults     \* bound: restarts of the node, calls of the geo service without an
                \*   answer and requests that die, together

ASSUME GeoAssumption == BatchSize \in Nat \ {0} /\ MaxLookups \in Nat

Ids   == 0..(MaxPeers - 1)
Entry == [ip : Addrs, geo : Addrs, live : BOOLEAN, pos : Nat]

ASSUME EarlierAssumption ==
  \A f \in Earlier :
    /\ DOMAIN f \subseteq Ids
    /\ \A k \in DOMAIN f : f[k] \in Entry /\ f[k].live /\ f[k].geo = f[k].ip
    /\ \A j, k \in DOMAIN f : f[j].pos = f[k].pos => j = k
ASSUME BoundAssumption ==
  /\ MaxPeers \in Nat /\ MaxMoves \in Nat /\ MaxClock \in Nat /\ MaxFaults \in Nat

VARIABLES
  \* The node.
  peers,        \* what getpeerinfo returns: the connections in order of their ids
  nextId, moves, clock,
  \* The disk.
  file,         \* entries by peer id; no entry if it is absent, empty or half-written
  \* Local to a request.
  pc,
  list,         \* $peerinfo
  cache,        \* $arrayPeers
  noGeo,        \* $noGeoData
  asked,        \* positions in list whose address goes to the geo service
  heard,        \* those it answered, $ipData
  shown,        \* what the peers looked at so far are shown with
  \* History.
  calm,         \* did the network stand still since the request asked for the peers?
  settled,      \* ... and has it since the file was written with all of them?
  excused,      \* addresses whose peer turned two minutes old between the two passes, of
                \*   which the geo service did not hear or did not tell, or whose entry
                \*   made room for a peer that has its id now
  restarted,    \* has the node been restarted?
  faults

network == <<peers, nextId, moves, clock>>
local   == <<pc, list, cache, noGeo, asked, heard, shown>>
history == <<calm, settled, excused, restarted>>
vars    == <<network, file, local, history, faults>>

Steps == {"idle", "read", "ask", "show", "write"}
Peer  == [id : Ids, ip : Addrs, at : 0..MaxClock]
Empty == [k \in {} |-> k]

TypeOK ==
  /\ \A i \in DOMAIN peers : peers[i] \in Peer /\ peers[i].id < nextId
  /\ nextId \in 0..MaxPeers /\ moves \in 0..MaxMoves /\ clock \in 0..MaxClock
  /\ DOMAIN file \subseteq Ids /\ \A k \in DOMAIN file : file[k] \in Entry /\ file[k].live
  /\ pc \in [Requests -> Steps]
  /\ \A r \in Requests :
       /\ \A i \in DOMAIN list[r] : list[r][i] \in Peer
       /\ DOMAIN cache[r] \subseteq Ids /\ \A k \in DOMAIN cache[r] : cache[r][k] \in Entry
       /\ heard[r] \subseteq asked[r] /\ asked[r] \subseteq DOMAIN list[r]
       /\ DOMAIN shown[r] \subseteq DOMAIN list[r]
       /\ Range(shown[r]) \subseteq Addrs \union {"New", "Unknown"}
  /\ noGeo \in [Requests -> BOOLEAN] /\ calm \in [Requests -> BOOLEAN] /\ settled \in BOOLEAN
  /\ excused \subseteq Addrs
  /\ restarted \in BOOLEAN /\ faults \in 0..MaxFaults

Init ==
  /\ peers = <<>> /\ nextId = 0 /\ moves = 0 /\ clock = 0
  /\ file \in {Empty} \union Earlier
  /\ pc = [r \in Requests |-> "idle"]
  /\ list = [r \in Requests |-> <<>>] /\ cache = [r \in Requests |-> Empty]
  /\ noGeo = [r \in Requests |-> FALSE]
  /\ asked = [r \in Requests |-> {}] /\ heard = [r \in Requests |-> {}]
  /\ shown = [r \in Requests |-> <<>>]
  /\ calm = [r \in Requests |-> FALSE] /\ settled = FALSE
  /\ excused = {} /\ restarted = (file # Empty)
  /\ faults = IF file = Empty THEN 0 ELSE MaxFaults

----------------------------------------------------------------------------
(* The node and the time.                                                  *)

\* "age > 2" (minutes).
Old(p) == clock > p.at

\* What settled and calm say of the network is over.
Disturb == settled' = FALSE /\ calm' = [r \in Requests |-> FALSE]

Fault == faults < MaxFaults /\ faults' = faults + 1

Connect(a) ==
  /\ nextId < MaxPeers /\ moves < MaxMoves
  /\ peers' = Append(peers, [id |-> nextId, ip |-> a, at |-> clock])
  /\ nextId' = nextId + 1 /\ moves' = moves + 1
  /\ UNCHANGED <<clock, file, local, history, faults>>

Disconnect(i) ==
  /\ moves < MaxMoves /\ moves' = moves + 1
  /\ peers' = [j \in 1..(Len(peers) - 1) |-> IF j < i THEN peers[j] ELSE peers[j + 1]]
  /\ settled' = (settled /\ i # 1) /\ calm' = [r \in Requests |-> FALSE]
  /\ UNCHANGED <<nextId, clock, file, local, excused, restarted, faults>>

Restart ==
  /\ Fault /\ restarted' = TRUE
  /\ peers' = <<>> /\ nextId' = 0
  /\ Disturb
  /\ UNCHANGED <<moves, clock, file, local, excused>>

\* in_array($ip, array_column($arrayPeers, 0))
Has(array, ip) == \E k \in DOMAIN array : array[k].ip = ip

Known(r, ip) == ~noGeo[r] /\ Has(cache[r], ip)

\* Peers a request has passed over in its first pass and not reached in its second.
PassedOver(r) ==
  {i \in DOMAIN list[r] : pc[r] \in {"ask", "show"} /\ i \notin DOMAIN shown[r] \union asked[r]}

\* Those of them that turn two minutes old now.
Ripened(r) == {i \in PassedOver(r) : list[r][i].at = clock /\ ~Known(r, list[r][i].ip)}

Tick ==
  /\ clock < MaxClock /\ clock' = clock + 1
  /\ IF \E i \in DOMAIN peers : peers[i].at = clock THEN Disturb ELSE UNCHANGED <<settled, calm>>
  /\ excused' = excused \union UNION {{list[r][i].ip : i \in Ripened(r)} : r \in Requests}
  /\ UNCHANGED <<peers, nextId, moves, file, local, restarted, faults>>

----------------------------------------------------------------------------
(* createPeersGeo(), up to its second pass.                                *)

Goto(r, step) == pc' = [pc EXCEPT ![r] = step]

\* $coind->getpeerinfo()
GetPeers(r) ==
  /\ pc[r] = "idle" /\ Goto(r, "read")
  /\ list' = [list EXCEPT ![r] = peers]
  /\ calm' = [calm EXCEPT ![r] = TRUE]
  /\ UNCHANGED <<network, file, cache, noGeo, asked, heard, shown, settled, excused,
                 restarted, faults>>

\* The entry the loops over $arrayPeers find first for an address, if there is one.
First(array, ip) ==
  {k \in DOMAIN array : /\ array[k].ip = ip
                        /\ \A j \in DOMAIN array : array[j].ip = ip => array[k].pos <= array[j].pos}

\* Has the oldest peer the id it is stored under?  If not, the whole file is
\* given up.
SameOldest(r) == list[r] # <<>> /\ list[r][1].id \in First(file, list[r][1].ip)

\* Slip: the marks of the last request are never taken back.
UnmarkedNone(r) == file

\* The entries before that of the oldest peer lose their mark; there the loop
\* stops.
Unmarked(r) ==
  [k \in DOMAIN file |->
     IF file[k].pos < file[list[r][1].id].pos THEN [file[k] EXCEPT !.live = FALSE] ELSE file[k]]

\* Reads the file and collects the addresses to look up.
ReadFile(r) ==
  /\ pc[r] = "read"
  /\ noGeo' = [noGeo EXCEPT ![r] = ~SameOldest(r)]
  /\ cache' = [cache EXCEPT ![r] = IF SameOldest(r) THEN Unmarked(r) ELSE Empty]
  /\ asked' = [asked EXCEPT ![r] = {i \in DOMAIN list[r] :
                   Old(list[r][i]) /\ ~Has(cache'[r], list[r][i].ip)}]
  /\ Goto(r, IF asked'[r] = {} THEN "show" ELSE "ask")
  /\ UNCHANGED <<network, file, list, heard, shown, history, faults>>

\* getIpData(): which call an address is part of, and which calls there are.
Place(r, i) == Cardinality({j \in asked[r] : j < i})
Batch(r, i) == Place(r, i) \div BatchSize
Batches(r)  == {Batch(r, i) : i \in {j \in asked[r] : Place(r, j) < MaxLookups}}

\* One call for each batch; one that times out counts as an empty answer.
Ask(r) ==
  /\ pc[r] = "ask" /\ Goto(r, "show")
  /\ \E late \in SUBSET Batches(r) :
       /\ faults + Cardinality(late) <= MaxFaults
       /\ faults' = faults + Cardinality(late)
       /\ heard' = [heard EXCEPT ![r] =
                      {i \in asked[r] : Place(r, i) < MaxLookups /\ Batch(r, i) \notin late}]
  /\ excused' = excused \union {list[r][i].ip : i \in asked[r] \ heard'[r]}
  /\ UNCHANGED <<network, file, list, cache, noGeo, asked, shown, calm, settled, restarted>>

----------------------------------------------------------------------------
(* The second pass, a peer at a time, and the file.                        *)

At(r)  == Len(shown[r]) + 1
Now(r) == list[r][At(r)]
Looking(r) == pc[r] = "show" /\ At(r) <= Len(list[r])

ShowAs(r, geo) == shown' = [shown EXCEPT ![r] = Append(@, geo)]

\* Slip: array_search's FALSE, index 0, for any peer not stored under its id.
EntryOfIdOrOldest(array, p) ==
  IF p.id \in DOMAIN array THEN {p.id}
  ELSE {k \in DOMAIN array : \A j \in DOMAIN array : array[k].pos <= array[j].pos}

\* Where a known peer is looked up: the entry of its id, or else the first of its
\* address.
EntryFor(array, p) == IF p.id \in DOMAIN array THEN {p.id} ELSE First(array, p.ip)

\* Slip: a peer found by its address is shown and not marked.
MarkedNot(array, k) == array

Marked(array, k) == [array EXCEPT ![k].live = TRUE]

ShowKnown(r) ==
  /\ Looking(r) /\ Known(r, Now(r).ip)
  /\ \E k \in EntryFor(cache[r], Now(r)) :
       /\ ShowAs(r, cache[r][k].geo)
       /\ cache' = [cache EXCEPT ![r] = Marked(@, k)]
  /\ UNCHANGED <<network, file, pc, list, noGeo, asked, heard, history, faults>>

\* Slip: the answers are taken to come in the order the peers are shown in.
AnswerInTurn(r, ip) == list[r][Min(heard[r])].ip

\* The answer whose "query" is the address; array_search's FALSE is index 0.
Answer(r, ip) ==
  IF \E i \in heard[r] : list[r][i].ip = ip THEN ip ELSE list[r][Min(heard[r])].ip

Last(array) == Max({array[k].pos : k \in DOMAIN array} \union {0})

\* Slip: the new entry comes without its mark.
StoredUnmarked(array, p, geo) ==
  [k \in DOMAIN array \union {p.id} |->
     IF k = p.id THEN [ip |-> p.ip, geo |-> geo, live |-> FALSE, pos |-> Last(array) + 1]
     ELSE array[k]]

\* $arrayPeers[$id] = ...: in the place of an entry that has the id already.
Stored(array, p, geo) ==
  LET pos == IF p.id \in DOMAIN array THEN array[p.id].pos ELSE Last(array) + 1
  IN  [k \in DOMAIN array \union {p.id} |->
         IF k = p.id THEN [ip |-> p.ip, geo |-> geo, live |-> TRUE, pos |-> pos] ELSE array[k]]

\* A peer there is no data for, older than two minutes, and any answer at all.
ShowFound(r) ==
  /\ Looking(r) /\ ~Known(r, Now(r).ip) /\ Old(Now(r)) /\ heard[r] # {}
  /\ ShowAs(r, Answer(r, Now(r).ip))
  /\ cache' = [cache EXCEPT ![r] = Stored(@, Now(r), Answer(r, Now(r).ip))]
  /\ excused' = excused \union {cache[r][k].ip : k \in {Now(r).id} \intersect DOMAIN cache[r]}
  /\ UNCHANGED <<network, file, pc, list, noGeo, asked, heard, calm, settled, restarted, faults>>

\* No answer, or too young: shown as such, and not stored.
ShowUnknown(r) ==
  /\ Looking(r) /\ ~Known(r, Now(r).ip) /\ (heard[r] = {} \/ ~Old(Now(r)))
  /\ ShowAs(r, IF Old(Now(r)) THEN "Unknown" ELSE "New")
  /\ UNCHANGED <<network, file, pc, list, cache, noGeo, asked, heard, history, faults>>

\* Slip: entries without a mark stay.
KeptAll(array) == array

Kept(array) == Restrict(array, {k \in DOMAIN array : array[k].live})

\* Drops the entries without a mark; file_put_contents opens and empties the
\* file ...
Truncate(r) ==
  /\ pc[r] = "show" /\ At(r) > Len(list[r]) /\ Goto(r, "write")
  /\ cache' = [cache EXCEPT ![r] = Kept(@)]
  /\ file' = Empty
  /\ settled' = FALSE
  /\ UNCHANGED <<network, list, noGeo, asked, heard, shown, calm, excused, restarted,
                 faults>>

Finish(r) ==
  /\ Goto(r, "idle")
  /\ list' = [list EXCEPT ![r] = <<>>] /\ cache' = [cache EXCEPT ![r] = Empty]
  /\ noGeo' = [noGeo EXCEPT ![r] = FALSE] /\ calm' = [calm EXCEPT ![r] = FALSE]
  /\ asked' = [asked EXCEPT ![r] = {}] /\ heard' = [heard EXCEPT ![r] = {}]
  /\ shown' = [shown EXCEPT ![r] = <<>>]

\* ... and then writes it.
Put(r) ==
  /\ pc[r] = "write"
  /\ file' = cache[r]
  /\ settled' = (calm[r] /\ (asked[r] = {} \/ heard[r] # {}))
  /\ Finish(r)
  /\ UNCHANGED <<network, excused, restarted, faults>>

\* getpeerinfo throws, the time limit, the process ends.
Abort(r) ==
  /\ pc[r] # "idle" /\ Fault
  /\ Finish(r)
  /\ UNCHANGED <<network, file, settled, excused, restarted>>

----------------------------------------------------------------------------

Step(r) ==
  \/ GetPeers(r) \/ ReadFile(r) \/ Ask(r)
  \/ ShowKnown(r) \/ ShowFound(r) \/ ShowUnknown(r)
  \/ Truncate(r) \/ Put(r)

Next ==
  \/ \E a \in Addrs : Connect(a)
  \/ \E i \in DOMAIN peers : Disconnect(i)
  \/ Restart \/ Tick
  \/ \E r \in Requests : Step(r) \/ Abort(r)

Spec == Init /\ [][Next]_vars

----------------------------------------------------------------------------
(* Properties.                                                             *)

\* However requests overlap, die and overwrite each other's file, and however
\* often the node numbers its peers anew: a stored entry holds the data of its
\* own address, but for the three ways to look up an address of which the
\* service has not told.
EntriesAreTruthful ==
  \A k \in DOMAIN file : file[k].geo = file[k].ip \/ file[k].ip \in excused

\* While the node is not restarted, a peer is shown where it is or not at all,
\* with the same exceptions: entries found by id are found by address, too.
ShownIsTheirs ==
  ~restarted =>
    \A r \in Requests : \A i \in DOMAIN shown[r] :
      \/ shown[r][i] \in {list[r][i].ip, "New", "Unknown"}
      \/ list[r][i].ip \in excused

\* "A page reload only causes an API request if new peers connected since the last
\* load": true as long as the oldest peer stays, whoever else writes the file.
QuietReloadAsksNothing ==
  [][\A r \in Requests :
       pc[r] = "read" /\ pc'[r] = "ask" => restarted \/ ~(settled /\ calm[r])]_vars

\* Until a restart lets peers displace each other's entries, and whatever other
\* requests wrote before, or left empty when they died: a request during which the
\* network stood still and which heard of every address it asked for leaves each
\* peer older than two minutes in the file.
QuietRequestLocatesAll ==
  [][\A r \in Requests :
       Put(r) /\ calm[r] /\ ~restarted /\ heard[r] = asked[r] =>
         \A i \in DOMAIN peers : Old(peers[i]) => Has(file', peers[i].ip)]_vars

\* "Removes all peers that the node is not connected to anymore": it does for the
\* entries stored before the oldest peer's, unless, after a restart, the id of one is
\* that of another peer now, and for no other.
OnlyBehindTheOldestOutlive ==
  \A r \in Requests : pc[r] = "write" =>
    \A k \in DOMAIN cache[r] :
      \/ \E i \in DOMAIN list[r] :
           list[r][i].ip = cache[r][k].ip \/ (restarted /\ list[r][i].id = k)
      \/ \E j \in First(cache[r], list[r][1].ip) : cache[r][j].pos < cache[r][k].pos
=============================================================================

----------------------------- MODULE PeerFigures -----------------------------
(***************************************************************************)
(* What the main page and the peers page compute from the list of peers:   *)
(* the services a peer announces (getServices), and the charts of clients  *)
(* and of countries (getTopClients, createMapJs).  Pages says what they    *)
(* stand for.                                                              *)
(***************************************************************************)
EXTENDS Integers, Sequences, FiniteSets, Functions, FiniteSetsExt, SequencesExt

CONSTANTS
  Bits,        \* bits that occur in a service mask
  Names,       \* clients' names
  Cut,         \* a name's first 27 characters, by name
  Shown,       \* entries of a legend before "Other" (9)
  Other,       \* the key of the last one
  MaxPeers     \* bound: peers in a list

ASSUME FiguresAssumption ==
  /\ Bits \subseteq Nat /\ IsFiniteSet(Bits) /\ Shown \in Nat \ {0} /\ MaxPeers \in Nat
  /\ \A n \in Names : Cut[n] \notin Names \/ Cut[Cut[n]] = Cut[n]

----------------------------------------------------------------------------
(* getServices().                                                          *)

\* The binary digits of a mask, read as a decimal number and padded to ten places,
\* from the right.  Beyond 19 places the number is PHP_INT_MAX.
PhpIntMax == <<7, 0, 8, 5, 7, 7, 4, 5, 8, 6, 3, 0, 2, 7, 3, 3, 2, 2, 9>>

Digits(mask) ==
  LET top == Max(mask \union {0})
  IN  IF top >= Len(PhpIntMax) THEN PhpIntMax
      ELSE [i \in 1..Max({10, top + 1}) |-> IF i - 1 \in mask THEN 1 ELSE 0]

\* substr($bit, -place, 1): before the start it is the first character.
Digit(digits, place) == digits[Min({place, Len(digits)})]

\* Place of each service's digit from the right.
Services == {"Network", "Getutxo", "Bloom", "Witness", "Xthin", "Cash", "Segwit2X",
             "Network Limited"}
Place == [s \in Services |->
            CASE s = "Network" -> 1 [] s = "Getutxo" -> 2 [] s = "Bloom" -> 3
              [] s = "Witness" -> 4 [] s = "Xthin" -> 5 [] s = "Cash" -> 6
              [] s = "Segwit2X" -> 8 [] s = "Network Limited" -> 11]

\* Slip: bit 10 taken for the tenth place.
ServicesAtTen(mask) ==
  LET found == {s \in Services : Digit(Digits(mask), Min({Place[s], 10})) = 1}
  IN  IF mask = {} THEN {"None"} ELSE IF found = {} THEN {"Unknown"} ELSE found

getServices(mask) ==
  LET found == {s \in Services : Digit(Digits(mask), Place[s]) = 1}
  IN  IF mask = {} THEN {"None"} ELSE IF found = {} THEN {"Unknown"} ELSE found

----------------------------------------------------------------------------
(* getTopClients() and createMapJs().                                      *)

\* Slip: the whole name is counted next to its first characters.
CountedUnderBoth(counts, n) ==
  [k \in DOMAIN counts \union {Cut[n], n} |->
     IF k \notin {Cut[n], n} THEN counts[k] ELSE IF k \in DOMAIN counts THEN counts[k] + 1 ELSE 1]

\* A client counts under the first characters of its name; whether it was counted
\* before is asked of the whole name.
Counted(counts, n) ==
  LET old == IF n \in DOMAIN counts THEN counts[Cut[n]] ELSE 0
  IN  [k \in DOMAIN counts \union {Cut[n]} |-> IF k = Cut[n] THEN old + 1 ELSE counts[k]]

ClientCounts(list) == FoldLeft(Counted, [k \in {} |-> 0], list)

\* createPeersGeo() counts countries by their whole name.
CountryCounts(list) ==
  [n \in Range(list) |-> Cardinality({i \in DOMAIN list : list[i] = n})]

\* The entries that come first when the counts are sorted; which of equal ones is
\* up to the sort.
Tops(counts) ==
  {top \in kSubset(Min({Shown, Cardinality(DOMAIN counts)}), DOMAIN counts) :
     \A k \in top, l \in DOMAIN counts \ top : counts[k] >= counts[l]}

\* The legend: these, and one for the number of names left out.
Legend(counts, top) ==
  [k \in top \union (IF top = DOMAIN counts THEN {} ELSE {Other}) |->
     IF k \in top THEN counts[k] ELSE Cardinality(DOMAIN counts) - Cardinality(top)]

\* The peers a legend counts.
Total(legend) == FoldFunction(LAMBDA m, n : m + n, 0, legend)

Lists == UNION {[1..n -> Names] : n \in 0..MaxPeers}
=============================================================================

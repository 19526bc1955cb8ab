------------------------------ MODULE MCPages ------------------------------
(* A small instance of Pages, with the figures of PeerFigures, for TLC. *)
EXTENDS Pages
CONSTANTS btc, sca, c1, c2, short, long1, long2

TwoCoins == {btc, sca}

\* The bits getServices reads, those next to them, and the two around the width of
\* an integer.
ReadBits == (0..11) \union {18, 19}

\* Two long names with the same first characters, which are a name themselves.
FiveNames == {c1, c2, short, long1, long2}
CutNames == [n \in FiveNames |-> IF n \in {long1, long2} THEN short ELSE n]
=============================================================================

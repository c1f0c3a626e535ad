------------------------------ MODULE MCAppCache ------------------------------
EXTENDS AppCache, TLC

CONSTANTS r1, r2, w1, w2, a, b, ka, kab

\* Two rows, an item computed from one of them, and one computed from both
\* that takes the room of two.
TwoItems == [k \in {ka, kab} |-> IF k = ka THEN {a} ELSE {a, b}]
UnequalSizes == [k \in {ka, kab} |-> IF k = kab THEN 2 ELSE 1]

OneItem == [k \in {ka} |-> {a}]
OneSize == [k \in {ka} |-> 1]

\* The writers are alike, and so are the readers.
PeerSymmetry == Permutations({w1, w2}) \cup Permutations({r1, r2})

=============================================================================

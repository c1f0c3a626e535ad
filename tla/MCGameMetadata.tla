--------------------------- MODULE MCGameMetadata ---------------------------
EXTENDS GameMetadata, TLC
CONSTANTS g1, g2, p1, p2, p3, c1, c2, c3, unfreezer

Row1(state, archive, packs) ==
    [state |-> state, archive |-> archive, packs |-> packs]

\* Two games that are due, one of them deleted, or an available game beside
\* one that is yet to be imported.
FirstRows ==
    {[g \in Games |-> IF g = g1 THEN Row1("deleted", "archived", {p1})
                                ELSE Row1("live", "archived", {})],
     [g \in Games |-> IF g = g1 THEN Row1("live", "available", {p1})
                                ELSE AbsentRow]}

\* One game that is due.
OneFrozenRow == {[g \in Games |-> Row1("live", "archived", {})]}
=============================================================================

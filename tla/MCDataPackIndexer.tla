-------------------------- MODULE MCDataPackIndexer --------------------------
EXTENDS DataPackIndexer, TLC
CONSTANTS f1, f2

\* A pack of two files, and one with nothing to index.
PackContents == [p \in Packs |-> IF p = "two" THEN {f1, f2} ELSE {}]
=============================================================================

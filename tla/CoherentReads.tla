---------------------------- MODULE CoherentReads ----------------------------
(***************************************************************************)
(* What the application cache promises its callers: a read answers with    *)
(* the committed rows of the moment it answers, or fails.  No answer is    *)
(* older than that, whichever writes, evictions and shared loads the read  *)
(* met on the way.                                                         *)
(***************************************************************************)
EXTENDS Naturals

CONSTANTS
    Dependencies,   \* rows the cached data is computed from
    Keys,           \* cached items
    DependsOn,      \* the rows each item is computed from
    Readers,        \* callers
    None,           \* no item
    Failure         \* the answer of a read that failed

VARIABLES
    db,         \* version of every row in the database
    asked,      \* what each reader is waiting for
    answer      \* what it got from its last read

vars == <<db, asked, answer>>

\* What an item is worth when the database is d.
Value(k, d) == [x \in DependsOn[k] |-> d[x]]

Init ==
    /\ db = [x \in Dependencies |-> 0]
    /\ asked = [r \in Readers |-> None]
    /\ answer = [r \in Readers |-> Failure]

Commit ==
    /\ \E D \in SUBSET Dependencies :
         db' = [x \in Dependencies |-> IF x \in D THEN db[x] + 1 ELSE db[x]]
    /\ UNCHANGED <<asked, answer>>

Ask(r) ==
    /\ asked[r] = None
    /\ \E k \in Keys : asked' = [asked EXCEPT ![r] = k]
    /\ answer' = [answer EXCEPT ![r] = Failure]
    /\ UNCHANGED db

Answer(r) ==
    /\ asked[r] \in Keys
    /\ asked' = [asked EXCEPT ![r] = None]
    /\ answer' = [answer EXCEPT ![r] = Value(asked[r], db)]
    /\ UNCHANGED db

Fail(r) ==
    /\ asked[r] # None
    /\ asked' = [asked EXCEPT ![r] = None]
    /\ answer' = [answer EXCEPT ![r] = Failure]
    /\ UNCHANGED db

Next == Commit \/ \E r \in Readers : Ask(r) \/ Answer(r) \/ Fail(r)

Spec == Init /\ [][Next]_vars

=============================================================================

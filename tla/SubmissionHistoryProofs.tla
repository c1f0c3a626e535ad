----------------------- MODULE SubmissionHistoryProofs -----------------------
(***************************************************************************)
(* Facts about histories and their replay, for every number of users and   *)
(* every history: what appending rows and soft deleting rows preserves,    *)
(* and that the enabler and disabler sets of caching.go exclude each       *)
(* other.                                                                  *)
(***************************************************************************)
EXTENDS HistoryReduction, SequenceTheorems, WellFoundedInduction, TLAPS

\* The submission the history belongs to is settled in one way at most: one
\* live mark-added at most, and none beside a live reject.
AddedOnce(h) ==
    \A i, j \in DOMAIN h :
        /\ h[i].live /\ h[i].action = "mark-added"
        /\ h[j].live /\ h[j].action = "mark-added"
        => i = j

NotBoth(h) == ~ {"reject", "mark-added"} \subseteq LiveActions(h)

\* Rows of history r do not settle anything.
Unsettling(r) ==
    \A i \in DOMAIN r : r[i].action \notin {"mark-added", "reject"}

\* Soft deletion of the rows in "dead", as Kill of SubmissionReview does it.
Deleted(h, dead) ==
    [i \in DOMAIN h |-> IF i \in dead THEN [h[i] EXCEPT !.live = FALSE] ELSE h[i]]

-----------------------------------------------------------------------------
\* A row written by an author of the system is a row of the tables.
LEMMA RowTyped ==
    ASSUME NEW u \in Authors, NEW a \in Actions \cup {"file"}
    PROVE  Row(u, a) \in RowType
BY DEF Row, RowType

\* Positions and rows of a history, as the provers need them.
LEMMA HistoryShape ==
    ASSUME NEW h \in History
    PROVE  /\ Len(h) \in Nat
           /\ DOMAIN h = 1 .. Len(h)
           /\ \A i \in DOMAIN h : h[i] \in RowType
BY DEF History

\* Appending rows to a history: where every row ends up.
LEMMA Appending ==
    ASSUME NEW h \in History, NEW r \in History
    PROVE  /\ h \o r \in History
           /\ Len(h \o r) = Len(h) + Len(r)
           /\ \A i \in DOMAIN h : i \in DOMAIN (h \o r) /\ (h \o r)[i] = h[i]
           /\ \A i \in DOMAIN (h \o r) \ DOMAIN h :
                i - Len(h) \in DOMAIN r /\ (h \o r)[i] = r[i - Len(h)]
BY ConcatProperties, HistoryShape DEF History

\* The rows of one transaction, however they are grouped.
LEMMA Grouping ==
    ASSUME NEW x \in History, NEW y \in History, NEW z \in History
    PROVE  (x \o y) \o z = x \o (y \o z)
BY ConcatAssociative DEF History

\* Soft deletion changes no row but its live flag.
LEMMA Deleting ==
    ASSUME NEW h \in History, NEW dead
    PROVE  /\ Deleted(h, dead) \in History
           /\ DOMAIN Deleted(h, dead) = DOMAIN h
           /\ \A i \in DOMAIN h :
                /\ Deleted(h, dead)[i].action = h[i].action
                /\ Deleted(h, dead)[i].by = h[i].by
                /\ Deleted(h, dead)[i].live => h[i].live
<1> DEFINE d == Deleted(h, dead)
<1>1. Len(h) \in Nat /\ DOMAIN h = 1 .. Len(h) /\ \A i \in DOMAIN h : h[i] \in RowType
  BY HistoryShape
<1>2. \A i \in DOMAIN h : d[i] \in RowType
  BY <1>1 DEF Deleted, RowType
<1>3. d \in [1 .. Len(h) -> RowType]
  BY <1>1, <1>2 DEF Deleted
<1>4. d \in History
  BY <1>1, <1>3, SeqDef DEF History
<1> QED
  BY <1>1, <1>4 DEF Deleted, RowType

\* The replayed row has the columns of submission_cache.
LEMMA ReplayTyped ==
    ASSUME NEW h \in History
    PROVE  Replay(h) \in CacheType
<1>1. LiveActions(h) \in SUBSET Actions /\ BotAction(h) \in SUBSET Actions
  BY DEF LiveActions, BotAction
<1>2. OldestUploader(h) \in SUBSET Users /\ NewestUploader(h) \in SUBSET Users
  BY DEF OldestUploader, NewestUploader
<1>3. \A e, d : /\ ActiveUsers(h, e, d) \in SUBSET Users
                /\ ActiveUsersOnNewest(h, e, d) \in SUBSET Users
  BY DEF ActiveUsers, ActiveUsersOnNewest
<1>4. {"reject"} \in SUBSET Actions
  BY DEF Actions
<1> QED
  BY <1>1, <1>2, <1>3, <1>4 DEF Replay, CacheType

-----------------------------------------------------------------------------
\* Who requests changes with the latest of those comments has not approved or
\* verified after it, and the other way round: each kind of comment disables
\* the other (caching.go:38-52).
LEMMA RequestExcludesDecision ==
    ASSUME NEW h \in History
    PROVE  Replay(h).changes \cap (Replay(h).approved \cup Replay(h).verified) = {}
<1> DEFINE Requests == ActiveUsers(h, {"request-changes"}, RequestDisablers)
<1>1. ASSUME NEW a \in {"approve", "verify"}
      PROVE  Requests \cap ActiveUsersOnNewest(h, {a}, DecisionDisablers) = {}
  <2> SUFFICES ASSUME NEW u \in Requests,
                      u \in ActiveUsersOnNewest(h, {a}, DecisionDisablers)
               PROVE  FALSE
    OBVIOUS
  <2>1. PICK i \in DOMAIN h :
          /\ Written(h, i, u, {"request-changes"})
          /\ \A j \in DOMAIN h : Written(h, j, u, RequestDisablers) => j < i
    BY DEF ActiveUsers
  <2>2. PICK k \in DOMAIN h :
          /\ Written(h, k, u, {a})
          /\ \A j \in DOMAIN h : Written(h, j, u, DecisionDisablers) => j < k
    BY DEF ActiveUsersOnNewest
  <2>3. k < i
    BY <2>1, <2>2 DEF Written, RequestDisablers
  <2>4. i < k
    BY <2>1, <2>2 DEF Written, DecisionDisablers
  <2> QED
    BY <2>3, <2>4, HistoryShape
<1>2. Rejected(h) => Replay(h).changes = {}
  BY DEF Replay
<1>3. ~ Rejected(h) => /\ Replay(h).changes = Requests
                       /\ Replay(h).approved =
                            ActiveUsersOnNewest(h, {"approve"}, DecisionDisablers)
                       /\ Replay(h).verified =
                            ActiveUsersOnNewest(h, {"verify"}, DecisionDisablers)
  BY DEF Replay
<1> QED
  BY <1>1, <1>2, <1>3

\* What the validator of comments concludes from the cache row of a history.
LEMMA ReplayTells ==
    ASSUME NEW h \in History
    PROVE  /\ "mark-added" \notin Replay(h).actions /\ Replay(h).verified # {}
                => LiveActions(h) \cap {"mark-added", "reject"} = {}
           /\ "mark-added" \notin Replay(h).actions /\ "reject" \notin Replay(h).actions
                => LiveActions(h) \cap {"mark-added", "reject"} = {}
BY DEF Replay, Rejected

-----------------------------------------------------------------------------
\* Rows that settle nothing, one transaction's worth after another.
LEMMA UnsettlingConcat ==
    ASSUME NEW x \in History, NEW y \in History, Unsettling(x), Unsettling(y)
    PROVE  x \o y \in History /\ Unsettling(x \o y)
<1>1. x \o y \in History
  BY Appending
<1>2. ASSUME NEW i \in DOMAIN (x \o y)
      PROVE  (x \o y)[i].action \notin {"mark-added", "reject"}
  <2>1. CASE i \in DOMAIN x
    BY <2>1, Appending DEF Unsettling
  <2>2. CASE i \notin DOMAIN x
    BY <2>2, Appending DEF Unsettling
  <2> QED
    BY <2>1, <2>2
<1> QED
  BY <1>1, <1>2 DEF Unsettling

\* Rows that settle nothing leave a settled history as it is.
LEMMA UnsettlingRows ==
    ASSUME NEW h \in History, NEW r \in History,
           AddedOnce(h), NotBoth(h), Unsettling(r)
    PROVE  AddedOnce(h \o r) /\ NotBoth(h \o r)
<1> DEFINE n == h \o r
<1>1. \A i \in DOMAIN n : n[i].action \in {"mark-added", "reject"}
                             => i \in DOMAIN h /\ n[i] = h[i]
  BY Appending DEF Unsettling
<1>2. AddedOnce(n)
  BY <1>1 DEF AddedOnce
<1>3. LiveActions(n) \cap {"mark-added", "reject"} \subseteq LiveActions(h)
  BY <1>1 DEF LiveActions
<1> QED
  BY <1>2, <1>3 DEF NotBoth

\* The first settling row settles the history; later rows of the same
\* transaction do not.
LEMMA SettlingRow ==
    ASSUME NEW h \in History, NEW r \in History, NEW row \in RowType,
           LiveActions(h) \cap {"mark-added", "reject"} = {},
           Unsettling(r)
    PROVE  AddedOnce(h \o (<<row>> \o r)) /\ NotBoth(h \o (<<row>> \o r))
<1> DEFINE t == <<row>> \o r
           n == h \o t
<1>1. <<row>> \in History /\ Len(<<row>>) = 1 /\ <<row>>[1] = row /\ DOMAIN <<row>> = {1}
  BY DEF History
<1>2. t \in History /\ \A i \in DOMAIN t \ {1} : t[i].action \notin {"mark-added", "reject"}
  <2>1. t \in History
    BY <1>1, Appending
  <2>2. \A i \in DOMAIN t \ {1} : i - 1 \in DOMAIN r /\ t[i] = r[i - 1]
    BY <1>1, Appending
  <2> QED
    BY <2>1, <2>2 DEF Unsettling
<1> HIDE DEF t
<1>3. \A i \in DOMAIN h : h[i].live => h[i].action \notin {"mark-added", "reject"}
  BY DEF LiveActions, Actions
<1>4. \A i \in DOMAIN n : n[i].live /\ n[i].action \in {"mark-added", "reject"}
                             => i = Len(h) + 1
  <2> SUFFICES ASSUME NEW i \in DOMAIN n, n[i].live,
                      n[i].action \in {"mark-added", "reject"}
               PROVE  i = Len(h) + 1
    OBVIOUS
  <2>1. n \in History /\ Len(h) \in Nat /\ i \in Nat
    BY <1>2, Appending, HistoryShape
  <2>2. i \notin DOMAIN h
    BY <1>2, <1>3, Appending
  <2>3. i - Len(h) \in DOMAIN t /\ n[i] = t[i - Len(h)]
    BY <1>2, <2>2, Appending
  <2>4. i - Len(h) = 1
    BY <1>2, <2>3
  <2> QED
    BY <2>1, <2>4
<1>5. AddedOnce(n)
  BY <1>4 DEF AddedOnce
<1>6. NotBoth(n)
  BY <1>4 DEF NotBoth, LiveActions
<1> QED
  BY <1>5, <1>6 DEF t

\* Soft deletion unsettles at most.
LEMMA DeletingRows ==
    ASSUME NEW h \in History, NEW dead, AddedOnce(h), NotBoth(h)
    PROVE  AddedOnce(Deleted(h, dead)) /\ NotBoth(Deleted(h, dead))
<1>1. AddedOnce(Deleted(h, dead))
  BY Deleting DEF AddedOnce
<1>2. LiveActions(Deleted(h, dead)) \subseteq LiveActions(h)
  BY Deleting DEF LiveActions
<1> QED
  BY <1>1, <1>2 DEF NotBoth

-----------------------------------------------------------------------------
(* What appended rows do to the sets of active users *)

\* r holds a row of u with one of the actions.
Wrote(r, u, acts) == \E i \in DOMAIN r : Written(r, i, u, acts)

\* Every row of r is one of the rows in S.
RowsIn(r, S) == \A i \in DOMAIN r : r[i] \in S

\* An old row says after the append what it said before.
LEMMA OldRow ==
    ASSUME NEW h \in History, NEW r \in History, NEW i \in DOMAIN h
    PROVE  /\ i \in DOMAIN (h \o r)
           /\ \A u, acts : Written(h \o r, i, u, acts) <=> Written(h, i, u, acts)
           /\ LiveFile(h \o r, i) <=> LiveFile(h, i)
BY Appending DEF Written, LiveFile

\* A new row says what it said in r.
LEMMA NewRow ==
    ASSUME NEW h \in History, NEW r \in History, NEW i \in DOMAIN r
    PROVE  /\ Len(h) + i \in DOMAIN (h \o r)
           /\ \A u, acts : Written(h \o r, Len(h) + i, u, acts) <=> Written(r, i, u, acts)
           /\ LiveFile(h \o r, Len(h) + i) <=> LiveFile(r, i)
<1>1. /\ Len(h) \in Nat /\ Len(r) \in Nat /\ i \in 1 .. Len(r)
      /\ DOMAIN h = 1 .. Len(h) /\ DOMAIN (h \o r) = 1 .. (Len(h) + Len(r))
  BY Appending, HistoryShape
<1>2. Len(h) + i \in DOMAIN (h \o r) \ DOMAIN h /\ (Len(h) + i) - Len(h) = i
  BY <1>1
<1>3. (h \o r)[Len(h) + i] = r[i]
  BY <1>2, Appending
<1> QED
  BY <1>2, <1>3 DEF Written, LiveFile

\* There are no others.
LEMMA AnyRow ==
    ASSUME NEW h \in History, NEW r \in History, NEW i \in DOMAIN (h \o r)
    PROVE  i \in DOMAIN h \/ \E k \in DOMAIN r : i = Len(h) + k
<1>1. Len(h) \in Nat /\ Len(h \o r) \in Nat /\ DOMAIN (h \o r) = 1 .. Len(h \o r)
  BY Appending, HistoryShape
<1>2. CASE i \notin DOMAIN h
  <2>1. i - Len(h) \in DOMAIN r /\ i = Len(h) + (i - Len(h))
    BY <1>1, <1>2, Appending
  <2> QED
    BY <2>1
<1> QED
  BY <1>2

\* Rows come before the rows appended after them.
LEMMA RowOrder ==
    ASSUME NEW h \in History, NEW r \in History,
           NEW i \in DOMAIN h, NEW k \in DOMAIN r
    PROVE  /\ i \in Nat /\ k \in Nat /\ Len(h) \in Nat
           /\ i < Len(h) + k
BY HistoryShape

\* Who is active after an append was active before, or wrote an enabling row.
LEMMA ActiveGrows ==
    ASSUME NEW h \in History, NEW r \in History, NEW e, NEW d,
           NEW u \in ActiveUsers(h \o r, e, d)
    PROVE  u \in ActiveUsers(h, e, d) \/ Wrote(r, u, e)
<1>1. PICK i \in DOMAIN (h \o r) :
        /\ Written(h \o r, i, u, e)
        /\ \A j \in DOMAIN (h \o r) : Written(h \o r, j, u, d) => j < i
  BY DEF ActiveUsers
<1>2. CASE i \in DOMAIN h
  <2>1. /\ Written(h, i, u, e)
        /\ \A j \in DOMAIN h : Written(h, j, u, d) => j < i
    BY <1>1, <1>2, OldRow
  <2> QED
    BY <1>2, <2>1 DEF ActiveUsers
<1>3. CASE \E k \in DOMAIN r : i = Len(h) + k
  BY <1>1, <1>3, NewRow DEF Wrote
<1> QED
  BY <1>2, <1>3, AnyRow

\* Who was active and writes no disabling row stays active.
LEMMA ActiveStays ==
    ASSUME NEW h \in History, NEW r \in History, NEW e, NEW d,
           NEW u \in ActiveUsers(h, e, d), ~ Wrote(r, u, d)
    PROVE  u \in ActiveUsers(h \o r, e, d)
<1>1. PICK i \in DOMAIN h :
        /\ Written(h, i, u, e)
        /\ \A j \in DOMAIN h : Written(h, j, u, d) => j < i
  BY DEF ActiveUsers
<1>2. i \in DOMAIN (h \o r) /\ Written(h \o r, i, u, e)
  BY <1>1, OldRow
<1>3. ASSUME NEW j \in DOMAIN (h \o r), Written(h \o r, j, u, d)
      PROVE  j < i
  <2>1. j \in DOMAIN h
    BY <1>3, AnyRow, NewRow DEF Wrote
  <2> QED
    BY <1>1, <1>3, <2>1, OldRow
<1> QED
  BY <1>2, <1>3 DEF ActiveUsers

\* The same for the newest version, as long as it stays the newest or a file
\* comes first in r: then only rows of r count.
LEMMA NewestGrows ==
    ASSUME NEW h \in History, NEW r \in History, NEW e, NEW d,
           NEW u \in ActiveUsersOnNewest(h \o r, e, d)
    PROVE  \/ Wrote(r, u, e)
           \/ u \in ActiveUsersOnNewest(h, e, d) /\ \A k \in DOMAIN r : ~ LiveFile(r, k)
<1>1. PICK i \in DOMAIN (h \o r) :
        /\ Written(h \o r, i, u, e)
        /\ OnNewestFile(h \o r, i)
        /\ \A j \in DOMAIN (h \o r) : Written(h \o r, j, u, d) => j < i
  BY DEF ActiveUsersOnNewest
<1>2. CASE i \in DOMAIN h
  <2>1. \A k \in DOMAIN r : ~ LiveFile(r, k)
    <3> SUFFICES ASSUME NEW k \in DOMAIN r, LiveFile(r, k) PROVE FALSE
      OBVIOUS
    <3>1. Len(h) + k < i
      BY <1>1, NewRow DEF OnNewestFile
    <3> QED
      BY <1>2, <3>1, RowOrder
  <2>2. /\ \A k \in DOMAIN h : LiveFile(h, k) => k < i
        /\ \E k \in DOMAIN h : LiveFile(h, k)
    <3>1. PICK k \in DOMAIN (h \o r) : LiveFile(h \o r, k)
      BY <1>1 DEF OnNewestFile
    <3>2. k \in DOMAIN h
      BY <2>1, <3>1, AnyRow, NewRow
    <3> QED
      BY <1>1, <3>1, <3>2, OldRow DEF OnNewestFile
  <2>3. /\ Written(h, i, u, e)
        /\ \A j \in DOMAIN h : Written(h, j, u, d) => j < i
    BY <1>1, <1>2, OldRow
  <2>4. u \in ActiveUsersOnNewest(h, e, d)
    BY <1>2, <2>2, <2>3 DEF ActiveUsersOnNewest, OnNewestFile
  <2> QED
    BY <2>1, <2>4
<1>3. CASE \E k \in DOMAIN r : i = Len(h) + k
  BY <1>1, <1>3, NewRow DEF Wrote
<1> QED
  BY <1>2, <1>3, AnyRow

\* Rows that begin with a file and hold an enabling row of u after every file
\* and after every disabling row of u make u active on the new version.
LEMMA NewestGains ==
    ASSUME NEW h \in History, NEW r \in History, NEW e, NEW d, NEW u \in Users,
           \E k \in DOMAIN r : LiveFile(r, k),
           NEW i \in DOMAIN r, Written(r, i, u, e),
           \A k \in DOMAIN r : LiveFile(r, k) \/ Written(r, k, u, d) => k < i
    PROVE  u \in ActiveUsersOnNewest(h \o r, e, d)
<1> DEFINE m == Len(h) + i
<1>1. m \in DOMAIN (h \o r) /\ Written(h \o r, m, u, e)
  BY NewRow
<1>2. \E k \in DOMAIN (h \o r) : LiveFile(h \o r, k)
  BY NewRow
<1>3. ASSUME NEW k \in DOMAIN (h \o r),
             LiveFile(h \o r, k) \/ Written(h \o r, k, u, d)
      PROVE  k < m
  <2>1. CASE k \in DOMAIN h
    BY <2>1, RowOrder
  <2>2. CASE \E j \in DOMAIN r : k = Len(h) + j
    <3>1. PICK j \in DOMAIN r : k = Len(h) + j
      BY <2>2
    <3>2. j < i
      BY <1>3, <3>1, NewRow
    <3> QED
      BY <3>1, <3>2, HistoryShape
  <2> QED
    BY <2>1, <2>2, AnyRow
<1> QED
  BY <1>1, <1>2, <1>3 DEF ActiveUsersOnNewest, OnNewestFile

\* The rows of two sequences, one after the other.
LEMMA WroteConcat ==
    ASSUME NEW x \in History, NEW y \in History, NEW u, NEW acts,
           Wrote(x \o y, u, acts)
    PROVE  Wrote(x, u, acts) \/ Wrote(y, u, acts)
<1>1. PICK i \in DOMAIN (x \o y) : Written(x \o y, i, u, acts)
  BY DEF Wrote
<1>2. CASE i \in DOMAIN x
  BY <1>1, <1>2, OldRow DEF Wrote
<1>3. CASE \E k \in DOMAIN y : i = Len(x) + k
  BY <1>1, <1>3, NewRow DEF Wrote
<1> QED
  BY <1>2, <1>3, AnyRow

LEMMA NewRowsIn ==
    ASSUME NEW h \in History, NEW r \in History, NEW S, RowsIn(r, S)
    PROVE  \A i \in DOMAIN (h \o r) \ DOMAIN h : (h \o r)[i] \in S
<1> TAKE i \in DOMAIN (h \o r) \ DOMAIN h
<1>1. i - Len(h) \in DOMAIN r /\ (h \o r)[i] = r[i - Len(h)]
  BY Appending
<1> QED
  BY <1>1 DEF RowsIn

LEMMA RowsInConcat ==
    ASSUME NEW x \in History, NEW y \in History, NEW S, RowsIn(x, S), RowsIn(y, S)
    PROVE  RowsIn(x \o y, S)
<1> SUFFICES ASSUME NEW i \in DOMAIN (x \o y) PROVE (x \o y)[i] \in S
  BY DEF RowsIn
<1>1. CASE i \in DOMAIN x
  BY <1>1, Appending DEF RowsIn
<1>2. CASE i \notin DOMAIN x
  BY <1>2, Appending DEF RowsIn
<1> QED
  BY <1>1, <1>2

\* A rejection stays where it is.
LEMMA RejectionStays ==
    ASSUME NEW h \in History, NEW r \in History
    PROVE  LiveActions(h \o r) = LiveActions(h) \cup LiveActions(r)
<1>1. ASSUME NEW a \in Actions, NEW i \in DOMAIN (h \o r),
             (h \o r)[i].live, (h \o r)[i].action = a
      PROVE  a \in LiveActions(h) \cup LiveActions(r)
  <2>1. CASE i \in DOMAIN h
    BY <1>1, <2>1, Appending DEF LiveActions
  <2>2. CASE i \notin DOMAIN h
    BY <1>1, <2>2, Appending DEF LiveActions
  <2> QED
    BY <2>1, <2>2
<1>2. ASSUME NEW a \in LiveActions(h)
      PROVE  a \in LiveActions(h \o r)
  BY <1>2, Appending DEF LiveActions
<1>3. ASSUME NEW a \in LiveActions(r)
      PROVE  a \in LiveActions(h \o r)
  <2>1. PICK i \in DOMAIN r : r[i].live /\ r[i].action = a
    BY <1>3 DEF LiveActions
  <2>2. \A u : Written(r, i, u, {a}) <=> r[i].by = u
    BY <2>1 DEF Written
  <2>3. Written(h \o r, Len(h) + i, r[i].by, {a}) /\ Len(h) + i \in DOMAIN (h \o r)
    BY <2>2, NewRow
  <2> QED
    BY <2>3 DEF LiveActions, Written
<1> QED
  BY <1>1, <1>2, <1>3 DEF LiveActions

\* The sets of users in the cache row of a history that is not rejected.
LEMMA ReplayOpen ==
    ASSUME NEW h \in History, ~ Rejected(h)
    PROVE  /\ Replay(h).testing =
                ActiveUsers(h, {"assign-testing"}, {"unassign-testing"})
           /\ Replay(h).verification =
                ActiveUsers(h, {"assign-verification"}, {"unassign-verification"})
           /\ Replay(h).changes =
                ActiveUsers(h, {"request-changes"}, RequestDisablers)
           /\ Replay(h).approved =
                ActiveUsersOnNewest(h, {"approve"}, DecisionDisablers)
           /\ Replay(h).verified =
                ActiveUsersOnNewest(h, {"verify"}, DecisionDisablers)
BY DEF Replay

LEMMA ReplayClosed ==
    ASSUME NEW h \in History, Rejected(h)
    PROVE  /\ Replay(h).testing = {} /\ Replay(h).verification = {}
           /\ Replay(h).changes = {}
           /\ Replay(h).approved = {} /\ Replay(h).verified = {}
BY DEF Replay

\* Nobody enters a set of the cache row but by a row that says so, and a new
\* file empties the two sets of decisions.
LEMMA ReplayGrows ==
    ASSUME NEW h \in History, NEW r \in History, NEW u
    PROVE  /\ u \in Replay(h \o r).testing
                => u \in Replay(h).testing \/ Wrote(r, u, {"assign-testing"})
           /\ u \in Replay(h \o r).verification
                => u \in Replay(h).verification \/ Wrote(r, u, {"assign-verification"})
           /\ u \in Replay(h \o r).approved
                => \/ Wrote(r, u, {"approve"})
                   \/ u \in Replay(h).approved /\ \A k \in DOMAIN r : ~ LiveFile(r, k)
           /\ u \in Replay(h \o r).verified
                => \/ Wrote(r, u, {"verify"})
                   \/ u \in Replay(h).verified /\ \A k \in DOMAIN r : ~ LiveFile(r, k)
<1>1. h \o r \in History
  BY Appending
<1>2. CASE Rejected(h \o r)
  BY <1>1, <1>2, ReplayClosed
<1>3. CASE ~ Rejected(h \o r)
  <2>1. ~ Rejected(h)
    BY <1>3, RejectionStays DEF Rejected
  <2> QED
    BY <1>1, <1>3, <2>1, ReplayOpen, ActiveGrows, NewestGrows
<1> QED
  BY <1>2, <1>3

-----------------------------------------------------------------------------
(* Least and greatest numbers.  The induction theorems of the library take  *)
(* an operator, which the provers cannot instantiate; the existence of      *)
(* minima in a well-founded set does not.                                   *)

LEMMA LeastNumber ==
    ASSUME NEW S \in SUBSET Nat, S # {}
    PROVE  \E x \in S : \A y \in S : x <= y
<1> DEFINE Below == OpToRel(<, Nat)
<1>1. IsWellFoundedOn(Below, Nat)
  BY NatLessThanWellFounded
<1>2. PICK x \in S : \A y \in S : ~ (<<y, x>> \in Below)
  BY <1>1, WFMin
<1>3. Below = {ss \in Nat \X Nat : ss[1] < ss[2]}
  BY DEF OpToRel
<1>4. \A y \in S : <<y, x>> \in Nat \X Nat /\ <<y, x>>[1] = y /\ <<y, x>>[2] = x
  OBVIOUS
<1> HIDE DEF Below
<1>5. \A y \in S : ~ (y < x)
  BY <1>2, <1>3, <1>4
<1> QED
  BY <1>5

LEMMA GreatestNumber ==
    ASSUME NEW n \in Nat, NEW S \in SUBSET (0 .. n), S # {}
    PROVE  \E x \in S : \A y \in S : y <= x
<1> DEFINE T == {n - x : x \in S}
<1>1. \A x \in S : x \in 0 .. n /\ n - x \in Nat
  OBVIOUS
<1>1a. T \subseteq Nat
  BY <1>1
<1>1b. PICK z \in S : TRUE
  OBVIOUS
<1>1c. n - z \in T
  BY <1>1b
<1> HIDE DEF T
<1>2. PICK m \in T : \A y \in T : m <= y
  BY <1>1a, <1>1c, LeastNumber
<1>3. PICK x \in S : m = n - x
  BY <1>2 DEF T
<1>4. ASSUME NEW y \in S
      PROVE  y <= x
  <2>1. n - y \in T
    BY DEF T
  <2>2. n - x <= n - y
    BY <1>2, <1>3, <2>1
  <2> QED
    BY <1>1, <2>2
<1> QED
  BY <1>4

\* A history with a live file has a newest one.
LEMMA NewestExists ==
    ASSUME NEW h \in History, NEW k \in DOMAIN h, LiveFile(h, k)
    PROVE  NewestFile(h) # {}
<1> DEFINE S == {i \in DOMAIN h : LiveFile(h, i)}
<1>1. Len(h) \in Nat /\ S \in SUBSET (0 .. Len(h)) /\ S # {}
  BY HistoryShape
<1>2. PICK x \in S : \A y \in S : y <= x
  BY <1>1, GreatestNumber
<1> QED
  BY <1>2 DEF NewestFile

-----------------------------------------------------------------------------
(* The reduction of the tests *)

\* Induction over the numbers, for a set of them.
LEMMA AllNumbers ==
    ASSUME NEW S, 0 \in S, \A n \in Nat : n \in S => n + 1 \in S
    PROVE  Nat \subseteq S
<1> SUFFICES ASSUME Nat \ S # {} PROVE FALSE
  OBVIOUS
<1>1. PICK x \in Nat \ S : \A y \in Nat \ S : x <= y
  BY LeastNumber
<1>2. x # 0 /\ x - 1 \in Nat /\ x - 1 \in S
  BY <1>1
<1> QED
  BY <1>1, <1>2

\* f is the fold over the first rows of h, up to row m.
IsFold(h, m, f) ==
    f = [n \in 0 .. m |-> IF n = 0 THEN NoSets ELSE Account(h, f[n - 1], n)]

LEMMA FoldExists ==
    ASSUME NEW h, NEW m \in Nat
    PROVE  \E f : IsFold(h, m, f)
<1> DEFINE S == {n \in Nat : \E f : IsFold(h, n, f)}
<1>1. 0 \in S
  <2>1. IsFold(h, 0, [n \in 0 .. 0 |-> NoSets])
    BY DEF IsFold
  <2> QED
    BY <2>1
<1>2. ASSUME NEW n \in Nat, n \in S
      PROVE  n + 1 \in S
  <2>1. PICK f : IsFold(h, n, f)
    BY <1>2
  <2> DEFINE g == [i \in 0 .. n + 1 |-> IF i = n + 1 THEN Account(h, f[n], n + 1)
                                                     ELSE f[i]]
  <2>2. \A i \in 0 .. n : g[i] = f[i] /\ i # n + 1
    OBVIOUS
  <2>3. ASSUME NEW i \in 0 .. n + 1
        PROVE  g[i] = IF i = 0 THEN NoSets ELSE Account(h, g[i - 1], i)
    <3>1. CASE i = n + 1
      <4>1. i # 0 /\ i - 1 = n /\ n \in 0 .. n
        BY <3>1
      <4>2. g[i] = Account(h, f[n], n + 1) /\ g[n] = f[n]
        BY <2>2, <3>1, <4>1
      <4> QED
        BY <3>1, <4>1, <4>2
    <3>2. CASE i \in 0 .. n
      <4>1. f[i] = IF i = 0 THEN NoSets ELSE Account(h, f[i - 1], i)
        BY <2>1, <3>2 DEF IsFold
      <4>2. i # 0 => i - 1 \in 0 .. n
        BY <3>2
      <4>3. g[i] = f[i] /\ (i # 0 => g[i - 1] = f[i - 1])
        BY <2>2, <3>2, <4>2
      <4> QED
        BY <4>1, <4>3
    <3> QED
      BY <3>1, <3>2
  <2>4. DOMAIN g = 0 .. n + 1 /\ g = [i \in 0 .. n + 1 |-> g[i]]
    OBVIOUS
  <2> HIDE DEF g
  <2>5. IsFold(h, n + 1, g)
    BY <2>3, <2>4 DEF IsFold
  <2> QED
    BY <2>5
<1> HIDE DEF S
<1>3. m \in S
  BY <1>1, <1>2, AllNumbers
<1> QED
  BY <1>3 DEF S

\* The users enabled at a position of P by one of the first n rows and not
\* disabled by a later one of them.
Standing(h, n, P, enablers, disablers) ==
    {u \in Users : \E i \in 1 .. n :
        /\ i \in P /\ Written(h, i, u, enablers)
        /\ \A j \in 1 .. n : Written(h, j, u, disablers) => j < i}

\* One row more adds its author, removes it, or changes nothing.
LEMMA StandingMore ==
    ASSUME NEW h \in History, NEW n \in Nat, n + 1 \in DOMAIN h,
           NEW P, NEW en, NEW dis, en \cap dis = {}
    PROVE  /\ ~ (h[n + 1].live /\ h[n + 1].by \in Users) =>
                Standing(h, n + 1, P, en, dis) = Standing(h, n, P, en, dis)
           /\ h[n + 1].live /\ h[n + 1].by \in Users =>
                /\ h[n + 1].action \in dis =>
                     Standing(h, n + 1, P, en, dis) =
                       Standing(h, n, P, en, dis) \ {h[n + 1].by}
                /\ h[n + 1].action \in en /\ n + 1 \in P =>
                     Standing(h, n + 1, P, en, dis) =
                       Standing(h, n, P, en, dis) \cup {h[n + 1].by}
                /\ h[n + 1].action \notin dis /\ ~ (h[n + 1].action \in en /\ n + 1 \in P) =>
                     Standing(h, n + 1, P, en, dis) = Standing(h, n, P, en, dis)
<1> DEFINE k == n + 1
           S == Standing(h, n, P, en, dis)
           T == Standing(h, n + 1, P, en, dis)
<1>1. \A i : i \in 1 .. n + 1 <=> i \in 1 .. n \/ i = k
  OBVIOUS
<1>2. \A i \in 1 .. n : i < k /\ i # k /\ ~ (k < i)
  OBVIOUS
<1>3. ~ (k < k)
  OBVIOUS
<1>4. ASSUME NEW u \in Users
      PROVE  u \in T <=> \/ k \in P /\ Written(h, k, u, en)
                         \/ u \in S /\ ~ Written(h, k, u, dis)
  <2>1. ASSUME u \in T
        PROVE  \/ k \in P /\ Written(h, k, u, en)
               \/ u \in S /\ ~ Written(h, k, u, dis)
    <3>1. PICK i \in 1 .. n + 1 :
            /\ i \in P /\ Written(h, i, u, en)
            /\ \A j \in 1 .. n + 1 : Written(h, j, u, dis) => j < i
      BY <2>1 DEF Standing
    <3>2. CASE i = k
      BY <3>1, <3>2
    <3>3. CASE i \in 1 .. n
      <4>1. ~ Written(h, k, u, dis)
        BY <1>1, <1>2, <3>1, <3>3
      <4>2. u \in S
        BY <1>1, <3>1, <3>3 DEF Standing
      <4> QED
        BY <4>1, <4>2
    <3> QED
      BY <1>1, <3>2, <3>3
  <2>2. ASSUME k \in P, Written(h, k, u, en)
        PROVE  u \in T
    <3>1. ~ Written(h, k, u, dis)
      BY <2>2 DEF Written
    <3>2. \A j \in 1 .. n + 1 : Written(h, j, u, dis) => j < k
      BY <1>1, <1>2, <3>1
    <3> QED
      BY <1>1, <2>2, <3>2 DEF Standing
  <2>3. ASSUME u \in S, ~ Written(h, k, u, dis)
        PROVE  u \in T
    <3>1. PICK i \in 1 .. n :
            /\ i \in P /\ Written(h, i, u, en)
            /\ \A j \in 1 .. n : Written(h, j, u, dis) => j < i
      BY <2>3 DEF Standing
    <3>2. \A j \in 1 .. n + 1 : Written(h, j, u, dis) => j < i
      BY <1>1, <2>3, <3>1
    <3> QED
      BY <1>1, <3>1, <3>2 DEF Standing
  <2> QED
    BY <2>1, <2>2, <2>3
<1>5. S \subseteq Users /\ T \subseteq Users
  BY DEF Standing
<1> HIDE DEF S, T, k
<1>6. ASSUME ~ (h[k].live /\ h[k].by \in Users)
      PROVE  T = S
  <2>1. \A u \in Users : \A acts : ~ Written(h, k, u, acts)
    BY <1>6 DEF Written
  <2> QED
    BY <1>4, <1>5, <2>1
<1>7. ASSUME h[k].live, h[k].by \in Users
      PROVE  /\ h[k].action \in dis => T = S \ {h[k].by}
             /\ h[k].action \in en /\ k \in P => T = S \cup {h[k].by}
             /\ h[k].action \notin dis /\ ~ (h[k].action \in en /\ k \in P) => T = S
  <2> DEFINE w == h[k].by
  <2>1. \A u \in Users : \A acts :
          Written(h, k, u, acts) <=> u = w /\ h[k].action \in acts
    BY <1>7 DEF Written
  <2>2. h[k].action \in dis => h[k].action \notin en
    OBVIOUS
  <2>3. h[k].action \in dis => T = S \ {w}
    BY <1>4, <1>5, <2>1, <2>2
  <2>4. h[k].action \in en /\ k \in P => T = S \cup {w}
    BY <1>4, <1>5, <1>7, <2>1, <2>2
  <2>5. h[k].action \notin dis /\ ~ (h[k].action \in en /\ k \in P) => T = S
    BY <1>4, <1>5, <2>1
  <2> QED
    BY <2>3, <2>4, <2>5
<1> QED
  BY <1>6, <1>7 DEF S, T, k

Five(t, v, c, a, d) ==
    [testing |-> t, verification |-> v, changes |-> c, approved |-> a, verified |-> d]

\* What a comment does to each of the five sets.
LEMMA ApplySays ==
    ASSUME NEW A, NEW B, NEW C, NEW D, NEW E, NEW u, NEW a, NEW onLast,
           NEW A1, NEW B1, NEW C1, NEW D1, NEW E1,
           A1 = IF a = "assign-testing" THEN A \cup {u}
                ELSE IF a = "unassign-testing" THEN A \ {u} ELSE A,
           B1 = IF a = "assign-verification" THEN B \cup {u}
                ELSE IF a = "unassign-verification" THEN B \ {u} ELSE B,
           C1 = IF a = "request-changes" THEN C \cup {u}
                ELSE IF a \in RequestDisablers THEN C \ {u} ELSE C,
           D1 = IF a = "request-changes" THEN D \ {u}
                ELSE IF a = "approve" /\ onLast THEN D \cup {u} ELSE D,
           E1 = IF a = "request-changes" THEN E \ {u}
                ELSE IF a = "verify" /\ onLast THEN E \cup {u} ELSE E
    PROVE  Apply(Five(A, B, C, D, E), u, a, onLast) = Five(A1, B1, C1, D1, E1)
<1>1. CASE a = "assign-testing"
  BY <1>1 DEF Apply, Five, RequestDisablers
<1>2. CASE a = "unassign-testing"
  BY <1>2 DEF Apply, Five, RequestDisablers
<1>3. CASE a = "assign-verification"
  BY <1>3 DEF Apply, Five, RequestDisablers
<1>4. CASE a = "unassign-verification"
  BY <1>4 DEF Apply, Five, RequestDisablers
<1>5. CASE a = "request-changes"
  BY <1>5 DEF Apply, Five, RequestDisablers
<1>6. CASE a = "upload-file"
  BY <1>6 DEF Apply, Five, RequestDisablers
<1>7. CASE a = "approve"
  BY <1>7 DEF Apply, Five, RequestDisablers
<1>8. CASE a = "verify"
  BY <1>8 DEF Apply, Five, RequestDisablers
<1>9. CASE a \notin {"assign-testing", "unassign-testing", "assign-verification",
                     "unassign-verification", "request-changes", "upload-file",
                     "approve", "verify"}
  BY <1>9 DEF Apply, Five, RequestDisablers
<1> QED
  BY <1>1, <1>2, <1>3, <1>4, <1>5, <1>6, <1>7, <1>8, <1>9

\* Both accounts mean the same by a comment on the newest version.
LEMMA OnNewestIsAfterLast ==
    ASSUME NEW h \in History, NEW i \in DOMAIN h
    PROVE  OnNewestFile(h, i) <=> AfterLastFile(h, i)
<1>1. Len(h) \in Nat /\ DOMAIN h = 1 .. Len(h)
  BY HistoryShape
<1>2. ASSUME OnNewestFile(h, i)
      PROVE  AfterLastFile(h, i)
  <2> DEFINE S == {k \in DOMAIN h : LiveFile(h, k)}
  <2>1. S \in SUBSET (0 .. Len(h)) /\ S # {}
    BY <1>1, <1>2 DEF OnNewestFile
  <2>2. PICK x \in S : \A y \in S : y <= x
    BY <1>1, <2>1, GreatestNumber
  <2> QED
    BY <1>2, <2>2 DEF OnNewestFile, AfterLastFile
<1>3. ASSUME AfterLastFile(h, i)
      PROVE  OnNewestFile(h, i)
  BY <1>1, <1>3 DEF OnNewestFile, AfterLastFile
<1> QED
  BY <1>2, <1>3

OnNewest(h) == {i \in DOMAIN h : OnNewestFile(h, i)}

\* The five sets that the first n rows of h leave standing.
Standings(h, n) ==
    Five(Standing(h, n, DOMAIN h, {"assign-testing"}, {"unassign-testing"}),
         Standing(h, n, DOMAIN h, {"assign-verification"}, {"unassign-verification"}),
         Standing(h, n, DOMAIN h, {"request-changes"}, RequestDisablers),
         Standing(h, n, OnNewest(h), {"approve"}, DecisionDisablers),
         Standing(h, n, OnNewest(h), {"verify"}, DecisionDisablers))

\* The system writes automatic comments only.
Automatic(h) == \A i \in DOMAIN h : h[i].by = System => h[i].action = "system"

LEMMA AccountMore ==
    ASSUME NEW h \in History, Automatic(h), NEW n \in Nat, n + 1 \in DOMAIN h
    PROVE  Account(h, Standings(h, n), n + 1) = Standings(h, n + 1)
<1> DEFINE k == n + 1
           w == h[k].by
           a == h[k].action
           A == Standing(h, n, DOMAIN h, {"assign-testing"}, {"unassign-testing"})
           B == Standing(h, n, DOMAIN h, {"assign-verification"}, {"unassign-verification"})
           C == Standing(h, n, DOMAIN h, {"request-changes"}, RequestDisablers)
           D == Standing(h, n, OnNewest(h), {"approve"}, DecisionDisablers)
           E == Standing(h, n, OnNewest(h), {"verify"}, DecisionDisablers)
           A1 == Standing(h, n + 1, DOMAIN h, {"assign-testing"}, {"unassign-testing"})
           B1 == Standing(h, n + 1, DOMAIN h, {"assign-verification"},
                          {"unassign-verification"})
           C1 == Standing(h, n + 1, DOMAIN h, {"request-changes"}, RequestDisablers)
           D1 == Standing(h, n + 1, OnNewest(h), {"approve"}, DecisionDisablers)
           E1 == Standing(h, n + 1, OnNewest(h), {"verify"}, DecisionDisablers)
           onLast == AfterLastFile(h, k)
<1> DEFINE live == h[k].live /\ w \in Users
<1>1. /\ ~ live => A1 = A
      /\ live => A1 = IF a = "assign-testing" THEN A \cup {w}
                      ELSE IF a = "unassign-testing" THEN A \ {w} ELSE A
  <2>1. {"assign-testing"} \cap {"unassign-testing"} = {}
    OBVIOUS
  <2> QED
    BY <2>1, StandingMore
<1>2. /\ ~ live => B1 = B
      /\ live => B1 = IF a = "assign-verification" THEN B \cup {w}
                      ELSE IF a = "unassign-verification" THEN B \ {w} ELSE B
  <2>1. {"assign-verification"} \cap {"unassign-verification"} = {}
    OBVIOUS
  <2> QED
    BY <2>1, StandingMore
<1>3. /\ ~ live => C1 = C
      /\ live => C1 = IF a = "request-changes" THEN C \cup {w}
                      ELSE IF a \in RequestDisablers THEN C \ {w} ELSE C
  <2>1. {"request-changes"} \cap RequestDisablers = {}
    BY DEF RequestDisablers
  <2> QED
    BY <2>1, StandingMore
<1>4. k \in OnNewest(h) <=> onLast
  BY OnNewestIsAfterLast DEF OnNewest
<1>5. /\ ~ live => D1 = D
      /\ live => D1 = IF a = "request-changes" THEN D \ {w}
                      ELSE IF a = "approve" /\ onLast THEN D \cup {w} ELSE D
  <2>1. {"approve"} \cap DecisionDisablers = {}
    BY DEF DecisionDisablers
  <2>2. \A x : x \in DecisionDisablers <=> x = "request-changes"
    BY DEF DecisionDisablers
  <2>3. /\ ~ live => D1 = D
        /\ live =>
             /\ a \in DecisionDisablers => D1 = D \ {w}
             /\ a \in {"approve"} /\ k \in OnNewest(h) => D1 = D \cup {w}
             /\ a \notin DecisionDisablers /\ ~ (a \in {"approve"} /\ k \in OnNewest(h))
                  => D1 = D
    BY <2>1, StandingMore
  <2> HIDE DEF D, D1, k, w, a, live, onLast
  <2> QED
    BY <1>4, <2>2, <2>3
<1>6. /\ ~ live => E1 = E
      /\ live => E1 = IF a = "request-changes" THEN E \ {w}
                      ELSE IF a = "verify" /\ onLast THEN E \cup {w} ELSE E
  <2>1. {"verify"} \cap DecisionDisablers = {}
    BY DEF DecisionDisablers
  <2>2. \A x : x \in DecisionDisablers <=> x = "request-changes"
    BY DEF DecisionDisablers
  <2>3. /\ ~ live => E1 = E
        /\ live =>
             /\ a \in DecisionDisablers => E1 = E \ {w}
             /\ a \in {"verify"} /\ k \in OnNewest(h) => E1 = E \cup {w}
             /\ a \notin DecisionDisablers /\ ~ (a \in {"verify"} /\ k \in OnNewest(h))
                  => E1 = E
    BY <2>1, StandingMore
  <2> HIDE DEF E, E1, k, w, a, live, onLast
  <2> QED
    BY <1>4, <2>2, <2>3
<1>7. Standings(h, n) = Five(A, B, C, D, E) /\ Standings(h, n + 1) = Five(A1, B1, C1, D1, E1)
  BY DEF Standings
<1>8. Account(h, Five(A, B, C, D, E), k) =
        IF h[k].live /\ w # Validator THEN Apply(Five(A, B, C, D, E), w, a, onLast)
        ELSE Five(A, B, C, D, E)
  BY DEF Account
<1>9. w \in Authors
  BY HistoryShape DEF RowType
<1>10. w = System => a = "system"
  BY DEF Automatic
<1> HIDE DEF A, B, C, D, E, A1, B1, C1, D1, E1, k, w, a, onLast
<1>11. CASE live
  <2>1. w # Validator /\ h[k].live
    BY <1>11, AuthorsAssumption
  <2>2. Account(h, Five(A, B, C, D, E), k) = Apply(Five(A, B, C, D, E), w, a, onLast)
    BY <1>8, <2>1
  <2>3. Apply(Five(A, B, C, D, E), w, a, onLast) = Five(A1, B1, C1, D1, E1)
    BY <1>1, <1>2, <1>3, <1>5, <1>6, <1>11, ApplySays
  <2> QED
    BY <1>7, <2>2, <2>3 DEF k
<1>12. CASE ~ live
  <2>1. A1 = A /\ B1 = B /\ C1 = C /\ D1 = D /\ E1 = E
    BY <1>1, <1>2, <1>3, <1>5, <1>6, <1>12
  <2>2. CASE h[k].live /\ w # Validator
    <3>1. a = "system"
      BY <1>9, <1>10, <1>12, <2>2 DEF Authors
    <3>2. Apply(Five(A, B, C, D, E), w, a, onLast) = Five(A, B, C, D, E)
      BY <3>1 DEF Apply
    <3> QED
      BY <1>7, <1>8, <2>1, <2>2, <3>2 DEF k
  <2>3. CASE ~ (h[k].live /\ w # Validator)
    BY <1>7, <1>8, <2>1, <2>3 DEF k
  <2> QED
    BY <2>2, <2>3
<1> QED
  BY <1>11, <1>12

\* The replay of the cache row is the reduction.
LEMMA ReplayIsReduction ==
    ASSUME NEW h \in History, Automatic(h)
    PROVE  AgreesWithReduction(Replay(h), h)
<1> DEFINE sets == CHOOSE f : IsFold(h, Len(h), f)
<1>1. Len(h) \in Nat /\ DOMAIN h = 1 .. Len(h)
  BY HistoryShape
<1>2. IsFold(h, Len(h), sets)
  BY <1>1, FoldExists
<1>3. Reduce(h) = IF \E i \in DOMAIN h : h[i].live /\ h[i].action = "reject"
                  THEN NoSets ELSE sets[Len(h)]
  BY DEF Reduce, IsFold
<1> HIDE DEF sets
<1>4. \A n \in 0 .. Len(h) :
        sets[n] = IF n = 0 THEN NoSets ELSE Account(h, sets[n - 1], n)
  BY <1>2 DEF IsFold
<1> DEFINE S == {n \in Nat : n <= Len(h) => sets[n] = Standings(h, n)}
<1>5. 0 \in S
  <2>1. Standings(h, 0) = NoSets
    BY DEF Standings, Standing, Five, NoSets
  <2> QED
    BY <1>1, <1>4, <2>1
<1>6. ASSUME NEW n \in Nat, n \in S
      PROVE  n + 1 \in S
  <2> SUFFICES ASSUME n + 1 <= Len(h) PROVE sets[n + 1] = Standings(h, n + 1)
    OBVIOUS
  <2>1. sets[n] = Standings(h, n) /\ n + 1 \in DOMAIN h /\ n + 1 \in 0 .. Len(h)
    BY <1>1, <1>6
  <2>2. sets[n + 1] = Account(h, sets[n], n + 1)
    BY <1>4, <2>1
  <2> QED
    BY <2>1, <2>2, AccountMore
<1> HIDE DEF S
<1>7. Len(h) \in S
  BY <1>1, <1>5, <1>6, AllNumbers
<1>8. sets[Len(h)] = Standings(h, Len(h))
  BY <1>1, <1>7 DEF S
<1>9. \A en, dis : Standing(h, Len(h), DOMAIN h, en, dis) = ActiveUsers(h, en, dis)
  BY <1>1 DEF Standing, ActiveUsers
<1>10. \A en, dis : Standing(h, Len(h), OnNewest(h), en, dis)
                      = ActiveUsersOnNewest(h, en, dis)
  BY <1>1 DEF Standing, ActiveUsersOnNewest, OnNewest
<1>11. (\E i \in DOMAIN h : h[i].live /\ h[i].action = "reject") <=> Rejected(h)
  BY DEF Rejected, LiveActions, Actions
<1>12. Reduce(h) = IF Rejected(h) THEN Five({}, {}, {}, {}, {})
                   ELSE Five(ActiveUsers(h, {"assign-testing"}, {"unassign-testing"}),
                             ActiveUsers(h, {"assign-verification"},
                                            {"unassign-verification"}),
                             ActiveUsers(h, {"request-changes"}, RequestDisablers),
                             ActiveUsersOnNewest(h, {"approve"}, DecisionDisablers),
                             ActiveUsersOnNewest(h, {"verify"}, DecisionDisablers))
  <2>1. NoSets = Five({}, {}, {}, {}, {})
    BY DEF NoSets, Five
  <2> QED
    BY <1>3, <1>8, <1>9, <1>10, <1>11, <2>1 DEF Standings
<1> QED
  BY <1>12 DEF AgreesWithReduction, Replay, Five

=============================================================================

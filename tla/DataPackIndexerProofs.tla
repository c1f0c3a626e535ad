------------------------ MODULE DataPackIndexerProofs ------------------------
(***************************************************************************)
(* Proofs about DataPackIndexer, for any packs and contents, any moves,    *)
(* failures and crashes.  What the index says of a pack follows from where *)
(* the indexer is in it (Rows), and that only packs that were moved are    *)
(* given up follows from the order in which an import copies and commits   *)
(* (Present).                                                              *)
(***************************************************************************)
EXTENDS DataPackIndexer, TLAPS

\* The indexer has a pack in hand, and what it knows of it.
Place ==
    /\ stopped => pc = "none"
    /\ pc \in {"open", "missing", "read", "mark"} => cur \in Packs
    /\ pc = "open" => row[cur].known /\ ~row[cur].indexed
    /\ pc = "missing" => cur \in moved
    /\ pc \in {"read", "mark"} => todo \subseteq Contents[cur]
    /\ pc = "mark" => todo # Contents[cur]
    /\ pc = "read" /\ todo = Contents[cur] => ~row[cur].indexed

\* A known pack is whole in its directory, or has been away.
Present == \A p \in Packs :
    /\ row[p].known /\ file[p] # "whole" => p \in moved
    /\ row[p].index_error => p \in moved

\* What the index holds of a file of a pack nothing interrupted.
Expected(p, f) ==
    IF Reading(p) THEN (IF f \in Contents[p] \ todo THEN 1 ELSE 0)
    ELSE (IF row[p].indexed /\ f \in Contents[p] THEN 1 ELSE 0)

Rows == \A p \in Packs, f \in Files :
    p \in interrupted \/ index[p][f] = Expected(p, f)

IInv == TypeOK /\ Place /\ Present /\ Rows

USE PacksAssumption, BoundsAssumption

-----------------------------------------------------------------------------
LEMMA InitIInv == Init => IInv
  BY DEF Init, IInv, TypeOK, Place, Present, Rows, Expected, Reading, RowType,
         NoRow

\* A step that touches rows changes one of them, in one of three ways.
LEMMA RowsKnown ==
    ASSUME row \in [Packs -> RowType], NEW p \in Packs,
           CommitImport(p) \/ CommitFrozenImport(p)
    PROVE  \E r \in RowType :
             /\ row' = [row EXCEPT ![p] = r]
             /\ r.known /\ r.indexed = row[p].indexed
             /\ r.index_error = row[p].index_error
<1> DEFINE r == [row[p] EXCEPT !.known = TRUE]
<1>1. row[p] \in RowType
  OBVIOUS
<1>2. /\ r \in RowType /\ r.known /\ r.indexed = row[p].indexed
      /\ r.index_error = row[p].index_error
  BY <1>1 DEF RowType
<1>3. row' = [row EXCEPT ![p] = r]
  BY DEF CommitImport, CommitFrozenImport
<1> HIDE DEF r
<1> QED BY <1>2, <1>3

LEMMA RowsMarked ==
    ASSUME row \in [Packs -> RowType], cur \in Packs,
           MarkIndexed \/ IndexerMarkEmpty
    PROVE  \E r \in RowType :
             /\ row' = [row EXCEPT ![cur] = r]
             /\ r.known = row[cur].known /\ r.indexed /\ ~r.index_error
<1> DEFINE r == Indexed(row[cur])
<1>1. row[cur] \in RowType
  OBVIOUS
<1>2. /\ r \in RowType /\ r.known = row[cur].known /\ r.indexed
      /\ ~r.index_error
  BY <1>1 DEF RowType, Indexed
<1>3. row' = [row EXCEPT ![cur] = r]
  BY DEF MarkIndexed, IndexerMarkEmpty
<1> HIDE DEF r
<1> QED BY <1>2, <1>3

LEMMA RowsGivenUp ==
    ASSUME row \in [Packs -> RowType], cur \in Packs, IndexerMarkFailure
    PROVE  \E r \in RowType :
             /\ row' = [row EXCEPT ![cur] = r]
             /\ r.known = row[cur].known /\ r.indexed = row[cur].indexed
<1> DEFINE r == [row[cur] EXCEPT !.index_error = TRUE]
<1>1. row[cur] \in RowType
  OBVIOUS
<1>2. /\ r \in RowType /\ r.known = row[cur].known
      /\ r.indexed = row[cur].indexed
  BY <1>1 DEF RowType
<1>3. row' = [row EXCEPT ![cur] = r]
  BY DEF IndexerMarkFailure
<1> HIDE DEF r
<1> QED BY <1>2, <1>3

LEMMA TypeStep == IInv /\ [Next]_vars => TypeOK'
<1> SUFFICES ASSUME IInv, [Next]_vars PROVE TypeOK'
  OBVIOUS
<1> USE DEF IInv, TypeOK, indexer, process, directory
<1>1. CASE Start \/ ShutDown
  BY <1>1 DEF Start, ShutDown, Cancel, TaskEnds, Stop, SendStop, Exit
<1>2. CASE ReceiveStop \/ IndexerGetNext \/ Sleep \/ Wake \/ OpenZip
           \/ NoSuchFile
  BY <1>2 DEF ReceiveStop, IndexerGetNext, Sleep, Wake, OpenZip, NoSuchFile,
              Unindexed, Place
<1>3. ASSUME NEW f \in Files, InsertFile(f) PROVE TypeOK'
  <2>1. cur \in Packs
    BY <1>3 DEF InsertFile, Place
  <2>2. index' \in [Packs -> [Files -> Nat]]
    BY <1>3, <2>1 DEF InsertFile
  <2> QED BY <1>3, <2>2 DEF InsertFile
<1>4. CASE MarkIndexed \/ IndexerMarkEmpty \/ IndexerMarkFailure
  <2>1. row' \in [Packs -> RowType]
    <3>1. cur \in Packs
      BY <1>4 DEF MarkIndexed, IndexerMarkEmpty, IndexerMarkFailure, Place
    <3>2. CASE MarkIndexed \/ IndexerMarkEmpty
      BY <3>1, <3>2, RowsMarked
    <3>3. CASE IndexerMarkFailure
      BY <3>1, <3>3, RowsGivenUp
    <3> QED BY <1>4, <3>2, <3>3
  <2> QED BY <1>4, <2>1 DEF MarkIndexed, IndexerMarkEmpty, IndexerMarkFailure
<1>5. CASE BadArchive \/ IndexerFails
  <2>1. Left \subseteq Packs
    BY DEF Left, HalfDone, Place
  <2>2. CASE BadArchive
    BY <2>1, <2>2 DEF BadArchive, EndWithError
  <2>3. CASE IndexerFails
    BY <2>1, <2>3 DEF IndexerFails, EndWithError
  <2> QED BY <1>5, <2>2, <2>3
<1>6. ASSUME NEW p \in Packs, Request(p) PROVE TypeOK'
  <2>1. CASE CopyBegins(p) \/ CopyEnds(p)
    BY <2>1 DEF CopyBegins, CopyEnds
  <2>2. CASE MoveOut(p)
    BY <2>2 DEF MoveOut
  <2>3. CASE CommitImport(p) \/ CommitFrozenImport(p)
    <3>1. row' \in [Packs -> RowType]
      BY <2>3, RowsKnown
    <3> QED BY <2>3, <3>1 DEF CommitImport, CommitFrozenImport
  <2> QED BY <1>6, <2>1, <2>2, <2>3 DEF Request
<1>7. CASE Crash
  BY <1>7 DEF Crash, Left, HalfDone, Place
<1>8. CASE UNCHANGED vars
  BY <1>8 DEF vars
<1> QED BY <1>1, <1>2, <1>3, <1>4, <1>5, <1>6, <1>7, <1>8 DEF Next, Run

LEMMA PlaceStep == IInv /\ [Next]_vars => Place'
<1> SUFFICES ASSUME IInv, [Next]_vars PROVE Place'
  OBVIOUS
<1> USE DEF IInv, TypeOK, Place, indexer, process, directory
<1>1. CASE Start \/ ShutDown
  BY <1>1 DEF Start, ShutDown, Cancel, TaskEnds, Stop, SendStop, Exit
<1>2. CASE ReceiveStop \/ Sleep \/ Wake
  BY <1>2 DEF ReceiveStop, Sleep, Wake, AtSelect
<1>2a. CASE IndexerGetNext
  BY <1>2a DEF IndexerGetNext, Unindexed, AtSelect
<1>3. CASE OpenZip \/ NoSuchFile
  BY <1>3 DEF OpenZip, NoSuchFile, Present
<1>4. ASSUME NEW f \in Files, InsertFile(f) PROVE Place'
  BY <1>4 DEF InsertFile
<1>5. CASE MarkIndexed
  BY <1>5 DEF MarkIndexed, RowType
<1>6. CASE IndexerMarkEmpty \/ IndexerMarkFailure
  BY <1>6 DEF IndexerMarkEmpty, IndexerMarkFailure
<1>7. CASE BadArchive \/ IndexerFails \/ Crash
  BY <1>7 DEF BadArchive, IndexerFails, EndWithError, Crash
<1>8. ASSUME NEW p \in Packs, Request(p) PROVE Place'
  <2>1. UNCHANGED <<pc, cur, todo, stopped>> /\ moved \subseteq moved'
    BY <1>8 DEF Request, CopyBegins, CopyEnds, MoveOut, CommitImport,
                CommitFrozenImport
  <2>2. \A q \in Packs : /\ row'[q].indexed = row[q].indexed
                         /\ row[q].known => row'[q].known
    BY <1>8 DEF Request, CopyBegins, CopyEnds, MoveOut, CommitImport,
                CommitFrozenImport, RowType
  <2> QED BY <2>1, <2>2
<1>9. CASE UNCHANGED vars
  BY <1>9 DEF vars
<1> QED BY <1>1, <1>2, <1>2a, <1>3, <1>4, <1>5, <1>6, <1>7, <1>8, <1>9
        DEF Next, Run

LEMMA PresentStep == IInv /\ [Next]_vars => Present'
<1> SUFFICES ASSUME IInv, [Next]_vars PROVE Present'
  OBVIOUS
<1> USE DEF IInv, TypeOK, Present, indexer, process, directory
<1>1. CASE Start \/ ShutDown
  BY <1>1 DEF Start, ShutDown, Cancel, TaskEnds, Stop, SendStop, Exit
<1>2. CASE ReceiveStop \/ IndexerGetNext \/ Sleep \/ Wake \/ OpenZip
           \/ NoSuchFile \/ \E f \in Files : InsertFile(f)
  BY <1>2 DEF ReceiveStop, IndexerGetNext, Sleep, Wake, OpenZip, NoSuchFile,
              InsertFile
<1>3. CASE MarkIndexed \/ IndexerMarkEmpty \/ IndexerMarkFailure
  <2>1. /\ cur \in Packs
        /\ UNCHANGED <<file, moved>>
    BY <1>3 DEF MarkIndexed, IndexerMarkEmpty, IndexerMarkFailure, Place
  <2>2. \A q \in Packs :
          /\ row'[q].known = row[q].known
          /\ row'[q].index_error => row[q].index_error \/ q \in moved
    <3>1. CASE MarkIndexed \/ IndexerMarkEmpty
      BY <2>1, <3>1, RowsMarked
    <3>2. CASE IndexerMarkFailure
      BY <2>1, <3>2, RowsGivenUp DEF IndexerMarkFailure, Place
    <3> QED BY <1>3, <3>1, <3>2
  <2> QED BY <2>1, <2>2
<1>4. CASE BadArchive \/ IndexerFails \/ Crash
  BY <1>4 DEF BadArchive, IndexerFails, EndWithError, Crash
<1>5. ASSUME NEW p \in Packs, Request(p) PROVE Present'
  BY <1>5 DEF Request, CopyBegins, CopyEnds, MoveOut, CommitImport,
              CommitFrozenImport, RowType
<1>6. CASE UNCHANGED vars
  BY <1>6 DEF vars
<1> QED BY <1>1, <1>2, <1>3, <1>4, <1>5, <1>6 DEF Next, Run

LEMMA RowsStep == IInv /\ [Next]_vars => Rows'
<1> SUFFICES ASSUME IInv, [Next]_vars PROVE Rows'
  OBVIOUS
<1> USE DEF IInv, TypeOK, Rows, Expected, Reading, indexer, process, directory
<1>1. CASE Start \/ ShutDown
  <2>1. UNCHANGED <<row, index, cur, todo, interrupted>>
        /\ (pc' \in {"read", "mark"} <=> pc \in {"read", "mark"})
    BY <1>1 DEF Start, ShutDown, Cancel, TaskEnds, Stop, SendStop, Exit, Place
  <2> QED BY <2>1
<1>2. CASE ReceiveStop \/ IndexerGetNext \/ Sleep \/ Wake \/ NoSuchFile
  BY <1>2 DEF ReceiveStop, IndexerGetNext, Sleep, Wake, NoSuchFile, AtSelect
<1>3. CASE OpenZip
  BY <1>3 DEF OpenZip, Place
<1>4. ASSUME NEW f \in Files, InsertFile(f) PROVE Rows'
  BY <1>4 DEF InsertFile, Place
<1>5. CASE MarkIndexed
  BY <1>5, RowsMarked DEF MarkIndexed, Place
<1>6. CASE IndexerMarkEmpty
  BY <1>6, RowsMarked DEF IndexerMarkEmpty, Place
<1>7. CASE IndexerMarkFailure
  BY <1>7, RowsGivenUp DEF IndexerMarkFailure, Place
<1>8. CASE BadArchive \/ IndexerFails \/ Crash
  BY <1>8 DEF BadArchive, IndexerFails, EndWithError, Crash, Left, HalfDone,
              Place, AtSelect
<1>9. ASSUME NEW p \in Packs, Request(p) PROVE Rows'
  <2>1. UNCHANGED <<index, pc, cur, todo, interrupted>>
    BY <1>9 DEF Request, CopyBegins, CopyEnds, MoveOut, CommitImport,
                CommitFrozenImport
  <2>2. \A q \in Packs : row'[q].indexed = row[q].indexed
    <3>1. CASE CommitImport(p) \/ CommitFrozenImport(p)
      BY <3>1, RowsKnown
    <3>2. CASE UNCHANGED row
      BY <3>2
    <3> QED BY <1>9, <3>1, <3>2 DEF Request, CopyBegins, CopyEnds, MoveOut
  <2> QED BY <2>1, <2>2
<1>10. CASE UNCHANGED vars
  BY <1>10 DEF vars
<1> QED BY <1>1, <1>2, <1>3, <1>4, <1>5, <1>6, <1>7, <1>8, <1>9, <1>10
        DEF Next, Run

LEMMA Invariance == Spec => []IInv
<1>1. IInv /\ [Next]_vars => IInv'
  BY TypeStep, PlaceStep, PresentStep, RowsStep DEF IInv
<1> QED BY InitIInv, <1>1, PTL DEF Spec

-----------------------------------------------------------------------------
\* Rows, files and the process keep their types.
THEOREM IndexerTypeCorrect == Spec => []TypeOK
  BY Invariance, PTL DEF IInv

\* Whatever is imported, moved, failed and restarted: a pack that was never
\* away is not given up, and one the indexer was never interrupted on has no
\* row, or exactly one for each of its files.
THEOREM IndexIsWhole == Spec => []IndexedIsWhole
<1>1. IInv => IndexedIsWhole
  BY DEF IInv, TypeOK, Present, Rows, Expected, IndexedIsWhole, Reading
<1> QED BY Invariance, <1>1, PTL
=============================================================================

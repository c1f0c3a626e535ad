------------------------ MODULE SubmissionReviewProofs ------------------------
(***************************************************************************)
(* Theorems about SubmissionReview for every set of users, roles,          *)
(* submissions and validator verdicts, and without the bounds TLC needs on *)
(* the length of a history.                                                *)
(*                                                                         *)
(* Every action changes the history of a submission in one of three ways:  *)
(* it appends rows that settle nothing, it appends one row that settles an *)
(* unsettled history (mark-added or reject), or it soft deletes rows; and  *)
(* it refreshes the cache row after its last row.  HistoryStep says so     *)
(* once, and IInv follows from it.                                         *)
(*                                                                         *)
(* What depends on who wrote the rows and which checks they passed follows *)
(* from Step, which says for one submission what a transaction appended    *)
(* or deleted and the guards it went through.                              *)
(***************************************************************************)
EXTENDS SubmissionReview, SubmissionHistoryProofs

Unsettled(h) == LiveActions(h) \cap {"mark-added", "reject"} = {}

\* How a committed transaction may change a history.
HistoryChange(h, new) ==
    \/ \E r \in History : Unsettling(r) /\ new = h \o r
    \/ \E dead \in SUBSET Nat : new = Deleted(h, dead)
    \/ \E row \in RowType, r \in History :
          /\ Unsettled(h) /\ Unsettling(r)
          /\ new = h \o (<<row>> \o r)

\* What one step may do to submission s.
HistoryStep(s) ==
    \/ log'[s] = log[s] /\ cache'[s] = cache[s]
    \/ cache'[s] = Replay(log'[s]) /\ HistoryChange(log[s], log'[s])

HistoryFrame ==
    /\ DOMAIN log' = Submissions /\ log' = [s \in Submissions |-> log'[s]]
    /\ DOMAIN cache' = Submissions /\ cache' = [s \in Submissions |-> cache'[s]]
    /\ \A s \in Submissions : HistoryStep(s)

\* The other four variables keep their types.
OtherTypes ==
    /\ frozen' \subseteq Submissions
    /\ autofreeze' \subseteq Submissions
    /\ removed' \subseteq Submissions
    /\ imported' \in [Submissions -> SUBSET Nat]

\* The inductive invariant: no handler has left a cache row behind its
\* history, which is what makes the checks of the comment validator mean
\* something, and every history is settled in one way at most.
CacheCurrent == \A s \in Submissions : cache[s] = Replay(log[s])
Settled == \A s \in Submissions : AddedOnce(log[s]) /\ NotBoth(log[s])
IInv == TypeOK /\ CacheCurrent /\ Settled

\* What most handlers do to one submission: rows, then the cache row.
Write(s, h) == WriteRows(s, h) /\ UpdateSubmissionCacheTable({s})

-----------------------------------------------------------------------------
\* The rows of an uploaded or edited archive.
LEMMA ArchiveRowsTyped ==
    ASSUME NEW u \in Users, NEW a \in {"upload-file", "edit-meta"},
           NEW v \in Verdicts
    PROVE  ArchiveRows(u, a, v) \in History /\ Unsettling(ArchiveRows(u, a, v))
<1>1. v.bot \in {"approve", "request-changes"} /\ v.note \in BOOLEAN
  BY BoundsAssumption DEF VerdictType
<1>2. /\ Row(u, "file") \in RowType /\ Row(u, a) \in RowType
      /\ Row(Validator, v.bot) \in RowType /\ Row(System, "system") \in RowType
  BY <1>1, RowTyped DEF Authors, Actions
<1>3. /\ Row(u, "file").action = "file" /\ Row(u, a).action = a
      /\ Row(Validator, v.bot).action = v.bot
      /\ Row(System, "system").action = "system"
  BY DEF Row
<1> DEFINE x == <<Row(u, "file"), Row(u, a), Row(Validator, v.bot)>>
           y == IF v.note THEN <<Row(System, "system")>> ELSE <<>>
<1>4. x \in History /\ Unsettling(x)
  BY <1>1, <1>2, <1>3 DEF History, Unsettling
<1>5. y \in History /\ Unsettling(y)
  BY <1>2, <1>3 DEF History, Unsettling
<1>6. x \o y \in History /\ Unsettling(x \o y)
  BY <1>4, <1>5, UnsettlingConcat
<1> QED
  BY <1>6 DEF ArchiveRows

\* The rows a metadata edit carries over.
LEMMA CarriedRowsTyped ==
    ASSUME NEW c \in CacheType, NEW p \in Users, NEW q \in Users
    PROVE  CarriedRows(c, p, q) \in History /\ Unsettling(CarriedRows(c, p, q))
<1>1. Row(p, "approve") \in RowType /\ Row(q, "verify") \in RowType
  BY RowTyped DEF Authors, Actions
<1>2. Row(p, "approve").action = "approve" /\ Row(q, "verify").action = "verify"
  BY DEF Row
<1> DEFINE x == <<Row(p, "approve")>>
           y == IF c.verified = {} THEN <<>> ELSE <<Row(q, "verify")>>
<1>3. x \in History /\ Unsettling(x)
  BY <1>1, <1>2 DEF History, Unsettling
<1>4. y \in History /\ Unsettling(y)
  BY <1>1, <1>2 DEF History, Unsettling
<1>5. x \o y \in History /\ Unsettling(x \o y)
  BY <1>3, <1>4, UnsettlingConcat
<1>6. <<>> \in History /\ Unsettling(<<>>)
  BY DEF History, Unsettling
<1>7. CASE c.approved = {}
  BY <1>6, <1>7 DEF CarriedRows
<1>8. CASE c.approved # {}
  BY <1>5, <1>8, Zenon DEF CarriedRows
<1> QED
  BY <1>7, <1>8

\* What follows the action of a posted comment in the same transaction.
FollowUp(u, a, s) ==
    (IF a = "approve" THEN <<Row(u, "unassign-testing")>>
     ELSE IF a = "verify" THEN <<Row(u, "unassign-verification")>>
     ELSE <<>>)
    \o (IF a = "verify" /\ s \in autofreeze
        THEN <<Row(System, "system")>> ELSE <<>>)

LEMMA FollowUpTyped ==
    ASSUME NEW u \in Users, NEW a \in AllowedActions, NEW s \in Submissions
    PROVE  /\ Row(u, a) \in RowType
           /\ FollowUp(u, a, s) \in History /\ Unsettling(FollowUp(u, a, s))
           /\ ReviewRows(u, a, s) = <<Row(u, a)>> \o FollowUp(u, a, s)
<1>1. /\ Row(u, a) \in RowType /\ Row(System, "system") \in RowType
      /\ Row(u, "unassign-testing") \in RowType
      /\ Row(u, "unassign-verification") \in RowType
  BY RowTyped DEF Authors, Actions, AllowedActions
<1>2. /\ Row(System, "system").action = "system"
      /\ Row(u, "unassign-testing").action = "unassign-testing"
      /\ Row(u, "unassign-verification").action = "unassign-verification"
  BY DEF Row
<1> DEFINE x == IF a = "approve" THEN <<Row(u, "unassign-testing")>>
                ELSE IF a = "verify" THEN <<Row(u, "unassign-verification")>>
                ELSE <<>>
           y == IF a = "verify" /\ s \in autofreeze
                THEN <<Row(System, "system")>> ELSE <<>>
<1>3. x \in History /\ Unsettling(x)
  BY <1>1, <1>2 DEF History, Unsettling
<1>4. y \in History /\ Unsettling(y)
  BY <1>1, <1>2 DEF History, Unsettling
<1>5. x \o y \in History /\ Unsettling(x \o y)
  BY <1>3, <1>4, UnsettlingConcat
<1>6. <<Row(u, a)>> \in History
  BY <1>1 DEF History
<1>7. (<<Row(u, a)>> \o x) \o y = <<Row(u, a)>> \o (x \o y)
  BY <1>3, <1>4, <1>6, Grouping
<1> QED
  BY <1>1, <1>5, <1>7 DEF FollowUp, ReviewRows

-----------------------------------------------------------------------------
\* A changed history is a history, and settled in one way at most if it was.
LEMMA ChangedHistory ==
    ASSUME NEW h \in History, NEW new, HistoryChange(h, new)
    PROVE  /\ new \in History
           /\ AddedOnce(h) /\ NotBoth(h) => AddedOnce(new) /\ NotBoth(new)
<1>1. CASE \E r \in History : Unsettling(r) /\ new = h \o r
  BY <1>1, Appending, UnsettlingRows
<1>2. CASE \E dead \in SUBSET Nat : new = Deleted(h, dead)
  BY <1>2, Deleting, DeletingRows
<1>3. CASE \E row \in RowType, r \in History :
              /\ Unsettled(h) /\ Unsettling(r)
              /\ new = h \o (<<row>> \o r)
  <2>1. PICK row \in RowType, r \in History :
              /\ Unsettled(h) /\ Unsettling(r)
              /\ new = h \o (<<row>> \o r)
    BY <1>3
  <2>2. <<row>> \in History
    BY DEF History
  <2>3. new \in History
    BY <2>1, <2>2, Appending
  <2> QED
    BY <2>1, <2>3, SettlingRow DEF Unsettled
<1> QED
  BY <1>1, <1>2, <1>3 DEF HistoryChange

\* Storing history h of submission s and replaying its cache row.
LEMMA WriteFrame ==
    ASSUME TypeOK, NEW s \in Submissions, NEW h, Write(s, h),
           HistoryChange(log[s], h)
    PROVE  HistoryFrame
<1>1. /\ DOMAIN log = Submissions /\ DOMAIN cache = Submissions
  BY DEF TypeOK
<1>2. \A t \in Submissions : /\ log'[t] = (IF t = s THEN h ELSE log[t])
                              /\ cache'[t] = (IF t = s THEN Replay(h) ELSE cache[t])
  BY <1>1 DEF Write, WriteRows, UpdateSubmissionCacheTable
<1>3. \A t \in Submissions : HistoryStep(t)
  BY <1>2 DEF HistoryStep
<1>4. /\ DOMAIN log' = Submissions /\ log' = [t \in Submissions |-> log'[t]]
      /\ DOMAIN cache' = Submissions /\ cache' = [t \in Submissions |-> cache'[t]]
  BY <1>1 DEF Write, WriteRows, UpdateSubmissionCacheTable
<1> QED
  BY <1>3, <1>4 DEF HistoryFrame

\* Nothing is written.
LEMMA StutterFrame ==
    ASSUME TypeOK, UNCHANGED <<log, cache>>
    PROVE  HistoryFrame
BY DEF TypeOK, HistoryFrame, HistoryStep

\* The frame carries the invariant over.
LEMMA FrameKeeps ==
    ASSUME IInv, HistoryFrame, OtherTypes
    PROVE  IInv'
<1>1. \A s \in Submissions : log[s] \in History /\ cache[s] = Replay(log[s])
  BY DEF IInv, TypeOK, CacheCurrent
<1>2. ASSUME NEW s \in Submissions
      PROVE  /\ log'[s] \in History /\ cache'[s] = Replay(log'[s])
             /\ AddedOnce(log'[s]) /\ NotBoth(log'[s])
  <2>1. HistoryStep(s) /\ AddedOnce(log[s]) /\ NotBoth(log[s])
    BY DEF IInv, Settled, HistoryFrame
  <2>2. CASE log'[s] = log[s] /\ cache'[s] = cache[s]
    BY <1>1, <2>1, <2>2
  <2>3. CASE cache'[s] = Replay(log'[s]) /\ HistoryChange(log[s], log'[s])
    BY <1>1, <2>1, <2>3, ChangedHistory
  <2> QED
    BY <2>1, <2>2, <2>3 DEF HistoryStep
<1>3. log' \in [Submissions -> History]
  BY <1>2 DEF HistoryFrame
<1>4. \A s \in Submissions : cache'[s] \in CacheType
  BY <1>2, ReplayTyped
<1>5. cache' \in [Submissions -> CacheType]
  BY <1>4 DEF HistoryFrame
<1>6. TypeOK'
  BY <1>3, <1>5 DEF TypeOK, OtherTypes
<1>7. CacheCurrent' /\ Settled'
  BY <1>2 DEF CacheCurrent, Settled
<1> QED
  BY <1>6, <1>7 DEF IInv

-----------------------------------------------------------------------------
(* One lemma per action *)

\* Autofreeze is set or cleared.
LEMMA AutofreezeTyped ==
    ASSUME TypeOK, NEW s \in Submissions, NEW on, SetAutofreeze(s, on)
    PROVE  autofreeze' \subseteq Submissions
BY DEF TypeOK, SetAutofreeze

\* Appending the rows of an archive to any history.
LEMMA CreateStep ==
    ASSUME IInv, NEW u \in Users, NEW s \in Submissions, NEW v \in Verdicts,
           Create(u, s, v)
    PROVE  HistoryFrame /\ OtherTypes
<1> DEFINE r == ArchiveRows(u, "upload-file", v)
<1>1. r \in History /\ Unsettling(r)
  BY ArchiveRowsTyped
<1>2. r = log[s] \o r
  BY <1>1, ConcatEmptySeq DEF Create, History
<1>3. HistoryChange(log[s], r)
  BY <1>1, <1>2 DEF HistoryChange
<1>4. HistoryFrame
  BY <1>3, WriteFrame DEF IInv, Create, StoreRows, Write
<1>5. OtherTypes
  BY AutofreezeTyped DEF IInv, TypeOK, Create, OtherTypes
<1> QED
  BY <1>4, <1>5

LEMMA UploadStep ==
    ASSUME IInv, NEW u \in Users, NEW s \in Submissions, NEW v \in Verdicts,
           Upload(u, s, v)
    PROVE  HistoryFrame /\ OtherTypes
<1> DEFINE r == ArchiveRows(u, "upload-file", v)
<1>1. r \in History /\ Unsettling(r)
  BY ArchiveRowsTyped
<1>2. HistoryChange(log[s], log[s] \o r)
  BY <1>1 DEF HistoryChange
<1>3. HistoryFrame
  BY <1>2, WriteFrame DEF IInv, Upload, StoreRows, Write
<1>4. OtherTypes
  BY AutofreezeTyped DEF IInv, TypeOK, Upload, OtherTypes
<1> QED
  BY <1>3, <1>4

LEMMA MetaEditStep ==
    ASSUME IInv, NEW u \in Users, NEW s \in Submissions, NEW v \in Verdicts,
           MetaEdit(u, s, v)
    PROVE  HistoryFrame /\ OtherTypes
<1> DEFINE r == ArchiveRows(u, "edit-meta", v)
<1>1. r \in History /\ Unsettling(r)
  BY ArchiveRowsTyped
<1>2. PICK p \in Users, q \in Users :
        Write(s, log[s] \o EditRows(u, v, cache[s], p, q))
  BY DEF MetaEdit, StoreRows, Write
<1> DEFINE t == CarriedRows(cache[s], p, q)
<1>3. t \in History /\ Unsettling(t) /\ log[s] \in History
  BY CarriedRowsTyped DEF IInv, TypeOK
<1>4. EditRows(u, v, cache[s], p, q) = r \o t
  BY DEF EditRows
<1>5. r \o t \in History /\ Unsettling(r \o t)
  BY <1>1, <1>3, UnsettlingConcat
<1>6. HistoryChange(log[s], log[s] \o (r \o t))
  BY <1>3, <1>5 DEF HistoryChange
<1>7. HistoryFrame
  BY <1>2, <1>4, <1>6, WriteFrame DEF IInv
<1>8. OtherTypes
  BY AutofreezeTyped DEF IInv, TypeOK, MetaEdit, OtherTypes
<1> QED
  BY <1>7, <1>8

\* Importing records a version of the submission.
LEMMA ImportTyped ==
    ASSUME TypeOK, NEW done
    PROVE  Import(done) \in [Submissions -> SUBSET Nat]
<1>1. \A s \in Submissions : NewestFile(log[s]) \in SUBSET Nat
  BY HistoryShape DEF TypeOK, NewestFile
<1> QED
  BY <1>1 DEF TypeOK, Import

\* One comment of the validator or of a god.
LEMMA OverrideStep ==
    ASSUME IInv, NEW u \in Users, NEW s \in Submissions,
           OverrideBot(u, s) \/ ForceApproveSubmission(u, s)
              \/ ForceVerifySubmission(u, s)
    PROVE  HistoryFrame /\ OtherTypes
<1>1. PICK w \in Authors, a \in {"approve", "verify"} :
        Write(s, Append(log[s], Row(w, a)))
  BY DEF OverrideBot, ForceApproveSubmission, ForceVerifySubmission, Authors,
         StoreRows, Write
<1>2. Row(w, a) \in RowType /\ Row(w, a).action = a
  BY RowTyped DEF Row, Actions
<1>3. <<Row(w, a)>> \in History /\ Unsettling(<<Row(w, a)>>)
  BY <1>2 DEF History, Unsettling
<1>4. log[s] \in History
  BY DEF IInv, TypeOK
<1>5. Append(log[s], Row(w, a)) = log[s] \o <<Row(w, a)>>
  BY <1>2, <1>4, AppendIsConcat DEF History
<1>6. HistoryChange(log[s], Append(log[s], Row(w, a)))
  BY <1>3, <1>5 DEF HistoryChange
<1>7. HistoryFrame
  BY <1>1, <1>6, WriteFrame DEF IInv
<1>8. OtherTypes
  BY DEF IInv, TypeOK, OverrideBot, ForceApproveSubmission,
         ForceVerifySubmission, OtherTypes
<1> QED
  BY <1>7, <1>8

\* What a posted action may settle: the checks of the comment validator, read
\* from a current cache row, leave mark-added and reject to an unsettled
\* history.
LEMMA ValidSettles ==
    ASSUME IInv, NEW u \in Users, NEW a \in {"mark-added", "reject"},
           NEW s \in Submissions, ValidAction(u, a, cache[s])
    PROVE  Unsettled(log[s])
<1>1. log[s] \in History /\ cache[s] = Replay(log[s])
  BY DEF IInv, TypeOK, CacheCurrent
<1>2. CASE a = "mark-added"
  BY <1>1, <1>2, ReplayTells DEF ValidAction, NotTwice, InOrder, Unsettled
<1>3. CASE a = "reject"
  BY <1>1, <1>3, ReplayTells
     DEF ValidAction, OpenForReview, DecidingActions, RejectedOnce, Unsettled
<1> QED
  BY <1>2, <1>3

LEMMA ReceiveCommentsStep ==
    ASSUME IInv, NEW u \in Users, NEW a \in PostedActions,
           NEW batch \in SUBSET Submissions, NEW ignore \in BOOLEAN,
           ReceiveComments(u, a, batch, ignore)
    PROVE  HistoryFrame /\ OtherTypes
<1> DEFINE accepted == Accepted(u, a, batch)
           new == [s \in Submissions |-> IF s \in accepted
                                         THEN log[s] \o ReviewRows(u, a, s)
                                         ELSE log[s]]
<1>1. /\ log' = new
      /\ cache' = [s \in Submissions |-> IF s \in accepted THEN Replay(log'[s])
                                                            ELSE cache[s]]
  BY DEF ReceiveComments, UpdateSubmissionCacheTable
<1>2. a \in AllowedActions
  BY BoundsAssumption
<1>3. ASSUME NEW s \in accepted
      PROVE  s \in Submissions /\ HistoryChange(log[s], log[s] \o ReviewRows(u, a, s))
  <2> DEFINE r == FollowUp(u, a, s)
  <2>1. s \in Submissions /\ ValidAction(u, a, cache[s])
    BY DEF Accepted
  <2>2. /\ Row(u, a) \in RowType /\ r \in History /\ Unsettling(r)
        /\ ReviewRows(u, a, s) = <<Row(u, a)>> \o r
    BY <1>2, <2>1, FollowUpTyped
  <2>3. CASE a \in {"mark-added", "reject"}
    <3>1. Unsettled(log[s])
      BY <2>1, <2>3, ValidSettles
    <3> QED
      BY <2>1, <2>2, <3>1 DEF HistoryChange
  <2>4. CASE a \notin {"mark-added", "reject"}
    <3>1. <<Row(u, a)>> \in History /\ Unsettling(<<Row(u, a)>>)
      BY <2>2, <2>4 DEF History, Unsettling, Row
    <3>2. <<Row(u, a)>> \o r \in History /\ Unsettling(<<Row(u, a)>> \o r)
      BY <2>2, <3>1, UnsettlingConcat
    <3> QED
      BY <2>1, <2>2, <3>2 DEF HistoryChange
  <2> QED
    BY <2>3, <2>4
<1>4. ASSUME NEW s \in Submissions
      PROVE  HistoryStep(s)
  <2>1. CASE s \in accepted
    <3>1. log'[s] = log[s] \o ReviewRows(u, a, s) /\ cache'[s] = Replay(log'[s])
      BY <1>1, <2>1
    <3> QED
      BY <1>3, <2>1, <3>1 DEF HistoryStep
  <2>2. CASE s \notin accepted
    BY <1>1, <2>2 DEF HistoryStep
  <2> QED
    BY <2>1, <2>2
<1>5. HistoryFrame
  BY <1>1, <1>4 DEF HistoryFrame
<1>6. OtherTypes
  <2>1. imported' \in [Submissions -> SUBSET Nat]
    BY ImportTyped DEF IInv, TypeOK, ReceiveComments
  <2> QED
    BY <2>1 DEF IInv, TypeOK, ReceiveComments, OtherTypes, Accepted
<1> QED
  BY <1>5, <1>6

LEMMA ImportThenFailStep ==
    ASSUME IInv, NEW u \in Users, NEW batch \in SUBSET Submissions,
           ImportThenFail(u, batch)
    PROVE  HistoryFrame /\ OtherTypes
<1>1. HistoryFrame
  BY StutterFrame DEF IInv, ImportThenFail
<1>2. imported' \in [Submissions -> SUBSET Nat]
  BY ImportTyped DEF IInv, ImportThenFail
<1> QED
  BY <1>1, <1>2 DEF IInv, TypeOK, ImportThenFail, OtherTypes

\* Soft deletions of a file, a comment or the whole submission.
LEMMA DeleteStep ==
    ASSUME IInv, NEW u \in Users, NEW s \in Submissions,
           \/ \E i \in DOMAIN log[s] : SoftDeleteSubmissionFile(u, s, i)
           \/ \E i \in DOMAIN log[s] : SoftDeleteComment(u, s, i)
           \/ SoftDeleteSubmission(u, s)
    PROVE  HistoryFrame /\ OtherTypes
<1>1. DOMAIN log[s] \subseteq Nat
  BY HistoryShape DEF IInv, TypeOK
<1>2. PICK dead \in SUBSET Nat : Write(s, Kill(log[s], dead))
  BY <1>1 DEF SoftDeleteSubmissionFile, SoftDeleteComment, SoftDeleteSubmission,
              StoreRows, Write
<1>3. Kill(log[s], dead) = Deleted(log[s], dead)
  BY DEF Kill, Deleted
<1>4. HistoryChange(log[s], Kill(log[s], dead))
  BY <1>3 DEF HistoryChange
<1>5. HistoryFrame
  BY <1>2, <1>4, WriteFrame DEF IInv
<1>6. OtherTypes
  BY DEF IInv, TypeOK, SoftDeleteSubmissionFile, SoftDeleteComment,
         SoftDeleteSubmission, OtherTypes
<1> QED
  BY <1>5, <1>6

LEMMA FreezeStep ==
    ASSUME IInv, NEW u \in Users, NEW s \in Submissions,
           FreezeSubmission(u, s) \/ UnfreezeSubmission(u, s)
    PROVE  HistoryFrame /\ OtherTypes
<1>1. HistoryFrame
  BY StutterFrame DEF IInv, FreezeSubmission, UnfreezeSubmission
<1> QED
  BY <1>1 DEF IInv, TypeOK, FreezeSubmission, UnfreezeSubmission, OtherTypes

-----------------------------------------------------------------------------
LEMMA InitIInv == Init => IInv
<1> SUFFICES ASSUME Init PROVE IInv
  OBVIOUS
<1>1. <<>> \in History
  BY DEF History
<1>2. EmptyCache \in CacheType /\ EmptyCache = Replay(<<>>)
  BY <1>1, ReplayTyped DEF EmptyCache
<1>3. TypeOK
  BY <1>1, <1>2 DEF Init, TypeOK
<1>4. CacheCurrent
  BY <1>2 DEF Init, CacheCurrent
<1>5. LiveActions(<<>>) = {} /\ AddedOnce(<<>>)
  BY DEF LiveActions, AddedOnce
<1>6. Settled
  BY <1>5 DEF Init, Settled, NotBoth
<1> QED
  BY <1>3, <1>4, <1>6 DEF IInv

LEMMA NextIInv == IInv /\ [Next]_vars => IInv'
<1> SUFFICES ASSUME IInv, [Next]_vars PROVE IInv'
  OBVIOUS
<1>1. CASE Archive
  BY <1>1, CreateStep, UploadStep, MetaEditStep, FrameKeeps DEF Archive
<1>2. CASE Review
  BY <1>2, ReceiveCommentsStep, ImportThenFailStep, FrameKeeps DEF Review, IgnoreOptions
<1>3. CASE Override
  BY <1>3, OverrideStep, FrameKeeps DEF Override
<1>4. CASE Moderate
  BY <1>4, DeleteStep, FreezeStep, FrameKeeps DEF Moderate
<1>5. CASE UNCHANGED vars
  BY <1>5 DEF vars, IInv, TypeOK, CacheCurrent, Settled
<1> QED
  BY <1>1, <1>2, <1>3, <1>4, <1>5 DEF Next

\* The inductive invariant of the rows: types, a current cache row, and
\* histories that are settled in one way at most.
THEOREM Invariant == Spec => []IInv
BY InitIInv, NextIInv, PTL DEF Spec

\* Types: histories hold rows of the tables, cache rows their columns.
THEOREM TypeCorrect == Spec => []TypeOK
BY Invariant, PTL DEF IInv

\* Nobody stands for and against a submission at the same time.
THEOREM OneMind == Spec => []NoTwoMinds
<1>1. IInv => NoTwoMinds
  BY RequestExcludesDecision DEF IInv, TypeOK, CacheCurrent, NoTwoMinds
<1> QED
  BY <1>1, Invariant, PTL

\* Retries, batches and deletions never leave two live mark-added comments.
THEOREM AddedOnceOnly == Spec => []AddedAtMostOnce
<1>1. IInv => AddedAtMostOnce
  BY DEF IInv, Settled, AddedOnce, AddedAtMostOnce
<1> QED
  BY <1>1, Invariant, PTL

\* No submission is rejected and added, although the cache row of a rejected
\* submission hides the mark-added from the check that looks for it.
THEOREM NeverRejectedAndAdded == Spec => []RejectExcludesAdded
<1>1. IInv => RejectExcludesAdded
  BY DEF IInv, Settled, NotBoth, RejectExcludesAdded
<1> QED
  BY <1>1, Invariant, PTL

-----------------------------------------------------------------------------
(* What the rows of each transaction say *)

LEMMA RowSays ==
    ASSUME NEW u, NEW a
    PROVE  /\ Row(u, a).by = u /\ Row(u, a).action = a /\ Row(u, a).live
BY DEF Row

\* The file comes first and is the only one; of the people only the uploader
\* has written anything.
LEMMA ArchiveSays ==
    ASSUME NEW u \in Users, NEW a \in {"upload-file", "edit-meta"},
           NEW v \in Verdicts
    PROVE  LET r == ArchiveRows(u, a, v) IN
           /\ r \in History
           /\ 1 \in DOMAIN r /\ r[1] = Row(u, "file")
           /\ 2 \in DOMAIN r /\ r[2] = Row(u, a)
           /\ \A i \in DOMAIN r \ {1} : r[i] \in {Row(u, a), Row(Validator, v.bot),
                                                  Row(System, "system")}
<1>1. v.bot \in {"approve", "request-changes"} /\ v.note \in BOOLEAN
  BY BoundsAssumption DEF VerdictType
<1>2. /\ Row(u, "file") \in RowType /\ Row(u, a) \in RowType
      /\ Row(Validator, v.bot) \in RowType /\ Row(System, "system") \in RowType
  BY <1>1, RowTyped DEF Authors, Actions
<1> DEFINE x == <<Row(u, "file"), Row(u, a), Row(Validator, v.bot)>>
           y == IF v.note THEN <<Row(System, "system")>> ELSE <<>>
<1>3. /\ x \in History /\ Len(x) = 3 /\ DOMAIN x = 1 .. 3
      /\ x[1] = Row(u, "file") /\ x[2] = Row(u, a) /\ x[3] = Row(Validator, v.bot)
  BY <1>2 DEF History
<1>4. y \in History /\ RowsIn(y, {Row(System, "system")})
  BY <1>2 DEF History, RowsIn
<1>5. ArchiveRows(u, a, v) = x \o y
  BY DEF ArchiveRows
<1> HIDE DEF x, y
<1>6. /\ x \o y \in History
      /\ \A i \in 1 .. 3 : i \in DOMAIN (x \o y) /\ (x \o y)[i] = x[i]
  BY <1>3, <1>4, Appending
<1>7. ASSUME NEW i \in DOMAIN (x \o y) \ {1}
      PROVE  (x \o y)[i] \in {Row(u, a), Row(Validator, v.bot), Row(System, "system")}
  <2>1. CASE i \in DOMAIN x
    BY <1>3, <1>6, <2>1
  <2>2. CASE i \notin DOMAIN x
    BY <1>3, <1>4, <2>2, NewRowsIn
  <2> QED
    BY <2>1, <2>2
<1> QED
  BY <1>3, <1>5, <1>6, <1>7

\* Read as rows that enable and disable.
LEMMA ArchiveWrote ==
    ASSUME NEW u \in Users, NEW a \in {"upload-file", "edit-meta"},
           NEW v \in Verdicts
    PROVE  LET r == ArchiveRows(u, a, v) IN
           /\ \A i \in DOMAIN r : LiveFile(r, i) <=> i = 1
           /\ \A acts : \A w \in Users :
                Wrote(r, w, acts) => w = u /\ acts \cap {"file", a} # {}
           /\ \A i \in DOMAIN r : r[i].live /\ r[i].action # "reject"
           /\ \A i \in DOMAIN r : r[i].action \in {"upload-file", "edit-meta"}
                                    => r[i].action = a
<1> DEFINE r == ArchiveRows(u, a, v)
<1>1. /\ 1 \in DOMAIN r /\ r[1] = Row(u, "file")
      /\ \A i \in DOMAIN r \ {1} : r[i] \in {Row(u, a), Row(Validator, v.bot),
                                             Row(System, "system")}
  BY ArchiveSays
<1>2. v.bot \in {"approve", "request-changes"}
  BY BoundsAssumption DEF VerdictType
<1> HIDE DEF r
<1>3. ASSUME NEW i \in DOMAIN r
      PROVE  /\ LiveFile(r, i) <=> i = 1
             /\ \A acts : \A w \in Users :
                   Written(r, i, w, acts) => w = u /\ acts \cap {"file", a} # {}
             /\ r[i].live /\ r[i].action # "reject"
             /\ r[i].action \in {"upload-file", "edit-meta"} => r[i].action = a
  <2>1. CASE i = 1
    BY <1>1, <2>1, RowSays DEF LiveFile, Written
  <2>2. CASE i # 1
    BY <1>1, <1>2, <2>2, RowSays, AuthorsAssumption DEF LiveFile, Written
  <2> QED
    BY <2>1, <2>2
<1> QED
  BY <1>3 DEF Wrote, r

\* A metadata edit repeats what one approver and one verifier have said.
LEMMA CarriedSays ==
    ASSUME NEW c \in CacheType, NEW p \in Users, NEW q \in Users
    PROVE  LET t == CarriedRows(c, p, q) IN
           /\ t \in History
           /\ RowsIn(t, {Row(p, "approve"), Row(q, "verify")})
           /\ c.approved # {} => 1 \in DOMAIN t /\ t[1] = Row(p, "approve")
           /\ c.approved # {} /\ c.verified # {}
                => 2 \in DOMAIN t /\ t[2] = Row(q, "verify")
           /\ Len(t) = IF c.approved = {} THEN 0 ELSE IF c.verified = {} THEN 1 ELSE 2
<1>1. Row(p, "approve") \in RowType /\ Row(q, "verify") \in RowType
  BY RowTyped DEF Authors, Actions
<1> DEFINE x == <<Row(p, "approve")>>
           y == IF c.verified = {} THEN <<>> ELSE <<Row(q, "verify")>>
<1>2. /\ x \in History /\ Len(x) = 1 /\ DOMAIN x = {1} /\ x[1] = Row(p, "approve")
      /\ y \in History /\ Len(y) = (IF c.verified = {} THEN 0 ELSE 1)
      /\ DOMAIN y = (IF c.verified = {} THEN {} ELSE {1})
      /\ c.verified # {} => y[1] = Row(q, "verify")
  BY <1>1 DEF History
<1>3. CASE c.approved = {}
  <2>1. CarriedRows(c, p, q) = <<>>
    BY <1>3 DEF CarriedRows
  <2> QED
    BY <1>3, <2>1 DEF History, RowsIn
<1>4. CASE c.approved # {}
  <2>1. CarriedRows(c, p, q) = x \o y
    BY <1>4, Zenon DEF CarriedRows
  <2> HIDE DEF x, y
  <2>2. RowsIn(x, {Row(p, "approve"), Row(q, "verify")})
    BY <1>2 DEF RowsIn
  <2>3. RowsIn(y, {Row(p, "approve"), Row(q, "verify")})
    BY <1>2 DEF RowsIn
  <2>4. RowsIn(x \o y, {Row(p, "approve"), Row(q, "verify")})
    BY <1>2, <2>2, <2>3, RowsInConcat
  <2>5. x \o y \in History /\ Len(x \o y) = 1 + Len(y)
    <3>1. x \o y \in History /\ Len(x \o y) = Len(x) + Len(y)
      BY <1>2, Appending
    <3> QED
      BY <1>2, <3>1
  <2>6. 1 \in DOMAIN (x \o y) /\ (x \o y)[1] = Row(p, "approve")
    BY <1>2, Appending
  <2>7. c.verified # {} => 2 \in DOMAIN (x \o y) /\ (x \o y)[2] = Row(q, "verify")
    <3> SUFFICES ASSUME c.verified # {}
                 PROVE  2 \in DOMAIN (x \o y) /\ (x \o y)[2] = Row(q, "verify")
      OBVIOUS
    <3>1. Len(x \o y) = 2 /\ 2 \in DOMAIN (x \o y) \ DOMAIN x
      BY <1>2, <2>5, HistoryShape
    <3> QED
      BY <1>2, <3>1, Appending
  <2> QED
    BY <1>2, <1>4, <2>1, <2>4, <2>5, <2>6, <2>7
<1> QED
  BY <1>3, <1>4

\* A posted comment: the action, then what gives up the assignment, then the
\* system's note that the submission was frozen.
LEMMA ReviewSays ==
    ASSUME NEW u \in Users, NEW a \in AllowedActions, NEW s \in Submissions
    PROVE  LET r == ReviewRows(u, a, s) IN
           /\ r \in History
           /\ 1 \in DOMAIN r /\ r[1] = Row(u, a)
           /\ \A i \in DOMAIN r \ {1} :
                r[i] \in {Row(u, "unassign-testing"), Row(u, "unassign-verification"),
                          Row(System, "system")}
<1>1. /\ Row(u, a) \in RowType /\ Row(System, "system") \in RowType
      /\ Row(u, "unassign-testing") \in RowType
      /\ Row(u, "unassign-verification") \in RowType
  BY RowTyped DEF Authors, Actions, AllowedActions
<1> DEFINE x == IF a = "approve" THEN <<Row(u, "unassign-testing")>>
                ELSE IF a = "verify" THEN <<Row(u, "unassign-verification")>>
                ELSE <<>>
           y == IF a = "verify" /\ s \in autofreeze
                THEN <<Row(System, "system")>> ELSE <<>>
           f == <<Row(u, a)>>
           S == {Row(u, "unassign-testing"), Row(u, "unassign-verification"),
                 Row(System, "system")}
<1>2. x \in History /\ RowsIn(x, S)
  BY <1>1 DEF History, RowsIn
<1>3. y \in History /\ RowsIn(y, S)
  BY <1>1 DEF History, RowsIn
<1>4. f \in History /\ Len(f) = 1 /\ DOMAIN f = {1} /\ f[1] = Row(u, a)
  BY <1>1 DEF History
<1>5. ReviewRows(u, a, s) = f \o (x \o y)
  <2>1. ReviewRows(u, a, s) = (f \o x) \o y
    BY DEF ReviewRows
  <2> HIDE DEF f, x, y
  <2> QED
    BY <1>2, <1>3, <1>4, <2>1, Grouping
<1> HIDE DEF x, y, f, S
<1>6. x \o y \in History /\ RowsIn(x \o y, S)
  BY <1>2, <1>3, Appending, RowsInConcat
<1>7. /\ f \o (x \o y) \in History
      /\ 1 \in DOMAIN (f \o (x \o y)) /\ (f \o (x \o y))[1] = Row(u, a)
  BY <1>4, <1>6, Appending
<1>8. \A i \in DOMAIN (f \o (x \o y)) \ {1} : (f \o (x \o y))[i] \in S
  BY <1>4, <1>6, NewRowsIn
<1> QED
  BY <1>5, <1>7, <1>8 DEF S

-----------------------------------------------------------------------------
(* What one step does to one submission, with the guards it passed *)

Replayed(s) == cache'[s] = Replay(log'[s])

Untold(s) ==
    /\ log'[s] = log[s] /\ cache'[s] = cache[s]
    /\ imported'[s] = imported[s] \/ Unsettled(log[s])

Created(s, u, v) ==
    /\ log[s] = <<>> /\ WithinQuota(u)
    /\ log'[s] = ArchiveRows(u, "upload-file", v)
    /\ \A t \in Submissions \ {s} : log'[t] = log[t] /\ cache'[t] = cache[t]

Uploaded(s, u, v) ==
    /\ Mutable(s)
    /\ log'[s] = log[s] \o ArchiveRows(u, "upload-file", v)

Edited(s, u, v, p, q) ==
    /\ Mutable(s)
    /\ cache[s].approved # {} => p \in cache[s].approved
    /\ cache[s].verified # {} => q \in cache[s].verified
    /\ log'[s] = log[s] \o EditRows(u, v, cache[s], p, q)

Reviewed(s, u, a) ==
    /\ Active(s)
    /\ s \in frozen => u \in Freezers
    /\ ValidAction(u, a, cache[s])
    /\ log'[s] = log[s] \o ReviewRows(u, a, s)
    /\ imported'[s] = IF a = "mark-added" THEN NewestFile(log[s]) ELSE imported[s]

Forced(s, w, a) ==
    /\ Active(s)
    /\ w \in Gods \/ (w = Validator /\ s \notin frozen)
    /\ log'[s] = log[s] \o <<Row(w, a)>>

Pruned(s, dead) ==
    /\ Mutable(s)
    /\ dead \cap DOMAIN log[s] # {}
    /\ log'[s] = Deleted(log[s], dead)

\* The review actions a route lets through.
Postable == AllowedActions \ {"upload-file"}

Writes(s) ==
    \/ \E u \in Users, v \in Verdicts : Created(s, u, v) \/ Uploaded(s, u, v)
    \/ \E u, p, q \in Users, v \in Verdicts : Edited(s, u, v, p, q)
    \/ \E w \in Authors, a \in {"approve", "verify"} : Forced(s, w, a)
    \/ \E dead \in SUBSET Nat : Pruned(s, dead)

Step(s) ==
    \/ Untold(s)
    \/ Replayed(s) /\ Writes(s) /\ imported'[s] = imported[s]
    \/ Replayed(s) /\ \E u \in Users, a \in Postable : Reviewed(s, u, a)

\* What is frozen exists, and what is removed has been deleted.
Edges ==
    /\ \A s \in frozen' : s \in frozen \/ log[s] # <<>>
    /\ \A s \in removed' : s \in removed \/ ~ Untouched(s)'

\* A transaction that writes to one submission leaves the others alone.
LEMMA OneWrite ==
    ASSUME TypeOK, NEW s \in Submissions, NEW h, Write(s, h), UNCHANGED imported
    PROVE  /\ log'[s] = h /\ Replayed(s) /\ imported'[s] = imported[s]
           /\ \A t \in Submissions \ {s} :
                Untold(t) /\ log'[t] = log[t] /\ cache'[t] = cache[t]
BY DEF TypeOK, Write, WriteRows, UpdateSubmissionCacheTable, Replayed, Untold

LEMMA ArchiveSteps ==
    ASSUME IInv, NEW u \in Users, NEW s \in Submissions, NEW v \in Verdicts,
           Create(u, s, v) \/ Upload(u, s, v) \/ MetaEdit(u, s, v)
    PROVE  Edges /\ \A t \in Submissions : Step(t)
<1>0. UNCHANGED <<frozen, removed, imported>>
  BY DEF Create, Upload, MetaEdit
<1>1. TypeOK
  BY DEF IInv
<1>2. CASE Create(u, s, v)
  <2>1. /\ Write(s, ArchiveRows(u, "upload-file", v))
        /\ log[s] = <<>> /\ WithinQuota(u)
    BY <1>2 DEF Create, StoreRows, Write
  <2>2. Created(s, u, v) /\ Replayed(s) /\ imported'[s] = imported[s]
        /\ \A t \in Submissions \ {s} : Untold(t)
    BY <1>0, <1>1, <2>1, OneWrite DEF Created
  <2> QED
    BY <1>0, <2>2 DEF Edges, Step, Writes
<1>3. CASE Upload(u, s, v)
  <2>1. Mutable(s) /\ Write(s, log[s] \o ArchiveRows(u, "upload-file", v))
    BY <1>3 DEF Upload, StoreRows, Write
  <2>2. Uploaded(s, u, v) /\ Replayed(s) /\ imported'[s] = imported[s]
        /\ \A t \in Submissions \ {s} : Untold(t)
    BY <1>0, <1>1, <2>1, OneWrite DEF Uploaded
  <2> QED
    BY <1>0, <2>2 DEF Edges, Step, Writes
<1>4. CASE MetaEdit(u, s, v)
  <2>1. PICK p \in Users, q \in Users :
          /\ cache[s].approved # {} => p \in cache[s].approved
          /\ cache[s].verified # {} => q \in cache[s].verified
          /\ Write(s, log[s] \o EditRows(u, v, cache[s], p, q))
    BY <1>4 DEF MetaEdit, StoreRows, Write
  <2>2. Mutable(s) /\ Write(s, log[s] \o EditRows(u, v, cache[s], p, q))
    BY <1>4, <2>1 DEF MetaEdit
  <2>3. Edited(s, u, v, p, q) /\ Replayed(s) /\ imported'[s] = imported[s]
        /\ \A t \in Submissions \ {s} : Untold(t)
    BY <1>0, <1>1, <2>1, <2>2, OneWrite DEF Edited
  <2> QED
    BY <1>0, <2>3 DEF Edges, Step, Writes
<1> QED
  BY <1>2, <1>3, <1>4

LEMMA ReviewSteps ==
    ASSUME IInv, NEW u \in Users, NEW a \in PostedActions,
           NEW batch \in SUBSET Submissions, NEW ignore \in BOOLEAN,
           ReceiveComments(u, a, batch, ignore)
    PROVE  Edges /\ \A t \in Submissions : Step(t)
<1> DEFINE accepted == Accepted(u, a, batch)
           new == [s \in Submissions |-> IF s \in accepted
                                         THEN log[s] \o ReviewRows(u, a, s)
                                         ELSE log[s]]
<1>1. /\ log' = new
      /\ cache' = [s \in Submissions |-> IF s \in accepted THEN Replay(log'[s])
                                                            ELSE cache[s]]
      /\ frozen' = (IF a = "verify" THEN frozen \cup (accepted \cap autofreeze)
                                    ELSE frozen)
      /\ imported' = (IF a = "mark-added" THEN Import(accepted) ELSE imported)
      /\ removed' = removed
      /\ BatchOpen(u, a, batch)
  BY DEF ReceiveComments, UpdateSubmissionCacheTable
<1>2. a \in Postable
  BY <1>1, BoundsAssumption
     DEF BatchOpen, MayPost, Postable, AllowedActions, DecidingActions
<1>3. ASSUME NEW s \in accepted
      PROVE  /\ s \in Submissions /\ ValidAction(u, a, cache[s])
             /\ Active(s)
             /\ s \in frozen => u \in Freezers
  BY <1>1 DEF Accepted, BatchOpen, MayTouch
<1>4. ASSUME NEW s \in Submissions
      PROVE  Step(s)
  <2>1. CASE s \in accepted
    <3>1. log'[s] = log[s] \o ReviewRows(u, a, s) /\ Replayed(s)
      BY <1>1, <2>1 DEF Replayed
    <3>2. imported'[s] = IF a = "mark-added" THEN NewestFile(log[s]) ELSE imported[s]
      BY <1>1, <2>1 DEF Import
    <3>3. Reviewed(s, u, a)
      BY <1>3, <2>1, <3>1, <3>2 DEF Reviewed
    <3> QED
      BY <1>2, <3>1, <3>3 DEF Step
  <2>2. CASE s \notin accepted
    <3>1. log'[s] = log[s] /\ cache'[s] = cache[s]
      BY <1>1, <2>2
    <3>2. imported'[s] = imported[s]
      BY <1>1, <2>2 DEF Import
    <3> QED
      BY <3>1, <3>2 DEF Step, Untold
  <2> QED
    BY <2>1, <2>2
<1>5. Edges
  BY <1>1, <1>3 DEF Edges, Active
<1> QED
  BY <1>4, <1>5

LEMMA FailedImportSteps ==
    ASSUME IInv, NEW u \in Users, NEW batch \in SUBSET Submissions,
           ImportThenFail(u, batch)
    PROVE  Edges /\ \A t \in Submissions : Step(t)
<1>1. PICK done \in SUBSET Accepted(u, "mark-added", batch) :
        imported' = Import(done)
  BY DEF ImportThenFail
<1>2. UNCHANGED <<log, cache, frozen, removed>>
  BY DEF ImportThenFail
<1>3. ASSUME NEW t \in Submissions
      PROVE  Step(t)
  <2>1. CASE t \in done
    BY <1>1, <1>2, <2>1, ValidSettles DEF Accepted, Step, Untold
  <2>2. CASE t \notin done
    BY <1>1, <1>2, <2>2 DEF Import, Step, Untold
  <2> QED
    BY <2>1, <2>2
<1> QED
  BY <1>2, <1>3 DEF Edges

LEMMA OverrideSteps ==
    ASSUME IInv, NEW u \in Users, NEW s \in Submissions,
           OverrideBot(u, s) \/ ForceApproveSubmission(u, s)
              \/ ForceVerifySubmission(u, s)
    PROVE  Edges /\ \A t \in Submissions : Step(t)
<1>0. TypeOK /\ UNCHANGED <<frozen, removed, imported>>
  BY DEF IInv, OverrideBot, ForceApproveSubmission, ForceVerifySubmission
<1>1. PICK w \in Authors, a \in {"approve", "verify"} :
        /\ Active(s)
        /\ w \in Gods \/ (w = Validator /\ s \notin frozen)
        /\ Write(s, Append(log[s], Row(w, a)))
  <2>1. CASE OverrideBot(u, s)
    <3>1. /\ Active(s) /\ s \notin frozen /\ Validator \in Authors
          /\ Write(s, Append(log[s], Row(Validator, "approve")))
      BY <2>1 DEF OverrideBot, Mutable, StoreRows, Write, Authors
    <3> QED
      BY <3>1
  <2>2. CASE ForceApproveSubmission(u, s)
    <3>1. /\ Active(s) /\ u \in Gods /\ u \in Authors
          /\ Write(s, Append(log[s], Row(u, "approve")))
      BY <2>2 DEF ForceApproveSubmission, StoreRows, Write, Authors
    <3> QED
      BY <3>1
  <2>3. CASE ForceVerifySubmission(u, s)
    <3>1. /\ Active(s) /\ u \in Gods /\ u \in Authors
          /\ Write(s, Append(log[s], Row(u, "verify")))
      BY <2>3 DEF ForceVerifySubmission, StoreRows, Write, Authors
    <3> QED
      BY <3>1
  <2> QED
    BY <2>1, <2>2, <2>3
<1>2. Append(log[s], Row(w, a)) = log[s] \o <<Row(w, a)>>
  <2>1. log[s] \in Seq(RowType) /\ Row(w, a) \in RowType
    BY <1>0, RowTyped DEF TypeOK, History, Actions
  <2> QED
    BY <2>1, AppendIsConcat
<1>3. Forced(s, w, a) /\ Replayed(s) /\ imported'[s] = imported[s]
      /\ \A t \in Submissions \ {s} : Untold(t)
  BY <1>0, <1>1, <1>2, OneWrite DEF Forced
<1> QED
  BY <1>0, <1>3 DEF Edges, Step, Writes

\* What a deletion leaves dead.
LEMMA DeletedIsTouched ==
    ASSUME NEW h \in History, NEW dead, NEW i \in dead \cap DOMAIN h
    PROVE  i \in DOMAIN Deleted(h, dead) /\ ~ Deleted(h, dead)[i].live
BY HistoryShape DEF Deleted, RowType

LEMMA ModerateSteps ==
    ASSUME IInv, NEW u \in Users, NEW s \in Submissions,
           \/ \E i \in DOMAIN log[s] : SoftDeleteSubmissionFile(u, s, i)
           \/ \E i \in DOMAIN log[s] : SoftDeleteComment(u, s, i)
           \/ SoftDeleteSubmission(u, s)
    PROVE  Edges /\ \A t \in Submissions : Step(t)
<1>1. TypeOK /\ log[s] \in History /\ UNCHANGED <<frozen, imported>>
  BY DEF IInv, TypeOK, SoftDeleteSubmissionFile, SoftDeleteComment, SoftDeleteSubmission
<1>2. Mutable(s)
  BY DEF SoftDeleteSubmissionFile, SoftDeleteComment, SoftDeleteSubmission
<1>3. /\ DOMAIN log[s] = 1 .. Len(log[s]) /\ Len(log[s]) \in Nat
      /\ DOMAIN log[s] # {}
  <2>1. log[s] # <<>>
    BY <1>2 DEF Mutable, Active
  <2>2. Len(log[s]) # 0
    BY <1>1, <2>1, EmptySeq DEF History
  <2>3. DOMAIN log[s] = 1 .. Len(log[s]) /\ Len(log[s]) \in Nat
    BY <1>1, HistoryShape
  <2>4. 1 \in DOMAIN log[s]
    BY <2>2, <2>3
  <2> QED
    BY <2>3, <2>4
<1>4. PICK dead \in SUBSET Nat :
        /\ dead \cap DOMAIN log[s] # {}
        /\ Write(s, Kill(log[s], dead))
        /\ removed' \in {removed, removed \cup {s}}
  <2>1. CASE SoftDeleteSubmission(u, s)
    BY <1>3, <2>1 DEF SoftDeleteSubmission, Write
  <2>2. CASE \E i \in DOMAIN log[s] :
                SoftDeleteSubmissionFile(u, s, i) \/ SoftDeleteComment(u, s, i)
    <3>1. PICK i \in DOMAIN log[s] :
                Write(s, Kill(log[s], {i})) /\ removed' = removed
      BY <2>2 DEF SoftDeleteSubmissionFile, SoftDeleteComment, StoreRows, Write
    <3>2. {i} \in SUBSET Nat /\ {i} \cap DOMAIN log[s] # {}
      BY <1>3
    <3> QED
      BY <3>1, <3>2
  <2> QED
    BY <2>1, <2>2
<1>5. Kill(log[s], dead) = Deleted(log[s], dead)
  BY DEF Kill, Deleted
<1>6. Pruned(s, dead) /\ Replayed(s) /\ imported'[s] = imported[s]
      /\ \A t \in Submissions \ {s} : Untold(t)
  BY <1>1, <1>2, <1>4, <1>5, OneWrite DEF Pruned
<1>7. ~ Untouched(s)'
  <2>1. PICK i \in dead \cap DOMAIN log[s] : TRUE
    BY <1>4
  <2>2. i \in DOMAIN log'[s] /\ ~ log'[s][i].live
    BY <1>1, <1>6, <2>1, DeletedIsTouched DEF Pruned
  <2> QED
    BY <2>2 DEF Untouched
<1> QED
  BY <1>1, <1>4, <1>6, <1>7 DEF Edges, Step, Writes

LEMMA NextSteps ==
    ASSUME IInv, [Next]_vars
    PROVE  Edges /\ \A t \in Submissions : Step(t)
<1>1. CASE Archive
  BY <1>1, ArchiveSteps DEF Archive
<1>2. CASE Review
  BY <1>2, ReviewSteps, FailedImportSteps DEF Review, IgnoreOptions
<1>3. CASE Override
  BY <1>3, OverrideSteps DEF Override
<1>4. CASE \E u \in Users, s \in Submissions :
              FreezeSubmission(u, s) \/ UnfreezeSubmission(u, s)
  BY <1>4 DEF FreezeSubmission, UnfreezeSubmission, Active, Edges, Step, Untold
<1>5. CASE UNCHANGED vars
  BY <1>5 DEF vars, Edges, Step, Untold
<1> QED
  BY <1>1, <1>2, <1>3, <1>4, <1>5, ModerateSteps DEF Next, Moderate

\* The rows of a metadata edit.
LEMMA EditSays ==
    ASSUME NEW u \in Users, NEW v \in Verdicts, NEW c \in CacheType,
           NEW p \in Users, NEW q \in Users
    PROVE  /\ ArchiveRows(u, "edit-meta", v) \in History
           /\ CarriedRows(c, p, q) \in History
           /\ EditRows(u, v, c, p, q)
                = ArchiveRows(u, "edit-meta", v) \o CarriedRows(c, p, q)
           /\ EditRows(u, v, c, p, q) \in History
<1>1. ArchiveRows(u, "edit-meta", v) \in History /\ CarriedRows(c, p, q) \in History
  BY ArchiveSays, CarriedSays
<1> QED
  BY <1>1, Appending DEF EditRows

\* A step leaves a history alone, appends to it or deletes from it.
LEMMA Appends ==
    ASSUME IInv, NEW s \in Submissions, Step(s)
    PROVE  \/ log'[s] = log[s]
           \/ \E r \in History : log'[s] = log[s] \o r
           \/ \E dead \in SUBSET Nat : Pruned(s, dead)
<1>1. log[s] \in History /\ cache[s] \in CacheType
  BY DEF IInv, TypeOK
<1>2. ASSUME NEW u \in Users, NEW v \in Verdicts, Created(s, u, v) \/ Uploaded(s, u, v)
      PROVE  \E r \in History : log'[s] = log[s] \o r
  <2> DEFINE r == ArchiveRows(u, "upload-file", v)
  <2>1. r \in History
    BY ArchiveSays
  <2>2. <<>> \o r = r
    BY <2>1, ConcatEmptySeq DEF History
  <2> QED
    BY <1>2, <2>1, <2>2 DEF Created, Uploaded
<1>3. ASSUME NEW u \in Users, NEW p \in Users, NEW q \in Users, NEW v \in Verdicts,
             Edited(s, u, v, p, q)
      PROVE  \E r \in History : log'[s] = log[s] \o r
  <2>1. EditRows(u, v, cache[s], p, q) \in History
    BY <1>1, EditSays
  <2> QED
    BY <1>3, <2>1 DEF Edited
<1>4. ASSUME NEW w \in Authors, NEW a \in {"approve", "verify"}, Forced(s, w, a)
      PROVE  \E r \in History : log'[s] = log[s] \o r
  <2>1. <<Row(w, a)>> \in History
    BY RowTyped DEF History, Actions
  <2> QED
    BY <1>4, <2>1 DEF Forced
<1>5. ASSUME NEW u \in Users, NEW a \in Postable, Reviewed(s, u, a)
      PROVE  \E r \in History : log'[s] = log[s] \o r
  <2>1. ReviewRows(u, a, s) \in History
    BY ReviewSays DEF Postable
  <2> QED
    BY <1>5, <2>1 DEF Reviewed
<1> QED
  BY <1>2, <1>3, <1>4, <1>5 DEF Step, Untold, Writes

\* No row is ever lost, moved or brought back to life.
LEMMA RowsStay ==
    ASSUME IInv, NEW s \in Submissions, Step(s), NEW i \in DOMAIN log[s]
    PROVE  /\ i \in DOMAIN log'[s]
           /\ log'[s][i].by = log[s][i].by
           /\ log'[s][i].action = log[s][i].action
           /\ log'[s][i].live => log[s][i].live
<1>1. log[s] \in History
  BY DEF IInv, TypeOK
<1>2. CASE \E r \in History : log'[s] = log[s] \o r
  BY <1>1, <1>2, Appending
<1>3. CASE \E dead \in SUBSET Nat : Pruned(s, dead)
  BY <1>1, <1>3, Deleting DEF Pruned
<1> QED
  BY <1>2, <1>3, Appends

\* The actions a step appends are those of the appended rows.
LEMMA AppendedActions ==
    ASSUME NEW s \in Submissions, log[s] \in History, NEW r \in History,
           log'[s] = log[s] \o r, NEW a \in Appended(s)
    PROVE  \E i \in DOMAIN r : r[i].action = a
<1>1. PICK j \in (Len(log[s]) + 1) .. Len(log'[s]) : log'[s][j].action = a
  BY DEF Appended
<1>2. /\ Len(log[s]) \in Nat /\ DOMAIN log[s] = 1 .. Len(log[s])
      /\ log[s] \o r \in History
  BY Appending, HistoryShape
<1>3. Len(log[s] \o r) \in Nat /\ DOMAIN (log[s] \o r) = 1 .. Len(log[s] \o r)
  BY <1>2, HistoryShape
<1>4. j \in DOMAIN (log[s] \o r) \ DOMAIN log[s]
  BY <1>2, <1>3
<1>5. j - Len(log[s]) \in DOMAIN r /\ (log[s] \o r)[j] = r[j - Len(log[s])]
  BY <1>4, Appending
<1> QED
  BY <1>1, <1>5

-----------------------------------------------------------------------------
(* The order of the first rows, the frozen and the removed submissions *)

\* A history begins with a file, only what exists is frozen, and what is
\* removed has been deleted from.
Opened ==
    /\ \A s \in Submissions : log[s] # <<>> => log[s][1].action = "file"
    /\ \A s \in frozen : log[s] # <<>>
    /\ \A s \in removed : ~ Untouched(s)

LEMMA InitOpened == Init => Opened
BY DEF Init, Opened

LEMMA FirstRow ==
    ASSUME NEW h \in History
    PROVE  h # <<>> <=> 1 \in DOMAIN h
<1>1. Len(h) \in Nat /\ DOMAIN h = 1 .. Len(h)
  BY HistoryShape
<1>2. h # <<>> => Len(h) # 0
  BY EmptySeq DEF History
<1> QED
  BY <1>1, <1>2

LEMMA NextOpened ==
    ASSUME IInv, IInv', Opened, Edges, \A s \in Submissions : Step(s)
    PROVE  Opened'
<1>0. /\ \A s \in Submissions : log[s] \in History /\ log'[s] \in History
      /\ frozen' \subseteq Submissions /\ removed' \subseteq Submissions
  BY DEF IInv, TypeOK
<1>1. ASSUME NEW s \in Submissions, log[s] # <<>>
      PROVE  log'[s] # <<>> /\ log'[s][1].action = "file"
  <2>1. 1 \in DOMAIN log[s] /\ log[s][1].action = "file"
    BY <1>0, <1>1, FirstRow DEF Opened
  <2>2. 1 \in DOMAIN log'[s] /\ log'[s][1].action = "file"
    BY <2>1, RowsStay
  <2> QED
    BY <1>0, <2>2, FirstRow
<1>2. ASSUME NEW s \in Submissions, log[s] = <<>>, log'[s] # <<>>
      PROVE  log'[s][1].action = "file"
  <2>1. PICK u \in Users, v \in Verdicts : Created(s, u, v)
    BY <1>2 DEF Step, Untold, Writes, Uploaded, Edited, Forced, Pruned, Reviewed,
                Mutable, Active
  <2> QED
    BY <2>1, ArchiveSays, RowSays DEF Created
<1>3. ASSUME NEW s \in frozen'
      PROVE  log'[s] # <<>>
  BY <1>0, <1>1, <1>3 DEF Edges, Opened
<1>4. ASSUME NEW s \in removed'
      PROVE  ~ Untouched(s)'
  <2>1. CASE s \in removed
    <3>1. PICK i \in DOMAIN log[s] : ~ log[s][i].live
      BY <2>1 DEF Opened, Untouched
    <3>2. i \in DOMAIN log'[s] /\ ~ log'[s][i].live
      BY <1>0, <1>4, <3>1, RowsStay
    <3> QED
      BY <3>2 DEF Untouched
  <2> QED
    BY <1>4, <2>1 DEF Edges
<1> QED
  BY <1>1, <1>2, <1>3, <1>4 DEF Opened

-----------------------------------------------------------------------------
(* Frozen submissions *)

\* Rows of authors in A keep the rows before them as they are.
LEMMA ReadOnlyAppend ==
    ASSUME NEW h \in History, NEW r \in History, NEW A,
           \A i \in DOMAIN r : r[i].by \in A
    PROVE  /\ Len(h) <= Len(h \o r)
           /\ \A i \in DOMAIN (h \o r) :
                IF i \in DOMAIN h THEN (h \o r)[i] = h[i] ELSE (h \o r)[i].by \in A
<1>1. Len(h) \in Nat /\ Len(r) \in Nat /\ Len(h \o r) = Len(h) + Len(r)
  BY Appending, HistoryShape
<1>2. \A i \in DOMAIN h : (h \o r)[i] = h[i]
  BY Appending
<1>3. \A i \in DOMAIN (h \o r) \ DOMAIN h : (h \o r)[i].by \in A
  BY Appending
<1> QED
  BY <1>1, <1>2, <1>3

LEMMA FrozenStep ==
    ASSUME IInv, Opened, NEW s \in frozen, Step(s)
    PROVE  /\ Len(log[s]) <= Len(log'[s])
           /\ \A i \in DOMAIN log'[s] :
                IF i \in DOMAIN log[s] THEN log'[s][i] = log[s][i]
                ELSE log'[s][i].by \in Freezers \cup Gods \cup {System}
<1>1. s \in Submissions /\ log[s] \in History /\ log[s] # <<>>
  BY DEF IInv, TypeOK, Opened
<1>2. CASE Untold(s)
  BY <1>1, <1>2, HistoryShape DEF Untold
<1>3. CASE Writes(s)
  <2>1. PICK w \in Authors, a \in {"approve", "verify"} : Forced(s, w, a)
    BY <1>1, <1>3 DEF Writes, Created, Uploaded, Edited, Pruned, Mutable
  <2> DEFINE r == <<Row(w, a)>>
  <2>2. r \in History
    BY RowTyped DEF History, Actions
  <2>3. w \in Gods /\ log'[s] = log[s] \o r
    BY <2>1 DEF Forced
  <2>4. \A i \in DOMAIN r : r[i].by \in Freezers \cup Gods \cup {System}
    BY <2>3, RowSays
  <2> HIDE DEF r
  <2> QED
    BY <1>1, <2>2, <2>3, <2>4, ReadOnlyAppend
<1>4. CASE \E u \in Users, a \in Postable : Reviewed(s, u, a)
  <2>1. PICK u \in Users, a \in Postable : Reviewed(s, u, a)
    BY <1>4
  <2> DEFINE r == ReviewRows(u, a, s)
  <2>2. u \in Freezers /\ log'[s] = log[s] \o r
    BY <2>1 DEF Reviewed
  <2>3. /\ r \in History
        /\ \A i \in DOMAIN r : r[i] = Row(u, a)
             \/ r[i] \in {Row(u, "unassign-testing"), Row(u, "unassign-verification"),
                          Row(System, "system")}
    BY <1>1, ReviewSays DEF Postable
  <2>4. \A i \in DOMAIN r : r[i].by \in Freezers \cup Gods \cup {System}
    BY <2>2, <2>3, RowSays
  <2> HIDE DEF r
  <2> QED
    BY <1>1, <2>2, <2>3, <2>4, ReadOnlyAppend
<1> QED
  BY <1>2, <1>3, <1>4 DEF Step

-----------------------------------------------------------------------------
(* Two people *)

LEMMA TouchedStays ==
    ASSUME IInv, NEW s \in Submissions, Step(s), Untouched(s)'
    PROVE  Untouched(s)
BY RowsStay DEF Untouched

\* One user is not in both sets of a cache row, whichever of the two the
\* transaction adds to.
Separate(c) ==
    /\ c.approved \cap c.verified \subseteq Gods
    /\ c.testing \cap c.verification = {}

\* Rows that enable nothing leave the users apart.
LEMMA SeparateAfter ==
    ASSUME NEW h \in History, NEW r \in History, Separate(Replay(h)),
           \A u \in Users :
              /\ ~ Wrote(r, u, {"assign-testing"}) /\ ~ Wrote(r, u, {"assign-verification"})
              /\ u \notin Gods => ~ Wrote(r, u, {"approve"}) /\ ~ Wrote(r, u, {"verify"})
    PROVE  Separate(Replay(h \o r))
<1>1. h \o r \in History
  BY Appending
<1>2. Replay(h \o r) \in CacheType
  BY <1>1, ReplayTyped
<1>3. /\ Replay(h \o r).approved \subseteq Users /\ Replay(h \o r).testing \subseteq Users
  BY <1>2 DEF CacheType
<1>4. ASSUME NEW u \in Replay(h \o r).approved \cap Replay(h \o r).verified
      PROVE  u \in Gods
  BY <1>3, <1>4, ReplayGrows DEF Separate
<1>5. ASSUME NEW u \in Replay(h \o r).testing \cap Replay(h \o r).verification
      PROVE  FALSE
  BY <1>3, <1>5, ReplayGrows DEF Separate
<1> QED
  BY <1>4, <1>5 DEF Separate

\* A review action that passed the checks of the comment validator.
LEMMA SeparateReview ==
    ASSUME NEW h \in History, NEW u \in Users, NEW a \in Postable, NEW s \in Submissions,
           ValidAction(u, a, Replay(h)), Separate(Replay(h))
    PROVE  Separate(Replay(h \o ReviewRows(u, a, s)))
<1> DEFINE r == ReviewRows(u, a, s)
           c == Replay(h)
           d == Replay(h \o r)
<1>1. r \in History
  BY ReviewSays DEF Postable
<1>2. ASSUME NEW w \in Users,
             NEW x \in {"assign-testing", "assign-verification", "approve", "verify"},
             Wrote(r, w, {x})
      PROVE  w = u /\ x = a
  <2>1. \A i \in DOMAIN r : r[i] \in {Row(u, a), Row(u, "unassign-testing"),
                                      Row(u, "unassign-verification"), Row(System, "system")}
    BY ReviewSays DEF Postable
  <2> HIDE DEF r
  <2>2. PICK i \in DOMAIN r : r[i].by = w /\ r[i].action = x
    BY <1>2 DEF Wrote, Written
  <2> QED
    BY <2>1, <2>2, RowSays, AuthorsAssumption
<1>3. /\ a \in {"approve"} => u \notin c.verified
      /\ a \in {"verify"} => u \notin c.approved
      /\ a \in {"assign-testing"} => u \notin c.verification
      /\ a \in {"assign-verification"} => u \notin c.testing
  BY DEF ValidAction, OtherPersonDecides
<1>4. /\ d.approved \subseteq Users /\ d.testing \subseteq Users
  <2>1. d \in CacheType
    BY <1>1, Appending, ReplayTyped
  <2> QED
    BY <2>1 DEF CacheType
<1>5. \A w : /\ w \in d.testing => w \in c.testing \/ Wrote(r, w, {"assign-testing"})
             /\ w \in d.verification
                  => w \in c.verification \/ Wrote(r, w, {"assign-verification"})
             /\ w \in d.approved => w \in c.approved \/ Wrote(r, w, {"approve"})
             /\ w \in d.verified => w \in c.verified \/ Wrote(r, w, {"verify"})
  BY <1>1, ReplayGrows
<1> HIDE DEF r, c, d
<1>6. ASSUME NEW w \in d.approved \cap d.verified
      PROVE  w \in Gods
  <2>1. w \in c.approved \cap c.verified
    BY <1>2, <1>3, <1>4, <1>5, <1>6
  <2> QED
    BY <2>1 DEF Separate, c
<1>7. ASSUME NEW w \in d.testing \cap d.verification
      PROVE  FALSE
  <2>1. w \in c.testing \cap c.verification
    BY <1>2, <1>3, <1>4, <1>5, <1>7
  <2> QED
    BY <2>1 DEF Separate, c
<1> QED
  BY <1>6, <1>7 DEF Separate, d, r

\* What the rows of a metadata edit enable.
LEMMA EditWrote ==
    ASSUME NEW u \in Users, NEW v \in Verdicts, NEW c \in CacheType,
           NEW p \in Users, NEW q \in Users, NEW w \in Users,
           NEW x \in Actions, x # "edit-meta",
           Wrote(EditRows(u, v, c, p, q), w, {x})
    PROVE  \/ w = p /\ x = "approve" /\ c.approved # {}
           \/ w = q /\ x = "verify" /\ c.approved # {} /\ c.verified # {}
<1> DEFINE r == ArchiveRows(u, "edit-meta", v)
           t == CarriedRows(c, p, q)
<1>0. Wrote(EditRows(u, v, c, p, q), w, {x})
  OBVIOUS
<1>1. r \in History /\ t \in History /\ EditRows(u, v, c, p, q) = r \o t
  <2>1. r \in History /\ t \in History
    BY EditSays
  <2>2. EditRows(u, v, c, p, q) = r \o t
    BY DEF EditRows
  <2> QED
    BY <2>1, <2>2
<1>2. ~ Wrote(r, w, {x})
  <2>1. {x} \cap {"file", "edit-meta"} = {}
    BY DEF Actions
  <2>2. \A acts : \A y \in Users : Wrote(r, y, acts) => y = u /\ acts \cap {"file", "edit-meta"} # {}
    BY ArchiveWrote
  <2> QED
    BY <2>1, <2>2
<1>3. Wrote(t, w, {x})
  <2> HIDE DEF r, t
  <2> QED
    BY <1>0, <1>1, <1>2, WroteConcat
<1>4. PICK i \in DOMAIN t : t[i].by = w /\ t[i].action = x
  BY <1>3 DEF Wrote, Written
<1>5. /\ RowsIn(t, {Row(p, "approve"), Row(q, "verify")})
      /\ c.approved # {} => t[1] = Row(p, "approve")
      /\ Len(t) = IF c.approved = {} THEN 0 ELSE IF c.verified = {} THEN 1 ELSE 2
  BY CarriedSays
<1>6. i \in 1 .. Len(t)
  BY <1>1, <1>4, HistoryShape
<1> HIDE DEF r, t
<1>7. t[i] = Row(p, "approve") \/ t[i] = Row(q, "verify")
  BY <1>4, <1>5 DEF RowsIn
<1> QED
  BY <1>4, <1>5, <1>6, <1>7, RowSays

\* A metadata edit begins with a file.
LEMMA EditFile ==
    ASSUME NEW u \in Users, NEW v \in Verdicts, NEW c \in CacheType,
           NEW p \in Users, NEW q \in Users
    PROVE  LET r == EditRows(u, v, c, p, q) IN
           1 \in DOMAIN r /\ \A i \in DOMAIN r : LiveFile(r, i) <=> i = 1
<1> DEFINE r == ArchiveRows(u, "edit-meta", v)
           t == CarriedRows(c, p, q)
<1>1. r \in History /\ t \in History /\ EditRows(u, v, c, p, q) = r \o t
  BY EditSays
<1>2. 1 \in DOMAIN r /\ \A i \in DOMAIN r : LiveFile(r, i) <=> i = 1
  BY ArchiveSays, ArchiveWrote
<1>3. RowsIn(t, {Row(p, "approve"), Row(q, "verify")})
  BY CarriedSays
<1> HIDE DEF r, t
<1>4. \A i \in DOMAIN t : ~ LiveFile(t, i)
  BY <1>3, RowSays DEF RowsIn, LiveFile
<1>5. ASSUME NEW i \in DOMAIN (r \o t)
      PROVE  LiveFile(r \o t, i) <=> i = 1
  <2>1. CASE i \in DOMAIN r
    BY <1>1, <1>2, <2>1, OldRow
  <2>2. CASE \E k \in DOMAIN t : i = Len(r) + k
    <3>1. PICK k \in DOMAIN t : i = Len(r) + k
      BY <2>2
    <3>2. ~ LiveFile(r \o t, i) /\ 1 < i
      BY <1>1, <1>2, <1>4, <3>1, NewRow, RowOrder
    <3> QED
      BY <1>2, <3>2
  <2> QED
    BY <1>1, <2>1, <2>2, AnyRow
<1>6. 1 \in DOMAIN (r \o t)
  BY <1>1, <1>2, OldRow
<1> QED
  BY <1>1, <1>5, <1>6

LEMMA SeparateEdit ==
    ASSUME NEW h \in History, NEW u \in Users, NEW v \in Verdicts,
           NEW p \in Users, NEW q \in Users, Separate(Replay(h)),
           Replay(h).approved # {} => p \in Replay(h).approved,
           Replay(h).verified # {} => q \in Replay(h).verified
    PROVE  Separate(Replay(h \o EditRows(u, v, Replay(h), p, q)))
<1> DEFINE c == Replay(h)
           r == EditRows(u, v, c, p, q)
           d == Replay(h \o r)
<1>1. c \in CacheType /\ r \in History
  BY ReplayTyped, EditSays
<1>2. 1 \in DOMAIN r /\ LiveFile(r, 1)
  BY <1>1, EditFile
<1>3. \A w \in Users : /\ ~ Wrote(r, w, {"assign-testing"})
                       /\ ~ Wrote(r, w, {"assign-verification"})
                       /\ Wrote(r, w, {"approve"}) => w = p /\ c.approved # {}
                       /\ Wrote(r, w, {"verify"}) => w = q /\ c.verified # {}
  BY <1>1, EditWrote DEF Actions
<1>4. d.approved \subseteq Users /\ d.testing \subseteq Users
  <2>1. d \in CacheType
    BY <1>1, Appending, ReplayTyped
  <2> QED
    BY <2>1 DEF CacheType
<1> HIDE DEF r
<1>5. \A w : /\ w \in d.testing => w \in c.testing \/ Wrote(r, w, {"assign-testing"})
             /\ w \in d.verification
                  => w \in c.verification \/ Wrote(r, w, {"assign-verification"})
             /\ w \in d.approved => Wrote(r, w, {"approve"})
             /\ w \in d.verified => Wrote(r, w, {"verify"})
  BY <1>1, <1>2, ReplayGrows
<1> HIDE DEF c, d
<1>6. ASSUME NEW w \in d.approved \cap d.verified
      PROVE  w \in Gods
  <2>1. w \in c.approved \cap c.verified
    BY <1>3, <1>4, <1>5, <1>6 DEF c
  <2> QED
    BY <2>1 DEF Separate, c
<1>7. ASSUME NEW w \in d.testing \cap d.verification
      PROVE  FALSE
  <2>1. w \in c.testing \cap c.verification
    BY <1>3, <1>4, <1>5, <1>7
  <2> QED
    BY <2>1 DEF Separate, c
<1> QED
  BY <1>6, <1>7 DEF Separate, d, c, r

LEMMA SeparateStep ==
    ASSUME IInv, NEW s \in Submissions, Step(s), Untouched(s)',
           Untouched(s) => Separate(cache[s])
    PROVE  Separate(cache'[s])
<1>1. /\ log[s] \in History /\ cache[s] = Replay(log[s])
      /\ Separate(cache[s])
  BY TouchedStays DEF IInv, TypeOK, CacheCurrent
<1>2. CASE Untold(s)
  BY <1>1, <1>2 DEF Untold
<1>3. ASSUME NEW u \in Users, NEW v \in Verdicts, Replayed(s),
             Created(s, u, v) \/ Uploaded(s, u, v)
      PROVE  Separate(cache'[s])
  <2> DEFINE r == ArchiveRows(u, "upload-file", v)
  <2>1. r \in History
    BY ArchiveSays
  <2>2. <<>> \o r = r
    BY <2>1, ConcatEmptySeq DEF History
  <2>3. cache'[s] = Replay(log[s] \o r)
    BY <1>3, <2>2 DEF Created, Uploaded, Replayed
  <2>4. \A w \in Users : /\ ~ Wrote(r, w, {"assign-testing"})
                         /\ ~ Wrote(r, w, {"assign-verification"})
                         /\ ~ Wrote(r, w, {"approve"}) /\ ~ Wrote(r, w, {"verify"})
    <3>1. \A x \in {"assign-testing", "assign-verification", "approve", "verify"} :
             {x} \cap {"file", "upload-file"} = {}
      OBVIOUS
    <3> QED
      BY <3>1, ArchiveWrote
  <2> HIDE DEF r
  <2> QED
    BY <1>1, <2>1, <2>3, <2>4, SeparateAfter
<1>4. ASSUME NEW u \in Users, NEW p \in Users, NEW q \in Users, NEW v \in Verdicts,
             Replayed(s), Edited(s, u, v, p, q)
      PROVE  Separate(cache'[s])
  BY <1>1, <1>4, SeparateEdit DEF Edited, Replayed
<1>5. ASSUME NEW w \in Authors, NEW a \in {"approve", "verify"}, Replayed(s),
             Forced(s, w, a)
      PROVE  Separate(cache'[s])
  <2> DEFINE r == <<Row(w, a)>>
  <2>1. r \in History
    BY RowTyped DEF History, Actions
  <2>2. cache'[s] = Replay(log[s] \o r) /\ (w \in Gods \/ w = Validator)
    BY <1>5 DEF Forced, Replayed
  <2>3. \A u \in Users :
          /\ ~ Wrote(r, u, {"assign-testing"}) /\ ~ Wrote(r, u, {"assign-verification"})
          /\ u \notin Gods => ~ Wrote(r, u, {"approve"}) /\ ~ Wrote(r, u, {"verify"})
    BY <2>2, RowSays, AuthorsAssumption DEF Wrote, Written
  <2> HIDE DEF r
  <2> QED
    BY <1>1, <2>1, <2>2, <2>3, SeparateAfter
<1>6. ASSUME NEW dead, Pruned(s, dead)
      PROVE  FALSE
  BY <1>1, <1>6, DeletedIsTouched DEF Pruned, Untouched
<1>7. ASSUME NEW u \in Users, NEW a \in Postable, Replayed(s), Reviewed(s, u, a)
      PROVE  Separate(cache'[s])
  BY <1>1, <1>7, SeparateReview DEF Reviewed, Replayed
<1> QED
  BY <1>2, <1>3, <1>4, <1>5, <1>6, <1>7 DEF Step, Writes

-----------------------------------------------------------------------------
(* New versions *)

\* Archives are appended by the creation, by uploads and by metadata edits.
LEMMA OnlyArchives ==
    ASSUME IInv, NEW s \in Submissions, Step(s),
           NEW a \in {"upload-file", "edit-meta"}, a \in Appended(s)
    PROVE  /\ Replayed(s)
           /\ \/ \E u \in Users, v \in Verdicts : Created(s, u, v) \/ Uploaded(s, u, v)
              \/ \E u, p, q \in Users, v \in Verdicts : Edited(s, u, v, p, q)
<1>1. log[s] \in History /\ cache[s] \in CacheType /\ Len(log[s]) \in Nat
  BY HistoryShape DEF IInv, TypeOK
<1>2. Len(log'[s]) # Len(log[s])
  BY <1>1 DEF Appended
<1>3. ~ Untold(s)
  BY <1>2 DEF Untold
<1>4. ASSUME NEW w \in Authors, NEW b \in {"approve", "verify"}, Forced(s, w, b)
      PROVE  FALSE
  <2> DEFINE r == <<Row(w, b)>>
  <2>1. r \in History /\ \A i \in DOMAIN r : r[i].action = b
    BY RowTyped, RowSays DEF History, Actions
  <2>2. log'[s] = log[s] \o r
    BY <1>4 DEF Forced
  <2> HIDE DEF r
  <2> QED
    BY <1>1, <2>1, <2>2, AppendedActions
<1>5. ASSUME NEW u \in Users, NEW b \in Postable, Reviewed(s, u, b)
      PROVE  FALSE
  <2> DEFINE r == ReviewRows(u, b, s)
  <2>1. /\ r \in History
        /\ \A i \in DOMAIN r : r[i] \in {Row(u, b), Row(u, "unassign-testing"),
                                Row(u, "unassign-verification"), Row(System, "system")}
    BY ReviewSays DEF Postable
  <2>2. log'[s] = log[s] \o r /\ b # a
    BY <1>5 DEF Reviewed, Postable, AllowedActions
  <2> HIDE DEF r
  <2>3. \A i \in DOMAIN r : r[i].action # a
    BY <2>1, <2>2, RowSays
  <2> QED
    BY <1>1, <2>1, <2>2, <2>3, AppendedActions
<1>6. ASSUME NEW dead, Pruned(s, dead)
      PROVE  FALSE
  <2>1. log'[s] \in History /\ DOMAIN log'[s] = DOMAIN log[s]
    BY <1>1, <1>6, Deleting DEF Pruned
  <2>2. Len(log'[s]) \in Nat /\ 1 .. Len(log'[s]) = 1 .. Len(log[s])
    BY <1>1, <2>1, HistoryShape
  <2>3. Len(log'[s]) = Len(log[s])
    BY <1>1, <2>2
  <2> QED
    BY <1>2, <2>3
<1> QED
  BY <1>3, <1>4, <1>5, <1>6 DEF Step, Writes

\* Only an upload and the creation append "upload-file".
LEMMA OnlyUploads ==
    ASSUME IInv, NEW s \in Submissions, Step(s), "upload-file" \in Appended(s)
    PROVE  /\ Replayed(s)
           /\ \E u \in Users, v \in Verdicts :
                log'[s] = log[s] \o ArchiveRows(u, "upload-file", v)
<1>1. log[s] \in History /\ cache[s] \in CacheType
  BY DEF IInv, TypeOK
<1>2. ASSUME NEW u \in Users, NEW p \in Users, NEW q \in Users, NEW v \in Verdicts,
             Edited(s, u, v, p, q)
      PROVE  FALSE
  <2> DEFINE r == EditRows(u, v, cache[s], p, q)
             x == ArchiveRows(u, "edit-meta", v)
             y == CarriedRows(cache[s], p, q)
  <2>1. x \in History /\ y \in History /\ r = x \o y /\ r \in History
    BY <1>1, EditSays
  <2>2. \A i \in DOMAIN x : x[i].action # "upload-file"
    BY ArchiveWrote
  <2>3. RowsIn(y, {Row(p, "approve"), Row(q, "verify")})
    BY <1>1, CarriedSays
  <2>4. log'[s] = log[s] \o r
    BY <1>2 DEF Edited
  <2> HIDE DEF x, y, r
  <2>5. \A i \in DOMAIN y : y[i].action # "upload-file"
    BY <2>3, RowSays DEF RowsIn
  <2>6. RowsIn(x, {t \in RowType : t.action # "upload-file"})
    BY <2>1, <2>2, HistoryShape DEF RowsIn
  <2>7. RowsIn(y, {t \in RowType : t.action # "upload-file"})
    BY <2>1, <2>5, HistoryShape DEF RowsIn
  <2>8. RowsIn(r, {t \in RowType : t.action # "upload-file"})
    BY <2>1, <2>6, <2>7, RowsInConcat
  <2> QED
    BY <1>1, <2>1, <2>4, <2>8, AppendedActions DEF RowsIn
<1>3. ASSUME NEW u \in Users, NEW v \in Verdicts, Created(s, u, v)
      PROVE  log'[s] = log[s] \o ArchiveRows(u, "upload-file", v)
  <2>1. ArchiveRows(u, "upload-file", v) \in History
    BY ArchiveSays
  <2> QED
    BY <1>3, <2>1, ConcatEmptySeq DEF Created, History
<1> QED
  BY <1>2, <1>3, OnlyArchives DEF Uploaded

\* Only a metadata edit appends "edit-meta".
LEMMA OnlyEdits ==
    ASSUME IInv, NEW s \in Submissions, Step(s), "edit-meta" \in Appended(s)
    PROVE  /\ Replayed(s)
           /\ \E u, p, q \in Users, v \in Verdicts : Edited(s, u, v, p, q)
<1>1. log[s] \in History
  BY DEF IInv, TypeOK
<1>2. ASSUME NEW u \in Users, NEW v \in Verdicts, Created(s, u, v) \/ Uploaded(s, u, v)
      PROVE  FALSE
  <2> DEFINE r == ArchiveRows(u, "upload-file", v)
  <2>1. /\ r \in History
        /\ \A i \in DOMAIN r : r[i].action # "edit-meta"
    BY ArchiveSays, ArchiveWrote
  <2>2. <<>> \o r = r
    BY <2>1, ConcatEmptySeq DEF History
  <2>3. log'[s] = log[s] \o r
    BY <1>2, <2>2 DEF Created, Uploaded
  <2> HIDE DEF r
  <2> QED
    BY <1>1, <2>1, <2>3, AppendedActions
<1> QED
  BY <1>2, OnlyArchives

LEMMA MetaEditStepKeeps ==
    ASSUME IInv, NEW s \in Submissions, Step(s), "edit-meta" \in Appended(s),
           cache[s].approved # {}
    PROVE  /\ cache'[s].approved # {}
           /\ cache[s].verified # {} => cache'[s].verified # {}
<1>1. PICK u \in Users, p \in Users, q \in Users, v \in Verdicts :
        Replayed(s) /\ Edited(s, u, v, p, q)
  BY OnlyEdits
<1> DEFINE h == log[s]
           c == cache[s]
           x == ArchiveRows(u, "edit-meta", v)
           t == CarriedRows(c, p, q)
           r == EditRows(u, v, c, p, q)
<1>2. /\ h \in History /\ c \in CacheType /\ c = Replay(h)
      /\ cache'[s] = Replay(h \o r)
      /\ p \in c.approved /\ c.verified # {} => q \in c.verified
  BY <1>1 DEF IInv, TypeOK, CacheCurrent, Replayed, Edited
<1>3. x \in History /\ t \in History /\ r = x \o t /\ r \in History
  BY <1>2, EditSays
<1>4. 1 \in DOMAIN r /\ \A i \in DOMAIN r : LiveFile(r, i) <=> i = 1
  BY <1>2, EditFile
<1>5. ~ Rejected(h) /\ ~ Rejected(h \o r)
  <2>1. ~ Rejected(h)
    BY <1>2, ReplayClosed
  <2>2. \A i \in DOMAIN x : x[i].action # "reject"
    BY ArchiveWrote
  <2>3. RowsIn(t, {Row(p, "approve"), Row(q, "verify")})
    BY <1>2, CarriedSays
  <2> HIDE DEF x, t, r
  <2>4. "reject" \notin LiveActions(x) /\ "reject" \notin LiveActions(t)
    BY <2>2, <2>3, RowSays DEF LiveActions, RowsIn
  <2> QED
    BY <1>2, <1>3, <2>1, <2>4, RejectionStays DEF Rejected
<1>6. \A w \in Users : ~ Wrote(r, w, DecisionDisablers)
  <2>1. DecisionDisablers = {"request-changes"} /\ "request-changes" \in Actions
    BY DEF DecisionDisablers, Actions
  <2> QED
    BY <1>2, <2>1, EditWrote
<1>7. /\ 1 \in DOMAIN t /\ t[1] = Row(p, "approve")
      /\ c.verified # {} => 2 \in DOMAIN t /\ t[2] = Row(q, "verify")
  BY <1>2, CarriedSays
<1>8. Len(x) \in Nat /\ 1 \in DOMAIN x /\ Len(x) >= 1
  BY <1>3, ArchiveSays, HistoryShape
<1>9. h \o r \in History
  BY <1>2, <1>3, Appending
<1> HIDE DEF x, t, r, h, c
<1>10. ASSUME NEW w \in Users, NEW k \in DOMAIN t, NEW a \in {"approve", "verify"},
              t[k] = Row(w, a)
       PROVE  w \in ActiveUsersOnNewest(h \o r, {a}, DecisionDisablers)
  <2>1. Written(t, k, w, {a})
    BY <1>10, RowSays DEF Written
  <2>2. Len(x) + k \in DOMAIN r /\ Written(r, Len(x) + k, w, {a})
    BY <1>3, <2>1, NewRow
  <2>3. 1 < Len(x) + k
    BY <1>3, <1>8, RowOrder
  <2>4. \A j \in DOMAIN r : LiveFile(r, j) \/ Written(r, j, w, DecisionDisablers)
                                => j < Len(x) + k
    BY <1>4, <1>6, <2>3 DEF Wrote
  <2> QED
    BY <1>2, <1>3, <1>4, <2>2, <2>4, NewestGains
<1>11. p \in Users /\ p \in cache'[s].approved
  BY <1>2, <1>5, <1>7, <1>9, <1>10, ReplayOpen
<1>12. c.verified # {} => q \in cache'[s].verified
  BY <1>2, <1>5, <1>7, <1>9, <1>10, ReplayOpen
<1> QED
  BY <1>11, <1>12 DEF c

LEMMA NewVersionStep ==
    ASSUME IInv, NEW s \in Submissions, Step(s), "upload-file" \in Appended(s)
    PROVE  /\ cache'[s].approved = {} /\ cache'[s].verified = {}
           /\ cache[s].changes \ cache'[s].lastUploader \subseteq cache'[s].changes
<1>1. PICK u \in Users, v \in Verdicts :
        /\ Replayed(s)
        /\ log'[s] = log[s] \o ArchiveRows(u, "upload-file", v)
  BY OnlyUploads
<1> DEFINE r == ArchiveRows(u, "upload-file", v)
           h == log[s]
           d == Replay(h \o r)
<1>2. h \in History /\ cache[s] = Replay(h) /\ cache'[s] = d
  BY <1>1 DEF IInv, TypeOK, CacheCurrent, Replayed
<1>3. /\ r \in History /\ 1 \in DOMAIN r /\ r[1] = Row(u, "file")
      /\ \A i \in DOMAIN r : LiveFile(r, i) <=> i = 1
      /\ \A i \in DOMAIN r : r[i].action # "reject"
  BY ArchiveSays, ArchiveWrote
<1>4. \A acts : \A w \in Users : Wrote(r, w, acts) => w = u /\ acts \cap {"file", "upload-file"} # {}
  BY ArchiveWrote
<1>5. d \in CacheType
  BY <1>2, <1>3, Appending, ReplayTyped
<1> HIDE DEF r, d
<1>6. \A w \in Users : w \notin d.approved /\ w \notin d.verified
  <2>1. {"approve"} \cap {"file", "upload-file"} = {} /\ {"verify"} \cap {"file", "upload-file"} = {}
    OBVIOUS
  <2>2. \A w \in Users : ~ Wrote(r, w, {"approve"}) /\ ~ Wrote(r, w, {"verify"})
    BY <1>4, <2>1
  <2> QED
    BY <1>2, <1>3, <2>2, ReplayGrows DEF d
<1>7. d.approved = {} /\ d.verified = {}
  BY <1>5, <1>6 DEF CacheType
<1>8. d.lastUploader = {u}
  <2>1. Len(h) + 1 \in DOMAIN (h \o r) /\ LiveFile(h \o r, Len(h) + 1)
        /\ Written(h \o r, Len(h) + 1, u, {"file"})
    <3>1. Written(r, 1, u, {"file"})
      BY <1>3, RowSays DEF Written
    <3> QED
      BY <1>2, <1>3, <3>1, NewRow
  <2>2. ASSUME NEW k \in DOMAIN (h \o r), LiveFile(h \o r, k)
        PROVE  k <= Len(h) + 1
    <3>1. CASE k \in DOMAIN h
      BY <1>2, <1>3, <3>1, RowOrder
    <3>2. CASE \E j \in DOMAIN r : k = Len(h) + j
      BY <1>2, <1>3, <2>2, <3>2, NewRow, HistoryShape
    <3> QED
      BY <1>2, <1>3, <3>1, <3>2, AnyRow
  <2>3. NewestFile(h \o r) = {Len(h) + 1}
    <3>1. Len(h) + 1 \in NewestFile(h \o r)
      BY <2>1, <2>2 DEF NewestFile
    <3>2. ASSUME NEW k \in NewestFile(h \o r)
          PROVE  k = Len(h) + 1
      <4>1. k \in Nat /\ Len(h) \in Nat
        <5>1. h \o r \in History /\ k \in DOMAIN (h \o r)
          BY <1>2, <1>3, Appending DEF NewestFile
        <5> QED
          BY <1>2, <5>1, HistoryShape
      <4>2. k <= Len(h) + 1 /\ Len(h) + 1 <= k
        BY <2>1, <2>2 DEF NewestFile
      <4> QED
        BY <4>1, <4>2
    <3> QED
      BY <3>1, <3>2
  <2>4. (h \o r)[Len(h) + 1].by = u
    BY <2>1 DEF Written
  <2> QED
    BY <2>3, <2>4 DEF d, Replay, NewestUploader
<1>9. ASSUME NEW w \in Replay(h).changes, w # u
      PROVE  w \in d.changes
  <2>1. ~ Rejected(h)
    BY <1>2, <1>9, ReplayClosed
  <2>2. ~ Rejected(h \o r)
    <3>1. "reject" \notin LiveActions(r)
      BY <1>3 DEF LiveActions
    <3> QED
      BY <1>2, <1>3, <2>1, <3>1, RejectionStays DEF Rejected
  <2>3. w \in Users /\ w \in ActiveUsers(h, {"request-changes"}, RequestDisablers)
    BY <1>2, <1>9, <2>1, ReplayOpen DEF ActiveUsers
  <2>4. ~ Wrote(r, w, RequestDisablers)
    BY <1>4, <1>9, <2>3
  <2>5. w \in ActiveUsers(h \o r, {"request-changes"}, RequestDisablers)
    BY <1>2, <1>3, <2>3, <2>4, ActiveStays
  <2> QED
    BY <1>2, <1>3, <2>2, <2>5, ReplayOpen, Appending DEF d
<1> QED
  BY <1>2, <1>7, <1>8, <1>9

-----------------------------------------------------------------------------
(* One submission in audition *)

Auditor(s, u) == u \in cache[s].submitter /\ Untouched(s) /\ ~ Rejected(log[s])

\* The submitter of a history nothing was deleted from wrote its first row.
LEMMA SubmitterIsFirst ==
    ASSUME NEW h \in History, \A i \in DOMAIN h : h[i].live,
           h # <<>>, h[1].action = "file", NEW u \in Users
    PROVE  u \in Replay(h).submitter <=> u = h[1].by
<1>1. 1 \in DOMAIN h /\ LiveFile(h, 1)
  BY FirstRow DEF LiveFile
<1>2. \A i \in DOMAIN h : i \in Nat /\ 1 <= i
  BY HistoryShape
<1>3. ASSUME u \in OldestUploader(h)
      PROVE  u = h[1].by
  <2>1. PICK i \in DOMAIN h : Written(h, i, u, {"file"}) /\ i <= 1
    BY <1>1, <1>3 DEF OldestUploader
  <2>2. i = 1
    BY <1>2, <2>1
  <2> QED
    BY <2>1, <2>2 DEF Written
<1>4. ASSUME u = h[1].by
      PROVE  u \in OldestUploader(h)
  BY <1>1, <1>2, <1>4 DEF OldestUploader, Written
<1> QED
  BY <1>3, <1>4 DEF Replay

LEMMA NobodySubmitsNothing ==
    Replay(<<>>).submitter = {}
BY DEF Replay, OldestUploader

\* Who is in audition with a submission that existed was so before.
LEMMA AuditorWas ==
    ASSUME IInv, IInv', Opened, Opened', NEW s \in Submissions, Step(s),
           log[s] # <<>>, NEW u \in Users, Auditor(s, u)'
    PROVE  Auditor(s, u)
<1>1. /\ log[s] \in History /\ cache[s] = Replay(log[s])
      /\ log'[s] \in History /\ cache'[s] = Replay(log'[s])
  BY DEF IInv, TypeOK, CacheCurrent
<1>2. Untouched(s) /\ Untouched(s)'
  BY TouchedStays DEF Auditor
<1>3. 1 \in DOMAIN log[s] /\ log[s][1].action = "file"
  BY <1>1, FirstRow DEF Opened
<1>4. 1 \in DOMAIN log'[s] /\ log'[s][1].action = "file" /\ log'[s][1].by = log[s][1].by
  BY <1>3, RowsStay
<1>5. u = log'[s][1].by
  BY <1>1, <1>2, <1>4, SubmitterIsFirst, FirstRow DEF Auditor, Untouched
<1>6. u \in cache[s].submitter
  BY <1>1, <1>2, <1>3, <1>4, <1>5, SubmitterIsFirst DEF Untouched
<1>7. ~ Rejected(log[s])
  <2> SUFFICES ASSUME Rejected(log[s]) PROVE FALSE
    OBVIOUS
  <2>1. PICK i \in DOMAIN log[s] : log[s][i].action = "reject"
    BY DEF Rejected, LiveActions
  <2>2. i \in DOMAIN log'[s] /\ log'[s][i].action = "reject" /\ log'[s][i].live
    BY <1>2, <2>1, RowsStay DEF Untouched
  <2>3. "reject" \in LiveActions(log'[s])
    BY <2>2 DEF LiveActions, Actions
  <2> QED
    BY <2>3 DEF Auditor, Rejected
<1> QED
  BY <1>2, <1>6, <1>7 DEF Auditor

\* Who is in audition with a new submission has created it in this step.
LEMMA AuditorCreates ==
    ASSUME IInv, IInv', Opened', NEW s \in Submissions, Step(s),
           log[s] = <<>>, NEW u \in Users, Auditor(s, u)'
    PROVE  \E v \in Verdicts : Created(s, u, v)
<1>1. log'[s] \in History /\ cache'[s] = Replay(log'[s])
  BY DEF IInv, TypeOK, CacheCurrent
<1>2. log'[s] # <<>>
  BY <1>1, NobodySubmitsNothing DEF Auditor
<1>3. PICK w \in Users, v \in Verdicts : Created(s, w, v)
  BY <1>2 DEF Step, Untold, Writes, Uploaded, Edited, Forced, Pruned, Reviewed,
              Mutable, Active
<1>4. log'[s][1].by = w
  BY <1>3, ArchiveSays, RowSays DEF Created
<1>5. u = log'[s][1].by
  BY <1>1, <1>2, SubmitterIsFirst DEF Auditor, Untouched, Opened
<1> QED
  BY <1>3, <1>4, <1>5

\* The quota of a user in audit is spent by the submission that is open.
LEMMA QuotaSpent ==
    ASSUME IInv, Opened, NEW s \in Submissions, NEW t \in Submissions \ {s},
           NEW u \in Users \ (Staff \cup TrialCurators), NEW v \in Verdicts,
           Created(s, u, v),
           Auditor(t, u)'
    PROVE  FALSE
<1>1. log[t] \in History /\ cache[t] = Replay(log[t])
  BY DEF IInv, TypeOK, CacheCurrent
<1>2. Auditor(t, u)
  BY DEF Created, Auditor, Untouched
<1>3. log[t] # <<>>
  BY <1>1, <1>2, NobodySubmitsNothing DEF Auditor
<1>4. Active(t)
  BY <1>2, <1>3 DEF Active, Opened, Auditor
<1>5. "reject" \in cache[t].actions
  BY <1>2, <1>4 DEF Created, WithinQuota, Auditor
<1> QED
  BY <1>1, <1>2, <1>5 DEF Auditor, Replay, Rejected

LEMMA OneAuditionStep ==
    ASSUME IInv, IInv', Opened, Opened', \A s \in Submissions : Step(s),
           OneAuditionSubmission
    PROVE  OneAuditionSubmission'
<1> SUFFICES ASSUME NEW u \in Users \ (Staff \cup TrialCurators),
                    NEW s \in Submissions, NEW t \in Submissions,
                    Auditor(s, u)', Auditor(t, u)', s # t
             PROVE  FALSE
  BY DEF OneAuditionSubmission, Auditor
<1>1. CASE log[s] = <<>>
  BY <1>1, AuditorCreates, QuotaSpent
<1>2. CASE log[t] = <<>>
  BY <1>2, AuditorCreates, QuotaSpent
<1>3. CASE log[s] # <<>> /\ log[t] # <<>>
  <2>1. Auditor(s, u) /\ Auditor(t, u)
    BY <1>3, AuditorWas
  <2> QED
    BY <2>1 DEF OneAuditionSubmission, Auditor
<1> QED
  BY <1>1, <1>2, <1>3

-----------------------------------------------------------------------------
(* The imported version *)

IsImported(s) ==
    \A i \in DOMAIN log[s] :
        log[s][i].live /\ log[s][i].action = "mark-added" =>
            \E k \in imported[s] :
                k < i /\ \A f \in LiveFiles(log[s]) : f < i => f <= k

\* Without a new mark-added and a new import nothing changes.
LEMMA ImportStays ==
    ASSUME IInv, IInv', NEW s \in Submissions, Step(s), IsImported(s),
           imported'[s] = imported[s],
           \A i \in DOMAIN log'[s] : log'[s][i].action = "mark-added" => i \in DOMAIN log[s]
    PROVE  IsImported(s)'
<1>1. /\ Len(log[s]) \in Nat /\ DOMAIN log[s] = 1 .. Len(log[s])
      /\ Len(log'[s]) \in Nat /\ DOMAIN log'[s] = 1 .. Len(log'[s])
  BY HistoryShape DEF IInv, TypeOK
<1> SUFFICES ASSUME NEW i \in DOMAIN log'[s], log'[s][i].live,
                    log'[s][i].action = "mark-added"
             PROVE  \E k \in imported[s] :
                      k < i /\ \A f \in LiveFiles(log'[s]) : f < i => f <= k
  BY DEF IsImported
<1>2. i \in DOMAIN log[s] /\ log[s][i].live /\ log[s][i].action = "mark-added"
  BY RowsStay
<1>3. PICK k \in imported[s] :
        k < i /\ \A f \in LiveFiles(log[s]) : f < i => f <= k
  BY <1>2 DEF IsImported
<1>4. ASSUME NEW f \in LiveFiles(log'[s]), f < i
      PROVE  f \in LiveFiles(log[s])
  <2>1. f \in DOMAIN log[s]
    BY <1>1, <1>2, <1>4 DEF LiveFiles
  <2> QED
    BY <1>4, <2>1, RowsStay DEF LiveFiles, LiveFile
<1> QED
  BY <1>3, <1>4

\* Rows that settle nothing are no mark-added.
LEMMA NoNewMark ==
    ASSUME NEW h \in History, NEW r \in History,
           \A i \in DOMAIN r : r[i].action # "mark-added",
           NEW i \in DOMAIN (h \o r), (h \o r)[i].action = "mark-added"
    PROVE  i \in DOMAIN h
BY Appending

\* mark-added finds the newest version imported.
LEMMA ImportMarks ==
    ASSUME IInv, NEW s \in Submissions, NEW u \in Users, Reviewed(s, u, "mark-added")
    PROVE  IsImported(s)'
<1> DEFINE h == log[s]
           r == ReviewRows(u, "mark-added", s)
<1>1. h \in History /\ cache[s] = Replay(h) /\ Len(h) \in Nat /\ DOMAIN h = 1 .. Len(h)
  BY HistoryShape DEF IInv, TypeOK, CacheCurrent
<1>2. log'[s] = h \o r /\ imported'[s] = NewestFile(h)
  BY DEF Reviewed
<1>3. Unsettled(h) /\ cache[s].verified # {}
  BY ValidSettles DEF Reviewed, ValidAction, InOrder
<1>4. PICK f \in DOMAIN h : LiveFile(h, f)
  <2>1. ~ Rejected(h)
    BY <1>1, <1>3, ReplayClosed
  <2> QED
    BY <1>1, <1>3, <2>1, ReplayOpen DEF ActiveUsersOnNewest, OnNewestFile
<1>5. PICK k \in NewestFile(h) : TRUE
  BY <1>1, <1>4, NewestExists
<1>6. k \in 1 .. Len(h) /\ \A x \in DOMAIN h : LiveFile(h, x) => x <= k
  BY <1>1, <1>5 DEF NewestFile
<1>7. /\ r \in History
      /\ \A i \in DOMAIN r : r[i].action # "file"
  <2>1. /\ r \in History
        /\ \A i \in DOMAIN r : r[i] \in {Row(u, "mark-added"), Row(u, "unassign-testing"),
                                Row(u, "unassign-verification"), Row(System, "system")}
    BY ReviewSays DEF AllowedActions
  <2> HIDE DEF r
  <2> QED
    BY <2>1, RowSays
<1> HIDE DEF h, r
<1>8. ASSUME NEW i \in DOMAIN (h \o r), (h \o r)[i].live, (h \o r)[i].action = "mark-added"
      PROVE  i \notin DOMAIN h /\ i \in Nat
  <2>1. i \in Nat
    BY <1>1, <1>7, Appending, HistoryShape
  <2>2. CASE i \in DOMAIN h
    <3>1. h[i].live /\ h[i].action = "mark-added"
      BY <1>1, <1>7, <1>8, <2>2, Appending
    <3> QED
      BY <1>3, <2>2, <3>1 DEF Unsettled, LiveActions, Actions
  <2> QED
    BY <2>1, <2>2
<1>9. ASSUME NEW x \in LiveFiles(h \o r)
      PROVE  x <= k
  <2>1. x \in DOMAIN (h \o r) /\ LiveFile(h \o r, x)
    BY DEF LiveFiles
  <2>2. x \in DOMAIN h
    BY <1>1, <1>7, <2>1, Appending DEF LiveFile
  <2> QED
    BY <1>1, <1>6, <1>7, <2>1, <2>2, OldRow
<1>10. ASSUME NEW i \in DOMAIN (h \o r), (h \o r)[i].live, (h \o r)[i].action = "mark-added"
       PROVE  k < i
  <2>1. i \notin 1 .. Len(h) /\ i \in Nat /\ i # 0
    <3>1. i \in 1 .. Len(h \o r)
      BY <1>1, <1>7, Appending, HistoryShape
    <3> QED
      BY <1>1, <1>8, <1>10, <3>1
  <2> QED
    BY <1>1, <1>6, <2>1
<1> QED
  BY <1>2, <1>5, <1>9, <1>10 DEF IsImported

LEMMA ImportedStep ==
    ASSUME IInv, IInv', NEW s \in Submissions, Step(s), IsImported(s)
    PROVE  IsImported(s)'
<1>1. log[s] \in History /\ cache[s] \in CacheType
  BY DEF IInv, TypeOK
<1>2. CASE Untold(s)
  <2>1. CASE imported'[s] = imported[s]
    BY <1>2, <2>1, ImportStays DEF Untold
  <2>2. CASE Unsettled(log[s])
    <3>1. \A i \in DOMAIN log[s] : ~ (log[s][i].live /\ log[s][i].action = "mark-added")
      BY <2>2 DEF Unsettled, LiveActions, Actions
    <3> QED
      BY <1>2, <3>1 DEF Untold, IsImported
  <2> QED
    BY <1>2, <2>1, <2>2 DEF Untold
<1>3. ASSUME NEW u \in Users, NEW v \in Verdicts, imported'[s] = imported[s],
             Created(s, u, v) \/ Uploaded(s, u, v)
      PROVE  IsImported(s)'
  <2> DEFINE r == ArchiveRows(u, "upload-file", v)
  <2>1. r \in History /\ \A i \in DOMAIN r : r[i].action # "mark-added"
    BY ArchiveRowsTyped DEF Unsettling
  <2>2. <<>> \o r = r
    BY <2>1, ConcatEmptySeq DEF History
  <2>3. log'[s] = log[s] \o r
    BY <1>3, <2>2 DEF Created, Uploaded
  <2> HIDE DEF r
  <2> QED
    BY <1>1, <1>3, <2>1, <2>3, NoNewMark, ImportStays
<1>4. ASSUME NEW u \in Users, NEW p \in Users, NEW q \in Users, NEW v \in Verdicts,
             imported'[s] = imported[s], Edited(s, u, v, p, q)
      PROVE  IsImported(s)'
  <2> DEFINE r == EditRows(u, v, cache[s], p, q)
             x == ArchiveRows(u, "edit-meta", v)
             y == CarriedRows(cache[s], p, q)
  <2>1. x \in History /\ y \in History /\ Unsettling(x) /\ Unsettling(y) /\ r = x \o y
    BY <1>1, ArchiveRowsTyped, CarriedRowsTyped, EditSays
  <2>2. log'[s] = log[s] \o r
    BY <1>4 DEF Edited
  <2> HIDE DEF r, x, y
  <2>3. r \in History /\ \A i \in DOMAIN r : r[i].action # "mark-added"
    BY <2>1, UnsettlingConcat DEF Unsettling
  <2> QED
    BY <1>1, <1>4, <2>2, <2>3, NoNewMark, ImportStays
<1>5. ASSUME NEW w \in Authors, NEW a \in {"approve", "verify"},
             imported'[s] = imported[s], Forced(s, w, a)
      PROVE  IsImported(s)'
  <2> DEFINE r == <<Row(w, a)>>
  <2>1. r \in History /\ \A i \in DOMAIN r : r[i].action # "mark-added"
    BY RowTyped, RowSays DEF History, Actions
  <2>2. log'[s] = log[s] \o r
    BY <1>5 DEF Forced
  <2> HIDE DEF r
  <2> QED
    BY <1>1, <1>5, <2>1, <2>2, NoNewMark, ImportStays
<1>6. ASSUME NEW dead, imported'[s] = imported[s], Pruned(s, dead)
      PROVE  IsImported(s)'
  <2>1. DOMAIN log'[s] = DOMAIN log[s]
    BY <1>1, <1>6, Deleting DEF Pruned
  <2> QED
    BY <1>6, <2>1, ImportStays
<1>7. ASSUME NEW u \in Users, NEW a \in Postable, Reviewed(s, u, a)
      PROVE  IsImported(s)'
  <2>1. CASE a = "mark-added"
    BY <1>7, <2>1, ImportMarks
  <2>2. CASE a # "mark-added"
    <3> DEFINE r == ReviewRows(u, a, s)
    <3>1. /\ r \in History
          /\ \A i \in DOMAIN r : r[i] \in {Row(u, a), Row(u, "unassign-testing"),
                                  Row(u, "unassign-verification"), Row(System, "system")}
      BY ReviewSays DEF Postable
    <3>2. log'[s] = log[s] \o r /\ imported'[s] = imported[s]
      BY <1>7, <2>2 DEF Reviewed
    <3> HIDE DEF r
    <3>3. \A i \in DOMAIN r : r[i].action # "mark-added"
      BY <2>2, <3>1, RowSays
    <3> QED
      BY <1>1, <3>1, <3>2, <3>3, NoNewMark, ImportStays
  <2> QED
    BY <2>1, <2>2
<1> QED
  BY <1>2, <1>3, <1>4, <1>5, <1>6, <1>7 DEF Step, Writes

-----------------------------------------------------------------------------
(* The second inductive invariant and what follows from it *)

\* What the three properties need beside themselves is IInv, that a history
\* opens with its file row, that what is frozen has a history and that what
\* left the search has lost a row.
RInv == IInv /\ Opened /\ SeparateReviewers /\ OneAuditionSubmission /\ AddedVersionImported

LEMMA NobodyReviewsNothing ==
    /\ Replay(<<>>).testing = {} /\ Replay(<<>>).approved = {}
    /\ Replay(<<>>).submitter = {}
<1>1. <<>> \in History /\ DOMAIN <<>> = {}
  BY DEF History
<1>2. ~ Rejected(<<>>)
  BY <1>1 DEF Rejected, LiveActions
<1>3. \A e, d : ActiveUsers(<<>>, e, d) = {} /\ ActiveUsersOnNewest(<<>>, e, d) = {}
  BY <1>1 DEF ActiveUsers, ActiveUsersOnNewest
<1> QED
  BY <1>1, <1>2, <1>3, ReplayOpen, NobodySubmitsNothing

LEMMA InitRInv == Init => RInv
<1> SUFFICES ASSUME Init PROVE RInv
  OBVIOUS
<1>1. IInv /\ Opened
  BY InitIInv, InitOpened
<1>1a. \A s \in Submissions :
          /\ cache[s].approved = {} /\ cache[s].testing = {} /\ cache[s].submitter = {}
  BY NobodyReviewsNothing DEF Init, EmptyCache
<1>2. SeparateReviewers
  BY <1>1a DEF SeparateReviewers
<1>3. OneAuditionSubmission
  BY <1>1a DEF OneAuditionSubmission
<1>4. AddedVersionImported
  BY DEF Init, AddedVersionImported
<1> QED
  BY <1>1, <1>2, <1>3, <1>4 DEF RInv

LEMMA NextRInv == RInv /\ [Next]_vars => RInv'
<1> SUFFICES ASSUME RInv, [Next]_vars PROVE RInv'
  OBVIOUS
<1>1. IInv /\ IInv' /\ Edges /\ \A s \in Submissions : Step(s)
  BY NextIInv, NextSteps DEF RInv
<1>2. Opened /\ Opened'
  BY <1>1, NextOpened DEF RInv
<1>3. SeparateReviewers'
  <2> SUFFICES ASSUME NEW s \in Submissions, Untouched(s)' PROVE Separate(cache'[s])
    BY DEF SeparateReviewers, Separate
  <2>1. Untouched(s) => Separate(cache[s])
    BY DEF RInv, SeparateReviewers, Separate
  <2> QED
    BY <1>1, <2>1, SeparateStep
<1>4. OneAuditionSubmission'
  BY <1>1, <1>2, OneAuditionStep DEF RInv
<1>5. AddedVersionImported'
  <2> SUFFICES ASSUME NEW s \in Submissions PROVE IsImported(s)'
    BY DEF AddedVersionImported, IsImported
  <2>1. IsImported(s)
    BY DEF RInv, AddedVersionImported, IsImported
  <2> QED
    BY <1>1, <2>1, ImportedStep
<1> QED
  BY <1>1, <1>2, <1>3, <1>4, <1>5 DEF RInv

\* The inductive invariant of the review: on top of IInv, who approved has not
\* verified, one submission in audition per author, and an added version that
\* is imported.
THEOREM ReviewInvariant == Spec => []RInv
BY InitRInv, NextRInv, PTL DEF Spec

\* Testing and verification stay with two people, gods aside, in every
\* history from which nothing was deleted: ValidAction refuses the second
\* role to whoever has the first, uploads and metadata edits included.
THEOREM TwoReviewers == Spec => []SeparateReviewers
BY ReviewInvariant, PTL DEF RInv

\* A user in audit who uploads twice at once still has one submission: the
\* quota is counted in the transaction that writes the history.
THEOREM OneAudition == Spec => []OneAuditionSubmission
BY ReviewInvariant, PTL DEF RInv

\* A live mark-added has the newest live file before it in the game database,
\* also after imports that failed and deletions of files in between.
THEOREM AddedIsImported == Spec => []AddedVersionImported
BY ReviewInvariant, PTL DEF RInv

\* The history of a frozen submission only grows, by the rows of freezers,
\* gods and the system, also in a transaction that read it before the freeze.
THEOREM FrozenIsReadOnly == Spec => FrozenReadOnly
<1>1. ASSUME RInv, [Next]_vars, NEW s \in frozen
      PROVE  /\ Len(log[s]) <= Len(log'[s])
             /\ \A i \in DOMAIN log'[s] :
                  IF i \in DOMAIN log[s] THEN log'[s][i] = log[s][i]
                  ELSE log'[s][i].by \in Freezers \cup Gods \cup {System}
  <2>1. s \in Submissions /\ Step(s)
    BY <1>1, NextSteps DEF RInv, IInv, TypeOK
  <2> QED
    BY <1>1, <2>1, FrozenStep DEF RInv
<1>2. RInv /\ [Next]_vars =>
        [\A s \in frozen :
           /\ Len(log[s]) <= Len(log'[s])
           /\ \A i \in DOMAIN log'[s] :
                IF i \in DOMAIN log[s] THEN log'[s][i] = log[s][i]
                ELSE log'[s][i].by \in Freezers \cup Gods \cup {System}]_vars
  BY <1>1
<1> QED
  BY <1>2, ReviewInvariant, PTL DEF Spec, FrozenReadOnly

\* A new version starts its review from nothing: approvals and verifications
\* are gone, requests for changes stay but for its uploader's own.
THEOREM NewVersionIsReviewed == Spec => NewVersionNeedsReview
<1>1. ASSUME IInv, [Next]_vars, NEW s \in Submissions, "upload-file" \in Appended(s)
      PROVE  /\ cache'[s].approved = {} /\ cache'[s].verified = {}
             /\ cache[s].changes \ cache'[s].lastUploader \subseteq cache'[s].changes
  BY <1>1, NextSteps, NewVersionStep
<1>2. IInv /\ [Next]_vars =>
        [\A s \in Submissions : "upload-file" \in Appended(s) =>
           /\ cache'[s].approved = {} /\ cache'[s].verified = {}
           /\ cache[s].changes \ cache'[s].lastUploader \subseteq cache'[s].changes]_vars
  BY <1>1
<1> QED
  BY <1>2, Invariant, PTL DEF Spec, NewVersionNeedsReview

\* The rows a metadata edit carries over give the new archive the approval
\* and the verification of the one it replaces.
THEOREM MetaEditKeepsReview == Spec => MetaEditKeepsApproval
<1>1. ASSUME IInv, [Next]_vars, NEW s \in Submissions,
             "edit-meta" \in Appended(s), cache[s].approved # {}
      PROVE  /\ cache'[s].approved # {}
             /\ cache[s].verified # {} => cache'[s].verified # {}
  BY <1>1, NextSteps, MetaEditStepKeeps
<1>2. IInv /\ [Next]_vars =>
        [\A s \in Submissions :
           "edit-meta" \in Appended(s) /\ cache[s].approved # {} =>
             /\ cache'[s].approved # {}
             /\ cache[s].verified # {} => cache'[s].verified # {}]_vars
  BY <1>1
<1> QED
  BY <1>2, Invariant, PTL DEF Spec, MetaEditKeepsApproval
-----------------------------------------------------------------------------
(* The replay and the reduction *)

\* What the system account writes is automatic: the reduction of the tests
\* counts every author but the validator, the replay counts people.
AutomaticNotes == \A s \in Submissions : Automatic(log[s])

LEMMA AutomaticConcat ==
    ASSUME NEW x \in History, NEW y \in History, Automatic(x), Automatic(y)
    PROVE  Automatic(x \o y)
<1> SUFFICES ASSUME NEW i \in DOMAIN (x \o y), (x \o y)[i].by = System
             PROVE  (x \o y)[i].action = "system"
  BY DEF Automatic
<1>1. CASE i \in DOMAIN x
  BY <1>1, Appending DEF Automatic
<1>2. CASE i \notin DOMAIN x
  BY <1>2, Appending DEF Automatic
<1> QED
  BY <1>1, <1>2

LEMMA ArchiveAutomatic ==
    ASSUME NEW u \in Users, NEW a \in {"upload-file", "edit-meta"},
           NEW v \in Verdicts
    PROVE  ArchiveRows(u, a, v) \in History /\ Automatic(ArchiveRows(u, a, v))
<1> DEFINE r == ArchiveRows(u, a, v)
<1>1. /\ r \in History
      /\ r[1] = Row(u, "file")
      /\ \A i \in DOMAIN r \ {1} : r[i] \in {Row(u, a), Row(Validator, v.bot),
                                             Row(System, "system")}
  BY ArchiveSays
<1> HIDE DEF r
<1>2. ASSUME NEW i \in DOMAIN r, r[i].by = System
      PROVE  r[i].action = "system"
  BY <1>1, <1>2, RowSays, AuthorsAssumption
<1> QED
  BY <1>1, <1>2 DEF Automatic, r

LEMMA EditAutomatic ==
    ASSUME NEW u \in Users, NEW v \in Verdicts, NEW c \in CacheType,
           NEW p \in Users, NEW q \in Users
    PROVE  EditRows(u, v, c, p, q) \in History /\ Automatic(EditRows(u, v, c, p, q))
<1> DEFINE t == CarriedRows(c, p, q)
<1>1. t \in History /\ RowsIn(t, {Row(p, "approve"), Row(q, "verify")})
  BY CarriedSays
<1> HIDE DEF t
<1>2. Automatic(t)
  BY <1>1, RowSays, AuthorsAssumption DEF RowsIn, Automatic
<1>3. /\ ArchiveRows(u, "edit-meta", v) \in History
      /\ Automatic(ArchiveRows(u, "edit-meta", v))
  BY ArchiveAutomatic
<1>4. Automatic(ArchiveRows(u, "edit-meta", v) \o t)
  BY <1>1, <1>2, <1>3, AutomaticConcat
<1>5. EditRows(u, v, c, p, q) = ArchiveRows(u, "edit-meta", v) \o t
  BY DEF EditRows, t
<1> QED
  BY <1>4, <1>5, EditSays

LEMMA ReviewAutomatic ==
    ASSUME NEW u \in Users, NEW a \in AllowedActions, NEW s \in Submissions
    PROVE  ReviewRows(u, a, s) \in History /\ Automatic(ReviewRows(u, a, s))
<1> DEFINE r == ReviewRows(u, a, s)
<1>1. /\ r \in History
      /\ r[1] = Row(u, a)
      /\ \A i \in DOMAIN r \ {1} :
           r[i] \in {Row(u, "unassign-testing"), Row(u, "unassign-verification"),
                     Row(System, "system")}
  BY ReviewSays
<1> HIDE DEF r
<1>2. ASSUME NEW i \in DOMAIN r, r[i].by = System
      PROVE  r[i].action = "system"
  BY <1>1, <1>2, RowSays, AuthorsAssumption
<1> QED
  BY <1>1, <1>2 DEF Automatic, r

LEMMA ForcedAutomatic ==
    ASSUME NEW w \in Authors, NEW a \in {"approve", "verify"}, w # System
    PROVE  <<Row(w, a)>> \in History /\ Automatic(<<Row(w, a)>>)
<1>1. <<Row(w, a)>> \in History
  BY RowTyped DEF History, Actions
<1> QED
  BY <1>1, RowSays DEF Automatic

LEMMA StepAutomatic ==
    ASSUME IInv, NEW s \in Submissions, Automatic(log[s]), Step(s)
    PROVE  Automatic(log'[s])
<1>1. log[s] \in History /\ cache[s] \in CacheType
  BY DEF IInv, TypeOK
<1>2. ASSUME NEW u \in Users, NEW v \in Verdicts, Created(s, u, v) \/ Uploaded(s, u, v)
      PROVE  Automatic(log'[s])
  BY <1>1, <1>2, ArchiveAutomatic, AutomaticConcat DEF Created, Uploaded
<1>3. ASSUME NEW u \in Users, NEW p \in Users, NEW q \in Users, NEW v \in Verdicts,
             Edited(s, u, v, p, q)
      PROVE  Automatic(log'[s])
  BY <1>1, <1>3, EditAutomatic, AutomaticConcat DEF Edited
<1>4. ASSUME NEW w \in Authors, NEW a \in {"approve", "verify"}, Forced(s, w, a)
      PROVE  Automatic(log'[s])
  <2>1. w # System
    BY <1>4, AuthorsAssumption, RolesAssumption DEF Forced
  <2> QED
    BY <1>1, <1>4, <2>1, ForcedAutomatic, AutomaticConcat DEF Forced
<1>5. ASSUME NEW dead \in SUBSET Nat, Pruned(s, dead)
      PROVE  Automatic(log'[s])
  BY <1>1, <1>5, Deleting DEF Pruned, Automatic
<1>6. ASSUME NEW u \in Users, NEW a \in Postable, Reviewed(s, u, a)
      PROVE  Automatic(log'[s])
  BY <1>1, <1>6, ReviewAutomatic, AutomaticConcat DEF Reviewed, Postable
<1>7. CASE Untold(s)
  BY <1>7 DEF Untold
<1> QED
  BY <1>2, <1>3, <1>4, <1>5, <1>6, <1>7 DEF Step, Writes

\* submission_cache says of the five sets of users what the tests' fold over
\* the history says, after every transaction of every interleaving.
THEOREM CacheIsReduction == Spec => []CacheAgreesWithReduction
<1>1. Init => AutomaticNotes
  BY DEF Init, AutomaticNotes, Automatic
<1>2. IInv /\ AutomaticNotes /\ [Next]_vars => AutomaticNotes'
  <2> SUFFICES ASSUME IInv, AutomaticNotes, [Next]_vars, NEW s \in Submissions
               PROVE  Automatic(log'[s])
    BY DEF AutomaticNotes
  <2> QED
    BY NextSteps, StepAutomatic DEF AutomaticNotes
<1>3. IInv /\ AutomaticNotes => CacheAgreesWithReduction
  BY ReplayIsReduction
     DEF IInv, TypeOK, CacheCurrent, AutomaticNotes, CacheAgreesWithReduction
<1> QED
  BY <1>1, <1>2, <1>3, Invariant, PTL DEF Spec


=============================================================================

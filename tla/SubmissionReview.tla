-------------------------- MODULE SubmissionReview --------------------------
(***************************************************************************)
(* The life of submissions under review (service/siteservice.go,           *)
(* siteservice_comments.go, siteservice_submissionreceiver.go).            *)
(*                                                                         *)
(* One action is one committed transaction: every handler takes the row    *)
(* locks of the submissions it changes before its first read and keeps     *)
(* them until commit (database/submission_locks.go), so the transactions   *)
(* of one submission run one after the other.  A rolled back transaction   *)
(* leaves no trace here, with one exception: the import into the game      *)
(* database that mark-added runs in a transaction of its own.              *)
(*                                                                         *)
(* The subscriptions, notification rows and activity events the same       *)
(* handlers write do not feed back into any guard of this module.          *)
(***************************************************************************)
EXTENDS HistoryReduction, FiniteSets

CONSTANTS
    Submissions,    \* ids a submission can get
    Staff,          \* users with a staff role
    TrialCurators,  \* users with that role; who is in neither set is in audit
    Deciders,       \* Curator, Tester, Moderator, Administrator
    Adders,         \* AdderRoles: may mark a submission as added
    Deleters,       \* DeleterRoles: may soft delete
    Freezers,       \* FreezerRoles: may freeze, and act on what is frozen
    Gods,           \* users who may force a decision
    PostedActions,  \* the review actions posted in this instance
    Verdicts,       \* what the validator may find in an archive
    MaxRows,        \* bound: rows in one history
    MaxWindingRows, \* bound: rows in one that is not straight
    MaxBotRows,     \* bound: validator rows in it (archives and overrides)
    MaxDeletions    \* bound: rows deleted one by one from it

AllowedActions ==
    {"comment", "approve", "request-changes", "mark-added", "upload-file",
     "verify", "assign-testing", "unassign-testing", "assign-verification",
     "unassign-verification", "reject"}

DecidingActions ==
    {"approve", "request-changes", "verify", "assign-testing",
     "unassign-testing", "assign-verification", "unassign-verification",
     "reject"}

\* bot: the comment it leaves; freeze: "Curation should be frozen" is among
\* the warnings; note: a system comment (similar curations, no release date).
VerdictType == [bot : {"approve", "request-changes"},
                freeze : BOOLEAN, note : BOOLEAN]

ASSUME RolesAssumption ==
    /\ Adders \cup Deleters \cup Freezers \subseteq Deciders
    /\ Deciders \cup Gods \subseteq Staff
    /\ Staff \cup TrialCurators \subseteq Users
ASSUME BoundsAssumption ==
    /\ PostedActions \subseteq AllowedActions
    /\ Verdicts \subseteq VerdictType
    /\ {MaxRows, MaxWindingRows, MaxBotRows, MaxDeletions} \subseteq Nat

VARIABLES
    log,        \* the history of every submission, <<>> before it is created
    cache,      \* submission_cache
    frozen,     \* submissions with frozen_at set
    autofreeze, \* submissions with should_autofreeze set
    removed,    \* soft deleted submissions
    imported    \* the version AddSubmissionToFlashpoint imported last, as a
                \* set of at most one position of log

vars == <<log, cache, frozen, autofreeze, removed, imported>>

TypeOK ==
    /\ log \in [Submissions -> History]
    /\ cache \in [Submissions -> CacheType]
    /\ frozen \subseteq Submissions
    /\ autofreeze \subseteq Submissions
    /\ removed \subseteq Submissions
    /\ imported \in [Submissions -> SUBSET Nat]

Init ==
    /\ log = [s \in Submissions |-> <<>>]
    /\ cache = [s \in Submissions |-> EmptyCache]
    /\ frozen = {}
    /\ autofreeze = {}
    /\ removed = {}
    /\ imported = [s \in Submissions |-> {}]

-----------------------------------------------------------------------------
\* LockSubmissions finds only rows that exist and are not soft deleted.
Active(s) == log[s] # <<>> /\ s \notin removed

\* Slip: the route's check, made before the lock, is relied on.
Mutable_NoRecheck(s) == Active(s)

\* lockUnfrozenSubmissionMutation rereads frozen_at under the lock.
Mutable(s) == Active(s) /\ s \notin frozen

\* The route lets staff and the submitter pass.
MayUpload(u, s) == u \in Staff \/ u \in cache[s].submitter

\* Neither the bot nor anybody else asks for changes, and nothing is deleted.
Straight(h) == \A i \in DOMAIN h :
    h[i].live /\ h[i].action # "request-changes"

WithinBounds(s, h) ==
    /\ Len(h) <= IF Straight(h) THEN MaxRows ELSE MaxWindingRows
    /\ \A t \in Submissions \ {s} : Len(h) + Len(log[t]) <= MaxRows
    /\ Cardinality({i \in DOMAIN h : h[i].by = Validator}) <= MaxBotRows
    /\ Cardinality({i \in DOMAIN h : ~ h[i].live}) <= MaxDeletions

\* The rows of s become those of h: StoreComment, StoreSubmissionFile and the
\* soft deletes write no cache row.
WriteRows(s, h) == log' = [log EXCEPT ![s] = h]

StoreRows(s, h) ==
    /\ WithinBounds(s, h)
    /\ WriteRows(s, h)

\* Each handler that changes rows calls this itself, after its last row: the
\* replay reads what its own transaction wrote.
UpdateSubmissionCacheTable(batch) ==
    cache' = [s \in Submissions |->
                IF s \in batch THEN Replay(log'[s]) ELSE cache[s]]

SetAutofreeze(s, on) ==
    autofreeze' = IF on THEN autofreeze \cup {s} ELSE autofreeze \ {s}

-----------------------------------------------------------------------------
(* Uploads and metadata edits *)

\* The rows in time order: the bot comments one microsecond after the upload,
\* the system two.
ArchiveRows(u, action, v) ==
    <<Row(u, "file"), Row(u, action), Row(Validator, v.bot)>>
        \o (IF v.note THEN <<Row(System, "system")>> ELSE <<>>)

\* Slip: the limit is off by one.
WithinQuota_OffByOne(u) ==
    u \in Staff \cup TrialCurators \/ Cardinality({s \in Submissions :
        /\ Active(s) /\ u \in cache[s].submitter
        /\ "reject" \notin cache[s].actions}) <= 1

\* checkAuditionSubmissionQuota, under the creation lock of the uploader.
WithinQuota(u) ==
    u \in Staff \cup TrialCurators \/ \A s \in Submissions :
        Active(s) /\ u \in cache[s].submitter => "reject" \in cache[s].actions

Create(u, s, v) ==
    /\ log[s] = <<>>
    /\ WithinQuota(u)
    /\ StoreRows(s, ArchiveRows(u, "upload-file", v))
    /\ UpdateSubmissionCacheTable({s})
    /\ SetAutofreeze(s, v.freeze)
    /\ UNCHANGED <<frozen, removed, imported>>

Upload(u, s, v) ==
    /\ Mutable(s)
    /\ MayUpload(u, s)
    /\ StoreRows(s, log[s] \o ArchiveRows(u, "upload-file", v))
    /\ UpdateSubmissionCacheTable({s})
    /\ SetAutofreeze(s, v.freeze)
    /\ UNCHANGED <<frozen, removed, imported>>

\* Slip: only the approval is carried over.
CarriedRows_ApprovalOnly(c, approver, verifier) ==
    IF c.approved = {} THEN <<>> ELSE <<Row(approver, "approve")>>

\* The first approver, and the first verifier if there is an approver, are
\* written again three and four microseconds later.  GROUP_CONCAT has no
\* ORDER BY, so either user may come first.
CarriedRows(c, approver, verifier) ==
    IF c.approved = {} THEN <<>>
    ELSE <<Row(approver, "approve")>>
            \o (IF c.verified = {} THEN <<>> ELSE <<Row(verifier, "verify")>>)

\* The edited archive is validated again and stored as a new file.
EditRows(u, v, c, approver, verifier) ==
    ArchiveRows(u, "edit-meta", v) \o CarriedRows(c, approver, verifier)

\* Slip: nothing is refreshed after the carried rows.
MetaEdit_EarlyRefresh(u, s, v) ==
    /\ Mutable(s)
    /\ MayUpload(u, s)
    /\ "mark-added" \notin cache[s].actions
    /\ \E approver \in Users, verifier \in Users :
        /\ cache[s].approved # {} => approver \in cache[s].approved
        /\ cache[s].verified # {} => verifier \in cache[s].verified
        /\ StoreRows(s, log[s] \o EditRows(u, v, cache[s], approver, verifier))
    /\ cache' = [cache EXCEPT ![s] =
                    Replay(log[s] \o ArchiveRows(u, "edit-meta", v))]
    /\ SetAutofreeze(s, v.freeze)
    /\ UNCHANGED <<frozen, removed, imported>>

\* The row is refreshed once for the archive and again after the carried rows,
\* in one transaction.
MetaEdit(u, s, v) ==
    /\ Mutable(s)
    /\ MayUpload(u, s)
    /\ "mark-added" \notin cache[s].actions
    /\ \E approver \in Users, verifier \in Users :
        /\ cache[s].approved # {} => approver \in cache[s].approved
        /\ cache[s].verified # {} => verifier \in cache[s].verified
        /\ StoreRows(s, log[s] \o EditRows(u, v, cache[s], approver, verifier))
    /\ UpdateSubmissionCacheTable({s})
    /\ SetAutofreeze(s, v.freeze)
    /\ UNCHANGED <<frozen, removed, imported>>

-----------------------------------------------------------------------------
(* Comments and review actions *)

(* isActionValidForSubmission, one definition per section of the function;  *)
(* u wants action a, c is the cache row of the submission.                 *)

Assigning == {"assign-testing", "assign-verification"}

\* Slip: a rejection is possible after the import.
OpenForReview_Reject(u, a, c) ==
    "mark-added" \in c.actions => a \notin DecidingActions \ {"reject"}

\* Marking a submission as added closes its review.
OpenForReview(u, a, c) == "mark-added" \in c.actions => a \notin DecidingActions

NotLastUploader(u, a, c) ==
    a \in Assigning \cup {"approve", "request-changes", "verify"}
        => u \notin c.lastUploader

\* Slip: the same submission can be marked as added again.
NotTwice_AddedAgain(u, a, c) ==
    /\ a = "assign-testing" => u \notin c.testing
    /\ a = "unassign-testing" => u \in c.testing
    /\ a = "assign-verification" => u \notin c.verification
    /\ a = "unassign-verification" => u \in c.verification
    /\ a = "approve" => u \notin c.approved
    /\ a = "verify" => u \notin c.verified

NotTwice(u, a, c) ==
    /\ a = "assign-testing" => u \notin c.testing
    /\ a = "unassign-testing" => u \in c.testing
    /\ a = "assign-verification" => u \notin c.verification
    /\ a = "unassign-verification" => u \in c.verification
    /\ a = "approve" => u \notin c.approved
    /\ a = "verify" => u \notin c.verified
    /\ a = "mark-added" => "mark-added" \notin c.actions

\* Slip: who has tested a submission may verify it.
OtherPersonDecides_TesterVerifies(u, a, c) ==
    /\ a = "assign-testing" => u \notin c.verification
    /\ a = "assign-verification" => u \notin c.testing
    /\ a \in {"assign-testing", "approve"} => u \notin c.verified

\* One user neither holds both assignments nor makes both decisions.
OtherPersonDecides(u, a, c) ==
    /\ a = "assign-testing" => u \notin c.verification
    /\ a = "assign-verification" => u \notin c.testing
    /\ a \in {"assign-testing", "approve"} => u \notin c.verified
    /\ a \in {"assign-verification", "verify"} => u \notin c.approved

\* Assigned before deciding, approved before verified before added, and no
\* assignment for what the user has confirmed already.
InOrder(u, a, c) ==
    /\ a = "approve" => u \in c.testing
    /\ a = "verify" => u \in c.verification
    /\ a \in {"assign-verification", "verify"} => c.approved # {}
    /\ a = "assign-testing" => u \notin c.approved
    /\ a = "assign-verification" => u \notin c.verified
    /\ a = "mark-added" => c.verified # {}

RejectedOnce(u, a, c) ==
    a \in {"reject", "upload-file"} => "reject" \notin c.actions

ValidAction(u, a, c) ==
    /\ OpenForReview(u, a, c)
    /\ NotLastUploader(u, a, c)
    /\ NotTwice(u, a, c)
    /\ OtherPersonDecides(u, a, c)
    /\ InOrder(u, a, c)
    /\ RejectedOnce(u, a, c)

\* The router's role checks on the action, and on the batch as a whole.
MayPost(u, a, batch) ==
    /\ \/ a = "comment"
       \/ a \in DecidingActions /\ u \in Deciders
       \/ a = "mark-added" /\ u \in Adders
    /\ u \in Staff \/ \A s \in batch : u \in cache[s].submitter

\* Deciding gives up the assignment; a verification freezes if it has to.
ReviewRows(u, a, s) ==
    <<Row(u, a)>>
        \o (IF a = "approve" THEN <<Row(u, "unassign-testing")>>
            ELSE IF a = "verify" THEN <<Row(u, "unassign-verification")>>
            ELSE <<>>)
        \o (IF a = "verify" /\ s \in autofreeze
            THEN <<Row(System, "system")>> ELSE <<>>)

\* The route refuses a batch with a frozen member to who may not freeze; the
\* flag is read again under the lock.
MayTouch(u, batch) == \A s \in batch : s \in frozen => u \in Freezers

\* What has to hold before the first submission of a batch is processed.
BatchOpen(u, a, batch) ==
    /\ a \in PostedActions
    /\ batch # {}
    /\ MayPost(u, a, batch)
    /\ a \in {"request-changes", "reject"} => \E s \in Submissions : batch = {s}
    /\ \A s \in batch : Active(s)
    /\ MayTouch(u, batch)

Accepted(u, a, batch) == {s \in batch : ValidAction(u, a, cache[s])}

\* Slip: a submission that was imported before is not imported again.
Import_OnlyOnce(done) ==
    [s \in Submissions |->
       IF s \in done /\ imported[s] = {} THEN NewestFile(log[s]) ELSE imported[s]]

\* Slip: the import of a batch ends with its first submission.
Import_FirstOnly(done) ==
    [s \in Submissions |->
       IF s \in done /\ s = (CHOOSE x \in done : TRUE)
       THEN NewestFile(log[s]) ELSE imported[s]]

\* AddSubmissionToFlashpoint takes the newest version, under the row lock.
Import(done) ==
    [s \in Submissions |->
       IF s \in done THEN NewestFile(log[s]) ELSE imported[s]]

\* A batch commits as a whole: one refused submission refuses all of them,
\* unless the caller asked to skip the refused ones.
ReceiveComments(u, a, batch, ignoreDupeActions) ==
    LET accepted == Accepted(u, a, batch)
        new == [s \in Submissions |->
                  IF s \in accepted THEN log[s] \o ReviewRows(u, a, s)
                                    ELSE log[s]]
    IN  /\ BatchOpen(u, a, batch)
        /\ accepted # {}
        /\ ignoreDupeActions \/ accepted = batch
        /\ \A s \in accepted : WithinBounds(s, new[s])
        /\ log' = new
        /\ UpdateSubmissionCacheTable(accepted)
        /\ frozen' = IF a = "verify" THEN frozen \cup (accepted \cap autofreeze)
                                     ELSE frozen
        /\ imported' = IF a = "mark-added" THEN Import(accepted) ELSE imported
        /\ UNCHANGED <<autofreeze, removed>>

\* mark-added imports a submission before it stores the comment.  When the
\* batch fails afterwards (a refused submission, an error, a lost commit), the
\* imports done so far stay and every comment is rolled back.
ImportThenFail(u, batch) ==
    /\ BatchOpen(u, "mark-added", batch)
    /\ \E done \in SUBSET Accepted(u, "mark-added", batch) :
        imported' = Import(done)
    /\ UNCHANGED <<log, cache, frozen, autofreeze, removed>>

OverrideBot(u, s) ==
    /\ Mutable(s)
    /\ u \in Staff
    /\ StoreRows(s, Append(log[s], Row(Validator, "approve")))
    /\ UpdateSubmissionCacheTable({s})
    /\ UNCHANGED <<frozen, autofreeze, removed, imported>>

ForceApproveSubmission(u, s) ==
    /\ Active(s)
    /\ u \in Gods
    /\ StoreRows(s, Append(log[s], Row(u, "approve")))
    /\ UpdateSubmissionCacheTable({s})
    /\ UNCHANGED <<frozen, autofreeze, removed, imported>>

ForceVerifySubmission(u, s) ==
    /\ Active(s)
    /\ u \in Gods
    /\ StoreRows(s, Append(log[s], Row(u, "verify")))
    /\ UpdateSubmissionCacheTable({s})
    /\ UNCHANGED <<frozen, autofreeze, removed, imported>>

-----------------------------------------------------------------------------
(* Moderation *)

LiveFiles(h) == {i \in DOMAIN h : LiveFile(h, i)}

Kill(h, dead) ==
    [i \in DOMAIN h |-> IF i \in dead THEN [h[i] EXCEPT !.live = FALSE] ELSE h[i]]

SoftDeleteSubmissionFile(u, s, i) ==
    /\ u \in Deleters
    /\ Mutable(s)
    /\ i \in LiveFiles(log[s])
    /\ LiveFiles(log[s]) # {i}
    /\ StoreRows(s, Kill(log[s], {i}))
    /\ UpdateSubmissionCacheTable({s})
    /\ UNCHANGED <<frozen, autofreeze, removed, imported>>

\* Slip: the transaction ends with the deletion.
SoftDeleteComment_NoRefresh(u, s, i) ==
    /\ u \in Deleters
    /\ Mutable(s)
    /\ i \in DOMAIN log[s] \ LiveFiles(log[s])
    /\ log[s][i].live
    /\ log[s][i].by # Validator
    /\ StoreRows(s, Kill(log[s], {i}))
    /\ UNCHANGED <<cache, frozen, autofreeze, removed, imported>>

SoftDeleteComment(u, s, i) ==
    /\ u \in Deleters
    /\ Mutable(s)
    /\ i \in DOMAIN log[s] \ LiveFiles(log[s])
    /\ log[s][i].live
    /\ log[s][i].by # Validator
    /\ StoreRows(s, Kill(log[s], {i}))
    /\ UpdateSubmissionCacheTable({s})
    /\ UNCHANGED <<frozen, autofreeze, removed, imported>>

SoftDeleteSubmission(u, s) ==
    /\ u \in Deleters
    /\ Mutable(s)
    /\ WriteRows(s, Kill(log[s], DOMAIN log[s]))
    /\ UpdateSubmissionCacheTable({s})
    /\ removed' = removed \cup {s}
    /\ UNCHANGED <<frozen, autofreeze, imported>>

FreezeSubmission(u, s) ==
    /\ Active(s)
    /\ u \in Freezers
    /\ frozen' = frozen \cup {s}
    /\ UNCHANGED <<log, cache, autofreeze, removed, imported>>

UnfreezeSubmission(u, s) ==
    /\ Active(s)
    /\ u \in Freezers
    /\ frozen' = frozen \ {s}
    /\ UNCHANGED <<log, cache, autofreeze, removed, imported>>

-----------------------------------------------------------------------------
Archive ==
    \E u \in Users, s \in Submissions, v \in Verdicts :
        Create(u, s, v) \/ Upload(u, s, v) \/ MetaEdit(u, s, v)

\* A batch of one is refused or accepted whatever ignoreDupeActions says.
IgnoreOptions(batch) ==
    IF \E s \in batch : batch = {s} THEN {FALSE} ELSE BOOLEAN

Review ==
    \E u \in Users, batch \in SUBSET Submissions :
        \/ \E a \in PostedActions, ignore \in IgnoreOptions(batch) :
              ReceiveComments(u, a, batch, ignore)
        \/ ImportThenFail(u, batch)

Override ==
    \E u \in Users, s \in Submissions :
        \/ OverrideBot(u, s)
        \/ ForceApproveSubmission(u, s)
        \/ ForceVerifySubmission(u, s)

Moderate ==
    \E u \in Users, s \in Submissions :
        \/ \E i \in DOMAIN log[s] : SoftDeleteSubmissionFile(u, s, i)
        \/ \E i \in DOMAIN log[s] : SoftDeleteComment(u, s, i)
        \/ SoftDeleteSubmission(u, s)
        \/ FreezeSubmission(u, s)
        \/ UnfreezeSubmission(u, s)

Next == Archive \/ Review \/ Override \/ Moderate

Spec == Init /\ [][Next]_vars

-----------------------------------------------------------------------------
(* Properties *)

\* No moderator has deleted anything from the history.
Untouched(s) == \A i \in DOMAIN log[s] : log[s][i].live

\* The actions of the rows a step appends to the history of s.
Appended(s) ==
    {log'[s][i].action : i \in (Len(log[s]) + 1) .. Len(log'[s])}

\* What the five sets of users in submission_cache say is what the tests'
\* independent fold over the history says: no handler that posts, edits or
\* deletes forgets to refresh the row, or refreshes it too early.
CacheAgreesWithReduction ==
    \A s \in Submissions : AgreesWithReduction(cache[s], log[s])

\* Nobody stands for a submission and against it at the same time: whatever
\* is posted, edited or deleted, a user who requests changes neither approves
\* nor verifies (the enabler and disabler sets of caching.go).
NoTwoMinds ==
    \A s \in Submissions :
        cache[s].changes \cap (cache[s].approved \cup cache[s].verified) = {}

\* Testing and verification are done by two people, as long as no comment or
\* file is deleted and no god forces a decision
\* (comments_action_validator.go:96 and 107).
SeparateReviewers ==
    \A s \in Submissions : Untouched(s) =>
        /\ cache[s].approved \cap cache[s].verified \subseteq Gods
        /\ cache[s].testing \cap cache[s].verification = {}

\* A history holds one live mark-added comment at most, whatever is retried,
\* batched or deleted in between.
AddedAtMostOnce ==
    \A s \in Submissions : \A i, j \in DOMAIN log[s] :
        /\ log[s][i].live /\ log[s][i].action = "mark-added"
        /\ log[s][j].live /\ log[s][j].action = "mark-added"
        => i = j

\* A submission is never both rejected and added.  The replay hides
\* mark-added from a rejected submission, so this rests on the emptied set of
\* verifiers and on the order in which the two actions may come.
RejectExcludesAdded ==
    \A s \in Submissions :
        ~ {"reject", "mark-added"} \subseteq LiveActions(log[s])

\* The version that was newest when a submission was marked as added is the
\* one the game database got, also when earlier attempts imported older ones
\* and failed: the import commits first, on its own, under the same row lock.
AddedVersionImported ==
    \A s \in Submissions : \A i \in DOMAIN log[s] :
        log[s][i].live /\ log[s][i].action = "mark-added" =>
            \E k \in imported[s] :
                k < i /\ \A f \in LiveFiles(log[s]) : f < i => f <= k

\* A user in audit has one submission that is not rejected.
OneAuditionSubmission ==
    \A u \in Users \ (Staff \cup TrialCurators) : \A s, t \in Submissions :
        (\A x \in {s, t} : /\ u \in cache[x].submitter
                           /\ Untouched(x)
                           /\ ~ Rejected(log[x]))
        => s = t

\* While a submission is frozen nothing in its history is deleted and only
\* freezers, gods and the system add to it, even if the freeze commits
\* between the route check and the transaction.
FrozenReadOnly ==
    [][\A s \in frozen :
        /\ Len(log[s]) <= Len(log'[s])
        /\ \A i \in DOMAIN log'[s] :
              IF i \in DOMAIN log[s] THEN log'[s][i] = log[s][i]
              ELSE log'[s][i].by \in Freezers \cup Gods \cup {System}]_vars

\* A new version loses every approval and verification and gives none, and
\* withdraws no request for changes but its uploader's.
NewVersionNeedsReview ==
    [][\A s \in Submissions : "upload-file" \in Appended(s) =>
        /\ cache'[s].approved = {} /\ cache'[s].verified = {}
        /\ cache[s].changes \ cache'[s].lastUploader \subseteq cache'[s].changes]_vars

\* A metadata edit of an approved submission leaves it approved, and verified
\* if it was verified, although it replaces the newest file.
MetaEditKeepsApproval ==
    [][\A s \in Submissions :
        "edit-meta" \in Appended(s) /\ cache[s].approved # {} =>
            /\ cache'[s].approved # {}
            /\ cache[s].verified # {} => cache'[s].verified # {}]_vars

=============================================================================

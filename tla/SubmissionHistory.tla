------------------------- MODULE SubmissionHistory -------------------------
(***************************************************************************)
(* The history of one submission and the row of submission_cache that is   *)
(* replayed from it (database/caching.go).                                 *)
(*                                                                         *)
(* A history is the sequence of the rows that the tables submission_file   *)
(* and comment hold for the submission, in the order (created_at, id) the  *)
(* replay sorts them by.  A writer holds the parent row lock from before   *)
(* its first read until commit and stamps its rows with the clock plus a   *)
(* few microseconds, so every transaction appends at the end; a position   *)
(* stands for a pair (created_at, id).  Soft deletion clears "live".       *)
(***************************************************************************)
EXTENDS Naturals, Sequences

CONSTANTS
    Users,      \* people with a Discord account
    Validator,  \* the author id of the validator bot's comments
    System      \* the author id of automatic comments

\* The bot and the system author are discord_user rows of their own.
ASSUME AuthorsAssumption == /\ Validator \notin Users
                            /\ System \notin Users
                            /\ Validator # System

Authors == Users \cup {Validator, System}

Actions == {"comment", "approve", "request-changes", "mark-added",
            "upload-file", "edit-meta", "verify", "assign-testing",
            "unassign-testing", "assign-verification",
            "unassign-verification", "system", "reject"}

\* A row of submission_file has the pseudo action "file".
RowType == [by : Authors, action : Actions \cup {"file"}, live : BOOLEAN]

Row(u, a) == [by |-> u, action |-> a, live |-> TRUE]

History == Seq(RowType)

\* Slip: soft deleted rows count.
Written_Deleted(h, i, u, acts) ==
    h[i].by = u /\ h[i].action \in acts

Written(h, i, u, acts) ==
    h[i].live /\ h[i].by = u /\ h[i].action \in acts

LiveFile(h, i) == h[i].live /\ h[i].action = "file"

\* Slip: approvals of every version count.
OnNewestFile_AnyVersion(h, i) == \E k \in DOMAIN h : LiveFile(h, k)

\* Position i comes after the newest active file, which has to exist: the SQL
\* compares created_at with the joined last_file, and NULL compares as false.
OnNewestFile(h, i) ==
    /\ \E k \in DOMAIN h : LiveFile(h, k)
    /\ \A k \in DOMAIN h : LiveFile(h, k) => k < i

\* getUserCountWithEnabledAction: the users whose latest enabling comment is
\* later than their latest disabling one.  Authors outside Users never count:
\* the query drops the validator, and the system writes no reviewing action.
ActiveUsers(h, enablers, disablers) ==
    {u \in Users : \E i \in DOMAIN h :
        /\ Written(h, i, u, enablers)
        /\ \A j \in DOMAIN h : Written(h, j, u, disablers) => j < i}

\* Slip: the validator's own approvals count.
ActiveUsersOnNewest_Bot(h, enablers, disablers) ==
    {u \in Authors : \E i \in DOMAIN h :
        /\ Written(h, i, u, enablers)
        /\ OnNewestFile(h, i)
        /\ \A j \in DOMAIN h : Written(h, j, u, disablers) => j < i}

\* The same with onlyFromLastFileVersion: comments on older versions do not
\* take part, neither as enablers nor as disablers.
ActiveUsersOnNewest(h, enablers, disablers) ==
    {u \in Users : \E i \in DOMAIN h :
        /\ Written(h, i, u, enablers)
        /\ OnNewestFile(h, i)
        /\ \A j \in DOMAIN h : Written(h, j, u, disablers) => j < i}

LiveActions(h) ==
    {a \in Actions : \E i \in DOMAIN h : h[i].live /\ h[i].action = a}

\* Slip: approving does not withdraw the own request.
RequestDisablers_UploadOnly == {"upload-file"}

\* What disables a request for changes, and what disables a decision.  A
\* metadata edit withdraws nothing.
RequestDisablers == {"approve", "verify", "upload-file"}
DecisionDisablers == {"request-changes"}

\* The newest active file, as a set of at most one position.
NewestFile(h) ==
    {i \in DOMAIN h : LiveFile(h, i) /\ \A k \in DOMAIN h : LiveFile(h, k) => k <= i}

\* Author of the newest (oldest) active file, as a set of at most one user.
NewestUploader(h) ==
    {u \in Users : \E i \in NewestFile(h) : h[i].by = u}

OldestUploader(h) ==
    {u \in Users : \E i \in DOMAIN h :
        /\ Written(h, i, u, {"file"})
        /\ \A k \in DOMAIN h : LiveFile(h, k) => i <= k}

\* getBotAction: what the validator said last, as a set of at most one action.
BotAction(h) ==
    {a \in Actions : \E i \in DOMAIN h :
        /\ Written(h, i, Validator, {a})
        /\ \A k \in DOMAIN h : Written(h, k, Validator, Actions) => k <= i}

Rejected(h) == "reject" \in LiveActions(h)

CacheType == [testing      : SUBSET Users,   \* active_assigned_testing_ids
              verification : SUBSET Users,   \* active_assigned_verification_ids
              changes      : SUBSET Users,   \* active_requested_changes_ids
              approved     : SUBSET Users,   \* active_approved_ids
              verified     : SUBSET Users,   \* active_verified_ids
              actions      : SUBSET Actions, \* distinct_actions
              bot          : SUBSET Actions, \* bot_action
              submitter    : SUBSET Users,   \* fk_oldest_file_id
              lastUploader : SUBSET Users]   \* fk_newest_file_id

\* UpdateSubmissionCacheTable: a live reject empties the five sets of users
\* and hides every other action.
Replay(h) ==
    LET rejected == Rejected(h)
        Unless(S) == IF rejected THEN {} ELSE S
    IN
    [testing      |-> Unless(ActiveUsers(h, {"assign-testing"},
                                            {"unassign-testing"})),
     verification |-> Unless(ActiveUsers(h, {"assign-verification"},
                                            {"unassign-verification"})),
     changes      |-> Unless(ActiveUsers(h, {"request-changes"}, RequestDisablers)),
     approved     |-> Unless(ActiveUsersOnNewest(h, {"approve"}, DecisionDisablers)),
     verified     |-> Unless(ActiveUsersOnNewest(h, {"verify"}, DecisionDisablers)),
     actions      |-> IF rejected THEN {"reject"} ELSE LiveActions(h),
     bot          |-> BotAction(h),
     submitter    |-> OldestUploader(h),
     lastUploader |-> NewestUploader(h)]

\* The cache row StoreSubmission inserts before any history exists.
EmptyCache == Replay(<<>>)

=============================================================================

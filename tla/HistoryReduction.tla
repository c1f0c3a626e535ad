-------------------------- MODULE HistoryReduction --------------------------
(***************************************************************************)
(* The independent account of submission_cache that the repository's tests *)
(* keep (reduce in integration_tests/submission_history_model_test.go): the *)
(* live rows are folded in order, every action adds its author to and      *)
(* removes it from the sets it affects.  It shares nothing with the        *)
(* latest-enabler and latest-disabler queries of SubmissionHistory but the *)
(* rows.                                                                   *)
(***************************************************************************)
EXTENDS SubmissionHistory

\* Position i comes after the newest active file.
AfterLastFile(h, i) ==
    \E last \in DOMAIN h :
        /\ LiveFile(h, last) /\ last < i
        /\ \A k \in DOMAIN h : LiveFile(h, k) => k <= last

NoSets == [testing |-> {}, verification |-> {}, changes |-> {},
           approved |-> {}, verified |-> {}]

\* What a comment of u does to the sets.
Apply(acc, u, a, onLast) ==
    CASE a = "assign-testing" -> [acc EXCEPT !.testing = @ \cup {u}]
      [] a = "unassign-testing" -> [acc EXCEPT !.testing = @ \ {u}]
      [] a = "assign-verification" -> [acc EXCEPT !.verification = @ \cup {u}]
      [] a = "unassign-verification" -> [acc EXCEPT !.verification = @ \ {u}]
      [] a = "request-changes" -> [acc EXCEPT !.changes = @ \cup {u},
                                              !.approved = @ \ {u},
                                              !.verified = @ \ {u}]
      [] a = "upload-file" -> [acc EXCEPT !.changes = @ \ {u}]
      [] a = "approve" -> [acc EXCEPT !.changes = @ \ {u},
                                      !.approved = IF onLast THEN @ \cup {u} ELSE @]
      [] a = "verify" -> [acc EXCEPT !.changes = @ \ {u},
                                     !.verified = IF onLast THEN @ \cup {u} ELSE @]
      [] OTHER -> acc

\* One step of the fold: row i of h.
Account(h, acc, i) ==
    IF h[i].live /\ h[i].by # Validator
    THEN Apply(acc, h[i].by, h[i].action, AfterLastFile(h, i)) ELSE acc

Reduce(h) ==
    LET sets[n \in 0 .. Len(h)] ==
            IF n = 0 THEN NoSets ELSE Account(h, sets[n - 1], n)
    IN  IF \E i \in DOMAIN h : h[i].live /\ h[i].action = "reject"
        THEN NoSets ELSE sets[Len(h)]

\* The five sets of users of cache row c are those of the reduction.
AgreesWithReduction(c, h) ==
    Reduce(h) = [testing |-> c.testing, verification |-> c.verification,
                 changes |-> c.changes, approved |-> c.approved,
                 verified |-> c.verified]

=============================================================================

------------------------- MODULE MCSubmissionReview -------------------------
EXTENDS SubmissionReview, TLC

CONSTANTS ann, bob, cat, bot, sys, s1, s2

\* An archive the bot accepts, and one whose submission freezes once verified.
PlainVerdict == [bot |-> "approve", freeze |-> FALSE, note |-> FALSE]
FreezeVerdict == [bot |-> "approve", freeze |-> TRUE, note |-> FALSE]
\* An archive the bot refuses, with a system comment about similar curations.
NotedVerdict == [bot |-> "request-changes", freeze |-> FALSE, note |-> TRUE]

OneVerdict == {PlainVerdict}
FreezeOrNote == {FreezeVerdict, NotedVerdict}

\* ann and bob have the same roles in every instance that uses this set.
ReviewerSymmetry == Permutations({ann, bob})

SubmissionSymmetry == Permutations(Submissions)

=============================================================================

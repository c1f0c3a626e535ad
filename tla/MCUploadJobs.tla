--------------------------- MODULE MCUploadJobs ---------------------------
(***************************************************************************)
(* Bounds for UploadJobs: uploads that bring the same archive, so that     *)
(* they and the handlers that serve them are alike.                        *)
(***************************************************************************)
EXTENDS UploadJobs, TLC

SameArchive == [k \in Keys |-> 1]

AlikeUploads == Permutations(Requests) \cup Permutations(Keys)
=============================================================================

---------------------------- MODULE MCReviewRuns ----------------------------
(***************************************************************************)
(* A TLC instance of the review runs.                                      *)
(***************************************************************************)
EXTENDS ReviewRuns, TLC

=============================================================================

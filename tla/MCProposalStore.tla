--------------------------- MODULE MCProposalStore ---------------------------
(***************************************************************************)
(* TLC instances of the proposal store.                                    *)
(***************************************************************************)
EXTENDS ProposalStore, TLC

MCSymmetryAll == Permutations(Drafts) \cup Permutations(Workers)

\* Bound: when both drafts have been raced for, nothing is left to be claimed of
\* them but the stories and places of their files
MCOneUnraced == Raced # Drafts

=============================================================================

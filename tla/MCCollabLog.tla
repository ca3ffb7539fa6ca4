----------------------------- MODULE MCCollabLog -----------------------------
(***************************************************************************)
(* Small instances of CollabLog.  Edits differ in nothing but the tab they *)
(* were made in, so they may be permuted.                                  *)
(***************************************************************************)
EXTENDS CollabLog, TLC

EditSymmetry == Permutations(Edits)
=============================================================================

--------------------------- MODULE MCSealedStream ---------------------------
(***************************************************************************)
(* SealedStream for TLC.                                                   *)
(***************************************************************************)
EXTENDS SealedStream, TLC

\* Sends, device lists and flushes are only told apart by what happened to
\* them.  Sound for this run: its properties speak of no liveness.
Symmetry ==
    Permutations(Sends) \cup Permutations(Capabilities) \cup Permutations(DeviceLists)
        \cup Permutations(Flushes)
=============================================================================

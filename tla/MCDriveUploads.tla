--------------------------- MODULE MCDriveUploads ---------------------------
(* Model-checking instance of DriveUploads.                                *)
EXTENDS DriveUploads, TLC

\* No action tells requests, uploads or files apart.
Symmetry == Permutations(Requests) \cup Permutations(Uploads) \cup Permutations(Files)
=============================================================================

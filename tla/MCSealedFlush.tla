---------------------------- MODULE MCSealedFlush ----------------------------
(* Small instances of SealedFlush for TLC.                                 *)
EXTENDS SealedFlush, TLC

CONSTANTS c1, w1, w2, b1, b2

\* Two backends: a client and a worker on the first, a worker on the other.
HomeMC == [t \in Tasks |-> IF t \in {c1, w1} THEN b1 ELSE b2]
=============================================================================

------------------------- MODULE MCFederationOutbox -------------------------
(* Small instances of FederationOutbox for TLC.                            *)
EXTENDS FederationOutbox, TLC

\* Sends, device lists and clients differ in nothing but what happens to them.
Symmetry ==
    Permutations(Sends) \cup Permutations(DeviceLists) \cup Permutations(Clients)
=============================================================================

-------------------------- MODULE MCAccountSessions --------------------------
(***************************************************************************)
(* Small instances of AccountSessions.  Sessions differ in nothing but     *)
(* what happens to them, nor do changers.                                  *)
(***************************************************************************)
EXTENDS AccountSessions, TLC

Alike == Permutations(Sessions) \cup Permutations(Changers)

Budget(c, f, e, d) ==
    [changes |-> c, forks |-> f, ends |-> e, disables |-> d]

\* Two changes; a change while a sign-in is forked; a sign-out and the account
\* disabled while a sign-in is forked.
BudgetsMC == {Budget(2, 0, 0, 0), Budget(1, 1, 0, 0), Budget(0, 1, 1, 1)}
=============================================================================

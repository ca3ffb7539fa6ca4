--------------------------- MODULE AccountSessions ---------------------------
(***************************************************************************)
(* One account: its password sign-ins, the sessions they and their forks   *)
(* hold, the grants that let a session change the password, and what ends  *)
(* sessions: a new password, a recovery, a sign-out, an admin's disabling. *)
(*                                                                         *)
(* Everything shared is in PostgreSQL.  A step is one statement or a       *)
(* transaction nothing can come between; an UPDATE fixes the rows it is    *)
(* about when it starts and waits for the row locks of others before it    *)
(* takes effect.  Refresh tokens are in RefreshTokens; second factors, an  *)
(* account's first setup and the lockouts are left out.                    *)
(***************************************************************************)
EXTENDS Naturals, FiniteSets

CONSTANTS
    Sessions,     \* sign-ins and forks, each with the session it makes
    Changers,     \* requests that change the password
    None,
    MaxChanges,   \* bound on password changes
    Budgets       \* bounds together: how many password changes, forks, sessions
                  \* ended by their owner and disablings a behaviour has

ASSUME SessionsAssumption ==
    /\ None \notin Sessions
    /\ MaxChanges \in Nat
    /\ Budgets \subseteq [changes : 0 .. MaxChanges, forks : Nat, ends : Nat, disables : Nat]

VARIABLES
    active, record,  \* the account's row; a password is known by its record
    retired,         \* the record is under a retired OPAQUE setup
    logins,          \* opaque_login_states
    signIn,          \* how far each sign-in's request is
    rows, revoked, parent,  \* auth_sessions
    told,            \* history: sessions a client was given
    password,        \* history: the password of each record
    proved,          \* history: the password each session stands on
    forks,           \* auth_session_forks, by parent
    consuming,       \* the parent a fork's consumer holds locked
    grants,          \* auth_grants not used
    change,          \* how far each changer is
    ending,          \* the owner's request to end a session
    disabling,       \* the admin's request to disable
    ended, barred,   \* history: what was answered as ended
    left             \* what is left of the behaviour's budget

accountVars == <<active, record, retired, password>>
sessionVars == <<rows, revoked, parent, told, proved>>
forkVars == <<forks, consuming>>
endVars == <<ending, disabling, ended, barred>>
vars == <<active, record, retired, password, logins, signIn, rows, revoked, parent, told,
          proved, forks, consuming, grants, change, ending, disabling, ended, barred, left>>

Records == 0 .. MaxChanges
Grant(s, p) == [session |-> s, purpose |-> p, record |-> record]
Login(s, p, r) == [session |-> s, purpose |-> p, record |-> r]

NoSignIn == [step |-> "none", epoch |-> 0]
NoChange == [step |-> "none", grant |-> [session |-> None, purpose |-> "none", record |-> 0],
             rows |-> {}, logins |-> {}]
NoEnding == [target |-> None, rows |-> {}]
NoDisabling == [step |-> "none", before |-> {}, rows |-> {}]

TypeOK ==
    /\ active \in BOOLEAN
    /\ retired \in BOOLEAN
    /\ record \in Records
    /\ password \in [Records -> Records]
    /\ \A l \in logins : l.session \in Sessions /\ l.purpose \in {"session", "reauth"} /\ l.record \in Records
    /\ \A s \in Sessions :
          /\ signIn[s].step \in {"none", "read", "started", "proved", "preauth", "allowed",
                                 "created", "stale", "over"}
          /\ signIn[s].epoch \in Records
          /\ parent[s] \in Sessions \cup {None}
          /\ consuming[s] \in Sessions \cup {None}
          /\ proved[s] \in Records
    /\ revoked \subseteq rows
    /\ told \subseteq rows
    /\ rows \subseteq Sessions
    /\ forks \subseteq told
    /\ \A g \in grants : g.session \in told \cup {None} /\ g.record \in Records
    /\ \A c \in Changers :
          /\ change[c].step \in {"none", "asked", "taken", "updated", "revoking"}
          /\ change[c].rows \subseteq rows
    /\ ending.rows \subseteq rows
    /\ disabling.rows \subseteq rows
    /\ ended \subseteq rows
    /\ barred \subseteq rows

Init ==
    /\ active = TRUE
    /\ record = 0
    /\ retired \in BOOLEAN
    /\ password = [r \in Records |-> 0]
    /\ logins = {}
    /\ signIn = [s \in Sessions |-> NoSignIn]
    /\ rows = {}
    /\ revoked = {}
    /\ parent = [s \in Sessions |-> None]
    /\ told = {}
    /\ proved = [s \in Sessions |-> 0]
    /\ forks = {}
    /\ consuming = [s \in Sessions |-> None]
    /\ grants = {}
    /\ change = [c \in Changers |-> NoChange]
    /\ ending = NoEnding
    /\ disabling = NoDisabling
    /\ ended = {}
    /\ barred = {}
    /\ left \in Budgets

-----------------------------------------------------------------------------
(* What a request may do.                                                  *)

\* Mutant of live: a session's own row only.
live_own(s) == s \in rows \ revoked /\ active

\* Checked on every request: a forked session lives only while its sign-in does.
live(s) == s \in rows \ revoked /\ active /\ parent[s] \notin revoked

\* A password change holds the account's row from its UPDATE to its commit.
AccountFree == \A c \in Changers : change[c].step \notin {"updated", "revoking"}

\* Mutant of credential_held: the account is only looked at, not waited for.
credential_held_read(epoch) == active /\ record = epoch

\* Whether the password proved is still the account's (FOR SHARE).
credential_held(epoch) == AccountFree /\ active /\ record = epoch

\* Seen once nobody changes it.
credential_lost(epoch) == AccountFree /\ ~ (active /\ record = epoch)

-----------------------------------------------------------------------------
(* Signing in.                                                             *)

At(s, step) == signIn[s].step = step
To(s, step) == signIn' = [signIn EXCEPT ![s].step = step]

Untouched == UNCHANGED <<accountVars, forkVars, endVars, change, left>>

\* The record is read, and the sign-in's state stored after the OPAQUE work.
login_start(s) ==
    /\ At(s, "none")
    /\ s \notin rows
    /\ consuming[s] = None
    /\ signIn' = [signIn EXCEPT ![s] = [step |-> "read", epoch |-> record]]
    /\ UNCHANGED <<logins, sessionVars, grants>> /\ Untouched

login_started(s) ==
    /\ At(s, "read")
    /\ To(s, "started")
    /\ logins' = logins \cup {Login(s, "session", signIn[s].epoch)}
    /\ UNCHANGED <<sessionVars, grants>> /\ Untouched

\* Rows a change is deleting are waited for.
Deleting(l) == \E c \in Changers : l \in change[c].logins

login_finish(s) ==
    /\ At(s, "started")
    /\ LET l == Login(s, "session", signIn[s].epoch)
       IN  /\ ~ Deleting(l)
           /\ To(s, IF l \in logins THEN "proved" ELSE "over")
           /\ logins' = logins \ {l}
    /\ UNCHANGED <<sessionVars, grants>> /\ Untouched

\* Straight to a session, or through a second step.
signed_in_answer(s) ==
    /\ At(s, "proved")
    /\ \E next \in {"allowed", "preauth"} :
          To(s, IF record = signIn[s].epoch /\ active THEN next ELSE "over")
    /\ UNCHANGED <<logins, sessionVars, grants>> /\ Untouched

issue_after_second_step(s) ==
    /\ At(s, "preauth")
    /\ To(s, IF active THEN "allowed" ELSE "over")
    /\ UNCHANGED <<logins, sessionVars, grants>> /\ Untouched

create(s) ==
    /\ At(s, "allowed")
    /\ To(s, "created")
    /\ rows' = rows \cup {s}
    /\ proved' = [proved EXCEPT ![s] = password[signIn[s].epoch]]
    /\ UNCHANGED <<logins, revoked, parent, told, grants>> /\ Untouched

\* The session is answered; a record under a retired setup comes with a grant
\* to move it.
issue_tokens(s) ==
    /\ At(s, "created")
    /\ credential_held(signIn[s].epoch)
    /\ To(s, "over")
    /\ told' = told \cup {s}
    /\ grants' = IF retired THEN grants \cup {Grant(s, "rotate")} ELSE grants
    /\ UNCHANGED <<logins, rows, revoked, parent, proved>> /\ Untouched

issue_refused(s) ==
    /\ At(s, "created")
    /\ credential_lost(signIn[s].epoch)
    /\ To(s, "stale")
    /\ UNCHANGED <<logins, sessionVars, grants>> /\ Untouched

issue_revoke(s) ==
    /\ At(s, "stale")
    /\ To(s, "over")
    /\ revoked' = revoked \cup {s}
    /\ UNCHANGED <<logins, rows, parent, told, proved, grants>> /\ Untouched

\* The request fails or the server restarts under it.
sign_in_lost(s) ==
    /\ signIn[s].step \notin {"none", "over"}
    /\ To(s, "over")
    /\ UNCHANGED <<logins, sessionVars, grants>> /\ Untouched

-----------------------------------------------------------------------------
(* Forked sessions.                                                        *)

create_fork(s) ==
    /\ s \in told
    /\ parent[s] = None
    /\ live(s)
    /\ left.forks > 0
    /\ left' = [left EXCEPT !.forks = @ - 1]
    /\ forks' = forks \cup {s}
    /\ UNCHANGED <<accountVars, logins, signIn, sessionVars, consuming, grants, change, endVars>>

\* The hand-off is used up, and its sign-in locked while it is live.
consume_fork(s, p) ==
    /\ At(s, "none")
    /\ consuming[s] = None
    /\ s \notin rows
    /\ p \in forks
    /\ forks' = forks \ {p}
    /\ consuming' = [consuming EXCEPT ![s] = IF p \notin revoked /\ active THEN p ELSE None]
    /\ UNCHANGED <<accountVars, logins, signIn, sessionVars, grants, change, endVars, left>>

consume_commit(s) ==
    /\ consuming[s] # None
    /\ consuming' = [consuming EXCEPT ![s] = None]
    /\ rows' = rows \cup {s}
    /\ told' = told \cup {s}
    /\ parent' = [parent EXCEPT ![s] = consuming[s]]
    /\ proved' = [proved EXCEPT ![s] = proved[consuming[s]]]
    /\ UNCHANGED <<accountVars, logins, signIn, revoked, forks, grants, change, endVars, left>>

\* Rolled back: the hand-off is still there.
consume_lost(s) ==
    /\ consuming[s] # None
    /\ consuming' = [consuming EXCEPT ![s] = None]
    /\ forks' = forks \cup {consuming[s]}
    /\ UNCHANGED <<accountVars, logins, signIn, sessionVars, grants, change, endVars, left>>

-----------------------------------------------------------------------------
(* Grants, and the password changed with one.                              *)

\* A signed-in person proves the password again.
reauth_start(s) ==
    /\ s \in told
    /\ live(s)
    /\ left.changes > 0
    /\ logins' = logins \cup {Login(s, "reauth", record)}
    /\ UNCHANGED <<signIn, sessionVars, grants>> /\ Untouched

reauth_finish(s, l) ==
    /\ l \in logins
    /\ l.session = s
    /\ l.purpose = "reauth"
    /\ ~ Deleting(l)
    /\ AccountFree
    /\ logins' = logins \ {l}
    /\ grants' = IF live(s) /\ credential_held(l.record)
                 THEN grants \cup {Grant(s, "passwordChange")} ELSE grants
    /\ UNCHANGED <<signIn, sessionVars>> /\ Untouched

\* The recovery phrase proves the account without a session.
recover_grant ==
    /\ active
    /\ AccountFree
    /\ left.changes > 0
    /\ grants' = grants \cup {Grant(None, "recovery")}
    /\ UNCHANGED <<logins, signIn, sessionVars>> /\ Untouched

Changing(c, step) == change' = [change EXCEPT ![c].step = step]
Changeless == UNCHANGED <<signIn, told, rows, parent, forkVars, endVars>>

\* A request with a grant: a session's own, or a recovery's.
register_finish(c, g) ==
    /\ change[c].step = "none"
    /\ g.purpose # "recovery" => live(g.session)
    /\ left.changes > 0
    /\ change' = [change EXCEPT ![c] = [NoChange EXCEPT !.step = "asked", !.grant = g]]
    /\ UNCHANGED <<accountVars, logins, revoked, proved, grants, left>> /\ Changeless

\* A transaction holds the grant's row: the one that uses it, or one that
\* deletes them all.
Taken(g) ==
    \E c \in Changers :
       \/ change[c].grant = g /\ change[c].step \in {"taken", "updated"}
       \/ change[c].step = "revoking"

\* Mutant of take: the grant is looked at, not taken.
take_peek(c) ==
    /\ change[c].step = "asked"
    /\ Changing(c, IF change[c].grant \in grants THEN "taken" ELSE "none")
    /\ UNCHANGED <<accountVars, logins, revoked, proved, grants, left>> /\ Changeless

take(c) ==
    /\ change[c].step = "asked"
    /\ ~ Taken(change[c].grant)
    /\ Changing(c, IF change[c].grant \in grants THEN "taken" ELSE "none")
    /\ UNCHANGED <<accountVars, logins, revoked, proved, grants, left>> /\ Changeless

\* The account's row, while it is active; a rotation only off a retired setup.
register_update(c) ==
    /\ change[c].step = "taken"
    /\ AccountFree
    /\ change' = [change EXCEPT ![c] =
                     IF active /\ (@.grant.purpose = "rotate" => retired)
                     THEN [@ EXCEPT !.step = "updated"] ELSE NoChange]
    /\ UNCHANGED <<accountVars, logins, revoked, proved, grants, left>> /\ Changeless

\* A session's whole sign-in.
Tree(t) == {s \in rows : s = t \/ parent[s] = t}
Root(s) == IF parent[s] = None THEN s ELSE parent[s]

\* What goes on: the sign-in that changed the password.  A rotation ends
\* nobody's.
Kept(g) ==
    CASE g.purpose = "recovery" -> {}
      [] g.purpose = "rotate" -> rows
      [] OTHER -> Tree(Root(g.session))

\* Every grant and sign-in under way ends (end_all), the account's other
\* sessions with them.
register_revoke(c) ==
    /\ change[c].step = "updated"
    /\ \A g \in grants : Taken(g) => change[c].grant = g
    /\ change' = [change EXCEPT ![c].step = "revoking", ![c].logins = logins,
                                ![c].rows = rows \ (revoked \cup Kept(change[c].grant))]
    /\ UNCHANGED <<accountVars, logins, revoked, proved, grants, left>> /\ Changeless

\* Nobody holds a row of the UPDATE.
Unlocked(some) == \A s \in Sessions : consuming[s] \notin some

\* What a change leaves of the account's grants.
end_all(g) == {}

\* A rotation registers the password its client has; a change, a new one.
register_commit(c) ==
    /\ change[c].step = "revoking"
    /\ Unlocked(change[c].rows)
    /\ LET g == change[c].grant
           new == IF g.purpose = "rotate" THEN password[g.record] ELSE record + 1
       IN  /\ record' = record + 1
           /\ password' = [password EXCEPT ![record + 1] = new]
           /\ proved' = [s \in Sessions |->
                           IF g.purpose = "passwordChange" /\ s \in Tree(Root(g.session))
                           THEN new ELSE proved[s]]
    /\ retired' = FALSE
    /\ revoked' = revoked \cup change[c].rows
    /\ logins' = logins \ change[c].logins
    /\ grants' = end_all(change[c].grant)
    /\ change' = [change EXCEPT ![c] = NoChange]
    /\ left' = [left EXCEPT !.changes = @ - 1]
    /\ UNCHANGED active /\ Changeless

\* Rolled back: an error, a restart, or two changes waiting on each other (one
\* holds the account, the other its grant) and one chosen by the database.
register_abort(c) ==
    /\ change[c].step # "none"
    /\ change' = [change EXCEPT ![c] = NoChange]
    /\ UNCHANGED <<accountVars, logins, revoked, proved, grants, left>> /\ Changeless

-----------------------------------------------------------------------------
(* Sessions ended by their owner, and an account disabled.                 *)

Ending(t) ==
    /\ ending = NoEnding
    /\ left.ends > 0
    /\ ending' = [target |-> t, rows |-> Tree(t) \ revoked]
    /\ left' = [left EXCEPT !.ends = @ - 1]
    /\ UNCHANGED <<accountVars, logins, signIn, sessionVars, forkVars, grants, change,
                   disabling, ended, barred>>

\* Signing out ends the whole sign-in, from any of its apps.
sign_out(s) ==
    /\ s \in told
    /\ live(s)
    /\ Ending(Root(s))

\* One session of the account's list, and what was forked from it.
revoke_owned(s, t) ==
    /\ s \in told
    /\ live(s)
    /\ t \in rows \ revoked
    /\ Ending(t)

revoke_tree ==
    /\ ending # NoEnding
    /\ Unlocked(ending.rows)
    /\ revoked' = revoked \cup ending.rows
    /\ ended' = ended \cup {ending.target}
    /\ ending' = NoEnding
    /\ UNCHANGED <<accountVars, logins, signIn, rows, parent, told, proved, forkVars, grants,
                   change, disabling, barred, left>>

\* First the account's row, committed; then its sessions.
update_user_disable ==
    /\ active
    /\ AccountFree
    /\ disabling.step = "none"
    /\ left.disables > 0
    /\ active' = FALSE
    /\ disabling' = [step |-> "disabled", before |-> told, rows |-> {}]
    /\ left' = [left EXCEPT !.disables = @ - 1]
    /\ UNCHANGED <<record, retired, password, logins, signIn, sessionVars, forkVars, grants,
                   change, ending, ended, barred>>

revoke_all_for_user ==
    /\ disabling.step = "disabled"
    /\ disabling' = [disabling EXCEPT !.step = "revoking", !.rows = rows \ revoked]
    /\ UNCHANGED <<accountVars, logins, signIn, sessionVars, forkVars, grants, change, ending,
                   ended, barred, left>>

update_user_revoke ==
    /\ disabling.step = "revoking"
    /\ Unlocked(disabling.rows)
    /\ revoked' = revoked \cup disabling.rows
    /\ barred' = barred \cup disabling.before
    /\ disabling' = NoDisabling
    /\ UNCHANGED <<accountVars, logins, signIn, rows, parent, told, proved, forkVars, grants,
                   change, ending, ended, left>>

\* The request fails between the two.
update_user_lost ==
    /\ disabling.step # "none"
    /\ disabling' = NoDisabling
    /\ UNCHANGED <<accountVars, logins, signIn, sessionVars, forkVars, grants, change, ending,
                   ended, barred, left>>

update_user_enable ==
    /\ ~ active
    /\ AccountFree
    /\ active' = TRUE
    /\ UNCHANGED <<record, retired, password, logins, signIn, sessionVars, forkVars, grants,
                   change, endVars, left>>

SignIn(s) ==
    \/ login_start(s) \/ login_started(s) \/ login_finish(s) \/ signed_in_answer(s)
    \/ issue_after_second_step(s) \/ create(s) \/ issue_tokens(s) \/ issue_refused(s)
    \/ issue_revoke(s) \/ sign_in_lost(s)

Fork(s) ==
    \/ create_fork(s) \/ consume_commit(s) \/ consume_lost(s)
    \/ \E p \in Sessions : consume_fork(s, p)

Reauth(s) == reauth_start(s) \/ \E l \in logins : reauth_finish(s, l)

Change(c) ==
    \/ \E g \in grants : register_finish(c, g)
    \/ take(c) \/ register_update(c) \/ register_revoke(c) \/ register_commit(c)
    \/ register_abort(c)

End ==
    \/ \E s \in Sessions : sign_out(s) \/ \E t \in Sessions : revoke_owned(s, t)
    \/ revoke_tree

Admin ==
    \/ update_user_disable \/ revoke_all_for_user \/ update_user_revoke
    \/ update_user_lost \/ update_user_enable

Next ==
    \/ \E s \in Sessions : SignIn(s) \/ Fork(s) \/ Reauth(s)
    \/ recover_grant
    \/ \E c \in Changers : Change(c)
    \/ End
    \/ Admin

Spec == Init /\ [][Next]_vars

-----------------------------------------------------------------------------
(* What makes sign-ins correct.                                            *)

\* No session a client holds stands on a password the account no longer has: a
\* new password ends the others, also those being signed in just then ("a change
\* or recovery that landed since ends this session here, or (landing after) with
\* the rest").
StandsOnPassword == \A s \in told : live(s) => proved[s] = password[record]

\* A session signed out, and everything forked from it, never lives again, also
\* a fork consumed meanwhile ("Revoking a parent revokes its children").
EndedStays == \A t \in ended, s \in Sessions : (s = t \/ parent[s] = t) => ~ live(s)

\* A session from before the account was disabled never lives again, also once
\* the account is enabled ("A disabled account keeps no live sign-in anywhere").
BarredStays == \A s \in barred : ~ live(s)

\* Whatever was answered as ended stays so, for either reason.
StaysEnded == EndedStays /\ BarredStays

\* A password is only changed by a grant issued under the password it replaces,
\* so a grant changes it once ("of two concurrent uses, one gets it").
ChangesGranted ==
    \A c \in Changers : change[c].step \in {"updated", "revoking"} => change[c].grant.record = record

\* A grant that can still be used was issued under the account's password: a
\* change leaves none behind ("Ends every outstanding grant of `user_id`").
GrantsCurrent == \A g \in grants : g.record = record

\* Grants by parts: well formed, current, and used only under their password.
GrantsInv == TypeOK /\ GrantsCurrent /\ ChangesGranted
=============================================================================

---------------------------- MODULE RefreshTokens ----------------------------
(***************************************************************************)
(* One web session's refresh token: rotated by the server on every refresh *)
(* and kept in the one cookie the app's tabs share.  The server remembers  *)
(* the token before and honours it for the grace; the tabs take turns with *)
(* a Web Lock.  Requests and answers are on their way for any time; what a *)
(* tab asked for is still served when the tab has gone, and the answer,    *)
(* the new cookie with it, reaches nobody.  Copies of the browser refresh  *)
(* too, with any cookie it has had or they were given, and keep what they  *)
(* are answered.                                                           *)
(*                                                                         *)
(* A token is its number in the order of rotation.  The idle expiry is a   *)
(* way to end; a session's parent and account are in AccountSessions.      *)
(***************************************************************************)
EXTENDS Naturals, FiniteSets

CONSTANTS
    Tabs,
    NoTab,
    Copy,       \* asks for a copy of the browser
    MaxToken,   \* bound on rotations
    MaxAsks     \* bound on requests

ASSUME TokensAssumption ==
    /\ NoTab \notin Tabs
    /\ Copy \notin Tabs \cup {NoTab}
    /\ MaxToken \in Nat \ {0}
    /\ MaxAsks \in Nat

VARIABLES
    current, previous,  \* the session's two hashes; 0 is none
    grace,              \* the last rotation was within REFRESH_GRACE
    ended,              \* the session has
    cookie,             \* the browser's; 0 is none
    locks,              \* the browser has Web Locks
    lock,               \* who holds kutup-refresh
    requests, answers,  \* on their way
    asks,
    held,               \* history: the cookies the browser has had
    given,              \* the tokens copies of it were answered
    failed              \* history: the database failed a refresh

serverVars == <<current, previous, grace, ended>>
vars == <<current, previous, grace, ended, cookie, locks, lock, requests, answers, asks,
          held, given, failed>>

Tokens == 0 .. MaxToken
Request(t, k) == [tab |-> t, token |-> k, nth |-> asks]

\* What an answer does to the cookie: a new one, none, or nothing.
Answer(r, status, set) == [tab |-> r.tab, nth |-> r.nth, status |-> status, set |-> set]
Keep == MaxToken + 1

TypeOK ==
    /\ current \in Tokens \ {0}
    /\ previous \in 0 .. current - 1
    /\ grace \in BOOLEAN
    /\ ended \in BOOLEAN
    /\ cookie \in 0 .. current
    /\ locks \in BOOLEAN
    /\ lock \in Tabs \cup {NoTab}
    /\ \A r \in requests : r.tab \in Tabs \cup {NoTab, Copy} /\ r.token \in Tokens
    /\ \A a \in answers : a.tab \in Tabs /\ a.status \in {200, 401, 500} /\ a.set \in Tokens \cup {Keep}
    /\ asks \in 0 .. MaxAsks
    /\ held \subseteq 1 .. current
    /\ given \subseteq 1 .. current
    /\ failed \in BOOLEAN

Init ==
    /\ current = 1
    /\ previous = 0
    /\ grace = FALSE
    /\ ended = FALSE
    /\ cookie = 1
    /\ locks \in BOOLEAN
    /\ lock = NoTab
    /\ requests = {}
    /\ answers = {}
    /\ asks = 0
    /\ held = {1}
    /\ given = {}
    /\ failed = FALSE

Asking(t) == (\E r \in requests : r.tab = t) \/ (\E a \in answers : a.tab = t)

-----------------------------------------------------------------------------
(* The tabs.                                                               *)

\* Mutant of CanAsk: the lock is not waited for.
CanAsk_any(t) == TRUE

\* Serialised across tabs.
CanAsk(t) == locks => lock = NoTab

refreshAccessToken(t) ==
    /\ asks < MaxAsks
    /\ ~ Asking(t)
    /\ cookie # 0
    /\ CanAsk(t)
    /\ lock' = IF locks THEN t ELSE NoTab
    /\ requests' = requests \cup {Request(t, cookie)}
    /\ asks' = asks + 1
    /\ UNCHANGED <<serverVars, cookie, locks, answers, held, given, failed>>

Release(t) == lock' = IF lock = t THEN NoTab ELSE lock

\* The answer: its cookie, and the lock.
answered(a) ==
    /\ a \in answers
    /\ answers' = answers \ {a}
    /\ cookie' = IF a.set = Keep THEN cookie ELSE a.set
    /\ held' = held \cup ({cookie'} \ {0})
    /\ Release(a.tab)
    /\ UNCHANGED <<serverVars, locks, requests, asks, given, failed>>

\* The tab is closed or reloaded, or its network goes: its request may still be
\* served, its answer does not arrive.
left(t) ==
    /\ Asking(t)
    /\ requests' = {IF r.tab = t THEN [r EXCEPT !.tab = NoTab] ELSE r : r \in requests}
    /\ answers' = {a \in answers : a.tab # t}
    /\ Release(t)
    /\ UNCHANGED <<serverVars, cookie, locks, asks, held, given, failed>>

\* A browser brought back from a copy presents the cookie it has: the one the
\* copy was made with, or one it was given since.
copy(k) ==
    /\ asks < MaxAsks
    /\ k \in held \cup given
    /\ requests' = requests \cup {Request(Copy, k)}
    /\ asks' = asks + 1
    /\ UNCHANGED <<serverVars, cookie, locks, lock, answers, held, given, failed>>

-----------------------------------------------------------------------------
(* The server: one transaction, with the session's row locked.             *)

\* An answer for a tab that is gone reaches nobody; a copy keeps the token.
Answered(r, status, set) ==
    /\ requests' = requests \ {r}
    /\ answers' = IF r.tab \in Tabs THEN answers \cup {Answer(r, status, set)} ELSE answers
    /\ given' = IF r.tab = Copy THEN given \cup ({set} \ {0, Keep}) ELSE given

\* Mutant of Remembered: the token before is forgotten at once.
Remembered_nothing == 0

Remembered == current

refresh_rotated(r) ==
    /\ r \in requests
    /\ ~ ended
    /\ r.token = current
    /\ current < MaxToken
    /\ previous' = Remembered
    /\ current' = current + 1
    /\ grace' = TRUE
    /\ Answered(r, 200, current + 1)
    /\ UNCHANGED <<ended, cookie, locks, lock, asks, held, failed>>

refresh_grace(r) ==
    /\ r \in requests
    /\ ~ ended
    /\ r.token = previous
    /\ grace
    /\ Answered(r, 200, Keep)
    /\ UNCHANGED <<serverVars, cookie, locks, lock, asks, held, failed>>

\* Replayed after the grace: the session ends.
refresh_reuse(r) ==
    /\ r \in requests
    /\ ~ ended
    /\ r.token = previous
    /\ ~ grace
    /\ ended' = TRUE
    /\ Answered(r, 401, 0)
    /\ UNCHANGED <<current, previous, grace, cookie, locks, lock, asks, held, failed>>

\* Ended, or a token that is neither of the two.  The cookie is cleared.
refresh_refused(r) ==
    /\ r \in requests
    /\ ended \/ r.token \notin {current, previous}
    /\ Answered(r, 401, 0)
    /\ UNCHANGED <<serverVars, cookie, locks, lock, asks, held, failed>>

\* A query fails, or there is no connection to be had.  The cookie is cleared.
refresh_failed(r) ==
    /\ r \in requests
    /\ Answered(r, 500, 0)
    /\ failed' = TRUE
    /\ UNCHANGED <<serverVars, cookie, locks, lock, asks, held>>

\* REFRESH_GRACE has passed.
grace_over ==
    /\ grace
    /\ grace' = FALSE
    /\ UNCHANGED <<current, previous, ended, cookie, locks, lock, requests, answers, asks,
                   held, given, failed>>

\* Signed out elsewhere, or expired.
end_session ==
    /\ ~ ended
    /\ ended' = TRUE
    /\ UNCHANGED <<current, previous, grace, cookie, locks, lock, requests, answers, asks,
                   held, given, failed>>

Serve(r) ==
    \/ refresh_rotated(r) \/ refresh_grace(r) \/ refresh_reuse(r) \/ refresh_refused(r)
    \/ refresh_failed(r)

Next ==
    \/ \E t \in Tabs : refreshAccessToken(t) \/ left(t)
    \/ \E a \in answers : answered(a)
    \/ \E k \in Tokens : copy(k)
    \/ \E r \in requests : Serve(r)
    \/ grace_over
    \/ end_session

Spec == Init /\ [][Next]_vars

-----------------------------------------------------------------------------
(* What makes refreshing correct.                                          *)

\* A copy went on: it rotated a token that it had been given and the browser
\* never had.  What the browser has is then older than the two tokens the server
\* remembers, and is refused without ending the session.
Overtaken == \E k \in given : k < current

\* Until a copy goes on past it, the browser never holds a token its session has
\* forgotten, whatever is lost and whoever presents a copy once: a tab that asks
\* again within the grace gets its access token.
CookieKnown == cookie # 0 /\ ~ ended /\ ~ Overtaken => cookie \in {current, previous}

\* The session's two tokens and the browser's belong together.
TokensInv == TypeOK /\ CookieKnown

\* Where tabs take turns, the cookie is cleared only once "there is nothing left
\* to keep": never while its session lives, so a refresh that came to nothing
\* costs nobody a sign-in.  A failing database clears it all the same, and so
\* does a copy that goes on refreshing.
ClearedOnlyEnded == cookie = 0 /\ locks /\ ~ failed /\ ~ Overtaken => ended
=============================================================================

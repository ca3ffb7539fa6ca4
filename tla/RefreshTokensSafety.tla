------------------------- MODULE RefreshTokensSafety -------------------------
(***************************************************************************)
(* A browser's tabs and the server agree on the session's refresh token,   *)
(* proved for any number of tabs, copies, rotations and requests.  What    *)
(* keeps the browser's token one of the two the server remembers is that a *)
(* token can only be presented once the browser, or a copy of it, has had  *)
(* it: while the answer with the newest is on its way, nobody can rotate   *)
(* past it.  Only a copy that was given the newest can, and that is what   *)
(* Overtaken says.  Where tabs take turns, the one that holds the lock     *)
(* presents the browser's own cookie.                                      *)
(***************************************************************************)
EXTENDS RefreshTokens, TLAPS

Shapes ==
    /\ requests \subseteq [tab : Tabs \cup {NoTab, Copy}, token : Tokens, nth : Nat]
    /\ answers \subseteq [tab : Tabs, nth : Nat, status : {200, 401, 500}, set : Tokens \cup {Keep}]

\* Nobody presents a newer token than the session's.  The session's own is
\* presented while the browser has it, or lost its cookie, or by a copy that was
\* given it.
PresentedHad ==
    \A r \in requests :
        /\ r.token <= current
        /\ r.token = current =>
              \/ cookie \in {0, current} /\ current \notin given
              \/ r.tab = Copy /\ current \in given

\* What the browser has had is the session's token only if it still has it, or
\* lost its cookie; and never the one a copy was given.
HeldHad ==
    /\ current \in held => cookie \in {0, current} /\ current \notin given
    /\ cookie # 0 => cookie \in held

\* An answer brings no cookie but the session's token, and that one alone:
\* neither the browser nor a copy of it has had it yet.
AnswersNew ==
    \A a \in answers :
        /\ a.set \in {0, Keep, current}
        /\ a.set = current =>
              /\ current \notin held \cup given
              /\ \A r \in requests : r.token < current
              /\ \A b \in answers : b.set = current => b = a

\* The browser's token is the session's or the one before, ended or not, until a
\* copy goes on past it.
CookieInv == cookie # 0 /\ ~ Overtaken => cookie \in {current, previous}

\* With Web Locks, one tab at a time has a request or an answer under way, and
\* its request carries the cookie the browser still has.
TakingTurns ==
    locks =>
        /\ \A r \in requests : r.tab \in Tabs =>
              /\ lock = r.tab
              /\ r.token = cookie
              /\ cookie # 0
              /\ answers = {}
              /\ \A q \in requests : q.tab \in Tabs => q = r
        /\ \A a \in answers :
              /\ lock = a.tab
              /\ answers = {a}

\* Then only a session that is over, a failing database, or a copy that went on,
\* clears the cookie.
ClearingOver ==
    locks /\ ~ failed /\ ~ Overtaken =>
        /\ cookie = 0 => ended
        /\ \A a \in answers : a.set = 0 => ended

RefreshInv ==
    TypeOK /\ Shapes /\ PresentedHad /\ HeldHad /\ AnswersNew /\ CookieInv /\ TakingTurns
    /\ ClearingOver
-----------------------------------------------------------------------------
\* Every step of the tabs, the server and the clock keeps the invariant.
LEMMA RefreshStep == RefreshInv /\ [Next]_vars => RefreshInv'
<1> SUFFICES ASSUME RefreshInv, [Next]_vars PROVE RefreshInv'
  OBVIOUS
<1> USE TokensAssumption DEF RefreshInv, TypeOK, Shapes, Tokens, Keep, serverVars
<1>1. ASSUME NEW t \in Tabs, refreshAccessToken(t) PROVE RefreshInv'
  <2>1. TypeOK' /\ Shapes'
    BY <1>1 DEF refreshAccessToken, CanAsk, Request
  <2>2. PresentedHad' /\ HeldHad' /\ AnswersNew'
    BY <1>1 DEF refreshAccessToken, CanAsk, Request, PresentedHad, HeldHad, AnswersNew
  <2>3. CookieInv'
    BY <1>1 DEF refreshAccessToken, CanAsk, Request, CookieInv, Overtaken
  <2>4. TakingTurns'
    BY <1>1 DEF refreshAccessToken, CanAsk, Request, TakingTurns, Asking
  <2>5. ClearingOver'
    BY <1>1 DEF refreshAccessToken, CanAsk, Request, ClearingOver, Overtaken
  <2> QED BY <2>1, <2>2, <2>3, <2>4, <2>5
<1>2. ASSUME NEW t \in Tabs, left(t) PROVE RefreshInv'
  <2>1. TypeOK' /\ Shapes'
    BY <1>2 DEF left, Release
  <2>2. PresentedHad' /\ HeldHad' /\ AnswersNew'
    BY <1>2 DEF left, Release, PresentedHad, HeldHad, AnswersNew
  <2>3. CookieInv'
    BY <1>2 DEF left, Release, CookieInv, Overtaken
  <2>4. TakingTurns'
    BY <1>2 DEF left, Release, TakingTurns
  <2>5. ClearingOver'
    BY <1>2 DEF left, Release, ClearingOver, Overtaken
  <2> QED BY <2>1, <2>2, <2>3, <2>4, <2>5
<1>3. ASSUME NEW a \in answers, answered(a) PROVE RefreshInv'
  <2> DEFINE set == IF a.set = Keep THEN cookie ELSE a.set
  <2>a. /\ UNCHANGED <<current, requests, given>>
        /\ answers' = answers \ {a}
        /\ cookie' = set
        /\ held' = held \cup ({set} \ {0})
    BY <1>3 DEF answered
  <2>b. set \in {0, cookie, current} /\ set \in 0 .. current
    BY DEF AnswersNew
  <2>c. set = current => cookie = current \/ a.set = current
    OBVIOUS
  <2>1. TypeOK' /\ Shapes'
    <3> HIDE DEF set
    <3>1. held' \subseteq 1 .. current
      <4>1. held \subseteq 1 .. current /\ current \in Nat
        OBVIOUS
      <4>2. ASSUME NEW k \in held' PROVE k \in 1 .. current
        <5>1. k \in held \/ (k = set /\ k # 0)
          BY <2>a, <4>2
        <5>2. CASE k \in held
          BY <4>1, <5>2
        <5>3. CASE k = set /\ k # 0
          <6>1. k \in 0 .. current /\ k # 0
            BY <2>b, <5>3
          <6> HIDE DEF RefreshInv, TypeOK, Shapes
          <6> QED BY <4>1, <6>1
        <5> QED BY <5>1, <5>2, <5>3
      <4> QED BY <4>2
    <3>2. lock' \in Tabs \cup {NoTab}
      BY <1>3 DEF answered, Release
    <3>3. UNCHANGED <<previous, grace, ended, locks, asks, failed>>
      BY <1>3 DEF answered
    <3>4. grace' \in BOOLEAN /\ ended' \in BOOLEAN /\ locks' \in BOOLEAN /\ failed' \in BOOLEAN
      <4>1. grace \in BOOLEAN /\ ended \in BOOLEAN /\ locks \in BOOLEAN /\ failed \in BOOLEAN
        BY DEF TypeOK
      <4> QED BY <3>3, <4>1
    <3> QED BY <2>a, <2>b, <3>1, <3>2, <3>3, <3>4
  <2>2. PresentedHad' /\ HeldHad' /\ AnswersNew'
    <3>1. current \notin given \/ set # current
      BY <2>c DEF AnswersNew, HeldHad
    <3>2. PresentedHad'
      <4>1. cookie \in {0, current} => set \in {0, current}
        BY <2>b
      <4> QED BY <2>a, <4>1 DEF PresentedHad
    <3>3. HeldHad'
      <4>1. cookie \in {0, current} => set \in {0, current}
        BY <2>b
      <4> QED BY <2>a, <2>b, <3>1, <4>1 DEF HeldHad
    <3>4. AnswersNew'
      <4> SUFFICES ASSUME NEW b \in answers \ {a}
                   PROVE  /\ b.set \in {0, Keep, current}
                          /\ b.set = current =>
                                /\ current \notin held' \cup given
                                /\ \A r \in requests : r.token < current
                                /\ \A c \in answers \ {a} : c.set = current => c = b
        BY <2>a DEF AnswersNew
      <4>1. b.set = current => a.set # current /\ cookie # current
        BY DEF AnswersNew, HeldHad
      <4>2. b.set = current => set # current
        BY <2>c, <4>1
      <4> QED BY <2>a, <4>2 DEF AnswersNew
    <3> QED BY <3>2, <3>3, <3>4
  <2>3. CookieInv'
    BY <1>3 DEF answered, Release, CookieInv, AnswersNew, Overtaken
  <2>4. TakingTurns'
    BY <1>3 DEF answered, Release, TakingTurns
  <2>5. ClearingOver'
    BY <1>3 DEF answered, Release, ClearingOver, Overtaken
  <2> QED BY <2>1, <2>2, <2>3, <2>4, <2>5
<1>4. ASSUME NEW k \in Tokens, copy(k) PROVE RefreshInv'
  <2>1. TypeOK' /\ Shapes'
    BY <1>4 DEF copy, Request
  <2>2. PresentedHad' /\ HeldHad' /\ AnswersNew'
    BY <1>4 DEF copy, Request, PresentedHad, HeldHad, AnswersNew
  <2>3. CookieInv'
    BY <1>4 DEF copy, Request, CookieInv, Overtaken
  <2>4. TakingTurns'
    BY <1>4 DEF copy, Request, TakingTurns
  <2>5. ClearingOver'
    BY <1>4 DEF copy, Request, ClearingOver, Overtaken
  <2> QED BY <2>1, <2>2, <2>3, <2>4, <2>5
<1>5. ASSUME NEW r \in requests, refresh_rotated(r) PROVE RefreshInv'
  <2>1. TypeOK' /\ Shapes'
    BY <1>5 DEF refresh_rotated, Answered, Answer, Remembered
  <2>2. PresentedHad' /\ HeldHad' /\ AnswersNew'
    BY <1>5 DEF refresh_rotated, Answered, Answer, Remembered, PresentedHad, HeldHad, AnswersNew
  <2>3. CookieInv'
    BY <1>5 DEF refresh_rotated, Answered, Answer, Remembered, CookieInv, PresentedHad, Overtaken
  <2>4. TakingTurns'
    BY <1>5 DEF refresh_rotated, Answered, Answer, Remembered, TakingTurns
  <2>5. ClearingOver'
    BY <1>5 DEF refresh_rotated, Answered, Answer, Remembered, ClearingOver, AnswersNew, Overtaken
  <2> QED BY <2>1, <2>2, <2>3, <2>4, <2>5
<1>6. ASSUME NEW r \in requests, refresh_grace(r) PROVE RefreshInv'
  <2>1. TypeOK' /\ Shapes'
    BY <1>6 DEF refresh_grace, Answered, Answer
  <2>2. PresentedHad' /\ HeldHad' /\ AnswersNew'
    BY <1>6 DEF refresh_grace, Answered, Answer, PresentedHad, HeldHad, AnswersNew
  <2>3. CookieInv'
    BY <1>6 DEF refresh_grace, Answered, Answer, CookieInv, Overtaken
  <2>4. TakingTurns'
    BY <1>6 DEF refresh_grace, Answered, Answer, TakingTurns
  <2>5. ClearingOver'
    BY <1>6 DEF refresh_grace, Answered, Answer, ClearingOver, Overtaken
  <2> QED BY <2>1, <2>2, <2>3, <2>4, <2>5
<1>7. ASSUME NEW r \in requests, refresh_reuse(r) PROVE RefreshInv'
  <2>1. TypeOK' /\ Shapes'
    BY <1>7 DEF refresh_reuse, Answered, Answer
  <2>2. PresentedHad' /\ HeldHad' /\ AnswersNew'
    BY <1>7 DEF refresh_reuse, Answered, Answer, PresentedHad, HeldHad, AnswersNew
  <2>3. CookieInv'
    BY <1>7 DEF refresh_reuse, Answered, Answer, CookieInv, Overtaken
  <2>4. TakingTurns'
    BY <1>7 DEF refresh_reuse, Answered, Answer, TakingTurns
  <2>5. ClearingOver'
    BY <1>7 DEF refresh_reuse, Answered, Answer, ClearingOver, Overtaken
  <2> QED BY <2>1, <2>2, <2>3, <2>4, <2>5
<1>8. ASSUME NEW r \in requests, refresh_refused(r) PROVE RefreshInv'
  <2>1. TypeOK' /\ Shapes'
    BY <1>8 DEF refresh_refused, Answered, Answer
  <2>2. PresentedHad' /\ HeldHad' /\ AnswersNew'
    BY <1>8 DEF refresh_refused, Answered, Answer, PresentedHad, HeldHad, AnswersNew
  <2>3. CookieInv'
    BY <1>8 DEF refresh_refused, Answered, Answer, CookieInv, Overtaken
  <2>4. TakingTurns'
    BY <1>8 DEF refresh_refused, Answered, Answer, TakingTurns
  <2>5. ClearingOver'
    BY <1>8 DEF refresh_refused, Answered, Answer, ClearingOver, TakingTurns, CookieInv, Overtaken
  <2> QED BY <2>1, <2>2, <2>3, <2>4, <2>5
<1>9. ASSUME NEW r \in requests, refresh_failed(r) PROVE RefreshInv'
  <2>1. TypeOK' /\ Shapes'
    BY <1>9 DEF refresh_failed, Answered, Answer
  <2>2. PresentedHad' /\ HeldHad' /\ AnswersNew'
    BY <1>9 DEF refresh_failed, Answered, Answer, PresentedHad, HeldHad, AnswersNew
  <2>3. CookieInv'
    BY <1>9 DEF refresh_failed, Answered, Answer, CookieInv, Overtaken
  <2>4. TakingTurns'
    BY <1>9 DEF refresh_failed, Answered, Answer, TakingTurns
  <2>5. ClearingOver'
    BY <1>9 DEF refresh_failed, Answered, Answer, ClearingOver, Overtaken
  <2> QED BY <2>1, <2>2, <2>3, <2>4, <2>5
<1>10. CASE grace_over \/ end_session \/ UNCHANGED vars
  <2>1. UNCHANGED <<current, previous, cookie, locks, lock, requests, answers, asks, held, given, failed>>
    BY <1>10 DEF grace_over, end_session, vars
  <2>2. grace' \in BOOLEAN /\ ended' \in BOOLEAN /\ (ended => ended')
    <3>1. grace \in BOOLEAN /\ ended \in BOOLEAN
      BY DEF TypeOK
    <3>2. CASE grace_over
      <4>1. grace' = FALSE /\ ended' = ended
        BY <3>2 DEF grace_over
      <4> QED BY <3>1, <4>1
    <3>3. CASE end_session
      <4>1. ended' = TRUE /\ grace' = grace
        BY <3>3 DEF end_session
      <4> QED BY <3>1, <4>1
    <3>4. CASE UNCHANGED vars
      <4>1. ended' = ended /\ grace' = grace
        BY <3>4 DEF vars
      <4> QED BY <3>1, <4>1
    <3> QED BY <1>10, <3>2, <3>3, <3>4
  <2>3. TypeOK' /\ Shapes'
    BY <2>1, <2>2
  <2> QED
    BY <2>1, <2>2, <2>3 DEF PresentedHad, HeldHad, AnswersNew, CookieInv, TakingTurns, ClearingOver, Overtaken
<1> QED
  BY <1>1, <1>2, <1>3, <1>4, <1>5, <1>6, <1>7, <1>8, <1>9, <1>10 DEF Next, Serve

\* The browser starts with the session's only token and nothing under way.
LEMMA RefreshStart == Init => RefreshInv
<1> SUFFICES ASSUME Init PROVE RefreshInv
  OBVIOUS
<1> USE TokensAssumption DEF Init, Tokens, Keep
<1>1. TypeOK
  <2>1. grace \in BOOLEAN /\ ended \in BOOLEAN /\ locks \in BOOLEAN /\ failed \in BOOLEAN
    BY Zenon
  <2>2. current \in Tokens \ {0} /\ previous \in 0 .. current - 1 /\ cookie \in 0 .. current
    OBVIOUS
  <2>3. held \subseteq 1 .. current /\ given \subseteq 1 .. current
    OBVIOUS
  <2>4. lock \in Tabs \cup {NoTab} /\ asks \in 0 .. MaxAsks /\ requests = {} /\ answers = {}
    OBVIOUS
  <2> QED BY <2>1, <2>2, <2>3, <2>4 DEF TypeOK
<1>2. requests = {} /\ answers = {} /\ cookie = current /\ held = {current} /\ given = {}
  OBVIOUS
<1>3. Shapes /\ PresentedHad /\ HeldHad /\ AnswersNew /\ TakingTurns
  BY <1>2 DEF Shapes, PresentedHad, HeldHad, AnswersNew, TakingTurns
<1>4. CookieInv /\ ClearingOver
  BY <1>2 DEF CookieInv, ClearingOver, Overtaken
<1> QED BY <1>1, <1>3, <1>4 DEF RefreshInv

\* In every instance the state is typed, and the browser never holds a token its
\* session has forgotten (sessions::refresh's two hashes).
THEOREM RefreshTokensKnown == Spec => []TokensInv
<1>1. RefreshInv => TokensInv
  BY DEF RefreshInv, TokensInv, CookieInv, CookieKnown
<1> QED BY <1>1, RefreshStart, RefreshStep, PTL DEF Spec

\* Tabs that take turns (the kutup-refresh lock of client.ts) never clear the
\* cookie of a session that lives, unless the database failed a refresh.
THEOREM RefreshClearsOnlyEnded == Spec => []ClearedOnlyEnded
<1>1. RefreshInv => ClearedOnlyEnded
  BY DEF RefreshInv, ClearingOver, ClearedOnlyEnded
<1> QED BY <1>1, RefreshStart, RefreshStep, PTL DEF Spec
=============================================================================

------------------------ MODULE AccountSessionsSafety ------------------------
(***************************************************************************)
(* The safety of sign-ins, proved for any sessions, changers and budgets:  *)
(* no session a client holds stands on a password the account no longer    *)
(* has, what was ended stays so, and grants are used under the password    *)
(* they were issued for.                                                   *)
(*                                                                         *)
(* A password change fixes the sessions it ends when its UPDATE starts and *)
(* ends them when it commits.  The inductive invariant says what holds in  *)
(* between: every sign-in a client holds is among those, revoked, or kept, *)
(* since a sign-in is only answered while nobody holds the account; a fork *)
(* stands or falls with the sign-in it comes from.                         *)
(***************************************************************************)
EXTENDS AccountSessions, TLAPS

Purposes == {"none", "rotate", "passwordChange", "recovery"}
Steps == {"none", "read", "started", "proved", "preauth", "allowed", "created", "stale", "over"}
AnyGrant == [session : Sessions \cup {None}, purpose : Purposes, record : Records]
AnyLogin == [session : Sessions, purpose : {"session", "reauth"}, record : Records]
AnyChange == [step : {"none", "asked", "taken", "updated", "revoking"}, grant : AnyGrant,
              rows : SUBSET Sessions, logins : SUBSET AnyLogin]

\* The shape of every variable, fuller than TypeOK says it.
Shapes ==
    /\ record \in Records
    /\ active \in BOOLEAN
    /\ retired \in BOOLEAN
    /\ password \in [Records -> Records]
    /\ logins \subseteq AnyLogin
    /\ signIn \in [Sessions -> [step : Steps, epoch : Records]]
    /\ rows \subseteq Sessions
    /\ parent \in [Sessions -> Sessions \cup {None}]
    /\ proved \in [Sessions -> Records]
    /\ consuming \in [Sessions -> Sessions \cup {None}]
    /\ grants \subseteq AnyGrant
    /\ change \in [Changers -> AnyChange]
    /\ ending \in [target : Sessions \cup {None}, rows : SUBSET Sessions]
    /\ disabling \in [step : {"none", "disabled", "revoking"}, before : SUBSET Sessions,
                      rows : SUBSET Sessions]
    /\ left \in [changes : 0 .. MaxChanges, forks : Nat, ends : Nat, disables : Nat]
    /\ record + left.changes <= MaxChanges

\* A sign-in has no session before it is created, and stands on the password it
\* proved until it is answered.
SignInsInv ==
    \A s \in Sessions :
        /\ signIn[s].epoch <= record
        /\ signIn[s].step \in {"read", "started", "proved", "preauth", "allowed"} => s \notin rows
        /\ signIn[s].step = "created" => s \in rows \ told /\ proved[s] = password[signIn[s].epoch]
        /\ signIn[s].step = "stale" => s \in rows

\* What was ended is revoked.
RowsInv ==
    /\ told \subseteq rows
    /\ revoked \subseteq rows
    /\ ended \subseteq revoked
    /\ barred \subseteq revoked

\* A fork's parent is a sign-in somebody holds, and the fork stands on the same
\* password.
IsRoot(s) == s \in told /\ parent[s] = None

ForksInv ==
    /\ \A s \in forks : IsRoot(s)
    /\ \A s \in Sessions :
          /\ parent[s] # None => s \in told /\ IsRoot(parent[s]) /\ proved[s] = proved[parent[s]]
          /\ consuming[s] # None => s \notin rows /\ At(s, "none") /\ IsRoot(consuming[s])

\* A grant, or a sign-in on the way to one, is of a session somebody holds.
HeldInv ==
    /\ \A l \in logins : l.purpose = "reauth" => l.session \in told
    /\ \A g \in grants :
          /\ g.purpose # "none"
          /\ g.purpose = "recovery" => g.session = None
          /\ g.purpose # "recovery" => g.session \in told

\* A change has its grant to itself, and the account from its UPDATE on; while
\* it ends the account's sessions no other change has a grant.
ChangesInv ==
    /\ \A c \in Changers :
          /\ change[c].step # "none" =>
                /\ change[c].grant.record <= record
                /\ change[c].grant.record = record => left.changes > 0
          /\ change[c].step \in {"taken", "updated", "revoking"} => change[c].grant \in grants
          /\ change[c].rows \subseteq rows
    /\ \A c, e \in Changers : c # e =>
          /\ change[c].step \in {"taken", "updated"} /\ change[e].step \in {"taken", "updated"}
                => change[c].grant # change[e].grant
          /\ change[c].step \in {"updated", "revoking"} => change[e].step \notin {"updated", "revoking"}
          /\ change[c].step = "revoking" => change[e].step \in {"none", "asked"}

\* Every sign-in a client holds ends with the change, or is kept by it.
RevokingInv ==
    \A c \in Changers : change[c].step = "revoking" =>
        \A s \in told :
            parent[s] = None => s \in change[c].rows \cup revoked \cup Kept(change[c].grant)

\* A sign-in somebody holds stands on the account's password until it is revoked.
RootsStand ==
    \A s \in told \ revoked : parent[s] = None => proved[s] = password[record]

\* A request that ends sessions has them fixed.
EndsInv ==
    /\ ending.rows \subseteq rows
    /\ ending.target # None => ending.target \in ending.rows \cup revoked
    /\ ending.target = None => ending = NoEnding
    /\ disabling.rows \subseteq rows
    /\ disabling.before \subseteq told
    /\ disabling.step = "revoking" => disabling.before \subseteq disabling.rows \cup revoked

SessionsInv ==
    /\ Shapes /\ SignInsInv /\ RowsInv /\ ForksInv /\ HeldInv /\ GrantsCurrent
    /\ ChangesInv /\ RevokingInv /\ RootsStand /\ EndsInv
-----------------------------------------------------------------------------
(* What a change in the making keeps.                                      *)

\* What a change keeps only grows while sessions are added.
LEMMA KeptGrows ==
    ASSUME NEW g, g.purpose # "recovery" => g.session \in rows,
           rows \subseteq rows', \A s \in rows : parent'[s] = parent[s]
    PROVE  Kept(g) \subseteq Kept(g)'
<1>1. CASE g.purpose \notin {"recovery", "rotate"}
  <2>1. Kept(g) = Tree(Root(g.session)) /\ Kept(g)' = Tree(Root(g.session))'
    BY <1>1 DEF Kept
  <2>2. Root(g.session)' = Root(g.session)
    BY <1>1 DEF Root
  <2> QED BY <2>1, <2>2 DEF Tree
<1>2. CASE g.purpose \in {"recovery", "rotate"}
  BY <1>2 DEF Kept
<1> QED BY <1>1, <1>2

\* A step under which no sign-in starts to be held, while changes stand still.
LEMMA RevokingStands ==
    ASSUME SessionsInv, UNCHANGED change, revoked \subseteq revoked',
           rows \subseteq rows', \A s \in rows : parent'[s] = parent[s],
           \A s \in told' : parent'[s] = None => s \in told /\ parent[s] = None
    PROVE  RevokingInv'
<1> SUFFICES ASSUME NEW c \in Changers, change[c].step = "revoking",
                    NEW s \in told', parent'[s] = None
             PROVE  s \in change[c].rows \cup revoked' \cup Kept(change[c].grant)'
  BY DEF RevokingInv
<1>1. s \in change[c].rows \cup revoked \cup Kept(change[c].grant)
  BY DEF SessionsInv, RevokingInv
<1>2. change[c].grant.purpose # "recovery" => change[c].grant.session \in rows
  BY DEF SessionsInv, ChangesInv, HeldInv, RowsInv
<1>3. Kept(change[c].grant) \subseteq Kept(change[c].grant)'
  BY <1>2, KeptGrows
<1> QED BY <1>1, <1>3
-----------------------------------------------------------------------------
(* Signing in.                                                             *)

\* A sign-in takes one step; the others stay where they are.
LEMMA Stepped ==
    ASSUME Shapes, NEW s \in Sessions, NEW step \in Steps, To(s, step)
    PROVE  /\ signIn' \in [Sessions -> [step : Steps, epoch : Records]]
           /\ signIn'[s].step = step /\ signIn'[s].epoch = signIn[s].epoch
           /\ \A t \in Sessions : t # s => signIn'[t] = signIn[t]
<1>1. signIn \in [Sessions -> [step : Steps, epoch : Records]]
  BY DEF Shapes
<1>2. signIn' = [signIn EXCEPT ![s].step = step]
  BY DEF To
<1>3. [signIn[s] EXCEPT !.step = step] \in [step : Steps, epoch : Records]
  BY <1>1
<1> QED BY <1>1, <1>2, <1>3

\* The steps of a sign-in that touch no session.
LEMMA SignInMoves ==
    ASSUME SessionsInv, NEW s \in Sessions,
           \/ login_start(s) \/ login_started(s) \/ login_finish(s) \/ signed_in_answer(s)
           \/ issue_after_second_step(s) \/ issue_refused(s) \/ sign_in_lost(s)
    PROVE  SessionsInv'
<1> USE SessionsAssumption DEF SessionsInv
<1>1. UNCHANGED <<accountVars, sessionVars, forkVars, endVars, change, left, grants>>
  BY DEF login_start, login_started, login_finish, signed_in_answer, issue_after_second_step,
         issue_refused, sign_in_lost, Untouched
<1>2. /\ signIn' \in [Sessions -> [step : Steps, epoch : Records]]
      /\ signIn'[s].epoch <= record
      /\ \A t \in Sessions : t # s => signIn'[t] = signIn[t]
      /\ signIn'[s].step # "created" /\ ~ At(s, "none")'
      /\ signIn'[s].step = "stale" => At(s, "created")
      /\ signIn'[s].step \in {"read", "started", "proved", "preauth", "allowed"} => s \notin rows
      /\ At(s, "none") => consuming[s] = None
  <2>1. CASE login_start(s)
    <3>1. signIn' = [signIn EXCEPT ![s] = [step |-> "read", epoch |-> record]]
          /\ s \notin rows /\ consuming[s] = None /\ At(s, "none")
      BY <2>1 DEF login_start
    <3>2. [step |-> "read", epoch |-> record] \in [step : Steps, epoch : Records]
      BY DEF Shapes, Steps
    <3>3. record <= record
      BY DEF Shapes, Records
    <3> QED BY <3>1, <3>2, <3>3 DEF Shapes, At
  <2>2. CASE \/ login_started(s) \/ login_finish(s) \/ signed_in_answer(s)
             \/ issue_after_second_step(s) \/ issue_refused(s) \/ sign_in_lost(s)
    <3>1. PICK step \in {"started", "proved", "preauth", "allowed", "stale", "over"} : To(s, step)
      BY <2>2 DEF login_started, login_finish, signed_in_answer, issue_after_second_step,
                  issue_refused, sign_in_lost
    <3>2. ~ At(s, "none") /\ (step = "stale" => At(s, "created"))
      <4>1. step = "stale" => At(s, "created")
        <5>1. ASSUME ~ issue_refused(s) PROVE ~ To(s, "stale")
          <6>1. \/ To(s, "started") \/ To(s, "proved") \/ To(s, "preauth")
                \/ To(s, "allowed") \/ To(s, "over")
            BY <2>2, <5>1 DEF login_started, login_finish, signed_in_answer,
                              issue_after_second_step, sign_in_lost
          <6> QED BY <6>1, Stepped DEF Steps
        <5> QED BY <3>1, <5>1 DEF issue_refused
      <4> QED BY <2>2, <4>1 DEF At, login_started, login_finish, signed_in_answer,
                                issue_after_second_step, issue_refused, sign_in_lost
    <3>3. step \in {"started", "proved", "preauth", "allowed"} => s \notin rows
      <4>1. ASSUME step \in {"started", "proved", "preauth", "allowed"}
            PROVE  At(s, "read") \/ At(s, "started") \/ At(s, "proved") \/ At(s, "preauth")
        <5>1. ~ To(s, "stale") /\ ~ To(s, "over")
          BY <3>1, <4>1, Stepped DEF Steps
        <5> QED BY <2>2, <5>1 DEF login_started, login_finish, signed_in_answer,
                                  issue_after_second_step, issue_refused, sign_in_lost
      <4> QED BY <4>1 DEF SignInsInv, At
    <3>4. signIn[s].epoch <= record
      BY DEF SignInsInv
    <3> QED BY <3>1, <3>2, <3>3, <3>4, Stepped DEF At, Steps
  <2> QED BY <2>1, <2>2
<1>3. logins' \subseteq AnyLogin /\ \A l \in logins' : l \in logins \/ l.purpose # "reauth"
  <2>1. Login(s, "session", signIn[s].epoch) \in AnyLogin
        /\ Login(s, "session", signIn[s].epoch).purpose # "reauth"
    BY DEF Login, AnyLogin, Shapes
  <2> QED BY <2>1 DEF login_start, login_started, login_finish, signed_in_answer,
         issue_after_second_step, issue_refused, sign_in_lost, Shapes
<1>4. Shapes'
  BY <1>1, <1>2, <1>3 DEF Shapes, accountVars, sessionVars, forkVars, endVars
<1>5. SignInsInv'
  BY <1>1, <1>2 DEF SignInsInv, At, accountVars, sessionVars
<1>6. ForksInv'
  <2>1. \A t \in Sessions : consuming[t] # None => At(t, "none")'
    BY <1>2 DEF ForksInv, At
  <2> QED BY <1>1, <2>1 DEF ForksInv, IsRoot, sessionVars, forkVars
<1>7. HeldInv'
  BY <1>1, <1>3 DEF HeldInv, sessionVars
<1>8. RevokingInv'
  BY <1>1, RevokingStands DEF sessionVars
<1>9. RowsInv' /\ GrantsCurrent' /\ ChangesInv' /\ RootsStand' /\ EndsInv'
  BY <1>1 DEF RowsInv, GrantsCurrent, ChangesInv, RootsStand, EndsInv, accountVars,
     sessionVars, endVars
<1> QED BY <1>4, <1>5, <1>6, <1>7, <1>8, <1>9

\* The new session is nobody's parent, and no client holds it.
LEMMA CreateKeeps ==
    ASSUME SessionsInv, NEW s \in Sessions, create(s)
    PROVE  SessionsInv'
<1> USE SessionsAssumption DEF SessionsInv
<1>1. /\ UNCHANGED <<accountVars, logins, revoked, parent, told, grants, forkVars, endVars,
                     change, left>>
      /\ rows' = rows \cup {s}
      /\ proved' = [proved EXCEPT ![s] = password[signIn[s].epoch]]
      /\ signIn' = [signIn EXCEPT ![s].step = "created"]
      /\ signIn[s].step = "allowed"
  BY DEF create, At, To, Untouched
<1>2. s \notin rows /\ s \notin told /\ parent[s] = None /\ consuming[s] = None
  BY <1>1 DEF SignInsInv, RowsInv, ForksInv, At
<1>3. /\ proved' \in [Sessions -> Records]
      /\ proved'[s] = password[signIn[s].epoch]
      /\ \A t \in Sessions : t # s => proved'[t] = proved[t]
  BY <1>1 DEF Shapes
<1>4. /\ signIn' \in [Sessions -> [step : Steps, epoch : Records]]
      /\ signIn'[s].step = "created" /\ signIn'[s].epoch = signIn[s].epoch
      /\ \A t \in Sessions : t # s => signIn'[t] = signIn[t]
  BY <1>1 DEF Shapes, Steps
<1>5. Shapes'
  BY <1>1, <1>3, <1>4 DEF Shapes, accountVars, forkVars, endVars
<1>6. SignInsInv'
  <2> SUFFICES ASSUME NEW t \in Sessions
               PROVE  /\ signIn'[t].epoch <= record
                      /\ signIn'[t].step \in {"read", "started", "proved", "preauth", "allowed"} => t \notin rows'
                      /\ signIn'[t].step = "created" => t \in rows' \ told /\ proved'[t] = password[signIn'[t].epoch]
                      /\ signIn'[t].step = "stale" => t \in rows'
    BY <1>1 DEF SignInsInv, accountVars
  <2>1. CASE t = s
    BY <1>1, <1>2, <1>3, <1>4, <2>1 DEF SignInsInv
  <2>2. CASE t # s
    BY <1>1, <1>3, <1>4, <2>2 DEF SignInsInv
  <2> QED BY <2>1, <2>2
<1>7. RowsInv'
  BY <1>1 DEF RowsInv, endVars
<1>8. ForksInv'
  <2>1. \A t \in Sessions : IsRoot(t)' <=> IsRoot(t)
    BY <1>1 DEF IsRoot
  <2>2. ASSUME NEW t \in Sessions, parent[t] # None
        PROVE  t \in told /\ parent[t] \in Sessions /\ IsRoot(parent[t]) /\ proved'[t] = proved'[parent[t]]
    <3>1. t \in told /\ IsRoot(parent[t]) /\ proved[t] = proved[parent[t]] /\ parent[t] \in Sessions
      BY <2>2 DEF ForksInv, Shapes
    <3>2. t # s /\ parent[t] # s
      BY <1>2, <3>1 DEF IsRoot
    <3> QED BY <1>3, <3>1, <3>2
  <2>3. ASSUME NEW t \in Sessions, consuming[t] # None
        PROVE  t \notin rows' /\ At(t, "none")' /\ IsRoot(consuming[t])
    <3>1. t # s
      BY <1>2, <2>3
    <3> QED BY <1>1, <1>4, <2>3, <3>1 DEF ForksInv, At
  <2>4. \A t \in Sessions : IsRoot(consuming[t])' <=> IsRoot(consuming[t])
    BY <1>1 DEF IsRoot, forkVars
  <2>5. \A t \in Sessions : IsRoot(parent[t])' <=> IsRoot(parent[t])
    BY <1>1 DEF IsRoot
  <2> QED BY <1>1, <2>1, <2>2, <2>3, <2>4, <2>5 DEF ForksInv, forkVars, IsRoot
<1>9. HeldInv' /\ GrantsCurrent' /\ ChangesInv' /\ EndsInv'
  BY <1>1 DEF HeldInv, GrantsCurrent, ChangesInv, EndsInv, accountVars, endVars
<1>10. RevokingInv'
  BY <1>1, RevokingStands
<1>11. RootsStand'
  BY <1>1, <1>2, <1>3 DEF RootsStand, RowsInv, Shapes, accountVars
<1> QED BY <1>5, <1>6, <1>7, <1>8, <1>9, <1>10, <1>11

\* A session is answered while nobody changes the password, and stands on it.
LEMMA IssueKeeps ==
    ASSUME SessionsInv, NEW s \in Sessions, issue_tokens(s)
    PROVE  SessionsInv'
<1> USE SessionsAssumption DEF SessionsInv
<1> DEFINE g == Grant(s, "rotate")
<1>1. /\ UNCHANGED <<accountVars, logins, rows, revoked, parent, proved, forkVars, endVars,
                     change, left>>
      /\ told' = told \cup {s}
      /\ signIn' = [signIn EXCEPT ![s].step = "over"]
      /\ signIn[s].step = "created" /\ record = signIn[s].epoch
      /\ \A c \in Changers : change[c].step # "revoking"
      /\ grants' = grants \/ grants' = grants \cup {g}
  BY DEF issue_tokens, At, To, Untouched, credential_held, AccountFree
<1>2. s \in rows /\ s \notin told /\ proved[s] = password[record] /\ consuming[s] = None /\ parent[s] = None
  BY <1>1 DEF SignInsInv, ForksInv, At
<1>3. g \in AnyGrant /\ g.session = s /\ g.purpose = "rotate" /\ g.record = record
  BY DEF Grant, AnyGrant, Purposes, Shapes
<1> HIDE DEF g
<1>4. /\ signIn' \in [Sessions -> [step : Steps, epoch : Records]]
      /\ signIn'[s].step = "over" /\ signIn'[s].epoch = signIn[s].epoch
      /\ \A t \in Sessions : t # s => signIn'[t] = signIn[t]
  BY <1>1 DEF Shapes, Steps
<1>5. Shapes'
  BY <1>1, <1>3, <1>4 DEF Shapes, accountVars, forkVars, endVars
<1>6. SignInsInv'
  BY <1>1, <1>4 DEF SignInsInv, accountVars
<1>7. RowsInv' /\ EndsInv'
  BY <1>1, <1>2 DEF RowsInv, EndsInv, endVars
<1>8. ForksInv'
  BY <1>1, <1>2, <1>4 DEF ForksInv, IsRoot, At, forkVars
<1>9. HeldInv' /\ GrantsCurrent' /\ ChangesInv'
  BY <1>1, <1>3 DEF HeldInv, GrantsCurrent, ChangesInv, accountVars
<1>10. RevokingInv'
  BY <1>1 DEF RevokingInv
<1>11. RootsStand'
  BY <1>1, <1>2 DEF RootsStand, accountVars
<1> QED BY <1>5, <1>6, <1>7, <1>8, <1>9, <1>10, <1>11

LEMMA IssueRevokeKeeps ==
    ASSUME SessionsInv, NEW s \in Sessions, issue_revoke(s)
    PROVE  SessionsInv'
<1> USE SessionsAssumption DEF SessionsInv
<1>1. /\ UNCHANGED <<accountVars, logins, rows, parent, told, proved, grants, forkVars,
                     endVars, change, left>>
      /\ revoked' = revoked \cup {s}
      /\ signIn' = [signIn EXCEPT ![s].step = "over"]
      /\ signIn[s].step = "stale"
  BY DEF issue_revoke, At, To, Untouched
<1>2. s \in rows /\ consuming[s] = None
  BY <1>1 DEF SignInsInv, ForksInv, At
<1>3. /\ signIn' \in [Sessions -> [step : Steps, epoch : Records]]
      /\ signIn'[s].step = "over" /\ signIn'[s].epoch = signIn[s].epoch
      /\ \A t \in Sessions : t # s => signIn'[t] = signIn[t]
  BY <1>1 DEF Shapes, Steps
<1>4. Shapes'
  BY <1>1, <1>3 DEF Shapes, accountVars, forkVars, endVars
<1>5. SignInsInv' /\ RowsInv'
  BY <1>1, <1>2, <1>3 DEF SignInsInv, RowsInv, accountVars, endVars
<1>6. ForksInv'
  BY <1>1, <1>2, <1>3 DEF ForksInv, IsRoot, At, forkVars
<1>7. HeldInv' /\ GrantsCurrent' /\ ChangesInv' /\ RootsStand' /\ EndsInv'
  BY <1>1 DEF HeldInv, GrantsCurrent, ChangesInv, RootsStand, EndsInv, accountVars, endVars
<1>8. RevokingInv'
  BY <1>1, RevokingStands
<1> QED BY <1>4, <1>5, <1>6, <1>7, <1>8
-----------------------------------------------------------------------------
(* Forks and grants.                                                       *)

\* A hand-off made, used up or given back.
LEMMA HandOffKeeps ==
    ASSUME SessionsInv, NEW s \in Sessions,
           create_fork(s) \/ consume_lost(s) \/ \E p \in Sessions : consume_fork(s, p)
    PROVE  SessionsInv'
<1> USE SessionsAssumption DEF SessionsInv
<1>1. UNCHANGED <<accountVars, logins, signIn, sessionVars, grants, change, endVars>>
  BY DEF create_fork, consume_lost, consume_fork
<1>2. /\ \A p \in forks' : p \in forks \/ IsRoot(p)
      /\ consuming' \in [Sessions -> Sessions \cup {None}]
      /\ \A t \in Sessions :
            \/ consuming'[t] \in {consuming[t], None}
            \/ t \notin rows /\ At(t, "none") /\ consuming'[t] \in forks
      /\ left'.changes = left.changes
      /\ left' \in [changes : 0 .. MaxChanges, forks : Nat, ends : Nat, disables : Nat]
  <2>1. CASE create_fork(s)
    <3>1. left' = [left EXCEPT !.forks = @ - 1] /\ left.forks > 0 /\ UNCHANGED consuming
          /\ forks' = forks \cup {s} /\ IsRoot(s)
      BY <2>1 DEF create_fork, IsRoot
    <3>2. left.forks \in Nat
      BY DEF Shapes
    <3>3. left' \in [changes : 0 .. MaxChanges, forks : Nat, ends : Nat, disables : Nat]
          /\ left'.changes = left.changes
      BY <3>1, <3>2 DEF Shapes
    <3> QED BY <3>1, <3>3 DEF Shapes
  <2>2. CASE consume_lost(s)
    BY <2>2 DEF consume_lost, Shapes, ForksInv
  <2>3. CASE \E p \in Sessions : consume_fork(s, p)
    BY <2>3 DEF consume_fork, Shapes
  <2> QED BY <2>1, <2>2, <2>3
<1>3. Shapes'
  BY <1>1, <1>2 DEF Shapes, accountVars, sessionVars, endVars
<1>4. ForksInv'
  BY <1>1, <1>2 DEF ForksInv, IsRoot, At, sessionVars
<1>5. RevokingInv'
  BY <1>1, RevokingStands DEF sessionVars
<1>6. ChangesInv'
  BY <1>1, <1>2 DEF ChangesInv, accountVars, sessionVars
<1>7. SignInsInv' /\ RowsInv' /\ HeldInv' /\ GrantsCurrent' /\ RootsStand' /\ EndsInv'
  BY <1>1 DEF SignInsInv, RowsInv, HeldInv, GrantsCurrent, RootsStand, EndsInv,
              accountVars, sessionVars, endVars
<1> QED BY <1>3, <1>4, <1>5, <1>6, <1>7

\* A forked session stands on what its sign-in does.
LEMMA ConsumeKeeps ==
    ASSUME SessionsInv, NEW s \in Sessions, consume_commit(s)
    PROVE  SessionsInv'
<1> USE SessionsAssumption DEF SessionsInv
<1> DEFINE p == consuming[s]
<1>1. /\ UNCHANGED <<accountVars, logins, signIn, revoked, forks, grants, change, endVars, left>>
      /\ p # None
      /\ consuming' = [consuming EXCEPT ![s] = None]
      /\ rows' = rows \cup {s} /\ told' = told \cup {s}
      /\ parent' = [parent EXCEPT ![s] = p]
      /\ proved' = [proved EXCEPT ![s] = proved[p]]
  BY DEF consume_commit
<1>2. /\ s \notin rows /\ s \notin told /\ At(s, "none") /\ parent[s] = None
      /\ p \in told /\ p \in Sessions /\ parent[p] = None /\ p # s
  BY <1>1 DEF ForksInv, RowsInv, IsRoot, Shapes
<1> HIDE DEF p
<1>3. /\ parent'[s] = p /\ proved'[s] = proved[p] /\ consuming'[s] = None
      /\ \A t \in Sessions : t # s => parent'[t] = parent[t] /\ proved'[t] = proved[t]
                                      /\ consuming'[t] = consuming[t]
      /\ parent' \in [Sessions -> Sessions \cup {None}]
      /\ consuming' \in [Sessions -> Sessions \cup {None}]
      /\ proved' \in [Sessions -> Records]
  BY <1>1, <1>2 DEF Shapes
<1>4. Shapes'
  BY <1>1, <1>3 DEF Shapes, accountVars, endVars
<1>5. SignInsInv'
  <2>1. signIn[s].step = "none"
    BY <1>2 DEF At
  <2> QED BY <1>1, <1>3, <2>1 DEF SignInsInv, accountVars
<1>6. RowsInv' /\ EndsInv'
  BY <1>1 DEF RowsInv, EndsInv, endVars
<1>7. ForksInv'
  <2>1. ASSUME NEW t \in Sessions, IsRoot(t) PROVE t # s /\ t \in told' /\ parent'[t] = None
    BY <1>1, <1>2, <1>3, <2>1 DEF IsRoot
  <2>2. ASSUME NEW t \in forks' PROVE IsRoot(t)'
    <3>1. IsRoot(t) /\ t \in Sessions
      BY <1>1, <2>2 DEF ForksInv, IsRoot, RowsInv, Shapes
    <3> QED BY <2>1, <3>1 DEF IsRoot
  <2>3. ASSUME NEW t \in Sessions, parent'[t] # None
        PROVE  t \in told' /\ parent'[t] \in told' /\ parent'[parent'[t]] = None
               /\ proved'[t] = proved'[parent'[t]]
    <3>1. CASE t = s
      BY <1>1, <1>2, <1>3, <3>1
    <3>2. CASE t # s
      <4>1. parent'[t] = parent[t] /\ proved'[t] = proved[t] /\ parent[t] \in Sessions
        BY <1>3, <2>3, <3>2 DEF Shapes
      <4>2. t \in told /\ IsRoot(parent[t]) /\ proved[t] = proved[parent[t]]
        BY <2>3, <4>1 DEF ForksInv
      <4>3. parent[t] # s
        BY <2>1, <4>1, <4>2
      <4> QED BY <1>1, <1>3, <2>1, <4>1, <4>2, <4>3
    <3> QED BY <3>1, <3>2
  <2>4. ASSUME NEW t \in Sessions, consuming'[t] # None
        PROVE  t \notin rows' /\ At(t, "none")' /\ consuming'[t] \in told' /\ parent'[consuming'[t]] = None
    <3>1. t # s /\ consuming'[t] = consuming[t] /\ consuming[t] \in Sessions
      BY <1>3, <2>4 DEF Shapes
    <3>2. t \notin rows /\ At(t, "none") /\ IsRoot(consuming[t])
      BY <2>4, <3>1 DEF ForksInv
    <3> QED BY <1>1, <2>1, <3>1, <3>2 DEF At
  <2> QED BY <2>2, <2>3, <2>4 DEF ForksInv, IsRoot
<1>8. HeldInv' /\ GrantsCurrent' /\ ChangesInv'
  BY <1>1 DEF HeldInv, GrantsCurrent, ChangesInv, accountVars
<1>9. RevokingInv'
  <2>1. \A t \in rows : parent'[t] = parent[t]
    BY <1>2, <1>3 DEF Shapes
  <2>2. \A t \in told' : parent'[t] = None => t \in told /\ parent[t] = None
    BY <1>1, <1>3, <2>1 DEF RowsInv
  <2> QED BY <1>1, <2>1, <2>2, RevokingStands
<1>10. RootsStand'
  <2>1. \A t \in told : t \in Sessions /\ t # s
    BY <1>2 DEF RowsInv, Shapes
  <2> QED BY <1>1, <1>3, <2>1 DEF RootsStand, accountVars
<1> QED BY <1>4, <1>5, <1>6, <1>7, <1>8, <1>9, <1>10

\* A password proved again, and the grants.
LEMMA GrantKeeps ==
    ASSUME SessionsInv,
           \/ recover_grant
           \/ \E s \in Sessions : Reauth(s)
    PROVE  SessionsInv'
<1> USE SessionsAssumption DEF SessionsInv
<1>1. UNCHANGED <<accountVars, signIn, sessionVars, forkVars, endVars, change, left>>
  BY DEF recover_grant, Reauth, reauth_start, reauth_finish, Untouched
<1> DEFINE LoginsHeld == \A l \in logins' : l \in logins \/ (l \in AnyLogin /\ l.session \in told)
           GrantsHeld == \A g \in grants' : g \in grants \/
                            /\ g \in AnyGrant /\ g.record = record
                            /\ \/ g.purpose = "recovery" /\ g.session = None
                               \/ g.purpose = "passwordChange" /\ g.session \in told
<1>2. LoginsHeld /\ GrantsHeld /\ grants \subseteq grants'
  <2>1. CASE recover_grant
    <3>1. /\ Grant(None, "recovery") \in AnyGrant /\ Grant(None, "recovery").record = record
          /\ Grant(None, "recovery").purpose = "recovery" /\ Grant(None, "recovery").session = None
      BY DEF Grant, AnyGrant, Purposes, Shapes
    <3> QED BY <2>1, <3>1 DEF recover_grant
  <2>2. ASSUME NEW s \in Sessions, reauth_start(s) PROVE LoginsHeld /\ UNCHANGED grants
    <3>1. Login(s, "reauth", record) \in AnyLogin /\ Login(s, "reauth", record).session = s
      BY DEF Login, AnyLogin, Shapes
    <3> QED BY <2>2, <3>1 DEF reauth_start
  <2>3. ASSUME NEW s \in Sessions, NEW l \in logins, reauth_finish(s, l)
        PROVE  logins' \subseteq logins /\ GrantsHeld /\ grants \subseteq grants'
    <3>1. /\ Grant(s, "passwordChange") \in AnyGrant /\ Grant(s, "passwordChange").record = record
          /\ Grant(s, "passwordChange").purpose = "passwordChange" /\ Grant(s, "passwordChange").session = s
      BY DEF Grant, AnyGrant, Purposes, Shapes
    <3>2. s \in told
      BY <2>3 DEF reauth_finish, HeldInv
    <3> QED BY <2>3, <3>1, <3>2 DEF reauth_finish
  <2> QED BY <2>1, <2>2, <2>3 DEF Reauth
<1>3. Shapes'
  BY <1>1, <1>2 DEF Shapes, accountVars, sessionVars, forkVars, endVars
<1>4. HeldInv'
  BY <1>1, <1>2 DEF HeldInv, sessionVars
<1>5. GrantsCurrent'
  BY <1>1, <1>2 DEF GrantsCurrent, accountVars
<1>6. ChangesInv'
  BY <1>1, <1>2 DEF ChangesInv, accountVars, sessionVars
<1>7. RevokingInv'
  BY <1>1, RevokingStands DEF sessionVars
<1>8. SignInsInv' /\ RowsInv' /\ ForksInv' /\ RootsStand' /\ EndsInv'
  BY <1>1 DEF SignInsInv, RowsInv, ForksInv, IsRoot, At, RootsStand, EndsInv,
              accountVars, sessionVars, forkVars, endVars
<1> QED BY <1>3, <1>4, <1>5, <1>6, <1>7, <1>8
-----------------------------------------------------------------------------
(* The password changed.                                                   *)

\* Before it commits a change touches nothing but itself.
LEMMA ChangeFrame ==
    ASSUME SessionsInv,
           UNCHANGED <<accountVars, logins, revoked, proved, grants, left>>, Changeless,
           change' \in [Changers -> AnyChange], ChangesInv', RevokingInv'
    PROVE  SessionsInv'
<1> USE DEF SessionsInv
<1>1. Shapes'
  BY DEF Shapes, Changeless, accountVars, forkVars, endVars
<1>2. SignInsInv' /\ RowsInv' /\ ForksInv'
  BY DEF SignInsInv, RowsInv, ForksInv, IsRoot, At, Changeless, accountVars, forkVars, endVars
<1>3. HeldInv' /\ GrantsCurrent' /\ RootsStand' /\ EndsInv'
  BY DEF HeldInv, GrantsCurrent, RootsStand, EndsInv, Changeless, accountVars, endVars
<1> QED BY <1>1, <1>2, <1>3

\* One change is somewhere else, and it is not ending sessions yet.
LEMMA ChangeStep ==
    ASSUME SessionsInv, NEW c \in Changers, NEW new \in AnyChange,
           change' = [change EXCEPT ![c] = new], new.step # "revoking",
           UNCHANGED <<accountVars, logins, revoked, proved, grants, left>>, Changeless, ChangesInv'
    PROVE  SessionsInv'
<1>1. change' \in [Changers -> AnyChange] /\ change'[c] = new
      /\ \A e \in Changers : e # c => change'[e] = change[e]
  BY DEF SessionsInv, Shapes
<1>2. RevokingInv'
  <2> SUFFICES ASSUME NEW e \in Changers, change'[e].step = "revoking",
                      NEW s \in told', parent'[s] = None
               PROVE  s \in change'[e].rows \cup revoked' \cup Kept(change[e].grant)'
    BY DEF RevokingInv
  <2>1. e # c /\ change'[e] = change[e] /\ s \in told /\ parent[s] = None
    BY <1>1 DEF Changeless
  <2>2. s \in change[e].rows \cup revoked \cup Kept(change[e].grant)
    BY <2>1 DEF SessionsInv, RevokingInv
  <2>3. Kept(change[e].grant)' = Kept(change[e].grant)
    BY <2>1 DEF Kept, Tree, Root, Changeless
  <2> QED BY <2>1, <2>2, <2>3
<1> QED BY <1>1, <1>2, ChangeFrame

LEMMA NoChangeType == NoChange \in AnyChange /\ NoChange.step = "none" /\ NoChange.rows = {}
BY SessionsAssumption DEF NoChange, AnyChange, AnyGrant, Purposes, Records

LEMMA FinishKeeps ==
    ASSUME SessionsInv, NEW c \in Changers, NEW g \in grants, register_finish(c, g)
    PROVE  SessionsInv'
<1> USE SessionsAssumption DEF SessionsInv
<1> DEFINE new == [NoChange EXCEPT !.step = "asked", !.grant = g]
<1>1. new \in AnyChange /\ new.step = "asked" /\ new.rows = {} /\ new.grant = g
  BY NoChangeType DEF NoChange, AnyChange, Shapes
<1>2. /\ change' = [change EXCEPT ![c] = new] /\ left.changes > 0
      /\ UNCHANGED <<accountVars, logins, revoked, proved, grants, left>> /\ Changeless
  BY DEF register_finish
<1> HIDE DEF new
<1>3. change'[c] = new /\ \A e \in Changers : e # c => change'[e] = change[e]
  BY <1>2 DEF Shapes
<1>4. g.record = record /\ record \in Nat
  BY DEF GrantsCurrent, Shapes, Records
<1>5. ChangesInv'
  BY <1>1, <1>2, <1>3, <1>4 DEF ChangesInv, Changeless, accountVars
<1> QED BY <1>1, <1>2, <1>5, ChangeStep

\* A change that goes to another step keeps what it fixed.
LEMMA ChangeSteps ==
    \A e \in AnyChange, step \in {"none", "asked", "taken", "updated", "revoking"} :
        /\ [e EXCEPT !.step = step] \in AnyChange
        /\ [e EXCEPT !.step = step].step = step
        /\ [e EXCEPT !.step = step].grant = e.grant
        /\ [e EXCEPT !.step = step].rows = e.rows
BY DEF AnyChange

\* The grant is used, or was used already and the request is over.
LEMMA TakeKeeps ==
    ASSUME SessionsInv, NEW c \in Changers, take(c)
    PROVE  SessionsInv'
<1> USE SessionsAssumption DEF SessionsInv
<1> DEFINE new == [change[c] EXCEPT !.step = IF change[c].grant \in grants THEN "taken" ELSE "none"]
<1>1. /\ new \in AnyChange /\ new.grant = change[c].grant /\ new.rows = change[c].rows
      /\ new.step = IF change[c].grant \in grants THEN "taken" ELSE "none"
  <2>1. (IF change[c].grant \in grants THEN "taken" ELSE "none")
            \in {"none", "asked", "taken", "updated", "revoking"}
    OBVIOUS
  <2>2. change[c] \in AnyChange
    BY DEF Shapes
  <2> QED BY <2>1, <2>2, ChangeSteps
<1>2. /\ change' = [change EXCEPT ![c] = new] /\ change[c].step = "asked" /\ ~ Taken(change[c].grant)
      /\ UNCHANGED <<accountVars, logins, revoked, proved, grants, left>> /\ Changeless
  BY DEF take, Changing
<1> HIDE DEF new
<1>3. change'[c] = new /\ \A e \in Changers : e # c => change'[e] = change[e]
  BY <1>2 DEF Shapes
<1>4. ChangesInv'
  BY <1>1, <1>2, <1>3 DEF ChangesInv, Taken, Changeless, accountVars
<1> QED BY <1>1, <1>2, <1>4, ChangeStep

LEMMA UpdateKeeps ==
    ASSUME SessionsInv, NEW c \in Changers, register_update(c)
    PROVE  SessionsInv'
<1> USE SessionsAssumption DEF SessionsInv
<1> DEFINE new == IF active /\ (change[c].grant.purpose = "rotate" => retired)
                  THEN [change[c] EXCEPT !.step = "updated"] ELSE NoChange
<1>1. /\ new \in AnyChange
      /\ \/ new.step = "none" /\ new.rows = {}
         \/ new.step = "updated" /\ new.grant = change[c].grant /\ new.rows = change[c].rows
  <2>1. /\ [change[c] EXCEPT !.step = "updated"] \in AnyChange
        /\ [change[c] EXCEPT !.step = "updated"].step = "updated"
        /\ [change[c] EXCEPT !.step = "updated"].grant = change[c].grant
        /\ [change[c] EXCEPT !.step = "updated"].rows = change[c].rows
    BY ChangeSteps DEF Shapes
  <2> QED BY <2>1, NoChangeType
<1>2. /\ change' = [change EXCEPT ![c] = new] /\ change[c].step = "taken" /\ AccountFree
      /\ UNCHANGED <<accountVars, logins, revoked, proved, grants, left>> /\ Changeless
  BY DEF register_update
<1> HIDE DEF new
<1>3. change'[c] = new /\ \A e \in Changers : e # c => change'[e] = change[e]
  BY <1>2 DEF Shapes
<1>4. ChangesInv'
  BY <1>1, <1>2, <1>3 DEF ChangesInv, AccountFree, Changeless, accountVars
<1> QED BY <1>1, <1>2, <1>4, ChangeStep

LEMMA AbortKeeps ==
    ASSUME SessionsInv, NEW c \in Changers, register_abort(c)
    PROVE  SessionsInv'
<1> USE SessionsAssumption DEF SessionsInv
<1>1. /\ change' = [change EXCEPT ![c] = NoChange]
      /\ UNCHANGED <<accountVars, logins, revoked, proved, grants, left>> /\ Changeless
  BY DEF register_abort
<1>2. change'[c] = NoChange /\ \A e \in Changers : e # c => change'[e] = change[e]
  BY <1>1 DEF Shapes
<1>3. ChangesInv'
  BY <1>1, <1>2, NoChangeType DEF ChangesInv, Changeless, accountVars
<1> QED BY <1>1, <1>3, ChangeStep, NoChangeType

\* No other change has a grant by then, and all that is not kept is to end.
LEMMA RevokeKeeps ==
    ASSUME SessionsInv, NEW c \in Changers, register_revoke(c)
    PROVE  SessionsInv'
<1> USE SessionsAssumption DEF SessionsInv
<1> DEFINE g == change[c].grant
           ends == rows \ (revoked \cup Kept(g))
           new == [change[c] EXCEPT !.step = "revoking", !.logins = logins, !.rows = ends]
<1>1. new \in AnyChange /\ new.grant = g /\ new.step = "revoking" /\ new.rows = ends
  <2>1. ends \in SUBSET Sessions
    BY DEF Shapes
  <2>2. change[c] \in AnyChange /\ logins \subseteq AnyLogin
    BY DEF Shapes
  <2> HIDE DEF ends
  <2> QED BY <2>1, <2>2 DEF AnyChange
<1>2. /\ change' = [change EXCEPT ![c] = new] /\ change[c].step = "updated"
      /\ \A h \in grants : Taken(h) => g = h
      /\ UNCHANGED <<accountVars, logins, revoked, proved, grants, left>> /\ Changeless
  BY DEF register_revoke, Shapes, AnyChange
<1> HIDE DEF new
<1>3. /\ change'[c] = new /\ \A e \in Changers : e # c => change'[e] = change[e]
      /\ change' \in [Changers -> AnyChange]
  BY <1>1, <1>2 DEF Shapes
<1>4. ASSUME NEW e \in Changers, e # c PROVE change[e].step \in {"none", "asked"}
  <2>1. change[e].step \in {"none", "asked", "taken", "updated", "revoking"}
    BY DEF Shapes, AnyChange
  <2>2. change[e].step \notin {"updated", "revoking"}
    BY <1>2, <1>4 DEF ChangesInv
  <2>3. change[e].step # "taken"
    <3> SUFFICES ASSUME change[e].step = "taken" PROVE FALSE
      OBVIOUS
    <3>1. change[e].grant \in grants /\ Taken(change[e].grant)
      BY DEF ChangesInv, Taken
    <3>2. change[e].grant = g
      BY <1>2, <3>1
    <3> QED BY <1>2, <1>4, <3>2 DEF ChangesInv
  <2> QED BY <2>1, <2>2, <2>3
<1>5. ChangesInv'
  BY <1>1, <1>2, <1>3, <1>4 DEF ChangesInv, Changeless, accountVars
<1>6. RevokingInv'
  <2> SUFFICES ASSUME NEW e \in Changers, change'[e].step = "revoking",
                      NEW s \in told', parent'[s] = None
               PROVE  s \in change'[e].rows \cup revoked' \cup Kept(change[e].grant)'
    BY DEF RevokingInv
  <2>1. e = c
    BY <1>3, <1>4
  <2>2. change'[e].grant = g /\ change'[e].rows = rows \ (revoked \cup Kept(g))
    BY <1>1, <1>3, <2>1
  <2>3. Kept(change[e].grant)' = Kept(g)
    <3>1. rows' = rows /\ parent' = parent
      BY <1>2 DEF Changeless
    <3>2. \A t : Tree(t)' = Tree(t) /\ Root(t)' = Root(t)
      BY <3>1 DEF Tree, Root
    <3> QED BY <2>2, <3>1, <3>2 DEF Kept
  <2>4. s \in rows /\ revoked' = revoked
    BY <1>2 DEF Changeless, RowsInv
  <2> QED BY <2>2, <2>3, <2>4
<1> QED BY <1>2, <1>3, <1>5, <1>6, ChangeFrame

\* The commit: what is still held and not revoked is the tree that changed the
\* password, or anything when the password stays what it was.
LEMMA CommitKeeps ==
    ASSUME SessionsInv, NEW c \in Changers, register_commit(c)
    PROVE  SessionsInv'
<1> USE SessionsAssumption DEF SessionsInv
<1> DEFINE g == change[c].grant
           new == IF g.purpose = "rotate" THEN password[g.record] ELSE record + 1
           kept == g.purpose = "passwordChange"
           tree == Tree(Root(g.session))
<1>1. /\ change[c].step = "revoking"
      /\ record' = record + 1
      /\ password' = [password EXCEPT ![record + 1] = new]
      /\ proved' = [s \in Sessions |-> IF kept /\ s \in tree THEN new ELSE proved[s]]
      /\ retired' = FALSE /\ active' = active
      /\ revoked' = revoked \cup change[c].rows
      /\ logins' = logins \ change[c].logins
      /\ grants' = {}
      /\ change' = [change EXCEPT ![c] = NoChange]
      /\ left' = [left EXCEPT !.changes = @ - 1]
      /\ Changeless
  BY DEF register_commit, end_all
<1>2. /\ g \in grants /\ g.record = record /\ left.changes > 0
      /\ g.purpose # "recovery" => g.session \in told
      /\ g \in AnyGrant
  BY <1>1 DEF ChangesInv, GrantsCurrent, HeldInv, Shapes
<1>3. /\ record \in Nat /\ record + 1 \in Records /\ record + 1 # record
      /\ left' \in [changes : 0 .. MaxChanges, forks : Nat, ends : Nat, disables : Nat]
      /\ record' + left'.changes <= MaxChanges
  <2>1. record \in Nat /\ left.changes \in 0 .. MaxChanges /\ record + left.changes <= MaxChanges
    BY DEF Shapes, Records
  <2>2. left'.changes = left.changes - 1 /\ left.changes - 1 \in 0 .. MaxChanges
    BY <1>1, <1>2, <2>1 DEF Shapes
  <2>3. left' \in [changes : 0 .. MaxChanges, forks : Nat, ends : Nat, disables : Nat]
    BY <1>1, <2>2 DEF Shapes
  <2> QED BY <1>1, <1>2, <2>1, <2>2, <2>3 DEF Records
<1>4. new \in Records
  BY <1>2, <1>3 DEF Shapes
<1>5. /\ password' \in [Records -> Records] /\ password'[record'] = new
      /\ \A r \in Records : r # record + 1 => password'[r] = password[r]
  BY <1>1, <1>3, <1>4 DEF Shapes
<1>6. g.purpose = "rotate" => new = password[record]
  BY <1>2
<1>7. /\ proved' \in [Sessions -> Records]
      /\ \A s \in Sessions : proved'[s] = IF kept /\ s \in tree THEN new ELSE proved[s]
  BY <1>1, <1>4 DEF Shapes
<1> HIDE DEF new
<1>8. change'[c] = NoChange /\ \A e \in Changers : e # c => change'[e] = change[e]
  BY <1>1 DEF Shapes
<1>9. Shapes'
  <2>1. change' \in [Changers -> AnyChange]
    BY <1>1, NoChangeType DEF Shapes
  <2>2. logins' \subseteq AnyLogin /\ grants' \subseteq AnyGrant
    BY <1>1 DEF Shapes
  <2>3. active' \in BOOLEAN /\ retired' \in BOOLEAN
    BY <1>1 DEF Shapes
  <2> QED BY <1>1, <1>3, <1>5, <1>7, <2>1, <2>2, <2>3 DEF Shapes, Changeless, forkVars, endVars
\* The tree is a sign-in somebody holds and what was forked from it.
<1>10. kept => IsRoot(Root(g.session))
  BY <1>2 DEF Root, IsRoot, ForksInv, RowsInv, Shapes
<1>11. ASSUME NEW s \in Sessions, parent[s] # None
       PROVE  kept => (s \in tree <=> parent[s] \in tree)
  <2> SUFFICES ASSUME kept PROVE s \in tree <=> parent[s] \in tree
    OBVIOUS
  <2>1. s \in told /\ IsRoot(parent[s]) /\ s \in rows /\ parent[s] \in rows
    BY <1>11 DEF ForksInv, RowsInv, IsRoot
  <2>2. s # Root(g.session) /\ Root(g.session) # None
    BY <1>10, <1>11 DEF IsRoot, RowsInv, Shapes
  <2> QED BY <2>1, <2>2 DEF Tree, IsRoot
<1>12. SignInsInv'
  <2> SUFFICES ASSUME NEW s \in Sessions
               PROVE  /\ signIn[s].epoch <= record + 1
                      /\ signIn[s].step = "created" =>
                            s \in rows \ told /\ proved'[s] = password'[signIn[s].epoch]
    BY <1>1 DEF SignInsInv, Changeless
  <2>1. signIn[s].epoch \in Records /\ signIn[s].epoch <= record
    BY DEF Shapes, SignInsInv
  <2>2. signIn[s].epoch <= record + 1 /\ signIn[s].epoch # record + 1
    BY <1>3, <2>1 DEF Records
  <2>3. ASSUME signIn[s].step = "created"
        PROVE  s \in rows \ told /\ proved'[s] = password'[signIn[s].epoch]
    <3>1. s \in rows \ told /\ proved[s] = password[signIn[s].epoch]
      BY <2>3 DEF SignInsInv
    <3>2. ~ (kept /\ s \in tree)
      BY <1>10, <3>1 DEF Tree, IsRoot, ForksInv, RowsInv, Shapes
    <3> QED BY <1>5, <1>7, <2>1, <2>2, <3>1, <3>2
  <2> QED BY <2>2, <2>3
<1>13. RowsInv'
  BY <1>1 DEF RowsInv, ChangesInv, Changeless, endVars
<1>14. ForksInv'
  <2>1. \A s \in Sessions : parent[s] # None => proved'[s] = proved'[parent[s]]
    <3> SUFFICES ASSUME NEW s \in Sessions, parent[s] # None PROVE proved'[s] = proved'[parent[s]]
      OBVIOUS
    <3>1. proved[s] = proved[parent[s]] /\ parent[s] \in Sessions
      BY DEF ForksInv, Shapes
    <3>2. kept => (s \in tree <=> parent[s] \in tree)
      BY <1>11
    <3> HIDE DEF kept, tree
    <3> QED BY <1>7, <3>1, <3>2
  <2> QED BY <1>1, <2>1 DEF ForksInv, IsRoot, At, Changeless, forkVars
<1>15. HeldInv' /\ GrantsCurrent'
  BY <1>1 DEF HeldInv, GrantsCurrent, Changeless
<1>16. \A e \in Changers : e # c => change[e].step \in {"none", "asked"}
  BY <1>1 DEF ChangesInv
<1>17. ChangesInv'
  <2>1. ASSUME NEW e \in Changers, e # c, change[e].step # "none"
        PROVE  change[e].grant.record <= record + 1 /\ change[e].grant.record # record + 1
    <3>1. change[e].grant.record <= record
      BY <2>1 DEF ChangesInv
    <3>2. change[e].grant.record \in Nat
      <4>1. change[e] \in AnyChange
        BY DEF Shapes
      <4> QED BY <4>1 DEF AnyChange, AnyGrant, Records
    <3> QED BY <1>3, <3>1, <3>2
  <2> QED BY <1>1, <1>8, <1>16, <2>1, NoChangeType DEF ChangesInv, Changeless
<1>18. RevokingInv'
  BY <1>8, <1>16, NoChangeType DEF RevokingInv
<1>19. RootsStand'
  <2> SUFFICES ASSUME NEW s \in told, s \notin revoked', parent[s] = None
               PROVE  proved'[s] = new
    BY <1>1, <1>5 DEF RootsStand, Changeless
  <2>1. s \in Sessions /\ s \in Kept(g) /\ s \notin revoked /\ proved[s] = password[record]
    BY <1>1 DEF RevokingInv, RootsStand, RowsInv, Shapes
  <2>2. CASE g.purpose = "rotate"
    BY <1>6, <1>7, <2>1, <2>2
  <2>3. CASE g.purpose = "recovery"
    BY <2>1, <2>3 DEF Kept
  <2>4. CASE kept
    <3>1. s \in tree
      BY <2>1, <2>4 DEF Kept
    <3> QED BY <1>7, <2>1, <2>4, <3>1
  <2>5. g.purpose # "none"
    BY <1>2 DEF HeldInv
  <2> QED BY <1>2, <2>2, <2>3, <2>4, <2>5 DEF AnyGrant, Purposes
<1>20. EndsInv'
  BY <1>1 DEF EndsInv, Changeless, endVars
<1> QED BY <1>9, <1>12, <1>13, <1>14, <1>15, <1>17, <1>18, <1>19, <1>20
-----------------------------------------------------------------------------
(* Sessions ended, and the account disabled.                               *)

\* Sessions are only fixed to be ended, or the account's row is written.
LEMMA EndMoves ==
    ASSUME SessionsInv,
           \/ \E s \in Sessions : sign_out(s) \/ \E t \in Sessions : revoke_owned(s, t)
           \/ update_user_disable \/ revoke_all_for_user \/ update_user_lost \/ update_user_enable
    PROVE  SessionsInv'
<1> USE SessionsAssumption DEF SessionsInv
<1>1. UNCHANGED <<record, retired, password, logins, signIn, sessionVars, forkVars, grants, change,
                  ended, barred>>
  BY DEF sign_out, revoke_owned, Ending, update_user_disable, revoke_all_for_user, update_user_lost,
         update_user_enable, accountVars, endVars
<1>2. /\ left' \in [changes : 0 .. MaxChanges, forks : Nat, ends : Nat, disables : Nat]
      /\ left'.changes = left.changes
  <2>1. \/ UNCHANGED left
        \/ left' = [left EXCEPT !.ends = @ - 1] /\ left.ends > 0
        \/ left' = [left EXCEPT !.disables = @ - 1] /\ left.disables > 0
    BY DEF sign_out, revoke_owned, Ending, update_user_disable, revoke_all_for_user,
           update_user_lost, update_user_enable
  <2>2. left.ends \in Nat /\ left.disables \in Nat
    BY DEF Shapes
  <2>3. CASE UNCHANGED left
    BY <2>3 DEF Shapes
  <2>4. CASE left' = [left EXCEPT !.ends = @ - 1] /\ left.ends > 0
    BY <2>2, <2>4 DEF Shapes
  <2>5. CASE left' = [left EXCEPT !.disables = @ - 1] /\ left.disables > 0
    BY <2>2, <2>5 DEF Shapes
  <2> QED BY <2>1, <2>3, <2>4, <2>5
<1>3. active' \in BOOLEAN
  BY DEF sign_out, revoke_owned, Ending, update_user_disable, revoke_all_for_user, update_user_lost,
         update_user_enable, accountVars, Shapes
<1> DEFINE Fixed ==
             /\ ending' \in [target : Sessions \cup {None}, rows : SUBSET Sessions]
             /\ disabling' \in [step : {"none", "disabled", "revoking"}, before : SUBSET Sessions,
                                rows : SUBSET Sessions]
             /\ EndsInv'
<1>4. Fixed
  <2>1. ASSUME NEW t \in rows, Ending(t) PROVE Fixed
    <3>1. /\ ending' = [target |-> t, rows |-> Tree(t) \ revoked]
          /\ UNCHANGED <<rows, told, revoked, disabling>>
      BY <2>1 DEF Ending, sessionVars
    <3>2. Tree(t) \subseteq rows /\ t \in Tree(t) /\ t \in Sessions /\ t # None
      BY DEF Tree, Shapes
    <3> QED BY <3>1, <3>2 DEF EndsInv, Shapes
  <2>2. ASSUME NEW s \in Sessions, sign_out(s) PROVE Root(s) \in rows /\ Ending(Root(s))
    BY <2>2 DEF sign_out, Root, RowsInv, ForksInv, IsRoot
  <2>3. CASE update_user_disable
    <3>1. disabling' = [step |-> "disabled", before |-> told, rows |-> {}] /\ UNCHANGED <<rows, told, revoked, ending>>
      BY <2>3 DEF update_user_disable, sessionVars
    <3> QED BY <3>1 DEF EndsInv, Shapes, RowsInv
  <2>4. CASE revoke_all_for_user
    <3>1. /\ disabling' = [disabling EXCEPT !.step = "revoking", !.rows = rows \ revoked]
          /\ UNCHANGED <<rows, told, revoked, ending>>
      BY <2>4 DEF revoke_all_for_user, sessionVars
    <3>2. /\ disabling'.step = "revoking" /\ disabling'.rows = rows \ revoked
          /\ disabling'.before = disabling.before
          /\ disabling' \in [step : {"none", "disabled", "revoking"}, before : SUBSET Sessions,
                             rows : SUBSET Sessions]
      BY <3>1 DEF Shapes
    <3> QED BY <3>1, <3>2 DEF EndsInv, Shapes, RowsInv
  <2>5. CASE update_user_lost
    <3>1. disabling' = NoDisabling /\ UNCHANGED <<rows, told, revoked, ending>>
      BY <2>5 DEF update_user_lost, sessionVars
    <3> QED BY <3>1 DEF EndsInv, Shapes, NoDisabling
  <2>6. CASE update_user_enable
    BY <2>6 DEF update_user_enable, EndsInv, Shapes, sessionVars, endVars
  <2>7. ASSUME NEW s \in Sessions, NEW t \in Sessions, revoke_owned(s, t)
        PROVE  t \in rows /\ Ending(t)
    BY <2>7 DEF revoke_owned
  <2> QED BY <2>1, <2>2, <2>3, <2>4, <2>5, <2>6, <2>7
<1>5. Shapes'
  BY <1>1, <1>2, <1>3, <1>4 DEF Shapes, sessionVars, forkVars
<1>6. RevokingInv'
  BY <1>1, RevokingStands DEF sessionVars
<1>7. ChangesInv'
  BY <1>1, <1>2 DEF ChangesInv, sessionVars
<1>8. SignInsInv' /\ RowsInv' /\ ForksInv'
  BY <1>1 DEF SignInsInv, RowsInv, ForksInv, IsRoot, At, sessionVars, forkVars
<1>9. HeldInv' /\ GrantsCurrent' /\ RootsStand'
  BY <1>1 DEF HeldInv, GrantsCurrent, RootsStand, sessionVars
<1> QED BY <1>4, <1>5, <1>6, <1>7, <1>8, <1>9

\* The sessions fixed before are ended, and what was asked for with them.
LEMMA EndKeeps ==
    ASSUME SessionsInv, revoke_tree \/ update_user_revoke
    PROVE  SessionsInv'
<1> USE SessionsAssumption DEF SessionsInv
<1>1. UNCHANGED <<accountVars, logins, signIn, rows, parent, told, proved, forkVars, grants,
                  change, left>>
  BY DEF revoke_tree, update_user_revoke
<1>2. /\ revoked \subseteq revoked' /\ RowsInv' /\ EndsInv'
      /\ ending' \in [target : Sessions \cup {None}, rows : SUBSET Sessions]
      /\ disabling' \in [step : {"none", "disabled", "revoking"}, before : SUBSET Sessions,
                         rows : SUBSET Sessions]
  <2>1. CASE revoke_tree
    <3>1. /\ revoked' = revoked \cup ending.rows /\ ended' = ended \cup {ending.target}
          /\ ending' = NoEnding /\ ending # NoEnding /\ UNCHANGED <<disabling, barred>>
      BY <2>1 DEF revoke_tree
    <3>2. ending.target \in revoked' /\ ending.rows \subseteq rows
      BY <3>1 DEF EndsInv
    <3> QED BY <1>1, <3>1, <3>2 DEF RowsInv, EndsInv, NoEnding, Shapes
  <2>2. CASE update_user_revoke
    <3>1. /\ revoked' = revoked \cup disabling.rows /\ barred' = barred \cup disabling.before
          /\ disabling' = NoDisabling /\ disabling.step = "revoking" /\ UNCHANGED <<ending, ended>>
      BY <2>2 DEF update_user_revoke
    <3>2. disabling.before \subseteq revoked' /\ disabling.rows \subseteq rows
      BY <3>1 DEF EndsInv
    <3> QED BY <1>1, <3>1, <3>2 DEF RowsInv, EndsInv, NoDisabling, Shapes
  <2> QED BY <2>1, <2>2
<1>3. Shapes'
  BY <1>1, <1>2 DEF Shapes, accountVars, forkVars
<1>4. RevokingInv'
  BY <1>1, <1>2, RevokingStands
<1>5. SignInsInv' /\ ForksInv' /\ HeldInv' /\ GrantsCurrent' /\ ChangesInv'
  BY <1>1 DEF SignInsInv, ForksInv, IsRoot, At, HeldInv, GrantsCurrent, ChangesInv,
     accountVars, forkVars
<1>6. RootsStand'
  BY <1>1, <1>2 DEF RootsStand, accountVars
<1> QED BY <1>2, <1>3, <1>4, <1>5, <1>6
-----------------------------------------------------------------------------
(* The theorems.                                                           *)

LEMMA SessionsStart == Init => SessionsInv
<1> SUFFICES ASSUME Init PROVE SessionsInv
  OBVIOUS
<1> USE SessionsAssumption DEF Init
<1>1. Shapes
  <2>1. left \in [changes : 0 .. MaxChanges, forks : Nat, ends : Nat, disables : Nat]
    OBVIOUS
  <2>2. change \in [Changers -> AnyChange]
    BY NoChangeType
  <2>3. signIn \in [Sessions -> [step : Steps, epoch : Records]]
    BY DEF NoSignIn, Steps, Records
  <2>4. record + left.changes <= MaxChanges
    BY <2>1
  <2> QED BY <2>1, <2>2, <2>3, <2>4 DEF Shapes, Records, NoEnding, NoDisabling
<1>2. SignInsInv /\ RowsInv /\ ForksInv
  BY DEF SignInsInv, RowsInv, ForksInv, IsRoot, NoSignIn
<1>3. HeldInv /\ GrantsCurrent /\ RootsStand /\ EndsInv
  BY DEF HeldInv, GrantsCurrent, RootsStand, EndsInv, NoEnding, NoDisabling
<1>4. ChangesInv /\ RevokingInv
  BY NoChangeType DEF ChangesInv, RevokingInv
<1> QED BY <1>1, <1>2, <1>3, <1>4 DEF SessionsInv

LEMMA SessionsStep == SessionsInv /\ [Next]_vars => SessionsInv'
<1> SUFFICES ASSUME SessionsInv, [Next]_vars PROVE SessionsInv'
  OBVIOUS
<1>1. CASE UNCHANGED vars
  <2>1. /\ UNCHANGED <<accountVars, logins, revoked, proved, grants, left>> /\ Changeless
        /\ UNCHANGED <<change, sessionVars>>
    BY <1>1 DEF vars, accountVars, forkVars, endVars, sessionVars, Changeless
  <2>2. change' \in [Changers -> AnyChange]
    BY <2>1 DEF SessionsInv, Shapes
  <2>3. ChangesInv'
    BY <2>1 DEF SessionsInv, ChangesInv, accountVars, sessionVars
  <2>4. RevokingInv'
    BY <2>1, RevokingStands DEF sessionVars
  <2> QED BY <2>1, <2>2, <2>3, <2>4, ChangeFrame
<1>2. ASSUME NEW s \in Sessions, SignIn(s) PROVE SessionsInv'
  BY <1>2, SignInMoves, CreateKeeps, IssueKeeps, IssueRevokeKeeps DEF SignIn
<1>3. ASSUME NEW s \in Sessions, Fork(s) PROVE SessionsInv'
  BY <1>3, HandOffKeeps, ConsumeKeeps DEF Fork
<1>4. CASE recover_grant \/ \E s \in Sessions : Reauth(s)
  BY <1>4, GrantKeeps
<1>5. ASSUME NEW c \in Changers, Change(c) PROVE SessionsInv'
  BY <1>5, FinishKeeps, TakeKeeps, UpdateKeeps, RevokeKeeps, CommitKeeps, AbortKeeps DEF Change
<1>6. CASE End \/ Admin
  BY <1>6, EndMoves, EndKeeps DEF End, Admin
<1> QED BY <1>1, <1>2, <1>3, <1>4, <1>5, <1>6 DEF Next

LEMMA SessionsAlways == Spec => []SessionsInv
BY SessionsStart, SessionsStep, PTL DEF Spec

\* No session a client holds stands on a password the account no longer has, also
\* one that was signed in or forked while the password was changed.
THEOREM SessionsStandOnPassword == Spec => []StandsOnPassword
<1>1. SessionsInv => StandsOnPassword
  <2> SUFFICES ASSUME SessionsInv, NEW s \in told, live(s) PROVE proved[s] = password[record]
    BY DEF StandsOnPassword
  <2>1. s \in Sessions
    BY DEF SessionsInv, RowsInv, Shapes
  <2>2. CASE parent[s] = None
    BY <2>2 DEF SessionsInv, RootsStand, live
  <2>3. CASE parent[s] # None
    <3>1. IsRoot(parent[s]) /\ proved[s] = proved[parent[s]]
      BY <2>1, <2>3 DEF SessionsInv, ForksInv
    <3> QED BY <3>1 DEF SessionsInv, RootsStand, IsRoot, live
  <2> QED BY <2>2, <2>3
<1> QED BY <1>1, SessionsAlways, PTL

\* What was answered as ended stays so: a session signed out with all forked from
\* it, and the sessions of a disabled account after it is enabled.
THEOREM SessionsStayEnded == Spec => []StaysEnded
<1>1. SessionsInv => StaysEnded
  BY DEF SessionsInv, RowsInv, StaysEnded, EndedStays, BarredStays, live
<1> QED BY <1>1, SessionsAlways, PTL

\* Grants are well formed, of the account's password, and used only under it: a
\* grant changes the password once.
THEOREM SessionsGrants == Spec => []GrantsInv
<1>1. SessionsInv => GrantsInv
  <2> SUFFICES ASSUME SessionsInv PROVE GrantsInv
    OBVIOUS
  <2> USE SessionsAssumption DEF SessionsInv
  <2>1. ChangesGranted
    BY DEF ChangesGranted, ChangesInv, GrantsCurrent
  <2>2. \A g \in grants : g.session \in told \cup {None} /\ g.record \in Records
    BY DEF HeldInv, Shapes, AnyGrant
  <2>3. \A c \in Changers : /\ change[c].step \in {"none", "asked", "taken", "updated", "revoking"}
                            /\ change[c].rows \subseteq rows
    BY DEF ChangesInv, Shapes, AnyChange
  <2>4. \A l \in logins : l.session \in Sessions /\ l.purpose \in {"session", "reauth"} /\ l.record \in Records
    BY DEF Shapes, AnyLogin
  <2>5. forks \subseteq told /\ ended \subseteq rows /\ barred \subseteq rows
    BY DEF ForksInv, IsRoot, RowsInv
  <2>6. active \in BOOLEAN /\ retired \in BOOLEAN
    BY DEF Shapes
  <2>7. TypeOK
    BY <2>2, <2>3, <2>4, <2>5, <2>6 DEF TypeOK, Shapes, RowsInv, EndsInv, Steps
  <2> QED BY <2>1, <2>7 DEF GrantsInv
<1> QED BY <1>1, SessionsAlways, PTL
=============================================================================

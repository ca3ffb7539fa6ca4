------------------------- MODULE CollabLogSafety -------------------------
(***************************************************************************)
(* The safety of the collaboration log for any number of tabs and edits.   *)
(***************************************************************************)
EXTENDS CollabLog, FiniteSetTheorems, WellFoundedInduction, TLAPS

-----------------------------------------------------------------------------
(* The greatest of a bounded set of naturals.                              *)

\* A member no other exceeds is the maximum (log_head, Advance).
LEMMA MaxIs ==
    ASSUME NEW S, S \subseteq Nat, NEW m \in S, \A n \in S : n <= m
    PROVE  Max(S) = m
<1>1. \A x \in S : (\A y \in S : x >= y) => x = m
  OBVIOUS
<1>2. m \in S /\ \A y \in S : m >= y
  OBVIOUS
<1> QED BY <1>1, <1>2 DEF Max

\* A bounded set has a maximum: its least upper bound is in it.
LEMMA MaxOf ==
    ASSUME NEW S, NEW b \in Nat, S \subseteq 0 .. b, S # {}
    PROVE  Max(S) \in S /\ \A n \in S : n <= Max(S)
<1> DEFINE U == {u \in Nat : \A n \in S : n <= u}
           R == {ss \in Nat \X Nat : ss[1] < ss[2]}
<1>1. U \subseteq Nat /\ b \in U
  OBVIOUS
<1>2. IsWellFoundedOn(R, Nat)
  BY NatLessThanWellFounded DEF OpToRel
<1>3. PICK u \in U : \A v \in U : ~ (v < u)
  <2>1. PICK u \in U : \A v \in U : ~ (<<v, u>> \in R)
    <3> HIDE DEF U, R
    <3> QED BY <1>1, <1>2, WFMin
  <2>2. \A v \in U : v < u => <<v, u>> \in R
    OBVIOUS
  <2> QED BY <2>1, <2>2
<1>4. u \in S
  <2> SUFFICES ASSUME u \notin S PROVE FALSE
    OBVIOUS
  <2>1. PICK n \in S : TRUE
    OBVIOUS
  <2>2. u \in Nat /\ n \in Nat /\ n < u
    BY <2>1
  <2>3. \A k \in S : k < u
    OBVIOUS
  <2>4. u - 1 \in U
    BY <2>2, <2>3
  <2> QED BY <1>3, <2>2, <2>4
<1>5. \A n \in S : n <= u
  OBVIOUS
<1> HIDE DEF U, R
<1>6. Max(S) = u
  <2>1. S \subseteq Nat
    OBVIOUS
  <2> QED BY <1>4, <1>5, <2>1, MaxIs
<1> QED BY <1>4, <1>5, <1>6

\* The smaller of two naturals (store_version's position).
LEMMA MinOfTwo ==
    ASSUME NEW a \in Nat, NEW b \in Nat
    PROVE  Min({a, b}) = IF a <= b THEN a ELSE b
<1> DEFINE m == IF a <= b THEN a ELSE b
<1>1. m \in {a, b} /\ \A y \in {a, b} : m <= y
  OBVIOUS
<1>2. \A x \in {a, b} : (\A y \in {a, b} : x <= y) => x = m
  OBVIOUS
<1> HIDE DEF m
<1> QED BY <1>1, <1>2 DEF Min, m

\* Advance goes no further than the announced positions, and leaves no gap.
LEMMA AdvanceIs ==
    ASSUME NEW n \in Nat, NEW b \in Nat, n <= b, NEW seqs, seqs \subseteq 0 .. b
    PROVE  /\ Advance(n, seqs) \in n .. b
           /\ (n + 1) .. Advance(n, seqs) \subseteq seqs
<1> DEFINE S == {m \in seqs \cup {n} : m >= n /\ (n + 1) .. m \subseteq seqs}
<1>1. S \subseteq 0 .. b /\ n \in S
  <2>1. (n + 1) .. n = {}
    OBVIOUS
  <2>2. n \in S
    BY <2>1
  <2>3. seqs \cup {n} \subseteq 0 .. b
    OBVIOUS
  <2>4. S \subseteq seqs \cup {n}
    OBVIOUS
  <2> HIDE DEF S
  <2> QED BY <2>2, <2>3, <2>4
<1>2. Max(S) \in S
  <2> HIDE DEF S
  <2> QED BY <1>1, MaxOf
<1>3. Advance(n, seqs) = Max(S)
  BY DEF Advance
<1>4. Advance(n, seqs) \in S
  BY <1>2, <1>3
<1>5. /\ Advance(n, seqs) \in seqs \cup {n}
      /\ Advance(n, seqs) >= n
      /\ (n + 1) .. Advance(n, seqs) \subseteq seqs
  BY <1>4
<1>6. Advance(n, seqs) \in 0 .. b
  <2>1. seqs \cup {n} \subseteq 0 .. b
    OBVIOUS
  <2> HIDE DEF S
  <2> QED BY <1>5, <2>1
<1> HIDE DEF S
<1> QED BY <1>5, <1>6

-----------------------------------------------------------------------------
(* The inductive invariant.                                                *)

FrameMsgs == [type : {"frame"}, frame : Edits]
ResumeMsgs == [type : {"resume"}, seq : Nat]
StoredMsgs == [type : {"stored"}, seq : Nat]
ReplayedMsgs == [type : {"replayed"}, seq : Nat, floor : Nat]
ServerMsgs == FrameMsgs \cup ResumeMsgs
TabMsgs == FrameMsgs \cup StoredMsgs \cup ReplayedMsgs

Versions == [state : SUBSET Edits, seq : Nat, sound : BOOLEAN]
Relays == [step : {"none", "kept", "frame", "stored"}, seq : Nat, to : SUBSET Tabs]
Replays == [on : BOOLEAN, rows : SUBSET kept, through : Nat]

LogTypes ==
    /\ kept \subseteq [seq : Nat, frame : Edits]
    /\ floor \in Nat
    /\ versions \in Seq(Versions)
    /\ relay \in [Edits -> Relays]
    /\ replay \in [Tabs -> Replays]

WireTypes ==
    /\ toServer \in [Tabs -> Seq(ServerMsgs)]
    /\ toTab \in [Tabs -> Seq(TabMsgs)]
    /\ pending \in [Tabs -> Seq(Edits)]

Saves == [step : {"none", "sealing", "sent"}, state : SUBSET Edits, seq : Nat, sound : BOOLEAN]

TabTypes ==
    /\ by \in [Edits -> Tabs \cup {NoTab}]
    /\ doc \in [Tabs -> SUBSET Edits]
    /\ applied \in [Tabs -> Nat]
    /\ announced \in [Tabs -> SUBSET Nat]
    /\ since \in [Tabs -> Nat]
    /\ opens \in [Tabs -> Nat]
    /\ \A t \in Tabs : opens[t] <= 1 \/ opens[t] <= MaxOpens
    /\ saving \in [Tabs -> Saves]
    /\ spoiled \subseteq Tabs
    /\ faults \in 0 .. MaxFaults

TypeInv == LogTypes /\ WireTypes /\ TabTypes

\* Kept frames are numbered from one up, and the log is what no version trimmed.
KeptFrames == {k.frame : k \in kept}
Top == Cardinality(KeptFrames)

LogShape ==
    /\ floor <= Top
    /\ log = {k \in kept : k.seq > floor}
    /\ \A k \in kept : k.seq >= 1 /\ k.seq <= Top
    /\ \A j, k \in kept : j.seq = k.seq => j = k
    /\ \A k \in kept : relay[k.frame].step # "none" /\ relay[k.frame].seq = k.seq
    /\ \A f \in Edits : relay[f].step # "none" => Entry(relay[f].seq, f) \in kept
    /\ \A f \in Edits : relay[f].step = "none" => relay[f].seq = 0
    /\ \A n \in 1 .. Top : \E k \in kept : k.seq = n

\* An edit goes to the server once, from the tab it was made in, which holds it.
UnderWay(t) ==
    \A i \in DOMAIN toServer[t] : toServer[t][i].type = "frame" =>
       /\ by[toServer[t][i].frame] = t
       /\ relay[toServer[t][i].frame].step = "none"
       /\ \A j \in DOMAIN toServer[t] : toServer[t][j] = toServer[t][i] => i = j

Waiting(t) ==
    \A i \in DOMAIN pending[t] :
       /\ by[pending[t][i]] = t
       /\ relay[pending[t][i]].step = "none"
       /\ \A j \in DOMAIN pending[t] : pending[t][j] = pending[t][i] => i = j

MadeIn(f) ==
    /\ by[f] \in Tabs => by[f] \in open /\ f \in doc[by[f]]
    /\ by[f] = NoTab => relay[f].step = "none"

FramesInv ==
    /\ \A t \in Tabs : UnderWay(t) /\ Waiting(t)
    /\ \A f \in Edits : MadeIn(f)

\* A socket holds something only while it is open, and for its tab only while it
\* is in the room.
Nested == settled \subseteq room /\ room \subseteq online /\ online \subseteq open /\ open \subseteq Tabs

SocketTrue(t) ==
    /\ t \in online => pending[t] = <<>>
    /\ t \notin online => toServer[t] = <<>>
    /\ t \notin room => toTab[t] = <<>> /\ ~ replay[t].on
    /\ t \notin open => announced[t] = {} /\ applied[t] = 0 /\ saving[t].step = "none"

Receivers(f) == relay[f].to \subseteq room /\ (relay[f].step \in {"none", "kept"} => relay[f].to = {})

SocketInv ==
    /\ Nested
    /\ \A t \in Tabs : SocketTrue(t)
    /\ \A f \in Edits : Receivers(f)

\* No position passes the last one given.
Counted(t) ==
    /\ applied[t] <= Top
    /\ since[t] <= applied[t]
    /\ announced[t] \subseteq 0 .. Top
    /\ replay[t].through <= Top
    /\ saving[t].seq <= Top

Told(t) ==
    /\ \A i \in DOMAIN toTab[t] :
          /\ toTab[t][i].type = "stored" => toTab[t][i].seq <= Top
          /\ toTab[t][i].type = "replayed" => toTab[t][i].seq <= Top /\ toTab[t][i].floor <= floor
    /\ \A i \in DOMAIN toServer[t] : toServer[t][i].type = "resume" => toServer[t][i].seq = since[t]

VersionsKept == \A i \in DOMAIN versions : versions[i].seq <= Top

BoundsInv ==
    /\ VersionsKept
    /\ \A t \in Tabs : Counted(t) /\ Told(t)

\* A sound version holds what its position says, stored or still on its way.
SavedHolds(v) == v.sound => \A k \in kept : k.seq <= v.seq => k.frame \in v.state

SavesInv ==
    /\ \A i \in DOMAIN versions : SavedHolds(versions[i])
    /\ \A t \in Tabs : saving[t].step = "sent" => SavedHolds(saving[t])

\* Where a kept frame may be that a tab does not have yet: on its wire, under the
\* floor its replay will tell it of, or with the handler that relays it.
Sent(t, f) == \E i \in DOMAIN toTab[t] : toTab[t][i] = FrameMsg(f)
Before(t, f, i) == \E j \in DOMAIN toTab[t] : j < i /\ toTab[t][j] = FrameMsg(f)
Coming(t, f) == f \in doc[t] \/ Sent(t, f)
Skipped(t, k) == k.seq <= floor /\ since[t] < floor
Relayed(t, f) == relay[f].step = "kept" \/ (relay[f].step = "frame" /\ t \in relay[f].to)

\* What it counts it holds.
PositionTrue(t) ==
    \A k \in kept : k.seq <= applied[t] \/ k.seq \in announced[t] => k.frame \in doc[t]

\* A position told comes after its frame.
StoredTrue(t) ==
    /\ \A i \in DOMAIN toTab[t] : toTab[t][i].type = "stored" =>
          \A k \in kept : k.seq = toTab[t][i].seq => k.frame \in doc[t] \/ Before(t, k.frame, i)
    /\ \A f \in Edits : relay[f].step = "stored" /\ t \in relay[f].to => Coming(t, f)
    /\ \A f \in Edits : relay[f].step = "frame" /\ t \in room => t \in relay[f].to \/ Coming(t, f)

\* A replay leaves out what was trimmed before it and what is relayed after it.
ReplayTrue(t) ==
    replay[t].on => \A k \in kept :
       \/ Coming(t, k.frame)
       \/ Skipped(t, k)
       \/ k \in replay[t].rows
       \/ /\ k.seq > replay[t].through
          /\ \A j \in replay[t].rows : k.seq > j.seq
          /\ Relayed(t, k.frame)

\* The answer that ends it names what it left out.
ReplayedTrue(t) ==
    \A i \in DOMAIN toTab[t] : toTab[t][i].type = "replayed" =>
       \A k \in kept :
          \/ k.frame \in doc[t] \/ Before(t, k.frame, i)
          \/ k.seq <= toTab[t][i].floor /\ since[t] < toTab[t][i].floor
          \/ k.seq > toTab[t][i].seq /\ (Relayed(t, k.frame) \/ Sent(t, k.frame))

\* After it, whatever is kept is in the document or on its way.
SettledTrue(t) ==
    t \in settled => \A k \in kept : Coming(t, k.frame) \/ Relayed(t, k.frame)

TabTrue(t) == PositionTrue(t) /\ StoredTrue(t) /\ ReplayTrue(t) /\ ReplayedTrue(t) /\ SettledTrue(t)
TabsTrue == \A t \in open \ spoiled : TabTrue(t)

CollabInv ==
    /\ TypeInv
    /\ LogShape
    /\ FramesInv
    /\ SocketInv
    /\ BoundsInv
    /\ SavesInv
    /\ TabsTrue

-----------------------------------------------------------------------------
(* Counting the kept frames.                                               *)

\* There are no more positions than edits.
LEMMA TopIs ==
    ASSUME LogTypes
    PROVE  IsFiniteSet(KeptFrames) /\ Top \in Nat /\ Top <= Cardinality(Edits)
<1>1. KeptFrames \subseteq Edits
  BY DEF LogTypes, KeptFrames
<1>2. IsFiniteSet(Edits)
  BY CollabAssumption
<1> QED BY <1>1, <1>2, FS_Subset, FS_CardinalityType DEF Top

\* The head of the log is the number of frames kept.
LEMMA HeadIs ==
    ASSUME LogTypes, LogShape
    PROVE  log_head = Top /\ Top \in Nat
<1>1. Top \in Nat
  BY TopIs
<1> DEFINE S == {k.seq : k \in log} \cup {floor}
<1>2. S \subseteq Nat /\ \A n \in S : n <= Top
  BY <1>1 DEF LogTypes, LogShape
<1>3. Top \in S
  <2>1. CASE floor = Top
    BY <2>1
  <2>2. CASE floor # Top
    <3>1. Top \in 1 .. Top
      BY <1>1, <2>2 DEF LogTypes, LogShape
    <3>2. PICK k \in kept : k.seq = Top
      BY <3>1 DEF LogShape
    <3>3. k \in log
      BY <3>2, <2>2, <1>1 DEF LogTypes, LogShape
    <3> QED BY <3>2, <3>3
  <2> QED BY <2>1, <2>2
<1> HIDE DEF S
<1>4. Max(S) = Top
  BY <1>2, <1>3, MaxIs
<1> QED BY <1>1, <1>4 DEF S, log_head

\* The newest version, or the upload that stands for it.
LEMMA NewestIs ==
    ASSUME LogTypes
    PROVE  \/ versions = <<>> /\ newestYjsVersion = [state |-> {}, seq |-> 0, sound |-> TRUE]
           \/ \E i \in DOMAIN versions : newestYjsVersion = versions[i]
<1>1. CASE versions = <<>>
  BY <1>1 DEF newestYjsVersion
<1>2. CASE versions # <<>>
  <2>1. Len(versions) \in DOMAIN versions
    BY <1>2 DEF LogTypes
  <2>2. newestYjsVersion = versions[Len(versions)]
    BY <1>2 DEF newestYjsVersion, Last
  <2> QED BY <2>1, <2>2
<1> QED BY <1>1, <1>2

\* The newest version is well formed, within the positions given, and holds what it
\* says (newestYjsVersion).
LEMMA NewestTyped ==
    ASSUME LogTypes, LogShape, BoundsInv, SavesInv
    PROVE  /\ newestYjsVersion.state \subseteq Edits
           /\ newestYjsVersion.seq \in Nat
           /\ newestYjsVersion.seq <= Top
           /\ SavedHolds(newestYjsVersion)
<1>0. Top \in Nat
  BY TopIs
<1>1. CASE newestYjsVersion = [state |-> {}, seq |-> 0, sound |-> TRUE]
  BY <1>0, <1>1 DEF SavedHolds, LogShape, LogTypes
<1>2. ASSUME NEW i \in DOMAIN versions, newestYjsVersion = versions[i]
      PROVE  /\ newestYjsVersion.state \subseteq Edits
             /\ newestYjsVersion.seq \in Nat
             /\ newestYjsVersion.seq <= Top
             /\ SavedHolds(newestYjsVersion)
  <2>1. versions[i] \in Versions
    BY DEF LogTypes
  <2>2. versions[i].seq <= Top /\ SavedHolds(versions[i])
    BY DEF BoundsInv, VersionsKept, SavesInv
  <2>3. versions[i].state \subseteq Edits /\ versions[i].seq \in Nat
    BY <2>1 DEF Versions
  <2> QED BY <1>2, <2>2, <2>3
<1> QED BY <1>1, <1>2, NewestIs

-----------------------------------------------------------------------------
(* Each step keeps the types.                                              *)

\* What a handler or a tab takes next is a message of its type.
LEMMA ServerHead ==
    ASSUME WireTypes, NEW t \in Tabs, toServer[t] # <<>>
    PROVE  /\ 1 \in DOMAIN toServer[t]
           /\ Head(toServer[t]) = toServer[t][1]
           /\ Head(toServer[t]).type = "frame" => Head(toServer[t]).frame \in Edits
           /\ Head(toServer[t]).type = "resume" => Head(toServer[t]).seq \in Nat
<1>1. toServer[t] \in Seq(ServerMsgs)
  BY DEF WireTypes
<1>2. Head(toServer[t]) \in ServerMsgs /\ 1 \in DOMAIN toServer[t]
      /\ Head(toServer[t]) = toServer[t][1]
  BY <1>1
<1>3. /\ Head(toServer[t]).type = "frame" => Head(toServer[t]).frame \in Edits
      /\ Head(toServer[t]).type = "resume" => Head(toServer[t]).seq \in Nat
  BY <1>2 DEF ServerMsgs, FrameMsgs, ResumeMsgs
<1> QED BY <1>2, <1>3

\* What a tab takes next is a message of its type (Received).
LEMMA TabHead ==
    ASSUME WireTypes, NEW t \in Tabs, toTab[t] # <<>>
    PROVE  /\ 1 \in DOMAIN toTab[t]
           /\ Head(toTab[t]) = toTab[t][1]
           /\ Head(toTab[t]).type = "frame" => Head(toTab[t]).frame \in Edits /\ Head(toTab[t]) = FrameMsg(Head(toTab[t]).frame)
           /\ Head(toTab[t]).type = "stored" => Head(toTab[t]).seq \in Nat
           /\ Head(toTab[t]).type = "replayed" => Head(toTab[t]).seq \in Nat /\ Head(toTab[t]).floor \in Nat
<1>1. toTab[t] \in Seq(TabMsgs)
  BY DEF WireTypes
<1>2. Head(toTab[t]) \in TabMsgs /\ 1 \in DOMAIN toTab[t]
      /\ Head(toTab[t]) = toTab[t][1]
  BY <1>1
<1>3. /\ Head(toTab[t]).type = "frame" => Head(toTab[t]).frame \in Edits /\ Head(toTab[t]) = FrameMsg(Head(toTab[t]).frame)
      /\ Head(toTab[t]).type = "stored" => Head(toTab[t]).seq \in Nat
      /\ Head(toTab[t]).type = "replayed" => Head(toTab[t]).seq \in Nat /\ Head(toTab[t]).floor \in Nat
  BY <1>2 DEF TabMsgs, FrameMsgs, StoredMsgs, ReplayedMsgs, FrameMsg
<1> QED BY <1>2, <1>3

\* A handler with nothing to replay.
LEMMA NoReplayTyped == NoReplay \in Replays
BY DEF NoReplay, Replays

\* Removing a receiver, or replacing the step and the receivers, keeps the types.
LEMMA RelayTypes ==
    ASSUME LogTypes
    PROVE  /\ \A f \in Edits, t \in Tabs : [relay EXCEPT ![f].to = @ \ {t}] \in [Edits -> Relays]
           /\ \A f \in Edits, s \in {"frame", "stored"}, to \in SUBSET Tabs :
                 [relay EXCEPT ![f].step = s, ![f].to = to] \in [Edits -> Relays]
<1>1. relay \in [Edits -> Relays]
  BY DEF LogTypes
<1>2. \A r \in Relays, t \in Tabs : [r EXCEPT !.to = @ \ {t}] \in Relays
  BY DEF Relays
<1>3. \A r \in Relays, s \in {"frame", "stored"}, to \in SUBSET Tabs :
         [r EXCEPT !.step = s, !.to = to] \in Relays
  BY DEF Relays
<1> QED BY <1>1, <1>2, <1>3

\* One receiver less leaves the step and the position of a relay as they are.
LEMMA ReceiverGone ==
    ASSUME LogTypes, NEW t, NEW f \in Edits,
           relay'[f] = relay[f] \/ relay'[f] = [relay[f] EXCEPT !.to = @ \ {t}]
    PROVE  relay'[f].step = relay[f].step /\ relay'[f].seq = relay[f].seq
<1>1. relay[f] \in Relays
  BY DEF LogTypes
<1>2. CASE relay'[f] = [relay[f] EXCEPT !.to = @ \ {t}]
  BY <1>1, <1>2 DEF Relays
<1> QED BY <1>2

\* Losing a socket keeps the relay and the replays typed (Gone).
LEMMA GoneTypes ==
    ASSUME LogTypes, NEW t \in Tabs, Gone(t, relay), UNCHANGED kept
    PROVE  relay' \in [Edits -> Relays] /\ replay' \in [Tabs -> Replays]
<1>1. \A r \in Relays : [r EXCEPT !.to = @ \ {t}] \in Relays
  BY DEF Relays
<1>2. relay' \in [Edits -> Relays]
  BY <1>1 DEF LogTypes, Gone
<1> QED BY <1>2, NoReplayTyped DEF LogTypes, Gone

\* Each action keeps the log, the versions, the relay and the replays typed.
LEMMA LogTypesStep ==
    ASSUME CollabInv, [Next]_vars
    PROVE  LogTypes'
<1> USE DEF CollabInv, TypeInv
<1>1. ASSUME NEW t \in Tabs, openCollabSession(t) PROVE LogTypes'
  BY <1>1 DEF LogTypes, Replays, openCollabSession, serverVars, relayVars
<1>2. ASSUME NEW t \in Tabs, NEW f \in Edits, onLocalUpdate(t, f) PROVE LogTypes'
  BY <1>2 DEF LogTypes, Replays, onLocalUpdate, serverVars, relayVars
<1>3. ASSUME NEW t \in Tabs, connect(t) PROVE LogTypes'
  BY <1>3 DEF LogTypes, Replays, connect, serverVars, relayVars
<1>4. ASSUME NEW t \in Tabs, disconnect(t) PROVE LogTypes'
  <2>1. relay' \in [Edits -> Relays] /\ replay' \in [Tabs -> Replays]
    BY <1>4, GoneTypes DEF disconnect, serverVars
  <2> QED BY <1>4, <2>1 DEF LogTypes, Replays, disconnect, serverVars
<1>5. ASSUME NEW t \in Tabs, onFrame(t) PROVE LogTypes'
  BY <1>5 DEF LogTypes, Replays, onFrame, Received, serverVars, relayVars
<1>6. ASSUME NEW t \in Tabs, onStored(t) PROVE LogTypes'
  BY <1>6 DEF LogTypes, Replays, onStored, Received, serverVars, relayVars
<1>7. ASSUME NEW t \in Tabs, onReplayed(t) PROVE LogTypes'
  BY <1>7 DEF LogTypes, Replays, onReplayed, Received, serverVars, relayVars
<1>8. ASSUME NEW t \in Tabs, snapshot(t) PROVE LogTypes'
  BY <1>8 DEF LogTypes, Replays, snapshot, serverVars, relayVars
<1>9. ASSUME NEW t \in Tabs, createVersion(t) PROVE LogTypes'
  BY <1>9 DEF LogTypes, Replays, createVersion, getSeq, serverVars, relayVars
<1>10. ASSUME NEW t \in Tabs, store_version(t) PROVE LogTypes'
  <2> DEFINE n == Min({saving[t].seq, log_head})
  <2>1. n \in Nat
    BY HeadIs, MinOfTwo DEF TabTypes, Saves
  <2>2. Max({floor, n}) \in Nat
    <3>1. floor <= floor + n /\ n <= floor + n /\ floor + n \in Nat
      BY <2>1 DEF LogTypes
    <3> HIDE DEF n
    <3>2. {floor, n} \subseteq 0 .. (floor + n)
      BY <3>1, <2>1 DEF LogTypes
    <3> QED BY <3>1, <3>2, <2>1, MaxOf DEF LogTypes
  <2>3. [state |-> saving[t].state, seq |-> n, sound |-> saving[t].sound] \in Versions
    BY <2>1 DEF TabTypes, Versions, Saves
  <2>4. versions' \in Seq(Versions)
    BY <1>10, <2>3 DEF store_version, LogTypes
  <2> QED BY <1>10, <2>2, <2>4 DEF LogTypes, Replays, store_version, relayVars
<1>11. ASSUME NEW t \in Tabs, save_failed(t) PROVE LogTypes'
  BY <1>11 DEF LogTypes, Replays, save_failed, serverVars, relayVars
<1>12. ASSUME NEW t \in Tabs, join(t) PROVE LogTypes'
  BY <1>12 DEF LogTypes, Replays, join, serverVars
<1>13. ASSUME NEW t \in Tabs, persist_frame(t) PROVE LogTypes'
  <2>1. Head(toServer[t]).frame \in Edits
    BY <1>13, ServerHead DEF persist_frame, Next_message
  <2>2. NextPosition \in Nat
    BY HeadIs DEF NextPosition
  <2>3. kept' \subseteq [seq : Nat, frame : Edits] /\ kept \subseteq kept'
    BY <1>13, <2>1, <2>2 DEF persist_frame, LogTypes, Entry
  <2>4. [step |-> "kept", seq |-> NextPosition, to |-> {}] \in Relays
    BY <2>2 DEF Relays
  <2>5. relay' \in [Edits -> Relays]
    BY <1>13, <2>4 DEF persist_frame, LogTypes
  <2>6. Replays \subseteq Replays'
    BY <2>3 DEF Replays
  <2> QED BY <1>13, <2>3, <2>5, <2>6 DEF LogTypes, persist_frame
<1>14. ASSUME NEW t \in Tabs, frame_dropped(t) PROVE LogTypes'
  BY <1>14 DEF LogTypes, Replays, frame_dropped, Next_message, serverVars, relayVars
<1>15. ASSUME NEW t \in Tabs, replay_log(t) PROVE LogTypes'
  <2> DEFINE n == Head(toServer[t]).seq
  <2>1. n \in Nat
    BY <1>15, ServerHead DEF replay_log, Next_message
  <2>2. [on |-> TRUE, rows |-> Rows(n), through |-> n] \in Replays
    BY <2>1 DEF Replays, Rows, LogShape
  <2>3. replay' \in [Tabs -> Replays]
    BY <1>15, <2>2 DEF replay_log, LogTypes
  <2> QED BY <1>15, <2>3 DEF LogTypes, Replays, replay_log, serverVars
<1>16. ASSUME NEW t \in Tabs, replay_frame(t) PROVE LogTypes'
  <2>1. PICK k \in Lowest(replay[t].rows) :
           replay' = [replay EXCEPT ![t].rows = @ \ {k}, ![t].through = k.seq]
    BY <1>16 DEF replay_frame
  <2>2. replay[t] \in Replays
    BY DEF LogTypes
  <2>3. k \in kept /\ k.seq \in Nat
    BY <2>1, <2>2 DEF Replays, Lowest, LogTypes
  <2>4. [replay[t] EXCEPT !.rows = @ \ {k}, !.through = k.seq] \in Replays
    BY <2>2, <2>3 DEF Replays
  <2>5. replay' \in [Tabs -> Replays]
    BY <2>1, <2>4 DEF LogTypes
  <2> QED BY <1>16, <2>5 DEF LogTypes, Replays, replay_frame, serverVars
<1>17. ASSUME NEW t \in Tabs, replay_end(t) PROVE LogTypes'
  <2>1. replay' \in [Tabs -> Replays]
    BY <1>17, NoReplayTyped DEF LogTypes, replay_end
  <2> QED BY <1>17, <2>1 DEF LogTypes, Replays, replay_end, serverVars
<1>18. ASSUME NEW t \in Tabs, replay_timeout(t) PROVE LogTypes'
  <2>1. replay' \in [Tabs -> Replays]
    BY <1>18, NoReplayTyped DEF LogTypes, replay_timeout
  <2> QED BY <1>18, <2>1 DEF LogTypes, Replays, replay_timeout, serverVars
<1>19. ASSUME NEW f \in Edits, broadcast(f) PROVE LogTypes'
  <2>1. relay' \in [Edits -> Relays]
    BY <1>19, RelayTypes DEF broadcast, SocketInv, Nested
  <2> QED BY <1>19, <2>1 DEF LogTypes, Replays, broadcast, serverVars
<1>20. ASSUME NEW f \in Edits, broadcast_text(f) PROVE LogTypes'
  <2>1. relay' \in [Edits -> Relays]
    BY <1>20, RelayTypes DEF broadcast_text, SocketInv, Nested
  <2> QED BY <1>20, <2>1 DEF LogTypes, Replays, broadcast_text, serverVars
<1>21. ASSUME NEW f \in Edits, NEW t \in Tabs, write(f, t) PROVE LogTypes'
  <2>1. relay' \in [Edits -> Relays]
    BY <1>21, RelayTypes DEF write
  <2> QED BY <1>21, <2>1 DEF LogTypes, Replays, write, serverVars
<1>22. ASSUME NEW f \in Edits, NEW t \in Tabs, write_timeout(f, t) PROVE LogTypes'
  <2>1. kept' = kept /\ floor' = floor /\ versions' = versions
    BY <1>22 DEF write_timeout, serverVars
  <2>2. CASE Busy(t)
    <3>1. relay' = [relay EXCEPT ![f].to = @ \ {t}] /\ replay' = replay
      BY <1>22, <2>2 DEF write_timeout
    <3>2. relay' \in [Edits -> Relays]
      BY <3>1, RelayTypes
    <3> QED BY <2>1, <3>1, <3>2 DEF LogTypes, Replays
  <2>3. CASE ~ Busy(t)
    <3>1. Gone(t, relay)
      BY <1>22, <2>3 DEF write_timeout
    <3> QED BY <2>1, <3>1, GoneTypes DEF LogTypes, Replays
  <2> QED BY <2>2, <2>3
<1>23. CASE UNCHANGED vars
  BY <1>23 DEF LogTypes, Replays, vars
<1> QED BY <1>1, <1>2, <1>3, <1>4, <1>5, <1>6, <1>7, <1>8, <1>9, <1>10, <1>11, <1>12, <1>13, <1>14, <1>15, <1>16, <1>17, <1>18, <1>19, <1>20, <1>21, <1>22, <1>23 DEF Next, Tab, Handler, Relay

\* What is put on a wire is a message of that wire.
LEMMA Messages ==
    /\ \A f \in Edits : FrameMsg(f) \in ServerMsgs /\ FrameMsg(f) \in TabMsgs
    /\ \A n \in Nat : ResumeMsg(n) \in ServerMsgs /\ StoredMsg(n) \in TabMsgs
    /\ \A n, m \in Nat : ReplayedMsg(n, m) \in TabMsgs
BY DEF FrameMsg, ResumeMsg, StoredMsg, ReplayedMsg, ServerMsgs, TabMsgs, FrameMsgs, ResumeMsgs,
       StoredMsgs, ReplayedMsgs

\* Losing a socket empties its wires (Gone).
LEMMA GoneWires ==
    ASSUME WireTypes, NEW t \in Tabs, Gone(t, relay), UNCHANGED pending
    PROVE  WireTypes'
BY DEF WireTypes, Gone

\* What connect sends: the resume, then every frame that waited, in its order.
LEMMA Resumed ==
    ASSUME WireTypes, NEW t \in Tabs, NEW n \in Nat, NEW q,
           q = <<ResumeMsg(n)>> \o [i \in DOMAIN pending[t] |-> FrameMsg(pending[t][i])]
    PROVE  /\ q \in Seq(ServerMsgs)
           /\ Len(q) = Len(pending[t]) + 1
           /\ q[1] = ResumeMsg(n)
           /\ \A i \in DOMAIN pending[t] : q[i + 1] = FrameMsg(pending[t][i])
           /\ \A i \in DOMAIN q : i = 1 \/ i - 1 \in DOMAIN pending[t]
<1> DEFINE p == [i \in DOMAIN pending[t] |-> FrameMsg(pending[t][i])]
<1>1. pending[t] \in Seq(Edits)
  BY DEF WireTypes
<1>2. p \in Seq(ServerMsgs) /\ Len(p) = Len(pending[t]) /\ DOMAIN p = DOMAIN pending[t]
  <2>1. DOMAIN pending[t] = 1 .. Len(pending[t]) /\ Len(pending[t]) \in Nat
    BY <1>1
  <2>2. \A i \in 1 .. Len(pending[t]) : pending[t][i] \in Edits
    BY <1>1
  <2>3. p = [i \in 1 .. Len(pending[t]) |-> FrameMsg(pending[t][i])]
    BY <2>1
  <2>4. \A i \in 1 .. Len(pending[t]) : FrameMsg(pending[t][i]) \in ServerMsgs
    BY <2>2, Messages
  <2>5. p \in Seq(ServerMsgs) /\ Len(p) = Len(pending[t])
    BY <2>1, <2>3, <2>4
  <2> QED BY <2>5
<1>3. \A i \in DOMAIN pending[t] : p[i] = FrameMsg(pending[t][i])
  OBVIOUS
<1>4. <<ResumeMsg(n)>> \in Seq(ServerMsgs) /\ Len(<<ResumeMsg(n)>>) = 1
  BY Messages
<1> HIDE DEF p
<1>5. q \in Seq(ServerMsgs) /\ Len(q) = Len(p) + 1 /\ q[1] = ResumeMsg(n)
      /\ \A i \in 1 .. Len(p) : q[i + 1] = p[i]
  BY <1>2, <1>4 DEF p
<1>6. DOMAIN pending[t] = 1 .. Len(pending[t]) /\ Len(pending[t]) \in Nat
  BY <1>1
<1>7. DOMAIN q = 1 .. Len(q)
  BY <1>5
<1>8. \A i \in DOMAIN pending[t] : q[i + 1] = FrameMsg(pending[t][i])
  BY <1>2, <1>3, <1>5, <1>6
<1>9. \A i \in DOMAIN q : i = 1 \/ i - 1 \in DOMAIN pending[t]
  BY <1>2, <1>5, <1>6, <1>7
<1> QED BY <1>2, <1>5, <1>8, <1>9

\* Each action keeps the wires and the waiting edits typed.
LEMMA WireTypesStep ==
    ASSUME CollabInv, [Next]_vars
    PROVE  WireTypes'
<1> USE DEF CollabInv, TypeInv
<1>1. ASSUME NEW t \in Tabs, openCollabSession(t) PROVE WireTypes'
  BY <1>1 DEF WireTypes, openCollabSession, wireVars, socketVars
<1>2. ASSUME NEW t \in Tabs, NEW f \in Edits, onLocalUpdate(t, f) PROVE WireTypes'
  <2>1. FrameMsg(f) \in ServerMsgs
    BY Messages
  <2>2. CASE t \in online
    <3>1. toServer' = [toServer EXCEPT ![t] = Append(@, FrameMsg(f))] /\ pending' = pending /\ toTab' = toTab
      BY <1>2, <2>2 DEF onLocalUpdate
    <3> QED BY <2>1, <3>1 DEF WireTypes
  <2>3. CASE t \notin online
    <3>1. pending' = [pending EXCEPT ![t] = Append(@, f)] /\ toServer' = toServer /\ toTab' = toTab
      BY <1>2, <2>3 DEF onLocalUpdate
    <3> QED BY <3>1 DEF WireTypes
  <2> QED BY <2>2, <2>3
<1>3. ASSUME NEW t \in Tabs, connect(t) PROVE WireTypes'
  <2>1. toServer'[t] \in Seq(ServerMsgs)
    BY <1>3, Resumed DEF connect, TabTypes, WireTypes
  <2> QED BY <1>3, <2>1 DEF WireTypes, connect
<1>4. ASSUME NEW t \in Tabs, disconnect(t) PROVE WireTypes'
  BY <1>4, GoneWires DEF disconnect
<1>5. ASSUME NEW t \in Tabs, onFrame(t) PROVE WireTypes'
  BY <1>5 DEF WireTypes, onFrame, Received, socketVars
<1>6. ASSUME NEW t \in Tabs, onStored(t) PROVE WireTypes'
  BY <1>6 DEF WireTypes, onStored, Received, socketVars
<1>7. ASSUME NEW t \in Tabs, onReplayed(t) PROVE WireTypes'
  BY <1>7 DEF WireTypes, onReplayed, Received
<1>8. ASSUME NEW t \in Tabs, snapshot(t) PROVE WireTypes'
  BY <1>8 DEF WireTypes, snapshot, wireVars, socketVars
<1>9. ASSUME NEW t \in Tabs, createVersion(t) PROVE WireTypes'
  BY <1>9 DEF WireTypes, createVersion, wireVars, socketVars
<1>10. ASSUME NEW t \in Tabs, store_version(t) PROVE WireTypes'
  BY <1>10 DEF WireTypes, store_version, wireVars, socketVars
<1>11. ASSUME NEW t \in Tabs, save_failed(t) PROVE WireTypes'
  BY <1>11 DEF WireTypes, save_failed, wireVars, socketVars
<1>12. ASSUME NEW t \in Tabs, join(t) PROVE WireTypes'
  BY <1>12 DEF WireTypes, join, wireVars, socketVars
<1>13. ASSUME NEW t \in Tabs, persist_frame(t) PROVE WireTypes'
  BY <1>13 DEF WireTypes, persist_frame, Next_message, socketVars
<1>14. ASSUME NEW t \in Tabs, frame_dropped(t) PROVE WireTypes'
  BY <1>14 DEF WireTypes, frame_dropped, Next_message, socketVars
<1>15. ASSUME NEW t \in Tabs, replay_log(t) PROVE WireTypes'
  BY <1>15 DEF WireTypes, replay_log, Next_message, socketVars
<1>16. ASSUME NEW t \in Tabs, replay_frame(t) PROVE WireTypes'
  <2>1. PICK k \in Lowest(replay[t].rows) : toTab' = [toTab EXCEPT ![t] = Append(@, FrameMsg(k.frame))]
    BY <1>16 DEF replay_frame
  <2>2. replay[t] \in Replays
    BY DEF LogTypes
  <2>3. k.frame \in Edits
    BY <2>1, <2>2 DEF Replays, Lowest, LogTypes
  <2>4. FrameMsg(k.frame) \in TabMsgs
    BY <2>3, Messages
  <2> QED BY <1>16, <2>1, <2>4 DEF replay_frame, WireTypes, socketVars
<1>17. ASSUME NEW t \in Tabs, replay_end(t) PROVE WireTypes'
  <2>1. PICK m \in {floor, 0} : toTab' = [toTab EXCEPT ![t] = Append(@, ReplayedMsg(replay[t].through, m))]
    BY <1>17 DEF replay_end
  <2>2. ReplayedMsg(replay[t].through, m) \in TabMsgs
    BY Messages DEF LogTypes, Replays
  <2> QED BY <1>17, <2>1, <2>2 DEF replay_end, WireTypes, socketVars
<1>18. ASSUME NEW t \in Tabs, replay_timeout(t) PROVE WireTypes'
  BY <1>18 DEF WireTypes, replay_timeout, wireVars, socketVars
<1>19. ASSUME NEW f \in Edits, broadcast(f) PROVE WireTypes'
  BY <1>19 DEF WireTypes, broadcast, wireVars, socketVars
<1>20. ASSUME NEW f \in Edits, broadcast_text(f) PROVE WireTypes'
  BY <1>20 DEF WireTypes, broadcast_text, wireVars, socketVars
<1>21. ASSUME NEW f \in Edits, NEW t \in Tabs, write(f, t) PROVE WireTypes'
  <2>1. relay[f].seq \in Nat
    BY DEF LogTypes, Relays
  <2>2. Written(f) \in TabMsgs
    BY <2>1, Messages DEF Written
  <2> QED BY <1>21, <2>2 DEF write, WireTypes, socketVars
<1>22. ASSUME NEW f \in Edits, NEW t \in Tabs, write_timeout(f, t) PROVE WireTypes'
  <2>1. CASE Busy(t)
    BY <1>22, <2>1 DEF write_timeout, WireTypes, wireVars
  <2>2. CASE ~ Busy(t)
    BY <1>22, <2>2, GoneWires DEF write_timeout
  <2> QED BY <2>1, <2>2
<1>23. CASE UNCHANGED vars
  BY <1>23 DEF WireTypes, vars
<1> QED BY <1>1, <1>2, <1>3, <1>4, <1>5, <1>6, <1>7, <1>8, <1>9, <1>10, <1>11, <1>12, <1>13, <1>14, <1>15, <1>16, <1>17, <1>18, <1>19, <1>20, <1>21, <1>22, <1>23 DEF Next, Tab, Handler, Relay

\* How far a tab moves: to a position whose gap the announced ones fill.
LEMMA MovedIs ==
    ASSUME CollabInv, NEW t \in Tabs, NEW n \in 0 .. Top, NEW seqs \in SUBSET (0 .. Top), Moved(t, n, seqs)
    PROVE  /\ applied' \in [Tabs -> Nat] /\ announced' \in [Tabs -> SUBSET Nat]
           /\ applied'[t] \in n .. Top /\ (n + 1) .. applied'[t] \subseteq seqs
           /\ announced'[t] \subseteq seqs
           /\ \A u \in Tabs \ {t} : applied'[u] = applied[u] /\ announced'[u] = announced[u]
<1>1. Top \in Nat /\ n \in Nat /\ n <= Top
  BY TopIs DEF CollabInv, TypeInv
<1>2. Advance(n, seqs) \in n .. Top /\ (n + 1) .. Advance(n, seqs) \subseteq seqs
  BY <1>1, AdvanceIs
<1>3. Advance(n, seqs) \in Nat /\ seqs \subseteq Nat
  BY <1>1, <1>2
<1>4. applied \in [Tabs -> Nat] /\ announced \in [Tabs -> SUBSET Nat]
  BY DEF CollabInv, TypeInv, TabTypes
<1>5. applied' = [applied EXCEPT ![t] = Advance(n, seqs)]
      /\ announced' = [announced EXCEPT ![t] = {m \in seqs : m > Advance(n, seqs)}]
  BY DEF Moved
<1> QED BY <1>2, <1>3, <1>4, <1>5

\* A position heard of is one that was given.
LEMMA StoredMoves ==
    ASSUME CollabInv, NEW t \in Tabs, onStored(t)
    PROVE  /\ applied[t] \in 0 .. Top
           /\ announced[t] \cup ({Head(toTab[t]).seq} \ 0 .. applied[t]) \in SUBSET (0 .. Top)
           /\ Moved(t, applied[t], announced[t] \cup ({Head(toTab[t]).seq} \ 0 .. applied[t]))
<1>1. toTab[t] # <<>> /\ Head(toTab[t]).type = "stored"
  BY DEF onStored, Received
<1>2. Head(toTab[t]).seq \in Nat /\ Head(toTab[t]).seq <= Top
  BY <1>1, TabHead DEF CollabInv, TypeInv, BoundsInv, Told
<1>3. Top \in Nat /\ applied[t] \in Nat /\ applied[t] <= Top /\ announced[t] \subseteq 0 .. Top
  BY TopIs DEF CollabInv, TypeInv, TabTypes, BoundsInv, Counted
<1> QED BY <1>2, <1>3 DEF onStored

\* Where a replay's answer takes a tab: where it was, where the answer ends, or
\* to the newest version, whichever is furthest.
ReplayedTo(t) ==
    Max({applied[t], Head(toTab[t]).seq,
         IF Head(toTab[t]).floor > since[t] THEN newestYjsVersion.seq ELSE 0})

\* catchUp starts from a position that was given, no lower than the tab's.
LEMMA ReplayedMoves ==
    ASSUME CollabInv, NEW t \in Tabs, onReplayed(t)
    PROVE  /\ ReplayedTo(t) \in 0 .. Top
           /\ ReplayedTo(t) \in {applied[t], Head(toTab[t]).seq,
                                 IF Head(toTab[t]).floor > since[t] THEN newestYjsVersion.seq ELSE 0}
           /\ applied[t] <= ReplayedTo(t)
           /\ announced[t] \in SUBSET (0 .. Top)
           /\ Moved(t, ReplayedTo(t), announced[t])
           /\ Head(toTab[t]).floor \in Nat /\ Head(toTab[t]).floor <= floor
           /\ Head(toTab[t]).seq \in Nat
<1>1. toTab[t] # <<>> /\ Head(toTab[t]).type = "replayed"
  BY DEF onReplayed, Received
<1>2. /\ Head(toTab[t]).seq \in Nat /\ Head(toTab[t]).seq <= Top
      /\ Head(toTab[t]).floor \in Nat /\ Head(toTab[t]).floor <= floor
  BY <1>1, TabHead DEF CollabInv, TypeInv, BoundsInv, Told
<1>3. Top \in Nat /\ applied[t] \in Nat /\ applied[t] <= Top /\ announced[t] \subseteq 0 .. Top
  BY TopIs DEF CollabInv, TypeInv, TabTypes, BoundsInv, Counted
<1>4. newestYjsVersion.seq \in Nat /\ newestYjsVersion.seq <= Top
  BY NewestTyped DEF CollabInv, TypeInv
<1> DEFINE v == IF Head(toTab[t]).floor > since[t] THEN newestYjsVersion.seq ELSE 0
           S == {applied[t], Head(toTab[t]).seq, v}
<1>5. S \subseteq 0 .. Top /\ S # {}
  <2>1. v \in 0 .. Top
    BY <1>3, <1>4
  <2> HIDE DEF v
  <2> QED BY <1>2, <1>3, <2>1
<1>6. Max(S) \in S /\ \A n \in S : n <= Max(S)
  <2> HIDE DEF S
  <2> QED BY <1>3, <1>5, MaxOf
<1>7. ReplayedTo(t) = Max(S)
  BY DEF ReplayedTo
<1>8. Moved(t, ReplayedTo(t), announced[t])
  BY DEF onReplayed, ReplayedTo
<1>9. ReplayedTo(t) \in S /\ applied[t] <= ReplayedTo(t)
  BY <1>6, <1>7
<1>10. ReplayedTo(t) \in 0 .. Top
  <2> HIDE DEF S
  <2> QED BY <1>5, <1>9
<1> QED BY <1>2, <1>3, <1>8, <1>9, <1>10

\* What fails stays within its bound.
LEMMA FaultKeeps ==
    ASSUME TabTypes, Fault
    PROVE  faults' \in 0 .. MaxFaults
BY CollabAssumption DEF TabTypes, Fault

\* Each action keeps the tabs typed.
LEMMA TabTypesStep ==
    ASSUME CollabInv, [Next]_vars
    PROVE  TabTypes'
<1> USE DEF CollabInv, TypeInv
<1>1. ASSUME NEW t \in Tabs, openCollabSession(t) PROVE TabTypes'
  <2>1. newestYjsVersion.state \subseteq Edits /\ newestYjsVersion.seq \in Nat
    BY NewestTyped
  <2> QED BY <1>1, <2>1 DEF TabTypes, openCollabSession, Spoil, socketVars
<1>2. ASSUME NEW t \in Tabs, NEW f \in Edits, onLocalUpdate(t, f) PROVE TabTypes'
  BY <1>2 DEF TabTypes, onLocalUpdate, positionVars, historyVars
<1>3. ASSUME NEW t \in Tabs, connect(t) PROVE TabTypes'
  <2>1. opens' \in [Tabs -> Nat] /\ since' \in [Tabs -> Nat]
    BY <1>3 DEF TabTypes, connect
  <2>2. \A u \in Tabs : opens'[u] <= 1 \/ opens'[u] <= MaxOpens
    BY <1>3, CollabAssumption DEF TabTypes, connect
  <2> QED BY <1>3, <2>1, <2>2 DEF TabTypes, connect, positionVars, historyVars
<1>4. ASSUME NEW t \in Tabs, disconnect(t) PROVE TabTypes'
  <2>1. faults' \in 0 .. MaxFaults
    BY <1>4, FaultKeeps DEF disconnect
  <2> QED BY <1>4, <2>1 DEF TabTypes, disconnect, Spoil, positionVars, socketVars
<1>5. ASSUME NEW t \in Tabs, onFrame(t) PROVE TabTypes'
  <2>1. Head(toTab[t]).frame \in Edits
    BY <1>5, TabHead DEF onFrame, Received
  <2> QED BY <1>5, <2>1 DEF TabTypes, onFrame, positionVars, socketVars, historyVars
<1>6. ASSUME NEW t \in Tabs, onStored(t) PROVE TabTypes'
  <2>1. applied' \in [Tabs -> Nat] /\ announced' \in [Tabs -> SUBSET Nat]
    BY <1>6, StoredMoves, MovedIs
  <2> QED BY <1>6, <2>1 DEF TabTypes, onStored, socketVars, historyVars
<1>7. ASSUME NEW t \in Tabs, onReplayed(t) PROVE TabTypes'
  <2>1. applied' \in [Tabs -> Nat] /\ announced' \in [Tabs -> SUBSET Nat]
    BY <1>7, ReplayedMoves, MovedIs
  <2>2. newestYjsVersion.state \subseteq Edits
    BY NewestTyped
  <2>3. doc' \in [Tabs -> SUBSET Edits] /\ spoiled' \subseteq Tabs
    BY <1>7, <2>2 DEF TabTypes, onReplayed, Spoil
  <2> QED BY <1>7, <2>1, <2>3 DEF TabTypes, onReplayed
<1>8. ASSUME NEW t \in Tabs, snapshot(t) PROVE TabTypes'
  <2>1. [NoSave EXCEPT !.step = "sealing", !.state = doc[t]] \in Saves
    BY DEF NoSave, Saves, TabTypes
  <2>2. saving' \in [Tabs -> Saves]
    BY <1>8, <2>1 DEF TabTypes, snapshot
  <2> QED BY <1>8, <2>2 DEF TabTypes, snapshot, positionVars, socketVars, historyVars
<1>9. ASSUME NEW t \in Tabs, createVersion(t) PROVE TabTypes'
  <2>1. \A b \in BOOLEAN : [saving[t] EXCEPT !.step = "sent", !.seq = applied[t], !.sound = b] \in Saves
    BY DEF Saves, TabTypes
  <2>2. saving' \in [Tabs -> Saves]
    BY <1>9, <2>1 DEF TabTypes, createVersion, getSeq
  <2> QED BY <1>9, <2>2 DEF TabTypes, createVersion, positionVars, socketVars, historyVars
<1>10. ASSUME NEW t \in Tabs, store_version(t) PROVE TabTypes'
  <2>1. NoSave \in Saves
    BY DEF NoSave, Saves
  <2>2. saving' \in [Tabs -> Saves]
    BY <1>10, <2>1 DEF TabTypes, store_version
  <2> QED BY <1>10, <2>2 DEF TabTypes, store_version, Fault, positionVars, socketVars, historyVars
<1>11. ASSUME NEW t \in Tabs, save_failed(t) PROVE TabTypes'
  <2>1. NoSave \in Saves
    BY DEF NoSave, Saves
  <2>2. saving' \in [Tabs -> Saves]
    BY <1>11, <2>1 DEF TabTypes, save_failed
  <2>3. faults' \in 0 .. MaxFaults
    BY <1>11, FaultKeeps DEF save_failed
  <2> QED BY <1>11, <2>2, <2>3 DEF TabTypes, save_failed, positionVars, socketVars
<1>12. ASSUME NEW t \in Tabs, join(t) PROVE TabTypes'
  BY <1>12 DEF TabTypes, join, positionVars, socketVars, Spoil
<1>13. ASSUME NEW t \in Tabs, persist_frame(t) PROVE TabTypes'
  BY <1>13 DEF TabTypes, persist_frame, positionVars, socketVars, historyVars
<1>14. ASSUME NEW t \in Tabs, frame_dropped(t) PROVE TabTypes'
  <2>1. faults' \in 0 .. MaxFaults
    BY <1>14, FaultKeeps DEF frame_dropped
  <2> QED BY <1>14, <2>1 DEF TabTypes, frame_dropped, Spoil, positionVars, socketVars
<1>15. ASSUME NEW t \in Tabs, replay_log(t) PROVE TabTypes'
  <2>1. faults' \in 0 .. MaxFaults
    BY <1>15, FaultKeeps DEF replay_log, TabTypes
  <2> QED BY <1>15, <2>1 DEF TabTypes, replay_log, Spoil, positionVars, socketVars
<1>16. ASSUME NEW t \in Tabs, replay_frame(t) PROVE TabTypes'
  BY <1>16 DEF TabTypes, replay_frame, positionVars, socketVars, historyVars
<1>17. ASSUME NEW t \in Tabs, replay_end(t) PROVE TabTypes'
  <2>1. faults' \in 0 .. MaxFaults
    BY <1>17, FaultKeeps DEF replay_end, TabTypes
  <2> QED BY <1>17, <2>1 DEF TabTypes, replay_end, Spoil, positionVars, socketVars
<1>18. ASSUME NEW t \in Tabs, replay_timeout(t) PROVE TabTypes'
  <2>1. faults' \in 0 .. MaxFaults
    BY <1>18, FaultKeeps DEF replay_timeout
  <2> QED BY <1>18, <2>1 DEF TabTypes, replay_timeout, Spoil, positionVars, socketVars
<1>19. ASSUME NEW f \in Edits, broadcast(f) PROVE TabTypes'
  BY <1>19 DEF TabTypes, broadcast, positionVars, socketVars, historyVars
<1>20. ASSUME NEW f \in Edits, broadcast_text(f) PROVE TabTypes'
  BY <1>20 DEF TabTypes, broadcast_text, positionVars, socketVars, historyVars
<1>21. ASSUME NEW f \in Edits, NEW t \in Tabs, write(f, t) PROVE TabTypes'
  BY <1>21 DEF TabTypes, write, positionVars, socketVars, historyVars
<1>22. ASSUME NEW f \in Edits, NEW t \in Tabs, write_timeout(f, t) PROVE TabTypes'
  <2>1. faults' \in 0 .. MaxFaults
    BY <1>22, FaultKeeps DEF write_timeout
  <2> QED BY <1>22, <2>1 DEF TabTypes, write_timeout, Spoil, positionVars, socketVars
<1>23. CASE UNCHANGED vars
  BY <1>23 DEF TabTypes, vars
<1> QED BY <1>1, <1>2, <1>3, <1>4, <1>5, <1>6, <1>7, <1>8, <1>9, <1>10, <1>11, <1>12, <1>13, <1>14, <1>15, <1>16, <1>17, <1>18, <1>19, <1>20, <1>21, <1>22, <1>23 DEF Next, Tab, Handler, Relay

-----------------------------------------------------------------------------
(* Each step keeps the log well formed.                                    *)

\* The larger of two naturals (the floor store_version leaves).
LEMMA MaxOfTwo ==
    ASSUME NEW a \in Nat, NEW b \in Nat
    PROVE  Max({a, b}) = IF a <= b THEN b ELSE a
<1> DEFINE m == IF a <= b THEN b ELSE a
<1>1. {a, b} \subseteq Nat /\ m \in {a, b} /\ \A y \in {a, b} : y <= m
  OBVIOUS
<1> HIDE DEF m
<1>2. Max({a, b}) = m
  BY <1>1, MaxIs
<1> QED BY <1>2 DEF m

\* A frame is kept once, at the position after the last.
LEMMA Persisted ==
    ASSUME CollabInv, NEW t \in Tabs, persist_frame(t)
    PROVE  \E f \in Edits :
              /\ f = toServer[t][1].frame /\ toServer[t][1].type = "frame" /\ 1 \in DOMAIN toServer[t]
              /\ f \notin KeptFrames /\ relay[f].step = "none" /\ by[f] = t
              /\ kept' = kept \cup {Entry(Top + 1, f)}
              /\ log' = log \cup {Entry(Top + 1, f)}
              /\ relay' = [relay EXCEPT ![f] = [step |-> "kept", seq |-> Top + 1, to |-> {}]]
              /\ Top \in Nat /\ Top' = Top + 1
<1> DEFINE f == Head(toServer[t]).frame
<1>1. /\ f \in Edits /\ Head(toServer[t]) = toServer[t][1]
      /\ toServer[t][1].type = "frame" /\ 1 \in DOMAIN toServer[t]
  BY ServerHead DEF CollabInv, TypeInv, persist_frame, Next_message
<1>2. by[f] = t /\ relay[f].step = "none"
  BY <1>1 DEF CollabInv, FramesInv, UnderWay
<1>3. f \notin KeptFrames
  BY <1>2 DEF CollabInv, LogShape, KeptFrames
<1>4. NextPosition = Top + 1 /\ Top \in Nat /\ IsFiniteSet(KeptFrames)
  BY HeadIs, TopIs DEF CollabInv, TypeInv, NextPosition
<1>5. /\ kept' = kept \cup {Entry(Top + 1, f)}
      /\ log' = log \cup {Entry(Top + 1, f)}
      /\ relay' = [relay EXCEPT ![f] = [step |-> "kept", seq |-> Top + 1, to |-> {}]]
  BY <1>4 DEF persist_frame
<1>6. KeptFrames' = KeptFrames \cup {f}
  <2>1. Entry(Top + 1, f).frame = f
    BY DEF Entry
  <2> HIDE DEF f
  <2> QED BY <1>5, <2>1 DEF KeptFrames
<1>7. Top' = Top + 1
  BY <1>3, <1>4, <1>6, FS_AddElement DEF Top
<1> QED BY <1>1, <1>2, <1>3, <1>4, <1>5, <1>7

\* What a version at a tab's position does to the log.
LEMMA VersionStored ==
    ASSUME CollabInv, NEW t \in Tabs, store_version(t)
    PROVE  \E n \in 0 .. Top :
              /\ n = saving[t].seq
              /\ versions' = Append(versions, [state |-> saving[t].state, seq |-> n, sound |-> saving[t].sound])
              /\ log' = {k \in log : k.seq > n}
              /\ floor' = IF floor <= n THEN n ELSE floor
              /\ saving[t].step = "sent" /\ saving' = [saving EXCEPT ![t] = NoSave]
<1>1. Top \in Nat /\ log_head = Top /\ saving[t].seq \in Nat /\ saving[t].seq <= Top /\ floor \in Nat
  BY HeadIs DEF CollabInv, TypeInv, TabTypes, LogTypes, Saves, BoundsInv, Counted
<1> DEFINE n == Min({saving[t].seq, log_head})
<1>2. n = saving[t].seq
  BY <1>1, MinOfTwo
<1>3. floor' = Max({floor, n}) /\ log' = IF n > 0 THEN Trimmed(n) ELSE log
  BY DEF store_version
<1>4. floor' = IF floor <= n THEN n ELSE floor
  BY <1>1, <1>2, <1>3, MaxOfTwo
<1> HIDE DEF n
<1>5. log' = {k \in log : k.seq > n}
  <2>1. CASE n > 0
    BY <1>3, <2>1 DEF Trimmed
  <2>2. CASE n = 0
    <3>1. \A k \in log : k.seq > 0
      BY DEF CollabInv, TypeInv, LogTypes, LogShape
    <3> QED BY <1>3, <2>2, <3>1
  <2> QED BY <1>1, <1>2, <2>1, <2>2
<1>6. /\ versions' = Append(versions, [state |-> saving[t].state, seq |-> n, sound |-> saving[t].sound])
      /\ saving[t].step = "sent" /\ saving' = [saving EXCEPT ![t] = NoSave]
  BY DEF store_version, n
<1>7. n \in 0 .. Top
  BY <1>1, <1>2
<1> QED BY <1>2, <1>4, <1>5, <1>6, <1>7

\* Relaying moves no frame and gives no position.
LEMMA SameShape ==
    ASSUME LogShape, kept' = kept, log' = log, floor' = floor,
           \A f \in Edits : relay'[f].seq = relay[f].seq /\ (relay'[f].step = "none" <=> relay[f].step = "none"),
           LogTypes
    PROVE  LogShape'
<1>1. Top' = Top
  BY DEF Top, KeptFrames
<1>2. \A k \in kept : k.frame \in Edits
  BY DEF LogTypes
<1> QED BY <1>1, <1>2 DEF LogShape

\* Each action keeps positions dense and given once: persist_frame adds the next one,
\* store_version moves the floor and trims below it.
LEMMA LogShapeStep ==
    ASSUME CollabInv, [Next]_vars
    PROVE  LogShape'
<1> USE DEF CollabInv, TypeInv
<1>1. ASSUME NEW t \in Tabs, openCollabSession(t) PROVE LogShape'
  BY <1>1, SameShape DEF openCollabSession, serverVars, relayVars
<1>2. ASSUME NEW t \in Tabs, NEW f \in Edits, onLocalUpdate(t, f) PROVE LogShape'
  BY <1>2, SameShape DEF onLocalUpdate, serverVars, relayVars
<1>3. ASSUME NEW t \in Tabs, connect(t) PROVE LogShape'
  BY <1>3, SameShape DEF connect, serverVars, relayVars
<1>4. ASSUME NEW t \in Tabs, disconnect(t) PROVE LogShape'
  <2>1. \A g \in Edits : relay'[g] = [relay[g] EXCEPT !.to = @ \ {t}]
    BY <1>4 DEF disconnect, Gone
  <2>2. \A g \in Edits : relay'[g].seq = relay[g].seq /\ relay'[g].step = relay[g].step
    BY <2>1, ReceiverGone
  <2> QED BY <1>4, <2>2, SameShape DEF disconnect, serverVars
<1>5. ASSUME NEW t \in Tabs, onFrame(t) PROVE LogShape'
  BY <1>5, SameShape DEF onFrame, serverVars, relayVars
<1>6. ASSUME NEW t \in Tabs, onStored(t) PROVE LogShape'
  BY <1>6, SameShape DEF onStored, serverVars, relayVars
<1>7. ASSUME NEW t \in Tabs, onReplayed(t) PROVE LogShape'
  BY <1>7, SameShape DEF onReplayed, serverVars, relayVars
<1>8. ASSUME NEW t \in Tabs, snapshot(t) PROVE LogShape'
  BY <1>8, SameShape DEF snapshot, serverVars, relayVars
<1>9. ASSUME NEW t \in Tabs, createVersion(t) PROVE LogShape'
  BY <1>9, SameShape DEF createVersion, serverVars, relayVars
<1>10. ASSUME NEW t \in Tabs, store_version(t) PROVE LogShape'
  <2>1. PICK n \in 0 .. Top : log' = {k \in log : k.seq > n} /\ floor' = IF floor <= n THEN n ELSE floor
    BY <1>10, VersionStored
  <2>2. kept' = kept /\ relay' = relay
    BY <1>10 DEF store_version, relayVars
  <2>3. Top' = Top /\ Top \in Nat /\ floor \in Nat /\ \A k \in kept : k.seq \in Nat
    BY <2>2, TopIs DEF Top, KeptFrames, LogTypes
  <2>4. floor' <= Top'
    BY <2>1, <2>3 DEF LogShape
  <2>5. log' = {k \in kept' : k.seq > floor'}
    BY <2>1, <2>2, <2>3 DEF LogShape
  <2> QED BY <2>2, <2>3, <2>4, <2>5 DEF LogShape
<1>11. ASSUME NEW t \in Tabs, save_failed(t) PROVE LogShape'
  BY <1>11, SameShape DEF save_failed, serverVars, relayVars
<1>12. ASSUME NEW t \in Tabs, join(t) PROVE LogShape'
  BY <1>12, SameShape DEF join, serverVars
<1>13. ASSUME NEW t \in Tabs, persist_frame(t) PROVE LogShape'
  <2>1. PICK f \in Edits :
           /\ f \notin KeptFrames /\ relay[f].step = "none"
           /\ kept' = kept \cup {Entry(Top + 1, f)}
           /\ log' = log \cup {Entry(Top + 1, f)}
           /\ relay' = [relay EXCEPT ![f] = [step |-> "kept", seq |-> Top + 1, to |-> {}]]
           /\ Top \in Nat /\ Top' = Top + 1
    BY <1>13, Persisted
  <2>2. floor' = floor /\ floor \in Nat /\ \A k \in kept : k.seq \in Nat /\ k.frame \in Edits
    BY <1>13 DEF persist_frame, LogTypes
  <2>3. Entry(Top + 1, f).seq = Top + 1 /\ Entry(Top + 1, f).frame = f
    BY DEF Entry
  <2>4. \A k \in kept : k.frame # f
    BY <2>1 DEF KeptFrames
  <2>5. relay'[f].step = "kept" /\ relay'[f].seq = Top + 1 /\ \A g \in Edits \ {f} : relay'[g] = relay[g]
    BY <2>1 DEF LogTypes
  <2>6. floor' <= Top' /\ log' = {k \in kept' : k.seq > floor'}
    BY <2>1, <2>2, <2>3 DEF LogShape
  <2>7. \A k \in kept' : k.seq >= 1 /\ k.seq <= Top'
    BY <2>1, <2>2, <2>3 DEF LogShape
  <2>8. \A j, k \in kept' : j.seq = k.seq => j = k
    BY <2>1, <2>2, <2>3 DEF LogShape
  <2>9. \A k \in kept' : relay'[k.frame].step # "none" /\ relay'[k.frame].seq = k.seq
    BY <2>1, <2>2, <2>3, <2>4, <2>5 DEF LogShape
  <2>10. \A g \in Edits : relay'[g].step # "none" => Entry(relay'[g].seq, g) \in kept'
    BY <2>1, <2>5 DEF LogShape
  <2>11. \A n \in 1 .. Top' : \E k \in kept' : k.seq = n
    BY <2>1, <2>3 DEF LogShape
  <2>12. \A g \in Edits : relay'[g].step = "none" => relay'[g].seq = 0
    BY <2>1, <2>5 DEF LogShape
  <2> QED BY <2>6, <2>7, <2>8, <2>9, <2>10, <2>11, <2>12 DEF LogShape
<1>14. ASSUME NEW t \in Tabs, frame_dropped(t) PROVE LogShape'
  BY <1>14, SameShape DEF frame_dropped, serverVars, relayVars
<1>15. ASSUME NEW t \in Tabs, replay_log(t) PROVE LogShape'
  BY <1>15, SameShape DEF replay_log, serverVars
<1>16. ASSUME NEW t \in Tabs, replay_frame(t) PROVE LogShape'
  BY <1>16, SameShape DEF replay_frame, serverVars
<1>17. ASSUME NEW t \in Tabs, replay_end(t) PROVE LogShape'
  BY <1>17, SameShape DEF replay_end, serverVars
<1>18. ASSUME NEW t \in Tabs, replay_timeout(t) PROVE LogShape'
  BY <1>18, SameShape DEF replay_timeout, serverVars
<1>19. ASSUME NEW f \in Edits, broadcast(f) PROVE LogShape'
  <2>1. \A g \in Edits : /\ relay'[g].seq = relay[g].seq
                         /\ relay'[g].step = "none" <=> relay[g].step = "none"
    BY <1>19 DEF broadcast, LogTypes, Relays
  <2> QED BY <1>19, <2>1, SameShape DEF broadcast, serverVars
<1>20. ASSUME NEW f \in Edits, broadcast_text(f) PROVE LogShape'
  <2>1. \A g \in Edits : /\ relay'[g].seq = relay[g].seq
                         /\ relay'[g].step = "none" <=> relay[g].step = "none"
    BY <1>20 DEF broadcast_text, LogTypes, Relays
  <2> QED BY <1>20, <2>1, SameShape DEF broadcast_text, serverVars
<1>21. ASSUME NEW f \in Edits, NEW t \in Tabs, write(f, t) PROVE LogShape'
  <2>1. \A g \in Edits : /\ relay'[g].seq = relay[g].seq
                         /\ relay'[g].step = "none" <=> relay[g].step = "none"
    BY <1>21 DEF write, LogTypes, Relays
  <2> QED BY <1>21, <2>1, SameShape DEF write, serverVars
<1>22. ASSUME NEW f \in Edits, NEW t \in Tabs, write_timeout(f, t) PROVE LogShape'
  <2>1. \A g \in Edits : relay'[g] = relay[g] \/ relay'[g] = [relay[g] EXCEPT !.to = @ \ {t}]
    BY <1>22 DEF write_timeout, Gone, LogTypes
  <2>2. \A g \in Edits : relay'[g].seq = relay[g].seq /\ relay'[g].step = relay[g].step
    BY <2>1, ReceiverGone
  <2> QED BY <1>22, <2>2, SameShape DEF write_timeout, serverVars
<1>23. CASE UNCHANGED vars
  BY <1>23, SameShape DEF vars
<1> QED BY <1>1, <1>2, <1>3, <1>4, <1>5, <1>6, <1>7, <1>8, <1>9, <1>10, <1>11, <1>12, <1>13, <1>14, <1>15, <1>16, <1>17, <1>18, <1>19, <1>20, <1>21, <1>22, <1>23 DEF Next, Tab, Handler, Relay

-----------------------------------------------------------------------------
(* Each step keeps every edit going to the server once.                    *)

\* Whatever waits is a message or an edit.
LEMMA WaitingTyped ==
    ASSUME WireTypes, NEW t \in Tabs
    PROVE  /\ \A i \in DOMAIN toServer[t] :
                 toServer[t][i].type = "frame" => toServer[t][i].frame \in Edits
                                                  /\ toServer[t][i] = FrameMsg(toServer[t][i].frame)
           /\ \A i \in DOMAIN pending[t] : pending[t][i] \in Edits
<1>1. toServer[t] \in Seq(ServerMsgs) /\ pending[t] \in Seq(Edits)
  BY DEF WireTypes
<1>2. \A m \in ServerMsgs : m.type = "frame" => m.frame \in Edits /\ m = FrameMsg(m.frame)
  BY DEF ServerMsgs, FrameMsgs, ResumeMsgs, FrameMsg
<1> QED BY <1>1, <1>2

\* Relaying and receiving move nothing towards the server.
LEMMA SameFrames ==
    ASSUME CollabInv, UNCHANGED <<toServer, pending, by>>,
           \A f \in Edits : relay[f].step = "none" => relay'[f].step = "none",
           open \subseteq open', \A t \in open : doc[t] \subseteq doc'[t]
    PROVE  FramesInv'
<1>1. \A t \in Tabs : UnderWay(t)' /\ Waiting(t)'
  BY WaitingTyped DEF CollabInv, TypeInv, FramesInv, UnderWay, Waiting
<1>2. \A f \in Edits : MadeIn(f)'
  BY DEF CollabInv, FramesInv, MadeIn
<1> QED BY <1>1, <1>2 DEF FramesInv

\* Nor does a message that is taken.
LEMMA FewerFrames ==
    ASSUME CollabInv, NEW t \in Tabs, UNCHANGED <<pending, by, open, doc>>,
           \A f \in Edits : relay[f].step = "none" => relay'[f].step = "none",
           \/ toServer[t] # <<>> /\ toServer' = [toServer EXCEPT ![t] = Tail(@)]
           \/ toServer' = [toServer EXCEPT ![t] = <<>>]
    PROVE  FramesInv'
<1>1. toServer \in [Tabs -> Seq(ServerMsgs)]
  BY DEF CollabInv, TypeInv, WireTypes
<1>2. \A u \in Tabs : UnderWay(u)'
  <2>1. ASSUME NEW u \in Tabs, u # t PROVE UnderWay(u)'
    <3>1. toServer'[u] = toServer[u]
      BY <1>1, <2>1
    <3> QED BY <3>1, WaitingTyped DEF CollabInv, TypeInv, FramesInv, UnderWay
  <2>2. ASSUME toServer'[t] = <<>> PROVE UnderWay(t)'
    <3>1. DOMAIN toServer'[t] = {}
      BY <2>2
    <3> QED BY <3>1 DEF UnderWay
  <2>3. ASSUME toServer[t] # <<>>, toServer'[t] = Tail(toServer[t]) PROVE UnderWay(t)'
    <3>1. toServer[t] \in Seq(ServerMsgs)
      BY <1>1
    <3>2. \A i \in DOMAIN toServer'[t] : i + 1 \in DOMAIN toServer[t] /\ toServer'[t][i] = toServer[t][i + 1]
                                         /\ i \in Nat
      BY <2>3, <3>1
    <3>3. UnderWay(t)
      BY DEF CollabInv, FramesInv
    <3>4. \A i \in DOMAIN toServer'[t] : toServer'[t][i].type = "frame" =>
             toServer'[t][i].frame \in Edits
      BY <3>2, WaitingTyped DEF CollabInv, TypeInv
    <3>5. \A i \in DOMAIN toServer'[t] : toServer'[t][i].type = "frame" =>
             /\ by'[toServer'[t][i].frame] = t
             /\ relay'[toServer'[t][i].frame].step = "none"
      BY <3>2, <3>3, <3>4 DEF UnderWay
    <3>6. \A i, j \in DOMAIN toServer'[t] : 
             toServer'[t][i].type = "frame" /\ toServer'[t][j] = toServer'[t][i] => i = j
      <4> SUFFICES ASSUME NEW i \in DOMAIN toServer'[t], NEW j \in DOMAIN toServer'[t],
                          toServer'[t][i].type = "frame", toServer'[t][j] = toServer'[t][i]
                   PROVE  i = j
        OBVIOUS
      <4>1. toServer[t][j + 1] = toServer[t][i + 1] /\ toServer[t][i + 1].type = "frame"
        BY <3>2
      <4>2. i + 1 = j + 1
        BY <3>2, <3>3, <4>1 DEF UnderWay
      <4> QED BY <3>2, <4>2
    <3> QED BY <3>4, <3>5, <3>6 DEF UnderWay
  <2> QED BY <1>1, <2>1, <2>2, <2>3
<1>3. \A u \in Tabs : Waiting(u)'
  BY WaitingTyped DEF CollabInv, TypeInv, FramesInv, Waiting
<1>4. \A f \in Edits : MadeIn(f)'
  BY DEF CollabInv, FramesInv, MadeIn
<1> QED BY <1>2, <1>3, <1>4 DEF FramesInv

\* Each action keeps an edit's frame in at most one place before it is kept.
LEMMA FramesStep ==
    ASSUME CollabInv, [Next]_vars
    PROVE  FramesInv'
<1> USE DEF CollabInv, TypeInv
<1>1. ASSUME NEW t \in Tabs, openCollabSession(t) PROVE FramesInv'
  <2>1. open \subseteq open' /\ \A u \in open : doc'[u] = doc[u]
    BY <1>1 DEF openCollabSession, TabTypes, SocketInv
  <2> QED BY <1>1, <2>1, SameFrames DEF openCollabSession, wireVars, relayVars, socketVars
<1>2. ASSUME NEW t \in Tabs, NEW f \in Edits, onLocalUpdate(t, f) PROVE FramesInv'
  <2>1. /\ t \in open /\ by[f] = NoTab /\ by' = [by EXCEPT ![f] = t]
        /\ doc' = [doc EXCEPT ![t] = @ \cup {f}]
        /\ relay' = relay /\ open' = open
    BY <1>2 DEF onLocalUpdate, relayVars
  <2>2. relay[f].step = "none"
    BY <2>1 DEF FramesInv, MadeIn
  <2>3. by'[f] = t /\ \A g \in Edits \ {f} : by'[g] = by[g]
    BY <2>1 DEF TabTypes
  <2>4. f \in doc'[t] /\ \A u \in Tabs : doc[u] \subseteq doc'[u]
    BY <2>1 DEF TabTypes
  <2>5. \A g \in Edits : MadeIn(g)'
    BY <2>1, <2>3, <2>4, CollabAssumption DEF FramesInv, MadeIn, TabTypes
  <2>6. ASSUME NEW u \in Tabs, toServer'[u] = toServer[u] PROVE UnderWay(u)'
    <3>1. \A i \in DOMAIN toServer[u] : toServer[u][i].type = "frame" =>
             toServer[u][i].frame \in Edits \ {f}
      BY <2>1, WaitingTyped, CollabAssumption DEF FramesInv, UnderWay
    <3> QED BY <2>1, <2>3, <2>6, <3>1 DEF FramesInv, UnderWay
  <2>7. ASSUME NEW u \in Tabs, pending'[u] = pending[u] PROVE Waiting(u)'
    <3>1. \A i \in DOMAIN pending[u] : pending[u][i] \in Edits \ {f}
      BY <2>1, WaitingTyped, CollabAssumption DEF FramesInv, Waiting
    <3> QED BY <2>1, <2>3, <2>7, <3>1 DEF FramesInv, Waiting
  <2>8. CASE t \in online
    <3>1. toServer' = [toServer EXCEPT ![t] = Append(@, FrameMsg(f))] /\ pending' = pending
      BY <1>2, <2>8 DEF onLocalUpdate
    <3>2. toServer[t] \in Seq(ServerMsgs) /\ toServer'[t] = Append(toServer[t], FrameMsg(f))
      BY <3>1 DEF WireTypes
    <3>3. /\ \A i \in DOMAIN toServer[t] : toServer'[t][i] = toServer[t][i]
          /\ \A i \in DOMAIN toServer'[t] : i \notin DOMAIN toServer[t] =>
                toServer'[t][i] = FrameMsg(f) /\ i = Len(toServer[t]) + 1
      BY <3>2
    <3>4. FrameMsg(f).frame = f
      BY DEF FrameMsg
    <3>5. \A i \in DOMAIN toServer[t] : toServer[t][i] # FrameMsg(f)
      BY <2>1, <3>4, CollabAssumption DEF FramesInv, UnderWay, FrameMsg
    <3>6. \A i \in DOMAIN toServer[t] : toServer[t][i].type = "frame" =>
             toServer[t][i].frame \in Edits \ {f}
      BY <2>1, WaitingTyped, CollabAssumption DEF FramesInv, UnderWay
    <3>7. \A i \in DOMAIN toServer'[t] : toServer'[t][i].type = "frame" =>
             /\ by'[toServer'[t][i].frame] = t
             /\ relay'[toServer'[t][i].frame].step = "none"
      BY <2>1, <2>2, <2>3, <3>3, <3>4, <3>6 DEF FramesInv, UnderWay
    <3>8. \A i, j \in DOMAIN toServer'[t] :
             toServer'[t][i].type = "frame" /\ toServer'[t][j] = toServer'[t][i] => i = j
      BY <3>3, <3>5 DEF FramesInv, UnderWay
    <3>9. UnderWay(t)'
      BY <3>7, <3>8 DEF UnderWay
    <3>10. \A u \in Tabs \ {t} : toServer'[u] = toServer[u]
      BY <3>1 DEF WireTypes
    <3> QED BY <2>5, <2>6, <2>7, <3>1, <3>9, <3>10 DEF FramesInv
  <2>9. CASE t \notin online
    <3>1. pending' = [pending EXCEPT ![t] = Append(@, f)] /\ toServer' = toServer
      BY <1>2, <2>9 DEF onLocalUpdate
    <3>2. pending[t] \in Seq(Edits) /\ pending'[t] = Append(pending[t], f)
      BY <3>1 DEF WireTypes
    <3>3. /\ \A i \in DOMAIN pending[t] : pending'[t][i] = pending[t][i]
          /\ \A i \in DOMAIN pending'[t] : i \notin DOMAIN pending[t] =>
                pending'[t][i] = f /\ i = Len(pending[t]) + 1
      BY <3>2
    <3>4. \A i \in DOMAIN pending[t] : pending[t][i] \in Edits \ {f}
      BY <2>1, WaitingTyped, CollabAssumption DEF FramesInv, Waiting
    <3>5. \A i \in DOMAIN pending'[t] :
             by'[pending'[t][i]] = t /\ relay'[pending'[t][i]].step = "none"
      BY <2>1, <2>2, <2>3, <3>3, <3>4 DEF FramesInv, Waiting
    <3>6. \A i, j \in DOMAIN pending'[t] : pending'[t][j] = pending'[t][i] => i = j
      BY <3>3, <3>4 DEF FramesInv, Waiting
    <3>7. Waiting(t)'
      BY <3>5, <3>6 DEF Waiting
    <3>8. \A u \in Tabs \ {t} : pending'[u] = pending[u]
      BY <3>1 DEF WireTypes
    <3> QED BY <2>5, <2>6, <2>7, <3>1, <3>7, <3>8 DEF FramesInv
  <2> QED BY <2>8, <2>9
<1>3. ASSUME NEW t \in Tabs, connect(t) PROVE FramesInv'
  <2>1. /\ pending' = [pending EXCEPT ![t] = <<>>]
        /\ toServer' = [toServer EXCEPT ![t] =
              <<ResumeMsg(applied[t])>> \o [i \in DOMAIN pending[t] |-> FrameMsg(pending[t][i])]]
        /\ relay' = relay /\ by' = by /\ open' = open /\ doc' = doc
    BY <1>3 DEF connect, relayVars
  <2>2. applied[t] \in Nat
    BY DEF TabTypes
  <2>3. /\ toServer'[t] \in Seq(ServerMsgs)
        /\ Len(toServer'[t]) = Len(pending[t]) + 1
        /\ toServer'[t][1] = ResumeMsg(applied[t])
        /\ \A i \in DOMAIN pending[t] : toServer'[t][i + 1] = FrameMsg(pending[t][i])
        /\ \A i \in DOMAIN toServer'[t] : i = 1 \/ i - 1 \in DOMAIN pending[t]
    <3>1. toServer'[t] = <<ResumeMsg(applied[t])>> \o [i \in DOMAIN pending[t] |-> FrameMsg(pending[t][i])]
      BY <2>1 DEF WireTypes
    <3> QED BY <2>2, <3>1, Resumed
  <2>4. \A i \in DOMAIN toServer'[t] : i \in Nat /\ (i # 1 => i - 1 \in DOMAIN pending[t] /\ i - 1 \in Nat
                                        /\ toServer'[t][i] = FrameMsg(pending[t][i - 1]))
    BY <2>3
  <2>5. toServer'[t][1].type # "frame" /\ \A f : FrameMsg(f).type = "frame" /\ FrameMsg(f).frame = f
    BY <2>3 DEF ResumeMsg, FrameMsg
  <2>6. \A i \in DOMAIN toServer'[t] : toServer'[t][i].type = "frame" =>
           /\ by'[toServer'[t][i].frame] = t
           /\ relay'[toServer'[t][i].frame].step = "none"
    <3> SUFFICES ASSUME NEW i \in DOMAIN toServer'[t], toServer'[t][i].type = "frame"
                 PROVE  /\ by'[toServer'[t][i].frame] = t
                        /\ relay'[toServer'[t][i].frame].step = "none"
      OBVIOUS
    <3>1. i - 1 \in DOMAIN pending[t] /\ toServer'[t][i].frame = pending[t][i - 1]
      BY <2>4, <2>5
    <3> QED BY <2>1, <3>1 DEF FramesInv, Waiting
  <2>7. ASSUME NEW i \in DOMAIN toServer'[t], NEW j \in DOMAIN toServer'[t],
               toServer'[t][i].type = "frame", toServer'[t][j] = toServer'[t][i]
        PROVE  i = j
    <3>1. i # 1 /\ j # 1
      BY <2>5, <2>7
    <3>2. pending[t][i - 1] = pending[t][j - 1]
      BY <2>4, <2>5, <2>7, <3>1
    <3>3. i - 1 = j - 1
      BY <2>4, <3>1, <3>2 DEF FramesInv, Waiting
    <3> QED BY <2>4, <3>3
  <2>8. UnderWay(t)'
    BY <2>6, <2>7 DEF UnderWay
  <2>9. \A u \in Tabs \ {t} : toServer'[u] = toServer[u] /\ pending'[u] = pending[u]
    BY <2>1 DEF WireTypes
  <2>10. \A u \in Tabs \ {t} : UnderWay(u)' /\ Waiting(u)'
    BY <2>1, <2>9 DEF FramesInv, UnderWay, Waiting
  <2>11. Waiting(t)'
    <3>1. DOMAIN pending'[t] = {}
      BY <2>1 DEF WireTypes
    <3> QED BY <3>1 DEF Waiting
  <2>12. \A f \in Edits : MadeIn(f)'
    BY <2>1 DEF FramesInv, MadeIn
  <2> QED BY <2>8, <2>10, <2>11, <2>12 DEF FramesInv
<1>4. ASSUME NEW t \in Tabs, disconnect(t) PROVE FramesInv'
  <2>1. \A g \in Edits : relay'[g].step = relay[g].step
    BY <1>4 DEF disconnect, Gone, LogTypes, Relays
  <2> QED BY <1>4, <2>1, FewerFrames DEF disconnect, Gone
<1>5. ASSUME NEW t \in Tabs, onFrame(t) PROVE FramesInv'
  <2>1. \A u \in open : doc[u] \subseteq doc'[u]
    BY <1>5 DEF onFrame, TabTypes, SocketInv
  <2> QED BY <1>5, <2>1, SameFrames DEF onFrame, relayVars, socketVars
<1>6. ASSUME NEW t \in Tabs, onStored(t) PROVE FramesInv'
  BY <1>6, SameFrames DEF onStored, relayVars, socketVars
<1>7. ASSUME NEW t \in Tabs, onReplayed(t) PROVE FramesInv'
  <2>1. \A u \in open : doc[u] \subseteq doc'[u]
    BY <1>7 DEF onReplayed, TabTypes, SocketInv
  <2> QED BY <1>7, <2>1, SameFrames DEF onReplayed, relayVars, socketVars
<1>8. ASSUME NEW t \in Tabs, snapshot(t) PROVE FramesInv'
  BY <1>8, SameFrames DEF snapshot, relayVars, wireVars, socketVars
<1>9. ASSUME NEW t \in Tabs, createVersion(t) PROVE FramesInv'
  BY <1>9, SameFrames DEF createVersion, relayVars, wireVars, socketVars
<1>10. ASSUME NEW t \in Tabs, store_version(t) PROVE FramesInv'
  BY <1>10, SameFrames DEF store_version, relayVars, wireVars, socketVars
<1>11. ASSUME NEW t \in Tabs, save_failed(t) PROVE FramesInv'
  BY <1>11, SameFrames DEF save_failed, relayVars, wireVars, socketVars
<1>12. ASSUME NEW t \in Tabs, join(t) PROVE FramesInv'
  BY <1>12, SameFrames DEF join, wireVars, socketVars
<1>13. ASSUME NEW t \in Tabs, persist_frame(t) PROVE FramesInv'
  <2>1. PICK f \in Edits :
           /\ f = toServer[t][1].frame /\ toServer[t][1].type = "frame" /\ 1 \in DOMAIN toServer[t]
           /\ relay[f].step = "none" /\ by[f] = t
           /\ relay' = [relay EXCEPT ![f] = [step |-> "kept", seq |-> Top + 1, to |-> {}]]
    BY <1>13, Persisted
  <2>2. /\ toServer[t] # <<>> /\ toServer' = [toServer EXCEPT ![t] = Tail(@)] /\ t \in room
        /\ UNCHANGED <<pending, by, open, doc>>
    BY <1>13 DEF persist_frame, Next_message, socketVars
  <2>3. \A g \in Edits \ {f} : relay'[g] = relay[g]
    BY <2>1 DEF LogTypes
  <2>4. toServer[t] \in Seq(ServerMsgs) /\ toServer'[t] = Tail(toServer[t])
    BY <2>2 DEF WireTypes
  <2>5. \A i \in DOMAIN toServer'[t] : i + 1 \in DOMAIN toServer[t] /\ toServer'[t][i] = toServer[t][i + 1]
                                       /\ i \in Nat /\ i + 1 # 1
    <3>1. DOMAIN toServer'[t] = 1 .. Len(toServer'[t]) /\ Len(toServer'[t]) \in Nat
      BY <2>2, <2>4
    <3>2. toServer[t] # <<>>
      BY <2>2
    <3>3. \A i \in DOMAIN toServer'[t] : i + 1 \in DOMAIN toServer[t] /\ toServer'[t][i] = toServer[t][i + 1]
      BY <2>4, <3>2
    <3> QED BY <3>1, <3>3
  <2>6. UnderWay(t) /\ toServer[t][1] = FrameMsg(f)
    BY <2>1, WaitingTyped DEF FramesInv
  <2>7. \A i \in DOMAIN toServer'[t] : toServer'[t][i].type = "frame" =>
           toServer'[t][i].frame \in Edits \ {f}
    <3> SUFFICES ASSUME NEW i \in DOMAIN toServer'[t], toServer'[t][i].type = "frame"
                 PROVE  toServer'[t][i].frame \in Edits \ {f}
      OBVIOUS
    <3>1. toServer[t][i + 1].frame \in Edits /\ toServer[t][i + 1] = FrameMsg(toServer[t][i + 1].frame)
      BY <2>5, WaitingTyped
    <3>2. toServer[t][i + 1] # toServer[t][1]
      <4>1. \A j \in DOMAIN toServer[t] : toServer[t][j] = toServer[t][1] => 1 = j
        BY <2>1, <2>6 DEF UnderWay
      <4> QED BY <2>5, <4>1
    <3> QED BY <2>5, <2>6, <3>1, <3>2
  <2>8. \A i \in DOMAIN toServer'[t] : toServer'[t][i].type = "frame" =>
           /\ by'[toServer'[t][i].frame] = t
           /\ relay'[toServer'[t][i].frame].step = "none"
    BY <2>2, <2>3, <2>5, <2>6, <2>7 DEF UnderWay
  <2>9. ASSUME NEW i \in DOMAIN toServer'[t], NEW j \in DOMAIN toServer'[t],
               toServer'[t][i].type = "frame", toServer'[t][j] = toServer'[t][i]
        PROVE  i = j
    <3>1. i + 1 = j + 1
      BY <2>5, <2>6, <2>9 DEF UnderWay
    <3> QED BY <2>5, <3>1
  <2>10. UnderWay(t)'
    BY <2>8, <2>9 DEF UnderWay
  <2>11. ASSUME NEW u \in Tabs \ {t} PROVE UnderWay(u)'
    <3>1. toServer'[u] = toServer[u]
      BY <2>2 DEF WireTypes
    <3>2. \A i \in DOMAIN toServer[u] : toServer[u][i].type = "frame" => toServer[u][i].frame \in Edits \ {f}
      BY <2>1, WaitingTyped DEF FramesInv, UnderWay
    <3> QED BY <2>2, <2>3, <3>1, <3>2 DEF FramesInv, UnderWay
  <2>12. ASSUME NEW u \in Tabs PROVE Waiting(u)'
    <3>1. pending[t] = <<>>
      BY <2>2 DEF SocketInv, Nested, SocketTrue
    <3>2. \A i \in DOMAIN pending[u] : pending[u][i] \in Edits \ {f}
      BY <2>1, <3>1, WaitingTyped DEF FramesInv, Waiting
    <3> QED BY <2>2, <2>3, <3>2 DEF FramesInv, Waiting
  <2>13. \A g \in Edits : MadeIn(g)'
    BY <2>1, <2>2, <2>3, CollabAssumption DEF FramesInv, MadeIn
  <2> QED BY <2>10, <2>11, <2>12, <2>13 DEF FramesInv
<1>14. ASSUME NEW t \in Tabs, frame_dropped(t) PROVE FramesInv'
  BY <1>14, FewerFrames DEF frame_dropped, Next_message, relayVars, socketVars
<1>15. ASSUME NEW t \in Tabs, replay_log(t) PROVE FramesInv'
  BY <1>15, FewerFrames DEF replay_log, Next_message, relayVars, socketVars
<1>16. ASSUME NEW t \in Tabs, replay_frame(t) PROVE FramesInv'
  BY <1>16, SameFrames DEF replay_frame, socketVars
<1>17. ASSUME NEW t \in Tabs, replay_end(t) PROVE FramesInv'
  BY <1>17, SameFrames DEF replay_end, socketVars
<1>18. ASSUME NEW t \in Tabs, replay_timeout(t) PROVE FramesInv'
  BY <1>18, SameFrames DEF replay_timeout, wireVars, socketVars
<1>19. ASSUME NEW f \in Edits, broadcast(f) PROVE FramesInv'
  <2>1. \A g \in Edits : relay[g].step = "none" => relay'[g].step = "none"
    BY <1>19 DEF broadcast, LogTypes, Relays
  <2> QED BY <1>19, <2>1, SameFrames DEF broadcast, wireVars, socketVars
<1>20. ASSUME NEW f \in Edits, broadcast_text(f) PROVE FramesInv'
  <2>1. \A g \in Edits : relay[g].step = "none" => relay'[g].step = "none"
    BY <1>20 DEF broadcast_text, LogTypes, Relays
  <2> QED BY <1>20, <2>1, SameFrames DEF broadcast_text, wireVars, socketVars
<1>21. ASSUME NEW f \in Edits, NEW t \in Tabs, write(f, t) PROVE FramesInv'
  <2>1. \A g \in Edits : relay[g].step = "none" => relay'[g].step = "none"
    BY <1>21 DEF write, LogTypes, Relays
  <2> QED BY <1>21, <2>1, SameFrames DEF write, wireVars, socketVars
<1>22. ASSUME NEW f \in Edits, NEW t \in Tabs, write_timeout(f, t) PROVE FramesInv'
  <2>1. \A g \in Edits : relay'[g] = relay[g] \/ relay'[g] = [relay[g] EXCEPT !.to = @ \ {t}]
    BY <1>22 DEF write_timeout, Gone, LogTypes
  <2>2. \A g \in Edits : relay'[g].step = relay[g].step
    BY <2>1, ReceiverGone
  <2>3. CASE Busy(t)
    BY <1>22, <2>2, <2>3, SameFrames DEF write_timeout, wireVars
  <2>4. CASE ~ Busy(t)
    <3>1. toServer' = [toServer EXCEPT ![t] = <<>>] /\ UNCHANGED <<pending, by, open, doc>>
      BY <1>22, <2>4 DEF write_timeout, Gone
    <3> QED BY <2>2, <3>1, FewerFrames
  <2> QED BY <2>3, <2>4
<1>23. CASE UNCHANGED vars
  BY <1>23, SameFrames DEF vars
<1> QED BY <1>1, <1>2, <1>3, <1>4, <1>5, <1>6, <1>7, <1>8, <1>9, <1>10, <1>11, <1>12, <1>13, <1>14, <1>15, <1>16, <1>17, <1>18, <1>19, <1>20, <1>21, <1>22, <1>23 DEF Next, Tab, Handler, Relay

-----------------------------------------------------------------------------
(* Each step keeps what is where a tab is.                                 *)

\* Each action keeps a socket's state to the time it is open and in the room.
LEMMA SocketStep ==
    ASSUME CollabInv, [Next]_vars
    PROVE  SocketInv'
<1> USE DEF CollabInv, TypeInv
<1>1. ASSUME NEW t \in Tabs, openCollabSession(t) PROVE SocketInv'
  <2>1. Nested'
    BY <1>1 DEF SocketInv, Nested, SocketTrue, openCollabSession, relayVars, wireVars, socketVars
  <2>2. \A u \in Tabs : SocketTrue(u)'
    BY <1>1 DEF SocketInv, SocketTrue, Nested, LogTypes, WireTypes, TabTypes, NoReplay, NoSave, openCollabSession, relayVars, wireVars, socketVars
  <2>3. \A g \in Edits : Receivers(g)'
    BY <1>1 DEF SocketInv, Receivers, Nested, LogTypes, Relays, openCollabSession, relayVars, wireVars, socketVars
  <2> QED BY <2>1, <2>2, <2>3 DEF SocketInv
<1>2. ASSUME NEW t \in Tabs, NEW f \in Edits, onLocalUpdate(t, f) PROVE SocketInv'
  BY <1>2 DEF SocketInv, Nested, SocketTrue, Receivers, LogTypes, WireTypes, TabTypes, NoReplay, NoSave, onLocalUpdate, relayVars, positionVars
<1>3. ASSUME NEW t \in Tabs, connect(t) PROVE SocketInv'
  <2>1. Nested'
    BY <1>3 DEF SocketInv, Nested, SocketTrue, connect, relayVars, positionVars
  <2>2. \A u \in Tabs : SocketTrue(u)'
    BY <1>3 DEF SocketInv, SocketTrue, Nested, LogTypes, WireTypes, TabTypes, NoReplay, NoSave, connect, relayVars, positionVars
  <2>3. \A g \in Edits : Receivers(g)'
    BY <1>3 DEF SocketInv, Receivers, Nested, LogTypes, Relays, connect, relayVars, positionVars
  <2> QED BY <2>1, <2>2, <2>3 DEF SocketInv
<1>4. ASSUME NEW t \in Tabs, disconnect(t) PROVE SocketInv'
  <2>1. Nested'
    BY <1>4 DEF SocketInv, Nested, SocketTrue, disconnect, Gone, positionVars
  <2>2. \A u \in Tabs : SocketTrue(u)'
    BY <1>4 DEF SocketInv, SocketTrue, Nested, LogTypes, WireTypes, TabTypes, NoReplay, NoSave, disconnect, Gone, positionVars
  <2>3. \A g \in Edits : Receivers(g)'
    BY <1>4 DEF SocketInv, Receivers, Nested, LogTypes, Relays, disconnect, Gone, positionVars
  <2> QED BY <2>1, <2>2, <2>3 DEF SocketInv
<1>5. ASSUME NEW t \in Tabs, onFrame(t) PROVE SocketInv'
  BY <1>5 DEF SocketInv, Nested, SocketTrue, Receivers, LogTypes, WireTypes, TabTypes, NoReplay, NoSave, onFrame, Received, relayVars, positionVars, socketVars
<1>6. ASSUME NEW t \in Tabs, onStored(t) PROVE SocketInv'
  BY <1>6 DEF SocketInv, Nested, SocketTrue, Receivers, LogTypes, WireTypes, TabTypes, NoReplay, NoSave, onStored, Received, Moved, relayVars, socketVars
<1>7. ASSUME NEW t \in Tabs, onReplayed(t) PROVE SocketInv'
  <2>1. Nested'
    BY <1>7 DEF SocketInv, Nested, SocketTrue, onReplayed, Received, Moved, relayVars
  <2>2. \A u \in Tabs : SocketTrue(u)'
    BY <1>7 DEF SocketInv, SocketTrue, Nested, LogTypes, WireTypes, TabTypes, NoReplay, NoSave, onReplayed, Received, Moved, relayVars
  <2>3. \A g \in Edits : Receivers(g)'
    BY <1>7 DEF SocketInv, Receivers, Nested, LogTypes, Relays, onReplayed, Received, Moved, relayVars
  <2> QED BY <2>1, <2>2, <2>3 DEF SocketInv
<1>8. ASSUME NEW t \in Tabs, snapshot(t) PROVE SocketInv'
  BY <1>8 DEF SocketInv, Nested, SocketTrue, Receivers, LogTypes, WireTypes, TabTypes, NoReplay, NoSave, snapshot, relayVars, wireVars, positionVars, socketVars
<1>9. ASSUME NEW t \in Tabs, createVersion(t) PROVE SocketInv'
  BY <1>9 DEF SocketInv, Nested, SocketTrue, Receivers, LogTypes, WireTypes, TabTypes, NoReplay, NoSave, createVersion, getSeq, relayVars, wireVars, positionVars, socketVars
<1>10. ASSUME NEW t \in Tabs, store_version(t) PROVE SocketInv'
  BY <1>10 DEF SocketInv, Nested, SocketTrue, Receivers, LogTypes, WireTypes, TabTypes, NoReplay, NoSave, store_version, Trimmed, relayVars, wireVars, positionVars, socketVars
<1>11. ASSUME NEW t \in Tabs, save_failed(t) PROVE SocketInv'
  BY <1>11 DEF SocketInv, Nested, SocketTrue, Receivers, LogTypes, WireTypes, TabTypes, NoReplay, NoSave, save_failed, relayVars, wireVars, positionVars, socketVars
<1>12. ASSUME NEW t \in Tabs, join(t) PROVE SocketInv'
  <2>1. Nested'
    BY <1>12 DEF SocketInv, Nested, SocketTrue, join, wireVars, positionVars, socketVars
  <2>2. \A u \in Tabs : SocketTrue(u)'
    BY <1>12 DEF SocketInv, SocketTrue, Nested, LogTypes, WireTypes, TabTypes, NoReplay, NoSave, join, wireVars, positionVars, socketVars
  <2>3. \A g \in Edits : Receivers(g)'
    BY <1>12 DEF SocketInv, Receivers, Nested, LogTypes, Relays, join, wireVars, positionVars, socketVars
  <2> QED BY <2>1, <2>2, <2>3 DEF SocketInv
<1>13. ASSUME NEW t \in Tabs, persist_frame(t) PROVE SocketInv'
  <2>1. Nested'
    BY <1>13 DEF SocketInv, Nested, SocketTrue, persist_frame, Next_message, positionVars, socketVars
  <2>2. \A u \in Tabs : SocketTrue(u)'
    BY <1>13 DEF SocketInv, SocketTrue, Nested, LogTypes, WireTypes, TabTypes, NoReplay, NoSave, persist_frame, Next_message, positionVars, socketVars
  <2>3. \A g \in Edits : Receivers(g)'
    BY <1>13 DEF SocketInv, Receivers, Nested, LogTypes, Relays, persist_frame, Next_message, positionVars, socketVars
  <2> QED BY <2>1, <2>2, <2>3 DEF SocketInv
<1>14. ASSUME NEW t \in Tabs, frame_dropped(t) PROVE SocketInv'
  BY <1>14 DEF SocketInv, Nested, SocketTrue, Receivers, LogTypes, WireTypes, TabTypes, NoReplay, NoSave, frame_dropped, Next_message, relayVars, positionVars, socketVars
<1>15. ASSUME NEW t \in Tabs, replay_log(t) PROVE SocketInv'
  BY <1>15 DEF SocketInv, Nested, SocketTrue, Receivers, LogTypes, WireTypes, TabTypes, NoReplay, NoSave, replay_log, Next_message, Rows, positionVars, socketVars
<1>16. ASSUME NEW t \in Tabs, replay_frame(t) PROVE SocketInv'
  BY <1>16 DEF SocketInv, Nested, SocketTrue, Receivers, LogTypes, WireTypes, TabTypes, NoReplay, NoSave, replay_frame, Lowest, positionVars, socketVars
<1>17. ASSUME NEW t \in Tabs, replay_end(t) PROVE SocketInv'
  BY <1>17 DEF SocketInv, Nested, SocketTrue, Receivers, LogTypes, WireTypes, TabTypes, NoReplay, NoSave, replay_end, positionVars, socketVars
<1>18. ASSUME NEW t \in Tabs, replay_timeout(t) PROVE SocketInv'
  BY <1>18 DEF SocketInv, Nested, SocketTrue, Receivers, LogTypes, WireTypes, TabTypes, NoReplay, NoSave, replay_timeout, wireVars, positionVars, socketVars
<1>19. ASSUME NEW f \in Edits, broadcast(f) PROVE SocketInv'
  <2>1. Nested'
    BY <1>19 DEF SocketInv, Nested, SocketTrue, broadcast, wireVars, positionVars, socketVars
  <2>2. \A u \in Tabs : SocketTrue(u)'
    BY <1>19 DEF SocketInv, SocketTrue, Nested, LogTypes, WireTypes, TabTypes, NoReplay, NoSave, broadcast, wireVars, positionVars, socketVars
  <2>3. \A g \in Edits : Receivers(g)'
    BY <1>19 DEF SocketInv, Receivers, Nested, LogTypes, Relays, broadcast, wireVars, positionVars, socketVars
  <2> QED BY <2>1, <2>2, <2>3 DEF SocketInv
<1>20. ASSUME NEW f \in Edits, broadcast_text(f) PROVE SocketInv'
  <2>1. Nested'
    BY <1>20 DEF SocketInv, Nested, SocketTrue, broadcast_text, wireVars, positionVars, socketVars
  <2>2. \A u \in Tabs : SocketTrue(u)'
    BY <1>20 DEF SocketInv, SocketTrue, Nested, LogTypes, WireTypes, TabTypes, NoReplay, NoSave, broadcast_text, wireVars, positionVars, socketVars
  <2>3. \A g \in Edits : Receivers(g)'
    BY <1>20 DEF SocketInv, Receivers, Nested, LogTypes, Relays, broadcast_text, wireVars, positionVars, socketVars
  <2> QED BY <2>1, <2>2, <2>3 DEF SocketInv
<1>21. ASSUME NEW f \in Edits, NEW t \in Tabs, write(f, t) PROVE SocketInv'
  <2>1. Nested'
    BY <1>21 DEF SocketInv, Nested, SocketTrue, write, positionVars, socketVars
  <2>2. \A u \in Tabs : SocketTrue(u)'
    BY <1>21 DEF SocketInv, SocketTrue, Receivers, Nested, LogTypes, WireTypes, TabTypes, NoReplay, NoSave, write, positionVars, socketVars
  <2>3. \A g \in Edits : Receivers(g)'
    BY <1>21 DEF SocketInv, Receivers, Nested, LogTypes, Relays, write, positionVars, socketVars
  <2> QED BY <2>1, <2>2, <2>3 DEF SocketInv
<1>22. ASSUME NEW f \in Edits, NEW t \in Tabs, write_timeout(f, t) PROVE SocketInv'
  <2>1. Nested'
    BY <1>22 DEF SocketInv, Nested, SocketTrue, write_timeout, Gone, wireVars, positionVars
  <2>2. \A u \in Tabs : SocketTrue(u)'
    <3>1. UNCHANGED <<pending, open, announced, applied, saving>>
      BY <1>22 DEF write_timeout, positionVars
    <3>2. CASE Busy(t)
      <4>1. UNCHANGED <<room, replay, toServer, toTab, online>>
        BY <1>22, <3>2 DEF write_timeout, wireVars
      <4> QED BY <3>1, <4>1 DEF SocketInv, SocketTrue
    <3>3. CASE ~ Busy(t)
      <4>1. /\ online' = online \ {t} /\ room' = room \ {t}
            /\ replay' = [replay EXCEPT ![t] = NoReplay]
            /\ toServer' = [toServer EXCEPT ![t] = <<>>] /\ toTab' = [toTab EXCEPT ![t] = <<>>]
        BY <1>22, <3>3 DEF write_timeout, Gone
      <4>2. \A u \in Tabs : /\ u = t => ~ replay'[u].on /\ toServer'[u] = <<>> /\ toTab'[u] = <<>>
                            /\ u # t => /\ replay'[u] = replay[u]
                                        /\ toServer'[u] = toServer[u] /\ toTab'[u] = toTab[u]
        BY <4>1 DEF LogTypes, WireTypes, NoReplay
      <4>3. pending[t] = <<>>
        BY <1>22 DEF write_timeout, SocketInv, Receivers, Nested, SocketTrue
      <4> QED BY <3>1, <4>1, <4>2, <4>3 DEF SocketInv, SocketTrue
    <3> QED BY <3>2, <3>3
  <2>3. \A g \in Edits : Receivers(g)'
    BY <1>22 DEF SocketInv, Receivers, Nested, LogTypes, Relays, write_timeout, Gone, wireVars, positionVars
  <2> QED BY <2>1, <2>2, <2>3 DEF SocketInv
<1>23. CASE UNCHANGED vars
  BY <1>23 DEF SocketInv, Nested, SocketTrue, Receivers, vars
<1> QED BY <1>1, <1>2, <1>3, <1>4, <1>5, <1>6, <1>7, <1>8, <1>9, <1>10, <1>11, <1>12, <1>13, <1>14, <1>15, <1>16, <1>17, <1>18, <1>19, <1>20, <1>21, <1>22, <1>23 DEF Next, Tab, Handler, Relay

-----------------------------------------------------------------------------
(* Each step keeps every position within those given.                      *)

\* Frames are never forgotten, and the floor only rises.
LEMMA TopGrows ==
    ASSUME CollabInv, [Next]_vars
    PROVE  /\ kept \subseteq kept'
           /\ Top \in Nat /\ Top' \in Nat /\ Top <= Top'
           /\ floor \in Nat /\ floor' \in Nat /\ floor <= floor'
<1> USE DEF CollabInv, TypeInv
<1>1. ASSUME NEW t \in Tabs, openCollabSession(t) PROVE kept \subseteq kept' /\ floor <= floor'
  BY <1>1 DEF openCollabSession, serverVars, LogTypes
<1>2. ASSUME NEW t \in Tabs, NEW f \in Edits, onLocalUpdate(t, f) PROVE kept \subseteq kept' /\ floor <= floor'
  BY <1>2 DEF onLocalUpdate, serverVars, LogTypes
<1>3. ASSUME NEW t \in Tabs, connect(t) PROVE kept \subseteq kept' /\ floor <= floor'
  BY <1>3 DEF connect, serverVars, LogTypes
<1>4. ASSUME NEW t \in Tabs, disconnect(t) PROVE kept \subseteq kept' /\ floor <= floor'
  BY <1>4 DEF disconnect, serverVars, LogTypes
<1>5. ASSUME NEW t \in Tabs, onFrame(t) PROVE kept \subseteq kept' /\ floor <= floor'
  BY <1>5 DEF onFrame, serverVars, LogTypes
<1>6. ASSUME NEW t \in Tabs, onStored(t) PROVE kept \subseteq kept' /\ floor <= floor'
  BY <1>6 DEF onStored, serverVars, LogTypes
<1>7. ASSUME NEW t \in Tabs, onReplayed(t) PROVE kept \subseteq kept' /\ floor <= floor'
  BY <1>7 DEF onReplayed, serverVars, LogTypes
<1>8. ASSUME NEW t \in Tabs, snapshot(t) PROVE kept \subseteq kept' /\ floor <= floor'
  BY <1>8 DEF snapshot, serverVars, LogTypes
<1>9. ASSUME NEW t \in Tabs, createVersion(t) PROVE kept \subseteq kept' /\ floor <= floor'
  BY <1>9 DEF createVersion, serverVars, LogTypes
<1>10. ASSUME NEW t \in Tabs, store_version(t) PROVE kept \subseteq kept' /\ floor <= floor'
  <2>1. Top \in Nat /\ floor \in Nat /\ \E m \in 0 .. Top : floor' = IF floor <= m THEN m ELSE floor
    BY <1>10, VersionStored, TopIs DEF LogTypes
  <2> QED BY <1>10, <2>1 DEF store_version
<1>11. ASSUME NEW t \in Tabs, save_failed(t) PROVE kept \subseteq kept' /\ floor <= floor'
  BY <1>11 DEF save_failed, serverVars, LogTypes
<1>12. ASSUME NEW t \in Tabs, join(t) PROVE kept \subseteq kept' /\ floor <= floor'
  BY <1>12 DEF join, serverVars, LogTypes
<1>13. ASSUME NEW t \in Tabs, persist_frame(t) PROVE kept \subseteq kept' /\ floor <= floor'
  BY <1>13 DEF persist_frame, LogTypes
<1>14. ASSUME NEW t \in Tabs, frame_dropped(t) PROVE kept \subseteq kept' /\ floor <= floor'
  BY <1>14 DEF frame_dropped, serverVars, LogTypes
<1>15. ASSUME NEW t \in Tabs, replay_log(t) PROVE kept \subseteq kept' /\ floor <= floor'
  BY <1>15 DEF replay_log, serverVars, LogTypes
<1>16. ASSUME NEW t \in Tabs, replay_frame(t) PROVE kept \subseteq kept' /\ floor <= floor'
  BY <1>16 DEF replay_frame, serverVars, LogTypes
<1>17. ASSUME NEW t \in Tabs, replay_end(t) PROVE kept \subseteq kept' /\ floor <= floor'
  BY <1>17 DEF replay_end, serverVars, LogTypes
<1>18. ASSUME NEW t \in Tabs, replay_timeout(t) PROVE kept \subseteq kept' /\ floor <= floor'
  BY <1>18 DEF replay_timeout, serverVars, LogTypes
<1>19. ASSUME NEW f \in Edits, broadcast(f) PROVE kept \subseteq kept' /\ floor <= floor'
  BY <1>19 DEF broadcast, serverVars, LogTypes
<1>20. ASSUME NEW f \in Edits, broadcast_text(f) PROVE kept \subseteq kept' /\ floor <= floor'
  BY <1>20 DEF broadcast_text, serverVars, LogTypes
<1>21. ASSUME NEW f \in Edits, NEW t \in Tabs, write(f, t) PROVE kept \subseteq kept' /\ floor <= floor'
  BY <1>21 DEF write, serverVars, LogTypes
<1>22. ASSUME NEW f \in Edits, NEW t \in Tabs, write_timeout(f, t) PROVE kept \subseteq kept' /\ floor <= floor'
  BY <1>22 DEF write_timeout, serverVars, LogTypes
<1>23. ASSUME UNCHANGED vars PROVE kept \subseteq kept' /\ floor <= floor'
  BY <1>23 DEF vars, LogTypes
<1>24. kept \subseteq kept' /\ floor <= floor'
  BY <1>1, <1>2, <1>3, <1>4, <1>5, <1>6, <1>7, <1>8, <1>9, <1>10, <1>11, <1>12, <1>13, <1>14, <1>15, <1>16, <1>17, <1>18, <1>19, <1>20, <1>21, <1>22, <1>23 DEF Next, Tab, Handler, Relay
<1>25. LogTypes /\ LogTypes'
  BY LogTypesStep
<1>26. Top \in Nat /\ IsFiniteSet(KeptFrames)
  BY <1>25, TopIs
<1>27. Top' \in Nat /\ IsFiniteSet(KeptFrames')
  <2>1. KeptFrames' \subseteq Edits
    BY <1>25 DEF LogTypes, KeptFrames
  <2> QED BY <2>1, CollabAssumption, FS_Subset, FS_CardinalityType DEF Top
<1>28. KeptFrames \subseteq KeptFrames'
  BY <1>24 DEF KeptFrames
<1>29. Top <= Top'
  BY <1>27, <1>28, FS_Subset DEF Top
<1> QED BY <1>24, <1>25, <1>26, <1>27, <1>29 DEF LogTypes

\* What is left of a queue once its head is taken.
LEMMA QueueTail ==
    ASSUME NEW S, NEW q \in Seq(S), q # <<>>
    PROVE  /\ Tail(q) \in Seq(S) /\ DOMAIN Tail(q) = 1 .. Len(Tail(q)) /\ Len(Tail(q)) = Len(q) - 1
           /\ \A i \in DOMAIN Tail(q) : i + 1 \in DOMAIN q /\ Tail(q)[i] = q[i + 1] /\ i \in Nat /\ i >= 1
           /\ \A i \in DOMAIN q : i \in Nat /\ (i = 1 \/ i - 1 \in DOMAIN Tail(q))
           /\ 1 \in DOMAIN q /\ Head(q) = q[1]
OBVIOUS

\* A queue with one more message at its end.
LEMMA QueueAppend ==
    ASSUME NEW S, NEW q \in Seq(S), NEW m
    PROVE  /\ DOMAIN q = 1 .. Len(q) /\ DOMAIN Append(q, m) = 1 .. Len(q) + 1 /\ Len(q) \in Nat
           /\ \A i \in DOMAIN q : i \in DOMAIN Append(q, m) /\ Append(q, m)[i] = q[i] /\ i < Len(q) + 1
           /\ \A i \in DOMAIN Append(q, m) : i \in DOMAIN q \/ (i = Len(q) + 1 /\ Append(q, m)[i] = m)
           /\ Len(q) + 1 \in DOMAIN Append(q, m) /\ Append(q, m)[Len(q) + 1] = m
OBVIOUS

\* What waits for a tab is typed.
LEMMA ToldTyped ==
    ASSUME WireTypes, NEW t \in Tabs, NEW i \in DOMAIN toTab[t]
    PROVE  /\ toTab[t][i].type = "frame" => toTab[t][i].frame \in Edits /\ toTab[t][i] = FrameMsg(toTab[t][i].frame)
           /\ toTab[t][i].type = "stored" => toTab[t][i].seq \in Nat
           /\ toTab[t][i].type = "replayed" => toTab[t][i].seq \in Nat /\ toTab[t][i].floor \in Nat
<1>1. toTab[t] \in Seq(TabMsgs)
  BY DEF WireTypes
<1>2. toTab[t][i] \in TabMsgs
  BY <1>1
<1> QED BY <1>2 DEF TabMsgs, FrameMsgs, StoredMsgs, ReplayedMsgs, FrameMsg

\* Positions never go down, so versions that stay are still within them.
LEMMA VersionsStill ==
    ASSUME CollabInv, [Next]_vars, versions' = versions
    PROVE  VersionsKept'
<1>1. \A i \in DOMAIN versions : versions[i] \in Versions
  BY DEF CollabInv, TypeInv, LogTypes
<1>2. \A i \in DOMAIN versions : versions[i].seq \in Nat /\ versions[i].seq <= Top
  BY <1>1 DEF Versions, CollabInv, BoundsInv, VersionsKept
<1> QED BY <1>2, TopGrows DEF VersionsKept

\* Neither does a tab that stays where it is pass the last one.
LEMMA CountedStill ==
    ASSUME CollabInv, [Next]_vars, NEW t \in Tabs,
           applied'[t] = applied[t], since'[t] = since[t], announced'[t] = announced[t],
           replay'[t].through \in {0, replay[t].through}, saving'[t].seq \in {0, saving[t].seq, applied[t]}
    PROVE  Counted(t)'
<1>1. /\ applied[t] \in Nat /\ since[t] \in Nat /\ replay[t].through \in Nat /\ saving[t].seq \in Nat
  BY DEF CollabInv, TypeInv, LogTypes, TabTypes, Replays, Saves
<1>2. Top \in Nat /\ Top' \in Nat /\ Top <= Top'
  BY TopGrows
<1> QED BY <1>1, <1>2 DEF CollabInv, BoundsInv, Counted

\* Only these happen to a wire: a message is put, taken or lost.
Passing(old, new) ==
    \/ new = old
    \/ new = <<>>
    \/ old # <<>> /\ new = Tail(old)
    \/ \E f \in Edits : new = Append(old, FrameMsg(f))

\* A wire that only passes frames on holds no position it did not hold.
LEMMA PassingOnly ==
    ASSUME NEW S, NEW old \in Seq(S), NEW new, Passing(old, new)
    PROVE  \A i \in DOMAIN new : new[i].type = "frame" \/ \E j \in DOMAIN old : new[i] = old[j]
<1>1. CASE new = old
  BY <1>1
<1>2. CASE new = <<>>
  BY <1>2
<1>3. CASE old # <<>> /\ new = Tail(old)
  BY <1>3, QueueTail
<1>4. ASSUME NEW f \in Edits, new = Append(old, FrameMsg(f))
      PROVE  \A i \in DOMAIN new : new[i].type = "frame" \/ \E j \in DOMAIN old : new[i] = old[j]
  BY <1>4, QueueAppend DEF FrameMsg
<1> QED BY <1>1, <1>2, <1>3, <1>4 DEF Passing

\* So what was told stays true.
LEMMA ToldStill ==
    ASSUME CollabInv, [Next]_vars, NEW t \in Tabs, since'[t] = since[t],
           Passing(toTab[t], toTab'[t]), Passing(toServer[t], toServer'[t])
    PROVE  Told(t)'
<1>1. toTab[t] \in Seq(TabMsgs) /\ toServer[t] \in Seq(ServerMsgs) /\ WireTypes
  BY DEF CollabInv, TypeInv, WireTypes
<1>2. \A i \in DOMAIN toTab'[t] : toTab'[t][i].type = "frame" \/ \E j \in DOMAIN toTab[t] : toTab'[t][i] = toTab[t][j]
  BY <1>1, PassingOnly
<1>3. \A i \in DOMAIN toServer'[t] :
         toServer'[t][i].type = "frame" \/ \E j \in DOMAIN toServer[t] : toServer'[t][i] = toServer[t][j]
  BY <1>1, PassingOnly
<1>4. /\ Top \in Nat /\ Top' \in Nat /\ Top <= Top'
      /\ floor \in Nat /\ floor' \in Nat /\ floor <= floor'
  BY TopGrows
<1>5. Told(t)
  BY DEF CollabInv, BoundsInv
<1>6. ASSUME NEW i \in DOMAIN toTab'[t]
      PROVE  /\ toTab'[t][i].type = "stored" => toTab'[t][i].seq <= Top'
             /\ toTab'[t][i].type = "replayed" => toTab'[t][i].seq <= Top' /\ toTab'[t][i].floor <= floor'
  <2>1. ASSUME NEW j \in DOMAIN toTab[t]
        PROVE  /\ toTab[t][j].type = "stored" => toTab[t][j].seq <= Top'
               /\ toTab[t][j].type = "replayed" => toTab[t][j].seq <= Top' /\ toTab[t][j].floor <= floor'
    BY <1>1, <1>4, <1>5, ToldTyped DEF Told
  <2>2. CASE toTab'[t][i].type = "frame"
    BY <2>2
  <2>3. ASSUME NEW j \in DOMAIN toTab[t], toTab'[t][i] = toTab[t][j]
        PROVE  /\ toTab'[t][i].type = "stored" => toTab'[t][i].seq <= Top'
               /\ toTab'[t][i].type = "replayed" => toTab'[t][i].seq <= Top' /\ toTab'[t][i].floor <= floor'
    BY <2>1, <2>3
  <2> QED BY <1>2, <2>2, <2>3
<1>7. \A i \in DOMAIN toServer'[t] : toServer'[t][i].type = "resume" => toServer'[t][i].seq = since'[t]
  BY <1>3, <1>5 DEF Told
<1> QED BY <1>6, <1>7 DEF Told

\* One more position told is within those given.
LEMMA ToldOneMore ==
    ASSUME CollabInv, NEW t \in Tabs, NEW m,
           UNCHANGED <<kept, floor, since, toServer>>,
           toTab' = [toTab EXCEPT ![t] = Append(@, m)],
           m.type = "stored" => m.seq <= Top,
           m.type = "replayed" => m.seq <= Top /\ m.floor <= floor
    PROVE  Told(t)'
<1>1. toTab[t] \in Seq(TabMsgs) /\ toTab'[t] = Append(toTab[t], m)
  BY DEF CollabInv, TypeInv, WireTypes
<1>2. \A i \in DOMAIN toTab'[t] : toTab'[t][i] = m \/ (i \in DOMAIN toTab[t] /\ toTab'[t][i] = toTab[t][i])
  BY <1>1, QueueAppend
<1>3. Top' = Top
  BY DEF Top, KeptFrames
<1>4. Told(t)
  BY DEF CollabInv, BoundsInv
<1> QED BY <1>2, <1>3, <1>4 DEF Told

\* Each action keeps every position, counted, told or saved, within those given.
LEMMA BoundsStep ==
    ASSUME CollabInv, [Next]_vars
    PROVE  BoundsInv'
<1> USE DEF CollabInv, TypeInv
<1>0. /\ Top \in Nat /\ Top' \in Nat /\ Top <= Top'
      /\ floor \in Nat /\ floor' \in Nat /\ floor <= floor'
  BY TopGrows
<1>1. ASSUME NEW t \in Tabs, openCollabSession(t) PROVE BoundsInv'
  <2>1. newestYjsVersion.seq \in Nat /\ newestYjsVersion.seq <= Top
    BY NewestTyped
  <2>2. applied' = [applied EXCEPT ![t] = newestYjsVersion.seq] /\ t \notin open
    BY <1>1 DEF openCollabSession
  <2>3. Counted(t)'
    <3>1. /\ applied'[t] = newestYjsVersion.seq /\ since'[t] = since[t] /\ announced'[t] = announced[t]
          /\ replay' = replay /\ saving' = saving
      BY <1>1, <2>2 DEF openCollabSession, TabTypes, socketVars, relayVars
    <3>2. since[t] = 0 /\ announced[t] = {}
      BY <2>2 DEF SocketInv, SocketTrue, BoundsInv, Counted, TabTypes
    <3>3. replay[t].through \in Nat /\ saving[t].seq \in Nat /\ Counted(t)
      BY DEF LogTypes, Replays, TabTypes, Saves, BoundsInv
    <3> QED BY <1>0, <2>1, <3>1, <3>2, <3>3 DEF Counted
  <2>4. \A u \in Tabs \ {t} : Counted(u)'
    BY <1>1, CountedStill DEF openCollabSession, TabTypes, socketVars, relayVars
  <2>5. \A u \in Tabs : Told(u)'
    BY <1>1, ToldStill DEF openCollabSession, Passing, socketVars, wireVars
  <2>6. VersionsKept'
    BY <1>1, VersionsStill DEF openCollabSession, serverVars
  <2> QED BY <2>3, <2>4, <2>5, <2>6 DEF BoundsInv
<1>2. ASSUME NEW t \in Tabs, NEW f \in Edits, onLocalUpdate(t, f) PROVE BoundsInv'
  <2>1. VersionsKept'
    BY <1>2, VersionsStill DEF onLocalUpdate, serverVars
  <2>2. \A u \in Tabs : Counted(u)'
    BY <1>2, CountedStill DEF LogTypes, Replays, TabTypes, Saves, NoReplay, NoSave, onLocalUpdate, relayVars, positionVars
  <2>3. \A u \in Tabs : Told(u)'
    BY <1>2, ToldStill DEF Passing, WireTypes, onLocalUpdate, relayVars, positionVars
  <2> QED BY <2>1, <2>2, <2>3 DEF BoundsInv
<1>3. ASSUME NEW t \in Tabs, connect(t) PROVE BoundsInv'
  <2>1. /\ since' = [since EXCEPT ![t] = applied[t]] /\ toTab' = toTab
        /\ toServer' = [toServer EXCEPT ![t] =
              <<ResumeMsg(applied[t])>> \o [i \in DOMAIN pending[t] |-> FrameMsg(pending[t][i])]]
        /\ UNCHANGED <<applied, announced, replay, saving, versions, kept, floor>>
    BY <1>3 DEF connect, serverVars, relayVars, positionVars
  <2>2. applied[t] \in Nat /\ since'[t] = applied[t]
    BY <2>1 DEF TabTypes
  <2>3. /\ toServer'[t] \in Seq(ServerMsgs)
        /\ Len(toServer'[t]) = Len(pending[t]) + 1
        /\ toServer'[t][1] = ResumeMsg(applied[t])
        /\ \A i \in DOMAIN pending[t] : toServer'[t][i + 1] = FrameMsg(pending[t][i])
        /\ \A i \in DOMAIN toServer'[t] : i = 1 \/ i - 1 \in DOMAIN pending[t]
    <3>1. toServer'[t] = <<ResumeMsg(applied[t])>> \o [i \in DOMAIN pending[t] |-> FrameMsg(pending[t][i])]
      BY <2>1 DEF WireTypes
    <3>2. applied[t] \in Nat /\ WireTypes
      BY <2>2
    <3> HIDE DEF CollabInv, TypeInv
    <3> QED BY <3>1, <3>2, Resumed
  <2>4. \A i \in DOMAIN toServer'[t] : toServer'[t][i].type = "resume" => toServer'[t][i].seq = since'[t]
    <3>1. \A i \in DOMAIN toServer'[t] : i = 1 \/ toServer'[t][i] = FrameMsg(pending[t][i - 1])
      BY <2>3
    <3>2. \A x : FrameMsg(x).type # "resume"
      BY DEF FrameMsg
    <3>3. ResumeMsg(applied[t]).seq = applied[t]
      BY DEF ResumeMsg
    <3> QED BY <2>2, <2>3, <3>1, <3>2, <3>3
  <2>5. Counted(t)' /\ Told(t)'
    <3>1. Top' = Top /\ floor' = floor
      BY <2>1 DEF Top, KeptFrames
    <3>2. Counted(t) /\ Told(t)
      BY DEF BoundsInv
    <3>3. Counted(t)'
      BY <2>1, <2>2, <3>1, <3>2 DEF Counted
    <3>4. Told(t)'
      BY <2>1, <2>4, <3>1, <3>2 DEF Told
    <3> QED BY <3>3, <3>4
  <2>6. \A u \in Tabs \ {t} : Counted(u)' /\ Told(u)'
    <3>1. \A u \in Tabs \ {t} : since'[u] = since[u] /\ toServer'[u] = toServer[u]
      BY <2>1 DEF TabTypes, WireTypes
    <3> QED BY <2>1, <3>1, CountedStill, ToldStill DEF Passing
  <2>7. VersionsKept'
    BY <2>1, VersionsStill
  <2> QED BY <2>5, <2>6, <2>7 DEF BoundsInv
<1>4. ASSUME NEW t \in Tabs, disconnect(t) PROVE BoundsInv'
  <2>1. VersionsKept'
    BY <1>4, VersionsStill DEF disconnect, serverVars
  <2>2. \A u \in Tabs : Counted(u)'
    BY <1>4, CountedStill DEF LogTypes, Replays, TabTypes, Saves, NoReplay, NoSave, disconnect, Gone, positionVars
  <2>3. \A u \in Tabs : Told(u)'
    BY <1>4, ToldStill DEF Passing, WireTypes, disconnect, Gone, positionVars
  <2> QED BY <2>1, <2>2, <2>3 DEF BoundsInv
<1>5. ASSUME NEW t \in Tabs, onFrame(t) PROVE BoundsInv'
  <2>1. VersionsKept'
    BY <1>5, VersionsStill DEF onFrame, serverVars
  <2>2. \A u \in Tabs : Counted(u)'
    BY <1>5, CountedStill DEF LogTypes, Replays, TabTypes, Saves, NoReplay, NoSave, onFrame, relayVars, positionVars, socketVars
  <2>3. \A u \in Tabs : Told(u)'
    BY <1>5, ToldStill DEF Passing, WireTypes, onFrame, Received, relayVars, positionVars, socketVars
  <2> QED BY <2>1, <2>2, <2>3 DEF BoundsInv
<1>6. ASSUME NEW t \in Tabs, onStored(t) PROVE BoundsInv'
  <2>1. /\ applied'[t] \in applied[t] .. Top /\ announced'[t] \subseteq 0 .. Top
        /\ \A u \in Tabs \ {t} : applied'[u] = applied[u] /\ announced'[u] = announced[u]
    <3> DEFINE seqs == announced[t] \cup ({Head(toTab[t]).seq} \ 0 .. applied[t])
    <3>1. applied[t] \in 0 .. Top /\ seqs \in SUBSET (0 .. Top) /\ Moved(t, applied[t], seqs)
      BY <1>6, StoredMoves
    <3> HIDE DEF seqs
    <3>2. /\ applied'[t] \in applied[t] .. Top /\ announced'[t] \subseteq seqs
          /\ \A u \in Tabs \ {t} : applied'[u] = applied[u] /\ announced'[u] = announced[u]
      BY <3>1, MovedIs
    <3> QED BY <3>1, <3>2
  <2>2. /\ toTab[t] # <<>> /\ toTab' = [toTab EXCEPT ![t] = Tail(@)]
        /\ UNCHANGED <<kept, floor, versions, replay, saving, since, toServer>>
    BY <1>6 DEF onStored, Received, serverVars, relayVars, socketVars
  <2>3. Counted(t)'
    <3>1. since[t] \in Nat /\ applied[t] \in Nat /\ Counted(t)
      BY DEF TabTypes, BoundsInv
    <3>2. replay[t].through \in Nat /\ saving[t].seq \in Nat
      BY DEF LogTypes, Replays, TabTypes, Saves
    <3>3. Top' = Top
      BY <2>2 DEF Top, KeptFrames
    <3> QED BY <1>0, <2>1, <2>2, <3>1, <3>2, <3>3 DEF Counted
  <2>4. \A u \in Tabs \ {t} : Counted(u)'
    BY <2>1, <2>2, CountedStill
  <2>5. \A u \in Tabs : Told(u)'
    BY <2>2, ToldStill DEF Passing, WireTypes
  <2>6. VersionsKept'
    BY <2>2, VersionsStill
  <2> QED BY <2>3, <2>4, <2>5, <2>6 DEF BoundsInv
<1>7. ASSUME NEW t \in Tabs, onReplayed(t) PROVE BoundsInv'
  <2>1. /\ applied'[t] \in applied[t] .. Top /\ announced'[t] \subseteq 0 .. Top
        /\ \A u \in Tabs \ {t} : applied'[u] = applied[u] /\ announced'[u] = announced[u]
    <3>1. /\ applied'[t] \in ReplayedTo(t) .. Top /\ announced'[t] \subseteq announced[t]
          /\ \A u \in Tabs \ {t} : applied'[u] = applied[u] /\ announced'[u] = announced[u]
      BY <1>7, ReplayedMoves, MovedIs
    <3>2. ReplayedTo(t) \in 0 .. Top /\ applied[t] <= ReplayedTo(t) /\ announced[t] \subseteq 0 .. Top
          /\ applied[t] \in Nat
      BY <1>7, ReplayedMoves DEF TabTypes
    <3> QED BY <1>0, <3>1, <3>2
  <2>2. /\ toTab[t] # <<>> /\ toTab' = [toTab EXCEPT ![t] = Tail(@)]
        /\ UNCHANGED <<kept, floor, versions, replay, saving, since, toServer>>
    BY <1>7 DEF onReplayed, Received, serverVars, relayVars, socketVars
  <2>3. Counted(t)'
    <3>1. since[t] \in Nat /\ applied[t] \in Nat /\ Counted(t)
      BY DEF TabTypes, BoundsInv
    <3>2. replay[t].through \in Nat /\ saving[t].seq \in Nat
      BY DEF LogTypes, Replays, TabTypes, Saves
    <3>3. Top' = Top
      BY <2>2 DEF Top, KeptFrames
    <3> QED BY <1>0, <2>1, <2>2, <3>1, <3>2, <3>3 DEF Counted
  <2>4. \A u \in Tabs \ {t} : Counted(u)'
    BY <2>1, <2>2, CountedStill
  <2>5. \A u \in Tabs : Told(u)'
    BY <2>2, ToldStill DEF Passing, WireTypes
  <2>6. VersionsKept'
    BY <2>2, VersionsStill
  <2> QED BY <2>3, <2>4, <2>5, <2>6 DEF BoundsInv
<1>8. ASSUME NEW t \in Tabs, snapshot(t) PROVE BoundsInv'
  <2>1. VersionsKept'
    BY <1>8, VersionsStill DEF snapshot, serverVars
  <2>2. \A u \in Tabs : Counted(u)'
    BY <1>8, CountedStill DEF LogTypes, Replays, TabTypes, Saves, NoReplay, NoSave, snapshot, relayVars, positionVars, socketVars
  <2>3. \A u \in Tabs : Told(u)'
    BY <1>8, ToldStill DEF Passing, WireTypes, snapshot, relayVars, wireVars, positionVars, socketVars
  <2> QED BY <2>1, <2>2, <2>3 DEF BoundsInv
<1>9. ASSUME NEW t \in Tabs, createVersion(t) PROVE BoundsInv'
  <2>1. VersionsKept'
    BY <1>9, VersionsStill DEF createVersion, serverVars
  <2>2. \A u \in Tabs : Counted(u)'
    BY <1>9, CountedStill DEF LogTypes, Replays, TabTypes, Saves, NoReplay, NoSave, createVersion, getSeq, relayVars, positionVars, socketVars
  <2>3. \A u \in Tabs : Told(u)'
    BY <1>9, ToldStill DEF Passing, WireTypes, createVersion, relayVars, wireVars, positionVars, socketVars
  <2> QED BY <2>1, <2>2, <2>3 DEF BoundsInv
<1>10. ASSUME NEW t \in Tabs, store_version(t) PROVE BoundsInv'
  <2>1. PICK n \in 0 .. Top :
           versions' = Append(versions, [state |-> saving[t].state, seq |-> n, sound |-> saving[t].sound])
    BY <1>10, VersionStored
  <2>2. UNCHANGED <<kept, replay, toServer, toTab, applied, announced, since>>
        /\ saving' = [saving EXCEPT ![t] = NoSave]
    BY <1>10 DEF store_version, relayVars, wireVars, positionVars, socketVars
  <2>3. VersionsKept'
    <3>1. Top' = Top
      BY <2>2 DEF Top, KeptFrames
    <3>2. versions \in Seq(Versions)
      BY DEF LogTypes
    <3>3. \A i \in DOMAIN versions : versions[i].seq <= Top
      BY DEF BoundsInv, VersionsKept
    <3>4. \A i \in DOMAIN versions' : versions'[i].seq <= Top
      BY <1>0, <2>1, <3>2, <3>3, QueueAppend
    <3> QED BY <3>1, <3>4 DEF VersionsKept
  <2>4. \A u \in Tabs : saving'[u].seq \in {0, saving[u].seq}
    BY <2>2 DEF TabTypes, NoSave
  <2>5. \A u \in Tabs : Counted(u)' /\ Told(u)'
    BY <2>2, <2>4, CountedStill, ToldStill DEF Passing
  <2> QED BY <2>3, <2>5 DEF BoundsInv
<1>11. ASSUME NEW t \in Tabs, save_failed(t) PROVE BoundsInv'
  <2>1. VersionsKept'
    BY <1>11, VersionsStill DEF save_failed, serverVars
  <2>2. \A u \in Tabs : Counted(u)'
    BY <1>11, CountedStill DEF LogTypes, Replays, TabTypes, Saves, NoReplay, NoSave, save_failed, relayVars, positionVars, socketVars
  <2>3. \A u \in Tabs : Told(u)'
    BY <1>11, ToldStill DEF Passing, WireTypes, save_failed, relayVars, wireVars, positionVars, socketVars
  <2> QED BY <2>1, <2>2, <2>3 DEF BoundsInv
<1>12. ASSUME NEW t \in Tabs, join(t) PROVE BoundsInv'
  <2>1. VersionsKept'
    BY <1>12, VersionsStill DEF join, serverVars
  <2>2. \A u \in Tabs : Counted(u)'
    BY <1>12, CountedStill DEF LogTypes, Replays, TabTypes, Saves, NoReplay, NoSave, join, positionVars, socketVars
  <2>3. \A u \in Tabs : Told(u)'
    BY <1>12, ToldStill DEF Passing, WireTypes, join, wireVars, positionVars, socketVars
  <2> QED BY <2>1, <2>2, <2>3 DEF BoundsInv
<1>13. ASSUME NEW t \in Tabs, persist_frame(t) PROVE BoundsInv'
  <2>1. VersionsKept'
    BY <1>13, VersionsStill DEF persist_frame
  <2>2. \A u \in Tabs : Counted(u)'
    BY <1>13, CountedStill DEF LogTypes, Replays, TabTypes, Saves, NoReplay, NoSave, persist_frame, positionVars, socketVars
  <2>3. \A u \in Tabs : Told(u)'
    BY <1>13, ToldStill DEF Passing, WireTypes, persist_frame, Next_message, positionVars, socketVars
  <2> QED BY <2>1, <2>2, <2>3 DEF BoundsInv
<1>14. ASSUME NEW t \in Tabs, frame_dropped(t) PROVE BoundsInv'
  <2>1. VersionsKept'
    BY <1>14, VersionsStill DEF frame_dropped, serverVars
  <2>2. \A u \in Tabs : Counted(u)'
    BY <1>14, CountedStill DEF LogTypes, Replays, TabTypes, Saves, NoReplay, NoSave, frame_dropped, relayVars, positionVars, socketVars
  <2>3. \A u \in Tabs : Told(u)'
    BY <1>14, ToldStill DEF Passing, WireTypes, frame_dropped, Next_message, relayVars, positionVars, socketVars
  <2> QED BY <2>1, <2>2, <2>3 DEF BoundsInv
<1>15. ASSUME NEW t \in Tabs, replay_log(t) PROVE BoundsInv'
  <2>1. /\ UNCHANGED <<kept, floor, versions, applied, announced, since, saving, toTab>>
        /\ toServer[t] # <<>> /\ toServer' = [toServer EXCEPT ![t] = Tail(@)]
        /\ Head(toServer[t]).type = "resume"
    BY <1>15 DEF replay_log, Next_message, serverVars, positionVars, socketVars
  <2>2. Head(toServer[t]).seq = since[t]
    BY <2>1, ServerHead DEF BoundsInv, Told
  <2>3. \A u \in Tabs : replay'[u].through = replay[u].through \/ (u = t /\ replay'[u].through = since[t])
    BY <1>15, <2>2 DEF replay_log, LogTypes, Replays
  <2>4. \A u \in Tabs : Counted(u)'
    <3>1. \A u \in Tabs : Counted(u) /\ applied[u] \in Nat /\ since[u] \in Nat
      BY DEF BoundsInv, TabTypes
    <3>2. Top' = Top
      BY <2>1 DEF Top, KeptFrames
    <3> QED BY <1>0, <2>1, <2>3, <3>1, <3>2 DEF Counted
  <2>5. \A u \in Tabs : Told(u)'
    BY <2>1, ToldStill DEF Passing, WireTypes
  <2>6. VersionsKept'
    BY <2>1, VersionsStill
  <2> QED BY <2>4, <2>5, <2>6 DEF BoundsInv
<1>16. ASSUME NEW t \in Tabs, replay_frame(t) PROVE BoundsInv'
  <2>1. PICK k \in Lowest(replay[t].rows) :
           /\ toTab' = [toTab EXCEPT ![t] = Append(@, FrameMsg(k.frame))]
           /\ replay' = [replay EXCEPT ![t].rows = @ \ {k}, ![t].through = k.seq]
    BY <1>16 DEF replay_frame
  <2>2. UNCHANGED <<kept, floor, versions, applied, announced, since, saving, toServer>>
    BY <1>16 DEF replay_frame, serverVars, positionVars, socketVars
  <2>3. k \in kept /\ k.frame \in Edits /\ k.seq <= Top
    BY <2>1 DEF LogTypes, Replays, Lowest, LogShape
  <2>4. \A u \in Tabs : replay'[u].through = replay[u].through \/ replay'[u].through = k.seq
    BY <2>1 DEF LogTypes, Replays
  <2>5. \A u \in Tabs : Counted(u)'
    <3>1. Top' = Top
      BY <2>2 DEF Top, KeptFrames
    <3> QED BY <2>2, <2>3, <2>4, <3>1 DEF BoundsInv, Counted
  <2>6. \A u \in Tabs : Told(u)'
    BY <2>1, <2>2, <2>3, ToldStill DEF Passing, WireTypes
  <2>7. VersionsKept'
    BY <2>2, VersionsStill
  <2> QED BY <2>5, <2>6, <2>7 DEF BoundsInv
<1>17. ASSUME NEW t \in Tabs, replay_end(t) PROVE BoundsInv'
  <2>1. PICK m \in {floor, 0} : toTab' = [toTab EXCEPT ![t] = Append(@, ReplayedMsg(replay[t].through, m))]
    BY <1>17 DEF replay_end
  <2>2. UNCHANGED <<kept, floor, versions, applied, announced, since, saving, toServer>>
        /\ replay' = [replay EXCEPT ![t] = NoReplay]
    BY <1>17 DEF replay_end, serverVars, positionVars, socketVars
  <2>3. \A u \in Tabs : Counted(u)'
    BY <2>2, CountedStill DEF LogTypes, NoReplay
  <2>4. replay[t].through <= Top /\ m <= floor
    BY <1>0 DEF BoundsInv, Counted
  <2>5. Told(t)'
    BY <1>0, <2>1, <2>2, <2>4, ToldOneMore DEF ReplayedMsg
  <2>6. \A u \in Tabs \ {t} : Told(u)'
    BY <2>1, <2>2, ToldStill DEF Passing, WireTypes
  <2>7. VersionsKept'
    BY <2>2, VersionsStill
  <2> QED BY <2>3, <2>5, <2>6, <2>7 DEF BoundsInv
<1>18. ASSUME NEW t \in Tabs, replay_timeout(t) PROVE BoundsInv'
  <2>1. VersionsKept'
    BY <1>18, VersionsStill DEF replay_timeout, serverVars
  <2>2. \A u \in Tabs : Counted(u)'
    BY <1>18, CountedStill DEF LogTypes, Replays, TabTypes, Saves, NoReplay, NoSave, replay_timeout, positionVars, socketVars
  <2>3. \A u \in Tabs : Told(u)'
    BY <1>18, ToldStill DEF Passing, WireTypes, replay_timeout, wireVars, positionVars, socketVars
  <2> QED BY <2>1, <2>2, <2>3 DEF BoundsInv
<1>19. ASSUME NEW f \in Edits, broadcast(f) PROVE BoundsInv'
  <2>1. VersionsKept'
    BY <1>19, VersionsStill DEF broadcast, serverVars
  <2>2. \A u \in Tabs : Counted(u)'
    BY <1>19, CountedStill DEF LogTypes, Replays, TabTypes, Saves, NoReplay, NoSave, broadcast, positionVars, socketVars
  <2>3. \A u \in Tabs : Told(u)'
    BY <1>19, ToldStill DEF Passing, WireTypes, broadcast, wireVars, positionVars, socketVars
  <2> QED BY <2>1, <2>2, <2>3 DEF BoundsInv
<1>20. ASSUME NEW f \in Edits, broadcast_text(f) PROVE BoundsInv'
  <2>1. VersionsKept'
    BY <1>20, VersionsStill DEF broadcast_text, serverVars
  <2>2. \A u \in Tabs : Counted(u)'
    BY <1>20, CountedStill DEF LogTypes, Replays, TabTypes, Saves, NoReplay, NoSave, broadcast_text, positionVars, socketVars
  <2>3. \A u \in Tabs : Told(u)'
    BY <1>20, ToldStill DEF Passing, WireTypes, broadcast_text, wireVars, positionVars, socketVars
  <2> QED BY <2>1, <2>2, <2>3 DEF BoundsInv
<1>21. ASSUME NEW f \in Edits, NEW t \in Tabs, write(f, t) PROVE BoundsInv'
  <2>1. /\ UNCHANGED <<kept, floor, versions, applied, announced, since, saving, toServer, replay>>
        /\ toTab' = [toTab EXCEPT ![t] = Append(@, Written(f))]
        /\ t \in relay[f].to
    BY <1>21 DEF write, serverVars, positionVars, socketVars
  <2>2. \A u \in Tabs : Counted(u)'
    BY <2>1, CountedStill
  <2>3. \A u \in Tabs \ {t} : Told(u)'
    BY <2>1, ToldStill DEF Passing, WireTypes
  <2>4. relay[f].seq <= Top /\ Written(f) \in {FrameMsg(f), StoredMsg(relay[f].seq)}
    <3>1. relay[f].step # "none"
      BY <2>1 DEF SocketInv, Receivers
    <3>2. Entry(relay[f].seq, f) \in kept
      BY <3>1 DEF LogShape
    <3> QED BY <3>2 DEF LogShape, Entry, Written
  <2>5. Told(t)'
    BY <1>0, <2>1, <2>4, ToldOneMore DEF FrameMsg, StoredMsg
  <2>6. VersionsKept'
    BY <2>1, VersionsStill
  <2> QED BY <2>2, <2>3, <2>5, <2>6 DEF BoundsInv
<1>22. ASSUME NEW f \in Edits, NEW t \in Tabs, write_timeout(f, t) PROVE BoundsInv'
  <2>1. UNCHANGED <<kept, floor, versions, applied, announced, since, saving>>
    BY <1>22 DEF write_timeout, serverVars, positionVars
  <2>2. \A u \in Tabs : /\ replay'[u].through \in {0, replay[u].through}
                        /\ toTab'[u] = toTab[u] \/ toTab'[u] = <<>>
                        /\ toServer'[u] = toServer[u] \/ toServer'[u] = <<>>
    <3>1. CASE Busy(t)
      BY <1>22, <3>1 DEF write_timeout, wireVars
    <3>2. CASE ~ Busy(t)
      <4>1. Gone(t, relay)
        BY <1>22, <3>2 DEF write_timeout
      <4> QED BY <4>1 DEF Gone, LogTypes, WireTypes, NoReplay
    <3> QED BY <3>1, <3>2
  <2>3. \A u \in Tabs : Counted(u)' /\ Told(u)'
    BY <2>1, <2>2, CountedStill, ToldStill DEF Passing
  <2>4. VersionsKept'
    BY <2>1, VersionsStill
  <2> QED BY <2>3, <2>4 DEF BoundsInv
<1>23. CASE UNCHANGED vars
  BY <1>23, VersionsStill, CountedStill, ToldStill DEF BoundsInv, Passing, vars
<1> QED BY <1>1, <1>2, <1>3, <1>4, <1>5, <1>6, <1>7, <1>8, <1>9, <1>10, <1>11, <1>12, <1>13, <1>14, <1>15, <1>16, <1>17, <1>18, <1>19, <1>20, <1>21, <1>22, <1>23 DEF Next, Tab, Handler, Relay

-----------------------------------------------------------------------------
(* Each step keeps versions whole.                                         *)

\* Where nothing is sent, stored or kept, versions hold what they did.
LEMMA SavesStill ==
    ASSUME CollabInv, kept' = kept, versions' = versions,
           \A t \in Tabs : saving'[t] = saving[t] \/ saving'[t].step # "sent"
    PROVE  SavesInv'
BY DEF CollabInv, SavesInv, SavedHolds

\* Each action keeps sound versions whole: createVersion claims no more than the tab
\* counts, and store_version no more than it was sent.
LEMMA SavesStep ==
    ASSUME CollabInv, [Next]_vars
    PROVE  SavesInv'
<1> USE DEF CollabInv, TypeInv
<1>1. ASSUME NEW t \in Tabs, openCollabSession(t) PROVE SavesInv'
  BY <1>1, SavesStill DEF openCollabSession, serverVars
<1>2. ASSUME NEW t \in Tabs, NEW f \in Edits, onLocalUpdate(t, f) PROVE SavesInv'
  BY <1>2, SavesStill DEF onLocalUpdate, serverVars
<1>3. ASSUME NEW t \in Tabs, connect(t) PROVE SavesInv'
  BY <1>3, SavesStill DEF connect, serverVars
<1>4. ASSUME NEW t \in Tabs, disconnect(t) PROVE SavesInv'
  BY <1>4, SavesStill DEF disconnect, serverVars
<1>5. ASSUME NEW t \in Tabs, onFrame(t) PROVE SavesInv'
  BY <1>5, SavesStill DEF onFrame, serverVars
<1>6. ASSUME NEW t \in Tabs, onStored(t) PROVE SavesInv'
  BY <1>6, SavesStill DEF onStored, serverVars
<1>7. ASSUME NEW t \in Tabs, onReplayed(t) PROVE SavesInv'
  BY <1>7, SavesStill DEF onReplayed, serverVars
<1>8. ASSUME NEW t \in Tabs, snapshot(t) PROVE SavesInv'
  BY <1>8, SavesStill DEF snapshot, serverVars, TabTypes, NoSave
<1>9. ASSUME NEW t \in Tabs, createVersion(t) PROVE SavesInv'
  <2>1. /\ saving' = [saving EXCEPT ![t].step = "sent", ![t].seq = applied[t],
                                    ![t].sound = doc[t] = saving[t].state /\ t \notin spoiled]
        /\ saving[t].step = "sealing"
        /\ kept' = kept /\ versions' = versions
    BY <1>9 DEF createVersion, getSeq, serverVars
  <2>2. saving'[t] = [saving[t] EXCEPT !.step = "sent", !.seq = applied[t],
                                       !.sound = doc[t] = saving[t].state /\ t \notin spoiled]
        /\ \A u \in Tabs \ {t} : saving'[u] = saving[u]
    BY <2>1 DEF TabTypes
  <2>3. /\ saving'[t].seq = applied[t] /\ saving'[t].state = saving[t].state
        /\ saving'[t].sound => doc[t] = saving[t].state /\ t \notin spoiled
    <3> DEFINE b == doc[t] = saving[t].state /\ t \notin spoiled
    <3>1. saving'[t] = [saving[t] EXCEPT !.step = "sent", !.seq = applied[t], !.sound = b]
      BY <2>2
    <3>2. saving[t] \in Saves
      BY DEF TabTypes
    <3> HIDE DEF b
    <3>3. saving'[t].seq = applied[t] /\ saving'[t].state = saving[t].state /\ saving'[t].sound = b
      BY <3>1, <3>2 DEF Saves
    <3> QED BY <3>3 DEF b
  <2>4. t \in open
    BY <2>1 DEF SocketInv, SocketTrue
  <2>5. t \notin spoiled => \A k \in kept : k.seq <= applied[t] => k.frame \in doc[t]
    BY <2>4 DEF TabsTrue, TabTrue, PositionTrue
  <2>6. SavedHolds(saving[t])'
    BY <2>1, <2>3, <2>5 DEF SavedHolds
  <2> QED BY <2>1, <2>2, <2>6 DEF SavesInv, SavedHolds
<1>10. ASSUME NEW t \in Tabs, store_version(t) PROVE SavesInv'
  <2>1. PICK n \in 0 .. Top :
           /\ n = saving[t].seq /\ saving[t].step = "sent"
           /\ versions' = Append(versions, [state |-> saving[t].state, seq |-> n, sound |-> saving[t].sound])
           /\ saving' = [saving EXCEPT ![t] = NoSave]
    BY <1>10, VersionStored
  <2>2. kept' = kept
    BY <1>10 DEF store_version
  <2> DEFINE v == [state |-> saving[t].state, seq |-> n, sound |-> saving[t].sound]
  <2>3. SavedHolds(v)
    BY <2>1 DEF SavesInv, SavedHolds
  <2>4. versions \in Seq(Versions) /\ versions' = Append(versions, v)
    BY <2>1 DEF LogTypes
  <2> HIDE DEF v
  <2>5. \A i \in DOMAIN versions' : SavedHolds(versions'[i])
    BY <2>3, <2>4, QueueAppend DEF SavesInv
  <2>6. \A u \in Tabs : saving'[u].step = "sent" => SavedHolds(saving'[u])
    BY <2>1 DEF SavesInv, TabTypes, NoSave
  <2> QED BY <2>2, <2>5, <2>6 DEF SavesInv, SavedHolds
<1>11. ASSUME NEW t \in Tabs, save_failed(t) PROVE SavesInv'
  BY <1>11, SavesStill DEF save_failed, serverVars, TabTypes, NoSave
<1>12. ASSUME NEW t \in Tabs, join(t) PROVE SavesInv'
  BY <1>12, SavesStill DEF join, serverVars
<1>13. ASSUME NEW t \in Tabs, persist_frame(t) PROVE SavesInv'
  <2>1. PICK f \in Edits : kept' = kept \cup {Entry(Top + 1, f)} /\ Top \in Nat
    BY <1>13, Persisted
  <2>2. versions' = versions /\ saving' = saving
    BY <1>13 DEF persist_frame
  <2>3. ASSUME NEW v, v.seq \in Nat, v.seq <= Top, SavedHolds(v),
               NEW k \in kept', v.sound, k.seq <= v.seq
        PROVE  k.frame \in v.state
    <3>1. k \in kept
      BY <2>1, <2>3 DEF Entry
    <3> QED BY <2>3, <3>1 DEF SavedHolds
  <2>4. \A i \in DOMAIN versions : versions[i].seq \in Nat /\ versions[i].seq <= Top /\ SavedHolds(versions[i])
    <3>1. \A i \in DOMAIN versions : versions[i] \in Versions
      BY DEF LogTypes
    <3> QED BY <3>1 DEF Versions, BoundsInv, VersionsKept, SavesInv
  <2>5. \A u \in Tabs : saving[u].seq \in Nat /\ saving[u].seq <= Top
    BY DEF TabTypes, Saves, BoundsInv, Counted
  <2>6. \A i \in DOMAIN versions' : SavedHolds(versions[i])'
    BY <2>2, <2>3, <2>4 DEF SavedHolds
  <2>7. \A u \in Tabs : saving'[u].step = "sent" => SavedHolds(saving[u])'
    BY <2>2, <2>3, <2>5 DEF SavesInv, SavedHolds
  <2> QED BY <2>6, <2>7 DEF SavesInv
<1>14. ASSUME NEW t \in Tabs, frame_dropped(t) PROVE SavesInv'
  BY <1>14, SavesStill DEF frame_dropped, serverVars
<1>15. ASSUME NEW t \in Tabs, replay_log(t) PROVE SavesInv'
  BY <1>15, SavesStill DEF replay_log, serverVars
<1>16. ASSUME NEW t \in Tabs, replay_frame(t) PROVE SavesInv'
  BY <1>16, SavesStill DEF replay_frame, serverVars
<1>17. ASSUME NEW t \in Tabs, replay_end(t) PROVE SavesInv'
  BY <1>17, SavesStill DEF replay_end, serverVars
<1>18. ASSUME NEW t \in Tabs, replay_timeout(t) PROVE SavesInv'
  BY <1>18, SavesStill DEF replay_timeout, serverVars
<1>19. ASSUME NEW f \in Edits, broadcast(f) PROVE SavesInv'
  BY <1>19, SavesStill DEF broadcast, serverVars
<1>20. ASSUME NEW f \in Edits, broadcast_text(f) PROVE SavesInv'
  BY <1>20, SavesStill DEF broadcast_text, serverVars
<1>21. ASSUME NEW f \in Edits, NEW t \in Tabs, write(f, t) PROVE SavesInv'
  BY <1>21, SavesStill DEF write, serverVars
<1>22. ASSUME NEW f \in Edits, NEW t \in Tabs, write_timeout(f, t) PROVE SavesInv'
  BY <1>22, SavesStill DEF write_timeout, serverVars
<1>23. CASE UNCHANGED vars
  BY <1>23, SavesStill DEF vars
<1> QED BY <1>1, <1>2, <1>3, <1>4, <1>5, <1>6, <1>7, <1>8, <1>9, <1>10, <1>11, <1>12, <1>13, <1>14, <1>15, <1>16, <1>17, <1>18, <1>19, <1>20, <1>21, <1>22, <1>23 DEF Next, Tab, Handler, Relay

-----------------------------------------------------------------------------
(* Each step keeps what every tab is promised.                             *)

\* A tab nothing happens to, or whose document only grows.
LEMMA UntouchedTab ==
    ASSUME CollabInv, [Next]_vars, NEW t \in Tabs, TabTrue(t), kept' = kept,
           doc[t] \subseteq doc'[t], applied'[t] = applied[t], announced'[t] = announced[t],
           since'[t] = since[t], toTab'[t] = toTab[t],
           replay'[t] = replay[t] \/ ~ replay'[t].on,
           t \in settled' => t \in settled, t \in room' => t \in room,
           \A f \in Edits : relay'[f].step = relay[f].step /\ (t \in relay'[f].to <=> t \in relay[f].to)
    PROVE  TabTrue(t)'
<1>1. \A k \in kept : k.frame \in Edits /\ k.seq \in Nat
  BY DEF CollabInv, TypeInv, LogTypes
<1>2. floor \in Nat /\ floor' \in Nat /\ floor <= floor' /\ since[t] \in Nat
  BY TopGrows DEF CollabInv, TypeInv, TabTypes
<1>3. \A f \in Edits : (Coming(t, f) => Coming(t, f)') /\ (Relayed(t, f) <=> Relayed(t, f)')
  BY DEF Coming, Sent, Relayed
<1>4. PositionTrue(t)'
  BY DEF TabTrue, PositionTrue
<1>5. StoredTrue(t)'
  <2>1. \A f \in Edits : relay'[f].step = "stored" /\ t \in relay'[f].to => Coming(t, f)'
    BY <1>3 DEF TabTrue, StoredTrue
  <2>2. \A f \in Edits : relay'[f].step = "frame" /\ t \in room' => t \in relay'[f].to \/ Coming(t, f)'
    BY <1>3 DEF TabTrue, StoredTrue
  <2>3. \A i \in DOMAIN toTab'[t] : toTab'[t][i].type = "stored" =>
           \A k \in kept' : k.seq = toTab'[t][i].seq => k.frame \in doc'[t] \/ Before(t, k.frame, i)'
    BY DEF TabTrue, StoredTrue, Before
  <2> QED BY <2>1, <2>2, <2>3 DEF StoredTrue
<1>6. ReplayTrue(t)'
  <2>1. \A k \in kept : Skipped(t, k) => Skipped(t, k)'
    BY <1>1, <1>2 DEF Skipped
  <2> QED BY <1>1, <1>3, <2>1 DEF TabTrue, ReplayTrue
<1>7. ReplayedTrue(t)'
  BY <1>1, <1>3 DEF TabTrue, ReplayedTrue, Before, Sent
<1>8. SettledTrue(t)'
  BY <1>1, <1>3 DEF TabTrue, SettledTrue
<1> QED BY <1>4, <1>5, <1>6, <1>7, <1>8 DEF TabTrue

\* A tab out of the room is promised nothing but what it counts.
LEMMA OutOfRoom ==
    ASSUME CollabInv, NEW t \in Tabs, PositionTrue(t)', toTab'[t] = <<>>, ~ replay'[t].on,
           t \notin settled', t \notin room', \A f \in Edits : t \notin relay'[f].to
    PROVE  TabTrue(t)'
<1>1. DOMAIN toTab'[t] = {}
  OBVIOUS
<1> QED BY <1>1 DEF TabTrue, StoredTrue, ReplayTrue, ReplayedTrue, SettledTrue

\* A socket that is gone leaves its tab what it counts, and the others alone.
LEMMA GoneTabs ==
    ASSUME CollabInv, [Next]_vars, NEW t \in Tabs, Gone(t, relay),
           UNCHANGED <<kept, doc, applied, announced, since>>, NEW u \in Tabs, TabTrue(u)
    PROVE  TabTrue(u)'
<1>1. \A g \in Edits : relay'[g] = [relay[g] EXCEPT !.to = @ \ {t}]
  BY DEF Gone
<1>2. \A g \in Edits : relay'[g].step = relay[g].step /\ relay'[g].to = relay[g].to \ {t}
  BY <1>1 DEF CollabInv, TypeInv, LogTypes, Relays
<1>3. CASE u = t
  <2>1. toTab'[t] = <<>> /\ ~ replay'[t].on /\ t \notin settled' /\ t \notin room'
    BY DEF Gone, NoReplay, CollabInv, TypeInv, LogTypes, WireTypes
  <2>2. PositionTrue(t)'
    BY <1>3 DEF TabTrue, PositionTrue
  <2> QED BY <1>2, <1>3, <2>1, <2>2, OutOfRoom
<1>4. CASE u # t
  <2>1. toTab'[u] = toTab[u] /\ replay'[u] = replay[u] /\ (u \in settled' => u \in settled)
        /\ (u \in room' => u \in room)
    BY <1>4 DEF Gone, CollabInv, TypeInv, LogTypes, WireTypes
  <2> QED BY <1>2, <1>4, <2>1, UntouchedTab
<1> QED BY <1>3, <1>4

\* Putting one more message on a tab's wire, if the message is true.
LEMMA ToldMore ==
    ASSUME CollabInv, NEW t \in Tabs, TabTrue(t), NEW m, toTab'[t] = Append(toTab[t], m),
           kept' = kept, doc' = doc, applied' = applied, announced' = announced, since' = since,
           settled' = settled, room' = room,
           \A f \in Edits : /\ relay'[f].step = relay[f].step
                            /\ t \in relay'[f].to => t \in relay[f].to
                            /\ t \in relay[f].to => t \in relay'[f].to \/ m = FrameMsg(f) \/ relay[f].step = "stored",
           m.type = "stored" => \A k \in kept : k.seq = m.seq => Coming(t, k.frame),
           m.type = "replayed" => \A k \in kept :
              \/ Coming(t, k.frame)
              \/ k.seq <= m.floor /\ since[t] < m.floor
              \/ k.seq > m.seq /\ Relayed(t, k.frame)
    PROVE  /\ PositionTrue(t)' /\ StoredTrue(t)' /\ ReplayedTrue(t)' /\ SettledTrue(t)'
           /\ \A f \in Edits : Coming(t, f) => Coming(t, f)'
           /\ \A f \in Edits : Relayed(t, f) => Relayed(t, f)' \/ Sent(t, f)'
<1>1. toTab[t] \in Seq(TabMsgs)
  BY DEF CollabInv, TypeInv, WireTypes
<1>0. PICK n \in Nat : n = Len(toTab[t]) + 1
  BY <1>1
<1>2. /\ \A i \in DOMAIN toTab[t] : i \in DOMAIN toTab'[t] /\ toTab'[t][i] = toTab[t][i] /\ i < n
      /\ \A i \in DOMAIN toTab'[t] : i \in DOMAIN toTab[t] \/ (i = n /\ toTab'[t][i] = m)
      /\ n \in DOMAIN toTab'[t] /\ toTab'[t][n] = m
  BY <1>0, <1>1, QueueAppend
<1>3. \A k \in kept : k.frame \in Edits
  BY DEF CollabInv, TypeInv, LogTypes
<1>4. \A f \in Edits : /\ Sent(t, f) => Sent(t, f)' /\ Before(t, f, n)'
                       /\ \A i \in DOMAIN toTab[t] : Before(t, f, i) => Before(t, f, i)'
  <2>1. ASSUME NEW f \in Edits, Sent(t, f) PROVE Sent(t, f)' /\ Before(t, f, n)'
    <3>1. PICK i \in DOMAIN toTab[t] : toTab[t][i] = FrameMsg(f)
      BY <2>1 DEF Sent
    <3>2. i \in DOMAIN toTab'[t] /\ toTab'[t][i] = FrameMsg(f) /\ i < n
      BY <1>2, <3>1
    <3> QED BY <3>2 DEF Sent, Before
  <2>2. ASSUME NEW f \in Edits, NEW i \in DOMAIN toTab[t], Before(t, f, i) PROVE Before(t, f, i)'
    BY <1>2, <2>2 DEF Before
  <2> QED BY <2>1, <2>2
<1>5. \A f \in Edits : Coming(t, f) => Coming(t, f)' /\ (f \in doc'[t] \/ Before(t, f, n)')
  BY <1>4 DEF Coming
<1>6. \A f \in Edits : Relayed(t, f) => Relayed(t, f)' \/ Sent(t, f)'
  BY <1>2 DEF Relayed, Sent
<1>7. PositionTrue(t)'
  BY DEF TabTrue, PositionTrue
<1>8. StoredTrue(t)'
  <2>1. ASSUME NEW i \in DOMAIN toTab'[t], toTab'[t][i].type = "stored",
               NEW k \in kept, k.seq = toTab'[t][i].seq
        PROVE  k.frame \in doc'[t] \/ Before(t, k.frame, i)'
    <3>1. CASE i \in DOMAIN toTab[t]
      BY <1>2, <1>3, <1>4, <2>1, <3>1 DEF TabTrue, StoredTrue
    <3>2. CASE i = n /\ toTab'[t][i] = m
      BY <1>3, <1>5, <2>1, <3>2 
    <3> QED BY <1>2, <3>1, <3>2
  <2>2. \A f \in Edits : relay'[f].step = "stored" /\ t \in relay'[f].to => Coming(t, f)'
    BY <1>5 DEF TabTrue, StoredTrue
  <2>3. ASSUME NEW f \in Edits, relay'[f].step = "frame", t \in room' PROVE t \in relay'[f].to \/ Coming(t, f)'
    <3>1. t \in relay[f].to \/ Coming(t, f)
      BY <2>3 DEF TabTrue, StoredTrue
    <3>2. m = FrameMsg(f) => Coming(t, f)'
      BY <1>2 DEF Coming, Sent
    <3> QED BY <1>5, <2>3, <3>1, <3>2
  <2> QED BY <2>1, <2>2, <2>3 DEF StoredTrue
<1>9. ReplayedTrue(t)'
  <2> SUFFICES ASSUME NEW i \in DOMAIN toTab'[t], toTab'[t][i].type = "replayed", NEW k \in kept
               PROVE  \/ k.frame \in doc'[t] \/ Before(t, k.frame, i)'
                      \/ k.seq <= toTab'[t][i].floor /\ since'[t] < toTab'[t][i].floor
                      \/ k.seq > toTab'[t][i].seq /\ (Relayed(t, k.frame)' \/ Sent(t, k.frame)')
    BY DEF ReplayedTrue
  <2>1. CASE i \in DOMAIN toTab[t]
    <3>1. \/ k.frame \in doc[t] \/ Before(t, k.frame, i)
          \/ k.seq <= toTab[t][i].floor /\ since[t] < toTab[t][i].floor
          \/ k.seq > toTab[t][i].seq /\ (Relayed(t, k.frame) \/ Sent(t, k.frame))
      BY <1>2, <2>1 DEF TabTrue, ReplayedTrue
    <3> QED BY <1>2, <1>3, <1>4, <1>6, <2>1, <3>1
  <2>2. CASE i = n /\ toTab'[t][i] = m
    BY <1>3, <1>5, <1>6, <2>2
  <2> QED BY <1>2, <2>1, <2>2
<1>10. SettledTrue(t)'
  <2>1. \A f \in Edits : Sent(t, f)' => Coming(t, f)'
    BY DEF Coming
  <2> QED BY <1>3, <1>5, <1>6, <2>1 DEF TabTrue, SettledTrue
<1> QED BY <1>5, <1>6, <1>7, <1>8, <1>9, <1>10

\* Taking the first message off it, once the tab has the edit it brings.
LEMMA ToldLess ==
    ASSUME CollabInv, NEW t \in Tabs, TabTrue(t), toTab[t] # <<>>, toTab'[t] = Tail(toTab[t]),
           kept' = kept, doc[t] \subseteq doc'[t], since' = since, room' = room, floor' = floor,
           relay' = relay, replay' = replay,
           \A f \in Edits : Head(toTab[t]) = FrameMsg(f) => f \in doc'[t]
    PROVE  /\ StoredTrue(t)' /\ ReplayTrue(t)' /\ ReplayedTrue(t)'
           /\ \A f \in Edits : (Coming(t, f) => Coming(t, f)') /\ (Relayed(t, f) <=> Relayed(t, f)')
           /\ \A f \in Edits : ~ Before(t, f, 1)
           /\ \A f \in Edits : Sent(t, f) => Coming(t, f)'
<1>1. toTab[t] \in Seq(TabMsgs)
  BY DEF CollabInv, TypeInv, WireTypes
<1>2. /\ \A i \in DOMAIN toTab'[t] : i + 1 \in DOMAIN toTab[t] /\ toTab'[t][i] = toTab[t][i + 1] /\ i \in Nat
      /\ \A i \in DOMAIN toTab[t] : i \in Nat /\ (i = 1 \/ i - 1 \in DOMAIN toTab'[t])
      /\ Head(toTab[t]) = toTab[t][1]
      /\ \A i \in DOMAIN toTab[t] : i >= 1
  BY <1>1, QueueTail
<1>3. \A k \in kept : k.frame \in Edits
  BY DEF CollabInv, TypeInv, LogTypes
<1>4. \A i \in DOMAIN toTab[t] : i # 1 => i - 1 \in DOMAIN toTab'[t] /\ toTab'[t][i - 1] = toTab[t][i]
  BY <1>2
<1>5. ASSUME NEW f \in Edits PROVE Sent(t, f) => f \in doc'[t] \/ Sent(t, f)'
  BY <1>2, <1>4 DEF Sent
<1>6. ASSUME NEW f \in Edits, NEW i \in DOMAIN toTab'[t], Before(t, f, i + 1)
      PROVE  f \in doc'[t] \/ Before(t, f, i)'
  <2>1. PICK j \in DOMAIN toTab[t] : j < i + 1 /\ toTab[t][j] = FrameMsg(f)
    BY <1>6 DEF Before
  <2>2. CASE j = 1
    BY <1>2, <2>1, <2>2
  <2>3. CASE j # 1
    <3>1. j - 1 \in DOMAIN toTab'[t] /\ toTab'[t][j - 1] = FrameMsg(f) /\ j - 1 < i
      BY <1>2, <1>4, <2>1, <2>3
    <3> QED BY <3>1 DEF Before
  <2> QED BY <2>2, <2>3
<1>7. \A f \in Edits : (Coming(t, f) => Coming(t, f)') /\ (Relayed(t, f) <=> Relayed(t, f)')
  BY <1>5 DEF Coming, Relayed
<1>8. StoredTrue(t)'
  <2>1. ASSUME NEW i \in DOMAIN toTab'[t], toTab'[t][i].type = "stored",
               NEW k \in kept, k.seq = toTab'[t][i].seq
        PROVE  k.frame \in doc'[t] \/ Before(t, k.frame, i)'
    <3>1. k.frame \in doc[t] \/ Before(t, k.frame, i + 1)
      BY <1>2, <2>1 DEF TabTrue, StoredTrue
    <3> QED BY <1>3, <1>6, <3>1
  <2>2. \A f \in Edits : relay'[f].step = "stored" /\ t \in relay'[f].to => Coming(t, f)'
    BY <1>7 DEF TabTrue, StoredTrue
  <2>3. \A f \in Edits : relay'[f].step = "frame" /\ t \in room' => t \in relay'[f].to \/ Coming(t, f)'
    BY <1>7 DEF TabTrue, StoredTrue
  <2> QED BY <2>1, <2>2, <2>3 DEF StoredTrue
<1>9. ReplayTrue(t)'
  BY <1>3, <1>7 DEF TabTrue, ReplayTrue, Skipped
<1>10. ReplayedTrue(t)'
  <2> SUFFICES ASSUME NEW i \in DOMAIN toTab'[t], toTab'[t][i].type = "replayed", NEW k \in kept
               PROVE  \/ k.frame \in doc'[t] \/ Before(t, k.frame, i)'
                      \/ k.seq <= toTab'[t][i].floor /\ since'[t] < toTab'[t][i].floor
                      \/ k.seq > toTab'[t][i].seq /\ (Relayed(t, k.frame)' \/ Sent(t, k.frame)')
    BY DEF ReplayedTrue
  <2>1. \/ k.frame \in doc[t] \/ Before(t, k.frame, i + 1)
        \/ k.seq <= toTab[t][i + 1].floor /\ since[t] < toTab[t][i + 1].floor
        \/ k.seq > toTab[t][i + 1].seq /\ (Relayed(t, k.frame) \/ Sent(t, k.frame))
    BY <1>2 DEF TabTrue, ReplayedTrue
  <2> QED BY <1>2, <1>3, <1>5, <1>6, <1>7, <2>1
<1>11. \A f \in Edits : ~ Before(t, f, 1)
  BY <1>2 DEF Before
<1> QED BY <1>5, <1>7, <1>8, <1>9, <1>10, <1>11 DEF Coming

\* Each action keeps every kept frame accounted for in each tab that is not spoiled:
\* in its document, on its wire, with the relay, in its replay, or below the floor.
LEMMA TabsStep ==
    ASSUME CollabInv, [Next]_vars
    PROVE  TabsTrue'
<1> USE DEF CollabInv, TypeInv
<1>1. ASSUME NEW t \in Tabs, openCollabSession(t) PROVE TabsTrue'
  <2> SUFFICES ASSUME NEW u \in open' \ spoiled' PROVE TabTrue(u)'
    BY DEF TabsTrue
  <2>1. /\ t \in Tabs \ open /\ open' = open \cup {t} /\ spoiled \subseteq spoiled'
        /\ doc' = [doc EXCEPT ![t] = newestYjsVersion.state]
        /\ applied' = [applied EXCEPT ![t] = newestYjsVersion.seq]
        /\ t \notin spoiled' => NewestWhole
    BY <1>1 DEF openCollabSession, Spoil
  <2>2. UNCHANGED <<kept, announced, since, toTab, replay, relay, settled, room>>
    BY <1>1 DEF openCollabSession, serverVars, relayVars, wireVars, socketVars
  <2>3. CASE u = t
    <3>1. applied'[t] = newestYjsVersion.seq /\ doc'[t] = newestYjsVersion.state /\ announced[t] = {}
      BY <2>1 DEF TabTypes, SocketInv, SocketTrue
    <3>2. newestYjsVersion.sound /\ SavedHolds(newestYjsVersion)
      BY <2>1, <2>3, NewestTyped DEF NewestWhole
    <3>3. PositionTrue(t)'
      BY <2>2, <3>1, <3>2 DEF PositionTrue, SavedHolds
    <3>4. t \notin room /\ t \notin settled /\ toTab[t] = <<>> /\ ~ replay[t].on /\ \A f \in Edits : t \notin relay[f].to
      BY <2>1 DEF SocketInv, Nested, SocketTrue, Receivers
    <3> QED BY <2>1, <2>2, <2>3, <3>3, <3>4, OutOfRoom
  <2>4. CASE u # t
    <3>1. u \in Tabs /\ TabTrue(u) /\ doc'[u] = doc[u] /\ applied'[u] = applied[u]
      BY <2>1, <2>4 DEF TabsTrue, SocketInv, Nested, TabTypes
    <3> QED BY <2>2, <3>1, UntouchedTab
  <2> QED BY <2>3, <2>4
<1>2. ASSUME NEW t \in Tabs, NEW f \in Edits, onLocalUpdate(t, f) PROVE TabsTrue'
  <2> SUFFICES ASSUME NEW u \in open' \ spoiled' PROVE TabTrue(u)'
    BY DEF TabsTrue
  <2>0. u \in Tabs
    BY <1>2 DEF onLocalUpdate, SocketInv, Nested, socketVars
  <2>1. /\ UNCHANGED <<kept, applied, announced, since, toTab, relay, settled, room, open>>
        /\ spoiled \subseteq spoiled' /\ replay' = replay /\ doc[u] \subseteq doc'[u]
    BY <1>2, <2>0 DEF onLocalUpdate, serverVars, relayVars, historyVars, TabTypes, positionVars
  <2>2. u \in Tabs /\ TabTrue(u)
    BY <2>1 DEF TabsTrue, SocketInv, Nested
  <2> QED BY <2>1, <2>2, UntouchedTab
<1>3. ASSUME NEW t \in Tabs, connect(t) PROVE TabsTrue'
  <2> SUFFICES ASSUME NEW u \in open' \ spoiled' PROVE TabTrue(u)'
    BY DEF TabsTrue
  <2>1. /\ t \in open \ online /\ since' = [since EXCEPT ![t] = applied[t]]
        /\ UNCHANGED <<kept, doc, applied, announced, toTab, replay, relay, settled, room, open, spoiled>>
    BY <1>3 DEF connect, serverVars, relayVars, positionVars, historyVars
  <2>2. u \in Tabs /\ TabTrue(u)
    BY <2>1 DEF TabsTrue, SocketInv, Nested
  <2>3. CASE u = t
    <3>1. t \notin room /\ t \notin settled /\ toTab[t] = <<>> /\ ~ replay[t].on /\ \A f \in Edits : t \notin relay[f].to
      BY <2>1 DEF SocketInv, Nested, SocketTrue, Receivers
    <3>2. PositionTrue(t)'
      BY <2>1, <2>2, <2>3 DEF TabTrue, PositionTrue
    <3> QED BY <2>1, <2>3, <3>1, <3>2, OutOfRoom
  <2>4. CASE u # t
    BY <2>1, <2>2, <2>4, UntouchedTab DEF TabTypes
  <2> QED BY <2>3, <2>4
<1>4. ASSUME NEW t \in Tabs, disconnect(t) PROVE TabsTrue'
  <2> SUFFICES ASSUME NEW u \in open' \ spoiled' PROVE TabTrue(u)'
    BY DEF TabsTrue
  <2>1. Gone(t, relay) /\ UNCHANGED <<kept, doc, applied, announced, since, open, spoiled>>
    BY <1>4 DEF disconnect, serverVars, positionVars
  <2>2. u \in Tabs /\ TabTrue(u)
    BY <2>1 DEF TabsTrue, SocketInv, Nested
  <2> QED BY <2>1, <2>2, GoneTabs
<1>5. ASSUME NEW t \in Tabs, onFrame(t) PROVE TabsTrue'
  <2> SUFFICES ASSUME NEW u \in open' \ spoiled' PROVE TabTrue(u)'
    BY DEF TabsTrue
  <2>1. /\ UNCHANGED <<kept, since, room, floor, relay, replay, open>>
        /\ toTab[t] # <<>> /\ toTab' = [toTab EXCEPT ![t] = Tail(@)] /\ Head(toTab[t]).type = "frame"
        /\ spoiled \subseteq spoiled' /\ settled \subseteq settled' /\ settled' \subseteq settled \cup {t}
    BY <1>5 DEF onFrame, Received, Spoil, serverVars, relayVars, socketVars, historyVars
  <2>2. u \in Tabs /\ TabTrue(u)
    BY <2>1 DEF TabsTrue, SocketInv, Nested
  <2>3. \A k \in kept : k.frame \in Edits /\ k.seq \in Nat /\ k.seq >= 1
    BY DEF LogTypes, LogShape
  <2>4. ASSUME u # t PROVE TabTrue(u)'
    <3>1. toTab'[u] = toTab[u] /\ doc'[u] = doc[u] /\ applied'[u] = applied[u] /\ announced'[u] = announced[u]
      BY <1>5, <2>1, <2>2, <2>4 DEF onFrame, Moved, WireTypes, TabTypes, positionVars
    <3> QED BY <2>1, <2>2, <2>4, <3>1, UntouchedTab
  <2>5. toTab'[t] = Tail(toTab[t]) /\ doc[t] \subseteq doc'[t]
    BY <1>5, <2>1 DEF onFrame, WireTypes, TabTypes
  <2>6. \A f \in Edits : Head(toTab[t]) = FrameMsg(f) => f \in doc'[t]
    BY <1>5, <2>1 DEF onFrame, FrameMsg, TabTypes
  <2>7. ASSUME u = t
        PROVE  /\ StoredTrue(t)' /\ ReplayTrue(t)' /\ ReplayedTrue(t)'
               /\ \A f \in Edits : (Coming(t, f) => Coming(t, f)') /\ (Relayed(t, f) <=> Relayed(t, f)')
               /\ \A f \in Edits : ~ Before(t, f, 1)
               /\ \A f \in Edits : Sent(t, f) => Coming(t, f)'
    BY <2>1, <2>2, <2>5, <2>6, <2>7, ToldLess
  <2>8. ASSUME u = t PROVE PositionTrue(t)'
    BY <1>5, <2>1, <2>2, <2>5, <2>8 DEF TabTrue, PositionTrue, onFrame, positionVars
  <2>9. ASSUME u = t PROVE SettledTrue(t)'
    <3>1. settled' = settled
      BY <1>5 DEF onFrame, socketVars
    <3> QED BY <2>1, <2>2, <2>3, <2>7, <2>9, <3>1 DEF TabTrue, SettledTrue
  <2>10. ASSUME u = t PROVE TabTrue(t)'
    BY <2>7, <2>8, <2>9, <2>10 DEF TabTrue
  <2> QED BY <2>4, <2>10
<1>6. ASSUME NEW t \in Tabs, onStored(t) PROVE TabsTrue'
  <2> SUFFICES ASSUME NEW u \in open' \ spoiled' PROVE TabTrue(u)'
    BY DEF TabsTrue
  <2>1. /\ UNCHANGED <<kept, since, room, floor, relay, replay, open>>
        /\ toTab[t] # <<>> /\ toTab' = [toTab EXCEPT ![t] = Tail(@)] /\ Head(toTab[t]).type = "stored"
        /\ spoiled \subseteq spoiled' /\ settled \subseteq settled' /\ settled' \subseteq settled \cup {t}
    BY <1>6 DEF onStored, Received, Spoil, serverVars, relayVars, socketVars, historyVars
  <2>2. u \in Tabs /\ TabTrue(u)
    BY <2>1 DEF TabsTrue, SocketInv, Nested
  <2>3. \A k \in kept : k.frame \in Edits /\ k.seq \in Nat /\ k.seq >= 1
    BY DEF LogTypes, LogShape
  <2>4. ASSUME u # t PROVE TabTrue(u)'
    <3>1. toTab'[u] = toTab[u] /\ doc'[u] = doc[u] /\ applied'[u] = applied[u] /\ announced'[u] = announced[u]
      BY <1>6, <2>1, <2>2, <2>4 DEF onStored, Moved, WireTypes, TabTypes, positionVars
    <3> QED BY <2>1, <2>2, <2>4, <3>1, UntouchedTab
  <2>5. toTab'[t] = Tail(toTab[t]) /\ doc[t] \subseteq doc'[t]
    BY <1>6, <2>1 DEF onStored, WireTypes, TabTypes
  <2>6. \A f \in Edits : Head(toTab[t]) = FrameMsg(f) => f \in doc'[t]
    BY <1>6, <2>1 DEF onStored, FrameMsg, TabTypes
  <2>7. ASSUME u = t
        PROVE  /\ StoredTrue(t)' /\ ReplayTrue(t)' /\ ReplayedTrue(t)'
               /\ \A f \in Edits : (Coming(t, f) => Coming(t, f)') /\ (Relayed(t, f) <=> Relayed(t, f)')
               /\ \A f \in Edits : ~ Before(t, f, 1)
               /\ \A f \in Edits : Sent(t, f) => Coming(t, f)'
    BY <2>1, <2>2, <2>5, <2>6, <2>7, ToldLess
  <2>8. ASSUME u = t PROVE PositionTrue(t)'
    <3> DEFINE seqs == announced[t] \cup ({Head(toTab[t]).seq} \ 0 .. applied[t])
    <3>1. applied[t] \in 0 .. Top /\ seqs \in SUBSET (0 .. Top) /\ Moved(t, applied[t], seqs)
      BY <1>6, StoredMoves
    <3>2. /\ applied'[t] \in applied[t] .. Top /\ (applied[t] + 1) .. applied'[t] \subseteq seqs
          /\ announced'[t] \subseteq seqs
      <4> HIDE DEF seqs
      <4> QED BY <3>1, MovedIs
    <3>3. Top \in Nat /\ applied[t] \in Nat
      BY TopIs DEF TabTypes
    <3>4. ASSUME NEW k \in kept, k.seq <= applied'[t] \/ k.seq \in announced'[t]
          PROVE  k.seq <= applied[t] \/ k.seq \in seqs
      <4> HIDE DEF seqs
      <4>1. k.seq \in Nat /\ applied'[t] \in Nat
        BY <2>3, <3>2, <3>3
      <4>2. CASE k.seq > applied[t] /\ k.seq <= applied'[t]
        <5>1. k.seq \in (applied[t] + 1) .. applied'[t]
          BY <3>3, <4>1, <4>2
        <5> QED BY <3>2, <5>1
      <4> QED BY <3>2, <3>3, <3>4, <4>1, <4>2
    <3>5. ASSUME NEW k \in kept, k.seq = Head(toTab[t]).seq PROVE k.frame \in doc[t]
      <4>1. 1 \in DOMAIN toTab[t] /\ Head(toTab[t]) = toTab[t][1]
        BY <2>1, TabHead
      <4>2. k.frame \in doc[t] \/ Before(t, k.frame, 1)
        BY <2>1, <2>2, <2>8, <3>5, <4>1 DEF TabTrue, StoredTrue
      <4> QED BY <2>3, <2>7, <2>8, <4>2
    <3>6. \A k \in kept : k.seq <= applied[t] \/ k.seq \in announced[t] => k.frame \in doc[t]
      BY <2>2, <2>8 DEF TabTrue, PositionTrue
    <3>7. doc' = doc
      BY <1>6 DEF onStored
    <3> QED BY <2>1, <3>4, <3>5, <3>6, <3>7 DEF PositionTrue
  <2>9. ASSUME u = t PROVE SettledTrue(t)'
    <3>1. settled' = settled
      BY <1>6 DEF onStored, socketVars
    <3> QED BY <2>1, <2>2, <2>3, <2>7, <2>9, <3>1 DEF TabTrue, SettledTrue
  <2>10. ASSUME u = t PROVE TabTrue(t)'
    BY <2>7, <2>8, <2>9, <2>10 DEF TabTrue
  <2> QED BY <2>4, <2>10
<1>7. ASSUME NEW t \in Tabs, onReplayed(t) PROVE TabsTrue'
  <2> SUFFICES ASSUME NEW u \in open' \ spoiled' PROVE TabTrue(u)'
    BY DEF TabsTrue
  <2>1. /\ UNCHANGED <<kept, since, room, floor, relay, replay, open>>
        /\ toTab[t] # <<>> /\ toTab' = [toTab EXCEPT ![t] = Tail(@)] /\ Head(toTab[t]).type = "replayed"
        /\ spoiled \subseteq spoiled' /\ settled \subseteq settled' /\ settled' \subseteq settled \cup {t}
    BY <1>7 DEF onReplayed, Received, Spoil, serverVars, relayVars, socketVars, historyVars
  <2>2. u \in Tabs /\ TabTrue(u)
    BY <2>1 DEF TabsTrue, SocketInv, Nested
  <2>3. \A k \in kept : k.frame \in Edits /\ k.seq \in Nat /\ k.seq >= 1
    BY DEF LogTypes, LogShape
  <2>4. ASSUME u # t PROVE TabTrue(u)'
    <3>1. toTab'[u] = toTab[u] /\ doc'[u] = doc[u] /\ applied'[u] = applied[u] /\ announced'[u] = announced[u]
      BY <1>7, <2>1, <2>2, <2>4 DEF onReplayed, Moved, WireTypes, TabTypes, positionVars
    <3> QED BY <2>1, <2>2, <2>4, <3>1, UntouchedTab
  <2>5. toTab'[t] = Tail(toTab[t]) /\ doc[t] \subseteq doc'[t]
    BY <1>7, <2>1 DEF onReplayed, WireTypes, TabTypes
  <2>6. \A f \in Edits : Head(toTab[t]) = FrameMsg(f) => f \in doc'[t]
    BY <1>7, <2>1 DEF onReplayed, FrameMsg, TabTypes
  <2>7. ASSUME u = t
        PROVE  /\ StoredTrue(t)' /\ ReplayTrue(t)' /\ ReplayedTrue(t)'
               /\ \A f \in Edits : (Coming(t, f) => Coming(t, f)') /\ (Relayed(t, f) <=> Relayed(t, f)')
               /\ \A f \in Edits : ~ Before(t, f, 1)
               /\ \A f \in Edits : Sent(t, f) => Coming(t, f)'
    BY <2>1, <2>2, <2>5, <2>6, <2>7, ToldLess
  <2>8. ASSUME u = t PROVE PositionTrue(t)' /\ SettledTrue(t)'
    <3> DEFINE m == Head(toTab[t])
               n == ReplayedTo(t)
    <3>1. /\ n \in 0 .. Top /\ announced[t] \in SUBSET (0 .. Top) /\ Moved(t, n, announced[t])
          /\ n \in {applied[t], m.seq, IF m.floor > since[t] THEN newestYjsVersion.seq ELSE 0}
          /\ m.floor \in Nat /\ m.floor <= floor /\ m.seq \in Nat
      BY <1>7, ReplayedMoves
    <3>2. /\ applied'[t] \in n .. Top /\ (n + 1) .. applied'[t] \subseteq announced[t]
          /\ announced'[t] \subseteq announced[t]
      BY <3>1, MovedIs
    <3>3. 1 \in DOMAIN toTab[t] /\ m = toTab[t][1]
      BY <2>1, TabHead
    <3>4. \A k \in kept :
             \/ k.frame \in doc[t]
             \/ k.seq <= m.floor /\ since[t] < m.floor
             \/ k.seq > m.seq /\ (Relayed(t, k.frame) \/ Sent(t, k.frame))
      BY <2>1, <2>2, <2>3, <2>7, <2>8, <3>3 DEF TabTrue, ReplayedTrue
    <3>5. since[t] \in Nat /\ floor \in Nat /\ applied[t] \in Nat /\ Top \in Nat
      BY TopIs DEF TabTypes, LogTypes
    <3>6. m.floor > since[t] =>
             /\ newestYjsVersion.state \subseteq doc'[t]
             /\ newestYjsVersion.sound /\ newestYjsVersion.seq = floor
             /\ \A k \in kept : k.seq <= floor => k.frame \in newestYjsVersion.state
      <4>1. SavedHolds(newestYjsVersion)
        BY NewestTyped
      <4>2. m.floor > since[t] => NewestWhole
        BY <1>7, <2>8 DEF onReplayed, Spoil
      <4>3. m.floor > since[t] => newestYjsVersion.state \subseteq doc'[t]
        BY <1>7 DEF onReplayed, TabTypes
      <4> QED BY <4>1, <4>2, <4>3 DEF NewestWhole, SavedHolds
    <3> HIDE DEF m, n
    <3>7. ASSUME NEW k \in kept, k.seq <= m.floor, since[t] < m.floor PROVE k.frame \in doc'[t]
      <4>1. k.seq <= floor
        BY <2>3, <3>1, <3>5, <3>7
      <4> QED BY <3>1, <3>5, <3>6, <3>7, <4>1
    <3>8. ASSUME NEW k \in kept, k.seq <= n PROVE k.frame \in doc'[t]
      <4>1. CASE n = applied[t]
        BY <2>2, <2>5, <2>8, <3>8, <4>1 DEF TabTrue, PositionTrue
      <4>2. CASE n = m.seq
        BY <2>3, <2>5, <3>1, <3>4, <3>7, <3>8, <4>2
      <4>3. CASE m.floor > since[t] /\ n = newestYjsVersion.seq
        BY <3>6, <3>8, <4>3
      <4>4. CASE n = 0
        BY <2>3, <3>8, <4>4
      <4> QED BY <3>1, <4>1, <4>2, <4>3, <4>4
    <3>9. ASSUME NEW k \in kept, k.seq <= applied'[t] \/ k.seq \in announced'[t]
          PROVE  k.frame \in doc'[t]
      <4>1. CASE k.seq \in announced[t]
        BY <2>2, <2>5, <2>8, <4>1 DEF TabTrue, PositionTrue
      <4>2. CASE k.seq \notin announced[t]
        <5>1. k.seq <= applied'[t] /\ k.seq \notin (n + 1) .. applied'[t]
          BY <3>2, <3>9, <4>2
        <5>2. k.seq <= n
          BY <2>3, <3>1, <3>2, <3>5, <5>1
        <5> QED BY <3>8, <5>2
      <4> QED BY <4>1, <4>2
    <3>10. PositionTrue(t)'
      BY <2>1, <3>9 DEF PositionTrue
    <3>11. \A k \in kept : Coming(t, k.frame)' \/ Relayed(t, k.frame)'
      <4>1. \A f \in Edits : f \in doc'[t] => Coming(t, f)'
        BY DEF Coming
      <4> QED BY <2>3, <2>5, <2>7, <2>8, <3>4, <3>7, <4>1
    <3> QED BY <2>1, <3>10, <3>11 DEF SettledTrue
  <2>10. ASSUME u = t PROVE TabTrue(t)'
    BY <2>7, <2>8, <2>10 DEF TabTrue
  <2> QED BY <2>4, <2>10
<1>8. ASSUME NEW t \in Tabs, snapshot(t) PROVE TabsTrue'
  <2> SUFFICES ASSUME NEW u \in open' \ spoiled' PROVE TabTrue(u)'
    BY DEF TabsTrue
  <2>1. /\ UNCHANGED <<kept, applied, announced, since, toTab, relay, settled, room, open>>
        /\ spoiled \subseteq spoiled' /\ doc' = doc /\ replay' = replay
    BY <1>8 DEF snapshot, serverVars, relayVars, wireVars, positionVars, socketVars, historyVars
  <2>2. u \in Tabs /\ TabTrue(u)
    BY <2>1 DEF TabsTrue, SocketInv, Nested
  <2> QED BY <2>1, <2>2, UntouchedTab
<1>9. ASSUME NEW t \in Tabs, createVersion(t) PROVE TabsTrue'
  <2> SUFFICES ASSUME NEW u \in open' \ spoiled' PROVE TabTrue(u)'
    BY DEF TabsTrue
  <2>1. /\ UNCHANGED <<kept, applied, announced, since, toTab, relay, settled, room, open>>
        /\ spoiled \subseteq spoiled' /\ doc' = doc /\ replay' = replay
    BY <1>9 DEF createVersion, serverVars, relayVars, wireVars, positionVars, socketVars, historyVars
  <2>2. u \in Tabs /\ TabTrue(u)
    BY <2>1 DEF TabsTrue, SocketInv, Nested
  <2> QED BY <2>1, <2>2, UntouchedTab
<1>10. ASSUME NEW t \in Tabs, store_version(t) PROVE TabsTrue'
  <2> SUFFICES ASSUME NEW u \in open' \ spoiled' PROVE TabTrue(u)'
    BY DEF TabsTrue
  <2>1. /\ UNCHANGED <<kept, applied, announced, since, toTab, relay, settled, room, open>>
        /\ spoiled \subseteq spoiled' /\ doc' = doc /\ replay' = replay
    BY <1>10 DEF store_version, relayVars, wireVars, positionVars, socketVars, historyVars
  <2>2. u \in Tabs /\ TabTrue(u)
    BY <2>1 DEF TabsTrue, SocketInv, Nested
  <2> QED BY <2>1, <2>2, UntouchedTab
<1>11. ASSUME NEW t \in Tabs, save_failed(t) PROVE TabsTrue'
  <2> SUFFICES ASSUME NEW u \in open' \ spoiled' PROVE TabTrue(u)'
    BY DEF TabsTrue
  <2>1. /\ UNCHANGED <<kept, applied, announced, since, toTab, relay, settled, room, open>>
        /\ spoiled \subseteq spoiled' /\ doc' = doc /\ replay' = replay
    BY <1>11 DEF save_failed, serverVars, relayVars, wireVars, positionVars, socketVars
  <2>2. u \in Tabs /\ TabTrue(u)
    BY <2>1 DEF TabsTrue, SocketInv, Nested
  <2> QED BY <2>1, <2>2, UntouchedTab
<1>12. ASSUME NEW t \in Tabs, join(t) PROVE TabsTrue'
  <2> SUFFICES ASSUME NEW u \in open' \ spoiled' PROVE TabTrue(u)'
    BY DEF TabsTrue
  <2>1. /\ t \in online \ room /\ room' = room \cup {t} /\ spoiled \subseteq spoiled'
        /\ t \notin spoiled' => \A f \in Edits : relay[f].step # "frame"
        /\ UNCHANGED <<kept, doc, applied, announced, since, toTab, replay, relay, settled, open>>
    BY <1>12 DEF join, Spoil, serverVars, wireVars, positionVars, socketVars
  <2>2. u \in Tabs /\ TabTrue(u)
    BY <2>1 DEF TabsTrue, SocketInv, Nested
  <2>3. CASE u = t
    <3>1. t \notin settled /\ toTab[t] = <<>> /\ ~ replay[t].on /\ \A f \in Edits : t \notin relay[f].to
      BY <2>1 DEF SocketInv, Nested, SocketTrue, Receivers
    <3>2. DOMAIN toTab'[t] = {}
      BY <2>1, <3>1
    <3>3. PositionTrue(t)'
      BY <2>1, <2>2, <2>3 DEF TabTrue, PositionTrue
    <3> QED BY <2>1, <2>3, <3>1, <3>2, <3>3 DEF TabTrue, StoredTrue, ReplayTrue, ReplayedTrue, SettledTrue
  <2>4. CASE u # t
    BY <2>1, <2>2, <2>4, UntouchedTab
  <2> QED BY <2>3, <2>4
<1>13. ASSUME NEW t \in Tabs, persist_frame(t) PROVE TabsTrue'
  <2> SUFFICES ASSUME NEW u \in open' \ spoiled' PROVE TabTrue(u)'
    BY DEF TabsTrue
  <2>1. PICK f \in Edits :
           /\ f \notin KeptFrames /\ relay[f].step = "none"
           /\ kept' = kept \cup {Entry(Top + 1, f)}
           /\ relay' = [relay EXCEPT ![f] = [step |-> "kept", seq |-> Top + 1, to |-> {}]]
           /\ Top \in Nat
    BY <1>13, Persisted
  <2>2. UNCHANGED <<floor, room, replay, toTab, open, doc, applied, announced, since, settled, spoiled>>
    BY <1>13 DEF persist_frame, positionVars, socketVars, historyVars
  <2>3. u \in Tabs /\ TabTrue(u)
    BY <2>2 DEF TabsTrue, SocketInv, Nested
  <2>4. relay'[f].step = "kept" /\ relay'[f].to = {} /\ \A g \in Edits \ {f} : relay'[g] = relay[g]
    BY <2>1 DEF LogTypes
  <2>5. \A k \in kept' : \/ k \in kept /\ k.frame \in Edits \ {f}
                         \/ k.seq = Top + 1 /\ k.frame = f
    BY <2>1 DEF Entry, KeptFrames, LogTypes
  <2>6. \A k \in kept : k.seq \in Nat /\ k.seq <= Top
    BY DEF LogTypes, LogShape
  <2>7. /\ \A g \in Edits : (Coming(u, g) <=> Coming(u, g)') /\ (Sent(u, g) <=> Sent(u, g)')
        /\ \A g \in Edits, i \in DOMAIN toTab[u] : Before(u, g, i) <=> Before(u, g, i)'
        /\ \A g \in Edits : Relayed(u, g) => Relayed(u, g)'
        /\ Relayed(u, f)'
    BY <2>1, <2>2, <2>4 DEF Coming, Sent, Before, Relayed
  <2>8. PositionTrue(u)'
    <3>1. applied[u] \in Nat /\ applied[u] <= Top /\ announced[u] \subseteq 0 .. Top
      BY <2>3 DEF TabTypes, BoundsInv, Counted
    <3>2. ~ (Top + 1 <= applied[u] \/ Top + 1 \in announced[u])
      BY <2>1, <3>1
    <3> QED BY <2>2, <2>3, <2>5, <3>2 DEF TabTrue, PositionTrue
  <2>9. StoredTrue(u)'
    <3>1. ASSUME NEW i \in DOMAIN toTab'[u], toTab'[u][i].type = "stored",
                 NEW k \in kept', k.seq = toTab'[u][i].seq
          PROVE  k.frame \in doc'[u] \/ Before(u, k.frame, i)'
      <4>1. toTab[u][i].seq \in Nat /\ toTab[u][i].seq <= Top
        BY <2>2, <2>3, <3>1, ToldTyped DEF BoundsInv, Told
      <4>2. k \in kept /\ k.frame \in Edits
        BY <2>1, <2>2, <2>5, <3>1, <4>1
      <4>3. k.frame \in doc[u] \/ Before(u, k.frame, i)
        BY <2>2, <2>3, <3>1, <4>2 DEF TabTrue, StoredTrue
      <4> QED BY <2>2, <2>7, <3>1, <4>2, <4>3
    <3>2. \A g \in Edits : relay'[g].step = "stored" /\ u \in relay'[g].to => Coming(u, g)'
      BY <2>3, <2>4, <2>7 DEF TabTrue, StoredTrue
    <3>3. \A g \in Edits : relay'[g].step = "frame" /\ u \in room' => u \in relay'[g].to \/ Coming(u, g)'
      BY <2>2, <2>3, <2>4, <2>7 DEF TabTrue, StoredTrue
    <3> QED BY <3>1, <3>2, <3>3 DEF StoredTrue
  <2>10. ReplayTrue(u)'
    <3> SUFFICES ASSUME replay'[u].on, NEW k \in kept'
                 PROVE  \/ Coming(u, k.frame)'
                        \/ Skipped(u, k)'
                        \/ k \in replay'[u].rows
                        \/ /\ k.seq > replay'[u].through
                           /\ \A j \in replay'[u].rows : k.seq > j.seq
                           /\ Relayed(u, k.frame)'
      BY DEF ReplayTrue
    <3>1. CASE k \in kept /\ k.frame \in Edits \ {f}
      <4>1. Skipped(u, k) => Skipped(u, k)'
        BY <2>2 DEF Skipped
      <4> QED BY <2>2, <2>3, <2>7, <3>1, <4>1 DEF TabTrue, ReplayTrue
    <3>2. CASE k.seq = Top + 1 /\ k.frame = f
      <4>1. replay[u].through \in Nat /\ replay[u].through <= Top /\ replay[u].rows \subseteq kept
        BY <2>3 DEF LogTypes, Replays, BoundsInv, Counted
      <4> QED BY <2>1, <2>2, <2>6, <2>7, <3>2, <4>1
    <3> QED BY <2>5, <3>1, <3>2
  <2>11. ReplayedTrue(u)'
    <3> SUFFICES ASSUME NEW i \in DOMAIN toTab'[u], toTab'[u][i].type = "replayed", NEW k \in kept'
                 PROVE  \/ k.frame \in doc'[u] \/ Before(u, k.frame, i)'
                        \/ k.seq <= toTab'[u][i].floor /\ since'[u] < toTab'[u][i].floor
                        \/ k.seq > toTab'[u][i].seq /\ (Relayed(u, k.frame)' \/ Sent(u, k.frame)')
      BY DEF ReplayedTrue
    <3>1. CASE k \in kept /\ k.frame \in Edits \ {f}
      BY <2>2, <2>3, <2>7, <3>1 DEF TabTrue, ReplayedTrue
    <3>2. CASE k.seq = Top + 1 /\ k.frame = f
      <4>1. toTab[u][i].seq \in Nat /\ toTab[u][i].seq <= Top
        BY <2>2, <2>3, ToldTyped DEF BoundsInv, Told
      <4> QED BY <2>1, <2>2, <2>7, <3>2, <4>1
    <3> QED BY <2>5, <3>1, <3>2
  <2>12. SettledTrue(u)'
    BY <2>2, <2>3, <2>5, <2>7 DEF TabTrue, SettledTrue
  <2> QED BY <2>8, <2>9, <2>10, <2>11, <2>12 DEF TabTrue
<1>14. ASSUME NEW t \in Tabs, frame_dropped(t) PROVE TabsTrue'
  <2> SUFFICES ASSUME NEW u \in open' \ spoiled' PROVE TabTrue(u)'
    BY DEF TabsTrue
  <2>1. /\ UNCHANGED <<kept, applied, announced, since, toTab, relay, settled, room, open>>
        /\ spoiled \subseteq spoiled' /\ doc' = doc /\ replay' = replay
    BY <1>14 DEF frame_dropped, Next_message, serverVars, relayVars, positionVars, socketVars
  <2>2. u \in Tabs /\ TabTrue(u)
    BY <2>1 DEF TabsTrue, SocketInv, Nested
  <2> QED BY <2>1, <2>2, UntouchedTab
<1>15. ASSUME NEW t \in Tabs, replay_log(t) PROVE TabsTrue'
  <2> SUFFICES ASSUME NEW u \in open' \ spoiled' PROVE TabTrue(u)'
    BY DEF TabsTrue
  <2>1. /\ toServer[t] # <<>> /\ Head(toServer[t]).type = "resume"
        /\ UNCHANGED <<log, kept, floor, room, relay, toTab, open, doc, applied, announced, since, settled, spoiled>>
        /\ \/ replay' = [replay EXCEPT ![t] = [on |-> TRUE, rows |-> Rows(Head(toServer[t]).seq),
                                               through |-> Head(toServer[t]).seq]]
           \/ replay' = replay
    BY <1>15 DEF replay_log, Next_message, serverVars, positionVars, socketVars
  <2>2. u \in Tabs /\ TabTrue(u)
    BY <2>1 DEF TabsTrue, SocketInv, Nested
  <2>3. CASE replay'[u] = replay[u]
    BY <2>1, <2>2, <2>3, UntouchedTab
  <2>4. CASE replay'[u] # replay[u]
    <3>1. u = t /\ replay'[t] = [on |-> TRUE, rows |-> Rows(Head(toServer[t]).seq), through |-> Head(toServer[t]).seq]
      BY <2>1, <2>2, <2>4 DEF LogTypes
    <3>2. Head(toServer[t]).seq = since[t]
      BY <2>1, ServerHead DEF BoundsInv, Told
    <3>3. since[t] \in Nat /\ since[t] <= applied[t] /\ applied[t] \in Nat /\ floor \in Nat
      BY DEF TabTypes, BoundsInv, Counted, LogTypes
    <3>4. ASSUME NEW k \in kept PROVE Coming(t, k.frame) \/ Skipped(t, k) \/ k \in Rows(since[t])
      <4>1. k.seq \in Nat
        BY DEF LogTypes
      <4>2. CASE k.seq <= since[t]
        <5>1. k.frame \in doc[t]
          BY <2>2, <3>1, <3>3, <4>1, <4>2 DEF TabTrue, PositionTrue
        <5> QED BY <5>1 DEF Coming
      <4>3. CASE k.seq > since[t] /\ k.seq <= floor
        BY <3>3, <4>1, <4>3 DEF Skipped
      <4>4. CASE k.seq > since[t] /\ k.seq > floor
        BY <4>4 DEF Rows, LogShape
      <4> QED BY <3>3, <4>1, <4>2, <4>3, <4>4
    <3>5. ReplayTrue(t)'
      <4>1. \A k \in kept : (Coming(t, k.frame) => Coming(t, k.frame)') /\ (Skipped(t, k) => Skipped(t, k)')
        BY <2>1 DEF Coming, Sent, Skipped
      <4>2. replay'[t].rows = Rows(since[t])
        BY <3>1, <3>2
      <4> QED BY <2>1, <3>4, <4>1, <4>2 DEF ReplayTrue
    <3>6. PositionTrue(t)' /\ StoredTrue(t)' /\ ReplayedTrue(t)' /\ SettledTrue(t)'
      BY <2>1, <2>2, <3>1
         DEF TabTrue, PositionTrue, StoredTrue, ReplayedTrue, SettledTrue, Coming, Sent, Before, Relayed
    <3> QED BY <3>1, <3>5, <3>6 DEF TabTrue
  <2> QED BY <2>3, <2>4
<1>16. ASSUME NEW t \in Tabs, replay_frame(t) PROVE TabsTrue'
  <2> SUFFICES ASSUME NEW u \in open' \ spoiled' PROVE TabTrue(u)'
    BY DEF TabsTrue
  <2>1. PICK k \in Lowest(replay[t].rows) :
           /\ toTab' = [toTab EXCEPT ![t] = Append(@, FrameMsg(k.frame))]
           /\ replay' = [replay EXCEPT ![t].rows = @ \ {k}, ![t].through = k.seq]
    BY <1>16 DEF replay_frame
  <2>2. /\ UNCHANGED <<kept, floor, room, relay, open, doc, applied, announced, since, settled, spoiled>>
        /\ replay[t].on
    BY <1>16 DEF replay_frame, serverVars, positionVars, socketVars, historyVars
  <2>3. u \in Tabs /\ TabTrue(u)
    BY <2>2 DEF TabsTrue, SocketInv, Nested
  <2>4. CASE u # t
    BY <2>1, <2>2, <2>3, <2>4, UntouchedTab DEF WireTypes, LogTypes
  <2>5. CASE u = t
    <3>1. toTab'[t] = Append(toTab[t], FrameMsg(k.frame)) /\ toTab[t] \in Seq(TabMsgs)
      BY <2>1 DEF WireTypes
    <3>2. replay[t] \in Replays /\ replay'[t] = [replay[t] EXCEPT !.rows = @ \ {k}, !.through = k.seq]
      BY <2>1 DEF LogTypes
    <3>3. k \in kept /\ k.seq \in Nat /\ k.frame \in Edits
      BY <2>1, <3>2 DEF Replays, Lowest, LogTypes
    <3>4. replay'[t].rows = replay[t].rows \ {k} /\ replay'[t].through = k.seq /\ replay[t].rows \subseteq kept
      BY <3>2 DEF Replays
    <3>5. FrameMsg(k.frame).type \notin {"stored", "replayed"}
      BY DEF FrameMsg
    <3>6. /\ PositionTrue(t)' /\ StoredTrue(t)' /\ ReplayedTrue(t)' /\ SettledTrue(t)'
          /\ \A f \in Edits : Coming(t, f) => Coming(t, f)'
          /\ \A f \in Edits : Relayed(t, f) => Relayed(t, f)'
      <4>1. \A f \in Edits : Relayed(t, f) => Relayed(t, f)'
        BY <2>2 DEF Relayed
      <4> QED BY <2>2, <2>3, <2>5, <3>1, <3>5, <4>1, ToldMore
    <3>7. Coming(t, k.frame)'
      BY <3>1, QueueAppend DEF Coming, Sent
    <3>8. ReplayTrue(t)'
      <4> SUFFICES ASSUME NEW j \in kept
                   PROVE  \/ Coming(t, j.frame)'
                          \/ Skipped(t, j)'
                          \/ j \in replay'[t].rows
                          \/ /\ j.seq > replay'[t].through
                             /\ \A i \in replay'[t].rows : j.seq > i.seq
                             /\ Relayed(t, j.frame)'
        BY <2>2 DEF ReplayTrue
      <4>1. \/ Coming(t, j.frame)
            \/ Skipped(t, j)
            \/ j \in replay[t].rows
            \/ /\ \A i \in replay[t].rows : j.seq > i.seq
               /\ Relayed(t, j.frame)
        BY <2>2, <2>3, <2>5 DEF TabTrue, ReplayTrue
      <4>2. j.frame \in Edits
        BY DEF LogTypes
      <4>3. Skipped(t, j) => Skipped(t, j)'
        BY <2>2 DEF Skipped
      <4>4. k \in replay[t].rows
        BY <2>1 DEF Lowest
      <4>5. CASE j = k
        BY <3>7, <4>5
      <4>6. CASE j # k
        BY <3>4, <3>6, <4>1, <4>2, <4>3, <4>4, <4>6
      <4> QED BY <4>5, <4>6
    <3> QED BY <2>5, <3>6, <3>8 DEF TabTrue
  <2> QED BY <2>4, <2>5
<1>17. ASSUME NEW t \in Tabs, replay_end(t) PROVE TabsTrue'
  <2> SUFFICES ASSUME NEW u \in open' \ spoiled' PROVE TabTrue(u)'
    BY DEF TabsTrue
  <2>1. PICK m \in {floor, 0} :
           /\ toTab' = [toTab EXCEPT ![t] = Append(@, ReplayedMsg(replay[t].through, m))]
           /\ t \notin spoiled' => m = floor
           /\ spoiled \subseteq spoiled'
    BY <1>17 DEF replay_end, Spoil
  <2>2. /\ UNCHANGED <<kept, floor, room, relay, open, doc, applied, announced, since, settled>>
        /\ replay' = [replay EXCEPT ![t] = NoReplay]
        /\ replay[t].on /\ replay[t].rows = {}
    BY <1>17 DEF replay_end, serverVars, positionVars, socketVars
  <2>3. u \in Tabs /\ TabTrue(u)
    BY <2>1, <2>2 DEF TabsTrue, SocketInv, Nested
  <2>4. CASE u # t
    BY <2>1, <2>2, <2>3, <2>4, UntouchedTab DEF WireTypes, LogTypes
  <2>5. CASE u = t
    <3> DEFINE msg == ReplayedMsg(replay[t].through, m)
    <3>1. toTab'[t] = Append(toTab[t], msg)
      BY <2>1 DEF WireTypes
    <3>2. msg.type = "replayed" /\ msg.seq = replay[t].through /\ msg.floor = floor
      BY <2>1, <2>5 DEF ReplayedMsg
    <3>3. \A k \in kept : \/ Coming(t, k.frame)
                          \/ k.seq <= msg.floor /\ since[t] < msg.floor
                          \/ k.seq > msg.seq /\ Relayed(t, k.frame)
      BY <2>2, <2>3, <2>5, <3>2 DEF TabTrue, ReplayTrue, Skipped
    <3> HIDE DEF msg
    <3>4. PositionTrue(t)' /\ StoredTrue(t)' /\ ReplayedTrue(t)' /\ SettledTrue(t)'
      BY <2>2, <2>3, <2>5, <3>1, <3>2, <3>3, ToldMore
    <3>5. ReplayTrue(t)'
      BY <2>2 DEF LogTypes, NoReplay, ReplayTrue
    <3> QED BY <2>5, <3>4, <3>5 DEF TabTrue
  <2> QED BY <2>4, <2>5
<1>18. ASSUME NEW t \in Tabs, replay_timeout(t) PROVE TabsTrue'
  <2> SUFFICES ASSUME NEW u \in open' \ spoiled' PROVE TabTrue(u)'
    BY DEF TabsTrue
  <2>0. u \in Tabs
    BY <1>18 DEF replay_timeout, SocketInv, Nested, socketVars
  <2>1. /\ UNCHANGED <<kept, applied, announced, since, toTab, relay, settled, room, open>>
        /\ spoiled \subseteq spoiled' /\ doc' = doc /\ (replay'[u] = replay[u] \/ ~ replay'[u].on)
    BY <1>18, <2>0 DEF replay_timeout, serverVars, wireVars, positionVars, socketVars, LogTypes, NoReplay
  <2>2. u \in Tabs /\ TabTrue(u)
    BY <2>1 DEF TabsTrue, SocketInv, Nested
  <2> QED BY <2>1, <2>2, UntouchedTab
<1>19. ASSUME NEW f \in Edits, broadcast(f) PROVE TabsTrue'
  <2> SUFFICES ASSUME NEW u \in open' \ spoiled' PROVE TabTrue(u)'
    BY DEF TabsTrue
  <2>1. UNCHANGED <<kept, floor, room, replay, toTab, open, doc, applied, announced, since, settled, spoiled>>
    BY <1>19 DEF broadcast, serverVars, wireVars, positionVars, socketVars, historyVars
  <2>2. u \in Tabs /\ TabTrue(u)
    BY <2>1 DEF TabsTrue, SocketInv, Nested
  <2>3. /\ relay'[f].step = "frame" /\ relay'[f].to = room \ {by[f]}
        /\ relay[f].step = "kept" /\ (TRUE)
        /\ \A g \in Edits \ {f} : relay'[g] = relay[g]
    BY <1>19 DEF broadcast, LogTypes, Relays
  <2>4. \A k \in kept : k.frame \in Edits
    BY DEF LogTypes
  <2>5. /\ \A g \in Edits : (Coming(u, g) => Coming(u, g)') /\ (Sent(u, g) => Sent(u, g)')
        /\ \A g \in Edits, i \in DOMAIN toTab[u] : Before(u, g, i) => Before(u, g, i)'
        /\ \A k \in kept : Skipped(u, k) => Skipped(u, k)'
    BY <2>1 DEF Coming, Sent, Before, Skipped
  <2>6. ASSUME NEW g \in Edits, Relayed(u, g), u \in room PROVE Relayed(u, g)' \/ g \in doc'[u]
    <3>1. CASE g = f /\ u = by[f]
      BY <2>1, <3>1, <2>2 DEF FramesInv, MadeIn
    <3>2. CASE g = f /\ u # by[f]
      BY <2>3, <2>6, <3>2 DEF Relayed
    <3>3. CASE g # f
      BY <2>3, <2>6, <3>3 DEF Relayed
    <3> QED BY <3>1, <3>2, <3>3
  <2>12. u = by[f] => Coming(u, f)'
    BY <2>1, <2>2 DEF FramesInv, MadeIn, Coming
  <2>14. \A g \in Edits : Relayed(u, g) /\ u \in room => Relayed(u, g)' \/ Coming(u, g)'
    <3>1. \A g \in Edits : g \in doc'[u] => Coming(u, g)'
      BY DEF Coming
    <3> QED BY <2>6, <3>1
  <2>7. PositionTrue(u)'
    BY <2>1, <2>2 DEF TabTrue, PositionTrue
  <2>8. StoredTrue(u)'
    <3>1. \A i \in DOMAIN toTab'[u] : toTab'[u][i].type = "stored" =>
             \A k \in kept' : k.seq = toTab'[u][i].seq => k.frame \in doc'[u] \/ Before(u, k.frame, i)'
      BY <2>1, <2>2, <2>4, <2>5 DEF TabTrue, StoredTrue
    <3>2. \A g \in Edits : relay'[g].step = "stored" /\ u \in relay'[g].to => Coming(u, g)'
      BY <2>2, <2>3, <2>5 DEF TabTrue, StoredTrue
    <3>3. \A g \in Edits : relay'[g].step = "frame" /\ u \in room' => u \in relay'[g].to \/ Coming(u, g)'
      BY <2>1, <2>2, <2>3, <2>5, <2>12 DEF TabTrue, StoredTrue
    <3> QED BY <3>1, <3>2, <3>3 DEF StoredTrue
  <2>9. replay[u].on \/ toTab[u] # <<>> \/ u \in settled => u \in room
    BY <2>2 DEF SocketInv, Nested, SocketTrue
  <2>10. ReplayTrue(u)'
    BY <2>1, <2>2, <2>4, <2>5, <2>14, <2>9 DEF TabTrue, ReplayTrue
  <2>11. ReplayedTrue(u)'
    <3>1. \A i \in DOMAIN toTab[u] : u \in room
      BY <2>9
    <3> QED BY <2>1, <2>2, <2>4, <2>5, <2>6, <3>1, <2>12 DEF TabTrue, ReplayedTrue
  <2>13. SettledTrue(u)'
    BY <2>1, <2>2, <2>4, <2>5, <2>14, <2>9 DEF TabTrue, SettledTrue
  <2> QED BY <2>7, <2>8, <2>10, <2>11, <2>13 DEF TabTrue
<1>20. ASSUME NEW f \in Edits, broadcast_text(f) PROVE TabsTrue'
  <2> SUFFICES ASSUME NEW u \in open' \ spoiled' PROVE TabTrue(u)'
    BY DEF TabsTrue
  <2>1. UNCHANGED <<kept, floor, room, replay, toTab, open, doc, applied, announced, since, settled, spoiled>>
    BY <1>20 DEF broadcast_text, serverVars, wireVars, positionVars, socketVars, historyVars
  <2>2. u \in Tabs /\ TabTrue(u)
    BY <2>1 DEF TabsTrue, SocketInv, Nested
  <2>3. /\ relay'[f].step = "stored" /\ relay'[f].to = room
        /\ relay[f].step = "frame" /\ (relay[f].to = {})
        /\ \A g \in Edits \ {f} : relay'[g] = relay[g]
    BY <1>20 DEF broadcast_text, LogTypes, Relays
  <2>4. \A k \in kept : k.frame \in Edits
    BY DEF LogTypes
  <2>5. /\ \A g \in Edits : (Coming(u, g) => Coming(u, g)') /\ (Sent(u, g) => Sent(u, g)')
        /\ \A g \in Edits, i \in DOMAIN toTab[u] : Before(u, g, i) => Before(u, g, i)'
        /\ \A k \in kept : Skipped(u, k) => Skipped(u, k)'
    BY <2>1 DEF Coming, Sent, Before, Skipped
  <2>6. ASSUME NEW g \in Edits, Relayed(u, g), u \in room PROVE Relayed(u, g)'
    <3>1. g # f
      BY <2>3, <2>6 DEF Relayed
    <3> QED BY <2>3, <2>6, <3>1 DEF Relayed
  <2>7. PositionTrue(u)'
    BY <2>1, <2>2 DEF TabTrue, PositionTrue
  <2>8. StoredTrue(u)'
    <3>1. \A i \in DOMAIN toTab'[u] : toTab'[u][i].type = "stored" =>
             \A k \in kept' : k.seq = toTab'[u][i].seq => k.frame \in doc'[u] \/ Before(u, k.frame, i)'
      BY <2>1, <2>2, <2>4, <2>5 DEF TabTrue, StoredTrue
    <3>2. \A g \in Edits : relay'[g].step = "stored" /\ u \in relay'[g].to => Coming(u, g)'
      BY <2>2, <2>3, <2>5 DEF TabTrue, StoredTrue
    <3>3. \A g \in Edits : relay'[g].step = "frame" /\ u \in room' => u \in relay'[g].to \/ Coming(u, g)'
      BY <2>1, <2>2, <2>3, <2>5 DEF TabTrue, StoredTrue
    <3> QED BY <3>1, <3>2, <3>3 DEF StoredTrue
  <2>9. replay[u].on \/ toTab[u] # <<>> \/ u \in settled => u \in room
    BY <2>2 DEF SocketInv, Nested, SocketTrue
  <2>10. ReplayTrue(u)'
    BY <2>1, <2>2, <2>4, <2>5, <2>6, <2>9 DEF TabTrue, ReplayTrue
  <2>11. ReplayedTrue(u)'
    <3>1. \A i \in DOMAIN toTab[u] : u \in room
      BY <2>9
    <3> QED BY <2>1, <2>2, <2>4, <2>5, <2>6, <3>1 DEF TabTrue, ReplayedTrue
  <2>13. SettledTrue(u)'
    BY <2>1, <2>2, <2>4, <2>5, <2>6, <2>9 DEF TabTrue, SettledTrue
  <2> QED BY <2>7, <2>8, <2>10, <2>11, <2>13 DEF TabTrue
<1>21. ASSUME NEW f \in Edits, NEW t \in Tabs, write(f, t) PROVE TabsTrue'
  <2> SUFFICES ASSUME NEW u \in open' \ spoiled' PROVE TabTrue(u)'
    BY DEF TabsTrue
  <2>1. /\ UNCHANGED <<kept, floor, room, replay, open, doc, applied, announced, since, settled, spoiled>>
        /\ t \in relay[f].to
        /\ relay' = [relay EXCEPT ![f].to = @ \ {t}]
        /\ toTab' = [toTab EXCEPT ![t] = Append(@, Written(f))]
    BY <1>21 DEF write, serverVars, positionVars, socketVars, historyVars
  <2>2. u \in Tabs /\ TabTrue(u)
    BY <2>1 DEF TabsTrue, SocketInv, Nested
  <2>3. /\ relay'[f].step = relay[f].step /\ relay'[f].to = relay[f].to \ {t}
        /\ \A g \in Edits \ {f} : relay'[g] = relay[g]
    BY <2>1 DEF LogTypes, Relays
  <2>4. CASE u # t
    BY <2>1, <2>2, <2>3, <2>4, UntouchedTab DEF WireTypes
  <2>5. CASE u = t
    <3>1. toTab'[t] = Append(toTab[t], Written(f))
      BY <2>1 DEF WireTypes
    <3>2. relay[f].step \in {"frame", "stored"} /\ Entry(relay[f].seq, f) \in kept
      <4>1. relay[f].step \notin {"none", "kept"}
        BY <2>1 DEF SocketInv, Receivers
      <4> QED BY <4>1 DEF LogTypes, Relays, LogShape
    <3>3. \/ relay[f].step = "frame" /\ Written(f) = FrameMsg(f) /\ Written(f).type = "frame"
          \/ relay[f].step = "stored" /\ Written(f).seq = relay[f].seq /\ Written(f).type = "stored"
      BY <3>2 DEF Written, FrameMsg, StoredMsg
    <3>4. Written(f).type = "stored" => \A k \in kept : k.seq = Written(f).seq => Coming(t, k.frame)
      <4>1. ASSUME relay[f].step = "stored", NEW k \in kept, k.seq = relay[f].seq PROVE Coming(t, k.frame)
        <5>1. k = Entry(relay[f].seq, f)
          BY <3>2, <4>1 DEF LogShape, Entry
        <5>2. k.frame = f
          BY <5>1 DEF Entry
        <5> QED BY <2>1, <2>2, <2>5, <4>1, <5>2 DEF TabTrue, StoredTrue
      <4> QED BY <3>3, <4>1
    <3>5. Written(f).type # "replayed"
      BY <3>3
    <3>6. \A g \in Edits : /\ relay'[g].step = relay[g].step
                           /\ t \in relay'[g].to => t \in relay[g].to
                           /\ t \in relay[g].to => t \in relay'[g].to \/ Written(f) = FrameMsg(g) \/ relay[g].step = "stored"
      BY <2>3, <3>3
    <3>7. /\ PositionTrue(t)' /\ StoredTrue(t)' /\ ReplayedTrue(t)' /\ SettledTrue(t)'
          /\ \A g \in Edits : Coming(t, g) => Coming(t, g)'
          /\ \A g \in Edits : Relayed(t, g) => Relayed(t, g)' \/ Sent(t, g)'
      BY <2>1, <2>2, <2>5, <3>1, <3>4, <3>5, <3>6, ToldMore
    <3>8. ReplayTrue(t)'
      <4>1. \A k \in kept : k.frame \in Edits /\ (Skipped(t, k) => Skipped(t, k)')
        BY <2>1 DEF Skipped, LogTypes
      <4>2. \A g \in Edits : Sent(t, g)' => Coming(t, g)'
        BY DEF Coming
      <4> QED BY <2>1, <2>2, <2>5, <3>7, <4>1, <4>2 DEF TabTrue, ReplayTrue
    <3> QED BY <2>5, <3>7, <3>8 DEF TabTrue
  <2> QED BY <2>4, <2>5
<1>22. ASSUME NEW f \in Edits, NEW t \in Tabs, write_timeout(f, t) PROVE TabsTrue'
  <2> SUFFICES ASSUME NEW u \in open' \ spoiled' PROVE TabTrue(u)'
    BY DEF TabsTrue
  <2>1. /\ UNCHANGED <<kept, doc, applied, announced, since, open>>
        /\ spoiled \subseteq spoiled' /\ (Busy(t) => t \in spoiled')
    BY <1>22 DEF write_timeout, Spoil, serverVars, positionVars
  <2>2. u \in Tabs /\ TabTrue(u)
    BY <2>1 DEF TabsTrue, SocketInv, Nested
  <2>3. CASE Busy(t)
    <3>1. relay' = [relay EXCEPT ![f].to = @ \ {t}] /\ UNCHANGED <<room, replay, toTab, settled>>
      BY <1>22, <2>3 DEF write_timeout, wireVars
    <3>2. \A g \in Edits : relay'[g].step = relay[g].step /\ (u \in relay'[g].to <=> u \in relay[g].to)
      BY <2>1, <2>3, <3>1 DEF LogTypes, Relays
    <3> QED BY <2>1, <2>2, <3>1, <3>2, UntouchedTab
  <2>4. CASE ~ Busy(t)
    <3>1. Gone(t, relay)
      BY <1>22, <2>4 DEF write_timeout
    <3> QED BY <2>1, <2>2, <3>1, GoneTabs
  <2> QED BY <2>3, <2>4
<1>23. ASSUME UNCHANGED vars PROVE TabsTrue'
  <2> SUFFICES ASSUME NEW u \in open' \ spoiled' PROVE TabTrue(u)'
    BY DEF TabsTrue
  <2>1. u \in Tabs /\ TabTrue(u)
    BY <1>23 DEF vars, TabsTrue, SocketInv, Nested
  <2> QED BY <1>23, <2>1, UntouchedTab DEF vars
<1> QED BY <1>1, <1>2, <1>3, <1>4, <1>5, <1>6, <1>7, <1>8, <1>9, <1>10, <1>11, <1>12, <1>13, <1>14, <1>15, <1>16, <1>17, <1>18, <1>19, <1>20, <1>21, <1>22, <1>23 DEF Next, Tab, Handler, Relay

-----------------------------------------------------------------------------
(* The invariant, and what it says of the log and of the tabs.             *)

\* An empty log, the note loaded by the tabs in the room.
LEMMA InitInv == Init => CollabInv
<1> SUFFICES ASSUME Init PROVE CollabInv
  OBVIOUS
<1>1. Present \subseteq Tabs /\ NoTab \notin Tabs /\ MaxFaults \in Nat
  BY CollabAssumption
<1>2. Top = 0
  <2>1. KeptFrames = {}
    BY DEF Init, KeptFrames
  <2> QED BY <2>1, FS_EmptySet DEF Top
<1>3. LogTypes
  BY NoReplayTyped DEF Init, LogTypes, NoRelay, Relays
<1>4. WireTypes
  BY DEF Init, WireTypes
<1>5. TabTypes
  BY <1>1 DEF Init, TabTypes, NoSave, Saves
<1>6. LogShape
  BY <1>2 DEF Init, LogShape, NoRelay
<1>7. FramesInv
  BY <1>1 DEF Init, FramesInv, UnderWay, Waiting, MadeIn, NoRelay
<1>8. SocketInv
  BY <1>1 DEF Init, SocketInv, Nested, SocketTrue, Receivers, NoRelay, NoReplay, NoSave
<1>9. BoundsInv
  BY <1>2 DEF Init, BoundsInv, VersionsKept, Counted, Told, NoReplay, NoSave
<1>10. SavesInv
  BY DEF Init, SavesInv, NoSave
<1>11. TabsTrue
  <2> SUFFICES ASSUME NEW t \in open \ spoiled PROVE TabTrue(t)
    BY DEF TabsTrue
  <2>1. /\ kept = {} /\ toTab[t] = <<>> /\ ~ replay[t].on
        /\ \A f \in Edits : relay[f].step = "none"
    BY <1>1 DEF Init, NoReplay, NoRelay
  <2> QED BY <2>1 DEF TabTrue, PositionTrue, StoredTrue, ReplayTrue, ReplayedTrue, SettledTrue
<1> QED BY <1>3, <1>4, <1>5, <1>6, <1>7, <1>8, <1>9, <1>10, <1>11 DEF CollabInv, TypeInv

\* Every step keeps each part of it.
LEMMA StepInv == CollabInv /\ [Next]_vars => CollabInv'
<1> SUFFICES ASSUME CollabInv, [Next]_vars PROVE CollabInv'
  OBVIOUS
<1>1. TypeInv'
  BY LogTypesStep, WireTypesStep, TabTypesStep DEF TypeInv
<1> QED BY <1>1, LogShapeStep, FramesStep, SocketStep, BoundsStep, SavesStep, TabsStep DEF CollabInv

\* The log, the relay's handlers, the wires and the tabs, together: where each
\* kept frame is that a tab does not hold yet.
THEOREM CollabInvHolds == Spec => []CollabInv
<1>1. Init => CollabInv
  BY InitInv
<1>2. CollabInv /\ [Next]_vars => CollabInv'
  BY StepInv
<1> QED BY <1>1, <1>2, PTL DEF Spec

\* Positions, documents and messages stay what they are declared to be.
LEMMA Typed == CollabInv => TypeOK
<1> SUFFICES ASSUME CollabInv PROVE TypeOK
  OBVIOUS
<1> USE DEF CollabInv, TypeInv
<1>1. Top \in Nat /\ Top <= Cardinality(Edits) /\ Cardinality(Edits) \in Nat
  BY TopIs, CollabAssumption, FS_CardinalityType
<1>2. \A n \in Nat : n <= Top => n \in Positions
  BY <1>1 DEF Positions
<1>3. \A k \in log \cup kept : k.seq \in Positions /\ k.frame \in Edits
  BY <1>2 DEF LogShape, LogTypes
<1>4. floor \in Positions
  BY <1>2 DEF LogShape, LogTypes
<1>5. ASSUME NEW i \in DOMAIN versions
      PROVE  /\ versions[i].state \subseteq Edits /\ versions[i].seq \in Positions
             /\ versions[i].sound \in BOOLEAN
  <2>1. versions[i] \in Versions /\ versions[i].seq <= Top
    BY DEF LogTypes, BoundsInv, VersionsKept
  <2> QED BY <1>2, <2>1 DEF Versions
<1>6. ASSUME NEW f \in Edits
      PROVE  /\ relay[f].step \in {"none", "kept", "frame", "stored"}
             /\ relay[f].seq \in Positions
             /\ relay[f].to \subseteq room
  <2>1. relay[f] \in Relays /\ relay[f].to \subseteq room
    BY DEF LogTypes, SocketInv, Receivers
  <2>2. relay[f].seq <= Top
    <3>1. CASE relay[f].step = "none"
      BY <1>1, <3>1 DEF LogShape
    <3>2. CASE relay[f].step # "none"
      BY <3>2 DEF LogShape, Entry
    <3> QED BY <3>1, <3>2
  <2> QED BY <1>2, <2>1, <2>2 DEF Relays
<1>7. ASSUME NEW t \in Tabs
      PROVE  /\ doc[t] \subseteq Edits
             /\ applied[t] \in Positions
             /\ announced[t] \subseteq Positions
             /\ since[t] \in Positions
             /\ opens[t] \in 0 .. Max({1, MaxOpens})
             /\ saving[t].step \in {"none", "sealing", "sent"}
             /\ saving[t].state \subseteq Edits
             /\ saving[t].seq \in Positions
             /\ saving[t].sound \in BOOLEAN
             /\ replay[t].rows \subseteq kept
  <2>1. Counted(t) /\ saving[t] \in Saves /\ replay[t] \in Replays
    BY DEF BoundsInv, TabTypes, LogTypes
  <2>2. applied[t] \in Nat /\ since[t] \in Nat /\ announced[t] \subseteq Nat /\ opens[t] \in Nat
    BY DEF TabTypes
  <2>3. applied[t] \in Positions /\ since[t] \in Positions /\ announced[t] \subseteq Positions
    BY <1>1, <1>2, <2>1, <2>2 DEF Counted
  <2>4. opens[t] \in 0 .. Max({1, MaxOpens})
    <3>1. MaxOpens \in Nat /\ (opens[t] <= 1 \/ opens[t] <= MaxOpens)
      BY CollabAssumption DEF TabTypes
    <3> QED BY <2>2, <3>1, MaxOfTwo
  <2> QED BY <1>2, <2>1, <2>3, <2>4 DEF TabTypes, Saves, Replays, Counted
<1>8. ASSUME NEW t \in Tabs PROVE Range(pending[t]) \subseteq Edits
  <2>1. pending[t] \in Seq(Edits)
    BY DEF WireTypes
  <2> QED BY <2>1 DEF Range
<1>9. ASSUME NEW t \in Tabs
      PROVE  /\ \A i \in DOMAIN toTab[t] : toTab[t][i].type \in {"frame", "stored", "replayed"}
             /\ \A i \in DOMAIN toServer[t] : toServer[t][i].type \in {"frame", "resume"}
  <2>1. toTab[t] \in Seq(TabMsgs) /\ toServer[t] \in Seq(ServerMsgs)
    BY DEF WireTypes
  <2>2. \A m \in TabMsgs : m.type \in {"frame", "stored", "replayed"}
    BY DEF TabMsgs, FrameMsgs, StoredMsgs, ReplayedMsgs
  <2>3. \A m \in ServerMsgs : m.type \in {"frame", "resume"}
    BY DEF ServerMsgs, FrameMsgs, ResumeMsgs
  <2> QED BY <2>1, <2>2, <2>3
<1>10. /\ room \subseteq online /\ settled \subseteq online /\ online \subseteq open /\ open \subseteq Tabs
       /\ by \in [Edits -> Tabs \cup {NoTab}] /\ spoiled \subseteq Tabs /\ faults \in 0 .. MaxFaults
  BY DEF SocketInv, Nested, TabTypes
<1> QED BY <1>3, <1>4, <1>5, <1>6, <1>7, <1>8, <1>9, <1>10 DEF TypeOK

\* persist_frame gives a position once, also after store_version trimmed the
\* log, and a version stored as sound holds every frame up to its position.
THEOREM LogHolds == Spec => []LogInv
<1>1. CollabInv => LogInv
  <2> SUFFICES ASSUME CollabInv PROVE LogInv
    OBVIOUS
  <2>1. PositionsOnce
    BY DEF CollabInv, LogShape, PositionsOnce
  <2>2. VersionHolds
    BY DEF CollabInv, SavesInv, SavedHolds, VersionHolds
  <2> QED BY <2>1, <2>2, Typed DEF LogInv
<1> QED BY <1>1, CollabInvHolds, PTL

\* A tab's `applied` counts only frames its document has (Advance over what
\* onStored and onReplayed hear), however broadcasts of two handlers interleave.
THEOREM AppliedHolds == Spec => []AppliedComplete
<1>1. CollabInv => AppliedComplete
  BY DEF CollabInv, TabsTrue, TabTrue, PositionTrue, AppliedComplete
<1> QED BY <1>1, CollabInvHolds, PTL

\* What store_version trims is in the newest version or still in the log, for a
\* tab that opens the note next.
THEOREM FreshHolds == Spec => []FreshComplete
<1>1. CollabInv => FreshComplete
  <2> SUFFICES ASSUME CollabInv, NewestWhole, NEW k \in kept
               PROVE  \/ k.frame \in newestYjsVersion.state
                      \/ k \in log /\ k.seq > newestYjsVersion.seq
    BY DEF FreshComplete
  <2>1. SavedHolds(newestYjsVersion)
    BY NewestTyped DEF CollabInv, TypeInv
  <2>2. k.seq \in Nat /\ floor \in Nat /\ log = {j \in kept : j.seq > floor}
    BY DEF CollabInv, TypeInv, LogTypes, LogShape
  <2>3. newestYjsVersion.sound /\ newestYjsVersion.seq = floor
    BY DEF NewestWhole
  <2> QED BY <2>1, <2>2, <2>3 DEF SavedHolds
<1> QED BY <1>1, CollabInvHolds, PTL

\* Whether broadcast, replay_log or catchUp was to bring it: a tab that was told
\* its replay is over lacks no kept frame once nothing is on its way to it.
THEOREM RestHolds == Spec => []RestComplete
<1>1. CollabInv => RestComplete
  <2> SUFFICES ASSUME CollabInv, NEW t \in settled \ spoiled, AtRest(t), NEW k \in kept
               PROVE  k.frame \in doc[t]
    BY DEF RestComplete
  <2>1. t \in open \ spoiled /\ k.frame \in Edits
    BY DEF CollabInv, TypeInv, LogTypes, SocketInv, Nested
  <2>2. Coming(t, k.frame) \/ Relayed(t, k.frame)
    BY <2>1 DEF CollabInv, TabsTrue, TabTrue, SettledTrue
  <2>3. ~ Relayed(t, k.frame)
    BY <2>1 DEF AtRest, Relaying, Relayed
  <2>4. ~ Sent(t, k.frame)
    BY DEF AtRest, Sent
  <2> QED BY <2>2, <2>3, <2>4 DEF Coming
<1> QED BY <1>1, CollabInvHolds, PTL

=============================================================================

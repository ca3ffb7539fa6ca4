------------------------------ MODULE CollabLog ------------------------------
(***************************************************************************)
(* One note edited together: the relay's update log and room, the saved    *)
(* versions that trim the log, and the tabs.  A tab's document is a set of *)
(* edits (Yjs merges are idempotent and commute); it counts how far into   *)
(* the log it is complete, saves versions at that position and resumes     *)
(* from it when its socket comes back.                                     *)
(*                                                                         *)
(* Each connection has a handler of its own, so two edits are kept in one  *)
(* order and may be relayed in the other.  Presence, keys and access are   *)
(* left out; a frame the gate or the database refuses is dropped.          *)
(***************************************************************************)
EXTENDS Naturals, Sequences, FiniteSets, FiniteSetsExt, SequencesExt

CONSTANTS
    Tabs,        \* editing tabs
    Present,     \* those in the room at the start
    Savers,      \* those that save versions
    Edits,       \* frames
    NoTab,
    MaxOpens,    \* bound on the sockets a tab opens
    MaxSaves,    \* bound on saved versions
    MaxFaults    \* bound on what fails: reads, writes, saves, sockets

ASSUME CollabAssumption ==
    /\ IsFiniteSet(Edits)
    /\ Present \subseteq Tabs
    /\ Savers \subseteq Tabs
    /\ NoTab \notin Tabs
    /\ MaxOpens \in Nat
    /\ MaxSaves \in Nat
    /\ MaxFaults \in Nat

VARIABLES
    log, floor,  \* file_update_log and files.collab_log_floor
    kept,        \* history: every frame ever kept, at its position
    versions,    \* saved versions, oldest first
    room,        \* the hub's room
    relay,       \* how far each kept frame was relayed
    replay,      \* what a handler still has to replay
    toServer,    \* what each socket holds for the server
    toTab,       \* what it holds for the tab
    by,          \* the tab each edit was made in
    open,        \* tabs that loaded the note
    doc,         \* the edits in each tab's document
    applied, announced,
    since,       \* where its socket resumed from
    pending,     \* frames waiting for a socket
    online,      \* tabs whose socket is open
    settled,     \* history: those whose socket has replayed
    opens,       \* sockets it opened
    saving,      \* the version it is saving
    spoiled,     \* history: tabs that may count a frame they never got
    faults       \* how much failed so far

serverVars == <<log, floor, kept, versions>>
relayVars == <<room, relay, replay>>
wireVars == <<toServer, toTab>>
positionVars == <<applied, announced>>
socketVars == <<since, pending, online, settled, opens>>
vars == <<log, floor, kept, versions, room, relay, replay, toServer, toTab, by, open, doc,
          applied, announced, since, pending, online, settled, opens, saving, spoiled, faults>>
historyVars == <<spoiled, faults>>

Positions == 0 .. Cardinality(Edits)
Entry(n, f) == [seq |-> n, frame |-> f]
FrameMsg(f) == [type |-> "frame", frame |-> f]
StoredMsg(n) == [type |-> "stored", seq |-> n]
ReplayedMsg(n, m) == [type |-> "replayed", seq |-> n, floor |-> m]
ResumeMsg(n) == [type |-> "resume", seq |-> n]

NoRelay == [step |-> "none", seq |-> 0, to |-> {}]
NoReplay == [on |-> FALSE, rows |-> {}, through |-> 0]
NoSave == [step |-> "none", state |-> {}, seq |-> 0, sound |-> TRUE]

\* The position of the last frame, kept or trimmed.
log_head == Max({k.seq : k \in log} \cup {floor})

\* The original upload stands for the version of a note never saved.
newestYjsVersion == IF versions = <<>> THEN [state |-> {}, seq |-> 0, sound |-> TRUE] ELSE Last(versions)

\* History: the newest version holds what the log was trimmed of.  (It need not:
\* the newest is the one saved last, whatever its position.)
NewestWhole == newestYjsVersion.sound /\ newestYjsVersion.seq = floor

TypeOK ==
    /\ \A k \in log \cup kept : k.seq \in Positions /\ k.frame \in Edits
    /\ floor \in Positions
    /\ \A i \in DOMAIN versions : versions[i].state \subseteq Edits /\ versions[i].seq \in Positions
                               /\ versions[i].sound \in BOOLEAN
    /\ room \subseteq online
    /\ \A f \in Edits :
          /\ relay[f].step \in {"none", "kept", "frame", "stored"}
          /\ relay[f].seq \in Positions
          /\ relay[f].to \subseteq room
    /\ by \in [Edits -> Tabs \cup {NoTab}]
    /\ open \subseteq Tabs
    /\ settled \subseteq online
    /\ online \subseteq open
    /\ \A t \in Tabs :
          /\ doc[t] \subseteq Edits
          /\ applied[t] \in Positions
          /\ announced[t] \subseteq Positions
          /\ since[t] \in Positions
          /\ Range(pending[t]) \subseteq Edits
          /\ opens[t] \in 0 .. Max({1, MaxOpens})
          /\ saving[t].step \in {"none", "sealing", "sent"}
          /\ saving[t].state \subseteq Edits
          /\ saving[t].seq \in Positions
          /\ saving[t].sound \in BOOLEAN
          /\ replay[t].rows \subseteq kept
          /\ \A i \in DOMAIN toTab[t] : toTab[t][i].type \in {"frame", "stored", "replayed"}
          /\ \A i \in DOMAIN toServer[t] : toServer[t][i].type \in {"frame", "resume"}
    /\ spoiled \subseteq Tabs
    /\ faults \in 0 .. MaxFaults

Init ==
    /\ log = {}
    /\ floor = 0
    /\ kept = {}
    /\ versions = <<>>
    /\ room = Present
    /\ relay = [f \in Edits |-> NoRelay]
    /\ replay = [t \in Tabs |-> NoReplay]
    /\ toServer = [t \in Tabs |-> <<>>]
    /\ toTab = [t \in Tabs |-> <<>>]
    /\ by = [f \in Edits |-> NoTab]
    /\ open = Present
    /\ doc = [t \in Tabs |-> {}]
    /\ applied = [t \in Tabs |-> 0]
    /\ announced = [t \in Tabs |-> {}]
    /\ since = [t \in Tabs |-> 0]
    /\ pending = [t \in Tabs |-> <<>>]
    /\ online = Present
    /\ settled = Present
    /\ opens = [t \in Tabs |-> IF t \in Present THEN 1 ELSE 0]
    /\ saving = [t \in Tabs |-> NoSave]
    /\ spoiled = {}
    /\ faults = 0

Fault == faults < MaxFaults /\ faults' = faults + 1
Spoil(t, when) == spoiled' = IF when THEN spoiled \cup {t} ELSE spoiled

-----------------------------------------------------------------------------
(* A tab: loading, editing, its socket.                                    *)

\* The newest saved state, and the position it was saved at.
openCollabSession(t) ==
    /\ t \notin open
    /\ open' = open \cup {t}
    /\ doc' = [doc EXCEPT ![t] = newestYjsVersion.state]
    /\ applied' = [applied EXCEPT ![t] = newestYjsVersion.seq]
    /\ Spoil(t, ~ NewestWhole)
    /\ UNCHANGED <<serverVars, relayVars, wireVars, by, announced, socketVars, saving, faults>>

\* A local change: in the document at once, and sent or queued.
onLocalUpdate(t, f) ==
    /\ t \in open
    /\ by[f] = NoTab
    /\ by' = [by EXCEPT ![f] = t]
    /\ doc' = [doc EXCEPT ![t] = @ \cup {f}]
    /\ IF t \in online
       THEN toServer' = [toServer EXCEPT ![t] = Append(@, FrameMsg(f))] /\ UNCHANGED pending
       ELSE pending' = [pending EXCEPT ![t] = Append(@, f)] /\ UNCHANGED toServer
    /\ UNCHANGED <<serverVars, relayVars, toTab, open, positionVars, since, online, settled,
                   opens, saving, historyVars>>

\* The socket opens: resume, then what waited.
connect(t) ==
    /\ t \in open \ online
    /\ opens[t] < MaxOpens
    /\ opens' = [opens EXCEPT ![t] = @ + 1]
    /\ online' = online \cup {t}
    /\ since' = [since EXCEPT ![t] = applied[t]]
    /\ toServer' = [toServer EXCEPT ![t] =
                       <<ResumeMsg(applied[t])>> \o [i \in DOMAIN pending[t] |-> FrameMsg(pending[t][i])]]
    /\ pending' = [pending EXCEPT ![t] = <<>>]
    /\ UNCHANGED <<serverVars, relayVars, toTab, by, open, doc, positionVars, settled, saving, historyVars>>

\* The socket is gone with everything it held, in either direction.
Gone(t, rest) ==
    /\ online' = online \ {t}
    /\ settled' = settled \ {t}
    /\ room' = room \ {t}
    /\ relay' = [f \in Edits |-> [rest[f] EXCEPT !.to = @ \ {t}]]
    /\ replay' = [replay EXCEPT ![t] = NoReplay]
    /\ toServer' = [toServer EXCEPT ![t] = <<>>]
    /\ toTab' = [toTab EXCEPT ![t] = <<>>]

disconnect(t) ==
    /\ t \in online
    /\ Fault
    /\ Gone(t, relay)
    /\ UNCHANGED <<serverVars, by, open, doc, positionVars, since, pending, opens, saving, spoiled>>

-----------------------------------------------------------------------------
(* The relay: one handler per connection.                                  *)

Relaying(f) == relay[f].step \in {"kept", "frame"} \/ relay[f].to # {}

\* A handler takes one message at a time and sees it through.
Busy(t) == replay[t].on \/ \E f \in Edits : by[f] = t /\ Relaying(f)

Next_message(t, type) ==
    /\ t \in room
    /\ ~ Busy(t)
    /\ toServer[t] # <<>>
    /\ Head(toServer[t]).type = type
    /\ toServer' = [toServer EXCEPT ![t] = Tail(@)]

\* Between a frame and its position, a tab is told the position alone.
join(t) ==
    /\ t \in online \ room
    /\ room' = room \cup {t}
    /\ Spoil(t, \E f \in Edits : relay[f].step = "frame")
    /\ UNCHANGED <<serverVars, relay, replay, wireVars, by, open, doc, positionVars, socketVars, saving, faults>>

NextPosition == log_head + 1

persist_frame(t) ==
    /\ Next_message(t, "frame")
    /\ LET f == Head(toServer[t]).frame
           n == NextPosition
       IN  /\ log' = log \cup {Entry(n, f)}
           /\ kept' = kept \cup {Entry(n, f)}
           /\ relay' = [relay EXCEPT ![f] = [step |-> "kept", seq |-> n, to |-> {}]]
    /\ UNCHANGED <<floor, versions, room, replay, toTab, by, open, doc, positionVars, socketVars, saving, historyVars>>

\* The gate refuses the frame, or keeping it fails.
frame_dropped(t) ==
    /\ Next_message(t, "frame")
    /\ Fault
    /\ UNCHANGED <<serverVars, relayVars, toTab, by, open, doc, positionVars, socketVars, saving, spoiled>>

\* The frame to the others, then its position to all: each time to those in
\* the room then, and to one after another.
broadcast(f) ==
    /\ relay[f].step = "kept"
    /\ relay' = [relay EXCEPT ![f].step = "frame", ![f].to = room \ {by[f]}]
    /\ UNCHANGED <<serverVars, room, replay, wireVars, by, open, doc, positionVars, socketVars, saving, historyVars>>

broadcast_text(f) ==
    /\ relay[f].step = "frame"
    /\ relay[f].to = {}
    /\ relay' = [relay EXCEPT ![f].step = "stored", ![f].to = room]
    /\ UNCHANGED <<serverVars, room, replay, wireVars, by, open, doc, positionVars, socketVars, saving, historyVars>>

Written(f) == IF relay[f].step = "frame" THEN FrameMsg(f) ELSE StoredMsg(relay[f].seq)

write(f, t) ==
    /\ t \in relay[f].to
    /\ relay' = [relay EXCEPT ![f].to = @ \ {t}]
    /\ toTab' = [toTab EXCEPT ![t] = Append(@, Written(f))]
    /\ UNCHANGED <<serverVars, room, replay, toServer, by, open, doc, positionVars, socketVars, saving, historyVars>>

\* No room for the message in time: it is given up, and the connection closes
\* if its read loop waits for that just then.
write_timeout(f, t) ==
    /\ Fault
    /\ t \in relay[f].to
    /\ Spoil(t, Busy(t))
    /\ IF Busy(t)
       THEN /\ relay' = [relay EXCEPT ![f].to = @ \ {t}]
            /\ UNCHANGED <<room, replay, wireVars, online, settled>>
       ELSE Gone(t, relay)
    /\ UNCHANGED <<serverVars, by, open, doc, positionVars, since, pending, opens, saving>>

\* Mutant of Rows: one frame short.
Rows_short(n) == {k \in log : k.seq > n + 1}

\* What a tab that was at n has missed, to be replayed in this order.
Rows(n) == {k \in log : k.seq > n}
Lowest(rows) == {k \in rows : \A j \in rows : k.seq <= j.seq}

\* A failed read answers nothing.
replay_log(t) ==
    /\ Next_message(t, "resume")
    /\ LET n == Head(toServer[t]).seq
       IN  \/ /\ replay' = [replay EXCEPT ![t] = [on |-> TRUE, rows |-> Rows(n), through |-> n]]
             /\ UNCHANGED faults
           \/ Fault /\ UNCHANGED replay
    /\ UNCHANGED <<serverVars, room, relay, toTab, by, open, doc, positionVars, socketVars, saving, spoiled>>

replay_frame(t) ==
    /\ replay[t].on
    /\ \E k \in Lowest(replay[t].rows) :
          /\ toTab' = [toTab EXCEPT ![t] = Append(@, FrameMsg(k.frame))]
          /\ replay' = [replay EXCEPT ![t].rows = @ \ {k}, ![t].through = k.seq]
    /\ UNCHANGED <<serverVars, room, relay, toServer, by, open, doc, positionVars, socketVars, saving, historyVars>>

\* No room for what it writes in time: the replay stops without a word.
replay_timeout(t) ==
    /\ Fault
    /\ replay[t].on
    /\ replay' = [replay EXCEPT ![t] = NoReplay]
    /\ UNCHANGED <<serverVars, room, relay, wireVars, by, open, doc, positionVars, socketVars, saving, spoiled>>

\* The floor is read after the frames; a failed read counts as no floor.
replay_end(t) ==
    /\ replay[t].on
    /\ replay[t].rows = {}
    /\ \E m \in {floor, 0} :
          /\ toTab' = [toTab EXCEPT ![t] = Append(@, ReplayedMsg(replay[t].through, m))]
          /\ IF m = floor THEN UNCHANGED faults ELSE Fault
          /\ Spoil(t, m # floor)
    /\ replay' = [replay EXCEPT ![t] = NoReplay]
    /\ UNCHANGED <<serverVars, room, relay, toServer, by, open, doc, positionVars, socketVars, saving>>

-----------------------------------------------------------------------------
(* What a tab does with what it gets, one message at a time.               *)

Received(t, type) ==
    /\ toTab[t] # <<>>
    /\ Head(toTab[t]).type = type
    /\ toTab' = [toTab EXCEPT ![t] = Tail(@)]

onFrame(t) ==
    /\ Received(t, "frame")
    /\ doc' = [doc EXCEPT ![t] = @ \cup {Head(toTab[t]).frame}]
    /\ UNCHANGED <<serverVars, relayVars, toServer, by, open, positionVars, socketVars, saving, historyVars>>

\* Mutant of Advance: the highest position announced.
Advance_highest(n, seqs) == Max(seqs \cup {n})

\* As far as the announced positions leave no gap.
Advance(n, seqs) == Max({m \in seqs \cup {n} : m >= n /\ (n + 1) .. m \subseteq seqs})

\* The position, and the announced ones still beyond it.
Moved(t, n, seqs) ==
    /\ applied' = [applied EXCEPT ![t] = Advance(n, seqs)]
    /\ announced' = [announced EXCEPT ![t] = {m \in seqs : m > Advance(n, seqs)}]

onStored(t) ==
    /\ Received(t, "stored")
    /\ Moved(t, applied[t], announced[t] \cup ({Head(toTab[t]).seq} \ 0 .. applied[t]))
    /\ UNCHANGED <<serverVars, relayVars, toServer, by, open, doc, socketVars, saving, historyVars>>

\* A version trimmed the log past where this socket resumed: the newest is
\* merged in (catchUp).
onReplayed(t) ==
    /\ Received(t, "replayed")
    /\ LET m == Head(toTab[t])
           behind == m.floor > since[t]
           version == IF behind THEN newestYjsVersion.seq ELSE 0
       IN  /\ doc' = [doc EXCEPT ![t] = @ \cup (IF behind THEN newestYjsVersion.state ELSE {})]
           /\ Moved(t, Max({applied[t], m.seq, version}), announced[t])
           /\ Spoil(t, behind /\ ~ NewestWhole)
    /\ settled' = settled \cup {t}
    /\ UNCHANGED <<serverVars, relayVars, toServer, by, open, since, pending, online, opens, saving, faults>>

-----------------------------------------------------------------------------
(* Saving a version.                                                       *)

\* Mutant of getSeq: the log's head, as hello told it.
getSeq_head(t) == log_head

getSeq(t) == applied[t]

\* The document is encoded and sealed, ...
snapshot(t) ==
    /\ t \in Savers \cap open
    /\ saving[t].step = "none"
    /\ saving' = [saving EXCEPT ![t] = [NoSave EXCEPT !.step = "sealing", !.state = doc[t]]]
    /\ UNCHANGED <<serverVars, relayVars, wireVars, by, open, doc, positionVars, socketVars, historyVars>>

\* ... and sent with the position it has by then, which may count a frame that
\* came while it was sealed.
createVersion(t) ==
    /\ saving[t].step = "sealing"
    /\ saving' = [saving EXCEPT ![t].step = "sent", ![t].seq = getSeq(t),
                                ![t].sound = doc[t] = saving[t].state /\ t \notin spoiled]
    /\ UNCHANGED <<serverVars, relayVars, wireVars, by, open, doc, positionVars, socketVars, historyVars>>

\* Mutant of Trimmed: the whole log goes.
Trimmed_all(n) == {}

\* What a version at n leaves of the log.
Trimmed(n) == {k \in log : k.seq > n}

store_version(t) ==
    /\ saving[t].step = "sent"
    /\ Len(versions) < MaxSaves
    /\ LET n == Min({saving[t].seq, log_head})
       IN  /\ versions' = Append(versions, [state |-> saving[t].state, seq |-> n, sound |-> saving[t].sound])
           /\ log' = IF n > 0 THEN Trimmed(n) ELSE log
           /\ floor' = Max({floor, n})
    /\ saving' = [saving EXCEPT ![t] = NoSave]
    /\ UNCHANGED <<kept, relayVars, wireVars, by, open, doc, positionVars, socketVars, historyVars>>

\* Refused (the quota, the key) or lost.
save_failed(t) ==
    /\ saving[t].step = "sent"
    /\ Fault
    /\ saving' = [saving EXCEPT ![t] = NoSave]
    /\ UNCHANGED <<serverVars, relayVars, wireVars, by, open, doc, positionVars, socketVars, spoiled>>

Tab(t) ==
    \/ openCollabSession(t) \/ connect(t) \/ disconnect(t)
    \/ \E f \in Edits : onLocalUpdate(t, f)
    \/ onFrame(t) \/ onStored(t) \/ onReplayed(t)
    \/ snapshot(t) \/ createVersion(t) \/ store_version(t) \/ save_failed(t)

Handler(t) ==
    \/ join(t) \/ persist_frame(t) \/ frame_dropped(t)
    \/ replay_log(t) \/ replay_frame(t) \/ replay_end(t) \/ replay_timeout(t)

Relay(f) ==
    \/ broadcast(f) \/ broadcast_text(f)
    \/ \E t \in Tabs : write(f, t) \/ write_timeout(f, t)

Next ==
    \/ \E t \in Tabs : Tab(t) \/ Handler(t)
    \/ \E f \in Edits : Relay(f)

Spec == Init /\ [][Next]_vars

-----------------------------------------------------------------------------
(* What makes editing together correct.                                    *)

\* A tab holds every kept frame up to its position, connected or not and
\* whatever the order edits were relayed in ("every kept frame up to `applied`
\* is in it"), unless one of four things happened to it: a write to it timed out
\* while its handler was busy, it joined between a frame and its position, its
\* replay could not read the floor, or the newest version was not whole.
AppliedComplete ==
    \A t \in open \ spoiled, k \in kept : k.seq <= applied[t] => k.frame \in doc[t]

\* A version whose document stayed the same while it was sealed holds every
\* frame up to the position it records, so trimming to it never removes an edit
\* it lacks ("Everything up to this point of the collaboration log is in the
\* version").
VersionHolds ==
    \A i \in DOMAIN versions, k \in kept :
       versions[i].sound /\ k.seq <= versions[i].seq => k.frame \in versions[i].state

\* A tab that opens the note now gets every kept edit, from the newest version
\* or from the log after it, as long as the newest is the one the log was
\* trimmed to.
FreshComplete ==
    NewestWhole => \A k \in kept :
       k.frame \in newestYjsVersion.state \/ (k \in log /\ k.seq > newestYjsVersion.seq)

\* A position is given to one frame, also once versions trimmed the log
\* ("Positions only ever go up").
PositionsOnce == \A j, k \in kept : j.seq = k.seq => j = k

\* The log and its versions: well formed, positions given once, and nothing
\* trimmed that a sound version does not hold.
LogInv == TypeOK /\ PositionsOnce /\ VersionHolds

\* Once nothing is on its way any more, every connected tab has every kept edit,
\* whichever way each was to reach it (relayed, replayed or from a version) and
\* whatever else was going on, with the exceptions of AppliedComplete.
AtRest(t) ==
    /\ toTab[t] = <<>>
    /\ ~ replay[t].on
    /\ \A f \in Edits : ~ Relaying(f)

RestComplete ==
    \A t \in settled \ spoiled : AtRest(t) => {k.frame : k \in kept} \subseteq doc[t]
=============================================================================

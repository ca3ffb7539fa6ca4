-------------------------- MODULE FederationRestore --------------------------
(***************************************************************************)
(* The plain-chat stream when the destination's database is restored from  *)
(* an older backup: its high-water mark, records and mailbox go back       *)
(* together, and the origin learns of it from the sequence gap its next    *)
(* send meets, and replays.  The backup is younger than                    *)
(* federationRecordDays, so nothing is pruned meanwhile.                   *)
(***************************************************************************)
EXTENDS FederationOutbox

\* The destination as it was when it had answered the first k sequences.  Its
\* server is down meanwhile for longer than a request lasts: every attempt
\* under way has failed, and no request is left in the network.
restore(k) ==
    /\ k < last
    /\ \A p \in Procs : pc[p] = "idle"
    /\ last' = k
    /\ inbound' = [n \in Seqs |-> IF n <= k THEN inbound[n] ELSE NoRecord]
    /\ given' = [n \in Seqs |-> IF n <= k THEN given[n] ELSE "none"]
    /\ \E i \in 0 .. Len(mailbox) :
          /\ mailbox' = SubSeq(mailbox, 1, i)
          /\ \A j \in DOMAIN mailbox : j <= i <=> mailbox[j].seq <= k
    /\ net' = {}
    /\ UNCHANGED <<originVars, attemptVars, devices>>

RestoreNext ==
    \/ \E p \in Clients : enqueue_send(p)
    \/ \E p \in Workers : flush_due(p)
    \/ \E p \in Procs : Attempt(p)
    \/ \E p \in Procs : arrive(p)
    \/ \E m \in net : arrive_late(m)
    \/ \E s \in Sends : elapse(s)
    \/ \E d \in DeviceLists \cup {NoDevices} : change_devices(d)
    \/ \E k \in 0 .. MaxSeq : restore(k)

RestoreSpec == Init /\ [][RestoreNext]_vars

\* An attempt is over with an answer: the row's own, the destination's, or that
\* another row goes first.
Answered(p) ==
    \/ pc[p] = "load" /\ load_settled(p)
    \/ leave_behind_head(p)
    \/ settle_answer(p)
    \/ replay_gap(p)

(***************************************************************************)
(* Timers fire, the worker's loop never ends (spawn_worker), and not every *)
(* attempt is cut off: any one may time out, be parked or die with its     *)
(* backend, but a peer that is tried again and again answers in the end.   *)
(***************************************************************************)
Fairness ==
    /\ \A s \in Sends : WF_vars(elapse(s))
    /\ \A p \in Workers :
          /\ SF_vars(flush_due(p))
          /\ []<>(pc[p] # "idle") => []<><<Answered(p)>>_vars

\* The destination is not restored for ever.
FairRestoreSpec ==
    /\ RestoreSpec
    /\ Fairness
    /\ <>[][\A k \in 0 .. MaxSeq : ~ restore(k)]_vars

-----------------------------------------------------------------------------
(* What survives a restore.                                                *)

\* The destination waits for a sequence that no row of the origin is at: the row
\* was corrected, and replay_gap has nothing to put back.
BehindHole(s) ==
    \E n \in last + 1 .. outbox[s].seq - 1 : \A t \in Sends : outbox[t].seq # n

\* A queued send is settled in the end, however often the destination was
\* restored ("replay the missing retained transaction"), unless it stands behind
\* such a sequence: a row ahead of it was corrected and the backup is from before
\* the mismatch.
SettledUnlessBehind ==
    \A s \in Sends :
        outbox[s].state = "pending" ~> outbox[s].state # "pending" \/ BehindHole(s)
=============================================================================

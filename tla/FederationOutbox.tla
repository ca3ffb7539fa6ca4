-------------------------- MODULE FederationOutbox --------------------------
(***************************************************************************)
(* The plain-chat federation outbox of kutup-server: one origin server's   *)
(* durable queue of sends to one destination server, the attempts that     *)
(* carry its head over an unreliable network, and the destination's ordered *)
(* inbound stream.  Streams of other (kind, destination) pairs share no    *)
(* state with this one.                                                    *)
(*                                                                         *)
(* An attempt (attempt_outbox) is three database or network steps that     *)
(* interleave with every other attempt: it loads its row, checks that the  *)
(* row is the head and posts it, and applies the answer.  A client's own   *)
(* request and the retry worker run attempts on the same row at once; a    *)
(* request may be lost, delayed, duplicated or reordered, an answer lost.  *)
(*                                                                         *)
(* Data abstractions.                                                      *)
(*  - A request's content is the device list its envelopes were encrypted  *)
(*    for; the destination compares it with the recipient's current list.  *)
(*  - A row's random id (the transaction id on the wire) is the sequence   *)
(*    the row was inserted with: unique, as the id is.                     *)
(*  - (state, error_class, answer) of a settled row are its final answer:  *)
(*    "stored"       delivered                                             *)
(*    "unavailable"  delivered, the answer carries recipientUnavailable    *)
(*    "mismatch"     rejected, device_mismatch                             *)
(*    "gone"         rejected, record_gone                                 *)
(*    A pending row's error_class and attempts only pace the retries; they *)
(*    and next_attempt_at are the field due.                               *)
(***************************************************************************)
EXTENDS Naturals, Sequences, FiniteSets

CONSTANTS
    Sends,        \* idempotency keys: (sender, device, sendId)
    DeviceLists,  \* device lists a request may be encrypted for
    NoDevices,    \* the recipient is gone, inactive or lists no device
    Clients,      \* request handlers of the origin
    Workers,      \* retry workers of the origin's backends
    MaxSeq,       \* bound on the sequences the origin hands out
    MaxPruned     \* bound on the records the destination prunes

ASSUME ConstantsAssumption ==
    /\ MaxSeq \in Nat
    /\ MaxPruned \in Nat
    /\ NoDevices \notin DeviceLists
    /\ Clients \cap Workers = {}

VARIABLES
    nextSeq,  \* federation_sequences.next_sequence
    outbox,   \* federation_outbox, by idempotency key
    pc,       \* where each attempt stands
    cur,      \* the row an attempt works on, as it read it
    got,      \* the answer on its way to an attempt
    net,      \* requests posted: any may still arrive, again and again
    devices,  \* the recipient's current device list, at the destination
    last,     \* federation_inbound_state.last_sequence
    inbound,  \* federation_inbound: the kept records of final answers
    mailbox,  \* what the destination has put into chat_mailbox, in order
    outcome,  \* what each client's last request was answered, once it was
    issued,   \* history: the send each sequence was given to
    given     \* history: the final answer each sequence got

originVars == <<nextSeq, outbox, issued>>
attemptVars == <<pc, cur, got, outcome>>
destinationVars == <<last, inbound, mailbox, given>>
vars == <<nextSeq, outbox, pc, cur, got, net, devices, last, inbound, mailbox,
          outcome, issued, given>>

Procs == Clients \cup Workers
Seqs == 1 .. MaxSeq

Accepted == {"stored", "unavailable"}
Finals == Accepted \cup {"mismatch"}        \* answers the destination records
Settled == Finals \cup {"gone"}             \* what a row can be settled as
Outcome == [send : Sends,
            what : {"delivered", "rejected", "mismatch", "invalidState"}]
NoOutcome == [send |-> "none", what |-> "none"]

Row == [id : 0 .. MaxSeq, seq : 0 .. MaxSeq, req : DeviceLists \cup {NoDevices},
        state : Settled \cup {"pending", "none"}, due : {"now", "later"}]
NoRow == [id |-> 0, seq |-> 0, req |-> NoDevices, state |-> "none", due |-> "later"]

Message == [send : Sends, id : Seqs, seq : Seqs, req : DeviceLists]
NoMessage == [send |-> "none", id |-> 0, seq |-> 0, req |-> NoDevices]

Answer == [kind : Settled \cup {"gap"}, seq : 1 .. MaxSeq + 1]
NoAnswer == [kind |-> "none", seq |-> 0]

Record == [id : Seqs, kind : Finals]
NoRecord == [id |-> 0, kind |-> "none"]

TypeOK ==
    /\ nextSeq \in 1 .. MaxSeq + 1
    /\ outbox \in [Sends -> Row]
    /\ pc \in [Procs -> {"idle", "load", "head", "sent", "answered"}]
    /\ cur \in [Procs -> Message \cup {NoMessage}]
    /\ got \in [Procs -> Answer \cup {NoAnswer}]
    /\ net \subseteq Message
    /\ devices \in DeviceLists \cup {NoDevices}
    /\ last \in 0 .. MaxSeq
    /\ inbound \in [Seqs -> Record \cup {NoRecord}]
    /\ mailbox \in Seq(Message)
    /\ outcome \in [Clients -> Outcome \cup {NoOutcome}]
    /\ issued \in [Seqs -> Message \cup {NoMessage}]
    /\ given \in [Seqs -> Finals \cup {"none"}]

Init ==
    /\ nextSeq = 1
    /\ outbox = [s \in Sends |-> NoRow]
    /\ pc = [p \in Procs |-> "idle"]
    /\ cur = [p \in Procs |-> NoMessage]
    /\ got = [p \in Procs |-> NoAnswer]
    /\ net = {}
    /\ devices \in DeviceLists \cup {NoDevices}
    /\ last = 0
    /\ inbound = [n \in Seqs |-> NoRecord]
    /\ mailbox = <<>>
    /\ outcome = [p \in Clients |-> NoOutcome]
    /\ issued = [n \in Seqs |-> NoMessage]
    /\ given = [n \in Seqs |-> "none"]

-----------------------------------------------------------------------------
(* The rows.                                                               *)

RowMessage(s, row) == [send |-> s, id |-> row.id, seq |-> row.seq, req |-> row.req]

\* The sends whose row is the destination's head: its lowest pending sequence.
plain_head(rows) ==
    {s \in Sends : /\ rows[s].state = "pending"
                   /\ \A t \in Sends :
                        rows[t].state = "pending" => rows[s].seq <= rows[t].seq}

\* The row is still pending at the sequence the attempt read.
StillAt(rows, m) ==
    /\ rows[m.send].id = m.id
    /\ rows[m.send].seq = m.seq
    /\ rows[m.send].state = "pending"

\* Mutant of settle: the answer is applied whatever became of the row.
settle_any(rows, m, kind) ==
    IF rows[m.send].state # "none" THEN [rows EXCEPT ![m.send].state = kind] ELSE rows

\* Settles a row with the destination's final answer, only if still there.
settle(rows, m, kind) ==
    IF StillAt(rows, m) THEN [rows EXCEPT ![m.send].state = kind] ELSE rows

\* Puts a row back to wait for a later try, only if still there.
wait(rows, m) ==
    IF StillAt(rows, m) THEN [rows EXCEPT ![m.send].due = "later"] ELSE rows

\* Mutant of replay: a gap restores nothing.
replay_nothing(rows, expected, m) == rows

\* Everything from the sequence the destination expects up to the one it
\* refused is pending again, whatever it had been settled as.
replay(rows, expected, m) ==
    [s \in Sends |->
        IF rows[s].state # "none" /\ rows[s].seq >= expected /\ rows[s].seq < m.seq
        THEN [rows[s] EXCEPT !.state = "pending", !.due = "now"]
        ELSE rows[s]]

-----------------------------------------------------------------------------
(* A client's request.                                                     *)

\* The request is answered; nobody waits for a worker's attempt.
Tell(p, s, what) ==
    outcome' = IF p \in Clients
               THEN [outcome EXCEPT ![p] = [send |-> s, what |-> what]]
               ELSE outcome

\* What a client is told of a settled row.
OutcomeOf(kind) ==
    CASE kind = "stored"   -> "delivered"
      [] kind = "mismatch" -> "mismatch"
      [] OTHER             -> "rejected"

\* The row enters the queue under the destination's next sequence, with the
\* attempt on it to follow.  next_sequence locks its counter to the commit, so
\* sequences commit in order and a rollback gives its number back.
next_sequence(p, s, id, r) ==
    LET row == [id |-> id, seq |-> nextSeq, req |-> r, state |-> "pending", due |-> "now"]
    IN  /\ nextSeq <= MaxSeq
        /\ nextSeq' = nextSeq + 1
        /\ outbox' = [outbox EXCEPT ![s] = row]
        /\ issued' = [issued EXCEPT ![nextSeq] = RowMessage(s, row)]
        /\ cur' = [cur EXCEPT ![p] = RowMessage(s, row)]
        /\ pc' = [pc EXCEPT ![p] = "load"]
        /\ outcome' = [outcome EXCEPT ![p] = NoOutcome]
        /\ UNCHANGED got

\* A send with no row yet is inserted.
enqueue_new(p, s, r) ==
    /\ outbox[s].state = "none"
    /\ next_sequence(p, s, nextSeq, r)

\* Mutant of requeue_plain: a send whose answer is unknown goes again too.
requeue_gone(p, s, r) ==
    /\ outbox[s].state \in {"mismatch", "gone"}
    /\ next_sequence(p, s, outbox[s].id, r)

\* Mutant of requeue_plain: the correction keeps the sequence used up.
requeue_in_place(p, s, r) ==
    /\ outbox[s].state = "mismatch"
    /\ outbox[s].req # r
    /\ outbox' = [outbox EXCEPT ![s].req = r, ![s].state = "pending"]
    /\ cur' = [cur EXCEPT ![p] = RowMessage(s, outbox'[s])]
    /\ pc' = [pc EXCEPT ![p] = "load"]
    /\ outcome' = [outcome EXCEPT ![p] = NoOutcome]
    /\ UNCHANGED <<nextSeq, issued, got>>

\* A mismatch the client corrected goes again, the same row under a new
\* sequence: the mismatch used up the old one.
requeue_plain(p, s, r) ==
    /\ outbox[s].state = "mismatch"
    /\ outbox[s].req # r
    /\ next_sequence(p, s, outbox[s].id, r)

\* The same content of a pending send: only an attempt.  (Changed content of a
\* pending send is refused with 409 and changes nothing.)
enqueue_again(p, s, r) ==
    /\ outbox[s].state = "pending"
    /\ outbox[s].req = r
    /\ cur' = [cur EXCEPT ![p] = RowMessage(s, outbox[s])]
    /\ pc' = [pc EXCEPT ![p] = "load"]
    /\ outcome' = [outcome EXCEPT ![p] = NoOutcome]
    /\ UNCHANGED <<originVars, got>>

\* A send answered for good: its stored answer.
enqueue_answered(p, s, r) ==
    /\ outbox[s].state \in Settled
    /\ outbox[s].state = "mismatch" => outbox[s].req = r
    /\ Tell(p, s, OutcomeOf(outbox[s].state))
    /\ UNCHANGED <<originVars, pc, cur, got>>

enqueue_send(p) ==
    /\ pc[p] = "idle"
    /\ \E s \in Sends, r \in DeviceLists :
          \/ enqueue_new(p, s, r)
          \/ requeue_plain(p, s, r)
          \/ enqueue_again(p, s, r)
          \/ enqueue_answered(p, s, r)
    /\ UNCHANGED <<net, devices, destinationVars>>

-----------------------------------------------------------------------------
(* An attempt on one row: attempt_outbox.                                  *)

Finish(p) ==
    /\ pc' = [pc EXCEPT ![p] = "idle"]
    /\ cur' = [cur EXCEPT ![p] = NoMessage]
    /\ got' = [got EXCEPT ![p] = NoAnswer]

\* The worker takes the due head.
flush_due(p) ==
    /\ pc[p] = "idle"
    /\ \E s \in plain_head(outbox) :
          /\ outbox[s].due = "now"
          /\ cur' = [cur EXCEPT ![p] = RowMessage(s, outbox[s])]
    /\ pc' = [pc EXCEPT ![p] = "load"]
    /\ UNCHANGED <<originVars, got, outcome, net, devices, destinationVars>>

\* The row may have been settled since it was picked: its stored answer ends
\* the attempt.  A record_gone row is none of the states the match names.
load_settled(p) ==
    LET s == cur[p].send
        row == outbox[s]
    IN  /\ row.state # "pending"
        /\ Tell(p, s, IF row.state = "gone" THEN "invalidState" ELSE OutcomeOf(row.state))
        /\ Finish(p)

load_pending(p) ==
    /\ outbox[cur[p].send].state = "pending"
    /\ cur' = [cur EXCEPT ![p] = RowMessage(cur[p].send, outbox[cur[p].send])]
    /\ pc' = [pc EXCEPT ![p] = "head"]
    /\ UNCHANGED <<got, outcome>>

load_outbox(p) ==
    /\ pc[p] = "load"
    /\ load_settled(p) \/ load_pending(p)
    /\ UNCHANGED <<originVars, net, devices, destinationVars>>

\* Mutant of IsHead: any pending row goes.
IsHead_unchecked(m) == TRUE

IsHead(m) == \E s \in plain_head(outbox) : outbox[s].seq = m.seq

\* Only the destination's head goes; otherwise the send stays pending.
post_head(p) ==
    /\ pc[p] = "head"
    /\ IsHead(cur[p])
    /\ net' = net \cup {cur[p]}
    /\ pc' = [pc EXCEPT ![p] = "sent"]
    /\ UNCHANGED <<originVars, cur, got, outcome, devices, destinationVars>>

leave_behind_head(p) ==
    /\ pc[p] = "head"
    /\ ~ IsHead(cur[p])
    /\ Finish(p)
    /\ UNCHANGED <<originVars, outcome, net, devices, destinationVars>>

\* The destination doesn't speak this version yet: the row waits longer.
park_for_upgrade(p) ==
    /\ pc[p] = "head"
    /\ IsHead(cur[p])
    /\ outbox' = wait(outbox, cur[p])
    /\ Finish(p)
    /\ UNCHANGED <<nextSeq, issued, outcome, net, devices, destinationVars>>

\* No answer (a timeout, a broken connection, a 5xx): the outcome is unknown.
transport_error(p) ==
    /\ pc[p] \in {"sent", "answered"}
    /\ outbox' = wait(outbox, cur[p])
    /\ Finish(p)
    /\ UNCHANGED <<nextSeq, issued, outcome, net, devices, destinationVars>>

\* A final answer settles the row.
settle_answer(p) ==
    /\ pc[p] = "answered"
    /\ got[p].kind \in Settled
    /\ got[p].kind \in Accepted => got[p].seq = cur[p].seq
    /\ outbox' = settle(outbox, cur[p], got[p].kind)
    /\ Tell(p, cur[p].send, OutcomeOf(got[p].kind))
    /\ Finish(p)
    /\ UNCHANGED <<nextSeq, issued, net, devices, destinationVars>>

\* The destination misses an earlier sequence: what is kept goes again.
replay_gap(p) ==
    /\ pc[p] = "answered"
    /\ got[p].kind = "gap"
    /\ outbox' = wait(replay(outbox, got[p].seq, cur[p]), cur[p])
    /\ Finish(p)
    /\ UNCHANGED <<nextSeq, issued, outcome, net, devices, destinationVars>>

\* The attempt's task ends anywhere: its client went away, its backend died.
cancel(p) ==
    /\ pc[p] # "idle"
    /\ Finish(p)
    /\ UNCHANGED <<originVars, outcome, net, devices, destinationVars>>

-----------------------------------------------------------------------------
(* The destination: deliver_messages, one transaction under the stream's   *)
(* row lock.                                                               *)

Reply(kind, n) == [kind |-> kind, seq |-> n]

\* How the recipient's devices decide a transaction that is next.
Decision(m) ==
    CASE devices = NoDevices -> "unavailable"
      [] devices = m.req     -> "stored"
      [] OTHER               -> "mismatch"

\* Mutant of prior: a pruned record is answered as a delivery.
prior_success(m) ==
    IF inbound[m.seq] = NoRecord THEN Reply("stored", m.seq)
    ELSE Reply(inbound[m.seq].kind, m.seq)

\* The final answer a sequence already used up gets again: its record's when
\* it is the same transaction's, 410 when the record was pruned.
prior(m) ==
    IF inbound[m.seq] = NoRecord THEN Reply("gone", m.seq)
    ELSE IF inbound[m.seq].id = m.id THEN Reply(inbound[m.seq].kind, m.seq)
    ELSE Reply("gap", last + 1)

AnswerTo(m) ==
    IF m.seq <= last THEN prior(m)
    ELSE IF m.seq = last + 1 THEN Reply(Decision(m), m.seq)
    ELSE Reply("gap", last + 1)

\* Mutant of record: the sequence is added to the mark, not made the mark.
record_added(m, kind) ==
    /\ inbound' = [inbound EXCEPT ![m.seq] = [id |-> m.id, kind |-> kind]]
    /\ last' = last + m.seq
    /\ given' = [given EXCEPT ![m.seq] = kind]

\* Records the final answer and uses the sequence up.
record(m, kind) ==
    /\ inbound' = [inbound EXCEPT ![m.seq] = [id |-> m.id, kind |-> kind]]
    /\ last' = m.seq
    /\ given' = [given EXCEPT ![m.seq] = kind]

\* Mutant of deliver_messages: a device mismatch leaves its sequence open.
deliver_messages_open(m) ==
    \/ /\ m.seq # last + 1 \/ Decision(m) = "mismatch"
       /\ UNCHANGED destinationVars
    \/ /\ m.seq = last + 1
       /\ Decision(m) # "mismatch"
       /\ record(m, Decision(m))
       /\ mailbox' = IF Decision(m) = "stored" THEN Append(mailbox, m) ELSE mailbox

\* Mutant of deliver_messages: a repeated request is stored again.
deliver_messages_again(m) ==
    \/ /\ m.seq > last + 1
       /\ UNCHANGED destinationVars
    \/ /\ m.seq <= last + 1
       /\ record(m, Decision(m))
       /\ mailbox' = IF Decision(m) = "stored" THEN Append(mailbox, m) ELSE mailbox

\* Only the next sequence changes anything; a replay and a gap are answered.
deliver_messages(m) ==
    \/ /\ m.seq # last + 1
       /\ UNCHANGED destinationVars
    \/ /\ m.seq = last + 1
       /\ record(m, Decision(m))
       /\ mailbox' = IF Decision(m) = "stored" THEN Append(mailbox, m) ELSE mailbox

\* The request of a waiting attempt arrives, and its answer goes back.
arrive(p) ==
    /\ pc[p] = "sent"
    /\ deliver_messages(cur[p])
    /\ got' = [got EXCEPT ![p] = AnswerTo(cur[p])]
    /\ pc' = [pc EXCEPT ![p] = "answered"]
    /\ UNCHANGED <<originVars, cur, outcome, net, devices>>

\* A request arrives late or again: nobody waits for its answer.
arrive_late(m) ==
    /\ deliver_messages(m)
    /\ UNCHANGED <<originVars, attemptVars, net, devices>>

-----------------------------------------------------------------------------
(* Time, retention and the recipient.                                      *)

\* A waiting row's next_attempt_at passes, or an administrator retries now.
elapse(s) ==
    /\ outbox[s].state = "pending"
    /\ outbox[s].due = "later"
    /\ outbox' = [outbox EXCEPT ![s].due = "now"]
    /\ UNCHANGED <<nextSeq, issued, attemptVars, net, devices, destinationVars>>

\* A settled row older than federationRecordDays goes.  No attempt lasts that
\* long, so none is still under way on the row.
prune_outbox(s) ==
    /\ outbox[s].state \in Settled
    /\ \A p \in Procs : pc[p] # "idle" => cur[p].id # outbox[s].id
    /\ outbox' = [outbox EXCEPT ![s] = NoRow]
    /\ UNCHANGED <<nextSeq, issued, attemptVars, net, devices, destinationVars>>

\* A record older than federationRecordDays goes; the high-water mark stays.
prune_inbound(n) ==
    /\ inbound[n] # NoRecord
    /\ Cardinality({k \in 1 .. last : inbound[k] = NoRecord}) < MaxPruned
    /\ inbound' = [inbound EXCEPT ![n] = NoRecord]
    /\ UNCHANGED <<originVars, attemptVars, net, devices, last, mailbox, given>>

\* The recipient adds or removes a device, or their account goes.
change_devices(d) ==
    /\ devices # d
    /\ devices' = d
    /\ UNCHANGED <<originVars, attemptVars, net, destinationVars>>

Attempt(p) ==
    \/ load_outbox(p)
    \/ post_head(p)
    \/ leave_behind_head(p)
    \/ park_for_upgrade(p)
    \/ transport_error(p)
    \/ settle_answer(p)
    \/ replay_gap(p)
    \/ cancel(p)

Next ==
    \/ \E p \in Clients : enqueue_send(p)
    \/ \E p \in Workers : flush_due(p)
    \/ \E p \in Procs : Attempt(p)
    \/ \E p \in Procs : arrive(p)
    \/ \E m \in net : arrive_late(m)
    \/ \E s \in Sends : elapse(s) \/ prune_outbox(s)
    \/ \E n \in Seqs : prune_inbound(n)
    \/ \E d \in DeviceLists \cup {NoDevices} : change_devices(d)

Spec == Init /\ [][Next]_vars

-----------------------------------------------------------------------------
(* What makes the outbox correct.                                          *)

\* No send is lost: every sequence the destination has not answered is held
\* by a pending row of the origin, at that sequence (settle and requeue_plain
\* take a row off a sequence only once its answer used it up).
NothingLost ==
    \A n \in Seqs : last < n /\ n < nextSeq =>
        \E s \in Sends : outbox[s].state = "pending" /\ outbox[s].seq = n

\* No request ever meets a sequence gap: only the head is posted
\* (attempt_outbox), every final answer uses its sequence up (record), and a
\* sequence is never given to two rows, whatever is replayed or reordered.
NoGap == \A p \in Procs : got[p].kind # "gap"

\* The mailbox follows the order of the sequences: no row overtakes one queued
\* before it, however attempts of clients and workers interleave.
InOrder ==
    \A i, j \in DOMAIN mailbox : i < j => mailbox[i].seq < mailbox[j].seq

\* A row's send is put into the mailbox at most once, across lost answers,
\* duplicated requests, corrections and pruned records: a row moves to a new
\* sequence only when its old one stored nothing.
StoredOnce ==
    \A i, j \in DOMAIN mailbox : mailbox[i].id = mailbox[j].id => i = j

\* A row is settled as the destination answered its current sequence, and as
\* record_gone only if that sequence was answered: a late answer to an old
\* sequence never settles the corrected send (settle's guard).
AnswersAgree ==
    \A s \in Sends :
        /\ outbox[s].state \in Finals => given[outbox[s].seq] = outbox[s].state
        /\ outbox[s].state = "gone" => outbox[s].seq <= last

\* Never a success for an unknown outcome: a client told that its send was
\* delivered finds it in the recipient's mailbox, and one told of a mismatch
\* had a mismatch recorded.
ClientTruth ==
    \A p \in Clients :
        /\ outcome[p].what = "delivered" =>
              \E i \in DOMAIN mailbox : mailbox[i].send = outcome[p].send
        /\ outcome[p].what = "mismatch" =>
              \E n \in Seqs : issued[n].send = outcome[p].send /\ given[n] = "mismatch"

\* A settled row keeps its answer until it is corrected under a sequence never
\* used before, or pruned: no late answer, retry or replay moves it.
SettledStays ==
    [][\A s \in Sends : outbox[s].state \in Settled =>
          \/ outbox'[s] = outbox[s]
          \/ outbox'[s] = NoRow
          \/ outbox[s].state = "mismatch" /\ outbox'[s].seq = nextSeq]_vars

-----------------------------------------------------------------------------
(* The outbox implements an ordered, exactly answered stream.              *)

\* What the origin's rows say about a sequence: the state of the row that is
\* at it; nothing once the row was corrected or pruned.
Known ==
    [n \in Seqs |->
        IF \E s \in Sends : outbox[s].seq = n
        THEN outbox[CHOOSE s \in Sends : outbox[s].seq = n].state
        ELSE "closed"]

MessageId(m) == m.id

Stream == INSTANCE OrderedStream WITH
    Entries <- Message, NoEntry <- NoMessage, IdOf <- MessageId, Corrigible <- {"mismatch"},
    next <- nextSeq, upto <- last, inbox <- mailbox, known <- Known

\* Rows, concurrent attempts, an unreliable network, retries, corrections and
\* retention on both servers together behave as one ordered stream in which
\* each sequence is answered once (federation_outbox, attempt_outbox and
\* deliver_messages).
ImplementsStream == Stream!StreamSpec
=============================================================================

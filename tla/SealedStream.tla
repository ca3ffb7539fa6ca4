---------------------------- MODULE SealedStream ----------------------------
(***************************************************************************)
(* The sealed-chat stream of one origin to one destination: rows queued    *)
(* under a sequence each, flushes that send a run of consecutive rows as   *)
(* one batch (or one by one, to a server without the batch route), and the *)
(* destination, which applies a batch transaction by transaction, each in  *)
(* a database transaction of its own, and answers every one it tried.      *)
(*                                                                         *)
(* SealedFlush is about who may flush.  Here any number of flushes send at *)
(* once, which happens when the database ends a flush's session: nothing   *)
(* below depends on the lock.  A request may be lost, delayed, repeated or *)
(* reordered, an answer lost, and either side may stop between two rows.   *)
(*                                                                         *)
(* A send's content is the delivery capability it presents and the device  *)
(* list its envelopes are for.  Sizes are left out: a run may end early.   *)
(***************************************************************************)
EXTENDS Naturals, Sequences, FiniteSets

CONSTANTS
    Sends,         \* sendIds
    Capabilities,  \* the recipient's delivery capabilities
    DeviceLists,
    Flushes,       \* flushes of the destination
    Strays,        \* requests nobody waits for, under way at the destination
    MaxSeq,        \* bound on the sequences handed out
    MaxBatch,      \* MAX_SEALED_BATCH_ITEMS
    MaxPruned      \* bound on the records pruned

ASSUME SealedAssumption ==
    /\ MaxSeq \in Nat
    /\ MaxBatch \in Nat \ {0}
    /\ MaxPruned \in Nat
    /\ Flushes \cap Strays = {}

VARIABLES
    nextSeq,     \* federation_sequences
    outbox,      \* the sealed rows of federation_outbox, by sendId
    pc,          \* where each flush stands
    run,         \* the rows it has no answer applied to yet
    single,      \* it sends them one by one
    answers,     \* the answers it was given and has not applied
    net,         \* requests sent: any may still arrive, again and again
    work,        \* the transactions of a request the destination has not applied
    speaks,      \* the destination runs this sealed version
    capability,  \* chat_delivery_capabilities, the recipient's
    devices,     \* the recipient's device list
    last,        \* federation_inbound_state.last_sequence
    inbound,     \* federation_inbound: the kept answers
    claims,      \* chat_anonymous_send_ids
    mailbox,     \* what was stored for the recipient, in order
    issued,      \* history: the message of each sequence
    given        \* history: the final answer each sequence got

originVars == <<nextSeq, outbox, issued>>
flushVars == <<pc, run, single, answers>>
recipientVars == <<speaks, capability, devices>>
destinationVars == <<last, inbound, claims, mailbox, given>>
vars == <<nextSeq, outbox, pc, run, single, answers, net, work, speaks, capability,
          devices, last, inbound, claims, mailbox, issued, given>>

Seqs == 1 .. MaxSeq
Servers == Flushes \cup Strays
Content == [cap : Capabilities, devices : DeviceLists]
Rejections == {"mismatch", "unavailable", "refused"}
Finals == Rejections \cup {"stored"}    \* answers that use up their sequence
Opens == {"gap", "limited"}             \* answers that leave it open

Message == [send : Sends, seq : Seqs, req : Content]
NoMessage == [seq |-> 0]
Row == [seq : Seqs, req : Content, state : Finals \cup {"pending"}, due : BOOLEAN]
NoRow == [seq |-> 0, state |-> "none"]
Answer == [seq : Seqs, kind : Finals \cup Opens]

TypeOK ==
    /\ nextSeq \in 1 .. MaxSeq + 1
    /\ outbox \in [Sends -> Row \cup {NoRow}]
    /\ pc \in [Flushes -> {"idle", "sent", "answered"}]
    /\ run \in [Flushes -> Seq(Message)]
    /\ single \in [Flushes -> BOOLEAN]
    /\ answers \in [Flushes -> Seq(Answer)]
    /\ net \subseteq Seq(Message)
    /\ work \in [Servers -> Seq(Message)]
    /\ speaks \in BOOLEAN
    /\ capability \in Capabilities
    /\ devices \in DeviceLists
    /\ last \in 0 .. MaxSeq
    /\ inbound \in [Seqs -> Finals \cup {"none"}]
    /\ claims \subseteq Capabilities \X Sends
    /\ mailbox \in Seq(Message)
    /\ issued \in [Seqs -> Message \cup {NoMessage}]
    /\ given \in [Seqs -> Finals \cup {"none"}]

Init ==
    /\ nextSeq = 1
    /\ outbox = [s \in Sends |-> NoRow]
    /\ pc = [f \in Flushes |-> "idle"]
    /\ run = [f \in Flushes |-> <<>>]
    /\ single = [f \in Flushes |-> FALSE]
    /\ answers = [f \in Flushes |-> <<>>]
    /\ net = {}
    /\ work = [x \in Servers |-> <<>>]
    /\ speaks \in BOOLEAN
    /\ capability \in Capabilities
    /\ devices \in DeviceLists
    /\ last = 0
    /\ inbound = [n \in Seqs |-> "none"]
    /\ claims = {}
    /\ mailbox = <<>>
    /\ issued = [n \in Seqs |-> NoMessage]
    /\ given = [n \in Seqs |-> "none"]

-----------------------------------------------------------------------------
(* The origin's rows.                                                      *)

next_sealed_sequence(s, c) ==
    /\ nextSeq <= MaxSeq
    /\ nextSeq' = nextSeq + 1
    /\ outbox' = [outbox EXCEPT ![s] = [seq |-> nextSeq, req |-> c, state |-> "pending", due |-> TRUE]]
    /\ issued' = [issued EXCEPT ![nextSeq] = [send |-> s, seq |-> nextSeq, req |-> c]]
    /\ UNCHANGED <<flushVars, net, work, recipientVars, destinationVars>>

enqueue_sealed_new(s, c) ==
    /\ outbox[s].state = "none"
    /\ next_sealed_sequence(s, c)

\* Mutant of requeue_sealed: a pending send may be changed too.
requeue_sealed_pending(s, c) ==
    /\ outbox[s].state \in Rejections \cup {"pending"}
    /\ outbox[s].req # c
    /\ next_sealed_sequence(s, c)

\* A rejected send with other content goes again under a new sequence.  (The
\* same content is answered from the row, changed content of a pending send is
\* a conflict, and a delivered send stays delivered: none changes anything.)
requeue_sealed(s, c) ==
    /\ outbox[s].state \in Rejections
    /\ outbox[s].req # c
    /\ next_sealed_sequence(s, c)

enqueue_sealed_row(s, c) == enqueue_sealed_new(s, c) \/ requeue_sealed(s, c)

\* A settled row older than federationRecordDays goes, and no flush of it is
\* that old.
prune_outbox(s) ==
    /\ MaxPruned > 0
    /\ outbox[s].state \in Finals
    /\ \A f \in Flushes : \A i \in DOMAIN run[f] : run[f][i].send # s
    /\ outbox' = [outbox EXCEPT ![s] = NoRow]
    /\ UNCHANGED <<nextSeq, issued, flushVars, net, work, recipientVars, destinationVars>>

Pending(n) == {s \in Sends : outbox[s].state = "pending" /\ outbox[s].seq = n}

\* The message of the row pending at n.
RowAt(n) ==
    LET s == CHOOSE s \in Pending(n) : TRUE
    IN  [send |-> s, seq |-> n, req |-> outbox[s].req]

\* The lowest pending sequence.
IsHead(n) ==
    /\ Pending(n) # {}
    /\ \A k \in Seqs : Pending(k) # {} => n <= k

\* Mutant of StillAt: whatever the row's sequence and state are by now.
StillAt_any(m) == outbox[m.send].state # "none"

\* Still pending under the sequence its answer is for.
StillAt(m) == m.send \in Pending(m.seq)

settle_sealed_row(m, kind) == [outbox EXCEPT ![m.send].state = kind]

mark_sealed_retry(m) ==
    IF StillAt(m) THEN [outbox EXCEPT ![m.send].due = FALSE] ELSE outbox

elapse(s) ==
    /\ outbox[s].state = "pending"
    /\ ~ outbox[s].due
    /\ outbox' = [outbox EXCEPT ![s].due = TRUE]
    /\ UNCHANGED <<nextSeq, issued, flushVars, net, work, recipientVars, destinationVars>>

-----------------------------------------------------------------------------
(* A flush: flush_rounds and send_sealed_run.                              *)

\* The request with messages b leaves, and the flush waits for its answers.
Post(f, rows, b, one) ==
    /\ net' = net \cup {b}
    /\ work' = [work EXCEPT ![f] = b]
    /\ run' = [run EXCEPT ![f] = rows]
    /\ single' = [single EXCEPT ![f] = one]
    /\ answers' = [answers EXCEPT ![f] = <<>>]
    /\ pc' = [pc EXCEPT ![f] = "sent"]

Finish(f) ==
    /\ pc' = [pc EXCEPT ![f] = "idle"]
    /\ run' = [run EXCEPT ![f] = <<>>]
    /\ single' = [single EXCEPT ![f] = FALSE]
    /\ answers' = [answers EXCEPT ![f] = <<>>]
    /\ work' = [work EXCEPT ![f] = <<>>]

\* The k sequences from n are all pending.
Consecutive(n, k) == \A i \in n .. n + k - 1 : Pending(i) # {}

\* A run from a due head, as a batch or one by one; or a head backing off,
\* alone, which a client's send may probe.
send_sealed_run(f, n, k, one) ==
    /\ pc[f] = "idle"
    /\ IsHead(n)
    /\ n + k - 1 <= MaxSeq
    /\ Consecutive(n, k)
    /\ \/ k = 1
       \/ \A s \in Pending(n) : outbox[s].due
    /\ one \/ k > 1
    /\ LET rows == [i \in 1 .. k |-> RowAt(n + i - 1)]
       IN  Post(f, rows, IF one THEN <<rows[1]>> ELSE rows, one)
    /\ UNCHANGED <<originVars, recipientVars, destinationVars>>

\* Not taken as a batch: the head alone tells why.
send_sealed_singles(f) ==
    /\ pc[f] = "sent"
    /\ ~ single[f]
    /\ Post(f, run[f], <<Head(run[f])>>, TRUE)
    /\ UNCHANGED <<originVars, recipientVars, destinationVars>>

\* No answer, or one that cannot be read, or a peer without the route: the
\* first row waits.
retry_later(f) ==
    /\ pc[f] = "sent"
    /\ outbox' = mark_sealed_retry(Head(run[f]))
    /\ Finish(f)
    /\ UNCHANGED <<nextSeq, issued, net, recipientVars, destinationVars>>

\* The flush's task or its backend ends.
cancel(f) ==
    /\ pc[f] # "idle"
    /\ Finish(f)
    /\ UNCHANGED <<originVars, net, recipientVars, destinationVars>>

\* The answer to the first row settles it, and the flush goes on to the next:
\* its answer, or its request if they go one by one.
apply_sealed_answer(f) ==
    /\ pc[f] = "answered"
    /\ LET m == Head(run[f])
           a == Head(answers[f])
           rest == Tail(run[f])
       IN  /\ a.seq = m.seq
           /\ a.kind \in Finals
           /\ StillAt(m)
           /\ outbox' = settle_sealed_row(m, a.kind)
           /\ \/ rest = <<>> /\ Finish(f) /\ UNCHANGED net
              \/ rest # <<>> /\ single[f] /\ Post(f, rest, <<Head(rest)>>, TRUE)
              \/ /\ rest # <<>>
                 /\ ~ single[f]
                 /\ run' = [run EXCEPT ![f] = rest]
                 /\ answers' = [answers EXCEPT ![f] = Tail(@)]
                 /\ UNCHANGED <<pc, single, net, work>>
    /\ UNCHANGED <<nextSeq, issued, recipientVars, destinationVars>>

\* An answer that leaves its sequence open (the row waits), or one to a row
\* that has moved on: the rest is for another flush.
stop_run(f) ==
    /\ pc[f] = "answered"
    /\ \/ /\ Head(answers[f]).kind \in Opens
          /\ outbox' = mark_sealed_retry(Head(run[f]))
       \/ /\ Head(answers[f]).kind \in Finals
          /\ ~ StillAt(Head(run[f]))
          /\ UNCHANGED outbox
    /\ Finish(f)
    /\ UNCHANGED <<nextSeq, issued, net, recipientVars, destinationVars>>

-----------------------------------------------------------------------------
(* The destination: apply_sealed_batch and apply_sealed_one.               *)

\* Mutant of Claimed: a conflicting claim is not noticed.
Claimed_never(m) == FALSE

Claimed(m) == <<m.req.cap, m.send>> \in claims

\* The final answer to a transaction that is next; a sendId claimed before is
\* answered as stored.
Decision(m) ==
    CASE ~ speaks                              -> "refused"
      [] m.req.cap # capability                -> "unavailable"
      [] Claimed(m) \/ m.req.devices = devices -> "stored"
      [] OTHER                                 -> "mismatch"

\* The answer a sequence already used up gets: its record's, or a refusal
\* naming it when the record was pruned.
PriorAnswer(m) == IF inbound[m.seq] = "none" THEN "refused" ELSE inbound[m.seq]

\* Mutant of record_sealed_answer: a rejection does not use its sequence up.
record_sealed_stored(m, kind) ==
    IF kind = "stored"
    THEN /\ inbound' = [inbound EXCEPT ![m.seq] = kind]
         /\ last' = m.seq
         /\ given' = [given EXCEPT ![m.seq] = kind]
    ELSE UNCHANGED <<inbound, last, given>>

record_sealed_answer(m, kind) ==
    /\ inbound' = [inbound EXCEPT ![m.seq] = kind]
    /\ last' = m.seq
    /\ given' = [given EXCEPT ![m.seq] = kind]

\* Mutant of store_sealed_messages: what a refused store wrote is kept.
store_sealed_kept(m, kind) ==
    /\ claims' = IF kind \in {"stored", "mismatch"} THEN claims \cup {<<m.req.cap, m.send>>} ELSE claims
    /\ mailbox' = IF kind = "stored" /\ ~ Claimed(m) THEN Append(mailbox, m) ELSE mailbox

\* What a store leaves: the claim and the envelopes, once.
store_sealed_messages(m, kind) ==
    IF kind = "stored" /\ ~ Claimed(m)
    THEN claims' = claims \cup {<<m.req.cap, m.send>>} /\ mailbox' = Append(mailbox, m)
    ELSE UNCHANGED <<claims, mailbox>>

\* One transaction, under its stream's lock.
apply_sealed_one(m, kind) ==
    \/ /\ m.seq <= last
       /\ kind = PriorAnswer(m)
       /\ UNCHANGED destinationVars
    \/ /\ m.seq > last + 1
       /\ kind = "gap"
       /\ UNCHANGED destinationVars
    \/ /\ m.seq = last + 1
       /\ kind = "limited"
       /\ UNCHANGED destinationVars
    \/ /\ m.seq = last + 1
       /\ kind = Decision(m)
       /\ record_sealed_answer(m, kind)
       /\ store_sealed_messages(m, kind)

\* The next transaction of the request x carries.
deliver_next(x) ==
    /\ work[x] # <<>>
    /\ x \in Flushes => pc[x] = "sent"
    /\ \E kind \in Finals \cup Opens :
          LET m == Head(work[x])
              more == Tail(work[x]) # <<>> /\ kind \in Finals
          IN  /\ apply_sealed_one(m, kind)
              /\ work' = [work EXCEPT ![x] = IF more THEN Tail(@) ELSE <<>>]
              /\ IF x \in Flushes
                 THEN /\ answers' = [answers EXCEPT ![x] = Append(@, [seq |-> m.seq, kind |-> kind])]
                      /\ pc' = [pc EXCEPT ![x] = IF more THEN "sent" ELSE "answered"]
                 ELSE UNCHANGED <<answers, pc>>
    /\ UNCHANGED <<originVars, run, single, net, recipientVars>>

\* A request arrives late or again, or its flush gave up on it.
arrive_late(x) ==
    /\ work[x] = <<>>
    /\ \E b \in net : work' = [work EXCEPT ![x] = b]
    /\ UNCHANGED <<originVars, flushVars, net, recipientVars, destinationVars>>

\* The destination stops in the middle of a request.
abandon(x) ==
    /\ work[x] # <<>>
    /\ work' = [work EXCEPT ![x] = <<>>]
    /\ UNCHANGED <<originVars, flushVars, net, recipientVars, destinationVars>>

\* A record older than federationRecordDays goes; the high-water mark stays.
prune_inbound(n) ==
    /\ inbound[n] # "none"
    /\ Cardinality({k \in 1 .. last : inbound[k] = "none"}) < MaxPruned
    /\ inbound' = [inbound EXCEPT ![n] = "none"]
    /\ UNCHANGED <<originVars, flushVars, net, work, recipientVars, last, claims, mailbox, given>>

rotate_capability(c) ==
    /\ capability # c
    /\ capability' = c
    /\ UNCHANGED <<originVars, flushVars, net, work, speaks, devices, destinationVars>>

change_devices(d) ==
    /\ devices # d
    /\ devices' = d
    /\ UNCHANGED <<originVars, flushVars, net, work, speaks, capability, destinationVars>>

upgrade ==
    /\ ~ speaks
    /\ speaks' = TRUE
    /\ UNCHANGED <<originVars, flushVars, net, work, capability, devices, destinationVars>>

Flush(f) ==
    \/ \E n \in Seqs, k \in 1 .. MaxBatch, one \in BOOLEAN : send_sealed_run(f, n, k, one)
    \/ send_sealed_singles(f)
    \/ retry_later(f)
    \/ cancel(f)
    \/ apply_sealed_answer(f)
    \/ stop_run(f)

Next ==
    \/ \E s \in Sends, c \in Content : enqueue_sealed_row(s, c)
    \/ \E s \in Sends : prune_outbox(s) \/ elapse(s)
    \/ \E f \in Flushes : Flush(f)
    \/ \E x \in Servers : deliver_next(x)
    \/ \E x \in Strays : arrive_late(x) \/ abandon(x)
    \/ \E n \in Seqs : prune_inbound(n)
    \/ \E c \in Capabilities : rotate_capability(c)
    \/ \E d \in DeviceLists : change_devices(d)
    \/ upgrade

Spec == Init /\ [][Next]_vars

\* A flush has applied an answer that says more than that the destination is at
\* its own limits.
Answered(f) ==
    /\ apply_sealed_answer(f) \/ stop_run(f)
    /\ Head(answers[f]).kind # "limited"

(***************************************************************************)
(* A flush follows every row that waits (the worker's loop and, at once,   *)
(* the client's own), a backoff passes, and not every flush is cut off:    *)
(* any one may time out, be limited or die with its backend, but a         *)
(* destination that is asked again and again answers in the end.           *)
(***************************************************************************)
Fairness ==
    /\ \A s \in Sends : WF_vars(elapse(s))
    /\ \A f \in Flushes :
          /\ SF_vars(\E n \in Seqs : send_sealed_run(f, n, 1, TRUE))
          /\ []<>(pc[f] # "idle") => []<><<Answered(f)>>_vars

FairSpec == Spec /\ Fairness

-----------------------------------------------------------------------------
(* What makes the stream correct.                                          *)

\* Every sequence the destination has not used up is held by a pending row, so
\* no flush, however many run, leaves one behind that nobody sends
\* (settle_sealed_row, requeue_sealed).
NothingLost ==
    \A n \in Seqs : last < n /\ n < nextSeq => Pending(n) # {}

\* No transaction meets a gap, whatever flushes, batches and late requests
\* overlap: a sealed gap is only waited out, nothing replays it
\* (apply_sealed_answer).
NoGap ==
    \A f \in Flushes : \A i \in DOMAIN answers[f] : answers[f][i].kind # "gap"

\* A row settles as its own sequence was answered, however its answer came: in
\* a batch, alone, late, or a second time (apply_sealed_answer's guard).
AnswersAgree ==
    \A s \in Sends :
        /\ outbox[s].state \in Finals \ {"refused"} => given[outbox[s].seq] = outbox[s].state
        /\ outbox[s].state = "refused" => outbox[s].seq <= last

\* A send reported as delivered is in the recipient's mailbox, also when it
\* was only recognised by its claim (store_sealed_messages under a savepoint).
DeliveredStored ==
    \A s \in Sends : outbox[s].state = "stored" =>
        \E i \in DOMAIN mailbox : mailbox[i].send = s

\* The mailbox follows the sequences, across batches cut anywhere.
InOrder == \A i, j \in DOMAIN mailbox : i < j => mailbox[i].seq < mailbox[j].seq

\* The stream by parts, as it is at rest and under way: each part is needed for
\* the others to survive the next step.
StreamInv == TypeOK /\ NothingLost /\ NoGap /\ DeliveredStored /\ InOrder

\* The recipient gets a send once under a capability, whatever is retried,
\* repeated, corrected or pruned on either side (the claim of
\* store_sealed_messages outlives the record).
StoredOnce ==
    \A i, j \in DOMAIN mailbox :
        mailbox[i].send = mailbox[j].send /\ mailbox[i].req.cap = mailbox[j].req.cap => i = j

\* A queued send is settled in the end.
EventuallySettled ==
    \A s \in Sends : outbox[s].state = "pending" ~> outbox[s].state # "pending"

-----------------------------------------------------------------------------
(* The stream implements the abstract one, as the plain outbox does.       *)

Known ==
    [n \in Seqs |->
        IF \E s \in Sends : outbox[s].seq = n
        THEN outbox[CHOOSE s \in Sends : outbox[s].seq = n].state
        ELSE "closed"]

SendOf(m) == m.send

Stream == INSTANCE OrderedStream WITH
    Entries <- Message, NoEntry <- NoMessage, IdOf <- SendOf, Corrigible <- Rejections,
    next <- nextSeq, upto <- last, inbox <- mailbox, known <- Known

\* While no record is pruned, rows, overlapping flushes, batches cut anywhere
\* and late requests together behave as one ordered stream in which each
\* sequence is answered once (enqueue_sealed_row_in, send_sealed_run and
\* apply_sealed_batch).
ImplementsStream == Stream!StreamSpec
=============================================================================

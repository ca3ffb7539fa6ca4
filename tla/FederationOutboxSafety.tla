----------------------- MODULE FederationOutboxSafety -----------------------
(***************************************************************************)
(* Type correctness and safety of FederationOutbox, proved for every set   *)
(* of sends, device lists, clients and workers and every bound: the outbox *)
(* loses nothing, meets no gap, settles each row as the destination really *)
(* answered it, and stores each row's send at most once and in order.      *)
(*                                                                         *)
(* The inductive invariant has four layers, each kept by a step given the  *)
(* layers below it:                                                        *)
(*   IssueInv   a sequence belongs to one message for ever, and rows,      *)
(*              attempts and requests in the network all agree on it;      *)
(*   StreamInv  the destination has answered a prefix of the sequences,    *)
(*              its records say what it answered, and every sequence       *)
(*              beyond the prefix is still held by a pending row, so that  *)
(*              only the first of them can have been posted;               *)
(*   AnswerInv  answers on their way and settled rows are what was given;  *)
(*   MailInv    the mailbox is the stored prefix, in order, and a row used *)
(*              two sequences only if the first was a mismatch.            *)
(*                                                                         *)
(* A destination restored from a backup (FederationRestore) keeps less of  *)
(* it, RestoreInv, which still keeps a row's send from being stored twice. *)
(***************************************************************************)
EXTENDS FederationRestore, TLAPS

-----------------------------------------------------------------------------
(* Types.                                                                  *)

\* Where a row is, it is a whole row.
RowShape ==
    \A s \in Sends :
        outbox[s].state # "none" =>
            /\ outbox[s].id \in Seqs
            /\ outbox[s].seq \in Seqs
            /\ outbox[s].req \in DeviceLists

\* An attempt under way has a message, and an answer only once it was answered.
AttemptShape ==
    \A p \in Procs :
        /\ pc[p] # "idle" => cur[p] \in Message
        /\ pc[p] = "answered" => got[p] \in Answer
        /\ pc[p] # "answered" => got[p] = NoAnswer

TypeInv == TypeOK /\ RowShape /\ AttemptShape

\* A row's message is a message.
LEMMA RowMessageType ==
    ASSUME NEW s \in Sends, NEW row, row.id \in Seqs, row.seq \in Seqs,
           row.req \in DeviceLists
    PROVE  RowMessage(s, row) \in Message
  BY DEF RowMessage, Message

\* wait changes only the due flag of one row.
LEMMA WaitRows ==
    ASSUME NEW rows \in [Sends -> Row], NEW m \in Message
    PROVE  /\ wait(rows, m) \in [Sends -> Row]
           /\ \A s \in Sends : /\ wait(rows, m)[s].state = rows[s].state
                               /\ wait(rows, m)[s].id = rows[s].id
                               /\ wait(rows, m)[s].seq = rows[s].seq
                               /\ wait(rows, m)[s].req = rows[s].req
  BY DEF wait, Row, Message

\* settle changes at most the state of the row still pending at the message's
\* sequence.
LEMMA SettleRows ==
    ASSUME NEW rows \in [Sends -> Row], NEW m \in Message, NEW k \in Settled
    PROVE  /\ settle(rows, m, k) \in [Sends -> Row]
           /\ \A s \in Sends : /\ settle(rows, m, k)[s].id = rows[s].id
                               /\ settle(rows, m, k)[s].seq = rows[s].seq
                               /\ settle(rows, m, k)[s].req = rows[s].req
                               /\ settle(rows, m, k)[s].due = rows[s].due
                               /\ \/ settle(rows, m, k)[s].state = rows[s].state
                                  \/ /\ s = m.send
                                     /\ StillAt(rows, m)
                                     /\ settle(rows, m, k)[s].state = k
  BY DEF settle, Row, Message

\* replay keeps whole rows whole.
LEMMA ReplayRows ==
    ASSUME NEW rows \in [Sends -> Row], NEW n, NEW m \in Message
    PROVE  /\ replay(rows, n, m) \in [Sends -> Row]
           /\ \A s \in Sends : /\ replay(rows, n, m)[s].id = rows[s].id
                               /\ replay(rows, n, m)[s].seq = rows[s].seq
                               /\ replay(rows, n, m)[s].req = rows[s].req
                               /\ replay(rows, n, m)[s].state = "none" => rows[s].state = "none"
                               /\ rows[s].state = "none" => replay(rows, n, m)[s].state = "none"
                               /\ replay(rows, n, m)[s].state \in {rows[s].state, "pending"}
<1> DEFINE re(s) == [rows[s] EXCEPT !.state = "pending", !.due = "now"]
<1>1. \A s \in Sends : re(s) \in Row /\ re(s).id = rows[s].id /\ re(s).seq = rows[s].seq
                        /\ re(s).req = rows[s].req /\ re(s).state = "pending"
  BY DEF Row
<1>2. \A s \in Sends :
          \/ rows[s].state # "none" /\ replay(rows, n, m)[s] = re(s)
          \/ replay(rows, n, m)[s] = rows[s]
  BY DEF replay
<1>3. replay(rows, n, m) = [s \in Sends |-> replay(rows, n, m)[s]]
  BY DEF replay
<1> HIDE DEF re
<1>4. \A s \in Sends : replay(rows, n, m)[s] \in Row
  BY <1>1, <1>2
<1> QED BY <1>1, <1>2, <1>3, <1>4

\* The destination's decision is a final answer.
LEMMA DecisionFinal ==
    ASSUME NEW m
    PROVE  Decision(m) \in Finals
  BY DEF Decision, Finals, Accepted

\* What the destination answers is an answer.
LEMMA AnswerType ==
    ASSUME TypeOK, NEW m \in Message
    PROVE  AnswerTo(m) \in Answer
<1>1. CASE m.seq <= last
  <2>1. last + 1 \in 1 .. MaxSeq + 1 /\ m.seq \in 1 .. MaxSeq + 1
    <3>1. last \in 0 .. MaxSeq /\ m.seq \in 1 .. MaxSeq
      BY DEF TypeOK, Message, Seqs
    <3> QED BY <3>1, ConstantsAssumption
  <2>2. inbound[m.seq] # NoRecord => inbound[m.seq].kind \in Finals
    BY DEF TypeOK, Message, Record
  <2>3. prior(m) \in Answer
    BY <2>1, <2>2 DEF prior, Reply, Answer, Settled
  <2> QED BY <1>1, <2>3 DEF AnswerTo
<1>2. CASE ~(m.seq <= last) /\ m.seq = last + 1
  BY <1>2, DecisionFinal, ConstantsAssumption DEF AnswerTo, Reply, Answer, Message, TypeOK,
     Seqs, Settled
<1>3. CASE ~(m.seq <= last) /\ m.seq # last + 1
  BY <1>3, ConstantsAssumption DEF AnswerTo, Reply, Answer, Message, TypeOK, Seqs, Settled
<1> QED BY <1>1, <1>2, <1>3

\* A transaction the destination takes keeps its state typed.
LEMMA DeliverType ==
    ASSUME TypeOK, NEW m \in Message, deliver_messages(m)
    PROVE  /\ last' \in 0 .. MaxSeq
           /\ inbound' \in [Seqs -> Record \cup {NoRecord}]
           /\ mailbox' \in Seq(Message)
           /\ given' \in [Seqs -> Finals \cup {"none"}]
<1>1. CASE UNCHANGED destinationVars
  BY <1>1 DEF destinationVars, TypeOK
<1>2. CASE /\ m.seq = last + 1
           /\ record(m, Decision(m))
           /\ mailbox' = IF Decision(m) = "stored" THEN Append(mailbox, m) ELSE mailbox
  <2>1. m.seq \in Seqs /\ m.id \in Seqs
    BY DEF Message
  <2>2. [id |-> m.id, kind |-> Decision(m)] \in Record
    BY <2>1, DecisionFinal DEF Record
  <2>3. mailbox' \in Seq(Message)
    BY <1>2 DEF TypeOK
  <2>4. last' \in 0 .. MaxSeq
    BY <1>2, <2>1, ConstantsAssumption DEF record, Seqs
  <2> QED BY <1>2, <2>1, <2>2, <2>3, <2>4, DecisionFinal DEF record, TypeOK
<1> QED BY <1>1, <1>2 DEF deliver_messages

\* The next sequence's row, message and counter are typed.
LEMMA NextSequenceType ==
    ASSUME TypeInv, NEW p \in Clients, NEW s \in Sends, NEW id \in Seqs,
           NEW r \in DeviceLists, pc[p] = "idle", next_sequence(p, s, id, r),
           UNCHANGED <<net, devices, destinationVars>>
    PROVE  TypeInv'
<1> DEFINE row == [id |-> id, seq |-> nextSeq, req |-> r, state |-> "pending", due |-> "now"]
<1>1. nextSeq \in Seqs /\ nextSeq' \in 1 .. MaxSeq + 1
  BY ConstantsAssumption DEF TypeInv, TypeOK, next_sequence, Seqs
<1>2. row \in Row
  BY <1>1, ConstantsAssumption DEF Row, Seqs
<1>3. RowMessage(s, row) \in Message
  BY <1>1 DEF RowMessage, Message
<1>4. /\ outbox' = [outbox EXCEPT ![s] = row]
      /\ issued' = [issued EXCEPT ![nextSeq] = RowMessage(s, row)]
      /\ cur' = [cur EXCEPT ![p] = RowMessage(s, row)]
      /\ pc' = [pc EXCEPT ![p] = "load"]
      /\ outcome' = [outcome EXCEPT ![p] = NoOutcome]
      /\ got' = got
  BY DEF next_sequence
<1>5. row.id = id /\ row.seq = nextSeq /\ row.req = r
  OBVIOUS
<1> HIDE DEF row
<1>6. TypeOK'
  BY <1>1, <1>2, <1>3, <1>4 DEF TypeInv, TypeOK, Procs, destinationVars
<1>7. RowShape'
  BY <1>1, <1>4, <1>5 DEF TypeInv, TypeOK, RowShape
<1>8. AttemptShape'
  BY <1>3, <1>4 DEF TypeInv, TypeOK, AttemptShape, Procs
<1> QED BY <1>6, <1>7, <1>8 DEF TypeInv

\* The attempt ends: typed, whatever it leaves of the outbox.
LEMMA FinishType ==
    ASSUME TypeInv, NEW p \in Procs, Finish(p), outbox' \in [Sends -> Row], RowShape',
           outcome' \in [Clients -> Outcome \cup {NoOutcome}],
           UNCHANGED <<nextSeq, issued, net, devices, destinationVars>>
    PROVE  TypeInv'
<1>1. TypeOK'
  BY DEF TypeInv, TypeOK, Finish, destinationVars
<1>2. AttemptShape'
  BY DEF TypeInv, TypeOK, AttemptShape, Finish
<1> QED BY <1>1, <1>2 DEF TypeInv

\* What a client is told is an outcome.
LEMMA TellType ==
    ASSUME TypeInv, NEW p \in Procs, NEW s \in Sends,
           NEW what \in {"delivered", "rejected", "mismatch", "invalidState"},
           Tell(p, s, what)
    PROVE  outcome' \in [Clients -> Outcome \cup {NoOutcome}]
<1>1. [send |-> s, what |-> what] \in Outcome
  BY DEF Outcome
<1> QED BY <1>1 DEF Tell, TypeInv, TypeOK

\* What a row is told as is one of the three answers of a settled row.
LEMMA OutcomeOfType ==
    ASSUME NEW kind
    PROVE  OutcomeOf(kind) \in {"delivered", "rejected", "mismatch"}
  BY DEF OutcomeOf

\* Every step keeps the types, one step of the proof per action.
LEMMA TypeStep == TypeInv /\ [Next]_vars => TypeInv'
<1> SUFFICES ASSUME TypeInv, [Next]_vars PROVE TypeInv'
  OBVIOUS
<1>1. ASSUME NEW p \in Clients, enqueue_send(p) PROVE TypeInv'
  <2>1. PICK s \in Sends, r \in DeviceLists :
            \/ enqueue_new(p, s, r)
            \/ requeue_plain(p, s, r)
            \/ enqueue_again(p, s, r)
            \/ enqueue_answered(p, s, r)
    BY <1>1 DEF enqueue_send
  <2>2. pc[p] = "idle" /\ UNCHANGED <<net, devices, destinationVars>>
    BY <1>1 DEF enqueue_send
  <2>3. CASE enqueue_new(p, s, r)
    <3>1. nextSeq \in Seqs
      BY <2>3, ConstantsAssumption DEF enqueue_new, next_sequence, TypeInv, TypeOK, Seqs
    <3> QED BY <2>2, <2>3, <3>1, NextSequenceType DEF enqueue_new
  <2>4. CASE requeue_plain(p, s, r)
    <3>1. outbox[s].id \in Seqs
      BY <2>4 DEF requeue_plain, TypeInv, RowShape
    <3> QED BY <2>2, <2>4, <3>1, NextSequenceType DEF requeue_plain
  <2>5. CASE enqueue_again(p, s, r)
    <3>1. RowMessage(s, outbox[s]) \in Message
      BY <2>5, RowMessageType DEF enqueue_again, TypeInv, RowShape
    <3> QED BY <2>2, <2>5, <3>1 DEF enqueue_again, TypeInv, TypeOK, RowShape, AttemptShape,
                                    originVars, destinationVars, Procs
  <2>6. CASE enqueue_answered(p, s, r)
    <3>1. outcome' \in [Clients -> Outcome \cup {NoOutcome}]
      BY <2>6, TellType, OutcomeOfType DEF enqueue_answered, Procs
    <3> QED BY <2>2, <2>6, <3>1 DEF enqueue_answered, TypeInv, TypeOK, RowShape, AttemptShape,
                                    originVars, destinationVars
  <2> QED BY <2>1, <2>3, <2>4, <2>5, <2>6
<1>2. ASSUME NEW p \in Workers, flush_due(p) PROVE TypeInv'
  <2>1. PICK s \in plain_head(outbox) : cur' = [cur EXCEPT ![p] = RowMessage(s, outbox[s])]
    BY <1>2 DEF flush_due
  <2>2. s \in Sends /\ RowMessage(s, outbox[s]) \in Message
    BY <2>1, RowMessageType DEF plain_head, TypeInv, RowShape
  <2> QED BY <1>2, <2>1, <2>2 DEF flush_due, TypeInv, TypeOK, RowShape, AttemptShape,
                                  originVars, destinationVars, Procs
<1>3. ASSUME NEW p \in Procs, load_outbox(p) PROVE TypeInv'
  <2>1. cur[p] \in Message /\ cur[p].send \in Sends
    BY <1>3 DEF load_outbox, TypeInv, AttemptShape, Message
  <2>2. CASE load_settled(p)
    <3>1. outcome' \in [Clients -> Outcome \cup {NoOutcome}]
      BY <2>1, <2>2, TellType, OutcomeOfType DEF load_settled
    <3> QED BY <1>3, <2>2, <3>1, FinishType DEF load_outbox, load_settled, originVars, TypeInv,
                                                TypeOK, RowShape
  <2>3. CASE load_pending(p)
    <3>1. RowMessage(cur[p].send, outbox[cur[p].send]) \in Message
      BY <2>1, <2>3, RowMessageType DEF load_pending, TypeInv, RowShape
    <3> QED BY <1>3, <2>3, <3>1 DEF load_outbox, load_pending, TypeInv, TypeOK, RowShape,
                                    AttemptShape, originVars, destinationVars
  <2> QED BY <1>3, <2>2, <2>3 DEF load_outbox
<1>4. ASSUME NEW p \in Procs, post_head(p) PROVE TypeInv'
  BY <1>4 DEF post_head, TypeInv, TypeOK, RowShape, AttemptShape, originVars, destinationVars
<1>5. ASSUME NEW p \in Procs, leave_behind_head(p) \/ cancel(p) PROVE TypeInv'
  BY <1>5, FinishType DEF leave_behind_head, cancel, originVars, TypeInv, TypeOK, RowShape
<1>6. ASSUME NEW p \in Procs, park_for_upgrade(p) \/ transport_error(p) PROVE TypeInv'
  <2>1. cur[p] \in Message /\ outbox' = wait(outbox, cur[p])
    BY <1>6 DEF park_for_upgrade, transport_error, TypeInv, AttemptShape
  <2>2. outbox \in [Sends -> Row] /\ RowShape
    BY DEF TypeInv, TypeOK
  <2>3. /\ outbox' \in [Sends -> Row]
        /\ \A s \in Sends : /\ outbox'[s].state = outbox[s].state
                            /\ outbox'[s].id = outbox[s].id
                            /\ outbox'[s].seq = outbox[s].seq
                            /\ outbox'[s].req = outbox[s].req
    BY <2>1, <2>2, WaitRows
  <2>4. RowShape'
    BY <2>2, <2>3 DEF RowShape
  <2> QED BY <1>6, <2>3, <2>4, FinishType DEF park_for_upgrade, transport_error, TypeInv, TypeOK
<1>7. ASSUME NEW p \in Procs, settle_answer(p) PROVE TypeInv'
  <2>1. /\ cur[p] \in Message /\ cur[p].send \in Sends
        /\ outbox' = settle(outbox, cur[p], got[p].kind)
        /\ got[p].kind \in Settled
    BY <1>7 DEF settle_answer, TypeInv, AttemptShape, Message
  <2>2. outbox \in [Sends -> Row] /\ RowShape
    BY DEF TypeInv, TypeOK
  <2>3. /\ outbox' \in [Sends -> Row]
        /\ \A s \in Sends : /\ outbox'[s].id = outbox[s].id
                            /\ outbox'[s].seq = outbox[s].seq
                            /\ outbox'[s].req = outbox[s].req
                            /\ \/ outbox'[s].state = outbox[s].state
                               \/ outbox[s].state = "pending"
    BY <2>1, <2>2, SettleRows DEF StillAt
  <2>4. RowShape'
    BY <2>2, <2>3 DEF RowShape
  <2>5. outcome' \in [Clients -> Outcome \cup {NoOutcome}]
    BY <1>7, <2>1, TellType, OutcomeOfType DEF settle_answer
  <2> QED BY <1>7, <2>3, <2>4, <2>5, FinishType DEF settle_answer
<1>8. ASSUME NEW p \in Procs, replay_gap(p) PROVE TypeInv'
  <2> DEFINE rows == replay(outbox, got[p].seq, cur[p])
  <2>1. cur[p] \in Message /\ outbox' = wait(rows, cur[p])
    BY <1>8 DEF replay_gap, TypeInv, AttemptShape
  <2>2. /\ rows \in [Sends -> Row]
        /\ \A s \in Sends : rows[s].state # "none" =>
              /\ rows[s].id \in Seqs /\ rows[s].seq \in Seqs /\ rows[s].req \in DeviceLists
    <3>1. outbox \in [Sends -> Row] /\ RowShape
      BY DEF TypeInv, TypeOK
    <3>2. /\ rows \in [Sends -> Row]
          /\ \A s \in Sends : /\ rows[s].id = outbox[s].id
                              /\ rows[s].seq = outbox[s].seq
                              /\ rows[s].req = outbox[s].req
                              /\ rows[s].state = "none" => outbox[s].state = "none"
                              /\ outbox[s].state = "none" => rows[s].state = "none"
      BY <2>1, <3>1, ReplayRows
    <3> HIDE DEF rows
    <3> QED BY <3>1, <3>2 DEF RowShape
  <2> HIDE DEF rows
  <2>3. outbox' \in [Sends -> Row] /\ RowShape'
    BY <2>1, <2>2, WaitRows DEF RowShape
  <2> QED BY <1>8, <2>3, FinishType DEF replay_gap, TypeInv, TypeOK
<1>9. ASSUME NEW p \in Procs, arrive(p) PROVE TypeInv'
  <2>1. cur[p] \in Message /\ deliver_messages(cur[p])
    BY <1>9 DEF arrive, TypeInv, AttemptShape
  <2>2. AnswerTo(cur[p]) \in Answer
    BY <2>1, AnswerType DEF TypeInv
  <2> QED BY <1>9, <2>1, <2>2, DeliverType DEF arrive, TypeInv, TypeOK, RowShape, AttemptShape,
                                               originVars
<1>10. ASSUME NEW m \in net, arrive_late(m) PROVE TypeInv'
  <2>1. m \in Message
    BY DEF TypeInv, TypeOK
  <2> QED BY <1>10, <2>1, DeliverType DEF arrive_late, TypeInv, TypeOK, RowShape, AttemptShape,
                                          originVars, attemptVars
<1>11. ASSUME NEW s \in Sends, elapse(s) PROVE TypeInv'
  <2>1. /\ outbox \in [Sends -> Row] /\ RowShape
        /\ outbox' = [outbox EXCEPT ![s].due = "now"]
    BY <1>11 DEF elapse, TypeInv, TypeOK
  <2>2. /\ outbox' \in [Sends -> Row]
        /\ \A r \in Sends : /\ outbox'[r].state = outbox[r].state
                            /\ outbox'[r].id = outbox[r].id
                            /\ outbox'[r].seq = outbox[r].seq
                            /\ outbox'[r].req = outbox[r].req
    BY <2>1 DEF Row
  <2>3. RowShape'
    BY <2>1, <2>2 DEF RowShape
  <2> QED BY <1>11, <2>2, <2>3 DEF elapse, TypeInv, TypeOK, AttemptShape, attemptVars,
                                   destinationVars
<1>12. ASSUME NEW s \in Sends, prune_outbox(s) PROVE TypeInv'
  <2>1. NoRow \in Row /\ NoRow.state = "none"
    BY ConstantsAssumption DEF NoRow, Row
  <2>2. outbox' \in [Sends -> Row] /\ RowShape'
    BY <1>12, <2>1 DEF prune_outbox, TypeInv, TypeOK, RowShape
  <2> QED BY <1>12, <2>2 DEF prune_outbox, TypeInv, TypeOK, AttemptShape, attemptVars,
                             destinationVars
<1>13. ASSUME NEW n \in Seqs, prune_inbound(n) PROVE TypeInv'
  BY <1>13 DEF prune_inbound, TypeInv, TypeOK, RowShape, AttemptShape, originVars, attemptVars
<1>14. ASSUME NEW d \in DeviceLists \cup {NoDevices}, change_devices(d) PROVE TypeInv'
  BY <1>14 DEF change_devices, TypeInv, TypeOK, RowShape, AttemptShape, originVars, attemptVars,
               destinationVars
<1>15. CASE UNCHANGED vars
  BY <1>15 DEF vars, TypeInv, TypeOK, RowShape, AttemptShape
<1> QED
  BY <1>1, <1>2, <1>3, <1>4, <1>5, <1>6, <1>7, <1>8, <1>9, <1>10, <1>11, <1>12, <1>13, <1>14,
     <1>15 DEF Next, Attempt

\* Type correctness of the outbox, its attempts and the inbound stream, for
\* every instance (TypeOK, of the state the migrations and attempt_outbox keep).
THEOREM TypeCorrect == Spec => []TypeOK
<1>1. Init => TypeInv
  BY ConstantsAssumption DEF Init, TypeInv, TypeOK, RowShape, AttemptShape, NoRow, Row, Procs
<1>2. TypeInv => TypeOK
  BY DEF TypeInv
<1> QED BY <1>1, <1>2, TypeStep, PTL DEF Spec

IssuedOnce ==
    \A n \in Seqs : n < nextSeq =>
        /\ issued[n] \in Message
        /\ issued[n].seq = n
        /\ issued[n].id <= n

RowsIssued ==
    \A s \in Sends : outbox[s].state # "none" =>
        /\ outbox[s].seq < nextSeq
        /\ issued[outbox[s].seq] = RowMessage(s, outbox[s])

\* A row is at the last sequence its id was given.
RowsLatest ==
    \A s \in Sends, n \in Seqs :
        outbox[s].state # "none" /\ n < nextSeq /\ issued[n].id = outbox[s].id
            => n <= outbox[s].seq

AttemptsIssued ==
    \A p \in Procs : pc[p] # "idle" =>
        cur[p].seq < nextSeq /\ issued[cur[p].seq] = cur[p]

NetIssued == \A m \in net : m.seq < nextSeq /\ issued[m.seq] = m

IssueInv == IssuedOnce /\ RowsIssued /\ RowsLatest /\ AttemptsIssued /\ NetIssued

PrefixAnswered ==
    /\ last < nextSeq
    /\ \A n \in Seqs : n <= last <=> given[n] \in Finals

RecordsTrue ==
    \A n \in Seqs : inbound[n] # NoRecord =>
        /\ n <= last
        /\ inbound[n].id = issued[n].id
        /\ inbound[n].kind = given[n]

PostedNext ==
    /\ \A m \in net : m.seq <= last + 1
    /\ \A p \in Procs : pc[p] \in {"sent", "answered"} => cur[p].seq <= last + 1

StreamInv == PrefixAnswered /\ RecordsTrue /\ NothingLost /\ PostedNext

\* The answer on its way to an attempt is the one its sequence was given, or
\* that it was given one.
AnswersTrue ==
    \A p \in Procs : pc[p] = "answered" =>
        /\ cur[p].seq <= last
        /\ got[p].seq = cur[p].seq
        /\ got[p].kind = "gone" \/ got[p].kind = given[cur[p].seq]

AnswerInv == AnswersTrue /\ AnswersAgree

MailTrue ==
    \A i \in DOMAIN mailbox :
        /\ mailbox[i].seq <= last
        /\ mailbox[i] = issued[mailbox[i].seq]
        /\ given[mailbox[i].seq] = "stored"

MailComplete ==
    \A n \in Seqs : given[n] = "stored" =>
        \E i \in DOMAIN mailbox : mailbox[i] = issued[n]

\* A row used two sequences only if the first was answered with a mismatch.
MovedOnMismatch ==
    \A n, k \in Seqs : n < k /\ k < nextSeq /\ issued[n].id = issued[k].id
        => given[n] = "mismatch"

MailInv == MailTrue /\ MailComplete /\ InOrder /\ MovedOnMismatch

SafetyInv == TypeInv /\ IssueInv /\ StreamInv /\ AnswerInv /\ MailInv /\ ClientTruth
-----------------------------------------------------------------------------
(* What a step can do, in three kinds: a row enters the queue, the origin  *)
(* works on rows and attempts, or the destination takes a transaction.     *)

Enqueued(p, s, id, r) ==
    /\ pc[p] = "idle"
    /\ next_sequence(p, s, id, r)
    /\ \/ outbox[s].state = "none" /\ id = nextSeq
       \/ outbox[s].state = "mismatch" /\ id = outbox[s].id
    /\ UNCHANGED <<net, devices, destinationVars>>

\* A row keeps its place; its state changes only from pending to the answer an
\* attempt got for exactly this row and sequence, or the row is pruned.
RowKept(s) ==
    /\ outbox[s].state # "none"
    /\ outbox'[s].id = outbox[s].id
    /\ outbox'[s].seq = outbox[s].seq
    /\ outbox'[s].req = outbox[s].req
    /\ \/ outbox'[s].state = outbox[s].state
       \/ \E p \in Procs : /\ pc[p] = "answered"
                            /\ outbox[s].state = "pending"
                            /\ outbox[s].seq = cur[p].seq
                            /\ outbox'[s].state = got[p].kind
                            /\ got[p].kind \in Settled

RowsKept ==
    \A s \in Sends :
        \/ outbox'[s].state = "none" /\ outbox[s].state # "pending"
        \/ RowKept(s)

AttemptKept(p) ==
    \/ pc'[p] = "idle"
    \/ pc'[p] = pc[p] /\ cur'[p] = cur[p] /\ got'[p] = got[p]
    \/ /\ pc'[p] \in {"load", "head"}
       /\ \E t \in Sends : outbox[t].state = "pending" /\ cur'[p] = RowMessage(t, outbox[t])
    \/ pc[p] = "head" /\ pc'[p] = "sent" /\ cur'[p] = cur[p] /\ IsHead(cur[p])

NetKept ==
    \A m \in net' : m \in net \/ \E p \in Procs : pc[p] = "head" /\ m = cur[p] /\ IsHead(m)

\* What a client is told comes from a settled row or an answer.
ToldFrom(c) ==
    \/ outcome'[c] = outcome[c]
    \/ outcome'[c].what \notin {"delivered", "mismatch"}
    \/ \E s \in Sends, k \in {"stored", "mismatch"} :
          /\ outcome'[c].send = s
          /\ outcome'[c].what = OutcomeOf(k)
          /\ \/ outbox[s].state = k
             \/ \E p \in Procs : pc[p] = "answered" /\ cur[p].send = s /\ got[p].kind = k

OriginStep ==
    /\ UNCHANGED <<nextSeq, issued, last, mailbox, given>>
    /\ \A n \in Seqs : inbound'[n] \in {inbound[n], NoRecord}
    /\ RowsKept
    /\ \A p \in Procs : AttemptKept(p)
    /\ NetKept
    /\ \A c \in Clients : ToldFrom(c)

Delivered(m) ==
    /\ m \in Message
    /\ m \in net \/ \E p \in Procs : pc[p] = "sent" /\ cur[p] = m
    /\ deliver_messages(m)
    /\ UNCHANGED <<originVars, cur, outcome, net>>
    /\ \A p \in Procs :
          \/ pc'[p] = pc[p] /\ got'[p] = got[p]
          \/ pc[p] = "sent" /\ pc'[p] = "answered" /\ cur[p] = m /\ got'[p] = AnswerTo(m)

\* An attempt that ends leaves every attempt as an origin's step may.
LEMMA FinishKeeps ==
    ASSUME TypeInv, NEW p \in Procs, Finish(p)
    PROVE  \A q \in Procs : AttemptKept(q)
  BY DEF TypeInv, TypeOK, Finish, AttemptKept

\* Rows an origin's step leaves alone.
LEMMA SameRows ==
    ASSUME TypeInv, UNCHANGED outbox
    PROVE  RowsKept
  BY DEF RowsKept, RowKept, TypeInv

\* A row put back to wait keeps its place and its state.
LEMMA WaitKeeps ==
    ASSUME TypeInv, NEW m \in Message, outbox' = wait(outbox, m)
    PROVE  RowsKept
<1>1. outbox \in [Sends -> Row]
  BY DEF TypeInv, TypeOK
<1> QED BY <1>1, WaitRows DEF RowsKept, RowKept

\* An attempt's answer settles at most the row that is pending at its sequence.
LEMMA SettleKeeps ==
    ASSUME TypeInv, NEW p \in Procs, pc[p] = "answered", cur[p] \in Message,
           got[p].kind \in Settled, outbox' = settle(outbox, cur[p], got[p].kind)
    PROVE  RowsKept
<1>1. outbox \in [Sends -> Row]
  BY DEF TypeInv, TypeOK
<1>2. \A s \in Sends : /\ outbox'[s].id = outbox[s].id
                       /\ outbox'[s].seq = outbox[s].seq
                       /\ outbox'[s].req = outbox[s].req
                       /\ \/ outbox'[s].state = outbox[s].state
                          \/ /\ outbox[s].state = "pending"
                             /\ outbox[s].seq = cur[p].seq
                             /\ outbox'[s].state = got[p].kind
  BY <1>1, SettleRows DEF StillAt
<1> QED BY <1>2 DEF RowsKept, RowKept

\* What an attempt or a request tells its client comes from a row or an answer.
LEMMA TellKeeps ==
    ASSUME TypeInv, NEW p \in Procs, NEW s \in Sends, NEW k \in Settled,
           Tell(p, s, OutcomeOf(k)),
           outbox[s].state = k \/ (pc[p] = "answered" /\ cur[p].send = s /\ got[p].kind = k)
    PROVE  \A c \in Clients : ToldFrom(c)
<1> SUFFICES ASSUME NEW c \in Clients PROVE ToldFrom(c)
  OBVIOUS
<1>1. CASE outcome'[c] = outcome[c]
  BY <1>1 DEF ToldFrom
<1>2. CASE outcome'[c] # outcome[c]
  <2>1. outcome'[c] = [send |-> s, what |-> OutcomeOf(k)]
    BY <1>2 DEF Tell, TypeInv, TypeOK
  <2>2. CASE k \in {"stored", "mismatch"}
    BY <2>1, <2>2 DEF ToldFrom
  <2>3. CASE k \notin {"stored", "mismatch"}
    BY <2>1, <2>3 DEF ToldFrom, OutcomeOf
  <2> QED BY <2>2, <2>3
<1> QED BY <1>1, <1>2

\* Every step is of one of the three kinds, or replays after a gap.
LEMMA StepOrReplay ==
    ASSUME TypeInv, [Next]_vars
    PROVE  \/ \E p \in Clients, s \in Sends, id \in Seqs, r \in DeviceLists : Enqueued(p, s, id, r)
           \/ OriginStep
           \/ \E m \in Message : Delivered(m)
           \/ \E p \in Procs : replay_gap(p)
<1> DEFINE Kinds == \/ \E p \in Clients, s \in Sends, id \in Seqs, r \in DeviceLists :
                            Enqueued(p, s, id, r)
                    \/ OriginStep
                    \/ \E m \in Message : Delivered(m)
<1> USE DEF destinationVars
<1>0. \A c \in Clients : outcome'[c] \in {outcome[c], NoOutcome} => ToldFrom(c)
  BY DEF ToldFrom, NoOutcome
<1>1. ASSUME NEW p \in Clients, enqueue_send(p) PROVE Kinds
  <2>1. PICK s \in Sends, r \in DeviceLists :
            \/ enqueue_new(p, s, r)
            \/ requeue_plain(p, s, r)
            \/ enqueue_again(p, s, r)
            \/ enqueue_answered(p, s, r)
    BY <1>1 DEF enqueue_send
  <2>2. p \in Procs /\ pc[p] = "idle" /\ UNCHANGED <<net, devices, destinationVars>>
    BY <1>1 DEF enqueue_send, Procs
  <2>3. CASE enqueue_new(p, s, r)
    <3>1. nextSeq \in Seqs
      BY <2>3, ConstantsAssumption DEF enqueue_new, next_sequence, TypeInv, TypeOK, Seqs
    <3>2. Enqueued(p, s, nextSeq, r)
      BY <2>2, <2>3 DEF enqueue_new, Enqueued
    <3> QED BY <3>1, <3>2
  <2>4. CASE requeue_plain(p, s, r)
    <3>1. outbox[s].id \in Seqs
      BY <2>4 DEF requeue_plain, TypeInv, RowShape
    <3>2. Enqueued(p, s, outbox[s].id, r)
      BY <2>2, <2>4 DEF requeue_plain, Enqueued
    <3> QED BY <3>1, <3>2
  <2>5. CASE enqueue_again(p, s, r)
    <3>1. \A q \in Procs : AttemptKept(q)
      BY <2>2, <2>5 DEF enqueue_again, AttemptKept, TypeInv, TypeOK
    <3>2. \A c \in Clients : ToldFrom(c)
      BY <1>0, <2>5 DEF enqueue_again, TypeInv, TypeOK
    <3> QED BY <2>2, <2>5, <3>1, <3>2, SameRows DEF enqueue_again, OriginStep, NetKept, originVars
  <2>6. CASE enqueue_answered(p, s, r)
    <3>1. \A q \in Procs : AttemptKept(q)
      BY <2>6 DEF enqueue_answered, AttemptKept
    <3>2. \A c \in Clients : ToldFrom(c)
      BY <2>2, <2>6, TellKeeps DEF enqueue_answered
    <3> QED BY <2>2, <2>6, <3>1, <3>2, SameRows DEF enqueue_answered, OriginStep, NetKept,
               originVars
  <2> QED BY <2>1, <2>3, <2>4, <2>5, <2>6
<1>2. ASSUME NEW p \in Workers, flush_due(p) PROVE Kinds
  <2>1. PICK s \in Sends : outbox[s].state = "pending"
                          /\ cur' = [cur EXCEPT ![p] = RowMessage(s, outbox[s])]
    BY <1>2 DEF flush_due, plain_head
  <2>2. p \in Procs
    BY DEF Procs
  <2>3. \A q \in Procs : AttemptKept(q)
    BY <1>2, <2>1, <2>2 DEF flush_due, AttemptKept, TypeInv, TypeOK
  <2> QED BY <1>0, <1>2, <2>3, SameRows DEF flush_due, OriginStep, NetKept, originVars
<1>3. ASSUME NEW p \in Procs, load_outbox(p) PROVE Kinds
  <2>1. cur[p].send \in Sends
    BY <1>3 DEF load_outbox, TypeInv, AttemptShape, Message
  <2>2. CASE load_settled(p)
    <3> DEFINE s == cur[p].send
    <3>1. \A q \in Procs : AttemptKept(q)
      BY <2>2, FinishKeeps DEF load_settled
    <3>2. CASE outbox[s].state \in Finals
      <4>1. Tell(p, s, OutcomeOf(outbox[s].state))
        BY <2>2, <3>2 DEF load_settled, Finals, Accepted
      <4>2. \A c \in Clients : ToldFrom(c)
        BY <2>1, <3>2, <4>1, TellKeeps DEF Settled
      <4> QED BY <1>3, <3>1, <4>2, SameRows DEF load_outbox, OriginStep, NetKept, originVars
    <3>3. CASE outbox[s].state \notin Finals
      <4>1. PICK what \in {"rejected", "invalidState"} : Tell(p, s, what)
        BY <2>2, <3>3 DEF load_settled, OutcomeOf, Finals, Accepted
      <4>2. \A c \in Clients : outcome'[c] = outcome[c] \/ outcome'[c].what = what
        BY <4>1 DEF Tell, TypeInv, TypeOK
      <4>3. \A c \in Clients : ToldFrom(c)
        BY <4>2 DEF ToldFrom
      <4> QED BY <1>3, <3>1, <4>3, SameRows DEF load_outbox, OriginStep, NetKept, originVars
    <3> QED BY <3>2, <3>3
  <2>3. CASE load_pending(p)
    <3>1. \A q \in Procs : AttemptKept(q)
      BY <2>1, <2>3 DEF load_pending, AttemptKept, TypeInv, TypeOK
    <3> QED BY <1>0, <1>3, <2>3, <3>1, SameRows DEF load_outbox, load_pending, OriginStep, NetKept,
                                                    originVars
  <2> QED BY <1>3, <2>2, <2>3 DEF load_outbox
<1>4. ASSUME NEW p \in Procs, post_head(p) PROVE Kinds
  <2>1. \A q \in Procs : AttemptKept(q)
    BY <1>4 DEF post_head, AttemptKept, TypeInv, TypeOK
  <2> QED BY <1>0, <1>4, <2>1, SameRows DEF post_head, OriginStep, NetKept, originVars
<1>5. ASSUME NEW p \in Procs, leave_behind_head(p) \/ cancel(p) PROVE Kinds
  <2>1. Finish(p) /\ UNCHANGED <<originVars, outcome, net, devices, destinationVars>>
    BY <1>5 DEF leave_behind_head, cancel
  <2> QED BY <1>0, <2>1, FinishKeeps, SameRows DEF OriginStep, NetKept, originVars
<1>6. ASSUME NEW p \in Procs, park_for_upgrade(p) \/ transport_error(p) PROVE Kinds
  <2>1. /\ cur[p] \in Message /\ outbox' = wait(outbox, cur[p])
        /\ Finish(p)
        /\ UNCHANGED <<nextSeq, issued, outcome, net, devices, destinationVars>>
    BY <1>6 DEF park_for_upgrade, transport_error, TypeInv, AttemptShape
  <2> QED BY <1>0, <2>1, FinishKeeps, WaitKeeps DEF OriginStep, NetKept
<1>7. ASSUME NEW p \in Procs, settle_answer(p) PROVE Kinds
  <2>1. /\ cur[p] \in Message /\ cur[p].send \in Sends
        /\ pc[p] = "answered"
        /\ got[p].kind \in Settled
        /\ outbox' = settle(outbox, cur[p], got[p].kind)
        /\ Tell(p, cur[p].send, OutcomeOf(got[p].kind))
        /\ Finish(p)
        /\ UNCHANGED <<nextSeq, issued, net, devices, destinationVars>>
    BY <1>7 DEF settle_answer, TypeInv, AttemptShape, Message
  <2>2. \A c \in Clients : ToldFrom(c)
    BY <2>1, TellKeeps
  <2> QED BY <2>1, <2>2, FinishKeeps, SettleKeeps DEF OriginStep, NetKept
<1>8. ASSUME NEW p \in Procs, replay_gap(p) PROVE \E q \in Procs : replay_gap(q)
  BY <1>8
<1>9. ASSUME NEW p \in Procs, arrive(p) PROVE Kinds
  <2>1. cur[p] \in Message /\ pc[p] = "sent"
    BY <1>9 DEF arrive, TypeInv, AttemptShape
  <2>2. Delivered(cur[p])
    BY <1>9, <2>1 DEF arrive, Delivered, TypeInv, TypeOK
  <2> QED BY <2>1, <2>2
<1>10. ASSUME NEW m \in net, arrive_late(m) PROVE Kinds
  <2>1. m \in Message
    BY DEF TypeInv, TypeOK
  <2>2. Delivered(m)
    BY <1>10, <2>1 DEF arrive_late, Delivered, attemptVars
  <2> QED BY <2>1, <2>2
<1>11. ASSUME NEW s \in Sends, elapse(s) PROVE Kinds
  <2>1. RowsKept
    BY <1>11 DEF elapse, RowsKept, RowKept, TypeInv, TypeOK, Row
  <2> QED BY <1>0, <1>11, <2>1 DEF elapse, OriginStep, NetKept, AttemptKept, attemptVars
<1>12. ASSUME NEW s \in Sends, prune_outbox(s) PROVE Kinds
  <2>1. RowsKept
    BY <1>12 DEF prune_outbox, RowsKept, RowKept, TypeInv, TypeOK, NoRow, Settled, Finals, Accepted
  <2> QED BY <1>0, <1>12, <2>1 DEF prune_outbox, OriginStep, NetKept, AttemptKept, attemptVars
<1>13. ASSUME NEW n \in Seqs, prune_inbound(n) PROVE Kinds
  <2>1. \A k \in Seqs : inbound'[k] \in {inbound[k], NoRecord}
    BY <1>13 DEF prune_inbound, TypeInv, TypeOK
  <2> QED BY <1>0, <1>13, <2>1, SameRows DEF prune_inbound, OriginStep, NetKept, AttemptKept,
                                             attemptVars, originVars
<1>14. ASSUME NEW d \in DeviceLists \cup {NoDevices}, change_devices(d) PROVE Kinds
  BY <1>0, <1>14, SameRows DEF change_devices, OriginStep, NetKept, AttemptKept, attemptVars,
                               originVars
<1>15. CASE UNCHANGED vars
  BY <1>0, <1>15, SameRows DEF vars, OriginStep, NetKept, AttemptKept
<1> QED
  BY <1>1, <1>2, <1>3, <1>4, <1>5, <1>6, <1>7, <1>8, <1>9, <1>10, <1>11, <1>12, <1>13, <1>14,
     <1>15 DEF Next, Attempt

\* Without a gap it is of one of the three.
LEMMA StepKinds ==
    ASSUME TypeInv, NoGap, [Next]_vars
    PROVE  \/ \E p \in Clients, s \in Sends, id \in Seqs, r \in DeviceLists : Enqueued(p, s, id, r)
           \/ OriginStep
           \/ \E m \in Message : Delivered(m)
<1>1. ~ \E p \in Procs : replay_gap(p)
  BY DEF replay_gap, NoGap
<1> QED BY <1>1, StepOrReplay
-----------------------------------------------------------------------------
(* A row enters the queue.                                                 *)

\* What that leaves, field by field.
EnqueuedEffect(p, s, id, r) ==
    /\ nextSeq \in Seqs /\ nextSeq' = nextSeq + 1
    /\ outbox'[s].id = id /\ outbox'[s].seq = nextSeq /\ outbox'[s].req = r
    /\ outbox'[s].state = "pending"
    /\ \A t \in Sends : t # s => outbox'[t] = outbox[t]
    /\ issued'[nextSeq] = [send |-> s, id |-> id, seq |-> nextSeq, req |-> r]
    /\ \A n \in Seqs : n # nextSeq => issued'[n] = issued[n]
    /\ pc'[p] = "load" /\ cur'[p] = issued'[nextSeq]
    /\ \A q \in Procs : q # p => pc'[q] = pc[q] /\ cur'[q] = cur[q]
    /\ outcome'[p] = NoOutcome
    /\ \A c \in Clients : c # p => outcome'[c] = outcome[c]
    /\ got' = got /\ net' = net
    /\ last' = last /\ inbound' = inbound /\ mailbox' = mailbox /\ given' = given

\* A row that enters the queue has just that effect.
LEMMA EnqueuedFacts ==
    ASSUME TypeInv, NEW p \in Clients, NEW s \in Sends, NEW id \in Seqs, NEW r \in DeviceLists,
           Enqueued(p, s, id, r)
    PROVE  EnqueuedEffect(p, s, id, r)
<1>1. nextSeq \in Seqs /\ nextSeq' = nextSeq + 1
  BY ConstantsAssumption DEF Enqueued, next_sequence, TypeInv, TypeOK, Seqs
<1> QED
  BY <1>1 DEF EnqueuedEffect, Enqueued, next_sequence, TypeInv, TypeOK, RowMessage, Procs,
              destinationVars

\* A row's sequence was issued to it.
LEMMA RowFacts ==
    ASSUME TypeInv, IssueInv, NEW s \in Sends, outbox[s].state # "none"
    PROVE  /\ outbox[s].seq \in Seqs /\ outbox[s].seq < nextSeq
           /\ issued[outbox[s].seq].send = s
           /\ issued[outbox[s].seq].id = outbox[s].id
<1>1. outbox[s].seq \in Seqs
  BY DEF TypeInv, RowShape
<1>2. outbox[s].seq < nextSeq /\ issued[outbox[s].seq] = RowMessage(s, outbox[s])
  BY DEF IssueInv, RowsIssued
<1> QED BY <1>1, <1>2 DEF RowMessage

\* What is in the mailbox is a message.
LEMMA MailTyped ==
    ASSUME TypeInv, NEW i \in DOMAIN mailbox
    PROVE  mailbox[i] \in Message /\ mailbox[i].seq \in Seqs
<1>1. mailbox \in Seq(Message)
  BY DEF TypeInv, TypeOK
<1>2. mailbox[i] \in Message
  BY <1>1
<1> QED BY <1>2 DEF Message

\* Two rows never have the same id.
LEMMA RowsApart ==
    ASSUME TypeInv, IssueInv, NEW s \in Sends, NEW t \in Sends, outbox[s].state # "none",
           outbox[t].state # "none", outbox[s].id = outbox[t].id
    PROVE  s = t
<1>1. /\ outbox[s].seq \in Seqs /\ outbox[s].seq < nextSeq
      /\ issued[outbox[s].seq] = RowMessage(s, outbox[s])
      /\ outbox[t].seq \in Seqs /\ outbox[t].seq < nextSeq
      /\ issued[outbox[t].seq] = RowMessage(t, outbox[t])
  BY DEF TypeInv, RowShape, IssueInv, RowsIssued
<1>2. issued[outbox[s].seq].id = outbox[t].id /\ issued[outbox[t].seq].id = outbox[s].id
  BY <1>1 DEF RowMessage
<1>3. outbox[s].seq <= outbox[t].seq /\ outbox[t].seq <= outbox[s].seq
  BY <1>1, <1>2 DEF IssueInv, RowsLatest
<1>4. outbox[s].seq = outbox[t].seq
  BY <1>1, <1>3, ConstantsAssumption DEF Seqs
<1> QED BY <1>1, <1>4 DEF RowMessage

\* The new row gets a sequence nobody had; a corrected row's id moves on to it.
LEMMA IssueEnqueued ==
    ASSUME TypeInv, IssueInv, NEW p \in Clients, NEW s \in Sends, NEW id \in Seqs,
           NEW r \in DeviceLists, Enqueued(p, s, id, r)
    PROVE  IssueInv'
<1>e. EnqueuedEffect(p, s, id, r)
  BY EnqueuedFacts
<1> USE <1>e DEF EnqueuedEffect
<1>0. /\ \A n \in Seqs : n \in Nat
      /\ \A n \in Seqs : issued[n].id = id /\ n < nextSeq => outbox[s].id = id /\ outbox[s].state = "mismatch"
  <2>1. \A n \in Seqs : n \in Nat
    BY ConstantsAssumption DEF Seqs
  <2>2. ASSUME NEW n \in Seqs, issued[n].id = id, n < nextSeq PROVE id # nextSeq
    BY <2>1, <2>2 DEF IssueInv, IssuedOnce, Message
  <2> QED BY <2>1, <2>2 DEF Enqueued
<1>1. id <= nextSeq
  <2>1. CASE id = nextSeq
    BY <1>0, <2>1
  <2>2. CASE outbox[s].state = "mismatch" /\ id = outbox[s].id
    <3>1. /\ outbox[s].seq \in Seqs /\ outbox[s].seq < nextSeq
          /\ issued[outbox[s].seq].id = id
      BY <2>2, RowFacts
    <3>2. issued[outbox[s].seq].id <= outbox[s].seq
      BY <3>1 DEF IssueInv, IssuedOnce
    <3> QED BY <1>0, <3>1, <3>2
  <2> QED BY <2>1, <2>2 DEF Enqueued
<1>2. IssuedOnce'
  BY <1>0, <1>1 DEF IssueInv, IssuedOnce, Message
<1>3. RowsIssued'
  <2>1. outbox'[s].seq < nextSeq' /\ issued'[outbox'[s].seq] = RowMessage(s, outbox'[s])
    BY <1>0 DEF RowMessage
  <2>2. \A t \in Sends : t # s /\ outbox[t].state # "none" =>
            /\ outbox[t].seq < nextSeq'
            /\ issued'[outbox[t].seq] = RowMessage(t, outbox[t])
    BY <1>0 DEF IssueInv, RowsIssued, TypeInv, RowShape
  <2> QED BY <2>1, <2>2 DEF RowsIssued
<1>4. RowsLatest'
  <2> SUFFICES ASSUME NEW t \in Sends, NEW n \in Seqs, outbox'[t].state # "none", n < nextSeq',
                      issued'[n].id = outbox'[t].id
               PROVE  n <= outbox'[t].seq
    BY DEF RowsLatest
  <2>1. CASE t = s
    BY <1>0, <2>1
  <2>2. CASE t # s /\ n = nextSeq
    <3>1. outbox[t].id = id /\ outbox[t].state # "none" /\ outbox[t].seq \in Seqs
          /\ outbox[t].seq < nextSeq /\ issued[outbox[t].seq].id = id
      <4>1. outbox[t].id = id /\ outbox[t].state # "none"
        BY <2>2
      <4> QED BY <4>1, RowFacts
    <3>2. outbox[s].id = id /\ outbox[s].state # "none"
      BY <1>0, <3>1
    <3> QED BY <2>2, <3>1, <3>2, RowsApart
  <2>3. CASE t # s /\ n # nextSeq
    BY <1>0, <2>3 DEF IssueInv, RowsLatest
  <2> QED BY <2>1, <2>2, <2>3
<1>5. AttemptsIssued'
  <2>1. cur'[p].seq < nextSeq' /\ issued'[cur'[p].seq] = cur'[p]
    BY <1>0
  <2>2. \A q \in Procs : q # p /\ pc[q] # "idle" =>
            cur[q].seq < nextSeq' /\ issued'[cur[q].seq] = cur[q]
    BY <1>0 DEF IssueInv, AttemptsIssued, TypeInv, AttemptShape, Message
  <2> QED BY <2>1, <2>2 DEF AttemptsIssued
<1>6. NetIssued'
  <2>1. \A m \in net : m.seq \in Seqs
    BY DEF TypeInv, TypeOK, Message
  <2> QED BY <1>0, <2>1 DEF IssueInv, NetIssued
<1> QED BY <1>2, <1>3, <1>4, <1>5, <1>6 DEF IssueInv

\* The new sequence is beyond the answered prefix and held by its pending row; a
\* corrected row leaves a sequence answered with a mismatch.
LEMMA SafetyEnqueued ==
    ASSUME SafetyInv, NEW p \in Clients, NEW s \in Sends, NEW id \in Seqs,
           NEW r \in DeviceLists, Enqueued(p, s, id, r)
    PROVE  StreamInv' /\ AnswerInv' /\ MailInv' /\ ClientTruth'
<1>e. EnqueuedEffect(p, s, id, r)
  BY EnqueuedFacts DEF SafetyInv
<1> USE <1>e DEF EnqueuedEffect, SafetyInv
<1>0. /\ \A n \in Seqs : n \in Nat
      /\ nextSeq \in Nat /\ last \in Nat /\ last < nextSeq
      /\ outbox[s].state \in {"none", "mismatch"}
      /\ p \in Procs
  BY ConstantsAssumption DEF Seqs, TypeInv, TypeOK, StreamInv, PrefixAnswered, Enqueued, Procs
<1>1. StreamInv'
  <2>1. PrefixAnswered'
    BY <1>0 DEF StreamInv, PrefixAnswered
  <2>2. RecordsTrue'
    BY <1>0 DEF StreamInv, RecordsTrue
  <2>3. NothingLost'
    <3> SUFFICES ASSUME NEW n \in Seqs, last < n, n < nextSeq'
                 PROVE  \E t \in Sends : outbox'[t].state = "pending" /\ outbox'[t].seq = n
      BY DEF NothingLost
    <3>1. CASE n = nextSeq
      BY <3>1
    <3>2. CASE n # nextSeq
      <4>1. PICK t \in Sends : outbox[t].state = "pending" /\ outbox[t].seq = n
        BY <1>0, <3>2 DEF StreamInv, NothingLost
      <4> QED BY <1>0, <4>1
    <3> QED BY <3>1, <3>2
  <2>4. PostedNext'
    BY <1>0 DEF StreamInv, PostedNext
  <2> QED BY <2>1, <2>2, <2>3, <2>4 DEF StreamInv
<1>2. AnswerInv'
  <2>1. AnswersTrue'
    BY <1>0 DEF AnswerInv, AnswersTrue
  <2>2. AnswersAgree'
    BY <1>0 DEF AnswerInv, AnswersAgree, Finals, Accepted
  <2> QED BY <2>1, <2>2 DEF AnswerInv
<1>3. MailInv'
  <2>1. \A n \in Seqs : n <= last => issued'[n] = issued[n]
    BY <1>0
  <2>2. \A i \in DOMAIN mailbox : mailbox[i].seq \in Seqs
    BY MailTyped
  <2>3. MailTrue'
    BY <2>1, <2>2 DEF MailInv, MailTrue
  <2>4. \A n \in Seqs : given[n] = "stored" => n <= last
    BY DEF StreamInv, PrefixAnswered, Finals, Accepted
  <2>5. MailComplete'
    BY <2>1, <2>4 DEF MailInv, MailComplete
  <2>6. MovedOnMismatch'
    <3> SUFFICES ASSUME NEW n \in Seqs, NEW k \in Seqs, n < k, k < nextSeq',
                        issued'[n].id = issued'[k].id
                 PROVE  given[n] = "mismatch"
      BY DEF MovedOnMismatch
    <3>1. CASE k # nextSeq
      BY <1>0, <3>1 DEF MailInv, MovedOnMismatch
    <3>2. CASE k = nextSeq
      <4>1. issued[n].id = id /\ n < nextSeq /\ issued[n].id <= n
        BY <1>0, <3>2 DEF IssueInv, IssuedOnce
      <4>2. outbox[s].state = "mismatch" /\ outbox[s].id = id
        BY <1>0, <4>1 DEF Enqueued
      <4>3. outbox[s].seq \in Seqs /\ outbox[s].seq < nextSeq
            /\ issued[outbox[s].seq].id = id /\ n <= outbox[s].seq
        BY <4>1, <4>2, RowFacts DEF IssueInv, RowsLatest
      <4>4. CASE n = outbox[s].seq
        BY <4>2, <4>4 DEF AnswerInv, AnswersAgree, Finals
      <4>5. CASE n # outbox[s].seq
        <5>1. n < outbox[s].seq
          <6>1. n \in Nat /\ outbox[s].seq \in Nat
            BY <1>0, <4>3
          <6> QED BY <4>3, <4>5, <6>1
        <5> QED BY <4>1, <4>3, <5>1 DEF MailInv, MovedOnMismatch
      <4> QED BY <4>4, <4>5
    <3> QED BY <3>1, <3>2
  <2>7. InOrder'
    BY DEF MailInv, InOrder
  <2> QED BY <2>3, <2>5, <2>6, <2>7 DEF MailInv
<1>4. ClientTruth'
  <2>1. \A n \in Seqs : given[n] = "mismatch" => n <= last
    BY DEF StreamInv, PrefixAnswered, Finals
  <2>2. ASSUME NEW n \in Seqs, given[n] = "mismatch" PROVE issued'[n] = issued[n]
    <3>1. n <= last
      BY <2>1, <2>2
    <3>2. n \in Nat
      BY <1>0
    <3>3. n # nextSeq
      BY <1>0, <3>1, <3>2
    <3> QED BY <3>3
  <2>3. outcome'[p].what = "none"
    BY DEF NoOutcome
  <2> QED BY <2>2, <2>3 DEF ClientTruth
<1> QED BY <1>1, <1>2, <1>3, <1>4
-----------------------------------------------------------------------------
(* The origin works on its rows and attempts.                              *)

\* An attempt under way has a sequence.
LEMMA AttemptFacts ==
    ASSUME TypeInv, IssueInv, NEW p \in Procs, pc[p] # "idle"
    PROVE  /\ cur[p] \in Message /\ cur[p].seq \in Seqs /\ cur[p].send \in Sends
           /\ cur[p].seq < nextSeq /\ issued[cur[p].seq] = cur[p]
  BY DEF TypeInv, AttemptShape, Message, IssueInv, AttemptsIssued

\* Rows that keep their place and attempts that keep their message leave every
\* sequence with its message.
LEMMA IssueHeld ==
    ASSUME TypeInv, IssueInv, UNCHANGED <<nextSeq, issued>>,
           \A s \in Sends : outbox'[s].state # "none" =>
              /\ outbox[s].state # "none"
              /\ outbox'[s].id = outbox[s].id
              /\ outbox'[s].seq = outbox[s].seq
              /\ outbox'[s].req = outbox[s].req,
           \A p \in Procs : AttemptKept(p),
           NetKept
    PROVE  IssueInv'
<1>0. nextSeq' = nextSeq /\ issued' = issued
  OBVIOUS
<1>1. \A s \in Sends : outbox'[s].state # "none" =>
          /\ outbox[s].state # "none"
          /\ outbox'[s].id = outbox[s].id
          /\ outbox'[s].seq = outbox[s].seq
          /\ outbox'[s].req = outbox[s].req
  OBVIOUS
<1>2. IssuedOnce'
  BY <1>0 DEF IssueInv, IssuedOnce
<1>3. RowsIssued'
  BY <1>0, <1>1 DEF IssueInv, RowsIssued, RowMessage
<1>4. RowsLatest'
  BY <1>0, <1>1 DEF IssueInv, RowsLatest
<1>5. AttemptsIssued'
  <2> SUFFICES ASSUME NEW p \in Procs, pc'[p] # "idle"
               PROVE  cur'[p].seq < nextSeq /\ issued[cur'[p].seq] = cur'[p]
    BY <1>0 DEF AttemptsIssued
  <2>1. AttemptKept(p)
    OBVIOUS
  <2>2. CASE \E u \in Sends : outbox[u].state = "pending" /\ cur'[p] = RowMessage(u, outbox[u])
    <3>1. PICK u \in Sends : outbox[u].state = "pending" /\ cur'[p] = RowMessage(u, outbox[u])
      BY <2>2
    <3> QED BY <3>1 DEF IssueInv, RowsIssued, RowMessage
  <2>3. CASE pc[p] # "idle" /\ cur'[p] = cur[p]
    BY <2>3 DEF IssueInv, AttemptsIssued
  <2> QED BY <2>1, <2>2, <2>3 DEF AttemptKept
<1>6. NetIssued'
  <2>1. \A m \in net' : m \in net \/ \E p \in Procs : pc[p] = "head" /\ m = cur[p]
    BY DEF NetKept
  <2> QED BY <1>0, <2>1 DEF IssueInv, NetIssued, AttemptsIssued
<1> QED BY <1>2, <1>3, <1>4, <1>5, <1>6 DEF IssueInv

\* The origin's own steps do.
LEMMA IssueOrigin ==
    ASSUME TypeInv, IssueInv, OriginStep
    PROVE  IssueInv'
<1>1. \A s \in Sends : outbox'[s].state # "none" =>
          /\ outbox[s].state # "none"
          /\ outbox'[s].id = outbox[s].id
          /\ outbox'[s].seq = outbox[s].seq
          /\ outbox'[s].req = outbox[s].req
  BY DEF OriginStep, RowsKept, RowKept
<1>2. UNCHANGED <<nextSeq, issued>> /\ NetKept /\ \A p \in Procs : AttemptKept(p)
  BY DEF OriginStep
<1> QED BY <1>1, <1>2, IssueHeld

\* The head is the first sequence the destination has not answered, or one it
\* has: every sequence it has not answered is pending.
LEMMA HeadNext ==
    ASSUME TypeInv, IssueInv, NothingLost, NEW m \in Message, m.seq < nextSeq, IsHead(m)
    PROVE  m.seq <= last + 1
<1> SUFFICES ASSUME ~(m.seq <= last + 1) PROVE FALSE
  OBVIOUS
<1>1. m.seq \in Seqs /\ last \in Nat /\ nextSeq \in Nat /\ m.seq \in Nat
  BY ConstantsAssumption DEF Message, Seqs, TypeInv, TypeOK
<1>2. last + 1 \in Seqs /\ last < last + 1 /\ last + 1 < nextSeq /\ last + 1 < m.seq
  BY <1>1, ConstantsAssumption DEF Seqs
<1>3. PICK u \in Sends : outbox[u].state = "pending" /\ outbox[u].seq = last + 1
  BY <1>2 DEF NothingLost
<1>4. m.seq <= outbox[u].seq
  BY <1>3 DEF IsHead, plain_head
<1> QED BY <1>1, <1>2, <1>3, <1>4

\* The origin's own steps take a row off the queue only for the answer its
\* sequence got, and post only the first sequence not yet answered.
LEMMA SafetyOrigin ==
    ASSUME SafetyInv, OriginStep
    PROVE  StreamInv' /\ AnswerInv' /\ MailInv' /\ ClientTruth'
<1> USE DEF SafetyInv
<1>0. /\ nextSeq' = nextSeq /\ issued' = issued /\ last' = last /\ mailbox' = mailbox
      /\ given' = given
  BY DEF OriginStep
<1>1. \A n \in Seqs : n \in Nat
  BY ConstantsAssumption DEF Seqs
<1>2. StreamInv'
  <2>1. PrefixAnswered'
    BY <1>0 DEF StreamInv, PrefixAnswered
  <2>2. RecordsTrue'
    BY <1>0 DEF StreamInv, RecordsTrue, OriginStep
  <2>3. NothingLost'
    <3> SUFFICES ASSUME NEW n \in Seqs, last < n, n < nextSeq
                 PROVE  \E s \in Sends : outbox'[s].state = "pending" /\ outbox'[s].seq = n
      BY <1>0 DEF NothingLost
    <3>1. PICK s \in Sends : outbox[s].state = "pending" /\ outbox[s].seq = n
      BY DEF StreamInv, NothingLost
    <3>2. RowKept(s)
      BY <3>1 DEF OriginStep, RowsKept
    <3>3. ASSUME NEW p \in Procs, pc[p] = "answered", outbox[s].seq = cur[p].seq PROVE FALSE
      <4>1. n <= last
        BY <3>1, <3>3 DEF AnswerInv, AnswersTrue
      <4> QED BY <1>1, <4>1 DEF TypeInv, TypeOK
    <3> QED BY <3>1, <3>2, <3>3 DEF RowKept
  <2>4. PostedNext'
    <3>1. ASSUME NEW m \in net' PROVE m.seq <= last + 1
      <4>1. CASE m \in net
        BY <4>1 DEF StreamInv, PostedNext
      <4>2. CASE m \notin net
        <5>1. PICK p \in Procs : pc[p] = "head" /\ m = cur[p] /\ IsHead(m)
          BY <4>2 DEF OriginStep, NetKept
        <5> QED BY <5>1, AttemptFacts, HeadNext DEF StreamInv
      <4> QED BY <4>1, <4>2
    <3>2. ASSUME NEW p \in Procs, pc'[p] \in {"sent", "answered"} PROVE cur'[p].seq <= last + 1
      <4>1. AttemptKept(p)
        BY DEF OriginStep
      <4>2. CASE pc'[p] = pc[p] /\ cur'[p] = cur[p]
        BY <3>2, <4>2 DEF StreamInv, PostedNext
      <4>3. CASE pc[p] = "head" /\ cur'[p] = cur[p] /\ IsHead(cur[p])
        BY <4>3, AttemptFacts, HeadNext DEF StreamInv
      <4> QED BY <3>2, <4>1, <4>2, <4>3 DEF AttemptKept
    <3> QED BY <1>0, <3>1, <3>2 DEF PostedNext
  <2> QED BY <2>1, <2>2, <2>3, <2>4 DEF StreamInv
<1>3. AnswerInv'
  <2>1. AnswersTrue'
    <3> SUFFICES ASSUME NEW p \in Procs, pc'[p] = "answered"
                 PROVE  /\ cur'[p].seq <= last
                        /\ got'[p].seq = cur'[p].seq
                        /\ got'[p].kind = "gone" \/ got'[p].kind = given[cur'[p].seq]
      BY <1>0 DEF AnswersTrue
    <3>1. pc[p] = "answered" /\ cur'[p] = cur[p] /\ got'[p] = got[p]
      BY DEF OriginStep, AttemptKept
    <3> QED BY <3>1 DEF AnswerInv, AnswersTrue
  <2>2. AnswersAgree'
    <3> SUFFICES ASSUME NEW s \in Sends
                 PROVE  /\ outbox'[s].state \in Finals => given[outbox'[s].seq] = outbox'[s].state
                        /\ outbox'[s].state = "gone" => outbox'[s].seq <= last
      BY <1>0 DEF AnswersAgree
    <3>1. CASE outbox'[s].state = "none"
      BY <3>1 DEF Finals, Accepted
    <3>2. CASE RowKept(s) /\ outbox'[s].state = outbox[s].state
      BY <3>2 DEF RowKept, AnswerInv, AnswersAgree
    <3>3. CASE RowKept(s) /\ outbox'[s].state # outbox[s].state
      <4>1. PICK p \in Procs : /\ pc[p] = "answered"
                               /\ outbox'[s].seq = cur[p].seq
                               /\ outbox'[s].state = got[p].kind
        BY <3>3 DEF RowKept
      <4>2. /\ cur[p].seq <= last
            /\ got[p].kind = "gone" \/ got[p].kind = given[cur[p].seq]
        BY <4>1 DEF AnswerInv, AnswersTrue
      <4> QED BY <4>1, <4>2 DEF Finals, Accepted
    <3> QED BY <3>1, <3>2, <3>3 DEF OriginStep, RowsKept
  <2> QED BY <2>1, <2>2 DEF AnswerInv
<1>4. MailInv'
  BY <1>0 DEF MailInv, MailTrue, MailComplete, InOrder, MovedOnMismatch
<1>5. ClientTruth'
  <2> SUFFICES ASSUME NEW c \in Clients
               PROVE  /\ outcome'[c].what = "delivered" =>
                            \E i \in DOMAIN mailbox : mailbox[i].send = outcome'[c].send
                      /\ outcome'[c].what = "mismatch" =>
                            \E n \in Seqs : issued[n].send = outcome'[c].send
                                            /\ given[n] = "mismatch"
    BY <1>0 DEF ClientTruth
  <2>1. CASE outcome'[c] = outcome[c]
    BY <2>1 DEF ClientTruth
  <2>2. CASE outcome'[c].what \notin {"delivered", "mismatch"}
    BY <2>2
  <2>3. ASSUME NEW s \in Sends, NEW k \in {"stored", "mismatch"},
               outcome'[c].send = s, outcome'[c].what = OutcomeOf(k),
               \/ outbox[s].state = k
               \/ \E p \in Procs : pc[p] = "answered" /\ cur[p].send = s /\ got[p].kind = k
        PROVE  \E n \in Seqs : issued[n].send = s /\ given[n] = k
    <3>1. CASE outbox[s].state = k
      <4>1. /\ outbox[s].seq \in Seqs
            /\ issued[outbox[s].seq].send = s
        BY <3>1, RowFacts
      <4>2. given[outbox[s].seq] = k
        BY <3>1 DEF AnswerInv, AnswersAgree, Finals, Accepted
      <4> QED BY <4>1, <4>2
    <3>2. CASE \E p \in Procs : pc[p] = "answered" /\ cur[p].send = s /\ got[p].kind = k
      <4>1. PICK p \in Procs : pc[p] = "answered" /\ cur[p].send = s /\ got[p].kind = k
        BY <3>2
      <4>2. cur[p].seq \in Seqs /\ issued[cur[p].seq] = cur[p]
        BY <4>1, AttemptFacts
      <4>3. given[cur[p].seq] = k
        BY <4>1 DEF AnswerInv, AnswersTrue
      <4> QED BY <4>1, <4>2, <4>3
    <3> QED BY <2>3, <3>1, <3>2
  <2>4. ASSUME NEW s \in Sends, outcome'[c].send = s,
               \E n \in Seqs : issued[n].send = s /\ given[n] = "stored"
        PROVE  \E i \in DOMAIN mailbox : mailbox[i].send = outcome'[c].send
    <3>1. PICK n \in Seqs : issued[n].send = s /\ given[n] = "stored"
      BY <2>4
    <3>2. PICK i \in DOMAIN mailbox : mailbox[i] = issued[n]
      BY <3>1 DEF MailInv, MailComplete
    <3> QED BY <2>4, <3>1, <3>2
  <2>5. OutcomeOf("stored") = "delivered" /\ OutcomeOf("mismatch") = "mismatch"
    BY DEF OutcomeOf
  <2>6. ToldFrom(c)
    BY DEF OriginStep
  <2> QED BY <2>1, <2>2, <2>3, <2>4, <2>5, <2>6 DEF ToldFrom
<1> QED BY <1>2, <1>3, <1>4, <1>5
-----------------------------------------------------------------------------
(* The destination takes a transaction.                                    *)

\* A transaction that arrives was issued to its sequence.
LEMMA MessageIssued ==
    ASSUME TypeInv, IssueInv, NEW m \in Message, Delivered(m)
    PROVE  m.seq \in Seqs /\ m.seq < nextSeq /\ issued[m.seq] = m
<1>1. CASE m \in net
  BY <1>1 DEF IssueInv, NetIssued, Message
<1>2. CASE \E p \in Procs : pc[p] = "sent" /\ cur[p] = m
  BY <1>2, AttemptFacts
<1> QED BY <1>1, <1>2 DEF Delivered

\* And is at most the next one.
LEMMA DeliveredIssued ==
    ASSUME SafetyInv, NEW m \in Message, Delivered(m)
    PROVE  /\ m.seq \in Seqs /\ m.seq < nextSeq /\ issued[m.seq] = m
           /\ m.seq <= last + 1
<1>1. m \in net \/ \E p \in Procs : pc[p] = "sent" /\ cur[p] = m
  BY DEF Delivered
<1>2. m.seq <= last + 1
  BY <1>1 DEF SafetyInv, StreamInv, PostedNext
<1> QED BY <1>2, MessageIssued DEF SafetyInv

\* The destination leaves its stream alone, or takes the next sequence.
Taken(m, k) ==
    /\ m.seq = last + 1 /\ last' = m.seq
    /\ given'[m.seq] = k
    /\ \A n \in Seqs : n # m.seq => given'[n] = given[n]
    /\ inbound'[m.seq] = [id |-> m.id, kind |-> k]
    /\ \A n \in Seqs : n # m.seq => inbound'[n] = inbound[n]
    /\ mailbox' = IF k = "stored" THEN Append(mailbox, m) ELSE mailbox

\* A transaction that is not the next changes nothing; the next one is taken
\* with the recipient's decision.
LEMMA DeliveredTakes ==
    ASSUME TypeInv, NEW m \in Message, Delivered(m)
    PROVE  \/ m.seq # last + 1 /\ UNCHANGED destinationVars
           \/ Taken(m, Decision(m))
<1>1. CASE m.seq # last + 1
  BY <1>1 DEF Delivered, deliver_messages
<1>2. CASE m.seq = last + 1
  <2>1. m.seq \in Seqs
    BY DEF Message
  <2> QED BY <1>2, <2>1 DEF Delivered, deliver_messages, record, Taken, TypeInv, TypeOK
<1> QED BY <1>1, <1>2

\* Without a gap, one that is not the next was answered before.
LEMMA DeliveredFacts ==
    ASSUME SafetyInv, NEW m \in Message, Delivered(m)
    PROVE  \/ m.seq <= last /\ UNCHANGED destinationVars
           \/ Taken(m, Decision(m))
<1>1. m.seq \in Seqs /\ m.seq <= last + 1 /\ m.seq \in Nat /\ last \in Nat
  BY DeliveredIssued, ConstantsAssumption DEF SafetyInv, TypeInv, TypeOK, Seqs
<1>2. CASE m.seq # last + 1
  BY <1>1, <1>2, DeliveredTakes DEF SafetyInv, Taken
<1>3. CASE Taken(m, Decision(m))
  BY <1>3
<1> QED BY <1>2, <1>3, DeliveredTakes DEF SafetyInv

\* A transaction taken extends the answered prefix, and its record is true.
LEMMA PrefixTaken ==
    ASSUME TypeInv, PrefixAnswered, RecordsTrue, NEW m \in Message, NEW k \in Finals,
           m.seq < nextSeq, issued[m.seq] = m, UNCHANGED <<nextSeq, issued>>, Taken(m, k)
    PROVE  PrefixAnswered' /\ RecordsTrue'
<1>1. /\ m.seq \in Seqs /\ last \in Nat /\ nextSeq \in Nat /\ \A n \in Seqs : n \in Nat
      /\ last' = last + 1 /\ m.seq = last + 1 /\ given'[m.seq] \in Finals
  BY ConstantsAssumption DEF TypeInv, TypeOK, Seqs, Message, Taken
<1>2. PrefixAnswered'
  <2>1. ASSUME NEW n \in Seqs PROVE n <= last' <=> given'[n] \in Finals
    <3>1. CASE n = m.seq
      BY <1>1, <3>1
    <3>2. CASE n # m.seq
      <4>1. given'[n] = given[n] /\ (n <= last <=> given[n] \in Finals)
        BY <3>2 DEF Taken, PrefixAnswered
      <4>2. n <= last' <=> n <= last
        BY <1>1, <3>2
      <4> QED BY <4>1, <4>2
    <3> QED BY <3>1, <3>2
  <2> QED BY <1>1, <2>1 DEF PrefixAnswered
<1>3. RecordsTrue'
  <2> SUFFICES ASSUME NEW n \in Seqs, inbound'[n] # NoRecord
               PROVE  n <= last' /\ inbound'[n].id = issued[n].id /\ inbound'[n].kind = given'[n]
    BY DEF RecordsTrue
  <2>1. CASE n = m.seq
    BY <1>1, <2>1 DEF Taken
  <2>2. CASE n # m.seq
    <3>1. inbound'[n] = inbound[n] /\ given'[n] = given[n]
      BY <2>2 DEF Taken
    <3>2. n <= last /\ inbound[n].id = issued[n].id /\ inbound[n].kind = given[n]
      BY <3>1 DEF RecordsTrue
    <3> QED BY <1>1, <3>1, <3>2
  <2> QED BY <2>1, <2>2
<1> QED BY <1>2, <1>3

\* A transaction taken and stored is the last in the mailbox.
LEMMA MailTaken ==
    ASSUME TypeInv, MailTrue, InOrder, NEW m \in Message, NEW k,
           issued[m.seq] = m, UNCHANGED issued, Taken(m, k)
    PROVE  MailTrue' /\ InOrder'
<1>1. /\ m.seq \in Seqs /\ m.seq \in Nat /\ last \in Nat /\ m.seq = last + 1 /\ last' = last + 1
      /\ \A n \in Seqs : n \in Nat
  BY ConstantsAssumption DEF TypeInv, TypeOK, Seqs, Message, Taken
<1>2. /\ mailbox \in Seq(Message)
      /\ \A i \in DOMAIN mailbox : /\ mailbox[i].seq \in Seqs
                                   /\ mailbox[i].seq <= last
                                   /\ mailbox[i] = issued[mailbox[i].seq]
                                   /\ given[mailbox[i].seq] = "stored"
  BY MailTyped DEF MailTrue, TypeInv, TypeOK
<1>3. \A n \in Seqs : n # m.seq => given'[n] = given[n]
  BY DEF Taken
<1>4. \A i \in DOMAIN mailbox : mailbox[i].seq <= last' /\ given'[mailbox[i].seq] = "stored"
  <2> SUFFICES ASSUME NEW i \in DOMAIN mailbox
               PROVE  mailbox[i].seq <= last' /\ given'[mailbox[i].seq] = "stored"
    OBVIOUS
  <2>1. mailbox[i].seq # m.seq /\ mailbox[i].seq <= last'
    BY <1>1, <1>2
  <2> QED BY <1>2, <1>3, <2>1
<1>5. CASE k # "stored"
  <2>1. mailbox' = mailbox
    BY <1>5 DEF Taken
  <2>2. MailTrue'
    BY <1>2, <1>4, <2>1 DEF MailTrue
  <2> QED BY <2>1, <2>2 DEF InOrder
<1>6. CASE k = "stored"
  <2>1. mailbox' = Append(mailbox, m) /\ given'[m.seq] = "stored"
    BY <1>6 DEF Taken
  <2>2. /\ Len(mailbox) \in Nat /\ DOMAIN mailbox = 1 .. Len(mailbox)
        /\ DOMAIN mailbox' = 1 .. Len(mailbox) + 1
        /\ \A i \in DOMAIN mailbox : mailbox'[i] = mailbox[i]
        /\ mailbox'[Len(mailbox) + 1] = m
    BY <1>2, <2>1
  <2>3. \A i \in DOMAIN mailbox' : i \in DOMAIN mailbox \/ (i = Len(mailbox) + 1 /\ mailbox'[i] = m)
    BY <2>2
  <2>4. MailTrue'
    BY <1>1, <1>2, <1>4, <2>1, <2>2, <2>3 DEF MailTrue
  <2>5. InOrder'
    <3> SUFFICES ASSUME NEW i \in DOMAIN mailbox', NEW j \in DOMAIN mailbox', i < j
                 PROVE  mailbox'[i].seq < mailbox'[j].seq
      BY DEF InOrder
    <3>1. i \in DOMAIN mailbox
      BY <2>2
    <3>2. CASE j \in DOMAIN mailbox
      BY <2>2, <3>1, <3>2 DEF InOrder
    <3>3. CASE mailbox'[j] = m
      BY <1>1, <1>2, <2>2, <3>1, <3>3
    <3> QED BY <2>3, <3>2, <3>3
  <2> QED BY <2>4, <2>5
<1> QED BY <1>5, <1>6

\* Rows, sequences and requests stay; an attempt only gets its answer.
LEMMA IssueDelivered ==
    ASSUME TypeInv, IssueInv, NEW m \in Message, Delivered(m)
    PROVE  IssueInv'
<1>1. UNCHANGED <<nextSeq, outbox, issued, cur, net>>
  BY DEF Delivered, originVars
<1>2. \A p \in Procs : pc'[p] # "idle" => pc[p] # "idle"
  BY DEF Delivered
<1>3. AttemptsIssued'
  BY <1>1, <1>2 DEF IssueInv, AttemptsIssued
<1> QED BY <1>1, <1>3 DEF IssueInv, IssuedOnce, RowsIssued, RowsLatest, NetIssued, RowMessage

\* The answer to a transaction is the one its sequence was given, now or
\* before, or that its record is gone.
LEMMA DeliveredAnswer ==
    ASSUME SafetyInv, NEW m \in Message, Delivered(m)
    PROVE  /\ m.seq <= last'
           /\ AnswerTo(m).seq = m.seq
           /\ AnswerTo(m).kind = "gone" \/ AnswerTo(m).kind = given'[m.seq]
<1>1. /\ m.seq \in Seqs /\ m.seq \in Nat /\ last \in Nat /\ issued[m.seq] = m
  BY DeliveredIssued, ConstantsAssumption DEF SafetyInv, TypeInv, TypeOK, Seqs
<1>2. CASE m.seq <= last /\ UNCHANGED destinationVars
  <2>1. inbound[m.seq] # NoRecord => inbound[m.seq].id = m.id /\ inbound[m.seq].kind = given[m.seq]
    BY <1>1 DEF SafetyInv, StreamInv, RecordsTrue
  <2>2. AnswerTo(m) = prior(m)
    BY <1>2 DEF AnswerTo
  <2>3. CASE inbound[m.seq] = NoRecord
    BY <1>2, <2>2, <2>3 DEF prior, Reply, destinationVars
  <2>4. CASE inbound[m.seq] # NoRecord
    BY <1>2, <2>1, <2>2, <2>4 DEF prior, Reply, destinationVars
  <2> QED BY <2>3, <2>4
<1>3. CASE Taken(m, Decision(m))
  <2>1. ~(m.seq <= last) /\ m.seq = last + 1
    BY <1>1, <1>3 DEF Taken
  <2>2. AnswerTo(m) = Reply(Decision(m), m.seq)
    BY <2>1 DEF AnswerTo
  <2> QED BY <1>1, <1>3, <2>2 DEF Taken, Reply
<1> QED BY <1>2, <1>3, DeliveredFacts

\* The prefix of answered sequences grows by one at most, truthfully.
LEMMA StreamDelivered ==
    ASSUME SafetyInv, NEW m \in Message, Delivered(m)
    PROVE  StreamInv'
<1> USE DEF SafetyInv
<1>1. /\ m.seq \in Seqs /\ m.seq < nextSeq /\ issued[m.seq] = m
      /\ last \in Nat /\ nextSeq \in Nat /\ \A n \in Seqs : n \in Nat
  BY DeliveredIssued, ConstantsAssumption DEF TypeInv, TypeOK, Seqs
<1>2. UNCHANGED <<nextSeq, outbox, issued, cur, net>>
  BY DEF Delivered, originVars
<1>3. \A p \in Procs : pc'[p] \in {"sent", "answered"} => pc[p] \in {"sent", "answered"}
  BY DEF Delivered
<1>4. CASE UNCHANGED destinationVars
  BY <1>2, <1>3, <1>4 DEF StreamInv, PrefixAnswered, RecordsTrue, NothingLost, PostedNext,
                         destinationVars
<1>5. CASE Taken(m, Decision(m))
  <2>1. last' = last + 1 /\ m.seq = last + 1 /\ given'[m.seq] \in Finals
    BY <1>5, DecisionFinal DEF Taken
  <2>2. PrefixAnswered' /\ RecordsTrue'
    BY <1>1, <1>2, <1>5, DecisionFinal, PrefixTaken DEF StreamInv
  <2>3. NothingLost'
    <3> SUFFICES ASSUME NEW n \in Seqs, last' < n, n < nextSeq
                 PROVE  \E s \in Sends : outbox[s].state = "pending" /\ outbox[s].seq = n
      BY <1>2 DEF NothingLost
    <3>1. last < n
      BY <1>1, <2>1
    <3> QED BY <3>1 DEF StreamInv, NothingLost
  <2>4. PostedNext'
    <3>1. \A q \in net : q.seq \in Nat /\ q.seq <= last + 1
      BY <1>1 DEF StreamInv, PostedNext, TypeInv, TypeOK, Message
    <3>2. \A p \in Procs : pc[p] \in {"sent", "answered"} => cur[p].seq \in Nat /\ cur[p].seq <= last + 1
      BY <1>1, AttemptFacts DEF StreamInv, PostedNext
    <3> QED BY <1>1, <1>2, <1>3, <2>1, <3>1, <3>2 DEF PostedNext
  <2> QED BY <2>2, <2>3, <2>4 DEF StreamInv
<1> QED BY <1>4, <1>5, DeliveredFacts

\* An answer already given stays, and the new one goes to the waiting attempt.
LEMMA AnswerDelivered ==
    ASSUME SafetyInv, NEW m \in Message, Delivered(m)
    PROVE  AnswerInv'
<1> USE DEF SafetyInv
<1>1. UNCHANGED <<nextSeq, outbox, issued, cur, net>>
  BY DEF Delivered, originVars
<1>2. /\ last \in Nat /\ last' \in Nat /\ last <= last'
      /\ \A n \in Seqs : n \in Nat /\ (n <= last => given'[n] = given[n])
  <2>1. last \in Nat /\ m.seq \in Nat /\ \A n \in Seqs : n \in Nat
    BY DeliveredIssued, ConstantsAssumption DEF TypeInv, TypeOK, Seqs
  <2>2. CASE UNCHANGED destinationVars
    BY <2>1, <2>2 DEF destinationVars
  <2>3. CASE Taken(m, Decision(m))
    BY <2>1, <2>3 DEF Taken
  <2> QED BY <2>2, <2>3, DeliveredFacts
<1>3. AnswersTrue'
  <2> SUFFICES ASSUME NEW p \in Procs, pc'[p] = "answered"
               PROVE  /\ cur[p].seq <= last'
                      /\ got'[p].seq = cur[p].seq
                      /\ got'[p].kind = "gone" \/ got'[p].kind = given'[cur[p].seq]
    BY <1>1 DEF AnswersTrue
  <2>1. CASE pc[p] = "answered" /\ got'[p] = got[p]
    <3>1. cur[p].seq \in Seqs
      BY <2>1, AttemptFacts
    <3>2. /\ cur[p].seq <= last /\ got[p].seq = cur[p].seq
          /\ got[p].kind = "gone" \/ got[p].kind = given[cur[p].seq]
      BY <2>1 DEF AnswerInv, AnswersTrue
    <3> QED BY <1>2, <2>1, <3>1, <3>2
  <2>2. CASE cur[p] = m /\ got'[p] = AnswerTo(m)
    BY <2>2, DeliveredAnswer
  <2> QED BY <2>1, <2>2 DEF Delivered
<1>4. AnswersAgree'
  <2> SUFFICES ASSUME NEW s \in Sends
               PROVE  /\ outbox[s].state \in Finals => given'[outbox[s].seq] = outbox[s].state
                      /\ outbox[s].state = "gone" => outbox[s].seq <= last'
    BY <1>1 DEF AnswersAgree
  <2>1. outbox[s].state \in Settled => outbox[s].seq \in Seqs
    BY RowFacts DEF Settled, Finals, Accepted
  <2>2. ASSUME outbox[s].state \in Finals PROVE given'[outbox[s].seq] = outbox[s].state
    <3>1. given[outbox[s].seq] = outbox[s].state /\ outbox[s].seq \in Seqs
      BY <2>1, <2>2 DEF AnswerInv, AnswersAgree, Settled
    <3>2. outbox[s].seq <= last
      BY <2>2, <3>1 DEF StreamInv, PrefixAnswered
    <3> QED BY <1>2, <3>1, <3>2
  <2>3. ASSUME outbox[s].state = "gone" PROVE outbox[s].seq <= last'
    <3>1. outbox[s].seq \in Seqs /\ outbox[s].seq <= last
      BY <2>1, <2>3 DEF AnswerInv, AnswersAgree, Settled
    <3> QED BY <1>2, <3>1
  <2> QED BY <2>2, <2>3
<1> QED BY <1>3, <1>4 DEF AnswerInv

\* The mailbox grows by the sequence just taken, if it was stored.
LEMMA MailDelivered ==
    ASSUME SafetyInv, NEW m \in Message, Delivered(m)
    PROVE  MailInv'
<1> USE DEF SafetyInv
<1>1. UNCHANGED <<nextSeq, outbox, issued, cur, net>>
  BY DEF Delivered, originVars
<1>2. CASE UNCHANGED destinationVars
  BY <1>1, <1>2 DEF MailInv, MailTrue, MailComplete, InOrder, MovedOnMismatch, destinationVars
<1>3. CASE Taken(m, Decision(m))
  <2>1. /\ m.seq \in Seqs /\ m.seq \in Nat /\ issued[m.seq] = m /\ last \in Nat
        /\ m.seq = last + 1 /\ last' = last + 1
        /\ \A n \in Seqs : n \in Nat
    BY <1>3, DeliveredIssued, ConstantsAssumption DEF TypeInv, TypeOK, Seqs, Taken
  <2>2. \A n \in Seqs : n # m.seq => given'[n] = given[n]
    BY <1>3 DEF Taken
  <2>3. ~(given[m.seq] \in Finals)
    BY <2>1 DEF StreamInv, PrefixAnswered
  <2>4. MailTrue' /\ InOrder'
    BY <1>1, <1>3, <2>1, MailTaken DEF MailInv
  <2>5. MovedOnMismatch'
    <3> SUFFICES ASSUME NEW n \in Seqs, NEW k \in Seqs, n < k, k < nextSeq,
                        issued[n].id = issued[k].id
                 PROVE  given'[n] = "mismatch"
      BY <1>1 DEF MovedOnMismatch
    <3>1. given[n] = "mismatch"
      BY DEF MailInv, MovedOnMismatch
    <3> QED BY <2>2, <2>3, <3>1 DEF Finals
  <2>6. MailComplete'
    <3> SUFFICES ASSUME NEW n \in Seqs, given'[n] = "stored"
                 PROVE  \E i \in DOMAIN mailbox' : mailbox'[i] = issued[n]
      BY <1>1 DEF MailComplete
    <3>1. mailbox \in Seq(Message)
      BY DEF TypeInv, TypeOK
    <3>2. CASE n = m.seq
      <4>1. mailbox' = Append(mailbox, m)
        BY <1>3, <3>2 DEF Taken
      <4>2. Len(mailbox) + 1 \in DOMAIN mailbox' /\ mailbox'[Len(mailbox) + 1] = m
        BY <3>1, <4>1
      <4> QED BY <2>1, <3>2, <4>2
    <3>3. CASE n # m.seq
      <4>1. PICK i \in DOMAIN mailbox : mailbox[i] = issued[n]
        BY <2>2, <3>3 DEF MailInv, MailComplete
      <4>2. i \in DOMAIN mailbox' /\ mailbox'[i] = mailbox[i]
        BY <1>3, <3>1 DEF Taken
      <4> QED BY <4>1, <4>2
    <3> QED BY <3>2, <3>3
  <2> QED BY <2>4, <2>5, <2>6 DEF MailInv
<1> QED BY <1>2, <1>3, DeliveredFacts

\* What a client was told stays true: answers and the mailbox only grow.
LEMMA TruthDelivered ==
    ASSUME SafetyInv, NEW m \in Message, Delivered(m)
    PROVE  ClientTruth'
<1> USE DEF SafetyInv
<1>1. UNCHANGED <<issued, outcome>>
  BY DEF Delivered, originVars
<1>2. CASE UNCHANGED destinationVars
  BY <1>1, <1>2 DEF ClientTruth, destinationVars
<1>3. CASE Taken(m, Decision(m))
  <2>1. m.seq \in Seqs /\ ~(given[m.seq] \in Finals)
    <3>1. m.seq \in Seqs /\ m.seq = last + 1 /\ last \in Nat
      BY <1>3, DeliveredIssued DEF Taken, TypeInv, TypeOK
    <3> QED BY <3>1 DEF StreamInv, PrefixAnswered
  <2>2. \A n \in Seqs : given[n] = "mismatch" => given'[n] = "mismatch"
    BY <1>3, <2>1 DEF Taken, Finals
  <2>3. \A i \in DOMAIN mailbox : i \in DOMAIN mailbox' /\ mailbox'[i] = mailbox[i]
    <3>1. mailbox \in Seq(Message)
      BY DEF TypeInv, TypeOK
    <3> QED BY <1>3, <3>1 DEF Taken
  <2> SUFFICES ASSUME NEW c \in Clients
               PROVE  /\ outcome[c].what = "delivered" =>
                            \E i \in DOMAIN mailbox' : mailbox'[i].send = outcome[c].send
                      /\ outcome[c].what = "mismatch" =>
                            \E n \in Seqs : issued[n].send = outcome[c].send
                                            /\ given'[n] = "mismatch"
    BY <1>1 DEF ClientTruth
  <2>4. ASSUME outcome[c].what = "delivered"
        PROVE  \E i \in DOMAIN mailbox' : mailbox'[i].send = outcome[c].send
    <3>1. PICK i \in DOMAIN mailbox : mailbox[i].send = outcome[c].send
      BY <2>4 DEF ClientTruth
    <3> QED BY <2>3, <3>1
  <2>5. ASSUME outcome[c].what = "mismatch"
        PROVE  \E n \in Seqs : issued[n].send = outcome[c].send /\ given'[n] = "mismatch"
    BY <2>2, <2>5 DEF ClientTruth
  <2> QED BY <2>4, <2>5
<1> QED BY <1>2, <1>3, DeliveredFacts
-----------------------------------------------------------------------------
(* The theorems.                                                           *)

\* The invariant rules a gap out: an answer on its way is one that was given.
LEMMA SafetyNoGap ==
    ASSUME SafetyInv
    PROVE  NoGap
<1> SUFFICES ASSUME NEW p \in Procs, got[p].kind = "gap" PROVE FALSE
  BY DEF NoGap
<1>1. pc[p] = "answered"
  BY DEF SafetyInv, TypeInv, AttemptShape, NoAnswer
<1>2. cur[p].seq \in Seqs /\ cur[p].seq <= last /\ given[cur[p].seq] = "gap"
  BY <1>1, AttemptFacts DEF SafetyInv, AnswerInv, AnswersTrue
<1>3. given[cur[p].seq] \in Finals
  BY <1>2 DEF SafetyInv, StreamInv, PrefixAnswered
<1> QED BY <1>2, <1>3 DEF Finals, Accepted

\* The invariant keeps a row's send from being stored twice.
LEMMA SafetyStoredOnce ==
    ASSUME SafetyInv
    PROVE  StoredOnce
<1> SUFFICES ASSUME NEW i \in DOMAIN mailbox, NEW j \in DOMAIN mailbox,
                    mailbox[i].id = mailbox[j].id, i < j
             PROVE  FALSE
  <2>1. mailbox \in Seq(Message)
    BY DEF SafetyInv, TypeInv, TypeOK
  <2>2. \A i \in DOMAIN mailbox : i \in Nat
    BY <2>1
  <2> QED BY <2>2 DEF StoredOnce
<1>1. /\ mailbox[i].seq \in Seqs /\ mailbox[j].seq \in Seqs
      /\ mailbox[i].seq < mailbox[j].seq
  BY MailTyped DEF SafetyInv, MailInv, InOrder
<1>2. /\ issued[mailbox[i].seq].id = issued[mailbox[j].seq].id
      /\ mailbox[j].seq <= last
      /\ given[mailbox[i].seq] = "stored"
  BY DEF SafetyInv, MailInv, MailTrue
<1>3. mailbox[j].seq < nextSeq
  <2>1. last < nextSeq /\ last \in Nat /\ nextSeq \in Nat /\ mailbox[j].seq \in Nat
    BY <1>1, ConstantsAssumption DEF SafetyInv, TypeInv, TypeOK, StreamInv, PrefixAnswered, Seqs
  <2> QED BY <1>2, <2>1
<1> QED BY <1>1, <1>2, <1>3 DEF SafetyInv, MailInv, MovedOnMismatch

\* The invariant holds at the start.
LEMMA SafetyInit == Init => SafetyInv
<1> SUFFICES ASSUME Init PROVE SafetyInv
  OBVIOUS
<1> USE DEF Init
<1>0. /\ \A n \in Seqs : n \in Nat /\ ~(n <= 0) /\ ~(n < 1)
      /\ mailbox = <<>> /\ DOMAIN mailbox = {}
  BY ConstantsAssumption DEF Seqs
<1>1. TypeInv
  BY ConstantsAssumption DEF TypeInv, TypeOK, RowShape, AttemptShape, NoRow, Row, Procs
<1>2. IssueInv
  BY <1>0 DEF IssueInv, IssuedOnce, RowsIssued, RowsLatest, AttemptsIssued, NetIssued, NoRow
<1>3. StreamInv
  BY <1>0 DEF StreamInv, PrefixAnswered, RecordsTrue, NothingLost, PostedNext, Finals, Accepted
<1>4. AnswerInv
  BY DEF AnswerInv, AnswersTrue, AnswersAgree, NoRow, Finals, Accepted
<1>5. MailInv
  BY <1>0 DEF MailInv, MailTrue, MailComplete, InOrder, MovedOnMismatch
<1>6. ClientTruth
  BY DEF ClientTruth, NoOutcome
<1> QED BY <1>1, <1>2, <1>3, <1>4, <1>5, <1>6 DEF SafetyInv

\* Every step keeps the invariant.
LEMMA SafetyStep == SafetyInv /\ [Next]_vars => SafetyInv'
<1> SUFFICES ASSUME SafetyInv, [Next]_vars PROVE SafetyInv'
  OBVIOUS
<1>1. TypeInv' /\ TypeInv /\ IssueInv
  BY TypeStep DEF SafetyInv
<1>2. ASSUME NEW p \in Clients, NEW s \in Sends, NEW id \in Seqs, NEW r \in DeviceLists,
             Enqueued(p, s, id, r)
      PROVE  SafetyInv'
  BY <1>1, <1>2, IssueEnqueued, SafetyEnqueued DEF SafetyInv
<1>3. CASE OriginStep
  BY <1>1, <1>3, IssueOrigin, SafetyOrigin DEF SafetyInv
<1>4. ASSUME NEW m \in Message, Delivered(m) PROVE SafetyInv'
  BY <1>1, <1>4, IssueDelivered, StreamDelivered, AnswerDelivered, MailDelivered, TruthDelivered
     DEF SafetyInv
<1> QED BY <1>1, <1>2, <1>3, <1>4, StepKinds, SafetyNoGap

\* The inductive invariant holds throughout.
THEOREM Safety == Spec => []SafetyInv
  BY SafetyInit, SafetyStep, PTL DEF Spec

\* For every instance: no send is lost, because settle and requeue_plain take a
\* row off a sequence only once the destination's answer used it up.
THEOREM OutboxLosesNothing == Spec => []NothingLost
<1>1. SafetyInv => NothingLost
  BY DEF SafetyInv, StreamInv
<1> QED BY <1>1, Safety, PTL

\* For every instance: no attempt is ever answered with a sequence gap
\* (attempt_outbox posts only the head, deliver_messages uses sequences up).
THEOREM OutboxMeetsNoGap == Spec => []NoGap
<1>1. SafetyInv => NoGap
  BY SafetyNoGap
<1> QED BY <1>1, Safety, PTL

\* For every instance: deliver_messages fills the mailbox in the order of the
\* sequences.
THEOREM OutboxKeepsOrder == Spec => []InOrder
<1>1. SafetyInv => InOrder
  BY DEF SafetyInv, MailInv
<1> QED BY <1>1, Safety, PTL

\* For every instance: retries, duplicates, corrections and pruned records put a
\* row's send into the mailbox at most once.
THEOREM OutboxStoresOnce == Spec => []StoredOnce
<1>1. SafetyInv => StoredOnce
  BY SafetyStoredOnce
<1> QED BY <1>1, Safety, PTL

\* For every instance: settle leaves in a row the answer its own sequence got.
THEOREM OutboxAnswersAgree == Spec => []AnswersAgree
<1>1. SafetyInv => AnswersAgree
  BY DEF SafetyInv, AnswerInv
<1> QED BY <1>1, Safety, PTL

\* For every instance: what enqueue_send and attempt_outbox tell a client of a
\* delivery or a mismatch is what the destination did.
THEOREM OutboxTellsTruth == Spec => []ClientTruth
<1>1. SafetyInv => ClientTruth
  BY DEF SafetyInv
<1> QED BY <1>1, Safety, PTL

\* A step moves a settled row only to correct a mismatch or to prune it.
LEMMA SettledStep ==
    ASSUME SafetyInv, [Next]_vars, NEW s \in Sends, outbox[s].state \in Settled
    PROVE  \/ outbox'[s] = outbox[s]
           \/ outbox'[s] = NoRow
           \/ outbox[s].state = "mismatch" /\ outbox'[s].seq = nextSeq
<1> DEFINE Stays == \/ outbox'[s] = outbox[s]
                    \/ outbox'[s] = NoRow
                    \/ outbox[s].state = "mismatch" /\ outbox'[s].seq = nextSeq
<1>0. outbox \in [Sends -> Row] /\ outbox[s].state # "pending" /\ outbox[s].state # "none"
  BY DEF SafetyInv, TypeInv, TypeOK, Settled, Finals, Accepted
<1>1. ASSUME NEW p \in Clients, enqueue_send(p) PROVE Stays
  <2>1. CASE UNCHANGED outbox
    BY <2>1
  <2>2. ASSUME NEW t \in Sends, NEW r \in DeviceLists, enqueue_new(p, t, r) PROVE Stays
    BY <1>0, <2>2 DEF enqueue_new, next_sequence
  <2>3. ASSUME NEW t \in Sends, NEW r \in DeviceLists, requeue_plain(p, t, r) PROVE Stays
    BY <1>0, <2>3 DEF requeue_plain, next_sequence
  <2> QED BY <1>1, <2>1, <2>2, <2>3 DEF enqueue_send, enqueue_again, enqueue_answered, originVars
<1>2. ASSUME NEW p \in Procs, park_for_upgrade(p) \/ transport_error(p) PROVE Stays
  BY <1>0, <1>2 DEF park_for_upgrade, transport_error, wait, StillAt
<1>3. ASSUME NEW p \in Procs, settle_answer(p) PROVE Stays
  BY <1>0, <1>3 DEF settle_answer, settle, StillAt
<1>4. ASSUME NEW p \in Procs, replay_gap(p) PROVE Stays
  BY <1>4, SafetyNoGap DEF replay_gap, NoGap
<1>5. ASSUME NEW t \in Sends, elapse(t) \/ prune_outbox(t) PROVE Stays
  BY <1>0, <1>5 DEF elapse, prune_outbox
<1>6. CASE UNCHANGED outbox
  BY <1>6
<1> QED
  BY <1>1, <1>2, <1>3, <1>4, <1>5, <1>6
     DEF Next, Attempt, vars, originVars, flush_due, load_outbox, post_head, leave_behind_head,
         cancel, arrive, arrive_late, prune_inbound, change_devices

\* For every instance: no late answer, retry or replay moves a settled row; only
\* requeue_plain, under a sequence never used before, and prune do.
THEOREM OutboxSettledStays == Spec => SettledStays
<1>1. SafetyInv /\ [Next]_vars =>
          [\A s \in Sends : outbox[s].state \in Settled =>
              \/ outbox'[s] = outbox[s]
              \/ outbox'[s] = NoRow
              \/ outbox[s].state = "mismatch" /\ outbox'[s].seq = nextSeq]_vars
  BY SettledStep
<1> QED BY <1>1, Safety, PTL DEF Spec, SettledStays
-----------------------------------------------------------------------------
(***************************************************************************)
(* The refinement.  A sequence is at one row at most, so that what the     *)
(* origin holds about it is that row's state, and every step is one of the *)
(* abstract stream's or changes nothing that the stream tells apart.       *)
(***************************************************************************)

\* A send without a row has no sequence.
NoRowNoSeq == \A s \in Sends : outbox[s].state = "none" => outbox[s].seq = 0

\* What the origin holds about each sequence, by its rows.
KnownOf(rows) ==
    [n \in Seqs |->
        IF \E s \in Sends : rows[s].seq = n
        THEN rows[CHOOSE s \in Sends : rows[s].seq = n].state
        ELSE "closed"]

\* A sequence is one row's.
Apart(rows) ==
    \A s, t \in Sends : rows[s].seq \in Seqs /\ rows[s].seq = rows[t].seq => s = t

\* About a row's own sequence the origin holds the row's state.
LEMMA KnownAt ==
    ASSUME NEW rows, Apart(rows), NEW s \in Sends, rows[s].seq \in Seqs
    PROVE  KnownOf(rows)[rows[s].seq] = rows[s].state
<1> DEFINE t == CHOOSE u \in Sends : rows[u].seq = rows[s].seq
<1>1. t \in Sends /\ rows[t].seq = rows[s].seq
  OBVIOUS
<1>2. t = s
  BY <1>1 DEF Apart
<1> QED BY <1>2 DEF KnownOf

\* About a sequence no row is at it holds nothing.
LEMMA KnownNone ==
    ASSUME NEW rows, NEW n \in Seqs, \A s \in Sends : rows[s].seq # n
    PROVE  KnownOf(rows)[n] = "closed"
  BY DEF KnownOf

\* The rows' sequences and states are all that counts.
LEMMA KnownSame ==
    ASSUME NEW rows, NEW now, Apart(rows),
           \A s \in Sends : now[s].seq = rows[s].seq /\ now[s].state = rows[s].state
    PROVE  KnownOf(now) = KnownOf(rows)
<1>1. Apart(now)
  BY DEF Apart
<1>2. ASSUME NEW n \in Seqs PROVE KnownOf(now)[n] = KnownOf(rows)[n]
  <2>1. CASE \A s \in Sends : rows[s].seq # n
    BY <2>1, KnownNone
  <2>2. ASSUME NEW s \in Sends, rows[s].seq = n PROVE KnownOf(now)[n] = KnownOf(rows)[n]
    BY <1>1, <2>2, KnownAt
  <2> QED BY <2>1, <2>2
<1>3. /\ KnownOf(now) = [n \in Seqs |-> KnownOf(now)[n]]
      /\ KnownOf(rows) = [n \in Seqs |-> KnownOf(rows)[n]]
  BY DEF KnownOf
<1> QED BY <1>2, <1>3

\* A row leaves its sequence, and is at one nobody else has.
LEMMA KnownMoved ==
    ASSUME NEW rows, NEW now, Apart(rows), NEW s \in Sends, now[s].seq \in Seqs,
           \A t \in Sends : t # s => now[t] = rows[t] /\ rows[t].seq # now[s].seq
    PROVE  KnownOf(now) = [[KnownOf(rows) EXCEPT ![rows[s].seq] = "closed"]
                                          EXCEPT ![now[s].seq] = now[s].state]
<1> DEFINE k == [[KnownOf(rows) EXCEPT ![rows[s].seq] = "closed"]
                                EXCEPT ![now[s].seq] = now[s].state]
<1>1. Apart(now)
  BY DEF Apart
<1>2. DOMAIN KnownOf(rows) = Seqs /\ DOMAIN KnownOf(now) = Seqs
  BY DEF KnownOf
<1>3. ASSUME NEW n \in Seqs PROVE KnownOf(now)[n] = k[n]
  <2>1. CASE n = now[s].seq
    <3>1. KnownOf(now)[n] = now[s].state
      BY <1>1, <2>1, KnownAt
    <3> QED BY <1>2, <2>1, <3>1
  <2>2. CASE n # now[s].seq /\ n = rows[s].seq
    <3>1. \A t \in Sends : now[t].seq # n
      BY <2>2 DEF Apart
    <3>2. KnownOf(now)[n] = "closed"
      BY <3>1, KnownNone
    <3> QED BY <1>2, <2>2, <3>2
  <2>3. CASE n # now[s].seq /\ n # rows[s].seq
    <3>1. k[n] = KnownOf(rows)[n]
      BY <1>2, <2>3
    <3>2. CASE \A t \in Sends : now[t].seq # n
      <4>1. \A t \in Sends : rows[t].seq # n
        BY <2>3, <3>2
      <4>2. KnownOf(now)[n] = "closed" /\ KnownOf(rows)[n] = "closed"
        BY <3>2, <4>1, KnownNone
      <4> QED BY <3>1, <4>2
    <3>3. ASSUME NEW t \in Sends, now[t].seq = n PROVE KnownOf(now)[n] = KnownOf(rows)[n]
      <4>1. t # s /\ now[t] = rows[t]
        BY <2>3, <3>3
      <4> QED BY <1>1, <3>3, <4>1, KnownAt
    <3> QED BY <3>1, <3>2, <3>3
  <2> QED BY <2>1, <2>2, <2>3
<1>4. DOMAIN k = Seqs
  BY <1>2
<1>5. k = [n \in Seqs |-> k[n]] /\ KnownOf(now) = [n \in Seqs |-> KnownOf(now)[n]]
  BY <1>4 DEF KnownOf
<1> QED BY <1>3, <1>5

\* A row that goes leaves its sequence with nothing held about it.
LEMMA KnownGone ==
    ASSUME NEW rows, NEW now, Apart(rows), NEW s \in Sends, now[s].seq \notin Seqs,
           \A t \in Sends : t # s => now[t] = rows[t]
    PROVE  KnownOf(now) = [KnownOf(rows) EXCEPT ![rows[s].seq] = "closed"]
<1> DEFINE k == [KnownOf(rows) EXCEPT ![rows[s].seq] = "closed"]
<1>1. Apart(now)
  BY DEF Apart
<1>2. DOMAIN KnownOf(rows) = Seqs /\ DOMAIN k = Seqs
  BY DEF KnownOf
<1>3. ASSUME NEW n \in Seqs PROVE KnownOf(now)[n] = k[n]
  <2>1. CASE n = rows[s].seq
    <3>1. \A t \in Sends : now[t].seq # n
      BY <2>1 DEF Apart
    <3>2. KnownOf(now)[n] = "closed"
      BY <3>1, KnownNone
    <3> QED BY <1>2, <2>1, <3>2
  <2>2. CASE n # rows[s].seq /\ \A t \in Sends : now[t].seq # n
    <3>1. \A t \in Sends : rows[t].seq # n
      BY <2>2
    <3>2. KnownOf(now)[n] = "closed" /\ KnownOf(rows)[n] = "closed"
      BY <2>2, <3>1, KnownNone
    <3> QED BY <1>2, <2>2, <3>2
  <2>3. ASSUME n # rows[s].seq, NEW t \in Sends, now[t].seq = n PROVE KnownOf(now)[n] = k[n]
    <3>1. t # s /\ now[t] = rows[t]
      BY <2>3
    <3>2. KnownOf(now)[n] = KnownOf(rows)[n]
      BY <1>1, <2>3, <3>1, KnownAt
    <3> QED BY <1>2, <2>3, <3>2
  <2> QED BY <2>1, <2>2, <2>3
<1>4. k = [n \in Seqs |-> k[n]] /\ KnownOf(now) = [n \in Seqs |-> KnownOf(now)[n]]
  BY <1>2 DEF KnownOf
<1> QED BY <1>3, <1>4

\* Known is what the rows hold, before a step and after it.
LEMMA KnownRows == Known = KnownOf(outbox) /\ Known' = KnownOf(outbox')
  BY DEF Known, KnownOf

\* No two rows are at one sequence.
LEMMA SequencesApart ==
    ASSUME SafetyInv, NoRowNoSeq
    PROVE  Apart(outbox)
<1> SUFFICES ASSUME NEW s \in Sends, NEW t \in Sends, outbox[s].seq \in Seqs,
                    outbox[s].seq = outbox[t].seq
             PROVE  s = t
  BY DEF Apart
<1>1. outbox[s].state # "none" /\ outbox[t].state # "none"
  BY ConstantsAssumption DEF NoRowNoSeq, Seqs
<1>2. issued[outbox[s].seq].send = s /\ issued[outbox[t].seq].send = t
  BY <1>1, RowFacts DEF SafetyInv
<1> QED BY <1>2

StreamStands == UNCHANGED <<nextSeq, issued, last, mailbox, given>>

\* Nothing that the abstract stream tells apart.
Stands ==
    /\ \A s \in Sends : outbox'[s].seq = outbox[s].seq /\ outbox'[s].state = outbox[s].state
    /\ StreamStands

\* A row learns what its sequence was given, or that it was given something.
Learns ==
    /\ \E s \in Sends :
          /\ outbox[s].state = "pending"
          /\ outbox[s].seq \in Seqs
          /\ outbox[s].seq <= last
          /\ outbox'[s].seq = outbox[s].seq
          /\ outbox'[s].state \in {given[outbox[s].seq], "gone"}
          /\ \A t \in Sends : t # s => outbox'[t] = outbox[t]
    /\ StreamStands

\* A settled row is pruned.
Forgets ==
    /\ \E s \in Sends : outbox[s].state \in Settled /\ outbox' = [outbox EXCEPT ![s] = NoRow]
    /\ StreamStands

\* Every step enters a row, lets the destination take a transaction, teaches or
\* prunes one row, or leaves the stream as it is.
LEMMA StreamKinds ==
    ASSUME SafetyInv, [Next]_vars
    PROVE  \/ \E p \in Clients, s \in Sends, id \in Seqs, r \in DeviceLists : Enqueued(p, s, id, r)
           \/ \E m \in Message : Delivered(m)
           \/ Stands \/ Learns \/ Forgets
<1> DEFINE Enters == \E p \in Clients, s \in Sends, id \in Seqs, r \in DeviceLists :
                        Enqueued(p, s, id, r)
           Takes == \E m \in Message : Delivered(m)
           Origin == Stands \/ Learns \/ Forgets
<1> USE DEF destinationVars
<1>0. TypeInv /\ NoGap /\ outbox \in [Sends -> Row]
  BY SafetyNoGap DEF SafetyInv, TypeInv, TypeOK
<1>1. ASSUME UNCHANGED <<originVars, last, mailbox, given>> PROVE Origin
  BY <1>1 DEF originVars, Stands, StreamStands
<1>2. ASSUME NEW p \in Clients, enqueue_send(p)
      PROVE  Origin \/ Enters
  <2>1. PICK s \in Sends, r \in DeviceLists :
            \/ enqueue_new(p, s, r)
            \/ requeue_plain(p, s, r)
            \/ enqueue_again(p, s, r)
            \/ enqueue_answered(p, s, r)
    BY <1>2 DEF enqueue_send
  <2>2. pc[p] = "idle" /\ UNCHANGED <<net, devices, destinationVars>>
    BY <1>2 DEF enqueue_send
  <2>3. CASE enqueue_new(p, s, r)
    <3>1. nextSeq \in Seqs
      BY <1>0, <2>3, ConstantsAssumption DEF enqueue_new, next_sequence, TypeInv, TypeOK, Seqs
    <3>2. Enqueued(p, s, nextSeq, r)
      BY <2>2, <2>3 DEF enqueue_new, Enqueued
    <3> QED BY <3>1, <3>2
  <2>4. CASE requeue_plain(p, s, r)
    <3>1. outbox[s].id \in Seqs
      BY <1>0, <2>4 DEF requeue_plain, TypeInv, RowShape
    <3>2. Enqueued(p, s, outbox[s].id, r)
      BY <2>2, <2>4 DEF requeue_plain, Enqueued
    <3> QED BY <3>1, <3>2
  <2>5. CASE enqueue_again(p, s, r) \/ enqueue_answered(p, s, r)
    BY <1>1, <2>2, <2>5 DEF enqueue_again, enqueue_answered
  <2> QED BY <2>1, <2>3, <2>4, <2>5
<1>3. ASSUME NEW p \in Procs, park_for_upgrade(p) \/ transport_error(p) PROVE Origin
  <2>1. cur[p] \in Message /\ outbox' = wait(outbox, cur[p]) /\ StreamStands
    BY <1>0, <1>3 DEF park_for_upgrade, transport_error, TypeInv, AttemptShape, StreamStands
  <2> QED BY <1>0, <2>1, WaitRows DEF Stands
<1>4. ASSUME NEW p \in Procs, settle_answer(p) PROVE Origin
  <2>1. /\ pc[p] = "answered" /\ got[p].kind \in Settled
        /\ outbox' = settle(outbox, cur[p], got[p].kind)
        /\ StreamStands
    BY <1>4 DEF settle_answer, StreamStands
  <2>2. /\ cur[p] \in Message /\ cur[p].send \in Sends /\ cur[p].seq \in Seqs
        /\ cur[p].seq <= last
        /\ got[p].kind \in {given[cur[p].seq], "gone"}
    BY <2>1, AttemptFacts DEF SafetyInv, AnswerInv, AnswersTrue
  <2>3. CASE StillAt(outbox, cur[p])
    <3> DEFINE s == cur[p].send
    <3>1. outbox' = [outbox EXCEPT ![s].state = got[p].kind]
      BY <2>1, <2>3 DEF settle
    <3>2. outbox[s].state = "pending" /\ outbox[s].seq = cur[p].seq
      BY <2>3 DEF StillAt
    <3>3. /\ outbox'[s].seq = outbox[s].seq /\ outbox'[s].state = got[p].kind
          /\ \A t \in Sends : t # s => outbox'[t] = outbox[t]
      BY <1>0, <2>2, <3>1 DEF Row
    <3> HIDE DEF s
    <3>4. s \in Sends
      BY <2>2 DEF s
    <3> QED BY <2>1, <2>2, <3>2, <3>3, <3>4 DEF Learns
  <2>4. CASE ~ StillAt(outbox, cur[p])
    BY <2>1, <2>4 DEF settle, Stands
  <2> QED BY <2>3, <2>4
<1>5. ASSUME NEW p \in Procs, replay_gap(p) PROVE Origin
  BY <1>0, <1>5 DEF replay_gap, NoGap
<1>6. ASSUME NEW p \in Procs, arrive(p) PROVE Takes
  <2>1. cur[p] \in Message /\ pc[p] = "sent"
    BY <1>0, <1>6 DEF arrive, TypeInv, AttemptShape
  <2>2. Delivered(cur[p])
    BY <1>0, <1>6, <2>1 DEF arrive, Delivered, TypeInv, TypeOK
  <2> QED BY <2>1, <2>2
<1>7. ASSUME NEW m \in net, arrive_late(m) PROVE Takes
  <2>1. m \in Message
    BY <1>0 DEF TypeInv, TypeOK
  <2>2. Delivered(m)
    BY <1>7, <2>1 DEF arrive_late, Delivered, attemptVars
  <2> QED BY <2>1, <2>2
<1>8. ASSUME NEW s \in Sends, elapse(s) PROVE Origin
  <2>1. \A t \in Sends : outbox'[t].seq = outbox[t].seq /\ outbox'[t].state = outbox[t].state
    BY <1>0, <1>8 DEF elapse, Row
  <2> QED BY <1>8, <2>1 DEF elapse, Stands, StreamStands
<1>9. ASSUME NEW s \in Sends, prune_outbox(s) PROVE Origin
  BY <1>9 DEF prune_outbox, Forgets, StreamStands
<1>10. ASSUME NEW p \in Procs,
              load_outbox(p) \/ post_head(p) \/ leave_behind_head(p) \/ cancel(p)
       PROVE  Origin
  BY <1>1, <1>10 DEF load_outbox, post_head, leave_behind_head, cancel
<1>11. ASSUME NEW p \in Workers, flush_due(p) PROVE Origin
  BY <1>1, <1>11 DEF flush_due
<1>12. ASSUME NEW n \in Seqs, prune_inbound(n) PROVE Origin
  BY <1>1, <1>12 DEF prune_inbound
<1>13. ASSUME NEW d \in DeviceLists \cup {NoDevices}, change_devices(d) PROVE Origin
  BY <1>1, <1>13 DEF change_devices
<1>14. ASSUME UNCHANGED vars PROVE Origin
  BY <1>1, <1>14 DEF vars, originVars
<1> HIDE DEF Enters, Takes, Origin
<1>15. ASSUME NEW p \in Procs, Attempt(p) PROVE Origin
  BY <1>3, <1>4, <1>5, <1>10, <1>15 DEF Attempt
<1>16. Next => Enters \/ Takes \/ Origin
  BY <1>2, <1>6, <1>7, <1>8, <1>9, <1>11, <1>12, <1>13, <1>15 DEF Next
<1>17. Enters \/ Takes \/ Origin
  BY <1>14, <1>16
<1> QED BY <1>17 DEF Enters, Takes, Origin

\* A row entering the queue is a new entry of the stream, or the correction of
\* one its row holds as a mismatch.
LEMMA EnqueuedGoes ==
    ASSUME SafetyInv, NoRowNoSeq, NEW p \in Clients, NEW s \in Sends, NEW id \in Seqs,
           NEW r \in DeviceLists, Enqueued(p, s, id, r)
    PROVE  Stream!StreamNext
<1> DEFINE e == [send |-> s, id |-> id, seq |-> nextSeq, req |-> r]
<1> USE DEF SafetyInv
<1>1. /\ nextSeq \in Seqs /\ nextSeq \in Nat /\ nextSeq' = nextSeq + 1
      /\ outbox'[s].seq = nextSeq /\ outbox'[s].state = "pending"
      /\ \A t \in Sends : t # s => outbox'[t] = outbox[t]
      /\ last' = last /\ mailbox' = mailbox /\ given' = given
  <2>1. EnqueuedEffect(p, s, id, r)
    BY EnqueuedFacts
  <2>2. nextSeq \in Seqs => nextSeq \in Nat
    BY ConstantsAssumption DEF Seqs
  <2> QED BY <2>1, <2>2 DEF EnqueuedEffect
<1>2. issued' = [issued EXCEPT ![nextSeq] = e]
  BY DEF Enqueued, next_sequence, RowMessage
<1>3. e \in Message /\ e.id = id
  BY <1>1 DEF Message
<1>4. \A t \in Sends : outbox[t].seq # nextSeq
  <2> SUFFICES ASSUME NEW t \in Sends PROVE outbox[t].seq # nextSeq
    OBVIOUS
  <2>1. CASE outbox[t].state = "none"
    BY <2>1 DEF NoRowNoSeq, TypeInv, TypeOK
  <2>2. CASE outbox[t].state # "none"
    <3>1. outbox[t].seq < nextSeq
      BY <2>2, RowFacts
    <3> QED BY <1>1, <3>1
  <2> QED BY <2>1, <2>2
<1>5. Apart(outbox)
  BY SequencesApart
<1>6. KnownOf(outbox') = [[KnownOf(outbox) EXCEPT ![outbox[s].seq] = "closed"]
                                           EXCEPT ![nextSeq] = "pending"]
  BY <1>1, <1>4, <1>5, KnownMoved
<1> HIDE DEF e
<1>7. CASE outbox[s].state = "none" /\ id = nextSeq
  <2>1. outbox[s].seq \notin Seqs
    BY <1>7 DEF NoRowNoSeq, Seqs
  <2>2. DOMAIN KnownOf(outbox) = Seqs
    BY DEF KnownOf
  <2>3. [KnownOf(outbox) EXCEPT ![outbox[s].seq] = "closed"] = KnownOf(outbox)
    BY <2>1, <2>2 DEF KnownOf
  <2>4. Known' = [Known EXCEPT ![nextSeq] = "pending"]
    BY <1>6, <2>3, KnownRows
  <2>5. \A n \in Seqs : n < nextSeq => issued[n].id # e.id
    <3> SUFFICES ASSUME NEW n \in Seqs, n < nextSeq PROVE issued[n].id # e.id
      OBVIOUS
    <3>1. issued[n] \in Message /\ issued[n].id <= n
      BY DEF IssueInv, IssuedOnce
    <3>2. issued[n].id \in Nat /\ n \in Nat
      BY <3>1 DEF Message, Seqs
    <3> QED BY <1>1, <1>3, <1>7, <3>1, <3>2
  <2>6. Stream!Issue(e)
    BY <1>1, <1>2, <2>4, <2>5 DEF Stream!Issue, Stream!Put, Stream!Positions, Seqs, MessageId
  <2> QED BY <1>3, <2>6 DEF Stream!StreamNext
<1>8. CASE outbox[s].state = "mismatch" /\ id = outbox[s].id
  <2> DEFINE n == outbox[s].seq
  <2>1. n \in Seqs /\ issued[n].id = id
    BY <1>8, RowFacts
  <2>2. Known[n] = "mismatch"
    BY <1>5, <1>8, <2>1, KnownAt, KnownRows
  <2>3. Known' = [[Known EXCEPT ![n] = "closed"] EXCEPT ![nextSeq] = "pending"]
    BY <1>6, KnownRows
  <2> HIDE DEF n
  <2>4. Stream!Correct(n, e)
    BY <1>1, <1>2, <1>3, <2>1, <2>2, <2>3
       DEF Stream!Correct, Stream!Put, Stream!Positions, Seqs, MessageId
  <2> QED BY <1>3, <2>1, <2>4 DEF Stream!StreamNext, Stream!Positions, Seqs
<1> QED BY <1>7, <1>8 DEF Enqueued

\* A transaction the destination takes gives its sequence its one answer.
LEMMA DeliveredGoes ==
    ASSUME SafetyInv, NoRowNoSeq, NEW m \in Message, Delivered(m)
    PROVE  [Stream!StreamNext]_(Stream!streamVars)
<1> USE DEF SafetyInv
<1>1. UNCHANGED <<nextSeq, outbox, issued>>
  BY DEF Delivered, originVars
<1>2. Known' = Known
  BY <1>1 DEF Known
<1>3. CASE UNCHANGED destinationVars
  BY <1>1, <1>2, <1>3 DEF destinationVars, Stream!streamVars
<1>4. CASE Taken(m, Decision(m))
  <2>1. /\ m.seq = last + 1 /\ last' = last + 1 /\ last + 1 < nextSeq /\ issued[last + 1] = m
        /\ mailbox' = IF Decision(m) = "stored" THEN Append(mailbox, issued[last + 1])
                                                ELSE mailbox
    BY <1>4, DeliveredIssued DEF Taken
  <2>2. m.seq # last
    BY <2>1 DEF TypeInv, TypeOK
  <2>3. given' = [given EXCEPT ![last + 1] = Decision(m)]
    BY <2>1, <2>2 DEF Delivered, deliver_messages, record, destinationVars
  <2>4. Decision(m) \in Finals
    BY DecisionFinal
  <2>5. Stream!Give(Decision(m))
    BY <1>1, <1>2, <2>1, <2>3 DEF Stream!Give
  <2> QED BY <2>4, <2>5 DEF Stream!StreamNext
<1> QED BY <1>3, <1>4, DeliveredFacts

\* A row that learns or is pruned is the stream's Learn or Forget; the rest
\* stutters.
LEMMA OriginGoes ==
    ASSUME SafetyInv, NoRowNoSeq, Stands \/ Learns \/ Forgets
    PROVE  [Stream!StreamNext]_(Stream!streamVars)
<1> USE DEF SafetyInv
<1>0. StreamStands /\ Apart(outbox) /\ DOMAIN KnownOf(outbox) = Seqs
  BY SequencesApart DEF Stands, Learns, Forgets, KnownOf
<1>1. CASE Stands
  <2>1. Known' = Known
    BY <1>0, <1>1, KnownSame, KnownRows DEF Stands
  <2> QED BY <1>0, <2>1 DEF StreamStands, Stream!streamVars
<1>2. CASE Learns
  <2>1. PICK s \in Sends :
            /\ outbox[s].state = "pending"
            /\ outbox[s].seq \in Seqs
            /\ outbox[s].seq <= last
            /\ outbox'[s].seq = outbox[s].seq
            /\ outbox'[s].state \in {given[outbox[s].seq], "gone"}
            /\ \A t \in Sends : t # s => outbox'[t] = outbox[t]
    BY <1>2 DEF Learns
  <2> DEFINE n == outbox[s].seq
             k == outbox'[s].state
  <2>2. \A t \in Sends : t # s => outbox[t].seq # n
    BY <1>0, <2>1 DEF Apart
  <2>3. KnownOf(outbox') = [[KnownOf(outbox) EXCEPT ![n] = "closed"] EXCEPT ![n] = k]
    BY <1>0, <2>1, <2>2, KnownMoved
  <2>4. Known' = [Known EXCEPT ![n] = k]
    BY <1>0, <2>3, KnownRows
  <2>5. Known[n] = "pending"
    BY <1>0, <2>1, KnownAt, KnownRows
  <2>6. n \in Seqs /\ n <= last /\ k \in {given[n], "gone"}
    BY <2>1
  <2> HIDE DEF n, k
  <2>7. Stream!Learn(n)
    BY <1>0, <2>4, <2>5, <2>6 DEF Stream!Learn, StreamStands
  <2> QED BY <2>6, <2>7 DEF Stream!StreamNext, Stream!Positions, Seqs
<1>3. CASE Forgets
  <2>1. PICK s \in Sends : outbox[s].state \in Settled /\ outbox' = [outbox EXCEPT ![s] = NoRow]
    BY <1>3 DEF Forgets
  <2> DEFINE n == outbox[s].seq
  <2>2. outbox[s].state \notin {"pending", "closed", "none"} /\ n \in Seqs
    BY <2>1, RowFacts DEF Settled, Finals, Accepted
  <2>3. outbox'[s].seq \notin Seqs /\ \A t \in Sends : t # s => outbox'[t] = outbox[t]
    BY <2>1 DEF TypeInv, TypeOK, NoRow, Seqs
  <2>4. Known[n] \notin {"pending", "closed"}
    BY <1>0, <2>2, KnownAt, KnownRows
  <2>5. Known' = [Known EXCEPT ![n] = "closed"]
    BY <1>0, <2>2, <2>3, KnownRows, KnownGone
  <2> HIDE DEF n
  <2>6. Stream!Forget(n)
    BY <1>0, <2>4, <2>5 DEF Stream!Forget, StreamStands
  <2> QED BY <2>2, <2>6 DEF Stream!StreamNext, Stream!Positions, Seqs
<1> QED BY <1>1, <1>2, <1>3

\* A send without a row has no sequence: a row starts and is pruned as NoRow.
LEMMA NoRowStep ==
    ASSUME SafetyInv, NoRowNoSeq, [Next]_vars
    PROVE  NoRowNoSeq'
<1> USE DEF SafetyInv
<1>1. ASSUME NEW p \in Clients, NEW s \in Sends, NEW id \in Seqs, NEW r \in DeviceLists,
             Enqueued(p, s, id, r)
      PROVE  NoRowNoSeq'
  <2>1. EnqueuedEffect(p, s, id, r)
    BY <1>1, EnqueuedFacts
  <2> QED BY <2>1 DEF EnqueuedEffect, NoRowNoSeq
<1>2. ASSUME NEW m \in Message, Delivered(m) PROVE NoRowNoSeq'
  BY <1>2 DEF Delivered, originVars, NoRowNoSeq
<1>3. CASE Stands
  BY <1>3 DEF Stands, NoRowNoSeq
<1>4. CASE Learns
  <2>1. PICK s \in Sends :
            /\ outbox[s].seq \in Seqs
            /\ outbox[s].seq <= last
            /\ outbox'[s].state \in {given[outbox[s].seq], "gone"}
            /\ \A t \in Sends : t # s => outbox'[t] = outbox[t]
    BY <1>4 DEF Learns
  <2>2. given[outbox[s].seq] \in Finals
    BY <2>1 DEF StreamInv, PrefixAnswered
  <2>3. outbox'[s].state # "none"
    BY <2>1, <2>2 DEF Finals, Accepted
  <2> QED BY <2>1, <2>3 DEF NoRowNoSeq
<1>5. CASE Forgets
  BY <1>5 DEF Forgets, NoRowNoSeq, NoRow, TypeInv, TypeOK
<1> QED BY <1>1, <1>2, <1>3, <1>4, <1>5, StreamKinds

\* For every instance: rows, concurrent attempts, an unreliable network,
\* retries, corrections and retention on both servers implement the abstract
\* stream in which each sequence is answered once (federation_outbox,
\* attempt_outbox and deliver_messages).
THEOREM OutboxImplements == Spec => ImplementsStream
<1>1. Init => NoRowNoSeq /\ Stream!StreamInit
  <2> SUFFICES ASSUME Init PROVE NoRowNoSeq /\ Stream!StreamInit
    OBVIOUS
  <2>1. \A s \in Sends : outbox[s].seq = 0
    BY DEF Init, NoRow
  <2>2. Known = [n \in Seqs |-> "closed"]
    BY <2>1, ConstantsAssumption DEF Known, Seqs
  <2> QED BY <2>1, <2>2 DEF Init, NoRowNoSeq, Stream!StreamInit, Stream!Positions, Seqs
<1>2. SafetyInv /\ NoRowNoSeq /\ [Next]_vars =>
          NoRowNoSeq' /\ [Stream!StreamNext]_(Stream!streamVars)
  BY NoRowStep, StreamKinds, EnqueuedGoes, DeliveredGoes, OriginGoes
<1> QED BY <1>1, <1>2, Safety, PTL DEF Spec, ImplementsStream, Stream!StreamSpec
-----------------------------------------------------------------------------
(* A destination restored from a backup.  The origin then meets gaps and   *)
(* has lost answers; what still holds is that whatever is in the mailbox   *)
(* or may yet be put there is a row's, at the row's own sequence, and that *)
(* the row is not to be corrected.                                         *)

\* A mismatch on its way to an attempt is what its sequence was given.
MismatchTrue ==
    \A p \in Procs : pc[p] = "answered" /\ got[p].kind = "mismatch" =>
        cur[p].seq <= last /\ given[cur[p].seq] = "mismatch"

\* The message's row is at the message's sequence and cannot leave it.
HeldAt(m) == outbox[m.send].seq = m.seq /\ outbox[m.send].state \notin {"none", "mismatch"}

MailHeld == \A i \in DOMAIN mailbox : HeldAt(mailbox[i])
NetHeld == \A m \in net : last < m.seq => HeldAt(m)
AttemptsHeld == \A p \in Procs : pc[p] # "idle" /\ last < cur[p].seq => HeldAt(cur[p])
HeldInv == MailHeld /\ NetHeld /\ AttemptsHeld

MarkInv == PrefixAnswered /\ RecordsTrue /\ MailTrue /\ InOrder

RestoreInv == TypeInv /\ IssueInv /\ MarkInv /\ MismatchTrue /\ HeldInv

\* No row goes while the backup is younger than federationRecordDays.
RowsStay == \A s \in Sends : outbox[s].state # "none" => outbox'[s].state # "none"

\* A step is one of the outbox's own or a restore.
LEMMA RestoreKinds ==
    ASSUME [RestoreNext]_vars
    PROVE  [Next]_vars \/ \E k \in 0 .. MaxSeq : restore(k)
  BY DEF RestoreNext, Next

\* No step takes a row out of the outbox.
LEMMA RestoreRows ==
    ASSUME TypeInv, [RestoreNext]_vars
    PROVE  RowsStay
<1>t. outbox \in [Sends -> Row]
  BY DEF TypeInv, TypeOK
<1>u. CASE UNCHANGED outbox
  BY <1>u DEF RowsStay
<1>1. ASSUME NEW p \in Clients, enqueue_send(p) PROVE RowsStay
  <2>1. PICK s \in Sends, r \in DeviceLists :
            \/ enqueue_new(p, s, r)
            \/ requeue_plain(p, s, r)
            \/ enqueue_again(p, s, r)
            \/ enqueue_answered(p, s, r)
    BY <1>1 DEF enqueue_send
  <2>2. CASE UNCHANGED outbox
    BY <1>u, <2>2
  <2>3. ASSUME NEW id, next_sequence(p, s, id, r) PROVE RowsStay
    <3> DEFINE row == [id |-> id, seq |-> nextSeq, req |-> r, state |-> "pending", due |-> "now"]
    <3>1. outbox' = [outbox EXCEPT ![s] = row] /\ row.state = "pending"
      BY <2>3 DEF next_sequence
    <3> HIDE DEF row
    <3> QED BY <1>t, <3>1 DEF RowsStay
  <2> QED BY <2>1, <2>2, <2>3 DEF enqueue_new, requeue_plain, enqueue_again, enqueue_answered,
                                  originVars
<1>2. ASSUME NEW p \in Procs, Attempt(p), pc[p] # "idle" => cur[p] \in Message PROVE RowsStay
  <2>1. CASE outbox' = outbox
    BY <1>u, <2>1
  <2>2. CASE park_for_upgrade(p) \/ transport_error(p)
    <3>1. cur[p] \in Message /\ outbox' = wait(outbox, cur[p])
      BY <1>2, <2>2 DEF park_for_upgrade, transport_error
    <3> QED BY <1>t, <3>1, WaitRows DEF RowsStay
  <2>3. CASE settle_answer(p)
    <3>1. cur[p] \in Message /\ got[p].kind \in Settled /\ got[p].kind # "none"
      BY <1>2, <2>3 DEF settle_answer, Settled, Finals, Accepted
    <3>2. outbox' = settle(outbox, cur[p], got[p].kind)
      BY <2>3 DEF settle_answer
    <3> QED BY <1>t, <3>1, <3>2, SettleRows DEF RowsStay
  <2>4. CASE replay_gap(p)
    <3> DEFINE rows == replay(outbox, got[p].seq, cur[p])
    <3>1. cur[p] \in Message /\ outbox' = wait(rows, cur[p])
      BY <1>2, <2>4 DEF replay_gap
    <3>2. /\ rows \in [Sends -> Row]
          /\ \A s \in Sends : rows[s].state = "none" => outbox[s].state = "none"
      BY <1>t, <3>1, ReplayRows
    <3> HIDE DEF rows
    <3> QED BY <3>1, <3>2, WaitRows DEF RowsStay
  <2> QED BY <1>2, <2>1, <2>2, <2>3, <2>4 DEF Attempt, load_outbox, post_head,
                                              leave_behind_head, cancel, originVars
<1>3. ASSUME NEW s \in Sends, elapse(s) PROVE RowsStay
  BY <1>t, <1>3 DEF elapse, RowsStay, Row
<1>4. ASSUME NEW p \in Procs PROVE pc[p] # "idle" => cur[p] \in Message
  BY DEF TypeInv, AttemptShape
<1> QED
  BY <1>u, <1>1, <1>2, <1>3, <1>4 DEF RestoreNext, vars, flush_due, arrive, arrive_late,
     change_devices, restore, originVars

\* The new row is at a sequence nobody had; the one it corrects is in no
\* mailbox and on no way there.
LEMMA RestoreEnqueued ==
    ASSUME RestoreInv, NEW p \in Clients, NEW s \in Sends, NEW id \in Seqs,
           NEW r \in DeviceLists, Enqueued(p, s, id, r)
    PROVE  MarkInv' /\ MismatchTrue' /\ HeldInv'
<1>e. EnqueuedEffect(p, s, id, r)
  BY EnqueuedFacts DEF RestoreInv
<1> USE <1>e DEF EnqueuedEffect, RestoreInv
<1>1. /\ \A n \in Seqs : n \in Nat
      /\ nextSeq \in Nat /\ last \in Nat /\ last < nextSeq
      /\ outbox[s].state \in {"none", "mismatch"}
      /\ p \in Procs
  BY ConstantsAssumption DEF Seqs, TypeInv, TypeOK, MarkInv, PrefixAnswered, Enqueued, Procs
<1>2. ASSUME NEW n \in Seqs, n <= last PROVE issued'[n] = issued[n]
  <2>1. n \in Nat /\ n # nextSeq
    BY <1>1, <1>2
  <2> QED BY <2>1
<1>3. MarkInv'
  <2>1. PrefixAnswered'
    BY <1>1 DEF MarkInv, PrefixAnswered
  <2>2. RecordsTrue'
    BY <1>1 DEF MarkInv, RecordsTrue
  <2>3. \A i \in DOMAIN mailbox : mailbox[i].seq \in Seqs
    BY MailTyped
  <2>4. MailTrue'
    BY <1>2, <2>3 DEF MarkInv, MailTrue
  <2>5. InOrder'
    BY DEF MarkInv, InOrder
  <2> QED BY <2>1, <2>2, <2>4, <2>5 DEF MarkInv
<1>4. MismatchTrue'
  BY <1>1 DEF MismatchTrue
<1>5. ASSUME NEW m \in Message, HeldAt(m) PROVE HeldAt(m)'
  <2>1. m.send \in Sends /\ m.send # s
    BY <1>1, <1>5 DEF HeldAt, Message
  <2> QED BY <1>5, <2>1 DEF HeldAt
<1>6. MailHeld'
  BY <1>5, MailTyped DEF HeldInv, MailHeld
<1>7. NetHeld'
  BY <1>5 DEF HeldInv, NetHeld, TypeInv, TypeOK
<1>8. AttemptsHeld'
  <2>1. HeldAt(cur[p])'
    BY <1>1 DEF HeldAt
  <2>2. ASSUME NEW q \in Procs, q # p, pc[q] # "idle", last < cur[q].seq PROVE HeldAt(cur[q])'
    <3>1. cur[q] \in Message /\ HeldAt(cur[q])
      BY <2>2 DEF HeldInv, AttemptsHeld, TypeInv, AttemptShape
    <3> QED BY <1>5, <2>2, <3>1
  <2> QED BY <1>1, <2>1, <2>2 DEF AttemptsHeld
<1> QED BY <1>3, <1>4, <1>6, <1>7, <1>8 DEF HeldInv

\* Rows that keep their place and are answered as their sequence was given, and
\* attempts that keep their message, keep what is held.
LEMMA HeldKeeps ==
    ASSUME RestoreInv, UNCHANGED <<nextSeq, issued, last, mailbox, given>>,
           \A m \in Message : HeldAt(m) /\ (last < m.seq \/ given[m.seq] = "stored") => HeldAt(m)',
           \A p \in Procs : AttemptKept(p),
           NetKept
    PROVE  MismatchTrue' /\ HeldInv'
<1> USE DEF RestoreInv
<1>1. MismatchTrue'
  BY DEF MismatchTrue, AttemptKept
<1>2. MailHeld'
  BY MailTyped DEF HeldInv, MailHeld, MarkInv, MailTrue
<1>3. NetHeld'
  <2> SUFFICES ASSUME NEW m \in net', last < m.seq PROVE HeldAt(m)'
    BY DEF NetHeld
  <2>1. CASE m \in net
    BY <2>1 DEF HeldInv, NetHeld, TypeInv, TypeOK
  <2>2. CASE m \notin net
    <3>1. PICK p \in Procs : pc[p] = "head" /\ m = cur[p]
      BY <2>2 DEF NetKept
    <3>2. m \in Message /\ HeldAt(m)
      BY <3>1 DEF HeldInv, AttemptsHeld, TypeInv, AttemptShape
    <3> QED BY <3>2
  <2> QED BY <2>1, <2>2
<1>4. AttemptsHeld'
  <2> SUFFICES ASSUME NEW p \in Procs, pc'[p] # "idle", last < cur'[p].seq PROVE HeldAt(cur[p])'
    BY DEF AttemptsHeld
  <2>1. CASE \E t \in Sends : outbox[t].state = "pending" /\ cur'[p] = RowMessage(t, outbox[t])
    <3>1. PICK t \in Sends : outbox[t].state = "pending" /\ cur'[p] = RowMessage(t, outbox[t])
      BY <2>1
    <3>2. cur'[p] \in Message
      BY <3>1, RowMessageType DEF TypeInv, RowShape
    <3>3. HeldAt(RowMessage(t, outbox[t]))
      BY <3>1 DEF HeldAt, RowMessage
    <3>4. PICK m \in Message : m = RowMessage(t, outbox[t]) /\ m = cur'[p]
      BY <3>1, <3>2
    <3>5. HeldAt(m)'
      BY <3>3, <3>4
    <3> QED BY <3>4, <3>5 DEF HeldAt
  <2>2. CASE pc[p] # "idle" /\ cur'[p] = cur[p]
    <3>1. cur[p] \in Message /\ HeldAt(cur[p])
      BY <2>2 DEF HeldInv, AttemptsHeld, TypeInv, AttemptShape
    <3>2. PICK m \in Message : m = cur[p] /\ m = cur'[p] /\ HeldAt(m)
      BY <2>2, <3>1
    <3>3. HeldAt(m)'
      BY <3>2
    <3> QED BY <3>2, <3>3 DEF HeldAt
  <2>3. AttemptKept(p)
    OBVIOUS
  <2> QED BY <2>1, <2>2, <2>3 DEF AttemptKept
<1> QED BY <1>1, <1>2, <1>3, <1>4 DEF HeldInv

\* The origin's own steps settle a row with a mismatch only when its sequence
\* was given one.
LEMMA RestoreOrigin ==
    ASSUME RestoreInv, OriginStep, RowsStay
    PROVE  MarkInv' /\ MismatchTrue' /\ HeldInv'
<1> USE DEF RestoreInv
<1>1. /\ UNCHANGED <<nextSeq, issued, last, mailbox, given>> /\ NetKept
      /\ \A p \in Procs : AttemptKept(p)
  BY DEF OriginStep
<1>2. MarkInv'
  BY <1>1 DEF OriginStep, MarkInv, PrefixAnswered, RecordsTrue, MailTrue, InOrder
<1>3. ASSUME NEW m \in Message, HeldAt(m), last < m.seq \/ given[m.seq] = "stored"
      PROVE  HeldAt(m)'
  <2>1. m.send \in Sends /\ m.seq \in Nat /\ last \in Nat
    BY ConstantsAssumption DEF Message, Seqs, TypeInv, TypeOK
  <2>2. RowKept(m.send) /\ outbox'[m.send].state # "none"
    BY <1>3, <2>1 DEF HeldAt, OriginStep, RowsKept, RowsStay
  <2>3. outbox'[m.send].state # "mismatch"
    <3> SUFFICES ASSUME outbox'[m.send].state = "mismatch" PROVE FALSE
      OBVIOUS
    <3>1. PICK p \in Procs : /\ pc[p] = "answered" /\ got[p].kind = "mismatch"
                             /\ outbox[m.send].seq = cur[p].seq
      BY <1>3, <2>2 DEF RowKept, HeldAt
    <3>2. cur[p].seq = m.seq /\ cur[p].seq <= last /\ given[cur[p].seq] = "mismatch"
      BY <1>3, <3>1 DEF MismatchTrue, HeldAt
    <3> QED BY <1>3, <2>1, <3>2
  <2> QED BY <1>3, <2>2, <2>3 DEF HeldAt, RowKept
<1> QED BY <1>1, <1>2, <1>3, HeldKeeps

\* A replay makes rows pending where they are.
LEMMA RestoreReplayed ==
    ASSUME RestoreInv, NEW p \in Procs, replay_gap(p)
    PROVE  IssueInv' /\ MarkInv' /\ MismatchTrue' /\ HeldInv'
<1> USE DEF RestoreInv
<1> DEFINE rows == replay(outbox, got[p].seq, cur[p])
<1>1. /\ cur[p] \in Message /\ outbox' = wait(rows, cur[p])
      /\ UNCHANGED <<nextSeq, issued, last, mailbox, given, inbound>> /\ NetKept
      /\ \A q \in Procs : AttemptKept(q)
  BY FinishKeeps DEF replay_gap, TypeInv, AttemptShape, destinationVars, NetKept
<1>2. outbox \in [Sends -> Row]
  BY DEF TypeInv, TypeOK
<1>3. /\ rows \in [Sends -> Row]
      /\ \A s \in Sends : /\ rows[s].id = outbox[s].id
                          /\ rows[s].seq = outbox[s].seq
                          /\ rows[s].req = outbox[s].req
                          /\ rows[s].state = "none" => outbox[s].state = "none"
                          /\ outbox[s].state = "none" => rows[s].state = "none"
                          /\ rows[s].state \in {outbox[s].state, "pending"}
  BY <1>1, <1>2, ReplayRows
<1> HIDE DEF rows
<1>4. \A s \in Sends : /\ outbox'[s].id = outbox[s].id
                       /\ outbox'[s].seq = outbox[s].seq
                       /\ outbox'[s].req = outbox[s].req
                       /\ outbox'[s].state = "none" => outbox[s].state = "none"
                       /\ outbox[s].state = "none" => outbox'[s].state = "none"
                       /\ outbox'[s].state \in {outbox[s].state, "pending"}
  BY <1>1, <1>3, WaitRows
<1>5. IssueInv'
  BY <1>1, <1>4, IssueHeld
<1>6. MarkInv'
  BY <1>1 DEF MarkInv, PrefixAnswered, RecordsTrue, MailTrue, InOrder
<1>7. \A m \in Message : HeldAt(m) => HeldAt(m)'
  BY <1>4 DEF HeldAt, Message
<1> QED BY <1>1, <1>5, <1>6, <1>7, HeldKeeps

\* Only the next sequence is taken, from a message whose row is held at it.
LEMMA RestoreDelivered ==
    ASSUME RestoreInv, NEW m \in Message, Delivered(m)
    PROVE  MarkInv' /\ MismatchTrue' /\ HeldInv'
<1> USE DEF RestoreInv
<1>1. /\ m.seq \in Seqs /\ m.seq < nextSeq /\ issued[m.seq] = m
      /\ last \in Nat /\ m.seq \in Nat /\ \A n \in Seqs : n \in Nat
  BY MessageIssued, ConstantsAssumption DEF TypeInv, TypeOK, Seqs
<1>2. UNCHANGED <<nextSeq, outbox, issued, cur, net>>
  BY DEF Delivered, originVars
<1>3. \A p \in Procs : pc'[p] # "idle" => pc[p] # "idle"
  BY DEF Delivered
<1>4. \A p \in Procs : pc[p] # "idle" => cur[p].seq \in Seqs
  BY AttemptFacts
<1>5. CASE m.seq # last + 1 /\ UNCHANGED destinationVars
  <2>1. UNCHANGED <<last, inbound, mailbox, given>>
    BY <1>5 DEF destinationVars
  <2>2. MarkInv'
    BY <1>2, <2>1 DEF MarkInv, PrefixAnswered, RecordsTrue, MailTrue, InOrder
  <2>3. AnswerTo(m).kind = "mismatch" => m.seq <= last /\ given[m.seq] = "mismatch"
    BY <1>1, <1>5 DEF AnswerTo, prior, Reply, MarkInv, RecordsTrue
  <2>4. MismatchTrue'
    BY <1>2, <2>1, <2>3 DEF MismatchTrue, Delivered
  <2>5. HeldInv'
    BY <1>2, <1>3, <2>1 DEF HeldInv, MailHeld, NetHeld, AttemptsHeld, HeldAt
  <2> QED BY <2>2, <2>4, <2>5
<1>6. CASE Taken(m, Decision(m))
  <2>1. last' = last + 1 /\ m.seq = last + 1
    BY <1>6 DEF Taken
  <2>2. MarkInv'
    BY <1>1, <1>2, <1>6, DecisionFinal, PrefixTaken, MailTaken DEF MarkInv
  <2>3. \A n \in Seqs : n <= last => given'[n] = given[n] /\ n <= last'
    BY <1>1, <1>6, <2>1 DEF Taken
  <2>4. AnswerTo(m).kind = Decision(m) /\ given'[m.seq] = Decision(m) /\ m.seq <= last'
    BY <1>1, <1>6, <2>1 DEF AnswerTo, Reply, Taken
  <2>5. MismatchTrue'
    BY <1>2, <1>4, <2>3, <2>4 DEF MismatchTrue, Delivered
  <2>6. HeldAt(m)
    BY <1>1, <2>1 DEF HeldInv, NetHeld, AttemptsHeld, Delivered
  <2>7. MailHeld'
    <3>1. mailbox \in Seq(Message) /\ mailbox' \in {mailbox, Append(mailbox, m)}
      BY <1>6 DEF Taken, TypeInv, TypeOK
    <3>2. \A i \in DOMAIN mailbox' : (i \in DOMAIN mailbox /\ mailbox'[i] = mailbox[i]) \/ mailbox'[i] = m
      BY <3>1
    <3> QED BY <1>2, <2>6, <3>2 DEF HeldInv, MailHeld, HeldAt
  <2>8. NetHeld' /\ AttemptsHeld'
    <3>1. \A n \in Seqs : last' < n => last < n
      BY <1>1, <2>1
    <3>2. \A q \in net : q.seq \in Seqs
      BY DEF TypeInv, TypeOK, Message
    <3> QED BY <1>2, <1>3, <1>4, <3>1, <3>2 DEF HeldInv, NetHeld, AttemptsHeld, HeldAt
  <2> QED BY <2>2, <2>5, <2>7, <2>8 DEF HeldInv
<1> QED BY <1>5, <1>6, DeliveredTakes

\* A restore leaves a shorter prefix, with its records and its mail.
LEMMA RestoreRestored ==
    ASSUME RestoreInv, NEW k \in 0 .. MaxSeq, restore(k)
    PROVE  RestoreInv'
<1> USE DEF RestoreInv
<1>1. /\ k < last /\ last' = k /\ net' = {}
      /\ UNCHANGED <<nextSeq, outbox, issued, pc, cur, got, outcome, devices>>
      /\ \A p \in Procs : pc[p] = "idle"
      /\ inbound' = [n \in Seqs |-> IF n <= k THEN inbound[n] ELSE NoRecord]
      /\ given' = [n \in Seqs |-> IF n <= k THEN given[n] ELSE "none"]
  BY DEF restore, originVars, attemptVars
<1>2. k \in Nat /\ last \in Nat /\ nextSeq \in Nat /\ \A n \in Seqs : n \in Nat
  BY ConstantsAssumption DEF TypeInv, TypeOK, Seqs
<1>3. PICK l \in 0 .. Len(mailbox) :
          /\ mailbox' = SubSeq(mailbox, 1, l)
          /\ \A j \in DOMAIN mailbox : j <= l <=> mailbox[j].seq <= k
  BY DEF restore
<1>4. /\ mailbox' \in Seq(Message)
      /\ \A i \in DOMAIN mailbox' : /\ i \in DOMAIN mailbox /\ i <= l
                                    /\ mailbox'[i] = mailbox[i]
  <2>1. mailbox \in Seq(Message) /\ Len(mailbox) \in Nat
    BY DEF TypeInv, TypeOK
  <2> QED BY <1>3, <2>1
<1>5. TypeInv'
  <2>1. given' \in [Seqs -> Finals \cup {"none"}] /\ inbound' \in [Seqs -> Record \cup {NoRecord}]
    BY <1>1 DEF TypeInv, TypeOK
  <2> QED BY <1>1, <1>4, <2>1 DEF TypeInv, TypeOK, RowShape, AttemptShape
<1>6. IssueInv'
  BY <1>1 DEF IssueInv, IssuedOnce, RowsIssued, RowsLatest, AttemptsIssued, NetIssued
<1>7. MarkInv'
  <2>1. PrefixAnswered'
    BY <1>1, <1>2 DEF MarkInv, PrefixAnswered, Finals, Accepted
  <2>2. RecordsTrue'
    BY <1>1, <1>2 DEF MarkInv, RecordsTrue
  <2>3. MailTrue'
    <3> SUFFICES ASSUME NEW i \in DOMAIN mailbox'
                 PROVE  /\ mailbox[i].seq <= k
                        /\ mailbox[i] = issued[mailbox[i].seq]
                        /\ given'[mailbox[i].seq] = "stored"
      BY <1>1, <1>4 DEF MailTrue
    <3>1. i \in DOMAIN mailbox /\ mailbox[i].seq <= k
      BY <1>3, <1>4
    <3>2. mailbox[i].seq \in Seqs
      BY <3>1, MailTyped
    <3> QED BY <1>1, <3>1, <3>2 DEF MarkInv, MailTrue
  <2>4. InOrder'
    BY <1>4 DEF MarkInv, InOrder
  <2> QED BY <2>1, <2>2, <2>3, <2>4 DEF MarkInv
<1>8. MismatchTrue'
  BY <1>1 DEF MismatchTrue
<1>9. HeldInv'
  BY <1>1, <1>4 DEF HeldInv, MailHeld, NetHeld, AttemptsHeld, HeldAt
<1> QED BY <1>5, <1>6, <1>7, <1>8, <1>9

\* Every step keeps the invariant.
LEMMA RestoreStep == RestoreInv /\ [RestoreNext]_vars => RestoreInv'
<1> SUFFICES ASSUME RestoreInv, [RestoreNext]_vars PROVE RestoreInv'
  OBVIOUS
<1>1. TypeInv /\ IssueInv /\ RowsStay
  BY RestoreRows DEF RestoreInv
<1>2. ASSUME NEW k \in 0 .. MaxSeq, restore(k) PROVE RestoreInv'
  BY <1>2, RestoreRestored
<1>3. CASE [Next]_vars
  <2>1. TypeInv'
    BY <1>1, <1>3, TypeStep
  <2>2. ASSUME NEW p \in Clients, NEW s \in Sends, NEW id \in Seqs, NEW r \in DeviceLists,
               Enqueued(p, s, id, r)
        PROVE  RestoreInv'
    BY <1>1, <2>1, <2>2, IssueEnqueued, RestoreEnqueued DEF RestoreInv
  <2>3. CASE OriginStep
    BY <1>1, <2>1, <2>3, IssueOrigin, RestoreOrigin DEF RestoreInv
  <2>4. ASSUME NEW m \in Message, Delivered(m) PROVE RestoreInv'
    BY <1>1, <2>1, <2>4, IssueDelivered, RestoreDelivered DEF RestoreInv
  <2>5. ASSUME NEW p \in Procs, replay_gap(p) PROVE RestoreInv'
    BY <2>1, <2>5, RestoreReplayed DEF RestoreInv
  <2> QED BY <1>1, <1>3, <2>2, <2>3, <2>4, <2>5, StepOrReplay
<1> QED BY <1>2, <1>3, RestoreKinds

\* The invariant holds at the start.
LEMMA RestoreStart == Init => RestoreInv
<1> SUFFICES ASSUME Init PROVE RestoreInv
  OBVIOUS
<1>1. SafetyInv
  BY SafetyInit
<1>2. MismatchTrue /\ HeldInv
  BY DEF Init, MismatchTrue, HeldInv, MailHeld, NetHeld, AttemptsHeld
<1> QED BY <1>1, <1>2 DEF SafetyInv, StreamInv, MailInv, RestoreInv, MarkInv

\* A row is at one sequence, so the mailbox has its send once.
LEMMA HeldOnce ==
    ASSUME RestoreInv
    PROVE  StoredOnce
<1> USE DEF RestoreInv
<1> SUFFICES ASSUME NEW i \in DOMAIN mailbox, NEW j \in DOMAIN mailbox,
                    mailbox[i].id = mailbox[j].id, i < j
             PROVE  FALSE
  <2>1. mailbox \in Seq(Message)
    BY DEF TypeInv, TypeOK
  <2>2. \A l \in DOMAIN mailbox : l \in Nat
    BY <2>1
  <2> QED BY <2>2 DEF StoredOnce
<1>1. ASSUME NEW l \in DOMAIN mailbox
      PROVE  /\ mailbox[l].send \in Sends
             /\ outbox[mailbox[l].send].state # "none"
             /\ outbox[mailbox[l].send].seq = mailbox[l].seq
             /\ outbox[mailbox[l].send].id = mailbox[l].id
  <2>1. mailbox[l] \in Message /\ HeldAt(mailbox[l]) /\ mailbox[l] = issued[mailbox[l].seq]
    BY MailTyped DEF HeldInv, MailHeld, MarkInv, MailTrue
  <2>2. mailbox[l].send \in Sends /\ outbox[mailbox[l].send].state # "none"
    BY <2>1 DEF Message, HeldAt
  <2>3. issued[outbox[mailbox[l].send].seq].id = outbox[mailbox[l].send].id
    BY <2>2, RowFacts
  <2> QED BY <2>1, <2>2, <2>3 DEF HeldAt
<1>2. mailbox[i].send = mailbox[j].send
  BY <1>1, RowsApart
<1>3. mailbox[i].seq = mailbox[j].seq
  BY <1>1, <1>2
<1>4. mailbox[i].seq < mailbox[j].seq /\ mailbox[i].seq \in Nat
  BY MailTyped, ConstantsAssumption DEF MarkInv, InOrder, Seqs
<1> QED BY <1>3, <1>4

\* For every instance and any number of restores: what replay_gap sends again
\* and deliver_messages takes again puts a row's send into the mailbox at most
\* once.
THEOREM RestoreStoresOnce == RestoreSpec => []StoredOnce
<1>1. RestoreInv => StoredOnce
  BY HeldOnce
<1> QED BY <1>1, RestoreStart, RestoreStep, PTL DEF RestoreSpec

\* For every instance and any number of restores: the mailbox stays in the order
\* of the sequences.
THEOREM RestoreKeepsOrder == RestoreSpec => []InOrder
<1>1. RestoreInv => InOrder
  BY DEF RestoreInv, MarkInv
<1> QED BY <1>1, RestoreStart, RestoreStep, PTL DEF RestoreSpec
=============================================================================

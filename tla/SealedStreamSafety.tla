-------------------------- MODULE SealedStreamSafety --------------------------
(***************************************************************************)
(* The sealed stream's safety, proved for any sends, flushes, batch size   *)
(* and retention: no sequence is left that nobody sends, no transaction    *)
(* meets a gap, a row settles as its own sequence was answered, and the    *)
(* recipient gets a send once under a capability and in order.  While      *)
(* nothing is pruned the whole implements the abstract stream.             *)
(*                                                                         *)
(* No lock is used.  What makes overlapping flushes harmless is that every *)
(* message anywhere is the one its sequence was issued for, that a run is  *)
(* consecutive and starts no later than the next sequence, and that a      *)
(* final answer is only ever given to a sequence already used up.          *)
(***************************************************************************)
EXTENDS SealedStream, SequenceTheorems, FiniteSetTheorems, TLAPS

\* The messages are those their sequences were issued for, they are consecutive,
\* and start at most one after what was used up.
Batch(b, next, is, upto) ==
    /\ \A i \in DOMAIN b : b[i].seq < next /\ is[b[i].seq] = b[i]
    /\ \A i \in DOMAIN b : b[i].seq = b[1].seq + (i - 1)
    /\ b # <<>> => b[1].seq <= upto + 1

\* Each sequence is one message, and a row is the message of its sequence.
IssuedInv ==
    /\ \A n \in Seqs : n < nextSeq => issued[n] \in Message /\ issued[n].seq = n
    /\ \A s \in Sends : outbox[s].state # "none" =>
          /\ outbox[s] \in Row
          /\ outbox[s].seq < nextSeq
          /\ issued[outbox[s].seq] = [send |-> s, seq |-> outbox[s].seq, req |-> outbox[s].req]

\* Everything under way is a batch, however old it is.
MessagesInv ==
    /\ \A f \in Flushes : Batch(run[f], nextSeq, issued, last)
    /\ \A b \in net : Batch(b, nextSeq, issued, last)
    /\ \A x \in Servers : Batch(work[x], nextSeq, issued, last)

\* A flush has an answer for each row until one that leaves its sequence open.
FlushesInv ==
    \A f \in Flushes :
        /\ pc[f] # "idle" => run[f] # <<>>
        /\ pc[f] = "sent" =>
              /\ work[f] # <<>>
              /\ single[f] => Len(work[f]) = 1
              /\ ~ single[f] => Len(answers[f]) + Len(work[f]) = Len(run[f])
        /\ pc[f] = "answered" =>
              /\ answers[f] # <<>>
              /\ ~ single[f] /\ answers[f][Len(answers[f])].kind \in Finals
                    => Len(answers[f]) = Len(run[f])

\* A final answer is what its sequence got, or says that it was used up.
AnswersInv ==
    \A f \in Flushes : \A i \in DOMAIN answers[f] :
        answers[f][i].kind \in Finals =>
            /\ answers[f][i].seq <= last
            /\ answers[f][i].kind \in {given[answers[f][i].seq], "refused"}

\* The destination has used up 1 .. last, all of them issued.
InboundInv ==
    /\ last < nextSeq
    /\ \A n \in Seqs :
          /\ given[n] # "none" <=> n <= last
          /\ inbound[n] \in {"none", given[n]}

\* What was stored is claimed, and what was claimed or answered as stored is in
\* the mailbox.
ClaimsInv ==
    /\ \A i \in DOMAIN mailbox :
          mailbox[i].seq <= last /\ <<mailbox[i].req.cap, mailbox[i].send>> \in claims
    /\ \A k \in claims : \E i \in DOMAIN mailbox : mailbox[i].send = k[2]
    /\ \A n \in Seqs : given[n] = "stored" =>
          \E i \in DOMAIN mailbox : mailbox[i].send = issued[n].send

SealedInv ==
    /\ TypeOK /\ IssuedInv /\ MessagesInv /\ FlushesInv /\ AnswersInv /\ InboundInv /\ ClaimsInv
    /\ NothingLost /\ NoGap /\ AnswersAgree /\ InOrder /\ StoredOnce
-----------------------------------------------------------------------------
(* Lemmas about batches.                                                   *)

LEMMA MessageParts ==
    \A m \in Message : m.seq \in Seqs /\ m.seq \in Nat /\ m.send \in Sends /\ m.req.cap \in Capabilities
BY DEF Message, Content, Seqs

\* The rest of a sequence.
LEMMA TailFacts ==
    ASSUME NEW S, NEW q \in Seq(S), q # <<>>
    PROVE  /\ Len(q) \in Nat /\ Len(q) > 0
           /\ Tail(q) \in Seq(S)
           /\ Len(Tail(q)) = Len(q) - 1
           /\ DOMAIN Tail(q) = 1 .. (Len(q) - 1)
           /\ \A i \in 1 .. (Len(q) - 1) : Tail(q)[i] = q[i + 1]
           /\ (Tail(q) = <<>>) <=> (Len(q) = 1)
<1>1. Len(q) \in Nat /\ Len(q) > 0 /\ Tail(q) \in Seq(S) /\ Len(Tail(q)) = Len(q) - 1
  OBVIOUS
<1>2. DOMAIN Tail(q) = 1 .. (Len(q) - 1) /\ \A i \in 1 .. (Len(q) - 1) : Tail(q)[i] = q[i + 1]
  OBVIOUS
<1>3. (Tail(q) = <<>>) <=> (Len(Tail(q)) = 0)
  BY <1>1, EmptySeq
<1> QED BY <1>1, <1>2, <1>3

LEMMA BatchEmpty ==
    ASSUME NEW next, NEW is, NEW upto
    PROVE  Batch(<<>>, next, is, upto)
BY DEF Batch

\* A batch stays one while sequences are issued and used up.
LEMMA BatchLater ==
    ASSUME NEW b \in Seq(Message), NEW next \in Nat, NEW later \in Nat, next <= later,
           NEW is, NEW now, \A n \in Seqs : n < next => now[n] = is[n],
           NEW upto \in Nat, NEW upto2 \in Nat, upto <= upto2,
           Batch(b, next, is, upto)
    PROVE  Batch(b, later, now, upto2)
<1>1. \A i \in DOMAIN b : b[i].seq \in Seqs /\ b[i].seq \in Nat
  <2>1. \A i \in DOMAIN b : b[i] \in Message
    OBVIOUS
  <2> QED BY <2>1, MessageParts
<1>2. ASSUME NEW i \in DOMAIN b PROVE b[i].seq < later /\ now[b[i].seq] = b[i]
  <2>1. b[i].seq < next /\ is[b[i].seq] = b[i]
    BY DEF Batch
  <2> QED BY <1>1, <2>1
<1>3. ASSUME b # <<>> PROVE b[1].seq <= upto2 + 1
  <2>1. 1 \in DOMAIN b
    BY <1>3
  <2>2. b[1].seq \in Nat /\ b[1].seq <= upto + 1
    BY <1>1, <1>3, <2>1 DEF Batch
  <2> QED BY <2>2
<1> QED BY <1>2, <1>3 DEF Batch

\* Once its first sequence is used up the rest of a batch is one.
LEMMA BatchTail ==
    ASSUME NEW b \in Seq(Message), b # <<>>, NEW next, NEW is, NEW upto \in Nat,
           Batch(b, next, is, upto), b[1].seq <= upto
    PROVE  Batch(Tail(b), next, is, upto)
<1>1. /\ Len(b) \in Nat /\ Tail(b) \in Seq(Message) /\ Len(Tail(b)) = Len(b) - 1
      /\ DOMAIN b = 1 .. Len(b) /\ DOMAIN Tail(b) = 1 .. Len(b) - 1
      /\ \A i \in 1 .. Len(b) - 1 : Tail(b)[i] = b[i + 1]
  OBVIOUS
<1>2. \A i \in DOMAIN b : b[i].seq \in Nat
  <2>1. \A i \in DOMAIN b : b[i] \in Message
    OBVIOUS
  <2> QED BY <2>1, MessageParts
<1>3. \A i \in DOMAIN Tail(b) : i + 1 \in DOMAIN b /\ i \in Nat /\ Tail(b)[i] = b[i + 1]
  BY <1>1
<1>4. \A i \in DOMAIN Tail(b) : Tail(b)[i].seq < next /\ is[Tail(b)[i].seq] = Tail(b)[i]
  BY <1>3 DEF Batch
<1>5. \A i \in DOMAIN Tail(b) : Tail(b)[i].seq = b[1].seq + i
  BY <1>1, <1>2, <1>3 DEF Batch
<1>6. b[1].seq \in Nat
  BY <1>1, <1>2
<1>7. ASSUME NEW i \in DOMAIN Tail(b) PROVE Tail(b)[i].seq = Tail(b)[1].seq + (i - 1)
  <2>1. 1 \in DOMAIN Tail(b) /\ i \in Nat
    BY <1>1
  <2>2. Tail(b)[i].seq = b[1].seq + i /\ Tail(b)[1].seq = b[1].seq + 1
    BY <1>5, <2>1
  <2> QED BY <1>6, <2>1, <2>2
<1>8. ASSUME Tail(b) # <<>> PROVE Tail(b)[1].seq <= upto + 1
  <2>1. 1 \in DOMAIN Tail(b)
    BY <1>1, <1>8
  <2> QED BY <1>5, <1>6, <2>1
<1> QED BY <1>4, <1>7, <1>8 DEF Batch

\* The first of a batch alone.
LEMMA BatchHead ==
    ASSUME NEW b \in Seq(Message), b # <<>>, NEW next, NEW is, NEW upto,
           Batch(b, next, is, upto)
    PROVE  /\ Head(b) = b[1] /\ Head(b) \in Message /\ <<Head(b)>> \in Seq(Message)
           /\ Head(b).seq < next /\ is[Head(b).seq] = Head(b) /\ Head(b).seq <= upto + 1
           /\ Batch(<<Head(b)>>, next, is, upto)
<1>1. 1 \in DOMAIN b /\ Head(b) = b[1] /\ b[1] \in Message
  OBVIOUS
<1>2. Head(b).seq < next /\ is[Head(b).seq] = Head(b) /\ Head(b).seq <= upto + 1
  BY <1>1 DEF Batch
<1>3. <<Head(b)>> \in Seq(Message) /\ <<Head(b)>>[1] = Head(b) /\ DOMAIN <<Head(b)>> = {1}
  BY <1>1
<1>4. Batch(<<Head(b)>>, next, is, upto)
  <2>1. Head(b).seq = Head(b).seq + (1 - 1)
    BY <1>1, MessageParts
  <2> QED BY <1>2, <1>3, <2>1 DEF Batch
<1> QED BY <1>1, <1>2, <1>3, <1>4

\* The row pending at a sequence is the one it was issued for.
LEMMA PendingIssued ==
    ASSUME TypeOK, IssuedInv, NEW n \in Seqs, Pending(n) # {}
    PROVE  n < nextSeq /\ issued[n] \in Message /\ RowAt(n) = issued[n] /\ RowAt(n).seq = n
<1>1. PICK s \in Pending(n) : RowAt(n) = [send |-> s, seq |-> n, req |-> outbox[s].req]
  BY DEF RowAt
<1>2. s \in Sends /\ outbox[s].state = "pending" /\ outbox[s].seq = n
  BY DEF Pending
<1>3. n < nextSeq /\ issued[n] = RowAt(n)
  BY <1>1, <1>2 DEF IssuedInv
<1> QED BY <1>3 DEF IssuedInv
-----------------------------------------------------------------------------
(* The origin's rows.                                                      *)

\* Rows change in when they are due, or go once they are settled: no sequence
\* loses its row.
RowsStand ==
    \A s \in Sends :
        \/ outbox'[s] = outbox[s]
        \/ outbox[s].state \in Finals /\ outbox'[s] = NoRow
        \/ /\ outbox[s].state = "pending" /\ outbox'[s] \in Row
           /\ outbox'[s].seq = outbox[s].seq /\ outbox'[s].req = outbox[s].req
           /\ outbox'[s].state = outbox[s].state

LEMMA RowsStanding ==
    ASSUME SealedInv, RowsStand, UNCHANGED <<nextSeq, issued, last, given>>
    PROVE  IssuedInv' /\ NothingLost' /\ AnswersAgree'
<1> USE DEF SealedInv
<1>0. \A s \in Sends : outbox[s] \in Row \cup {NoRow}
  BY DEF TypeOK
<1>1. IssuedInv'
  BY <1>0 DEF IssuedInv, RowsStand, NoRow, Row, Finals, Rejections
<1>2. NothingLost'
  <2>1. \A n \in Seqs : Pending(n) \subseteq Pending(n)'
    BY <1>0 DEF Pending, RowsStand, Finals, Rejections
  <2> QED BY <2>1 DEF NothingLost
<1>3. AnswersAgree'
  BY <1>0 DEF AnswersAgree, RowsStand, NoRow, Finals, Rejections
<1> QED BY <1>1, <1>2, <1>3

\* A row's step keeps all that is not about rows.
LEMMA RowsKeep ==
    ASSUME SealedInv, NEW s \in Sends, prune_outbox(s) \/ elapse(s)
    PROVE  SealedInv'
<1> USE DEF SealedInv
<1>1. UNCHANGED <<nextSeq, issued, flushVars, net, work, recipientVars, destinationVars>>
  BY DEF prune_outbox, elapse
<1>2. RowsStand /\ outbox' \in [Sends -> Row \cup {NoRow}]
  <2>1. CASE prune_outbox(s)
    BY <2>1 DEF prune_outbox, RowsStand, TypeOK
  <2>2. CASE elapse(s)
    <3>1. outbox[s] \in Row
      BY <2>2 DEF elapse, TypeOK, NoRow
    <3>2. [outbox[s] EXCEPT !.due = TRUE] \in Row
      BY <3>1 DEF Row
    <3>3. outbox' = [outbox EXCEPT ![s] = [outbox[s] EXCEPT !.due = TRUE]] /\ outbox[s].state = "pending"
      BY <2>2 DEF elapse
    <3> QED BY <3>1, <3>2, <3>3 DEF RowsStand, TypeOK, Row
  <2> QED BY <2>1, <2>2
<1>3. IssuedInv' /\ NothingLost' /\ AnswersAgree'
  BY <1>1, <1>2, RowsStanding DEF destinationVars
<1>4. TypeOK'
  BY <1>1, <1>2 DEF TypeOK, flushVars, recipientVars, destinationVars
<1>5. MessagesInv' /\ FlushesInv' /\ AnswersInv' /\ InboundInv'
  BY <1>1 DEF MessagesInv, FlushesInv, AnswersInv, InboundInv, flushVars, destinationVars
<1>6. ClaimsInv' /\ NoGap' /\ InOrder' /\ StoredOnce'
  BY <1>1 DEF ClaimsInv, NoGap, InOrder, StoredOnce, flushVars, destinationVars
<1> QED BY <1>3, <1>4, <1>5, <1>6

\* A new sequence: the row it is for was not pending, so it left none behind.
LEMMA EnqueueKeeps ==
    ASSUME SealedInv, NEW s \in Sends, NEW c \in Content, enqueue_sealed_row(s, c)
    PROVE  SealedInv'
<1> USE SealedAssumption DEF SealedInv
<1> DEFINE new == [seq |-> nextSeq, req |-> c, state |-> "pending", due |-> TRUE]
           m == [send |-> s, seq |-> nextSeq, req |-> c]
<1>1. /\ outbox[s].state # "pending" /\ nextSeq <= MaxSeq /\ nextSeq' = nextSeq + 1
      /\ outbox' = [outbox EXCEPT ![s] = new]
      /\ issued' = [issued EXCEPT ![nextSeq] = m]
      /\ UNCHANGED <<flushVars, net, work, recipientVars, destinationVars>>
  BY DEF enqueue_sealed_row, enqueue_sealed_new, requeue_sealed, next_sealed_sequence, Rejections
<1>2. nextSeq \in Nat /\ nextSeq \in Seqs /\ nextSeq' \in 1 .. MaxSeq + 1
  BY <1>1 DEF TypeOK, Seqs
<1>3. /\ new \in Row /\ new.seq = nextSeq /\ new.req = c /\ new.state = "pending"
      /\ m \in Message /\ m.seq = nextSeq /\ m.send = s
  BY <1>2 DEF Row, Message
<1> HIDE DEF new
<1>4. /\ outbox'[s] = new /\ \A t \in Sends : t # s => outbox'[t] = outbox[t]
      /\ issued'[nextSeq] = m /\ \A n \in Seqs : n # nextSeq => issued'[n] = issued[n]
      /\ outbox' \in [Sends -> Row \cup {NoRow}] /\ issued' \in [Seqs -> Message \cup {NoMessage}]
  BY <1>1, <1>2, <1>3 DEF TypeOK
<1>5. TypeOK'
  BY <1>1, <1>2, <1>4 DEF TypeOK, flushVars, recipientVars, destinationVars
<1>6. IssuedInv'
  <2>1. ASSUME NEW n \in Seqs, n < nextSeq' PROVE issued'[n] \in Message /\ issued'[n].seq = n
    <3>1. n = nextSeq \/ n < nextSeq
      BY <1>1, <1>2, <2>1 DEF Seqs
    <3> QED BY <1>2, <1>3, <1>4, <3>1 DEF IssuedInv, Seqs
  <2>2. ASSUME NEW t \in Sends, outbox'[t].state # "none"
        PROVE  /\ outbox'[t] \in Row
               /\ outbox'[t].seq < nextSeq'
               /\ issued'[outbox'[t].seq] = [send |-> t, seq |-> outbox'[t].seq, req |-> outbox'[t].req]
    <3>1. CASE t = s
      BY <1>1, <1>2, <1>3, <1>4, <3>1
    <3>2. CASE t # s
      <4>1. outbox'[t] = outbox[t] /\ outbox[t] \in Row /\ outbox[t].seq < nextSeq
            /\ issued[outbox[t].seq] = [send |-> t, seq |-> outbox[t].seq, req |-> outbox[t].req]
        BY <1>4, <2>2, <3>2 DEF IssuedInv
      <4>2. outbox[t].seq \in Seqs /\ outbox[t].seq # nextSeq /\ outbox[t].seq < nextSeq'
        BY <1>1, <1>2, <4>1 DEF Row, Seqs
      <4> QED BY <1>4, <4>1, <4>2
    <3> QED BY <3>1, <3>2
  <2> QED BY <2>1, <2>2 DEF IssuedInv
<1>7. \A n \in Seqs : n < nextSeq => issued'[n] = issued[n]
  BY <1>2, <1>4 DEF Seqs
<1>8. MessagesInv'
  <2>1. nextSeq <= nextSeq' /\ nextSeq' \in Nat /\ last \in Nat /\ last <= last
    BY <1>1, <1>2 DEF TypeOK
  <2>2. ASSUME NEW b \in Seq(Message), Batch(b, nextSeq, issued, last)
        PROVE  Batch(b, nextSeq', issued', last)
    BY <1>2, <1>7, <2>1, <2>2, BatchLater
  <2> QED BY <1>1, <2>2 DEF MessagesInv, TypeOK, flushVars, destinationVars
<1>9. FlushesInv' /\ AnswersInv' /\ NoGap' /\ InOrder' /\ StoredOnce'
  BY <1>1 DEF FlushesInv, AnswersInv, NoGap, InOrder, StoredOnce, flushVars, destinationVars
<1>10. InboundInv'
  BY <1>1, <1>2 DEF InboundInv, destinationVars, TypeOK
<1>11. ClaimsInv'
  <2>1. \A n \in Seqs : given[n] = "stored" => n < nextSeq
    BY <1>2 DEF InboundInv, TypeOK, Seqs
  <2> QED BY <1>1, <1>7, <2>1 DEF ClaimsInv, destinationVars
<1>12. NothingLost'
  <2> SUFFICES ASSUME NEW n \in Seqs, last < n, n < nextSeq' PROVE Pending(n)' # {}
    BY <1>1 DEF NothingLost, destinationVars
  <2>1. CASE n = nextSeq
    BY <1>3, <1>4, <2>1 DEF Pending
  <2>2. CASE n # nextSeq
    <3>1. n < nextSeq
      BY <1>1, <1>2, <2>2 DEF Seqs
    <3>2. PICK t \in Pending(n) : TRUE
      BY <3>1 DEF NothingLost
    <3> QED BY <1>1, <1>4, <3>2 DEF Pending
  <2> QED BY <2>1, <2>2
<1>13. AnswersAgree'
  BY <1>1, <1>3, <1>4 DEF AnswersAgree, destinationVars, Finals, Rejections
<1> QED BY <1>5, <1>6, <1>8, <1>9, <1>10, <1>11, <1>12, <1>13
-----------------------------------------------------------------------------
(* A flush.                                                                *)

\* What a flush's step leaves alone.
Elsewhere(f) ==
    /\ UNCHANGED <<nextSeq, issued, recipientVars, destinationVars>>
    /\ \A e \in Flushes : e # f => /\ pc'[e] = pc[e] /\ run'[e] = run[e] /\ single'[e] = single[e]
                                   /\ answers'[e] = answers[e] /\ work'[e] = work[e]
    /\ \A x \in Strays : work'[x] = work[x]

\* A flush that has a batch to send, has answers to apply, or is over.
LEMMA FlushMoves ==
    ASSUME SealedInv, NEW f \in Flushes, Elsewhere(f),
           IssuedInv', NothingLost', AnswersAgree', outbox' \in [Sends -> Row \cup {NoRow}],
           pc' \in [Flushes -> {"idle", "sent", "answered"}],
           run' \in [Flushes -> Seq(Message)], Batch(run'[f], nextSeq, issued, last),
           single' \in [Flushes -> BOOLEAN], answers' \in [Flushes -> Seq(Answer)],
           work' \in [Servers -> Seq(Message)], Batch(work'[f], nextSeq, issued, last),
           net' \subseteq Seq(Message), \A b \in net' : b \in net \/ Batch(b, nextSeq, issued, last),
           \A i \in DOMAIN answers'[f] : \E j \in DOMAIN answers[f] : answers'[f][i] = answers[f][j],
           pc'[f] # "idle" => run'[f] # <<>>,
           pc'[f] = "sent" =>
              /\ work'[f] # <<>>
              /\ single'[f] => Len(work'[f]) = 1
              /\ ~ single'[f] => Len(answers'[f]) + Len(work'[f]) = Len(run'[f]),
           pc'[f] = "answered" =>
              /\ answers'[f] # <<>>
              /\ ~ single'[f] /\ answers'[f][Len(answers'[f])].kind \in Finals
                    => Len(answers'[f]) = Len(run'[f])
    PROVE  SealedInv'
<1> USE SealedAssumption DEF SealedInv
<1>1. TypeOK'
  BY DEF TypeOK, Elsewhere, recipientVars, destinationVars
<1>2. MessagesInv'
  <2>1. \A e \in Flushes : Batch(run'[e], nextSeq, issued, last)
    BY DEF MessagesInv, Elsewhere
  <2>2. \A x \in Servers : Batch(work'[x], nextSeq, issued, last)
    BY DEF MessagesInv, Elsewhere, Servers
  <2> QED BY <2>1, <2>2 DEF MessagesInv, Elsewhere, destinationVars
<1>3. FlushesInv'
  <2> SUFFICES ASSUME NEW e \in Flushes
               PROVE  /\ pc'[e] # "idle" => run'[e] # <<>>
                      /\ pc'[e] = "sent" =>
                            /\ work'[e] # <<>>
                            /\ single'[e] => Len(work'[e]) = 1
                            /\ ~ single'[e] => Len(answers'[e]) + Len(work'[e]) = Len(run'[e])
                      /\ pc'[e] = "answered" =>
                            /\ answers'[e] # <<>>
                            /\ ~ single'[e] /\ answers'[e][Len(answers'[e])].kind \in Finals
                                  => Len(answers'[e]) = Len(run'[e])
    BY DEF FlushesInv
  <2>1. CASE e = f
    BY <2>1
  <2>2. CASE e # f
    <3>1. /\ pc'[e] = pc[e] /\ run'[e] = run[e] /\ work'[e] = work[e]
          /\ single'[e] = single[e] /\ answers'[e] = answers[e]
      BY <2>2 DEF Elsewhere
    <3> QED BY <3>1 DEF FlushesInv
  <2> QED BY <2>1, <2>2
<1>4. ASSUME NEW e \in Flushes, NEW i \in DOMAIN answers'[e]
      PROVE  \E j \in DOMAIN answers[e] : answers'[e][i] = answers[e][j]
  <2>1. CASE e = f
    BY <2>1
  <2>2. CASE e # f
    <3>1. answers'[e] = answers[e]
      BY <2>2 DEF Elsewhere
    <3> QED BY <3>1
  <2> QED BY <2>1, <2>2
<1>5. AnswersInv' /\ NoGap'
  <2> SUFFICES ASSUME NEW e \in Flushes, NEW i \in DOMAIN answers'[e]
               PROVE  /\ answers'[e][i].kind # "gap"
                      /\ answers'[e][i].kind \in Finals =>
                            /\ answers'[e][i].seq <= last
                            /\ answers'[e][i].kind \in {given[answers'[e][i].seq], "refused"}
    BY DEF AnswersInv, NoGap, Elsewhere, destinationVars
  <2>1. PICK j \in DOMAIN answers[e] : answers'[e][i] = answers[e][j]
    BY <1>4
  <2> QED BY <2>1 DEF AnswersInv, NoGap
<1>6. InboundInv' /\ ClaimsInv' /\ InOrder' /\ StoredOnce'
  BY DEF InboundInv, ClaimsInv, InOrder, StoredOnce, Elsewhere, destinationVars
<1> QED BY <1>1, <1>2, <1>3, <1>5, <1>6

\* Rows that do not change leave nothing to be shown about them.
LEMMA RowsSame ==
    ASSUME SealedInv, UNCHANGED <<nextSeq, issued, outbox, last, given>>
    PROVE  IssuedInv' /\ NothingLost' /\ AnswersAgree' /\ outbox' \in [Sends -> Row \cup {NoRow}]
<1>1. RowsStand
  BY DEF RowsStand
<1> QED BY <1>1, RowsStanding DEF SealedInv, TypeOK

\* A request leaves.
LEMMA PostMoves ==
    ASSUME SealedInv, NEW f \in Flushes, NEW rows \in Seq(Message), NEW b \in Seq(Message),
           NEW one \in BOOLEAN, Post(f, rows, b, one),
           UNCHANGED <<nextSeq, issued, recipientVars, destinationVars>>,
           IssuedInv', NothingLost', AnswersAgree', outbox' \in [Sends -> Row \cup {NoRow}],
           rows # <<>>, b # <<>>, Batch(rows, nextSeq, issued, last), Batch(b, nextSeq, issued, last),
           IF one THEN Len(b) = 1 ELSE Len(b) = Len(rows)
    PROVE  SealedInv'
<1> USE SealedAssumption DEF SealedInv
<1>1. f \in Servers
  BY DEF Servers
<1>2. /\ pc'[f] = "sent" /\ run'[f] = rows /\ single'[f] = one /\ answers'[f] = <<>> /\ work'[f] = b
      /\ net' = net \cup {b}
  BY <1>1 DEF Post, TypeOK
<1>3. Elsewhere(f)
  BY <1>1 DEF Post, Elsewhere, TypeOK, Servers
<1>4. /\ pc' \in [Flushes -> {"idle", "sent", "answered"}] /\ run' \in [Flushes -> Seq(Message)]
      /\ single' \in [Flushes -> BOOLEAN] /\ work' \in [Servers -> Seq(Message)]
      /\ net' \subseteq Seq(Message)
  BY <1>2 DEF Post, TypeOK
<1>5. answers' \in [Flushes -> Seq(Answer)]
  <2>1. <<>> \in Seq(Answer)
    OBVIOUS
  <2> QED BY <2>1 DEF Post, TypeOK
<1>6. Len(rows) \in Nat /\ Len(<<>>) = 0 /\ DOMAIN <<>> = {} /\ Len(b) \in Nat
  OBVIOUS
<1>7. ~ one => Len(answers'[f]) + Len(work'[f]) = Len(run'[f])
  BY <1>2, <1>6
<1>8. \A i \in DOMAIN answers'[f] : \E j \in DOMAIN answers[f] : answers'[f][i] = answers[f][j]
  BY <1>2, <1>6
<1>9. \A d \in net' : d \in net \/ Batch(d, nextSeq, issued, last)
  BY <1>2
<1>10. /\ pc'[f] # "idle" => run'[f] # <<>>
       /\ pc'[f] = "sent" =>
              /\ work'[f] # <<>>
              /\ single'[f] => Len(work'[f]) = 1
              /\ ~ single'[f] => Len(answers'[f]) + Len(work'[f]) = Len(run'[f])
       /\ pc'[f] # "answered"
  BY <1>2, <1>7
<1>11. Batch(run'[f], nextSeq, issued, last) /\ Batch(work'[f], nextSeq, issued, last)
  BY <1>2
<1> QED BY <1>3, <1>4, <1>5, <1>8, <1>9, <1>10, <1>11, FlushMoves

\* The flush is over, whatever its rows and answers were.
LEMMA FinishMoves ==
    ASSUME SealedInv, NEW f \in Flushes, Finish(f),
           UNCHANGED <<nextSeq, issued, net, recipientVars, destinationVars>>,
           IssuedInv', NothingLost', AnswersAgree', outbox' \in [Sends -> Row \cup {NoRow}]
    PROVE  SealedInv'
<1> USE SealedAssumption DEF SealedInv
<1>1. f \in Servers /\ <<>> \in Seq(Message) /\ <<>> \in Seq(Answer) /\ DOMAIN <<>> = {}
  BY DEF Servers
<1>2. /\ pc'[f] = "idle" /\ run'[f] = <<>> /\ answers'[f] = <<>> /\ work'[f] = <<>>
      /\ Elsewhere(f)
  BY <1>1 DEF Finish, TypeOK, Elsewhere, Servers
<1>3. /\ pc' \in [Flushes -> {"idle", "sent", "answered"}] /\ run' \in [Flushes -> Seq(Message)]
      /\ single' \in [Flushes -> BOOLEAN] /\ work' \in [Servers -> Seq(Message)]
      /\ net' \subseteq Seq(Message) /\ answers' \in [Flushes -> Seq(Answer)]
  BY <1>1 DEF Finish, TypeOK
<1>4. Batch(run'[f], nextSeq, issued, last) /\ Batch(work'[f], nextSeq, issued, last)
  BY <1>2, BatchEmpty
<1>5. \A i \in DOMAIN answers'[f] : \E j \in DOMAIN answers[f] : answers'[f][i] = answers[f][j]
  BY <1>1, <1>2
<1> QED BY <1>2, <1>3, <1>4, <1>5, FlushMoves

\* A run starts at a pending head, and the destination waits for nothing before
\* it.
LEMMA SendKeeps ==
    ASSUME SealedInv, NEW f \in Flushes, NEW n \in Seqs, NEW k \in 1 .. MaxBatch, NEW one \in BOOLEAN,
           send_sealed_run(f, n, k, one)
    PROVE  SealedInv'
<1> USE SealedAssumption DEF SealedInv
<1> DEFINE rows == [i \in 1 .. k |-> RowAt(n + i - 1)]
           b == IF one THEN <<rows[1]>> ELSE rows
<1>1. /\ IsHead(n) /\ n + k - 1 <= MaxSeq /\ Consecutive(n, k)
      /\ Post(f, rows, b, one)
      /\ UNCHANGED <<originVars, recipientVars, destinationVars>>
  BY DEF send_sealed_run
<1>2. k \in Nat /\ k >= 1 /\ n \in Nat /\ n >= 1 /\ last \in Nat /\ nextSeq \in Nat
  BY DEF Seqs, TypeOK
<1>3. ASSUME NEW i \in 1 .. k
      PROVE  /\ n + i - 1 \in Seqs /\ n + i - 1 < nextSeq /\ rows[i] \in Message
             /\ rows[i].seq = n + i - 1 /\ issued[n + i - 1] = rows[i]
  <2>1. n + i - 1 \in Seqs /\ n + i - 1 \in n .. n + k - 1
    BY <1>1, <1>2 DEF Seqs
  <2>2. Pending(n + i - 1) # {}
    BY <1>1, <2>1 DEF Consecutive
  <2>3. rows[i] = RowAt(n + i - 1)
    OBVIOUS
  <2> QED BY <2>1, <2>2, <2>3, PendingIssued
<1>4. rows \in Seq(Message) /\ Len(rows) = k /\ DOMAIN rows = 1 .. k
  <2>1. rows \in [1 .. k -> Message]
    BY <1>3
  <2>2. rows \in Seq(Message)
    BY <1>2, <2>1, SeqDef
  <2> QED BY <1>2, <2>1, <2>2
<1>5. n <= last + 1
  <2>1. CASE last + 1 < nextSeq
    <3>1. last + 1 \in Seqs /\ last < last + 1
      BY <1>2, <2>1 DEF TypeOK, Seqs
    <3>2. Pending(last + 1) # {}
      BY <2>1, <3>1 DEF NothingLost
    <3> QED BY <1>1, <3>1, <3>2 DEF IsHead
  <2>2. CASE ~ (last + 1 < nextSeq)
    <3>1. Pending(n) # {}
      BY <1>1 DEF IsHead
    <3>2. n < nextSeq
      BY <3>1, PendingIssued
    <3> QED BY <1>2, <2>2, <3>2
  <2> QED BY <2>1, <2>2
<1> HIDE DEF rows
<1>6. Batch(rows, nextSeq, issued, last)
  <2>1. 1 \in 1 .. k /\ n + 1 - 1 = n
    BY <1>2
  <2>2. rows[1].seq = n
    BY <1>3, <2>1
  <2>3. \A i \in 1 .. k : rows[i].seq = n + (i - 1)
    BY <1>2, <1>3
  <2> QED BY <1>3, <1>4, <1>5, <2>2, <2>3 DEF Batch
<1>7. rows # <<>> /\ rows[1] = Head(rows)
  BY <1>2, <1>4
<1>8. b \in Seq(Message) /\ b # <<>> /\ Batch(b, nextSeq, issued, last)
      /\ IF one THEN Len(b) = 1 ELSE Len(b) = Len(rows)
  BY <1>4, <1>6, <1>7, BatchHead
<1> HIDE DEF b
<1>9. IssuedInv' /\ NothingLost' /\ AnswersAgree' /\ outbox' \in [Sends -> Row \cup {NoRow}]
  BY <1>1, RowsSame DEF originVars, destinationVars
<1>10. UNCHANGED <<nextSeq, issued, recipientVars, destinationVars>>
  BY <1>1 DEF originVars
<1> QED BY <1>1, <1>4, <1>6, <1>7, <1>8, <1>9, <1>10, PostMoves

LEMMA SinglesKeep ==
    ASSUME SealedInv, NEW f \in Flushes, send_sealed_singles(f)
    PROVE  SealedInv'
<1> USE SealedAssumption DEF SealedInv
<1>1. /\ pc[f] = "sent" /\ Post(f, run[f], <<Head(run[f])>>, TRUE)
      /\ UNCHANGED <<originVars, recipientVars, destinationVars>>
  BY DEF send_sealed_singles
<1>2. run[f] \in Seq(Message) /\ run[f] # <<>> /\ Batch(run[f], nextSeq, issued, last)
  BY <1>1 DEF FlushesInv, MessagesInv, TypeOK
<1>3. <<Head(run[f])>> \in Seq(Message) /\ Batch(<<Head(run[f])>>, nextSeq, issued, last)
  BY <1>2, BatchHead
<1>4. Len(<<Head(run[f])>>) = 1 /\ <<Head(run[f])>> # <<>>
  OBVIOUS
<1>5. IssuedInv' /\ NothingLost' /\ AnswersAgree' /\ outbox' \in [Sends -> Row \cup {NoRow}]
  BY <1>1, RowsSame DEF originVars, destinationVars
<1>6. UNCHANGED <<nextSeq, issued, recipientVars, destinationVars>>
  BY <1>1 DEF originVars
<1> QED BY <1>1, <1>2, <1>3, <1>4, <1>5, <1>6, PostMoves

\* The row waits, if it is still the one.
LEMMA RetryRows ==
    ASSUME SealedInv, NEW m \in Message, outbox' = mark_sealed_retry(m),
           UNCHANGED <<nextSeq, issued, last, given>>
    PROVE  IssuedInv' /\ NothingLost' /\ AnswersAgree' /\ outbox' \in [Sends -> Row \cup {NoRow}]
<1>1. CASE StillAt(m)
  <2> DEFINE s == m.send
             new == [outbox[s] EXCEPT !.due = FALSE]
  <2>1. s \in Sends /\ outbox[s].state = "pending" /\ outbox[s] \in Row
    BY <1>1 DEF StillAt, Pending, SealedInv, TypeOK, NoRow
  <2>2. /\ new \in Row /\ new.state = "pending" /\ new.seq = outbox[s].seq /\ new.req = outbox[s].req
    BY <2>1 DEF Row
  <2>3. outbox' = [outbox EXCEPT ![s] = new]
    BY <1>1 DEF mark_sealed_retry
  <2> HIDE DEF new, s
  <2>4. RowsStand /\ outbox' \in [Sends -> Row \cup {NoRow}]
    BY <2>1, <2>2, <2>3 DEF RowsStand, SealedInv, TypeOK
  <2> QED BY <2>4, RowsStanding
<1>2. CASE ~ StillAt(m)
  BY <1>2, RowsSame DEF mark_sealed_retry
<1> QED BY <1>1, <1>2

LEMMA FlushEnds ==
    ASSUME SealedInv, NEW f \in Flushes, retry_later(f) \/ cancel(f) \/ stop_run(f)
    PROVE  SealedInv'
<1> USE SealedAssumption DEF SealedInv
<1>1. Finish(f) /\ UNCHANGED <<nextSeq, issued, net, recipientVars, destinationVars>> /\ pc[f] # "idle"
  BY DEF retry_later, cancel, stop_run, originVars
<1>2. outbox' = outbox \/ outbox' = mark_sealed_retry(Head(run[f]))
  BY DEF retry_later, cancel, stop_run, originVars
<1>3. Head(run[f]) \in Message
  BY <1>1, BatchHead DEF FlushesInv, MessagesInv, TypeOK
<1>4. IssuedInv' /\ NothingLost' /\ AnswersAgree' /\ outbox' \in [Sends -> Row \cup {NoRow}]
  BY <1>1, <1>2, <1>3, RowsSame, RetryRows DEF destinationVars
<1> QED BY <1>1, <1>4, FinishMoves

\* The row settles under the sequence its answer is for: that one is used up, so
\* nothing is lost, and the rest of the run starts where it may.
LEMMA ApplyKeeps ==
    ASSUME SealedInv, NEW f \in Flushes, apply_sealed_answer(f)
    PROVE  SealedInv'
<1> USE SealedAssumption DEF SealedInv
<1> DEFINE m == Head(run[f])
           a == Head(answers[f])
           rest == Tail(run[f])
           s == m.send
           new == [outbox[s] EXCEPT !.state = a.kind]
<1>1. /\ pc[f] = "answered" /\ a.seq = m.seq /\ a.kind \in Finals /\ StillAt(m)
      /\ outbox' = settle_sealed_row(m, a.kind)
      /\ \/ rest = <<>> /\ Finish(f) /\ UNCHANGED net
         \/ rest # <<>> /\ single[f] /\ Post(f, rest, <<Head(rest)>>, TRUE)
         \/ /\ rest # <<>>
            /\ ~ single[f]
            /\ run' = [run EXCEPT ![f] = rest]
            /\ answers' = [answers EXCEPT ![f] = Tail(@)]
            /\ UNCHANGED <<pc, single, net, work>>
      /\ UNCHANGED <<nextSeq, issued, recipientVars, destinationVars>>
  BY DEF apply_sealed_answer
<1>2. /\ run[f] \in Seq(Message) /\ run[f] # <<>> /\ Batch(run[f], nextSeq, issued, last)
      /\ answers[f] \in Seq(Answer) /\ answers[f] # <<>>
  BY <1>1 DEF FlushesInv, MessagesInv, TypeOK
<1>3. m \in Message /\ m = run[f][1] /\ m.seq \in Seqs /\ last \in Nat /\ s \in Sends
  BY <1>2, BatchHead, MessageParts DEF TypeOK
<1>4. a = answers[f][1] /\ 1 \in DOMAIN answers[f]
  BY <1>2
<1>5. m.seq <= last /\ a.kind \in {given[m.seq], "refused"}
  BY <1>1, <1>4 DEF AnswersInv
<1>6. rest \in Seq(Message) /\ Batch(rest, nextSeq, issued, last)
  BY <1>2, <1>3, <1>5, BatchTail
<1>7. outbox[s].state = "pending" /\ outbox[s].seq = m.seq /\ outbox[s] \in Row
  BY <1>1, <1>3 DEF StillAt, Pending, TypeOK, NoRow
<1>8. new \in Row /\ new.seq = m.seq /\ new.req = outbox[s].req /\ new.state = a.kind
  BY <1>1, <1>7 DEF Row
<1>9. outbox' = [outbox EXCEPT ![s] = new]
  BY <1>1 DEF settle_sealed_row
<1> HIDE DEF new, s, m, a
<1>10. /\ outbox' \in [Sends -> Row \cup {NoRow}] /\ outbox'[s] = new
       /\ \A t \in Sends : t # s => outbox'[t] = outbox[t]
  BY <1>3, <1>8, <1>9 DEF TypeOK
<1>11. a.kind # "pending" /\ a.kind # "none"
  BY <1>1 DEF Finals, Rejections
<1>12. IssuedInv'
  BY <1>1, <1>7, <1>8, <1>10 DEF IssuedInv
<1>13. NothingLost'
  <2> SUFFICES ASSUME NEW n \in Seqs, last < n, n < nextSeq PROVE Pending(n)' # {}
    BY <1>1 DEF NothingLost, destinationVars
  <2>1. PICK t \in Pending(n) : TRUE
    BY DEF NothingLost
  <2>2. n # m.seq
    BY <1>3, <1>5 DEF Seqs
  <2>3. t # s
    BY <1>7, <2>1, <2>2 DEF Pending
  <2> QED BY <1>10, <2>1, <2>3 DEF Pending
<1>14. AnswersAgree'
  <2>1. a.kind \in Finals \ {"refused"} => given[m.seq] = a.kind
    BY <1>5
  <2> QED BY <1>1, <1>5, <1>8, <1>10, <2>1 DEF AnswersAgree, destinationVars
<1>15. CASE rest = <<>> /\ Finish(f) /\ UNCHANGED net
  BY <1>1, <1>10, <1>12, <1>13, <1>14, <1>15, FinishMoves
<1>16. CASE rest # <<>> /\ single[f] /\ Post(f, rest, <<Head(rest)>>, TRUE)
  <2>1. <<Head(rest)>> \in Seq(Message) /\ Batch(<<Head(rest)>>, nextSeq, issued, last)
    BY <1>6, <1>16, BatchHead
  <2>2. Len(<<Head(rest)>>) = 1 /\ <<Head(rest)>> # <<>>
    OBVIOUS
  <2> HIDE DEF rest
  <2> QED BY <1>1, <1>6, <1>10, <1>12, <1>13, <1>14, <1>16, <2>1, <2>2, PostMoves
<1>17. CASE /\ rest # <<>> /\ ~ single[f]
            /\ run' = [run EXCEPT ![f] = rest] /\ answers' = [answers EXCEPT ![f] = Tail(@)]
            /\ UNCHANGED <<pc, single, net, work>>
  <2>1. run'[f] = rest /\ answers'[f] = Tail(answers[f]) /\ Elsewhere(f)
    BY <1>1, <1>17 DEF Elsewhere, TypeOK
  <2>2. /\ Len(rest) = Len(run[f]) - 1 /\ Len(Tail(answers[f])) = Len(answers[f]) - 1
        /\ Len(run[f]) \in Nat /\ Len(answers[f]) \in Nat /\ Len(rest) > 0
        /\ Tail(answers[f]) \in Seq(Answer)
        /\ \A i \in DOMAIN Tail(answers[f]) : i + 1 \in DOMAIN answers[f]
                                              /\ Tail(answers[f])[i] = answers[f][i + 1]
    BY <1>2, <1>6, <1>17
  <2>3. answers[f][Len(answers[f])].kind \in Finals => Len(answers[f]) = Len(run[f])
    BY <1>1, <1>17 DEF FlushesInv
  <2>4. Len(answers[f]) # 1
    BY <1>1, <1>4, <2>2, <2>3
  <2>5. /\ Tail(answers[f]) # <<>>
        /\ Tail(answers[f])[Len(Tail(answers[f]))] = answers[f][Len(answers[f])]
    <3>1. answers[f] \in Seq(Answer) /\ answers[f] # <<>>
      BY <1>1, <1>2 DEF TypeOK, FlushesInv
    <3>2. PICK k \in Nat : k = Len(answers[f])
      BY <2>2
    <3>3. /\ k > 0 /\ Len(Tail(answers[f])) = k - 1
          /\ \A i \in 1 .. (k - 1) : Tail(answers[f])[i] = answers[f][i + 1]
          /\ (Tail(answers[f]) = <<>>) <=> (k = 1)
      BY <3>1, <3>2, TailFacts
    <3>4. k # 1
      BY <2>4, <3>2
    <3>5. k - 1 \in 1 .. (k - 1) /\ (k - 1) + 1 = k
      BY <3>3, <3>4
    <3>6. Tail(answers[f])[k - 1] = answers[f][k]
      BY <3>3, <3>5
    <3> QED BY <3>2, <3>3, <3>4, <3>6
  <2>6. /\ answers'[f] # <<>>
        /\ answers'[f][Len(answers'[f])].kind \in Finals => Len(answers'[f]) = Len(run'[f])
    BY <2>1, <2>2, <2>3, <2>5
  <2>7. \A i \in DOMAIN answers'[f] : \E j \in DOMAIN answers[f] : answers'[f][i] = answers[f][j]
    BY <2>1, <2>2
  <2>8. run' \in [Flushes -> Seq(Message)] /\ answers' \in [Flushes -> Seq(Answer)]
    BY <1>6, <1>17, <2>2 DEF TypeOK
  <2>9. Batch(run'[f], nextSeq, issued, last) /\ Batch(work'[f], nextSeq, issued, last)
    BY <1>6, <1>17, <2>1 DEF MessagesInv, Servers
  <2>10. /\ pc' \in [Flushes -> {"idle", "sent", "answered"}] /\ single' \in [Flushes -> BOOLEAN]
         /\ work' \in [Servers -> Seq(Message)] /\ net' \subseteq Seq(Message)
         /\ pc'[f] = "answered" /\ run'[f] # <<>> /\ net' = net
    BY <1>1, <1>17, <2>1 DEF TypeOK
  <2> HIDE DEF rest
  <2> QED BY <1>10, <1>12, <1>13, <1>14, <2>1, <2>6, <2>7, <2>8, <2>9, <2>10, FlushMoves
<1> QED BY <1>1, <1>15, <1>16, <1>17
-----------------------------------------------------------------------------
(* The destination.                                                        *)

\* One transaction that is not answered with a gap, and what it leaves.
LEMMA ApplyOne ==
    ASSUME SealedInv, NEW m \in Message, NEW kind \in Finals \cup Opens, apply_sealed_one(m, kind),
           m.seq <= last + 1, m.seq < nextSeq, issued[m.seq] = m, UNCHANGED originVars
    PROVE  /\ kind # "gap"
           /\ kind \in Finals => m.seq <= last' /\ kind \in {given'[m.seq], "refused"}
           /\ last <= last' /\ last' \in 0 .. MaxSeq
           /\ \A n \in Seqs : n <= last => given'[n] = given[n]
           /\ inbound' \in [Seqs -> Finals \cup {"none"}] /\ given' \in [Seqs -> Finals \cup {"none"}]
           /\ claims' \subseteq Capabilities \X Sends /\ mailbox' \in Seq(Message)
           /\ InboundInv' /\ ClaimsInv' /\ InOrder' /\ StoredOnce'
<1> USE SealedAssumption DEF SealedInv
<1>1. /\ m.seq \in Seqs /\ m.seq \in Nat /\ m.send \in Sends /\ m.req.cap \in Capabilities
      /\ last \in Nat /\ nextSeq \in Nat /\ last <= MaxSeq
  BY MessageParts DEF TypeOK
<1>2. CASE UNCHANGED destinationVars /\ m.seq <= last /\ kind = PriorAnswer(m)
  <2>1. kind \in {given[m.seq], "refused"}
    BY <1>1, <1>2 DEF PriorAnswer, InboundInv
  <2>2. kind # "gap"
    <3>1. given[m.seq] \in Finals \cup {"none"}
      BY <1>1 DEF TypeOK
    <3> QED BY <2>1, <3>1 DEF Finals, Rejections
  <2>3. InboundInv' /\ ClaimsInv' /\ InOrder' /\ StoredOnce'
    BY <1>2 DEF InboundInv, ClaimsInv, InOrder, StoredOnce, destinationVars, originVars
  <2> QED BY <1>1, <1>2, <2>1, <2>2, <2>3 DEF destinationVars, TypeOK
<1>3. CASE UNCHANGED destinationVars /\ kind = "limited"
  <2>1. InboundInv' /\ ClaimsInv' /\ InOrder' /\ StoredOnce'
    BY <1>3 DEF InboundInv, ClaimsInv, InOrder, StoredOnce, destinationVars, originVars
  <2>2. kind \notin Finals
    BY <1>3 DEF Finals, Rejections
  <2> QED BY <1>1, <1>3, <2>1, <2>2 DEF destinationVars, TypeOK
<1>4. CASE /\ m.seq = last + 1 /\ kind = Decision(m)
           /\ record_sealed_answer(m, kind) /\ store_sealed_messages(m, kind)
  <2>1. kind \in Finals
    BY <1>4 DEF Decision, Finals, Rejections
  <2>2. /\ last' = m.seq /\ inbound' = [inbound EXCEPT ![m.seq] = kind]
        /\ given' = [given EXCEPT ![m.seq] = kind]
    BY <1>4 DEF record_sealed_answer
  <2>3. /\ inbound'[m.seq] = kind /\ given'[m.seq] = kind
        /\ \A n \in Seqs : n # m.seq => inbound'[n] = inbound[n] /\ given'[n] = given[n]
        /\ inbound' \in [Seqs -> Finals \cup {"none"}] /\ given' \in [Seqs -> Finals \cup {"none"}]
    BY <1>1, <2>1, <2>2 DEF TypeOK
  <2>4. last < last' /\ last' \in 0 .. MaxSeq
    BY <1>1, <1>4, <2>2 DEF Seqs
  <2>5. kind # "none" /\ kind # "gap"
    BY <2>1 DEF Finals, Rejections
  <2>6. InboundInv'
    <3>1. ASSUME NEW n \in Seqs
          PROVE  (given'[n] # "none" <=> n <= last') /\ inbound'[n] \in {"none", given'[n]}
      <4>1. CASE n = m.seq
        BY <1>1, <2>2, <2>3, <2>5, <4>1
      <4>2. CASE n # m.seq
        <5>1. n \in Nat /\ (n <= last' <=> n <= last)
          BY <1>1, <1>4, <2>2, <4>2 DEF Seqs
        <5> QED BY <2>3, <4>2, <5>1 DEF InboundInv
      <4> QED BY <4>1, <4>2
    <3> QED BY <2>2, <3>1 DEF InboundInv, originVars
  <2>7. \A i \in DOMAIN mailbox : mailbox[i] \in Message /\ mailbox[i].seq \in Nat /\ mailbox[i].seq <= last
    <3>1. \A i \in DOMAIN mailbox : mailbox[i] \in Message
      BY DEF TypeOK
    <3> QED BY <3>1, MessageParts DEF ClaimsInv
  <2>8. CASE kind = "stored" /\ ~ Claimed(m)
    <3>1. claims' = claims \cup {<<m.req.cap, m.send>>} /\ mailbox' = Append(mailbox, m)
      BY <1>4, <2>8 DEF store_sealed_messages
    <3> DEFINE k == Len(mailbox)
    <3>2. /\ k \in Nat /\ DOMAIN mailbox = 1 .. k /\ mailbox' \in Seq(Message)
          /\ DOMAIN mailbox' = 1 .. k + 1 /\ mailbox'[k + 1] = m
          /\ \A i \in 1 .. k : mailbox'[i] = mailbox[i]
      BY <3>1 DEF TypeOK
    <3> HIDE DEF k
    <3>3. \A i \in DOMAIN mailbox' : (i \in 1 .. k /\ i \in DOMAIN mailbox) \/ i = k + 1
      BY <3>2
    <3>4. ClaimsInv'
      <4>1. ASSUME NEW i \in DOMAIN mailbox'
            PROVE  mailbox'[i].seq <= last' /\ <<mailbox'[i].req.cap, mailbox'[i].send>> \in claims'
        <5>1. CASE i = k + 1
          BY <1>1, <2>2, <3>1, <3>2, <5>1
        <5>2. CASE i \in 1 .. k
          <6>1. mailbox[i].seq \in Nat /\ mailbox[i].seq <= last /\ mailbox'[i] = mailbox[i]
                /\ <<mailbox[i].req.cap, mailbox[i].send>> \in claims
            BY <2>7, <3>2, <5>2 DEF ClaimsInv
          <6> QED BY <1>1, <2>2, <2>4, <3>1, <6>1
        <5> QED BY <3>3, <5>1, <5>2
      <4>2. \A i \in DOMAIN mailbox : i \in DOMAIN mailbox' /\ mailbox'[i] = mailbox[i]
        BY <3>2
      <4>3. k + 1 \in DOMAIN mailbox' /\ mailbox'[k + 1] = m
        BY <3>2
      <4>4. ASSUME NEW c \in claims' PROVE \E i \in DOMAIN mailbox' : mailbox'[i].send = c[2]
        BY <3>1, <4>2, <4>3 DEF ClaimsInv
      <4>5. ASSUME NEW n \in Seqs, given'[n] = "stored"
            PROVE  \E i \in DOMAIN mailbox' : mailbox'[i].send = issued[n].send
        <5>1. CASE n = m.seq
          BY <4>3, <5>1
        <5>2. CASE n # m.seq
          BY <2>3, <4>2, <4>5, <5>2 DEF ClaimsInv
        <5> QED BY <5>1, <5>2
      <4> QED BY <4>1, <4>4, <4>5 DEF ClaimsInv, originVars
    <3>5. InOrder'
      <4> SUFFICES ASSUME NEW i \in DOMAIN mailbox', NEW j \in DOMAIN mailbox', i < j
                   PROVE  mailbox'[i].seq < mailbox'[j].seq
        BY DEF InOrder
      <4>1. i \in 1 .. k /\ i \in DOMAIN mailbox
        BY <3>2
      <4>2. CASE j \in 1 .. k
        BY <3>2, <4>1, <4>2 DEF InOrder
      <4>3. CASE j = k + 1
        <5>1. mailbox'[i].seq <= last /\ mailbox'[i].seq \in Nat /\ mailbox'[j].seq = last + 1
          BY <1>4, <2>7, <3>2, <4>1, <4>3
        <5> QED BY <1>1, <5>1
      <4> QED BY <3>3, <4>2, <4>3
    <3>6. StoredOnce'
      <4>1. ASSUME NEW i \in 1 .. k
            PROVE  ~ (mailbox[i].send = m.send /\ mailbox[i].req.cap = m.req.cap)
        <5>1. <<mailbox[i].req.cap, mailbox[i].send>> \in claims
          BY <3>2 DEF ClaimsInv
        <5> QED BY <2>8, <5>1 DEF Claimed
      <4> QED BY <3>2, <3>3, <4>1 DEF StoredOnce
    <3>7. claims' \subseteq Capabilities \X Sends
      BY <1>1, <3>1 DEF TypeOK
    <3> QED BY <1>1, <2>1, <2>2, <2>3, <2>4, <2>5, <2>6, <3>2, <3>4, <3>5, <3>6, <3>7
  <2>9. CASE ~ (kind = "stored" /\ ~ Claimed(m))
    <3>1. UNCHANGED <<claims, mailbox>>
      BY <1>4, <2>9 DEF store_sealed_messages
    <3>2. ASSUME NEW n \in Seqs, given'[n] = "stored"
          PROVE  \E i \in DOMAIN mailbox : mailbox[i].send = issued[n].send
      <4>1. CASE n = m.seq
        <5>1. <<m.req.cap, m.send>> \in claims /\ <<m.req.cap, m.send>>[2] = m.send
          BY <2>3, <2>9, <3>2, <4>1 DEF Claimed
        <5> QED BY <4>1, <5>1 DEF ClaimsInv
      <4>2. CASE n # m.seq
        BY <2>3, <3>2, <4>2 DEF ClaimsInv
      <4> QED BY <4>1, <4>2
    <3>3. \A i \in DOMAIN mailbox : mailbox[i].seq <= last'
      BY <1>1, <1>4, <2>2, <2>7
    <3>4. ClaimsInv'
      BY <3>1, <3>2, <3>3 DEF ClaimsInv, originVars
    <3>5. InOrder' /\ StoredOnce'
      BY <3>1 DEF InOrder, StoredOnce
    <3> QED BY <1>1, <2>1, <2>2, <2>3, <2>4, <2>5, <2>6, <3>1, <3>4, <3>5 DEF TypeOK
  <2> QED BY <2>8, <2>9
<1>5. ~ (m.seq > last + 1)
  BY <1>1
<1> QED BY <1>2, <1>3, <1>4, <1>5 DEF apply_sealed_one

\* Sequences only get used up: rows and answers given before stand.
LEMMA UsedUp ==
    ASSUME SealedInv, UNCHANGED originVars, last <= last', last' \in Nat,
           \A n \in Seqs : n <= last => given'[n] = given[n]
    PROVE  IssuedInv' /\ NothingLost' /\ AnswersAgree'
<1> USE SealedAssumption DEF SealedInv
<1>1. IssuedInv'
  BY DEF IssuedInv, originVars
<1>2. NothingLost'
  <2> SUFFICES ASSUME NEW n \in Seqs, last' < n, n < nextSeq PROVE Pending(n)' # {}
    BY DEF NothingLost, originVars
  <2>1. last < n
    BY DEF TypeOK, Seqs
  <2> QED BY <2>1 DEF NothingLost, Pending, originVars
<1>3. AnswersAgree'
  <2> SUFFICES ASSUME NEW s \in Sends
               PROVE  /\ outbox[s].state \in Finals \ {"refused"} => given'[outbox[s].seq] = outbox[s].state
                      /\ outbox[s].state = "refused" => outbox[s].seq <= last'
    BY DEF AnswersAgree, originVars
  <2>1. CASE outbox[s].state = "refused"
    <3>1. outbox[s].seq <= last
      BY <2>1 DEF AnswersAgree
    <3>2. outbox[s] \in Row
      BY <2>1 DEF IssuedInv
    <3>3. outbox[s].seq \in Nat
      BY <3>2 DEF Row, Seqs
    <3>4. last \in Nat
      BY DEF TypeOK
    <3> QED BY <2>1, <3>1, <3>3, <3>4
  <2>2. CASE outbox[s].state \in Finals \ {"refused"}
    <3>1. outbox[s].seq \in Seqs
      BY <2>2 DEF IssuedInv, Row, Finals, Rejections
    <3>2. given[outbox[s].seq] = outbox[s].state /\ outbox[s].state # "none"
      BY <2>2 DEF AnswersAgree, Finals, Rejections
    <3>3. outbox[s].seq <= last
      BY <3>1, <3>2 DEF InboundInv
    <3> QED BY <2>2, <3>1, <3>2, <3>3
  <2> QED BY <2>1, <2>2
<1> QED BY <1>1, <1>2, <1>3

LEMMA DeliverKeeps ==
    ASSUME SealedInv, NEW x \in Servers, deliver_next(x)
    PROVE  SealedInv'
<1> USE SealedAssumption DEF SealedInv
<1> DEFINE m == Head(work[x])
<1>1. PICK kind \in Finals \cup Opens :
        LET more == Tail(work[x]) # <<>> /\ kind \in Finals
        IN  /\ apply_sealed_one(m, kind)
            /\ work' = [work EXCEPT ![x] = IF more THEN Tail(@) ELSE <<>>]
            /\ IF x \in Flushes
               THEN /\ answers' = [answers EXCEPT ![x] = Append(@, [seq |-> m.seq, kind |-> kind])]
                    /\ pc' = [pc EXCEPT ![x] = IF more THEN "sent" ELSE "answered"]
               ELSE UNCHANGED <<answers, pc>>
  BY DEF deliver_next
<1> DEFINE more == Tail(work[x]) # <<>> /\ kind \in Finals
           left == IF more THEN Tail(work[x]) ELSE <<>>
           a == [seq |-> m.seq, kind |-> kind]
<1>2. work[x] # <<>> /\ (x \in Flushes => pc[x] = "sent")
  BY DEF deliver_next
<1>3. UNCHANGED <<originVars, run, single, net, recipientVars>>
  BY DEF deliver_next
<1>4. work[x] \in Seq(Message) /\ Batch(work[x], nextSeq, issued, last)
  BY DEF MessagesInv, TypeOK
<1>5. /\ m = work[x][1] /\ m \in Message /\ m.seq < nextSeq /\ issued[m.seq] = m /\ m.seq <= last + 1
  BY <1>2, <1>4, BatchHead
<1>6. m.seq \in Seqs /\ last \in Nat /\ nextSeq \in Nat
  BY <1>5, MessageParts DEF TypeOK
<1>7. UNCHANGED originVars
  BY <1>3
<1>8. /\ kind # "gap"
      /\ kind \in Finals => m.seq <= last' /\ kind \in {given'[m.seq], "refused"}
      /\ last <= last' /\ last' \in 0 .. MaxSeq
      /\ \A n \in Seqs : n <= last => given'[n] = given[n]
      /\ inbound' \in [Seqs -> Finals \cup {"none"}] /\ given' \in [Seqs -> Finals \cup {"none"}]
      /\ claims' \subseteq Capabilities \X Sends /\ mailbox' \in Seq(Message)
      /\ InboundInv' /\ ClaimsInv' /\ InOrder' /\ StoredOnce'
  <2>1. apply_sealed_one(m, kind)
    BY <1>1
  <2> HIDE DEF m
  <2> QED BY <1>5, <1>7, <2>1, ApplyOne
<1>9. last' \in Nat
  BY <1>8
<1>10. IssuedInv' /\ NothingLost' /\ AnswersAgree'
  BY <1>7, <1>8, <1>9, UsedUp
<1>11. ASSUME NEW b \in Seq(Message), Batch(b, nextSeq, issued, last)
       PROVE  Batch(b, nextSeq', issued', last')
  <2>1. nextSeq' = nextSeq /\ issued' = issued
    BY <1>7 DEF originVars
  <2>2. nextSeq <= nextSeq /\ last <= last'
    BY <1>6, <1>8
  <2>3. \A n \in Seqs : n < nextSeq => issued[n] = issued[n]
    OBVIOUS
  <2>4. Batch(b, nextSeq, issued, last')
    BY <1>6, <1>9, <1>11, <2>2, <2>3, BatchLater
  <2> QED BY <2>1, <2>4
<1>12. left \in Seq(Message) /\ Batch(left, nextSeq', issued', last')
  <2>1. CASE more
    <3>1. Batch(work[x], nextSeq', issued', last') /\ work[x][1].seq <= last'
      BY <1>4, <1>5, <1>8, <1>11, <2>1
    <3>2. Batch(Tail(work[x]), nextSeq', issued', last')
      BY <1>2, <1>4, <1>9, <3>1, BatchTail
    <3> QED BY <1>2, <1>4, <2>1, <3>2
  <2>2. CASE ~ more
    BY <2>2, BatchEmpty
  <2> QED BY <2>1, <2>2
<1>13. work' = [work EXCEPT ![x] = left]
  BY <1>1
<1>14. /\ work'[x] = left /\ \A y \in Servers : y # x => work'[y] = work[y]
       /\ work' \in [Servers -> Seq(Message)]
  <2> HIDE DEF left
  <2> QED BY <1>12, <1>13 DEF TypeOK
<1>15. a \in Answer /\ a.seq = m.seq /\ a.kind = kind
  BY <1>6 DEF Answer
<1>16. /\ x \in Flushes => /\ answers' = [answers EXCEPT ![x] = Append(@, a)]
                           /\ pc' = [pc EXCEPT ![x] = IF more THEN "sent" ELSE "answered"]
       /\ x \notin Flushes => UNCHANGED <<answers, pc>>
  BY <1>1
<1> HIDE DEF a, m
<1>17. /\ \A f \in Flushes : f # x => answers'[f] = answers[f] /\ pc'[f] = pc[f]
       /\ x \in Flushes => /\ answers'[x] = Append(answers[x], a)
                           /\ pc'[x] = IF more THEN "sent" ELSE "answered"
       /\ answers' \in [Flushes -> Seq(Answer)] /\ pc' \in [Flushes -> {"idle", "sent", "answered"}]
  <2> HIDE DEF more
  <2>1. CASE x \in Flushes
    <3>1. answers[x] \in Seq(Answer) /\ Append(answers[x], a) \in Seq(Answer)
      BY <1>15, <2>1 DEF TypeOK
    <3>2. answers' = [answers EXCEPT ![x] = Append(answers[x], a)]
      BY <1>16, <2>1
    <3> QED BY <1>16, <2>1, <3>1, <3>2 DEF TypeOK
  <2>2. CASE x \notin Flushes
    BY <1>16, <2>2 DEF TypeOK
  <2> QED BY <2>1, <2>2
<1>18. TypeOK'
  BY <1>3, <1>8, <1>14, <1>17 DEF TypeOK, originVars, recipientVars
<1>19. MessagesInv'
  <2>1. \A f \in Flushes : Batch(run'[f], nextSeq', issued', last')
    BY <1>3, <1>11 DEF MessagesInv, TypeOK
  <2>2. \A b \in net' : Batch(b, nextSeq', issued', last')
    BY <1>3, <1>11 DEF MessagesInv, TypeOK
  <2>3. \A y \in Servers : Batch(work'[y], nextSeq', issued', last')
    BY <1>11, <1>12, <1>14 DEF MessagesInv, TypeOK
  <2> QED BY <2>1, <2>2, <2>3 DEF MessagesInv
\* The answers the flush of this request has now.
<1>20. ASSUME x \in Flushes
       PROVE  /\ Len(answers'[x]) = Len(answers[x]) + 1 /\ Len(answers[x]) \in Nat
              /\ answers'[x][Len(answers[x]) + 1] = a
              /\ \A i \in DOMAIN answers'[x] :
                    \/ i \in DOMAIN answers[x] /\ answers'[x][i] = answers[x][i]
                    \/ answers'[x][i] = a
              /\ answers'[x] # <<>>
  <2>1. answers[x] \in Seq(Answer) /\ answers'[x] = Append(answers[x], a)
    BY <1>17, <1>20 DEF TypeOK
  <2> QED BY <1>15, <2>1
<1>21. AnswersInv' /\ NoGap'
  <2> SUFFICES ASSUME NEW f \in Flushes, NEW i \in DOMAIN answers'[f]
               PROVE  /\ answers'[f][i].kind # "gap"
                      /\ answers'[f][i].kind \in Finals =>
                            /\ answers'[f][i].seq <= last'
                            /\ answers'[f][i].kind \in {given'[answers'[f][i].seq], "refused"}
    BY DEF AnswersInv, NoGap
  <2>1. CASE i \in DOMAIN answers[f] /\ answers'[f][i] = answers[f][i]
    <3>1. answers[f][i] \in Answer
      BY <2>1 DEF TypeOK
    <3>2. answers[f][i].seq \in Seqs /\ answers[f][i].seq \in Nat
      BY <3>1 DEF Answer, Seqs
    <3>3. /\ answers[f][i].kind # "gap"
          /\ answers[f][i].kind \in Finals =>
                answers[f][i].seq <= last /\ answers[f][i].kind \in {given[answers[f][i].seq], "refused"}
      BY <2>1 DEF AnswersInv, NoGap
    <3> QED BY <1>6, <1>8, <1>9, <2>1, <3>2, <3>3
  <2>2. CASE answers'[f][i] = a
    BY <1>8, <1>15, <2>2
  <2> QED BY <1>17, <1>20, <2>1, <2>2
<1>22. FlushesInv'
  <2> SUFFICES ASSUME NEW f \in Flushes
               PROVE  /\ pc'[f] # "idle" => run'[f] # <<>>
                      /\ pc'[f] = "sent" =>
                            /\ work'[f] # <<>>
                            /\ single'[f] => Len(work'[f]) = 1
                            /\ ~ single'[f] => Len(answers'[f]) + Len(work'[f]) = Len(run'[f])
                      /\ pc'[f] = "answered" =>
                            /\ answers'[f] # <<>>
                            /\ ~ single'[f] /\ answers'[f][Len(answers'[f])].kind \in Finals
                                  => Len(answers'[f]) = Len(run'[f])
    BY DEF FlushesInv
  <2>1. CASE f # x
    <3>1. work'[f] = work[f]
      BY <1>14, <2>1 DEF Servers
    <3> QED BY <1>3, <1>17, <2>1, <3>1 DEF FlushesInv
  <2>2. CASE f = x
    <3>1. /\ run[x] # <<>>
          /\ single[x] => Len(work[x]) = 1
          /\ ~ single[x] => Len(answers[x]) + Len(work[x]) = Len(run[x])
      BY <1>2, <2>2 DEF FlushesInv
    <3>2. Len(work[x]) \in Nat /\ Len(Tail(work[x])) = Len(work[x]) - 1
          /\ (Tail(work[x]) = <<>> <=> Len(work[x]) = 1)
      BY <1>2, <1>4, TailFacts
    <3>3. Len(answers[x]) \in Nat /\ Len(run[x]) \in Nat
      BY <2>2 DEF TypeOK
    <3>4. CASE more
      <4>1. pc'[x] = "sent" /\ work'[x] = Tail(work[x]) /\ Tail(work[x]) # <<>>
        BY <1>14, <1>17, <2>2, <3>4
      <4>2. ~ single[x]
        BY <3>1, <3>2, <4>1
      <4>3. Len(answers'[x]) + Len(work'[x]) = Len(run[x])
        <5>1. x \in Flushes
          BY <2>2
        <5>2. Len(answers'[x]) = Len(answers[x]) + 1
          BY <1>20, <5>1
        <5>3. Len(work'[x]) = Len(work[x]) - 1 /\ Len(work[x]) \in Nat
          BY <3>2, <4>1
        <5>4. Len(answers[x]) + Len(work[x]) = Len(run[x])
          BY <3>1, <4>2
        <5>5. \A i, j \in Nat : (i + 1) + (j - 1) = i + j
          OBVIOUS
        <5>6. Len(answers'[x]) + Len(work'[x]) = (Len(answers[x]) + 1) + (Len(work[x]) - 1)
          BY <5>2, <5>3, Zenon
        <5> QED BY <3>3, <5>3, <5>4, <5>5, <5>6, Zenon
      <4> QED BY <1>3, <2>2, <3>1, <4>1, <4>2, <4>3
    <3>5. CASE ~ more
      <4>1. pc'[x] = "answered"
        BY <1>17, <2>2, <3>5
      <4>2. answers'[x][Len(answers'[x])] = a /\ answers'[x] # <<>>
        BY <1>20, <2>2
      <4>3. ~ single[x] /\ kind \in Finals => Len(answers'[x]) = Len(run[x])
        BY <1>20, <2>2, <3>1, <3>2, <3>3, <3>5
      <4> QED BY <1>3, <1>15, <2>2, <3>1, <4>1, <4>2, <4>3
    <3> QED BY <3>4, <3>5
  <2> QED BY <2>1, <2>2
<1> QED BY <1>8, <1>10, <1>18, <1>19, <1>21, <1>22

\* A request turns up again, or is dropped half way.
LEMMA StrayKeeps ==
    ASSUME SealedInv, NEW x \in Strays, arrive_late(x) \/ abandon(x)
    PROVE  SealedInv'
<1> USE SealedAssumption DEF SealedInv
<1>1. UNCHANGED <<originVars, flushVars, net, recipientVars, destinationVars>> /\ x \in Servers /\ x \notin Flushes
  BY DEF arrive_late, abandon, Servers
<1>2. PICK b \in Seq(Message) : work' = [work EXCEPT ![x] = b] /\ Batch(b, nextSeq, issued, last)
  <2>1. <<>> \in Seq(Message)
    OBVIOUS
  <2> QED BY <2>1, BatchEmpty DEF arrive_late, abandon, MessagesInv, TypeOK
<1>3. /\ work'[x] = b /\ \A y \in Servers : y # x => work'[y] = work[y]
      /\ work' \in [Servers -> Seq(Message)]
  BY <1>1, <1>2 DEF TypeOK
<1>4. TypeOK'
  BY <1>1, <1>3 DEF TypeOK, originVars, flushVars, recipientVars, destinationVars
<1>5. MessagesInv'
  <2>1. \A y \in Servers : Batch(work'[y], nextSeq, issued, last)
    BY <1>2, <1>3 DEF MessagesInv
  <2> QED BY <1>1, <2>1 DEF MessagesInv, originVars, flushVars, destinationVars
<1>6. FlushesInv'
  <2>1. \A f \in Flushes : work'[f] = work[f]
    BY <1>1, <1>3 DEF Servers
  <2> QED BY <1>1, <2>1 DEF FlushesInv, flushVars
<1>7. IssuedInv' /\ AnswersInv' /\ InboundInv' /\ ClaimsInv'
  BY <1>1 DEF IssuedInv, AnswersInv, InboundInv, ClaimsInv, originVars, flushVars, destinationVars
<1>8. NothingLost' /\ NoGap' /\ AnswersAgree' /\ InOrder' /\ StoredOnce'
  BY <1>1 DEF NothingLost, Pending, NoGap, AnswersAgree, InOrder, StoredOnce, originVars, flushVars,
              destinationVars
<1> QED BY <1>4, <1>5, <1>6, <1>7, <1>8

\* A record goes, or the recipient changes: nothing is answered.
LEMMA DestinationKeeps ==
    ASSUME SealedInv,
           \/ \E n \in Seqs : prune_inbound(n)
           \/ \E c \in Capabilities : rotate_capability(c)
           \/ \E d \in DeviceLists : change_devices(d)
           \/ upgrade
    PROVE  SealedInv'
<1> USE SealedAssumption DEF SealedInv
<1>1. UNCHANGED <<originVars, flushVars, net, work, last, claims, mailbox, given>>
  BY DEF prune_inbound, rotate_capability, change_devices, upgrade, destinationVars
<1>2. /\ inbound' \in [Seqs -> Finals \cup {"none"}] /\ \A n \in Seqs : inbound'[n] \in {inbound[n], "none"}
      /\ capability' \in Capabilities /\ devices' \in DeviceLists
  BY DEF prune_inbound, rotate_capability, change_devices, upgrade, destinationVars,
     recipientVars, TypeOK
<1>3. speaks' \in BOOLEAN
  BY DEF prune_inbound, rotate_capability, change_devices, upgrade, recipientVars, TypeOK
<1>4. TypeOK'
  BY <1>1, <1>2, <1>3 DEF TypeOK, originVars, flushVars
<1>5. InboundInv'
  BY <1>1, <1>2 DEF InboundInv, originVars
<1>6. IssuedInv' /\ MessagesInv' /\ FlushesInv' /\ AnswersInv' /\ ClaimsInv'
  BY <1>1 DEF IssuedInv, MessagesInv, FlushesInv, AnswersInv, ClaimsInv, originVars, flushVars
<1>7. NothingLost' /\ NoGap' /\ AnswersAgree' /\ InOrder' /\ StoredOnce'
  BY <1>1 DEF NothingLost, Pending, NoGap, AnswersAgree, InOrder, StoredOnce, originVars, flushVars
<1> QED BY <1>4, <1>5, <1>6, <1>7
-----------------------------------------------------------------------------
(* The theorems.                                                           *)

LEMMA SealedStart == Init => SealedInv
<1> SUFFICES ASSUME Init PROVE SealedInv
  OBVIOUS
<1> USE SealedAssumption DEF Init
<1>1. TypeOK
  <2>1. speaks \in BOOLEAN
    OBVIOUS
  <2>2. <<>> \in Seq(Message) /\ <<>> \in Seq(Answer)
    OBVIOUS
  <2> QED BY <2>1, <2>2 DEF TypeOK
<1>2. IssuedInv
  BY DEF IssuedInv, NoRow, Seqs
<1>3. MessagesInv
  BY BatchEmpty DEF MessagesInv
<1>4. FlushesInv /\ AnswersInv /\ NoGap
  BY DEF FlushesInv, AnswersInv, NoGap
<1>5. InboundInv /\ ClaimsInv /\ InOrder /\ StoredOnce
  BY DEF InboundInv, ClaimsInv, InOrder, StoredOnce, Seqs
<1>6. NothingLost /\ AnswersAgree
  BY DEF NothingLost, AnswersAgree, NoRow, Seqs, Finals, Rejections
<1> QED BY <1>1, <1>2, <1>3, <1>4, <1>5, <1>6 DEF SealedInv

LEMMA SealedStep == SealedInv /\ [Next]_vars => SealedInv'
<1> SUFFICES ASSUME SealedInv, [Next]_vars PROVE SealedInv'
  OBVIOUS
<1>1. CASE UNCHANGED vars
  <2> USE <1>1 DEF vars, SealedInv
  <2>1. TypeOK'
    BY DEF TypeOK
  <2>2. IssuedInv' /\ MessagesInv' /\ FlushesInv' /\ AnswersInv' /\ InboundInv' /\ ClaimsInv'
    BY DEF IssuedInv, MessagesInv, FlushesInv, AnswersInv, InboundInv, ClaimsInv
  <2>3. NothingLost' /\ NoGap' /\ AnswersAgree' /\ InOrder' /\ StoredOnce'
    BY DEF NothingLost, Pending, NoGap, AnswersAgree, InOrder, StoredOnce
  <2> QED BY <2>1, <2>2, <2>3
<1>2. CASE \E s \in Sends, c \in Content : enqueue_sealed_row(s, c)
  BY <1>2, EnqueueKeeps
<1>3. CASE \E s \in Sends : prune_outbox(s) \/ elapse(s)
  BY <1>3, RowsKeep
<1>4. ASSUME NEW f \in Flushes, Flush(f) PROVE SealedInv'
  BY <1>4, SendKeeps, SinglesKeep, FlushEnds, ApplyKeeps DEF Flush
<1>5. CASE \E x \in Servers : deliver_next(x)
  BY <1>5, DeliverKeeps
<1>6. CASE \E x \in Strays : arrive_late(x) \/ abandon(x)
  BY <1>6, StrayKeeps
<1> QED BY <1>1, <1>2, <1>3, <1>4, <1>5, <1>6, DestinationKeeps DEF Next

LEMMA SealedAlways == Spec => []SealedInv
BY SealedStart, SealedStep, PTL DEF Spec

\* Nothing is left behind, no transaction meets a gap, what is reported as
\* delivered is in the mailbox, and the mailbox follows the sequences.
THEOREM SealedStreamSound == Spec => []StreamInv
<1>1. SealedInv => StreamInv
  <2> SUFFICES ASSUME SealedInv PROVE StreamInv
    OBVIOUS
  <2>1. ASSUME NEW s \in Sends, outbox[s].state = "stored"
        PROVE  \E i \in DOMAIN mailbox : mailbox[i].send = s
    <3>1. given[outbox[s].seq] = "stored"
      BY <2>1 DEF SealedInv, AnswersAgree, Finals, Rejections
    <3>2. outbox[s].seq \in Seqs /\ issued[outbox[s].seq].send = s
      <4>1. /\ outbox[s] \in Row
            /\ issued[outbox[s].seq] = [send |-> s, seq |-> outbox[s].seq, req |-> outbox[s].req]
        BY <2>1 DEF SealedInv, IssuedInv
      <4>2. outbox[s].seq \in Seqs
        BY <4>1 DEF Row
      <4> QED BY <4>1, <4>2
    <3> QED BY <3>1, <3>2 DEF SealedInv, ClaimsInv
  <2> QED BY <2>1 DEF SealedInv, StreamInv, DeliveredStored
<1> QED BY <1>1, SealedAlways, PTL

\* A row settles as its own sequence was answered, or as refused once that
\* sequence is used up.
THEOREM SealedAnswersAgree == Spec => []AnswersAgree
<1>1. SealedInv => AnswersAgree
  BY DEF SealedInv
<1> QED BY <1>1, SealedAlways, PTL

\* The recipient gets a send once under a capability, also when the record of
\* its answer was pruned.
THEOREM SealedStoredOnce == Spec => []StoredOnce
<1>1. SealedInv => StoredOnce
  BY DEF SealedInv
<1> QED BY <1>1, SealedAlways, PTL
-----------------------------------------------------------------------------
(***************************************************************************)
(* The refinement.  While nothing is pruned the destination remembers      *)
(* every answer, so an answer is what its sequence was given, a row stays  *)
(* until its send is corrected, and only a rejected one is: a send in the  *)
(* mailbox is at the sequence it was stored under.                         *)
(***************************************************************************)

AnswersTrue ==
    \A f \in Flushes : \A i \in DOMAIN answers[f] :
        answers[f][i].kind \in Finals => given[answers[f][i].seq] = answers[f][i].kind

RowsTrue ==
    \A s \in Sends : outbox[s].state \in Finals => given[outbox[s].seq] = outbox[s].state

\* A send leaves a sequence only after its rejection.
RowsStay ==
    \A n \in Seqs : n < nextSeq =>
        /\ outbox[issued[n].send].state # "none"
        /\ outbox[issued[n].send].seq # n => given[n] \in Rejections

MailIssued ==
    \A i \in DOMAIN mailbox :
        /\ issued[mailbox[i].seq] = mailbox[i]
        /\ mailbox[i].seq < nextSeq
        /\ given[mailbox[i].seq] = "stored"

Unpruned == inbound = given /\ AnswersTrue /\ RowsTrue /\ RowsStay /\ MailIssued

\* What the origin holds about each sequence, by its rows.
KnownOf(rows) ==
    [n \in Seqs |->
        IF \E s \in Sends : rows[s].seq = n
        THEN rows[CHOOSE s \in Sends : rows[s].seq = n].state
        ELSE "closed"]

\* A sequence is one row's.
Apart(rows) ==
    \A s, t \in Sends : rows[s].seq \in Seqs /\ rows[s].seq = rows[t].seq => s = t

LEMMA KnownAt ==
    ASSUME NEW rows, Apart(rows), NEW s \in Sends, rows[s].seq \in Seqs
    PROVE  KnownOf(rows)[rows[s].seq] = rows[s].state
<1> DEFINE t == CHOOSE u \in Sends : rows[u].seq = rows[s].seq
<1>1. t \in Sends /\ rows[t].seq = rows[s].seq
  OBVIOUS
<1>2. t = s
  BY <1>1 DEF Apart
<1> QED BY <1>2 DEF KnownOf

LEMMA KnownNone ==
    ASSUME NEW rows, NEW n \in Seqs, \A s \in Sends : rows[s].seq # n
    PROVE  KnownOf(rows)[n] = "closed"
BY DEF KnownOf

\* The rows' sequences and states are all that counts.
LEMMA KnownSame ==
    ASSUME NEW rows, NEW now, Apart(rows),
           \A s \in Sends : now[s].seq = rows[s].seq /\ now[s].state = rows[s].state
    PROVE  KnownOf(now) = KnownOf(rows)
<1>1. Apart(now)
  BY DEF Apart
<1>2. ASSUME NEW n \in Seqs PROVE KnownOf(now)[n] = KnownOf(rows)[n]
  <2>1. CASE \A s \in Sends : rows[s].seq # n
    BY <2>1, KnownNone
  <2>2. ASSUME NEW s \in Sends, rows[s].seq = n PROVE KnownOf(now)[n] = KnownOf(rows)[n]
    BY <1>1, <2>2, KnownAt
  <2> QED BY <2>1, <2>2
<1>3. /\ KnownOf(now) = [n \in Seqs |-> KnownOf(now)[n]]
      /\ KnownOf(rows) = [n \in Seqs |-> KnownOf(rows)[n]]
  BY DEF KnownOf
<1> QED BY <1>2, <1>3

\* A row moves to a sequence nobody has, or changes its state where it is.
LEMMA KnownMoved ==
    ASSUME NEW rows, NEW now, Apart(rows), NEW s \in Sends, now[s].seq \in Seqs,
           \A t \in Sends : t # s => now[t] = rows[t] /\ rows[t].seq # now[s].seq
    PROVE  KnownOf(now) = [[KnownOf(rows) EXCEPT ![rows[s].seq] = "closed"]
                                          EXCEPT ![now[s].seq] = now[s].state]
<1> DEFINE k == [[KnownOf(rows) EXCEPT ![rows[s].seq] = "closed"] EXCEPT ![now[s].seq] = now[s].state]
<1>1. Apart(now)
  BY DEF Apart
<1>2. DOMAIN KnownOf(rows) = Seqs /\ DOMAIN KnownOf(now) = Seqs
  BY DEF KnownOf
<1>3. ASSUME NEW n \in Seqs PROVE KnownOf(now)[n] = k[n]
  <2>1. CASE n = now[s].seq
    <3>1. KnownOf(now)[n] = now[s].state
      BY <1>1, <2>1, KnownAt
    <3> QED BY <1>2, <2>1, <3>1
  <2>2. CASE n # now[s].seq /\ n = rows[s].seq
    <3>1. \A t \in Sends : now[t].seq # n
      BY <2>2 DEF Apart
    <3>2. KnownOf(now)[n] = "closed"
      BY <3>1, KnownNone
    <3> QED BY <1>2, <2>2, <3>2
  <2>3. CASE n # now[s].seq /\ n # rows[s].seq
    <3>1. k[n] = KnownOf(rows)[n]
      BY <1>2, <2>3
    <3>2. CASE \A t \in Sends : now[t].seq # n
      <4>1. \A t \in Sends : rows[t].seq # n
        BY <2>3, <3>2
      <4>2. KnownOf(now)[n] = "closed" /\ KnownOf(rows)[n] = "closed"
        BY <3>2, <4>1, KnownNone
      <4> QED BY <3>1, <4>2
    <3>3. ASSUME NEW t \in Sends, now[t].seq = n PROVE KnownOf(now)[n] = KnownOf(rows)[n]
      <4>1. t # s /\ now[t] = rows[t]
        BY <2>3, <3>3
      <4> QED BY <1>1, <3>3, <4>1, KnownAt
    <3> QED BY <3>1, <3>2, <3>3
  <2> QED BY <2>1, <2>2, <2>3
<1>4. DOMAIN k = Seqs
  BY <1>2
<1>5. k = [n \in Seqs |-> k[n]] /\ KnownOf(now) = [n \in Seqs |-> KnownOf(now)[n]]
  BY <1>4 DEF KnownOf
<1> QED BY <1>3, <1>5

LEMMA RowsApart ==
    ASSUME SealedInv
    PROVE  Apart(outbox)
<1> SUFFICES ASSUME NEW s \in Sends, NEW t \in Sends, outbox[s].seq \in Seqs, outbox[s].seq = outbox[t].seq
             PROVE  s = t
  BY DEF Apart
<1>1. outbox[s] # NoRow /\ outbox[t] # NoRow
  BY DEF NoRow, Seqs
<1>2. outbox[s].state # "none" /\ outbox[t].state # "none"
  BY <1>1 DEF SealedInv, TypeOK, Row, Finals, Rejections
<1>3. /\ issued[outbox[s].seq] = [send |-> s, seq |-> outbox[s].seq, req |-> outbox[s].req]
      /\ issued[outbox[t].seq] = [send |-> t, seq |-> outbox[t].seq, req |-> outbox[t].req]
  BY <1>2 DEF SealedInv, IssuedInv
<1> QED BY <1>3
-----------------------------------------------------------------------------
(* Every step is one of four.                                              *)

StreamStands == UNCHANGED <<nextSeq, issued, last, inbound, mailbox, given>>

\* Nothing that the abstract stream tells apart.
Stands ==
    /\ \A s \in Sends : outbox'[s].seq = outbox[s].seq /\ outbox'[s].state = outbox[s].state
    /\ StreamStands

\* A row learns what its sequence was given.
Learns ==
    /\ \E s \in Sends :
          /\ outbox[s].state = "pending"
          /\ outbox[s].seq \in Seqs
          /\ outbox[s].seq <= last
          /\ outbox'[s].seq = outbox[s].seq
          /\ outbox'[s].state = given[outbox[s].seq]
          /\ \A t \in Sends : t # s => outbox'[t] = outbox[t]
    /\ StreamStands

\* The next sequence is answered, and its message stored if that is the answer.
Gives ==
    /\ \E kind \in Finals :
          /\ last + 1 < nextSeq
          /\ last' = last + 1
          /\ given' = [given EXCEPT ![last + 1] = kind]
          /\ inbound' = given'
          /\ mailbox' = IF kind = "stored" THEN Append(mailbox, issued[last + 1]) ELSE mailbox
    /\ UNCHANGED originVars

LEMMA RetryStands ==
    ASSUME SealedInv, NEW m \in Message, outbox' = outbox \/ outbox' = mark_sealed_retry(m), StreamStands
    PROVE  Stands
<1>1. CASE outbox' = outbox
  BY <1>1 DEF Stands
<1>2. CASE outbox' = mark_sealed_retry(m) /\ StillAt(m)
  <2>1. m.send \in Sends /\ outbox[m.send] \in Row
    BY <1>2 DEF StillAt, Pending, SealedInv, TypeOK, NoRow
  <2>2. outbox' = [outbox EXCEPT ![m.send] = [outbox[m.send] EXCEPT !.due = FALSE]]
    BY <1>2 DEF mark_sealed_retry
  <2>3. outbox \in [Sends -> Row \cup {NoRow}]
    BY DEF SealedInv, TypeOK
  <2>4. \A s \in Sends : outbox'[s].seq = outbox[s].seq /\ outbox'[s].state = outbox[s].state
    BY <2>1, <2>2, <2>3 DEF Row
  <2> QED BY <2>4 DEF Stands
<1>3. CASE outbox' = mark_sealed_retry(m) /\ ~ StillAt(m)
  BY <1>3 DEF Stands, mark_sealed_retry
<1> QED BY <1>1, <1>2, <1>3

\* A flush has no new answer until the destination gives one.
AnswersOld ==
    \A f \in Flushes : \A i \in DOMAIN answers'[f] :
        \E j \in DOMAIN answers[f] : answers'[f][i] = answers[f][j]

LEMMA AnswersStay ==
    ASSUME SealedInv, Unpruned, AnswersOld, given' = given
    PROVE  AnswersTrue'
BY DEF Unpruned, AnswersTrue, AnswersOld

LEMMA FlushKinds ==
    ASSUME SealedInv, Unpruned, NEW f \in Flushes, Flush(f)
    PROVE  (Stands \/ Learns) /\ AnswersOld
<1> USE SealedAssumption DEF SealedInv
<1>0. answers \in [Flushes -> Seq(Answer)] /\ \A g \in Flushes : answers[g] \in Seq(Answer)
  BY DEF TypeOK
<1>1. ASSUME answers' = [answers EXCEPT ![f] = <<>>] \/ answers' = answers PROVE AnswersOld
  <2>1. DOMAIN <<>> = {}
    OBVIOUS
  <2>2. CASE answers' = [answers EXCEPT ![f] = <<>>]
    BY <1>0, <2>1, <2>2 DEF AnswersOld
  <2>3. CASE answers' = answers
    BY <2>3 DEF AnswersOld
  <2> QED BY <1>1, <2>2, <2>3
<1>2. CASE \E n \in Seqs, k \in 1 .. MaxBatch, one \in BOOLEAN : send_sealed_run(f, n, k, one)
  <2>1. UNCHANGED <<originVars, destinationVars>> /\ answers' = [answers EXCEPT ![f] = <<>>]
    BY <1>2 DEF send_sealed_run, Post
  <2>2. AnswersOld
    BY <1>1, <2>1
  <2> QED BY <2>1, <2>2 DEF Stands, StreamStands, originVars, destinationVars
<1>3. CASE send_sealed_singles(f)
  <2>1. UNCHANGED <<originVars, destinationVars>> /\ answers' = [answers EXCEPT ![f] = <<>>]
    BY <1>3 DEF send_sealed_singles, Post
  <2>2. AnswersOld
    BY <1>1, <2>1
  <2> QED BY <2>1, <2>2 DEF Stands, StreamStands, originVars, destinationVars
<1>4. CASE retry_later(f) \/ cancel(f) \/ stop_run(f)
  <2>1. /\ UNCHANGED <<nextSeq, issued, destinationVars>> /\ pc[f] # "idle"
        /\ answers' = [answers EXCEPT ![f] = <<>>]
    BY <1>4 DEF retry_later, cancel, stop_run, originVars, Finish
  <2>2. outbox' = outbox \/ outbox' = mark_sealed_retry(Head(run[f]))
    BY <1>4 DEF retry_later, cancel, stop_run, originVars
  <2>3. Head(run[f]) \in Message
    BY <2>1, BatchHead DEF FlushesInv, MessagesInv, TypeOK
  <2>4. StreamStands
    BY <2>1 DEF StreamStands, destinationVars
  <2>5. Stands
    BY <2>2, <2>3, <2>4, RetryStands
  <2> QED BY <1>1, <2>1, <2>5
<1>5. CASE apply_sealed_answer(f)
  <2> DEFINE m == Head(run[f])
             a == Head(answers[f])
             s == m.send
  <2>1. /\ pc[f] = "answered" /\ a.seq = m.seq /\ a.kind \in Finals /\ StillAt(m)
        /\ outbox' = settle_sealed_row(m, a.kind)
        /\ UNCHANGED <<nextSeq, issued, destinationVars>>
    BY <1>5 DEF apply_sealed_answer
  <2>2. /\ run[f] \in Seq(Message) /\ run[f] # <<>> /\ Batch(run[f], nextSeq, issued, last)
        /\ answers[f] \in Seq(Answer) /\ answers[f] # <<>>
    BY <2>1 DEF FlushesInv, MessagesInv, TypeOK
  <2>3. m \in Message /\ m.seq \in Seqs /\ s \in Sends
    BY <2>2, BatchHead, MessageParts
  <2>4. a = answers[f][1] /\ 1 \in DOMAIN answers[f]
    BY <2>2
  <2>5. a.kind = given[m.seq] /\ m.seq <= last
    BY <2>1, <2>4 DEF Unpruned, AnswersTrue, AnswersInv
  <2>6. outbox[s].state = "pending" /\ outbox[s].seq = m.seq /\ outbox[s] \in Row
    BY <2>1, <2>3 DEF StillAt, Pending, TypeOK, NoRow
  <2>7. outbox' = [outbox EXCEPT ![s] = [outbox[s] EXCEPT !.state = a.kind]]
    BY <2>1 DEF settle_sealed_row
  <2>8. AnswersOld
    <3>1. CASE answers' = [answers EXCEPT ![f] = <<>>]
      BY <1>1, <3>1
    <3>2. CASE answers' = [answers EXCEPT ![f] = Tail(@)]
      <4>1. answers'[f] = Tail(answers[f]) /\ \A g \in Flushes : g # f => answers'[g] = answers[g]
        BY <1>0, <3>2
      <4>2. \A i \in DOMAIN Tail(answers[f]) : i + 1 \in DOMAIN answers[f]
                                                /\ Tail(answers[f])[i] = answers[f][i + 1]
        BY <2>2
      <4> QED BY <4>1, <4>2 DEF AnswersOld
    <3>3. answers' = [answers EXCEPT ![f] = <<>>] \/ answers' = [answers EXCEPT ![f] = Tail(@)]
      BY <1>5 DEF apply_sealed_answer, Finish, Post
    <3> QED BY <3>1, <3>2, <3>3
  <2> HIDE DEF m, a, s
  <2>9. /\ outbox'[s].seq = outbox[s].seq /\ outbox'[s].state = given[m.seq]
        /\ \A t \in Sends : t # s => outbox'[t] = outbox[t]
    BY <2>3, <2>5, <2>6, <2>7 DEF TypeOK, Row
  <2>10. StreamStands
    BY <2>1 DEF StreamStands, destinationVars
  <2> QED BY <2>3, <2>5, <2>6, <2>8, <2>9, <2>10 DEF Learns
<1> QED BY <1>2, <1>3, <1>4, <1>5 DEF Flush

\* A send already in the mailbox is at the sequence it was stored under: it is
\* not the next one's.
LEMMA NextUnclaimed ==
    ASSUME SealedInv, Unpruned, NEW m \in Message, m.seq = last + 1, m.seq < nextSeq, issued[m.seq] = m
    PROVE  ~ Claimed(m)
<1> SUFFICES ASSUME Claimed(m) PROVE FALSE
  OBVIOUS
<1> USE SealedAssumption DEF SealedInv
<1>1. PICK i \in DOMAIN mailbox : mailbox[i].send = m.send
  <2>1. <<m.req.cap, m.send>> \in claims /\ <<m.req.cap, m.send>>[2] = m.send
    BY DEF Claimed
  <2> QED BY <2>1 DEF ClaimsInv
<1> DEFINE n == mailbox[i].seq
<1>2. mailbox[i] \in Message /\ n \in Seqs /\ n \in Nat
  <2>1. mailbox[i] \in Message
    BY DEF TypeOK
  <2> QED BY <2>1, MessageParts
<1>3. n <= last /\ issued[n] = mailbox[i] /\ n < nextSeq /\ given[n] = "stored"
  BY DEF ClaimsInv, Unpruned, MailIssued
<1>4. outbox[m.send].seq = n
  <2>1. "stored" \notin Rejections
    BY DEF Rejections
  <2> QED BY <1>1, <1>2, <1>3, <2>1 DEF Unpruned, RowsStay
<1>5. m.seq \in Seqs /\ m.seq \in Nat /\ last \in Nat
  BY MessageParts DEF TypeOK
<1>6. m.seq # n
  BY <1>2, <1>3, <1>5
<1>7. given[m.seq] \in Rejections
  BY <1>4, <1>5, <1>6 DEF Unpruned, RowsStay
<1>8. given[m.seq] = "none"
  BY <1>5 DEF InboundInv, TypeOK
<1> QED BY <1>7, <1>8 DEF Rejections


\* The answer a flush is given is true when its sequence got it.
LEMMA AnswerAdded ==
    ASSUME SealedInv, Unpruned, NEW x \in Servers, NEW a \in Answer,
           x \in Flushes => answers' = [answers EXCEPT ![x] = Append(@, a)],
           x \notin Flushes => answers' = answers,
           \A n \in Seqs : n <= last => given'[n] = given[n],
           a.kind \in Finals => given'[a.seq] = a.kind
    PROVE  AnswersTrue'
<1> USE SealedAssumption DEF SealedInv
<1> SUFFICES ASSUME NEW f \in Flushes, NEW i \in DOMAIN answers'[f], answers'[f][i].kind \in Finals
             PROVE  given'[answers'[f][i].seq] = answers'[f][i].kind
  BY DEF AnswersTrue
<1>1. CASE i \in DOMAIN answers[f] /\ answers'[f][i] = answers[f][i]
  <2>1. answers[f][i] \in Answer
    BY <1>1 DEF TypeOK
  <2>2. answers[f][i].seq \in Seqs
    BY <2>1 DEF Answer
  <2>3. answers[f][i].seq <= last /\ given[answers[f][i].seq] = answers[f][i].kind
    BY <1>1 DEF AnswersInv, Unpruned, AnswersTrue
  <2> QED BY <1>1, <2>2, <2>3
<1>2. CASE answers'[f][i] = a
  BY <1>2
<1>3. CASE f = x
  <2>1. answers[f] \in Seq(Answer) /\ answers'[f] = Append(answers[f], a)
    BY <1>3 DEF TypeOK
  <2> QED BY <1>1, <1>2, <2>1
<1>4. CASE f # x
  <2>1. answers'[f] = answers[f]
    BY <1>4 DEF TypeOK
  <2> QED BY <1>1, <2>1
<1> QED BY <1>3, <1>4

LEMMA DeliverKinds ==
    ASSUME SealedInv, Unpruned, NEW x \in Servers, deliver_next(x)
    PROVE  (Stands \/ Gives) /\ AnswersTrue' /\ UNCHANGED originVars
<1> USE SealedAssumption DEF SealedInv
<1> DEFINE m == Head(work[x])
<1>1. PICK kind \in Finals \cup Opens :
        /\ apply_sealed_one(m, kind)
        /\ x \in Flushes => answers' = [answers EXCEPT ![x] = Append(@, [seq |-> m.seq, kind |-> kind])]
        /\ x \notin Flushes => UNCHANGED answers
  BY DEF deliver_next
<1> DEFINE a == [seq |-> m.seq, kind |-> kind]
<1>2. work[x] # <<>> /\ UNCHANGED originVars
  BY DEF deliver_next
<1>3. work[x] \in Seq(Message) /\ Batch(work[x], nextSeq, issued, last)
  BY DEF MessagesInv, TypeOK
<1>4. m \in Message /\ m.seq < nextSeq /\ issued[m.seq] = m /\ m.seq <= last + 1
  BY <1>2, <1>3, BatchHead
<1>5. m.seq \in Seqs /\ m.seq \in Nat /\ last \in Nat /\ nextSeq \in Nat
  BY <1>4, MessageParts DEF TypeOK
<1>6. a.seq = m.seq /\ a.kind = kind /\ a \in Answer
  BY <1>5 DEF Answer
<1>7. apply_sealed_one(m, kind)
  BY <1>1
<1>8. /\ x \in Flushes => answers' = [answers EXCEPT ![x] = Append(@, a)]
      /\ x \notin Flushes => answers' = answers
  BY <1>1
<1> HIDE DEF m, a
<1>9. CASE UNCHANGED destinationVars
  <2>1. kind \in Finals => given[m.seq] = kind
    <3>1. CASE m.seq <= last /\ kind = PriorAnswer(m)
      <4>1. inbound[m.seq] = given[m.seq] /\ given[m.seq] # "none"
        BY <1>5, <3>1 DEF Unpruned, InboundInv
      <4> QED BY <3>1, <4>1 DEF PriorAnswer
    <3>2. CASE kind \in Opens
      BY <3>2 DEF Opens, Finals, Rejections
    <3>3. CASE m.seq = last + 1 /\ record_sealed_answer(m, kind)
      <4>1. last' = m.seq /\ last' = last
        BY <1>9, <3>3 DEF record_sealed_answer, destinationVars
      <4> QED BY <1>5, <3>3, <4>1
    <3> QED BY <1>7, <3>1, <3>2, <3>3 DEF apply_sealed_one, Opens
  <2>2. Stands /\ given' = given
    BY <1>2, <1>9 DEF Stands, StreamStands, originVars, destinationVars
  <2>3. AnswersTrue'
    BY <1>6, <1>8, <2>1, <2>2, AnswerAdded
  <2> QED BY <1>2, <2>2, <2>3
<1>10. CASE /\ m.seq = last + 1 /\ kind = Decision(m)
            /\ record_sealed_answer(m, kind) /\ store_sealed_messages(m, kind)
  <2>1. kind \in Finals
    BY <1>10 DEF Decision, Finals, Rejections
  <2>2. ~ Claimed(m)
    BY <1>4, <1>10, NextUnclaimed
  <2>3. mailbox' = IF kind = "stored" THEN Append(mailbox, m) ELSE mailbox
    BY <1>10, <2>2 DEF store_sealed_messages
  <2>4. /\ last' = m.seq /\ given' = [given EXCEPT ![m.seq] = kind]
        /\ inbound' = [inbound EXCEPT ![m.seq] = kind]
    BY <1>10 DEF record_sealed_answer
  <2>5. Gives
    BY <1>2, <1>4, <1>10, <2>1, <2>3, <2>4 DEF Gives, Unpruned
  <2>6. given'[m.seq] = kind /\ \A n \in Seqs : n <= last => given'[n] = given[n]
    BY <1>5, <1>10, <2>4 DEF TypeOK, Seqs
  <2>7. AnswersTrue'
    BY <1>6, <1>8, <2>6, AnswerAdded
  <2> QED BY <1>2, <2>5, <2>7
<1> QED BY <1>7, <1>9, <1>10 DEF apply_sealed_one

\* A new row, or a rejected one at a new sequence.
LEMMA EnqueueMoves ==
    ASSUME SealedInv, NEW s \in Sends, NEW c \in Content, enqueue_sealed_row(s, c)
    PROVE  /\ nextSeq \in Seqs /\ nextSeq \in Nat /\ nextSeq' = nextSeq + 1
           /\ outbox[s].state \in Rejections \cup {"none"}
           /\ outbox'[s].seq = nextSeq /\ outbox'[s].state = "pending"
           /\ \A t \in Sends : t # s => outbox'[t] = outbox[t]
           /\ \A t \in Sends : outbox[t].seq # nextSeq
           /\ [send |-> s, seq |-> nextSeq, req |-> c] \in Message
           /\ issued' = [issued EXCEPT ![nextSeq] = [send |-> s, seq |-> nextSeq, req |-> c]]
           /\ issued'[nextSeq] = [send |-> s, seq |-> nextSeq, req |-> c]
           /\ \A n \in Seqs : n # nextSeq => issued'[n] = issued[n]
           /\ UNCHANGED <<flushVars, destinationVars>>
<1> USE SealedAssumption DEF SealedInv
<1> DEFINE new == [seq |-> nextSeq, req |-> c, state |-> "pending", due |-> TRUE]
           m == [send |-> s, seq |-> nextSeq, req |-> c]
<1>1. /\ outbox[s].state \in Rejections \cup {"none"} /\ nextSeq <= MaxSeq /\ nextSeq' = nextSeq + 1
      /\ outbox' = [outbox EXCEPT ![s] = new]
      /\ issued' = [issued EXCEPT ![nextSeq] = m]
      /\ UNCHANGED <<flushVars, destinationVars>>
  BY DEF enqueue_sealed_row, enqueue_sealed_new, requeue_sealed, next_sealed_sequence
<1>2. nextSeq \in Nat /\ nextSeq \in Seqs
  BY <1>1 DEF TypeOK, Seqs
<1>3. new.seq = nextSeq /\ new.state = "pending" /\ m \in Message
  BY <1>2 DEF Message
<1> HIDE DEF new
<1>4. /\ outbox'[s] = new
      /\ \A t \in Sends : t # s => outbox'[t] = outbox[t]
  BY <1>1 DEF TypeOK
<1>5. ASSUME NEW t \in Sends PROVE outbox[t].seq # nextSeq
  <2>1. CASE outbox[t] = NoRow
    BY <1>2, <2>1 DEF NoRow, Seqs
  <2>2. CASE outbox[t] \in Row
    <3>1. outbox[t].state # "none" /\ outbox[t].seq \in Seqs
      BY <2>2 DEF Row, Finals, Rejections
    <3>2. outbox[t].seq < nextSeq
      BY <3>1 DEF IssuedInv
    <3> QED BY <1>2, <3>1, <3>2 DEF Seqs
  <2> QED BY <2>1, <2>2 DEF TypeOK
<1>6. issued'[nextSeq] = m /\ \A n \in Seqs : n # nextSeq => issued'[n] = issued[n]
  BY <1>1, <1>2 DEF TypeOK
<1> QED BY <1>1, <1>2, <1>3, <1>4, <1>5, <1>6


-----------------------------------------------------------------------------
(* Each kind of step keeps the above, and is a step of the abstract stream.*)

LEMMA StandsKeep ==
    ASSUME SealedInv, Unpruned, Stands, AnswersTrue'
    PROVE  Unpruned' /\ UNCHANGED Stream!streamVars
<1> USE DEF Unpruned, Stands, StreamStands
<1>1. RowsTrue' /\ MailIssued' /\ inbound' = given'
  BY DEF RowsTrue, MailIssued
<1>2. RowsStay'
  <2>1. ASSUME NEW n \in Seqs, n < nextSeq PROVE issued[n].send \in Sends
    <3>1. issued[n] \in Message
      BY <2>1 DEF SealedInv, IssuedInv
    <3> QED BY <3>1, MessageParts
  <2> QED BY <2>1 DEF RowsStay
<1>3. Known' = Known
  <2>1. KnownOf(outbox') = KnownOf(outbox)
    BY RowsApart, KnownSame
  <2> QED BY <2>1 DEF Known, KnownOf
<1> QED BY <1>1, <1>2, <1>3 DEF Stream!streamVars

LEMMA LearnsKeep ==
    ASSUME SealedInv, Unpruned, Learns, AnswersTrue'
    PROVE  Unpruned' /\ \E n \in Seqs : Stream!Learn(n)
<1> USE DEF Unpruned, StreamStands
<1>1. PICK s \in Sends :
          /\ outbox[s].state = "pending"
          /\ outbox[s].seq \in Seqs
          /\ outbox[s].seq <= last
          /\ outbox'[s].seq = outbox[s].seq
          /\ outbox'[s].state = given[outbox[s].seq]
          /\ \A t \in Sends : t # s => outbox'[t] = outbox[t]
  BY DEF Learns
<1>2. StreamStands
  BY DEF Learns
<1>3. given[outbox[s].seq] # "none"
  BY <1>1 DEF SealedInv, InboundInv
<1>4. RowsTrue' /\ MailIssued' /\ inbound' = given'
  BY <1>1, <1>2 DEF RowsTrue, MailIssued
<1>5. RowsStay'
  <2>1. ASSUME NEW n \in Seqs, n < nextSeq PROVE issued[n].send \in Sends
    <3>1. issued[n] \in Message
      BY <2>1 DEF SealedInv, IssuedInv
    <3> QED BY <3>1, MessageParts
  <2>2. \A t \in Sends : outbox'[t].seq = outbox[t].seq /\ (outbox[t].state # "none" => outbox'[t].state # "none")
    BY <1>1, <1>3
  <2> QED BY <1>2, <2>1, <2>2 DEF RowsStay
<1> DEFINE n == outbox[s].seq
<1>6. Known' = [Known EXCEPT ![n] = given[n]]
  <2>1. \A t \in Sends : t # s => outbox'[t] = outbox[t] /\ outbox[t].seq # outbox'[s].seq
    BY <1>1, RowsApart DEF Apart
  <2>2. KnownOf(outbox') = [[KnownOf(outbox) EXCEPT ![outbox[s].seq] = "closed"]
                                             EXCEPT ![outbox'[s].seq] = outbox'[s].state]
    BY <1>1, <2>1, RowsApart, KnownMoved
  <2>3. KnownOf(outbox') = [KnownOf(outbox) EXCEPT ![n] = given[n]]
    BY <1>1, <2>2
  <2> QED BY <2>3 DEF Known, KnownOf
<1>7. Known[n] = "pending"
  <2>1. KnownOf(outbox)[n] = "pending"
    BY <1>1, RowsApart, KnownAt
  <2> QED BY <2>1 DEF Known, KnownOf
<1>8. Stream!Learn(n)
  BY <1>1, <1>2, <1>6, <1>7 DEF Stream!Learn
<1> QED BY <1>1, <1>4, <1>5, <1>8

LEMMA GivesKeep ==
    ASSUME SealedInv, Unpruned, Gives, AnswersTrue'
    PROVE  Unpruned' /\ \E kind \in Finals : Stream!Give(kind)
<1> USE SealedAssumption DEF Unpruned
<1>1. PICK kind \in Finals :
          /\ last + 1 < nextSeq
          /\ last' = last + 1
          /\ given' = [given EXCEPT ![last + 1] = kind]
          /\ inbound' = given'
          /\ mailbox' = IF kind = "stored" THEN Append(mailbox, issued[last + 1]) ELSE mailbox
  BY DEF Gives
<1>2. UNCHANGED <<nextSeq, outbox, issued>>
  BY DEF Gives, originVars
<1>3. last \in Nat /\ nextSeq \in Nat /\ last + 1 \in Seqs
  BY <1>1 DEF SealedInv, TypeOK, Seqs
<1>4. given'[last + 1] = kind /\ \A n \in Seqs : given[n] # "none" => n # last + 1 /\ given'[n] = given[n]
  <2>1. given[last + 1] = "none"
    BY <1>3 DEF SealedInv, InboundInv
  <2> QED BY <1>1, <1>3, <2>1 DEF SealedInv, TypeOK
<1>5. RowsTrue'
  <2> SUFFICES ASSUME NEW s \in Sends, outbox[s].state \in Finals
               PROVE  given'[outbox[s].seq] = outbox[s].state
    BY <1>2 DEF RowsTrue
  <2>1. outbox[s].state # "none"
    BY DEF Finals, Rejections
  <2>2. outbox[s].seq \in Seqs
    BY <2>1 DEF SealedInv, IssuedInv, Row
  <2>3. given[outbox[s].seq] = outbox[s].state
    BY DEF RowsTrue
  <2> QED BY <1>4, <2>1, <2>2, <2>3
<1>6. RowsStay'
  <2>1. "none" \notin Rejections
    BY DEF Rejections
  <2> QED BY <1>2, <1>4, <2>1 DEF RowsStay
<1>7. MailIssued'
  <2>1. ASSUME NEW i \in DOMAIN mailbox
        PROVE  /\ issued[mailbox[i].seq] = mailbox[i] /\ mailbox[i].seq < nextSeq
               /\ given'[mailbox[i].seq] = "stored"
    <3>1. mailbox[i] \in Message
      BY DEF SealedInv, TypeOK
    <3>2. mailbox[i].seq \in Seqs
      BY <3>1, MessageParts
    <3> QED BY <1>4, <3>2 DEF MailIssued
  <2>2. CASE kind = "stored"
    <3>1. issued[last + 1] \in Message /\ issued[last + 1].seq = last + 1
      BY <1>1, <1>3 DEF SealedInv, IssuedInv
    <3>2. mailbox \in Seq(Message) /\ mailbox' = Append(mailbox, issued[last + 1])
      BY <1>1, <2>2 DEF SealedInv, TypeOK
    <3>3. ASSUME NEW i \in DOMAIN mailbox'
          PROVE  (i \in DOMAIN mailbox /\ mailbox'[i] = mailbox[i]) \/ mailbox'[i] = issued[last + 1]
      BY <3>1, <3>2
    <3> QED BY <1>1, <1>2, <1>4, <2>1, <2>2, <3>1, <3>3 DEF MailIssued
  <2>3. CASE kind # "stored"
    BY <1>1, <1>2, <2>1, <2>3 DEF MailIssued
  <2> QED BY <2>2, <2>3
<1>8. Known' = Known
  BY <1>2 DEF Known
<1>9. Stream!Give(kind)
  BY <1>1, <1>2, <1>8 DEF Stream!Give
<1> QED BY <1>1, <1>5, <1>6, <1>7, <1>9

LEMMA EnqueueGoes ==
    ASSUME SealedInv, Unpruned, NEW s \in Sends, NEW c \in Content, enqueue_sealed_row(s, c)
    PROVE  /\ Unpruned'
           /\ \/ \E e \in Message : Stream!Issue(e)
              \/ \E n \in Seqs, e \in Message : Stream!Correct(n, e)
<1> USE SealedAssumption DEF Unpruned
<1> DEFINE m == [send |-> s, seq |-> nextSeq, req |-> c]
<1>1. /\ nextSeq \in Seqs /\ nextSeq \in Nat /\ nextSeq' = nextSeq + 1
      /\ outbox[s].state \in Rejections \cup {"none"}
      /\ outbox'[s].seq = nextSeq /\ outbox'[s].state = "pending"
      /\ \A t \in Sends : t # s => outbox'[t] = outbox[t]
      /\ \A t \in Sends : outbox[t].seq # nextSeq
      /\ m \in Message
      /\ issued' = [issued EXCEPT ![nextSeq] = m]
      /\ issued'[nextSeq] = m
      /\ \A n \in Seqs : n # nextSeq => issued'[n] = issued[n]
      /\ UNCHANGED <<flushVars, destinationVars>>
  BY EnqueueMoves
<1>2. m.send = s /\ m.seq = nextSeq
  OBVIOUS
<1> HIDE DEF m
<1>3. UNCHANGED <<last, inbound, mailbox, given, answers>>
  BY <1>1 DEF flushVars, destinationVars
<1>4. AnswersTrue' /\ RowsTrue' /\ inbound' = given'
  BY <1>1, <1>3 DEF AnswersTrue, RowsTrue, Finals, Rejections
<1>5. ASSUME NEW n \in Seqs, n < nextSeq
      PROVE  /\ issued[n].send \in Sends /\ issued[n].seq = n /\ n \in Nat
             /\ issued'[n] = issued[n]
  <2>1. issued[n] \in Message /\ issued[n].seq = n
    BY <1>5 DEF SealedInv, IssuedInv
  <2>2. n # nextSeq /\ n \in Nat
    BY <1>1, <1>5 DEF Seqs
  <2> QED BY <1>1, <2>1, <2>2, MessageParts
\* The sequence a rejected row leaves was given that rejection.
<1>6. ASSUME outbox[s].state # "none"
      PROVE  /\ outbox[s].seq \in Seqs /\ outbox[s].seq < nextSeq /\ issued[outbox[s].seq].send = s
             /\ given[outbox[s].seq] = outbox[s].state /\ outbox[s].state \in Rejections
  <2>1. /\ outbox[s] \in Row /\ outbox[s].seq < nextSeq
        /\ issued[outbox[s].seq] = [send |-> s, seq |-> outbox[s].seq, req |-> outbox[s].req]
    BY <1>6 DEF SealedInv, IssuedInv
  <2>2. outbox[s].seq \in Seqs /\ issued[outbox[s].seq].send = s
    BY <2>1 DEF Row
  <2>3. outbox[s].state \in Rejections
    BY <1>1, <1>6
  <2>4. given[outbox[s].seq] = outbox[s].state
    BY <2>3 DEF RowsTrue, Finals
  <2> QED BY <2>1, <2>2, <2>3, <2>4
<1>7. RowsStay'
  <2> SUFFICES ASSUME NEW n \in Seqs, n < nextSeq'
               PROVE  /\ outbox'[issued'[n].send].state # "none"
                      /\ outbox'[issued'[n].send].seq # n => given[n] \in Rejections
    BY <1>3 DEF RowsStay
  <2>1. CASE n = nextSeq
    BY <1>1, <1>2, <2>1
  <2>2. CASE n < nextSeq
    <3>1. /\ outbox[issued[n].send].state # "none"
          /\ outbox[issued[n].send].seq # n => given[n] \in Rejections
      BY <2>2 DEF RowsStay
    <3>2. CASE issued[n].send # s
      BY <1>1, <1>5, <2>2, <3>1, <3>2
    <3>3. CASE issued[n].send = s
      <4>1. given[n] \in Rejections
        BY <1>6, <3>1, <3>3
      <4> QED BY <1>1, <1>5, <2>2, <3>3, <4>1
    <3> QED BY <3>2, <3>3
  <2> QED BY <1>1, <2>1, <2>2 DEF Seqs
<1>8. MailIssued'
  <2> SUFFICES ASSUME NEW i \in DOMAIN mailbox
               PROVE  /\ issued'[mailbox[i].seq] = mailbox[i] /\ mailbox[i].seq < nextSeq'
                      /\ given[mailbox[i].seq] = "stored"
    BY <1>3 DEF MailIssued
  <2>1. mailbox[i] \in Message
    BY DEF SealedInv, TypeOK
  <2>2. mailbox[i].seq \in Seqs /\ mailbox[i].seq \in Nat
    BY <2>1, MessageParts
  <2>3. /\ issued[mailbox[i].seq] = mailbox[i] /\ mailbox[i].seq < nextSeq
        /\ given[mailbox[i].seq] = "stored"
    BY DEF MailIssued
  <2> QED BY <1>1, <1>5, <2>2, <2>3
<1>9. Known' = [[Known EXCEPT ![outbox[s].seq] = "closed"] EXCEPT ![nextSeq] = "pending"]
  <2>1. \A t \in Sends : t # s => outbox'[t] = outbox[t] /\ outbox[t].seq # outbox'[s].seq
    BY <1>1
  <2>2. outbox'[s].seq \in Seqs
    BY <1>1
  <2>3. KnownOf(outbox') = [[KnownOf(outbox) EXCEPT ![outbox[s].seq] = "closed"]
                                             EXCEPT ![outbox'[s].seq] = outbox'[s].state]
    BY <2>1, <2>2, RowsApart, KnownMoved
  <2>4. KnownOf(outbox') = [[KnownOf(outbox) EXCEPT ![outbox[s].seq] = "closed"] EXCEPT ![nextSeq] = "pending"]
    BY <1>1, <2>3
  <2> QED BY <2>4 DEF Known, KnownOf
<1>10. CASE outbox[s].state = "none"
  <2>1. outbox[s].seq \notin Seqs
    <3>1. outbox[s] \in Row \cup {NoRow}
      BY DEF SealedInv, TypeOK
    <3>2. outbox[s] \notin Row
      BY <1>10 DEF Row, Finals, Rejections
    <3> QED BY <3>1, <3>2 DEF NoRow, Seqs
  <2>2. DOMAIN Known = Seqs
    BY DEF Known
  <2>3. [Known EXCEPT ![outbox[s].seq] = "closed"] = Known
    BY <2>1, <2>2 DEF Known
  <2>4. \A n \in Seqs : n < nextSeq => issued[n].send # s
    BY <1>10 DEF RowsStay
  <2>5. Known' = [Known EXCEPT ![nextSeq] = "pending"]
    BY <1>9, <2>3
  <2>6. Stream!Issue(m)
    BY <1>1, <1>2, <1>3, <2>4, <2>5 DEF Stream!Issue, Stream!Put, Stream!Positions, SendOf, Seqs
  <2> QED BY <1>1, <1>4, <1>7, <1>8, <2>6
<1>11. CASE outbox[s].state # "none"
  <2>1. Known[outbox[s].seq] \in Rejections
    <3>1. KnownOf(outbox)[outbox[s].seq] = outbox[s].state
      BY <1>6, <1>11, RowsApart, KnownAt
    <3> QED BY <1>6, <1>11, <3>1 DEF Known, KnownOf
  <2>2. Stream!Correct(outbox[s].seq, m)
    BY <1>1, <1>2, <1>3, <1>6, <1>9, <1>11, <2>1 DEF Stream!Correct, Stream!Put,
       Stream!Positions, SendOf, Seqs
  <2> QED BY <1>1, <1>4, <1>6, <1>7, <1>8, <1>11, <2>2
<1> QED BY <1>10, <1>11


LEMMA UnprunedStart == Init => Unpruned /\ Stream!StreamInit
<1> SUFFICES ASSUME Init PROVE Unpruned /\ Stream!StreamInit
  OBVIOUS
<1> USE SealedAssumption DEF Init
<1>1. AnswersTrue /\ MailIssued /\ inbound = given
  BY DEF AnswersTrue, MailIssued
<1>2. RowsTrue /\ RowsStay
  BY DEF RowsTrue, RowsStay, NoRow, Finals, Rejections, Seqs
<1>3. Known = [n \in Seqs |-> "closed"]
  <2>1. \A n \in Seqs : \A s \in Sends : outbox[s].seq # n
    BY DEF NoRow, Seqs
  <2> QED BY <2>1 DEF Known
<1> QED BY <1>1, <1>2, <1>3 DEF Unpruned, Stream!StreamInit, Stream!Positions, Seqs

\* Without retention no record goes.
LEMMA NothingPruned ==
    ASSUME SealedInv, MaxPruned = 0, NEW n \in Seqs, prune_inbound(n)
    PROVE  FALSE
<1> DEFINE S == {k \in 1 .. last : inbound[k] = "none"}
<1>1. last \in Nat
  BY SealedAssumption DEF SealedInv, TypeOK
<1>2. IsFiniteSet(1 .. last)
  BY <1>1, FS_Interval
<1>3. IsFiniteSet(S)
  BY <1>2, FS_Subset
<1>4. Cardinality(S) \in Nat
  BY <1>3, FS_CardinalityType
<1>5. Cardinality(S) < 0
  BY DEF prune_inbound
<1> HIDE DEF S
<1> QED BY <1>4, <1>5

LEMMA UnprunedStep ==
    ASSUME MaxPruned = 0
    PROVE  SealedInv /\ Unpruned /\ [Next]_vars => Unpruned' /\ [Stream!StreamNext]_(Stream!streamVars)
<1> SUFFICES ASSUME SealedInv, Unpruned, [Next]_vars
             PROVE  Unpruned' /\ (Stream!StreamNext \/ UNCHANGED Stream!streamVars)
  OBVIOUS
<1> USE SealedAssumption
<1>0. Stream!Positions = Seqs
  BY DEF Stream!Positions, Seqs
<1>1. ASSUME Stands, answers' = answers PROVE Unpruned' /\ UNCHANGED Stream!streamVars
  <2>1. AnswersTrue'
    BY <1>1 DEF Unpruned, AnswersTrue, Stands, StreamStands
  <2> QED BY <1>1, <2>1, StandsKeep
<1>2. CASE UNCHANGED vars
  <2>1. Stands /\ answers' = answers
    BY <1>2 DEF vars, Stands, StreamStands
  <2> QED BY <1>1, <2>1
<1>3. ASSUME NEW s \in Sends, NEW c \in Content, enqueue_sealed_row(s, c)
      PROVE  Unpruned' /\ Stream!StreamNext
  BY <1>0, <1>3, EnqueueGoes DEF Stream!StreamNext
<1>4. ASSUME NEW s \in Sends, prune_outbox(s) \/ elapse(s)
      PROVE  Unpruned' /\ UNCHANGED Stream!streamVars
  <2>1. elapse(s)
    BY <1>4 DEF prune_outbox
  <2>2. UNCHANGED <<nextSeq, issued, flushVars, destinationVars>>
    BY <2>1 DEF elapse
  <2>3. outbox[s] \in Row
    BY <2>1 DEF elapse, SealedInv, TypeOK, NoRow
  <2>4. outbox' = [outbox EXCEPT ![s] = [outbox[s] EXCEPT !.due = TRUE]]
    BY <2>1 DEF elapse
  <2>5. \A t \in Sends : outbox'[t].seq = outbox[t].seq /\ outbox'[t].state = outbox[t].state
    BY <2>3, <2>4 DEF SealedInv, TypeOK, Row
  <2>6. Stands /\ answers' = answers
    BY <2>2, <2>5 DEF Stands, StreamStands, flushVars, destinationVars
  <2> QED BY <1>1, <2>6
<1>5. ASSUME NEW f \in Flushes, Flush(f)
      PROVE  Unpruned' /\ (Stream!StreamNext \/ UNCHANGED Stream!streamVars)
  <2>1. (Stands \/ Learns) /\ AnswersOld
    BY <1>5, FlushKinds
  <2>2. given' = given
    BY <2>1 DEF Stands, Learns, StreamStands
  <2>3. AnswersTrue'
    BY <2>1, <2>2, AnswersStay
  <2> QED BY <1>0, <2>1, <2>3, StandsKeep, LearnsKeep DEF Stream!StreamNext
<1>6. ASSUME NEW x \in Servers, deliver_next(x)
      PROVE  Unpruned' /\ (Stream!StreamNext \/ UNCHANGED Stream!streamVars)
  <2>1. (Stands \/ Gives) /\ AnswersTrue'
    BY <1>6, DeliverKinds
  <2> QED BY <2>1, StandsKeep, GivesKeep DEF Stream!StreamNext
<1>7. ASSUME \/ \E x \in Strays : arrive_late(x) \/ abandon(x)
             \/ \E c \in Capabilities : rotate_capability(c)
             \/ \E d \in DeviceLists : change_devices(d)
             \/ upgrade
      PROVE  Unpruned' /\ UNCHANGED Stream!streamVars
  <2>1. UNCHANGED <<originVars, flushVars, destinationVars>>
    BY <1>7 DEF arrive_late, abandon, rotate_capability, change_devices, upgrade
  <2>2. Stands /\ answers' = answers
    BY <2>1 DEF Stands, StreamStands, originVars, flushVars, destinationVars
  <2> QED BY <1>1, <2>2
<1>8. ~ \E n \in Seqs : prune_inbound(n)
  BY NothingPruned
<1> QED BY <1>2, <1>3, <1>4, <1>5, <1>6, <1>7, <1>8 DEF Next

\* While nothing is pruned, rows, overlapping flushes, batches cut anywhere and
\* late requests together implement the abstract stream.
THEOREM SealedImplements ==
    ASSUME MaxPruned = 0
    PROVE  Spec => ImplementsStream
<1>1. Init => Unpruned /\ Stream!StreamInit
  BY UnprunedStart
<1>2. SealedInv /\ Unpruned /\ [Next]_vars => Unpruned' /\ [Stream!StreamNext]_(Stream!streamVars)
  BY UnprunedStep
<1> QED BY <1>1, <1>2, SealedAlways, PTL DEF Spec, ImplementsStream, Stream!StreamSpec
=============================================================================

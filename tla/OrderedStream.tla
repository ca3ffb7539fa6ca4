---------------------------- MODULE OrderedStream ----------------------------
(***************************************************************************)
(* What the outbox and the inbound stream of one (kind, origin,            *)
(* destination) promise together, without rows, attempts, network or       *)
(* retention: every entry put into the stream is answered exactly once and *)
(* in order, the recipient gets the accepted ones in that order, and the   *)
(* origin learns the real answer, or that it is no longer known.  An entry *)
(* is put in again only when it is known to have been rejected in a way    *)
(* its sender can correct.                                                 *)
(***************************************************************************)
EXTENDS Naturals, Sequences

CONSTANTS
    Entries,     \* what is put in
    NoEntry,
    IdOf(_),     \* the id of an entry, which a correction keeps
    Finals,      \* the answers
    Corrigible,  \* the answers after which an entry may be put in again
    MaxSeq       \* bound on the positions of the stream

VARIABLES
    next,      \* the next position
    issued,    \* the entry at each position
    upto,      \* positions answered: 1 .. upto
    given,     \* the answer at each position
    inbox,     \* the entries stored for the recipient, in order
    known      \* what the origin holds about each position

streamVars == <<next, issued, upto, given, inbox, known>>

Positions == 1 .. MaxSeq

StreamInit ==
    /\ next = 1
    /\ issued = [n \in Positions |-> NoEntry]
    /\ upto = 0
    /\ given = [n \in Positions |-> "none"]
    /\ inbox = <<>>
    /\ known = [n \in Positions |-> "closed"]

Put(e, view) ==
    /\ next \in Positions
    /\ next' = next + 1
    /\ issued' = [issued EXCEPT ![next] = e]
    /\ known' = [view EXCEPT ![next] = "pending"]
    /\ UNCHANGED <<upto, given, inbox>>

\* A new entry, under an id never used before.
Issue(e) ==
    /\ Put(e, known)
    /\ \A n \in Positions : n < next => IdOf(issued[n]) # IdOf(e)

\* An entry known to have been rejected, corrected.
Correct(n, e) ==
    /\ known[n] \in Corrigible
    /\ IdOf(issued[n]) = IdOf(e)
    /\ Put(e, [known EXCEPT ![n] = "closed"])

\* The next position gets its one answer.
Give(answer) ==
    /\ upto + 1 < next
    /\ upto' = upto + 1
    /\ given' = [given EXCEPT ![upto + 1] = answer]
    /\ inbox' = IF answer = "stored" THEN Append(inbox, issued[upto + 1]) ELSE inbox
    /\ UNCHANGED <<next, issued, known>>

\* The origin learns the answer, or only that there was one.
Learn(n) ==
    /\ n <= upto
    /\ known[n] = "pending"
    /\ \E k \in {given[n], "gone"} : known' = [known EXCEPT ![n] = k]
    /\ UNCHANGED <<next, issued, upto, given, inbox>>

\* The origin forgets what it had learned.
Forget(n) ==
    /\ known[n] \notin {"pending", "closed"}
    /\ known' = [known EXCEPT ![n] = "closed"]
    /\ UNCHANGED <<next, issued, upto, given, inbox>>

StreamNext ==
    \/ \E e \in Entries : Issue(e)
    \/ \E n \in Positions, e \in Entries : Correct(n, e)
    \/ \E answer \in Finals : Give(answer)
    \/ \E n \in Positions : Learn(n) \/ Forget(n)

StreamSpec == StreamInit /\ [][StreamNext]_streamVars
=============================================================================

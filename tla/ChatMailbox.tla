---------------------------- MODULE ChatMailbox ----------------------------
(***************************************************************************)
(* One account's chat mailbox: senders store envelopes for its listed      *)
(* devices in database transactions of their own, and each device's client *)
(* drains its rows by cursor, journals them, reads them and acknowledges   *)
(* them.                                                                   *)
(*                                                                         *)
(* A cursor is drawn from a database sequence when its row is inserted and *)
(* is seen when the transaction commits.  A push only makes the client     *)
(* drain, so it is any moment at which a pass starts.  The database, the   *)
(* connection and the client's process may fail between any two steps; the *)
(* client's journal, cursor and history are one durable store.             *)
(*                                                                         *)
(* The sender's retries use the same sendId, which is recognised for as    *)
(* long as its claim is kept: CHAT_SEND_RETENTION_DAYS for a direct send,  *)
(* the mailbox's own retention for a multi-recipient one (30 days each).   *)
(* What an envelope holds, page bytes and the shared payload of a          *)
(* multi-recipient send are left out.                                      *)
(***************************************************************************)
EXTENDS Naturals, Sequences, FiniteSets

CONSTANTS
    Sends,       \* sendIds
    Multi,       \* those that are multi-recipient sends
    Devices,     \* the account's devices, over time
    Online,      \* those whose client is open at times
    MaxCursor,   \* bound on the cursors drawn
    PageSize     \* limit of a drain page

ASSUME MailboxAssumption ==
    /\ Multi \subseteq Sends
    /\ Online \subseteq Devices
    /\ MaxCursor \in Nat
    /\ PageSize \in Nat \ {0}

VARIABLES
    devices,     \* the device list
    claims,      \* chat_sends
    multiClaims, \* chat_multi_send_ids
    forgotten,   \* history: the sends and devices whose claim was swept
    nextCursor,  \* chat_mailbox_cursor_seq
    drawn,       \* history: the send each cursor was drawn for
    owed,        \* per open transaction: devices without their row yet
    open,        \* per open transaction: the rows nobody else sees
    mailbox,     \* chat_mailbox
    pc,          \* per device: where its client's receive pass stands
    todo,        \* cursors this pass has not tried to read yet
    page,        \* the page it was given
    more,        \* whether rows follow the page
    journal,     \* the client's inbound journal, by cursor
    cursor,      \* last_cursor, durable
    reads,       \* history: what the device has read, in order
    handled,     \* history: cursors read or given up on
    stored,      \* history: every row that was committed and not swept
    late         \* history: rows committed after a higher cursor, or after
                 \* one that was rolled back

sendVars == <<claims, multiClaims, forgotten, nextCursor, drawn, owed, open>>
clientVars == <<pc, todo, page, more, journal, cursor, reads, handled>>
vars == <<devices, claims, multiClaims, forgotten, nextCursor, drawn, owed, open, mailbox, pc,
          todo, page, more, journal, cursor, reads, handled, stored, late>>

Cursors == 1 .. MaxCursor
Row == [cursor : Cursors, device : Devices, send : Sends]

TypeOK ==
    /\ devices \in [Devices -> {"new", "listed", "expired", "gone"}]
    /\ claims \subseteq Sends
    /\ multiClaims \subseteq Sends \X Devices
    /\ forgotten \subseteq Sends \X Devices
    /\ nextCursor \in 1 .. MaxCursor + 1
    /\ drawn \in Seq(Sends)
    /\ owed \in [Sends -> SUBSET Devices]
    /\ open \in [Sends -> SUBSET Row]
    /\ mailbox \subseteq Row
    /\ pc \in [Devices -> {"idle", "process", "acked", "drain", "page"}]
    /\ todo \in [Devices -> SUBSET Cursors]
    /\ page \in [Devices -> SUBSET Row]
    /\ more \in [Devices -> BOOLEAN]
    /\ journal \in [Devices -> [Cursors -> {"none", "pendingDecrypt", "pendingAck"}]]
    /\ cursor \in [Devices -> 0 .. MaxCursor]
    /\ reads \in [Devices -> Seq(Sends)]
    /\ handled \in [Devices -> SUBSET Cursors]
    /\ stored \subseteq Row
    /\ late \subseteq Row

Init ==
    /\ devices \in [Devices -> {"new", "listed"}]
    /\ claims = {}
    /\ multiClaims = {}
    /\ forgotten = {}
    /\ nextCursor = 1
    /\ drawn = <<>>
    /\ owed = [s \in Sends |-> {}]
    /\ open = [s \in Sends |-> {}]
    /\ mailbox = {}
    /\ pc = [d \in Devices |-> "idle"]
    /\ todo = [d \in Devices |-> {}]
    /\ page = [d \in Devices |-> {}]
    /\ more = [d \in Devices |-> FALSE]
    /\ journal = [d \in Devices |-> [c \in Cursors |-> "none"]]
    /\ cursor = [d \in Devices |-> 0]
    /\ reads = [d \in Devices |-> <<>>]
    /\ handled = [d \in Devices |-> {}]
    /\ stored = {}
    /\ late = {}

Listed == {d \in Devices : devices[d] = "listed"}
Expired == {d \in Devices : devices[d] = "expired"}

IsOpen(s) == owed[s] # {} \/ open[s] # {}

-----------------------------------------------------------------------------
(* A sender: deliver_messages, and deliver_multi's store.                  *)

\* Mutant of Unclaimed: an accepted direct send is not recognised.
Unclaimed_direct(s) ==
    IF s \in Multi THEN {d \in Listed : <<s, d>> \notin multiClaims} ELSE Listed

\* The devices a send would store a row for: all of them the first time, and
\* again once its claim was swept; a multi-recipient retry still serves devices
\* added since.
Unclaimed(s) ==
    IF s \in Multi THEN {d \in Listed : <<s, d>> \notin multiClaims}
    ELSE IF s \in claims THEN {} ELSE Listed

\* A send whose device list is the current one claims its id.  (Another list is
\* answered with a mismatch and a claimed id as stored: both leave nothing.  A
\* second request with the id waits for the first one's transaction; a sweep while
\* it is open is as good as one before it, as nothing else reads the claims.)
claim_send(s) ==
    /\ ~ IsOpen(s)
    /\ Unclaimed(s) # {}
    /\ nextCursor + Cardinality(Unclaimed(s)) <= MaxCursor + 1
    /\ owed' = [owed EXCEPT ![s] = Unclaimed(s)]
    /\ UNCHANGED <<devices, claims, multiClaims, forgotten, nextCursor, drawn, open, mailbox,
                   clientVars, stored, late>>

insert_envelope(s, d) ==
    /\ d \in owed[s]
    /\ nextCursor <= MaxCursor
    /\ nextCursor' = nextCursor + 1
    /\ drawn' = Append(drawn, s)
    /\ owed' = [owed EXCEPT ![s] = @ \ {d}]
    /\ open' = [open EXCEPT ![s] = @ \cup {[cursor |-> nextCursor, device |-> d, send |-> s]}]
    /\ UNCHANGED <<devices, claims, multiClaims, forgotten, mailbox, clientVars, stored, late>>

\* The cursor's row is not committed yet.
Drawn(c) == \E t \in Sends : \E r \in open[t] : r.cursor = c

commit_send(s) ==
    /\ open[s] # {}
    /\ owed[s] = {}
    /\ mailbox' = mailbox \cup open[s]
    /\ stored' = stored \cup open[s]
    /\ late' = late \cup {r \in open[s] : \E c \in r.cursor + 1 .. nextCursor - 1 : ~ Drawn(c)}
    /\ open' = [open EXCEPT ![s] = {}]
    /\ IF s \in Multi
       THEN /\ multiClaims' = multiClaims \cup {<<s, r.device>> : r \in open[s]}
            /\ UNCHANGED claims
       ELSE /\ claims' = claims \cup {s}
            /\ UNCHANGED multiClaims
    /\ UNCHANGED <<devices, forgotten, nextCursor, drawn, owed, clientVars>>

\* A query fails or the server stops: the cursors drawn are gone.
rollback_send(s) ==
    /\ IsOpen(s)
    /\ owed' = [owed EXCEPT ![s] = {}]
    /\ open' = [open EXCEPT ![s] = {}]
    /\ UNCHANGED <<devices, claims, multiClaims, forgotten, nextCursor, drawn, mailbox,
                   clientVars, stored, late>>

-----------------------------------------------------------------------------
(* The device list and retention.                                          *)

\* Mutant of NoSendOpen: the list changes under a send.
NoSendOpen_ever == TRUE

\* Registration, revocation and manifests take FOR UPDATE on the account's row,
\* which waits for every send's FOR SHARE.
NoSendOpen == \A s \in Sends : ~ IsOpen(s)

register_device(d) ==
    /\ devices[d] = "new"
    /\ NoSendOpen
    /\ devices' = [devices EXCEPT ![d] = "listed"]
    /\ UNCHANGED <<sendVars, mailbox, clientVars, stored, late>>

\* A receive pass's own variables end with it.
PassOver(d) ==
    /\ pc' = [pc EXCEPT ![d] = "idle"]
    /\ todo' = [todo EXCEPT ![d] = {}]
    /\ page' = [page EXCEPT ![d] = {}]
    /\ more' = [more EXCEPT ![d] = FALSE]

\* Revoked, or dropped by a manifest, as an expired one is by the account's next.
\* Its rows and claims go with it, and its client is told it is gone.
revoke_device(d) ==
    /\ devices[d] \in {"listed", "expired"}
    /\ NoSendOpen
    /\ devices' = [devices EXCEPT ![d] = "gone"]
    /\ mailbox' = {r \in mailbox : r.device # d}
    /\ stored' = {r \in stored : r.device # d}
    /\ PassOver(d)
    /\ UNCHANGED <<sendVars, journal, cursor, reads, handled, late>>

\* Not seen for CHAT_DEVICE_EXPIRY_DAYS: marked, under no lock of the account, so
\* a send may be open.  Its rows stay until a manifest drops it.
expire_device(d) ==
    /\ devices[d] = "listed"
    /\ devices' = [devices EXCEPT ![d] = "expired"]
    /\ UNCHANGED <<sendVars, mailbox, clientVars, stored, late>>

\* A direct send's id older than CHAT_SEND_RETENTION_DAYS is forgotten.
sweep_sends(s) ==
    /\ s \in claims
    /\ claims' = claims \ {s}
    /\ forgotten' = forgotten \cup ({s} \X Devices)
    /\ UNCHANGED <<devices, multiClaims, nextCursor, drawn, owed, open, mailbox, clientVars,
                   stored, late>>

\* A multi-recipient one's, for a device, past the mailbox's retention.
sweep_multi_send_ids(s, d) ==
    /\ <<s, d>> \in multiClaims
    /\ multiClaims' = multiClaims \ {<<s, d>>}
    /\ forgotten' = forgotten \cup {<<s, d>>}
    /\ UNCHANGED <<devices, claims, nextCursor, drawn, owed, open, mailbox, clientVars,
                   stored, late>>

\* A row older than the retention goes unread.
sweep_mailbox(r) ==
    /\ r \in mailbox
    /\ mailbox' = mailbox \ {r}
    /\ stored' = stored \ {r}
    /\ UNCHANGED <<devices, sendVars, clientVars, late>>

-----------------------------------------------------------------------------
(* A client: receive_pass.                                                 *)

PendingDecrypt(d) == {c \in Cursors : journal[d][c] = "pendingDecrypt"}
PendingAck(d) == {c \in Cursors : journal[d][c] = "pendingAck"}

receive_pass(d) ==
    /\ pc[d] = "idle"
    /\ devices[d] = "listed"
    /\ pc' = [pc EXCEPT ![d] = "process"]
    /\ todo' = [todo EXCEPT ![d] = PendingDecrypt(d)]
    /\ page' = [page EXCEPT ![d] = {}]
    /\ more' = [more EXCEPT ![d] = TRUE]
    /\ UNCHANGED <<devices, sendVars, mailbox, journal, cursor, reads, handled, stored, late>>

\* Mutant of receive_envelope: acknowledged before what was read is kept.
receive_unkept(d, c) ==
    /\ journal' = [journal EXCEPT ![d][c] = "pendingAck"]
    /\ UNCHANGED <<reads, handled>>

\* Read, or unreadable for good and asked for again: the ratchet, the message
\* and the journal's state are one commit.
receive_envelope(d, c) ==
    /\ journal' = [journal EXCEPT ![d][c] = "pendingAck"]
    /\ \/ reads' = [reads EXCEPT ![d] = Append(@, drawn[c])]
       \/ UNCHANGED reads
    /\ handled' = [handled EXCEPT ![d] = @ \cup {c}]

\* One journaled envelope; one that cannot be read yet stays for a later pass.
process_inbound(d, c) ==
    /\ pc[d] = "process"
    /\ c \in todo[d]
    /\ todo' = [todo EXCEPT ![d] = @ \ {c}]
    /\ \/ receive_envelope(d, c)
       \/ UNCHANGED <<journal, reads, handled>>
    /\ UNCHANGED <<devices, sendVars, mailbox, pc, page, more, cursor, stored, late>>

\* After the last of them: on to the next page, if there may be one.
NextPage(d) == pc' = [pc EXCEPT ![d] = IF more[d] THEN "drain" ELSE "idle"]

\* The server answers a device that has not expired.
Answers(d) == devices[d] = "listed"

\* The server deletes the acknowledged rows.
ack_messages(d) ==
    /\ pc[d] = "process"
    /\ todo[d] = {}
    /\ IF PendingAck(d) = {}
       THEN NextPage(d) /\ UNCHANGED mailbox
       ELSE /\ Answers(d)
            /\ mailbox' = {r \in mailbox : r.device = d => r.cursor \notin PendingAck(d)}
            /\ pc' = [pc EXCEPT ![d] = "acked"]
    /\ UNCHANGED <<devices, sendVars, todo, page, more, journal, cursor, reads, handled, stored, late>>

finish_acks(d) ==
    /\ pc[d] = "acked"
    /\ journal' = [journal EXCEPT ![d] = [c \in Cursors |-> IF @[c] = "pendingAck" THEN "none" ELSE @[c]]]
    /\ NextPage(d)
    /\ UNCHANGED <<devices, sendVars, mailbox, todo, page, more, cursor, reads, handled, stored, late>>

\* Mutant of drain_mailbox: the newest rows first.
drain_newest(d) ==
    LET ahead == {r \in mailbox : r.device = d /\ r.cursor > cursor[d]}
    IN  {r \in ahead : Cardinality({q \in ahead : q.cursor > r.cursor}) < PageSize}

\* The oldest rows after the client's cursor.
drain_mailbox(d) ==
    LET ahead == {r \in mailbox : r.device = d /\ r.cursor > cursor[d]}
    IN  {r \in ahead : Cardinality({q \in ahead : q.cursor < r.cursor}) < PageSize}

drain(d) ==
    /\ pc[d] = "drain"
    /\ Answers(d)
    /\ LET rows == drain_mailbox(d)
       IN  /\ page' = [page EXCEPT ![d] = rows]
           /\ more' = [more EXCEPT ![d] =
                 \E r \in mailbox \ rows : r.device = d /\ r.cursor > cursor[d]]
           /\ pc' = [pc EXCEPT ![d] = IF rows = {} THEN "idle" ELSE "page"]
    /\ UNCHANGED <<devices, sendVars, mailbox, todo, journal, cursor, reads, handled, stored, late>>

\* stage_cursor keeps the highest.
LastCursor(rows) ==
    CHOOSE c \in {r.cursor : r \in rows} : \A r \in rows : r.cursor <= c

\* The page and the cursor past it in one commit.
journal_envelopes(d) ==
    /\ pc[d] = "page"
    /\ journal' = [journal EXCEPT ![d] =
          [c \in Cursors |-> IF \E r \in page[d] : r.cursor = c THEN "pendingDecrypt" ELSE @[c]]]
    /\ cursor' = [cursor EXCEPT ![d] = LastCursor(page[d])]
    /\ todo' = [todo EXCEPT ![d] = {r.cursor : r \in page[d]}]
    /\ pc' = [pc EXCEPT ![d] = "process"]
    /\ page' = [page EXCEPT ![d] = {}]
    /\ UNCHANGED <<devices, sendVars, mailbox, more, reads, handled, stored, late>>

\* A request fails, or the client is closed or reloaded.
stop_pass(d) ==
    /\ pc[d] # "idle"
    /\ PassOver(d)
    /\ UNCHANGED <<devices, sendVars, mailbox, journal, cursor, reads, handled, stored, late>>

Client(d) ==
    \/ receive_pass(d)
    \/ \E c \in Cursors : process_inbound(d, c)
    \/ ack_messages(d)
    \/ finish_acks(d)
    \/ drain(d)
    \/ journal_envelopes(d)

Next ==
    \/ \E s \in Sends : claim_send(s) \/ commit_send(s) \/ rollback_send(s)
    \/ \E s \in Sends, d \in Devices : insert_envelope(s, d)
    \/ \E d \in Devices : register_device(d) \/ revoke_device(d) \/ expire_device(d)
    \/ \E s \in Sends : sweep_sends(s)
    \/ \E s \in Sends, d \in Devices : sweep_multi_send_ids(s, d)
    \/ \E r \in mailbox : sweep_mailbox(r)
    \/ \E d \in Online : Client(d) \/ stop_pass(d)

Spec == Init /\ [][Next]_vars

(***************************************************************************)
(* A client that is open makes passes (on a push, on reconnecting, or by   *)
(* polling) and not every one of them is cut off or fails to read.         *)
(***************************************************************************)
Fairness ==
    \A d \in Online :
        /\ WF_vars(receive_pass(d))
        /\ SF_vars(ack_messages(d))
        /\ SF_vars(finish_acks(d))
        /\ SF_vars(drain(d))
        /\ SF_vars(journal_envelopes(d))
        /\ \A c \in Cursors : SF_vars(process_inbound(d, c) /\ receive_envelope(d, c))

FairSpec == Spec /\ Fairness

-----------------------------------------------------------------------------
(* What makes the mailbox correct.                                         *)

Fetchable(r) ==
    \/ r.cursor > cursor[r.device]
    \/ journal[r.device][r.cursor] # "none"
    \/ r.cursor \in handled[r.device]

\* A row in the mailbox is ahead of its device's cursor unless the device has
\* it in its journal or has handled it: nothing is skipped ("Anything that
\* arrived while the device was offline is fetched over REST").
NothingSkipped == \A r \in mailbox : Fetchable(r)

\* Nothing is skipped that was committed in the order of the cursors, however
\* pages and passes are cut.
OrderedNotSkipped == \A r \in mailbox \ late : Fetchable(r)

\* The mailbox's state is well formed and nothing that committed in order is out
\* of its device's reach.
MailboxInv == TypeOK /\ OrderedNotSkipped

\* A row leaves the mailbox only when its device has handled it: a pass cut off
\* anywhere, or an acknowledgement that was lost, costs nothing ("Only a
\* committed decrypt is acknowledged").
AckedHandled ==
    \A r \in stored : r \in mailbox \/ r.cursor \in handled[r.device]

\* A device reads a send once, whatever the sender retries and the client
\* drains again after a stop, for as long as the send's claim is kept: a retry
\* after it was swept is a new message.
ReadOnce ==
    \A d \in Devices : \A i, j \in DOMAIN reads[d] :
        reads[d][i] = reads[d][j] /\ <<reads[d][i], d>> \notin forgotten => i = j

\* A direct send is stored for every device listed when it commits, and for no
\* other but one that has expired ("keep the recipient device set stable through
\* mailbox insertion", which expiry, taking no lock, does not).
StoredForListed ==
    [][\A s \in claims' \ claims :
          LET stored_for == {r.device : r \in {q \in mailbox' \ mailbox : q.send = s}}
          IN  Listed' \subseteq stored_for /\ stored_for \subseteq Listed' \cup Expired']_vars

\* An envelope that was committed in the order of the cursors is handled in the
\* end, unless it is removed or its device is no longer listed.
EventuallyHandled ==
    \A c \in Cursors :
        (\E r \in mailbox \ late : r.cursor = c /\ r.device \in Online) ~>
            \/ \E d \in Devices : c \in handled[d]
            \/ \A r \in mailbox : r.cursor = c => r.device \notin Listed
=============================================================================

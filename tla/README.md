# TLA+ specifications of kutup

kutup is a self-hosted, end-to-end encrypted suite: a Drive with collaborative
editing, a federated Chat, and Mail, Calendar, Contacts, Passwords and Photos.
Its server is one Rust program (`crates/kutup-server`) over PostgreSQL and an
object store; several backends may share one database. Clients encrypt
everything (`kutup-chat-core`, `kutup-crypto`, the web applications, a
command-line client); the server orders, stores and forwards ciphertext. What
must be right in the server is therefore not what the data means but that it is
kept, ordered, delivered once and accounted for.

The project began with the part where that is hardest, chat between servers: two
servers that crash, time out and prune their tables agree on an ordered stream
of messages over a network that loses, repeats and reorders requests. It has
gone on to the places where the server's other parts race: the chat mailbox,
resumable uploads, the log of a note edited together, sign-ins and their
refresh tokens.

## Inventory

| Component | State | Operations | What is hard | Correct when |
|---|---|---|---|---|
| Plain chat outbox (`federation_outbox.rs`, `chat_federation.rs`) | `federation_outbox`, `federation_sequences` | `enqueue_send`, `requeue_plain`, `attempt_outbox`, `flush_due`, `settle`, `retry_later`, `park_for_upgrade`, `prune` | client and worker attempt the same row at once; answers are lost or late; a row is corrected under a new sequence | nothing queued is lost, order is kept, the client is told the truth, the queue never blocks for good |
| Plain inbound stream (same files) | `federation_inbound_state`, `federation_inbound`, `chat_mailbox` | `deliver_messages`, `lock_stream`, `prior`, `record`, retention | repeated and late requests, pruned records, restores | stored once, in order; a repeated request gets its first answer |
| Sealed queue and flush lock (`chat_federation.rs`) | outbox rows of kind `sealed`, the `flushing` map, permits, an advisory lock | `enqueue_sealed_send`, `flush_locked`, `flush_rounds`, `send_sealed_run`, `flush_due_sealed`, `FlushLock`'s `Drop` | several backends, failed queries, a wish that arrives while a flush ends | one sender at a time, no lock, entry or permit leaks, every row settled |
| Sealed inbound (`deliver_sealed_batch`, `store_sealed_messages`) | inbound stream, send-id claims | one answer per entry, refusals that use up a sequence | the batch stops at the first open answer | as the plain stream, and once per send id |
| Media and rename streams (`chat_media_federation.rs`, `remote_renames.rs`) | two more kinds of the same tables | announce, fetch, rename | the same stream under other payloads | as the plain stream |
| Federation transport (`federation/`) | peer keys, pins, replay table | signed requests, discovery, policy | key changes, replays | a request is answered only as its signer's |
| Local chat (`handlers/chat.rs`, `chat_hub.rs`, `chat_multi.rs`; `kutup-chat-core/src/session.rs`) | `chat_mailbox` with cursors, send ids; the client's journal and cursor | send, drain, journal, read, acknowledge, WebSocket push | drain against concurrent inserts, a client that stops anywhere | no message skipped, none read twice or acknowledged unread |
| Chat identity and devices | manifest chain, provisioning, cached remote lists | append, provision, refresh | concurrent appends, stale caches | one chain, no rollback |
| Chat groups | group revision, keys, members, sends | compare-and-swap at the home server, fan-out | racing changes, remote members | one history of revisions |
| Calls, call links | rooms, tokens, waiting rooms | join, admit, leave | membership against an external media server | only admitted members join |
| Chat media and backup | blobs with references, backup generations | upload, attach, rotate | crash between object and row | no dangling reference, newest whole backup |
| Uploads and storage accounting (`tus.rs`, `storage_pool.rs`, `jobs.rs`) | upload rows, pools, multipart uploads, objects | create, patch, finish, cancel, sweeps, purge, reconcile | concurrent requests, failures between store and database, a commit whose answer is lost | every stored file has its object, the counter is exact, room is released |
| Files, versions, shares, trash | rows, grants, retention | move, share, revoke, restore, purge | access revoked during a request | access only by a live grant |
| Drive federation | remote shares | signed reads and writes | no queue: request and answer | as local access |
| Collaboration relay (`hub.rs`, `handlers/collab.rs`, `frontend/packages/collab`) | rooms, update log and floor, saved versions; each tab's position | join, edit, relay, replay, save and trim | relays that overtake each other, joins and saves in between, slow peers | a tab holds what it counts, a version what it claims, positions are used once |
| Account heads, revisions | one head per account, compare-and-swap | advance, verify | concurrent devices, rollback | heads only advance |
| Sessions, authentication, limits (`sessions.rs`, `handlers/auth.rs`, `handlers/opaque.rs`, `grants.rs`) | sessions, forks, grants, refresh tokens, second factors, counters | sign in, fork, re-authenticate, change the password, refresh, revoke, disable | a sign-in across a password change, a fork across a sign-out, tabs that refresh at once | sessions stand on the current password, what was ended stays so, no tab signs the others out |
| Administration, settings, sweeps | settings, job timers | retry now, prune | sweeps against live work | sweeps take only what is over |
| Mail | mailboxes, delayed outbox | submit, undo, forward, auto-reply | undo against the sender's worker | sent once or not at all |
| Calendar, contacts, passwords, maps, photos | encrypted rows, alarm queue | edit with revisions, merge | concurrent edits | no lost edit |
| Chat client core | sessions, local store | encrypt, send loop, receive | retries after mismatch | converges with the server |
| Command-line client and sync | local and remote trees | three-way sync | both sides change | no silent overwrite |
| Cryptography, web applications | none shared | formats, user interface | outside a model checker | not stated here |

Interaction. A client's HTTP request writes an outbox row and, in the same
request, attempts its delivery; a retry worker in every backend
(`spawn_worker`) passes over the due destinations. Both call the destination's
signed routes. The destination serialises a stream with a row lock, decides by
the recipient's device list, stores into the mailbox and records its answer in
one transaction. Nothing but the database and the network connects the two
servers, or two backends of one server; within a backend the sealed flush also
has a shared map and a semaphore. A local send stores into the same mailbox a
remote one does, and a push only tells the client to drain it. An upload's
bytes go to the object store, which no database transaction covers; its room is
charged to the account's pool in the transaction that names the object. The
collaboration relay is a room in memory per backend beside a log in the
database. Sessions are rows: every request looks its session up, so ending one
is a write that later requests see.

## Modules

| Module | What it is |
|---|---|
| `OrderedStream` | abstract: what one (kind, origin, destination) stream promises |
| `FederationOutbox` | the plain chat outbox, its attempts, the network, the inbound stream |
| `FederationRestore` | the same with a destination restored from a backup |
| `SealedFlush` | who may flush a destination's sealed queue |
| `SealedStream` | the sealed queue's rows, its batches and the receiving side |
| `ChatMailbox` | an account's mailbox, its senders and its devices' receive passes |
| `DriveUploads` | an account's resumable uploads, its pool and the object store |
| `CollabLog` | the log, room, versions and tabs of a note edited together |
| `AccountSessions` | an account's sign-ins, forks, grants, password changes and what ends sessions |
| `RefreshTokens` | one web session's rotating refresh token and its tabs |
| `FederationOutboxSafety`, `SealedFlushSafety`, `SealedStreamSafety`, `ChatMailboxSafety`, `DriveUploadsSafety`, `CollabLogSafety`, `AccountSessionsSafety`, `RefreshTokensSafety` | theorems about the module each is named after |
| `MCFederationOutbox`, `MCSealedFlush`, `MCSealedStream`, `MCDriveUploads`, `MCCollabLog`, `MCAccountSessions` | instances for TLC (symmetry, values a `.cfg` cannot write); the other runs use a module directly |

### FederationOutbox

One stream from an origin to a destination. `outbox` holds the rows by their
idempotency key (sender, device, send id), `nextSeq` the counter, `pc`, `cur`
and `got` the attempts under way, `net` every request ever posted (any may
arrive late or again), `last` and `inbound` the destination's high-water mark
and kept records, `mailbox` what was stored. `issued` and `given` are history:
which message a sequence was given to, and what it was answered.

An attempt is three steps, as `attempt_outbox` has three awaits with other
attempts between them: `load_outbox` reads the row (or ends with its stored
answer), `post_head` checks the head and posts, `settle_answer`, `replay_gap`
or `transport_error` applies what came back. `park_for_upgrade` and
`leave_behind_head` are its early returns, `cancel` is its task ending anywhere.
`arrive` is the whole receiving transaction with the answer on its way back,
`arrive_late` the same for a request whose attempt no longer waits. Sequences
commit in order because `next_sequence` keeps its row locked to the commit, so
taking the number, writing the row and committing is one step.

Abstractions. A message's content is the device list it was encrypted for. A
row's random id is the sequence it was inserted with. A settled row's state,
error class and answer are one value. `next_attempt_at` and the attempt count
are `due`. An administrator's retry-now is `elapse`. Signature, policy and
validation refusals come before the stream is locked and count as a
`transport_error`: the row waits, as the code does. A request that changes the
content of a pending send is refused with 409 and is no step. An attempt never
lasts as long as `federationRecordDays`, so `prune_outbox` does not take a row
from under one.

### FederationRestore

Adds `restore(k)`: the destination's database as it was after its first `k`
answers. Its server was down for longer than a request lasts, so no attempt is
under way and nothing is in the network. The origin learns of it by a sequence
gap and `replay_gap` puts the rows from there on back into the queue.

### SealedFlush

One destination, several backends. `flushing` is each backend's map entry
(absent, listed, listed with the wish for another pass), `permits` the
semaphore, `holder` the session that has the advisory lock (`Closing` is one
that is being closed), `pc` where each flush stands between two awaits. The
actions follow `try_lock`, `flush_rounds`, `flush_locked`'s loop and
`FlushLock::drop` in order; `drop` is a query that fails in the middle,
`relock_failed` a lock or connection that cannot be had, `session_lost` a
session the database ended under its flush (after which a second flush can
start: `OneSender` excludes exactly those), `crash` a backend that stops. What
the destination answers is abstracted to how much of a run is settled
(`settle_run`, `settle_part`). A client may probe a backing-off head alone. A
row's size in bytes, which may end a run early, is not modelled, nor the
permits other destinations hold.

### SealedStream

The rows themselves. `outbox`, `issued`, `given`, `last`, `inbound` and
`mailbox` are as in `FederationOutbox`; `run`, `single` and `answers` are a
flush's batch and what it was told, `work` the part of a request the
destination has not applied yet, `claims` the `sendId`s a capability has used.
`send_sealed_run` reads the consecutive rows at the head and sends them (or one,
to a server without the batch route), `deliver_next` applies one transaction of
the batch in a database transaction of its own, `apply_sealed_answer` settles
one row or stops. `requeue_sealed` puts a rejected row back under a new
sequence. Any number of flushes run at once, so nothing here rests on the lock
of `SealedFlush`. `Strays` are requests that arrive with nobody waiting.

A flush reads ids and then rows; the model reads both in one step, because a row
that moved in between makes a batch that is not consecutive, which the shape
check refuses before anything is applied. The bytes that end a batch, media
references and mailbox quotas are left out.

### ChatMailbox

A send claims its `sendId`, draws a cursor per device as it inserts, and commits;
`open` are rows nobody else sees yet. A device's pass is `receive_pass`,
`process_inbound` (reading what the journal holds), `ack_messages`, `drain`,
`journal_envelopes`, and it may stop anywhere, keeping its journal and cursor.
`register_device` and `revoke_device` wait for open sends as the row locks make
them; `expire_device` (not seen for `CHAT_DEVICE_EXPIRY_DAYS`, 90) waits for
nothing. A `sendId` is recognised while its claim is kept: `sweep_sends` forgets
a direct one after `CHAT_SEND_RETENTION_DAYS` and `sweep_multi_send_ids` a
multi-recipient one after the mailbox's retention (30 days each unless an
administrator changes them), and a retry after that is stored again. The model
lets both happen at any time. `late` and `forgotten` are history: rows committed
after a higher cursor was, or after one that was rolled back, and the sends and
devices whose claim was swept. `Online` are the devices whose client is open at
times; the others only receive.

### DriveUploads

Each request walks the steps of one handler (`pc`), holding the pool's and the
upload's row from the step that locks it to the one that ends the transaction
(`InPool`, `InRow`). The store's `multipart` and `objects` change at once and
survive a transaction that fails. A commit may be lost on the way (`doubt`),
take effect later or not at all (`resolve`), while the handler looks with
`file_landed`. Beside the requests run the uploads sweep (list, abort, delete),
the orphan sweep (ask, delete), purges of trash, the reconciler (find, correct)
and an administrator's quota. An upload is one unit; what else refuses a write
(access, folder, name) is a choice.

### CollabLog

A frame goes from its tab through `toServer` to the log, then to every member of
the room, then its position does, each relay over a snapshot of the room of its
own. `replay` is what a joining handler still has to send, lowest position first. A tab's `announced`
positions become `applied` when they follow without a gap; a save encodes the
document, awaits its encryption, then reads the position; storing it trims the
log to that position. `spoiled` and a version's `sound` flag record the known
deviations below, so that the properties speak of everything else. A socket
that is lost loses what it held both ways. The gate, keys and access, presence,
office sessions, frames sent over HTTP by the command line, and a note's seed
are left out; that the old handler of a tab delays its new one is not relied on.

### AccountSessions

A step is one statement or a transaction nothing can come between. Statements
that wait for row locks fix their rows first (`change.rows`, `ending.rows`,
`disabling.rows`) and take effect later, as PostgreSQL's UPDATE does under READ
COMMITTED. `password` and `proved` are history: which password a record stands
for, and which one a session's sign-in proved. `register_abort` is the deadlock
PostgreSQL resolves by aborting one of two changes. Second-factor codes, first
setup, lockouts, account wipe and reset, and "sign out everywhere else" are left
out. A disable request that dies after its first transaction
(`update_user_lost`) leaves sessions that live again when the account is
enabled; the property is about requests that were answered.

### RefreshTokens

The server remembers the current and the previous token and honours the
previous one within the grace. Tabs take a Web Lock where the browser has one
(`locks` is chosen at the start). Requests and answers are on their way for any
time, and a tab that goes away loses its answer with the new cookie in it. Copies
of the browser (`copy`) present any cookie that it has had (`held`) or that they
were answered (`given`), so a copy may go on refreshing on its own; its
answers are `given` to it.

### OrderedStream

`Issue`, `Correct`, `Give`, `Learn`, `Forget`: an entry is put in, put in again
after a mismatch, answered in order and once, and the origin learns the answer
or that it is no longer known, and may forget it. `FederationOutbox!Stream` is
the refinement mapping, and so is `SealedStream!Stream`; `known` is what the row
now at each sequence says. The two agree on everything but which answers may be
corrected, a constant of the abstract module.

## Runs

| Run | Instance | Checks |
|---|---|---|
| `outbox` | 2 sends, 2 device lists, a client and a worker, 2 sequences, 1 pruned record | `TypeOK`, `NothingLost`, `NoGap`, `StoredOnce`, `AnswersAgree`, `ClientTruth`, `SettledStays`, `ImplementsStream` (refinement) |
| `restore` | 2 sends, 2 device lists, a client and a worker, 2 sequences, any number of restores | `StoredOnce`, `SettledUnlessBehind` |
| `sealed_flush` | 2 backends, a client and a worker on one, a worker on the other, 2 rows, batches of 1, 1 permit each | `LimitsKept`, `OneSender`, `LockOwned`, `EntryOwned`, `EventuallyFlushed` |
| `sealed_stream` | 2 sends, 2 device lists, 2 flushes and 1 stray request, batches of 2 | `StreamInv`, `AnswersAgree`, `ImplementsStream` (refinement) |
| `sealed_retention` | 2 sends, 2 capabilities, 1 flush and 1 stray request, batches of 2, 1 pruned record | `StoredOnce`, `EventuallySettled` |
| `mailbox` | 2 sends (one multi-recipient), 2 devices of which 1 is online, 2 cursors, pages of 1 | `MailboxInv`, `AckedHandled`, `ReadOnce`, `StoredForListed`, `EventuallyHandled` |
| `mailbox_skipped` | 2 sends, 1 device | `NothingSkipped`: violated |
| `uploads` | 2 uploads, 2 files, 2 requests, 1 chunk, quota up to 2, counter off by up to 1 | `ObjectKept`, `ToldTrue`, `UsedExact`, `NeverOvercommitted` |
| `uploads_live` | 1 upload of 2 chunks, 2 requests | `UploadsInv`, `EventuallyReleased` |
| `collab` | 2 tabs (one opens later), 2 edits, 1 saved version, 1 failure | `LogInv`, `AppliedComplete`, `FreshComplete`, `RestComplete` |
| `sessions` | 3 sessions, 2 changers, three budgets of events | `GrantsInv`, `StandsOnPassword`, `StaysEnded` |
| `refresh` | 3 tabs, 3 rotations, 5 requests | `TokensInv`, `ClearedOnlyEnded` |

An invariant named `...Inv` joins a module's type invariant with the facts about
the same state that belong to it: `StreamInv` that nothing is lost, no gap is
met, what is told delivered is stored, and in order; `MailboxInv` that only a
row behind its cursor when it committed can be passed over; `UploadsInv` that
chunks are stored once and in order; `LogInv` that positions are used once and a
version holds what it claims; `GrantsInv` that grants are the current
password's and every change had one; `TokensInv` that the browser's token is one
the session remembers. `ToldTrue` joins the two answers a client acts on
(stored, cancelled), `StaysEnded` the two ways to end a session, `LimitsKept` the
permits and the limits of a flush: rounds, passes and what it sends at once.

Bounds. In `outbox` two sequences already hold a refusal with its correction and
one send behind another, and in `restore` a row behind the sequence that a
corrected one has left, where the queue stays blocked. Two device lists are a
match and a mismatch; an account that is gone is a third value. One client and one worker already race on the same row. In
`SealedFlush` two rows, batches of one and two rounds and passes make every limit
reachable and the queue longer than a batch; one permit makes it run out between
a flush leaving its entry and giving its permit back. In `SealedStream` a batch
of two has an answer for one entry and none for the other. Two flushes overlap in
`sealed_stream`, so a row in a run can be settled or corrected under it;
`sealed_retention` has one, whose requests the stray one repeats, and retention.
In `ChatMailbox` pages of one make a drain take
several; two devices are one that is listed and one that joins, expires or goes
under a send, and two cursors are two sends to one device or one send to both. In `DriveUploads` the two uploads are two files, or a file and a
version of it, and a quota of two is full while both are open; chunks are told
apart in the run with two. The counter is off upwards only. In `CollabLog` two edits overtake each other, one
saved version trims the log under a tab that opens, and the failure falls
anywhere; two savers would be needed for the newest version to lag, which the
deviations below describe, and a tab opens one socket in the run
(`MaxOpens = 1`): that a tab resumes rightly after losing one rests on
`AppliedHolds` and `RestHolds`, which are for any number. In `AccountSessions` the budgets are the combinations
that interact: two changes at once; a change against a fork; a sign-out and a
disabling against a fork. Symmetry is used only where no liveness is checked.
Deadlock is checked except where a bound ends behaviours (`ChatMailbox`,
`CollabLog`, `AccountSessions`, `RefreshTokens`): there a client that is done,
or has used up its budget, may simply stop.

What the violated run shows. `mailbox_skipped`: a row's cursor is drawn at its
INSERT and seen at its COMMIT, and sends to one account hold only shared locks
(`handlers/chat.rs:2698`), so of two sends at once the lower cursor may commit
last. A client that drains in between keeps the higher one durably and asks only
for `m.cursor > $4` (`handlers/chat.rs:2961`) from then on.
`handlers/chat.rs:3267` says "Anything that arrived while the device was offline
is fetched over REST". `MailboxInv` and `EventuallyHandled` show that this is the
only way a row is missed.

## Known deviations found while modelling

Each of these is a behaviour the model has, seen as a TLC trace while modelling,
where the code and a comment or document disagree. The properties exclude
exactly these cases and say so; none is an open question of the runs above.

* `chat_federation.rs:1588`: a row settled as `record_gone` between a client's
  enqueue and its attempt's load is answered 500 "invalid federation outbox
  state", where `enqueue_send` would have told of a rejection.
* `chat_federation.rs:1752` against `docs/api.md:4562`: after a restore of the
  destination to before a device mismatch, it asks for a sequence the corrected
  row has left; there is no row to replay and the queue stays.
  `SettledUnlessBehind` excludes the rows behind such a sequence (`BehindHole`),
  and the run `restore` reaches them.
* `chat_federation.rs:972` against `docs/chat-protocol.md:954`: a send that meets
  a flush between its last look and `stop_listing` has its wish removed with the
  entry and waits for the retry worker (`EventuallyFlushed` holds).
* `chat_federation.rs:585` against `docs/federation-protocol.md:134`: a refused
  sealed row is put back under its own `sendId`; the document says a corrected
  message is a new send.
* `handlers/chat.rs:2505` against `docs/chat-protocol.md:997`: the claim that
  deduplicates is per capability; after pruning on both sides and a rotation a
  late retry is stored again. `SealedStream`'s `StoredOnce` is per capability.
* `jobs.rs:165` and `jobs.rs:217` against `docs/chat-protocol.md:376`: a send retried
  after its claim was swept is stored, and read, again. `ReadOnce` is about sends
  whose claim is kept.
* `jobs.rs:187` against `handlers/chat.rs:2695` ("keep the recipient device
  set stable through mailbox insertion"): expiry takes no lock on the account, so
  a send under way may store for a device that has just expired. `StoredForListed`
  allows these devices and no other.
* `tus.rs:913` against `tus.rs:965`: a COMMIT whose answer was lost may take
  effect after `file_landed` looked, and its object has been deleted by then.
* `jobs.rs:666` against `jobs.rs:643`: the uploads sweep does not look at
  `updated_at` again, so an upload that went on since the listing is reaped.
* `handlers/collab.rs:717` against its own comment at 711: frame and position are
  relayed over two snapshots of the room; a tab that joins in between and loses
  its socket before its replay resumes past the frame.
* `hub.rs:59` against `hub.rs:49`: a write that times out does not close a
  connection whose handler is busy; the tab counts a frame it never got.
* `handlers/collab.rs:890` against `docs/api.md:5668`: a floor that cannot be
  read counts as none, and the tab does not merge the newest version.
* `snapshot.ts:114` against `session.ts:134`: the position is read after the
  encryption the document was encoded before.
* `api.ts:137` against `session.ts:298`: the newest version by time is not always
  the one with the highest position.
* `transport.ts:126`: a frame handed to a socket about to fail is neither kept
  nor queued again; the document keeps the edit and the next saved version
  holds it. The properties are about kept frames.
* `sessions.rs:337` against `persist.ts:86`: a refresh whose answer is lost leaves
  the browser a token that, used after the grace, is taken for stolen.
* `sessions.rs:314` against `docs/api.md:641`: a token rotated away twice is
  refused but does not end the session. A copy of the browser that rotates twice
  leaves it with such a token: its next refresh is refused and its cookie cleared
  (`handlers/auth.rs:1220`) while the session lives on with the copy. `CookieKnown`
  and `ClearedOnlyEnded` end where a copy has rotated a token it was given
  (`Overtaken`).
* `handlers/auth.rs:1220` against its comment at 1217: a refresh that fails with
  500 clears the cookie too. `ClearedOnlyEnded` is about a database that answers.

## Fairness

`FederationRestore` assumes weak fairness of time (`elapse`): a backoff passes. It
assumes that a worker looks at its due rows again and again (strong fairness of
`flush_due`: `spawn_worker` loops for ever, but a row may be due and taken again
and again), and that not every one of its attempts is cut off: any one may time
out, be parked or die with its backend, but a worker that keeps attempting gets
to the end of an attempt infinitely often (`Answered`: the row was settled
already, another goes first, an answer, a gap). That the answer is a good one is
not assumed. Nothing is assumed of clients: a mismatch is never corrected unless
a client wishes. Restores are assumed to stop (`FairRestoreSpec`).

`SealedFlush`: a flush runs in its own task, so it takes its next step (weak
fairness of `Flush(t)`); some worker looks at a due destination, some flush that
keeps asking gets the lock, some reads the queue, and a run that is sent again
and again is settled (strong fairness over all tasks together, none of any one).
Backends do not crash for ever.

`SealedStream`: a backoff passes (weak); a flush follows every row that waits,
as the worker's loop and the client's own do (strong); and a flush that keeps
being made applies an answer infinitely often that says more than that the
destination is at its rate limits (`Answered`), whichever of them are cut off.

`ChatMailbox`: an open client starts passes, on a push, on reconnecting or by
polling (weak), and not every one of them is cut off or fails (strong fairness
of each of its steps).

`DriveUploads`: a request ends, if by its timeouts (weak fairness of `fail`); a
commit in doubt is resolved by the database; an upload grows stale; the hourly
sweep lists (weak) and goes through its list with a store that does not fail
every abort (strong).

`CollabLog`, `AccountSessions` and `RefreshTokens` state safety only:
`RestComplete` says what holds once nothing is on its way.

## Proofs

Every module with runs has theorems; those about `FederationRestore` are in
`FederationOutboxSafety`.

Assumptions. TLC evaluates each in every run of its module:

* `ConstantsAssumption` (`FederationOutbox`): `MaxSeq` and `MaxPruned` are
  naturals, the missing account is no device list, clients are not workers.
* `FlushAssumption` (`SealedFlush`): every task has a backend, the two lock
  values are no tasks, finitely many rows, limits are positive.
* `SealedAssumption` (`SealedStream`): bounds are naturals, a batch holds at
  least one entry, flushes are not stray requests.
* `MailboxAssumption` (`ChatMailbox`): the multi-recipient sends are sends, the
  online devices are devices, a page holds at least one row.
* `UploadsAssumption` (`DriveUploads`): finitely many uploads, at least one chunk
  each, and `NoFile` is neither a file nor an upload.
* `CollabAssumption` (`CollabLog`): finitely many edits, the tabs present and
  those that save are tabs, `NoTab` is none, bounds are naturals.
* `SessionsAssumption` (`AccountSessions`): `None` is no session, budgets are
  naturals.
* `TokensAssumption` (`RefreshTokens`): `NoTab` is no tab, `Copy` is neither a tab
  nor `NoTab`, at least one token.

All other sets (sends, lists, capabilities, devices, files, requests, sessions,
tabs, backends) are arbitrary, and so are the bounds: `MaxSeq`, say, is any
natural.

`FederationOutboxSafety` proves `TypeCorrect`, action by action, and the safety
properties from one inductive invariant, `SafetyInv`. None of them is inductive alone. That a row is stored
once depends on a sequence having been given to one message for ever; that no
gap is met depends on every open sequence being held by a pending row, so that
the head an attempt checked is next at the destination or already answered;
both must survive a request posted long ago. The invariant has four layers:

1. `IssueInv`: rows, attempts and requests agree with `issued`, and a row is at
   the last sequence its id was given.
2. `StreamInv`: a prefix of the sequences is answered, records say what was
   given, every later sequence is a pending row's, and only the next may have
   been posted.
3. `AnswerInv`: an answer under way and a settled row are what was given.
4. `MailInv`: the mailbox is the stored part of the prefix, in order; a row has
   used two sequences only if the first was a mismatch.

`StepKinds` shows each action to be one of three: `Enqueued`, `OriginStep` or
`Delivered`. Each layer is then proved to survive each kind. From `SafetyInv`
follow `OutboxLosesNothing`, `OutboxMeetsNoGap`, `OutboxKeepsOrder`,
`OutboxStoresOnce`, `OutboxAnswersAgree`, `OutboxTellsTruth`, and the action
property `OutboxSettledStays`. `OutboxImplements` is the refinement: two rows are
never at one sequence (`SequencesApart`), so `Known` says of a sequence what its
one row says, and `StreamKinds` shows each step to be `Issue` or `Correct`
(`Enqueued`), `Give` or nothing (`Delivered`), `Learn`, `Forget`, or a stutter.

Most of `SafetyInv` is lost with a restore: open sequences have settled rows, and
answers a row or a client was given are no longer the destination's.
`RestoreInv` is what still holds, and it is enough for `RestoreStoresOnce` and
`RestoreKeepsOrder`: what is in the mailbox, and every request or attempt beyond
the answered prefix, is at its row's present sequence, and the row is not
settled as a mismatch (`HeldInv`), so it cannot be corrected to a second sequence.
A row becomes a mismatch only through an answer under way, and that answer is
what its sequence was given (`MismatchTrue`); across a restore none is under way.
The lemmas on the kinds of steps are shared, with `replay_gap` as a fourth kind
(`StepOrReplay`).

`SealedFlushSafety` proves `FlushOneSender`, `FlushLockOwned` and
`FlushEntryOwned`. `FlushInv` says that a flush past its lock query holds the
lock or has lost its session (`LockHeld`), that the lock is only a working
flush's, and that entries and listed flushes pair up. A flush's step moves only
itself (`Moves`): it stays, enters or leaves the list, and keeps, takes or gives
the lock; a crash and a returned permit are lemmas of their own.
`FlushLimitsKept` proves, from `LimitsInv`, that each backend's free permits and
the flushes between `take_permit` and `return_permit` add up to `Permits`, that
rounds and passes stay within their limits (a pass begins only below `MaxPasses`,
whichever way the loop comes back to it), and, from `QueueInv`, that every run is
a batch and that the queue
holds a row at most once, so it is never longer than the rows there are. `Settle`
filters the queue with `Unsettled`, a recursive function; that the recursion
has a solution and the filter leaves the other rows, each once (`KeptExists`,
`UnsettledRows`), needs induction.
The library's induction rules take an operator as a parameter, so `NatSets`
states induction for a set of naturals instead and derives it from the
well-foundedness of `<`.

`SealedStreamSafety` proves `SealedStreamSound`, `SealedAnswersAgree` and
`SealedStoredOnce` from `SealedInv`. As in the plain stream, a row agrees with
the history of its sequence; what is new is that several entries are under way
at once. Every run, request and rest of one is a batch of issued messages,
consecutive and starting no later than the next sequence, however old it is
(`MessagesInv`), a flush has an answer for each row up to one that leaves its
sequence open (`FlushesInv`), and what is stored is claimed, what is claimed or
answered as stored is in the mailbox (`ClaimsInv`): that is what makes
`StoredOnce` survive a record forgotten on both sides. `SealedImplements` is the
refinement, for `MaxPruned = 0` as in the run: once a record is pruned a repeat
of a stored transaction is refused, its row may be corrected and put in again,
and only the claim keeps it from being stored twice; the abstract stream, which
corrects only what really was rejected, has no word for that (the run
`sealed_retention` and `SealedStoredOnce` cover it). `Unpruned` says what the abstract stream needs beyond
`SealedInv`: answers under way and settled rows are what was given, a send leaves
a sequence only after its rejection, and the mailbox holds issued messages. A
step is `Issue`, `Correct`, `Learn`, `Give` or a stutter.

`ChatMailboxSafety` proves `MailboxInOrder`, `MailboxAcked`, `MailboxReadOnce`
and the action property `MailboxStoredForListed` from `MailInv`. That nothing is
skipped needs what a page holds while it is on its way: everything between the
cursor and its last row that was committed by then; a row drawn earlier and
committed later is `late`. Read once needs that a send whose claim was not swept
has one row per device, which rests on its claim and on the devices an open send
still owes. What an open send owes or has inserted covers the listed devices,
and beyond them only expired ones, since only expiry changes the list under it.

`DriveUploadsSafety` proves `UploadsKeepObjects`, `UploadsToldTrue`,
`UploadsUsedExact`, `UploadsInOrder` and the action property `UploadsFit` from
`DriveInv`: who holds the pool's row and an upload's (`PoolInv`, `RowInv`), what
a request knows of its upload at each step (`RequestInv`, `ChunkInv`), what a row
says of its file (`RowsInv`, `FilesInv`), what is in the store for it
(`StoreInv`), and that a request that checked the room still has it
(`RoomInv`). `ObjectKept` is not inductive because the object is there before the
row that names it and may be taken by two sweeps and a cancel in between;
`StoreInv` says for each step which of them can still touch it. Each action has
a lemma of its own; most move one request only and share the lemmas on what such
a step leaves alone.

`CollabLogSafety` proves `LogHolds`, `AppliedHolds`, `FreshHolds` and `RestHolds`
from `CollabInv`. Kept frames are numbered from one up without a gap, so the head
of the log is how many there are (`HeadIs`), whatever was trimmed (`LogShape`),
and no position counted, told or saved passes it (`BoundsInv`). An edit's frame is
in one place only until it is kept (`FramesInv`), and a socket holds nothing for
a tab outside the room (`SocketInv`). `AppliedComplete` is not inductive: a
position may be announced, or a replay's answer be under way, before the tab
counts it. `TabTrue` therefore says of every kept frame where it is while the
tab lacks it: before its position on the tab's wire or still to be relayed to it
(`StoredTrue`), among the rows a replay still has, below the floor the replay
will name, or behind the replay and yet to be relayed (`ReplayTrue`,
`ReplayedTrue`), and after the replay on its way or with the relay
(`SettledTrue`, which gives `RestComplete`). `Advance` leaves no gap
(`AdvanceIs`), so what it counts was announced. `TabsStep` shows each action to
keep this for every tab that is not `spoiled`; the four deviations are the steps
that would not. `MaxOf` (a bounded set of naturals has its maximum) comes from
the well-foundedness of `<`.

`AccountSessionsSafety` proves `SessionsStandOnPassword`, `SessionsStayEnded` and
`SessionsGrants` from `SessionsInv`: what a sign-in stands on at each of its steps
(`SignInsInv`), that a fork's parent is a sign-in somebody holds and shares its
password (`ForksInv`), that a change has its grant to itself and the account from
its UPDATE on (`ChangesInv`), and that every sign-in a client holds is among the
rows the waiting UPDATE has fixed, revoked already or kept (`RevokingInv`).

`RefreshTokensSafety` proves `RefreshTokensKnown` and `RefreshClearsOnlyEnded`
from `RefreshInv`: a token is presented only once the browser has had it or a copy
was given it, so until a copy goes on with one it was given nobody rotates past
the answer that brings the browser the newest; where tabs take turns one request
or answer of theirs is under way at a time and carries the browser's own cookie.

Only model-checked: the liveness properties (fairness and ENABLED are beyond the
prover).
`OutboxKeepsOrder` (`InOrder`) is proved and no longer has a run of its own:
`ImplementsStream` implies it.

## Not modelled

Of the modelled parts: rows closed by a migration (`closing_sequence`), an
answer that does not parse and the destination's rate limits (both count as
`transport_error`), a restore of the origin's database (its counter would hand
out used sequences; nothing in the code moves it past them), one-request uploads
and pools shared through a folder, the command line's and the federated side of
collaboration, second factors, lockouts and account wipes. The sections above
name what each module leaves out.

Not modelled yet: groups, chat identity and devices, media and rename streams,
backup, files and shares, drive federation, account heads, mail, the other
suite applications, the sync of the command-line client. Not worth a model:
cryptography and formats (no interleaving state; their correctness is not a
matter of orders of steps), the web applications' user interface, generated
bindings. `PROJECT.json` gives a reason for each. The map covers a small part
of the repository because most of it is of that second kind, or handlers that
check, read and write one row in one transaction; what it covers is where two
actors meet.

## Plan

1. `GroupGateway`: group revisions by compare-and-swap at the home server, and
   sends that race a change of membership.
2. `AccountHeads`, `ChatBackup`, the delayed mail outbox and its undo, the
   three-way decision of `SyncEngine`.
3. `SealedStream` composed with `SealedFlush`; `CollabLog` with two savers.

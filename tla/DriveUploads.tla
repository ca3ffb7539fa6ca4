---------------------------- MODULE DriveUploads ----------------------------
(***************************************************************************)
(* One account's resumable uploads: the upload rows, the pool its bytes    *)
(* are charged to, and the object store, which no database transaction     *)
(* covers.  Requests run at once, each in a transaction of its own that    *)
(* holds the rows it locked until it ends; a request, the store and the    *)
(* database may each fail between any two steps, and sweeps run beside     *)
(* them.                                                                   *)
(*                                                                         *)
(* An upload is of a new file or of a new version of one.  Each counts as  *)
(* one unit of the pool, and its chunks are told apart by their place.     *)
(* What refuses a write besides the pool (access taken away, the folder    *)
(* or its key changed, a name taken) is a choice.  File and upload ids are *)
(* random, so one is not used again for another file.                      *)
(***************************************************************************)
EXTENDS Naturals, Sequences, FiniteSets

CONSTANTS
    Requests,     \* requests under way at once
    Uploads,
    Files,        \* file ids
    NoFile,
    Chunks,       \* chunks of an upload
    MaxQuota,     \* bound on the quota an administrator gives
    MaxDrift      \* bound on what the counter is off by at the start

ASSUME UploadsAssumption ==
    /\ IsFiniteSet(Uploads)
    /\ NoFile \notin Files \cup Uploads
    /\ Chunks \in Nat \ {0}
    /\ MaxQuota \in Nat
    /\ MaxDrift \in Nat

VARIABLES
    live,        \* files
    landed,      \* the file each stored revision belongs to
    row,         \* uploads
    multipart,   \* multipart uploads the store knows
    objects,     \* objects in the store
    quota, used, \* the account's pool
    drift,       \* history: how far `used` is off since the start
    pc, up,      \* what each request does, to which upload
    file, chunk, \* its file and the chunk it brings
    doubt,       \* transactions whose commit is under way without a client
    dead,        \* history: files that were purged
    stale,       \* uploads a sweep has listed
    aborted,     \* uploads it has aborted and is about to delete
    orphans,     \* objects the orphan sweep is about to delete
    found,       \* the sum of an account a reconcile pass found off
    cancelled,   \* history: uploads a client was told are cancelled
    told,        \* history: uploads a client was told are stored
    missed       \* history: uploads a look did not find while their commit was under way

poolVars == <<quota, used, drift>>
storeVars == <<multipart, objects>>
requestVars == <<pc, up, file, chunk>>
sweepVars == <<dead, stale, aborted, orphans, found>>
toldVars == <<cancelled, told, missed>>
vars == <<live, landed, row, multipart, objects, quota, used, drift, pc, up, file, chunk,
          doubt, dead, stale, aborted, orphans, found, cancelled, told, missed>>

Upload == [state : {"new", "open", "gone"}, file : Files \cup {NoFile}, version : BOOLEAN,
           parts : Seq(1 .. Chunks), idle : BOOLEAN]
NewRow == [state |-> "new", file |-> NoFile, version |-> FALSE, parts |-> <<>>, idle |-> FALSE]
OpenRow(f) == [state |-> "open", file |-> f, version |-> f \in live, parts |-> <<>>, idle |-> FALSE]
GoneRow(f) == [state |-> "gone", file |-> f, version |-> FALSE, parts |-> <<>>, idle |-> FALSE]

\* Where a request holds the account's row, and where its upload's.
InPool == {"opening", "opened", "checked", "stitched"}
InRow == {"part", "stored", "checked", "stitched", "cancel", "aborted", "purge"}
Steps == InPool \cup InRow \cup {"idle", "refused", "unsure", "failed", "dropping", "purged"}

Open(u) == row[u].state = "open"
Landed == {u \in Uploads : landed[u] # NoFile}

TypeOK ==
    /\ live \subseteq Files
    /\ landed \in [Uploads -> Files \cup {NoFile}]
    /\ row \in [Uploads -> Upload]
    /\ multipart \subseteq Uploads
    /\ objects \subseteq Uploads
    /\ quota \in 0 .. MaxQuota
    /\ used \in 0 .. Cardinality(Uploads) + MaxDrift
    /\ drift \in 0 .. MaxDrift
    /\ pc \in [Requests -> Steps]
    /\ up \in [Requests -> Uploads \cup {NoFile}]
    /\ file \in [Requests -> Files \cup {NoFile}]
    /\ chunk \in [Requests -> 0 .. Chunks]
    /\ doubt \subseteq Uploads
    /\ dead \subseteq Files
    /\ stale \subseteq Uploads
    /\ aborted \subseteq Uploads
    /\ orphans \subseteq Uploads
    /\ found \subseteq 0 .. Cardinality(Uploads)
    /\ cancelled \subseteq Uploads
    /\ told \subseteq Uploads
    /\ missed \subseteq Uploads

Init ==
    /\ live = {}
    /\ landed = [u \in Uploads |-> NoFile]
    /\ row = [u \in Uploads |-> NewRow]
    /\ multipart = {}
    /\ objects = {}
    /\ quota = MaxQuota
    /\ drift \in 0 .. MaxDrift
    /\ used = drift
    /\ pc = [p \in Requests |-> "idle"]
    /\ up = [p \in Requests |-> NoFile]
    /\ file = [p \in Requests |-> NoFile]
    /\ chunk = [p \in Requests |-> 0]
    /\ doubt = {}
    /\ dead = {}
    /\ stale = {}
    /\ aborted = {}
    /\ orphans = {}
    /\ found = {}
    /\ cancelled = {}
    /\ told = {}
    /\ missed = {}

-----------------------------------------------------------------------------
(* Locks, which a transaction holds to its end.                            *)

\* Mutant of PoolFree: the account's row is only read.
PoolFree_read == TRUE

\* The account's row.
PoolFree == doubt = {} /\ \A p \in Requests : pc[p] \notin InPool

\* The upload's row.
RowFree(u) == u \notin doubt /\ \A p \in Requests : up[p] = u => pc[p] \notin InRow

\* The file's row, or the claim on the id of one that is not there yet.
FileFree(f) ==
    /\ \A u \in doubt : row[u].file # f
    /\ \A p \in Requests : file[p] = f => pc[p] \notin InPool

\* The rows' reservations: an open upload's whole length.
reserved(leave) == Cardinality({u \in Uploads : Open(u)} \ leave)

check_room(leave) == used + reserved(leave) + 1 <= quota

Become(p, step) == pc' = [pc EXCEPT ![p] = step]

\* The request ends, its transaction with it.
End(p) ==
    /\ pc' = [pc EXCEPT ![p] = "idle"]
    /\ up' = [up EXCEPT ![p] = NoFile]
    /\ file' = [file EXCEPT ![p] = NoFile]
    /\ chunk' = [chunk EXCEPT ![p] = 0]

Start(p, step, u, f, n) ==
    /\ pc[p] = "idle"
    /\ pc' = [pc EXCEPT ![p] = step]
    /\ up' = [up EXCEPT ![p] = u]
    /\ file' = [file EXCEPT ![p] = f]
    /\ chunk' = [chunk EXCEPT ![p] = n]

-----------------------------------------------------------------------------
(* Opening an upload: create, and tus_versions::open.                      *)

\* The id of a new file is claimed; a version has its live file's one slot.
claim_file_id(f) ==
    /\ FileFree(f)
    /\ \A v \in Uploads : Open(v) => row[v].file # f
    /\ f \notin dead

create(p, u, f) ==
    /\ row[u].state = "new"
    /\ \A q \in Requests : up[q] # u
    /\ claim_file_id(f)
    /\ PoolFree
    /\ check_room({})
    /\ Start(p, "opening", u, f, 0)
    /\ UNCHANGED <<live, landed, row, storeVars, poolVars, doubt, sweepVars, toldVars>>

create_multipart(p) ==
    /\ pc[p] = "opening"
    /\ multipart' = multipart \cup {up[p]}
    /\ Become(p, "opened")
    /\ UNCHANGED <<live, landed, row, objects, poolVars, up, file, chunk, doubt, sweepVars, toldVars>>

insert_upload(p) ==
    /\ pc[p] = "opened"
    /\ row' = [row EXCEPT ![up[p]] = OpenRow(file[p])]
    /\ End(p)
    /\ UNCHANGED <<live, landed, storeVars, poolVars, doubt, sweepVars, toldVars>>

\* The insert or its commit failed, or only its report: the parts are aborted,
\* with luck.
insert_failed(p) ==
    /\ pc[p] = "opened"
    /\ \E r \in {OpenRow(file[p]), GoneRow(file[p])} : row' = [row EXCEPT ![up[p]] = r]
    /\ multipart' \in {multipart, multipart \ {up[p]}}
    /\ End(p)
    /\ UNCHANGED <<live, landed, objects, poolVars, doubt, sweepVars, toldVars>>

-----------------------------------------------------------------------------
(* A chunk: patch, and tus_versions::finish.                               *)

\* Mutant of AtOffset: a chunk is appended wherever it starts.
AtOffset_any(u, n) == Len(row[u].parts) < Chunks

\* The chunk starts where the upload stands.
AtOffset(u, n) == n = Len(row[u].parts) + 1

patch(p, u, n) ==
    /\ Open(u)
    /\ RowFree(u)
    /\ AtOffset(u, n)
    /\ Start(p, "part", u, row[u].file, n)
    /\ UNCHANGED <<live, landed, row, storeVars, poolVars, doubt, sweepVars, toldVars>>

\* A version's writer lost the file, at any chunk.
patch_forbidden(p, u) ==
    /\ Open(u)
    /\ row[u].version
    /\ RowFree(u)
    /\ Start(p, "refused", u, row[u].file, 0)
    /\ UNCHANGED <<live, landed, row, storeVars, poolVars, doubt, sweepVars, toldVars>>

\* The part is stored, unless the store no longer knows the upload.
append_equal_parts(p) ==
    /\ pc[p] = "part"
    /\ up[p] \in multipart
    /\ Become(p, "stored")
    /\ UNCHANGED <<live, landed, row, storeVars, poolVars, up, file, chunk, doubt, sweepVars, toldVars>>

Last(p) == Len(row[up[p]].parts) + 1 = Chunks

\* Not the last one: the row moves on.
commit_part(p) ==
    /\ pc[p] = "stored"
    /\ ~ Last(p)
    /\ row' = [row EXCEPT ![up[p]].parts = Append(@, chunk[p]), ![up[p]].idle = FALSE]
    /\ End(p)
    /\ UNCHANGED <<live, landed, storeVars, poolVars, doubt, sweepVars, toldVars>>

\* The last one: everything opening checked must still hold.
finalize_check(p) ==
    /\ pc[p] = "stored"
    /\ Last(p)
    /\ FileFree(file[p])
    /\ row[up[p]].version <=> file[p] \in live
    /\ PoolFree
    /\ check_room({up[p]})
    /\ Become(p, "checked")
    /\ UNCHANGED <<live, landed, row, storeVars, poolVars, up, file, chunk, doubt, sweepVars, toldVars>>

\* One of them does not: the transaction is dropped and the upload discarded.
finalize_refusal(p) ==
    /\ pc[p] = "stored"
    /\ Last(p)
    /\ Become(p, "refused")
    /\ UNCHANGED <<live, landed, row, storeVars, poolVars, up, file, chunk, doubt, sweepVars, toldVars>>

\* The parts become the object; the answer may be lost.
complete_multipart(p) ==
    /\ pc[p] = "checked"
    /\ up[p] \in multipart
    /\ multipart' = multipart \ {up[p]}
    /\ objects' = objects \cup {up[p]}
    /\ \/ Become(p, "stitched") /\ UNCHANGED <<up, file, chunk>>
       \/ End(p)
    /\ UNCHANGED <<live, landed, row, poolVars, doubt, sweepVars, toldVars>>

\* The stored object is not what was declared, or a statement fails.
store_failed(p) ==
    /\ pc[p] = "stitched"
    /\ Become(p, "failed")
    /\ UNCHANGED <<live, landed, row, storeVars, poolVars, up, file, chunk, doubt, sweepVars, toldVars>>

\* What the transaction leaves: the file or version, its charge, no upload.
charge(u, f) ==
    /\ live' = live \cup {f}
    /\ landed' = [landed EXCEPT ![u] = f]
    /\ used' = used + 1
    /\ row' = [row EXCEPT ![u] = GoneRow(f)]
    /\ UNCHANGED <<quota, drift>>

land(p) ==
    /\ pc[p] = "stitched"
    /\ charge(up[p], file[p])
    /\ told' = told \cup {up[p]}
    /\ End(p)
    /\ UNCHANGED <<storeVars, doubt, sweepVars, cancelled, missed>>

\* The commit's answer is lost: it took effect, or did not, or still may.
commit_lost(p) ==
    /\ pc[p] = "stitched"
    /\ \/ charge(up[p], file[p]) /\ UNCHANGED doubt
       \/ UNCHANGED <<live, landed, row, poolVars, doubt>>
       \/ doubt' = doubt \cup {up[p]} /\ UNCHANGED <<live, landed, row, poolVars>>
    /\ Become(p, "unsure")
    /\ UNCHANGED <<storeVars, up, file, chunk, sweepVars, toldVars>>

\* Whether it landed after all; a failed look leaves everything.
file_landed(p) ==
    /\ pc[p] = "unsure"
    /\ \/ landed[up[p]] # NoFile /\ told' = told \cup {up[p]} /\ End(p) /\ UNCHANGED missed
       \/ landed[up[p]] = NoFile /\ missed' = missed \cup ({up[p]} \cap doubt)
          /\ Become(p, "failed") /\ UNCHANGED <<up, file, chunk, told>>
       \/ End(p) /\ UNCHANGED <<told, missed>>

look_again(p) ==
    /\ file_landed(p)
    /\ UNCHANGED <<live, landed, row, storeVars, poolVars, doubt, sweepVars, cancelled>>

resolve(u) ==
    /\ u \in doubt
    /\ doubt' = doubt \ {u}
    /\ charge(u, row[u].file) \/ UNCHANGED <<live, landed, row, poolVars>>
    /\ UNCHANGED <<storeVars, requestVars, sweepVars, toldVars>>

\* drop_landed and discard: the object or the parts, with luck, and the row.
drop_landed(p) ==
    /\ pc[p] = "failed"
    /\ objects' \in {objects, objects \ {up[p]}}
    /\ Become(p, "dropping")
    /\ UNCHANGED <<live, landed, row, multipart, poolVars, up, file, chunk, doubt, sweepVars, toldVars>>

discard(p) ==
    /\ pc[p] = "refused"
    /\ multipart' \in {multipart, multipart \ {up[p]}}
    /\ Become(p, "dropping")
    /\ UNCHANGED <<live, landed, row, objects, poolVars, up, file, chunk, doubt, sweepVars, toldVars>>

drop_row(p) ==
    /\ pc[p] = "dropping"
    /\ RowFree(up[p])
    /\ row' = [row EXCEPT ![up[p]] = GoneRow(file[p])]
    /\ End(p)
    /\ UNCHANGED <<live, landed, storeVars, poolVars, doubt, sweepVars, toldVars>>

-----------------------------------------------------------------------------
(* Cancelling: delete.                                                     *)

\* Mutant of delete: the row is read, not locked.
delete_unlocked(p, u) ==
    /\ Open(u)
    /\ Start(p, "cancel", u, row[u].file, 0)
    /\ UNCHANGED <<live, landed, row, storeVars, poolVars, doubt, sweepVars, toldVars>>

delete(p, u) ==
    /\ Open(u)
    /\ RowFree(u)
    /\ Start(p, "cancel", u, row[u].file, 0)
    /\ UNCHANGED <<live, landed, row, storeVars, poolVars, doubt, sweepVars, toldVars>>

\* Mutant of abort_multipart: an upload the store does not know is an error.
abort_known(u) == u \in multipart /\ multipart' = multipart \ {u}

\* One the store no longer knows is gone already.
abort_multipart(u) == multipart' = multipart \ {u}

delete_parts(p) ==
    /\ pc[p] = "cancel"
    /\ abort_multipart(up[p])
    /\ Become(p, "aborted")
    /\ UNCHANGED <<live, landed, row, objects, poolVars, up, file, chunk, doubt, sweepVars, toldVars>>

delete_row(p) ==
    /\ pc[p] = "aborted"
    /\ row' = [row EXCEPT ![up[p]] = GoneRow(file[p])]
    /\ cancelled' = cancelled \cup {up[p]}
    /\ End(p)
    /\ UNCHANGED <<live, landed, storeVars, poolVars, doubt, sweepVars, told, missed>>

\* A statement or the store fails, or the server stops: the transaction is
\* rolled back and what the store did stays.
fail(p) ==
    /\ pc[p] # "idle"
    /\ IF pc[p] \in {"opening", "opened"} THEN row' = [row EXCEPT ![up[p]] = GoneRow(file[p])] ELSE UNCHANGED row
    /\ End(p)
    /\ UNCHANGED <<live, landed, storeVars, poolVars, doubt, sweepVars, toldVars>>

-----------------------------------------------------------------------------
(* Beside the requests: sweeps, purges, the reconciler, the administrator. *)

\* An upload's last part is UPLOADS_STALE_AFTER_SECS old.
grow_stale(u) ==
    /\ Open(u)
    /\ ~ row[u].idle
    /\ row' = [row EXCEPT ![u].idle = TRUE]
    /\ UNCHANGED <<live, landed, storeVars, poolVars, requestVars, doubt, sweepVars, toldVars>>

uploads_sweep_list ==
    /\ stale = {}
    /\ aborted = {}
    /\ stale' = {u \in Uploads : Open(u) /\ row[u].idle}
    /\ stale' # {}
    /\ UNCHANGED <<live, landed, row, storeVars, poolVars, requestVars, doubt, dead, aborted,
                   orphans, found, toldVars>>

\* Aborted first; a failure leaves the row for the next sweep.
uploads_sweep_abort(u) ==
    /\ u \in stale
    /\ aborted = {}
    /\ stale' = stale \ {u}
    /\ \/ abort_multipart(u) /\ aborted' = {u}
       \/ UNCHANGED <<multipart, aborted>>
    /\ UNCHANGED <<live, landed, row, objects, poolVars, requestVars, doubt, dead, orphans,
                   found, toldVars>>

uploads_sweep_delete(u) ==
    /\ u \in aborted
    /\ RowFree(u)
    /\ aborted' = {}
    /\ row' = [row EXCEPT ![u] = IF Open(u) THEN GoneRow(@.file) ELSE @]
    /\ UNCHANGED <<live, landed, storeVars, poolVars, requestVars, doubt, dead, stale, orphans,
                   found, toldVars>>

\* Mutant of Referenced: an upload's object is not looked for among uploads.
Referenced_stored(u) == landed[u] # NoFile

Referenced(u) == landed[u] # NoFile \/ Open(u)

\* run_orphan_sweep lists objects, asks which are referenced, and deletes the
\* others.  (Its age floor, which spares new ones, is left out.)
orphan_sweep_list ==
    /\ orphans = {}
    /\ orphans' = {u \in objects : ~ Referenced(u)}
    /\ orphans' # {}
    /\ UNCHANGED <<live, landed, row, storeVars, poolVars, requestVars, doubt, dead, stale,
                   aborted, found, toldVars>>

orphan_sweep_delete(u) ==
    /\ u \in orphans
    /\ orphans' = orphans \ {u}
    /\ objects' \in {objects, objects \ {u}}
    /\ UNCHANGED <<live, landed, row, multipart, poolVars, requestVars, doubt, dead, stale,
                   aborted, found, toldVars>>

\* A file goes for good.  The open upload of a version is locked first, ...
purge_lock(p, f) ==
    /\ f \in live
    /\ \E u \in Uploads \cup {NoFile} :
          /\ IF u = NoFile THEN \A v \in Uploads : ~ (Open(v) /\ row[v].file = f)
                          ELSE Open(u) /\ row[u].file = f /\ RowFree(u)
          /\ Start(p, "purge", u, f, 0)
    /\ UNCHANGED <<live, landed, row, storeVars, poolVars, doubt, sweepVars, toldVars>>

\* ... then the file: its revisions, their charges and that upload go, ...
purge_file_root(p) ==
    /\ pc[p] = "purge"
    /\ file[p] \in live
    /\ FileFree(file[p])
    /\ PoolFree
    /\ LET gone == {u \in Uploads : landed[u] = file[p]}
       IN  /\ landed' = [u \in Uploads |-> IF u \in gone THEN NoFile ELSE landed[u]]
           /\ used' = IF used >= Cardinality(gone) THEN used - Cardinality(gone) ELSE 0
    /\ row' = [u \in Uploads |-> IF u = up[p] THEN GoneRow(file[p]) ELSE row[u]]
    /\ live' = live \ {file[p]}
    /\ dead' = dead \cup {file[p]}
    /\ Become(p, "purged")
    /\ UNCHANGED <<storeVars, quota, drift, up, file, chunk, doubt, stale, aborted, orphans,
                   found, toldVars>>

\* ... and what it has in the store, with luck.
purge_objects(p) ==
    /\ pc[p] = "purged"
    /\ multipart' \in {multipart, multipart \ {up[p]}}
    /\ \E kept \in SUBSET {u \in objects : row[u].file = file[p]} :
          objects' = {u \in objects : row[u].file = file[p] => u \in kept}
    /\ End(p)
    /\ UNCHANGED <<live, landed, row, poolVars, doubt, sweepVars, toldVars>>

\* Mutant of account_quota_reconcile: the sum from before the row was locked.
reconcile_found == CHOOSE n \in found : TRUE

\* The sum taken under the lock.
account_quota_reconcile == Cardinality(Landed)

\* An account whose counter is off is found first, then corrected.
reconcile_find ==
    /\ found = {}
    /\ used # Cardinality(Landed)
    /\ found' = {Cardinality(Landed)}
    /\ UNCHANGED <<live, landed, row, storeVars, poolVars, requestVars, doubt, dead, stale,
                   aborted, orphans, toldVars>>

reconcile_fix ==
    /\ found # {}
    /\ PoolFree
    /\ used' = account_quota_reconcile
    /\ drift' = 0
    /\ found' = {}
    /\ UNCHANGED <<live, landed, row, storeVars, quota, requestVars, doubt, dead, stale,
                   aborted, orphans, toldVars>>

set_quota(q) ==
    /\ q # quota
    /\ PoolFree
    /\ quota' = q
    /\ UNCHANGED <<live, landed, row, storeVars, used, drift, requestVars, doubt, sweepVars, toldVars>>

Request(p) ==
    \/ \E u \in Uploads, f \in Files : create(p, u, f)
    \/ create_multipart(p) \/ insert_upload(p) \/ insert_failed(p)
    \/ \E u \in Uploads, n \in 1 .. Chunks : patch(p, u, n)
    \/ \E u \in Uploads : patch_forbidden(p, u)
    \/ append_equal_parts(p) \/ commit_part(p)
    \/ finalize_check(p) \/ finalize_refusal(p) \/ complete_multipart(p)
    \/ store_failed(p) \/ land(p) \/ commit_lost(p) \/ look_again(p)
    \/ drop_landed(p) \/ discard(p) \/ drop_row(p)
    \/ \E u \in Uploads : delete(p, u)
    \/ delete_parts(p) \/ delete_row(p)
    \/ \E f \in Files : purge_lock(p, f)
    \/ purge_file_root(p) \/ purge_objects(p)
    \/ fail(p)

UploadsSweep ==
    \/ uploads_sweep_list
    \/ \E u \in Uploads : uploads_sweep_abort(u) \/ uploads_sweep_delete(u)

OrphanSweep ==
    \/ orphan_sweep_list
    \/ \E u \in Uploads : orphan_sweep_delete(u)

Next ==
    \/ \E p \in Requests : Request(p)
    \/ \E u \in Uploads : resolve(u) \/ grow_stale(u)
    \/ UploadsSweep
    \/ OrphanSweep
    \/ reconcile_find \/ reconcile_fix
    \/ \E q \in 0 .. MaxQuota : set_quota(q)

Spec == Init /\ [][Next]_vars

(***************************************************************************)
(* The sweep runs every hour and goes through its list, a request ends (by *)
(* its timeouts if nothing else), and the store does not fail every abort. *)
(***************************************************************************)
Fairness ==
    /\ \A p \in Requests : WF_vars(fail(p))
    /\ \A u \in Uploads :
          /\ WF_vars(resolve(u))
          /\ WF_vars(grow_stale(u))
          /\ SF_vars(uploads_sweep_abort(u) /\ u \in aborted')
          /\ SF_vars(uploads_sweep_delete(u))
    /\ WF_vars(uploads_sweep_list)

FairSpec == Spec /\ Fairness

-----------------------------------------------------------------------------
(* What makes uploads correct.                                             *)

\* Everything a file or version row names is in the store, whatever failed
\* between the two and whichever sweep ran meanwhile ("its object must stay"),
\* except where file_landed looked too early: a commit that takes effect after
\* it loses its object to drop_landed.
ObjectKept == Landed \ missed \subseteq objects

\* The account's counter is the sum of what it stores, with charges, purges
\* and the reconciler at once (storage_pool::charge, account_quota_reconcile).
UsedExact == used = Cardinality(Landed) + drift

\* A client told that its upload is stored has it stored, unless the file was
\* purged since (file_landed after a lost commit).
ToldLanded == \A u \in told : landed[u] # NoFile \/ row[u].file \in dead

\* An upload a client was told is cancelled never lands ("once it lands the row
\* is gone and this answers 404 ..., never 204").
CancelledNeverLands == cancelled \cap (Landed \cup told) = {}

\* What clients were told of their uploads is and stays so.
ToldTrue == ToldLanded /\ CancelledNeverLands

\* Chunks are stored once and in order, however often a client repeats one
\* while the first is under way (patch's row lock and offset check).
PartsInOrder ==
    /\ \A u \in Uploads : \A i \in DOMAIN row[u].parts : row[u].parts[i] = i
    /\ \A p \in Requests : pc[p] = "stitched" => chunk[p] = Chunks

\* The rows are well formed, their parts in order.
UploadsInv == TypeOK /\ PartsInOrder

\* Whatever takes room leaves the pool within its quota: two uploads that fit
\* only one at a time are never both let in (check_room's row lock).
NeverOvercommitted ==
    [][used' + reserved({})' > used + reserved({}) => used' + reserved({})' <= quota']_vars

\* An upload left behind does not hold its file's id and its room for ever,
\* also when its parts were stitched before the server stopped.
EventuallyReleased == \A u \in Uploads : Open(u) ~> ~ Open(u)
=============================================================================

---------------------------- MODULE SealedFlush ----------------------------
(***************************************************************************)
(* The flush of one destination's sealed sends (flush_locked): who may     *)
(* send its queue.  Every client's send and every backend's retry worker   *)
(* asks for a flush once its row is queued; none waits for another's.      *)
(*                                                                         *)
(* Three things keep flushes apart: the backend's list of destinations     *)
(* being flushed, whose entry also carries the wish of a send that met it; *)
(* a permit per lock connection; and a session advisory lock in the        *)
(* database, which goes with its session.  A flush takes them in this      *)
(* order and gives the lock back before the list entry, with a last look   *)
(* at the wish in between.                                                 *)
(*                                                                         *)
(* The queue is the destination's pending rows in order; the answers to a  *)
(* run are abstracted to how much of it they settle (SealedFlush says      *)
(* nothing about what the destination stores).                             *)
(***************************************************************************)
EXTENDS Naturals, Sequences, FiniteSets

CONSTANTS
    Clients,    \* clients' requests
    Workers,    \* retry workers
    Backends,
    Home,       \* the backend each of them runs on
    Rows,       \* the destination's sends
    NoTask,     \* nobody holds the advisory lock
    Closing,    \* a session on its way out holds it
    Permits,    \* SEALED_FLUSH_LOCK_CONNECTIONS
    MaxBatch,   \* MAX_SEALED_BATCH_ITEMS
    MaxRounds,  \* MAX_SEALED_FLUSH_ROUNDS
    MaxPasses   \* MAX_SEALED_FLUSH_PASSES

Tasks == Clients \cup Workers

ASSUME FlushAssumption ==
    /\ Clients \cap Workers = {}
    /\ Home \in [Tasks -> Backends]
    /\ NoTask \notin Tasks /\ Closing \notin Tasks /\ NoTask # Closing
    /\ IsFiniteSet(Rows)
    /\ {Permits, MaxBatch, MaxRounds, MaxPasses} \subseteq Nat \ {0}

VARIABLES
    queue,     \* the pending rows, in the order of their sequences
    due,       \* the head's next_attempt_at has passed
    flushing,  \* each backend's entry for the destination
    permits,   \* free lock connections of each backend
    holder,    \* the session holding the advisory lock
    lost,      \* flushes whose session ended under them or was closed
    pc,        \* where each flush stands
    run,       \* the rows it is sending
    rounds,    \* runs sent in this pass
    passes     \* passes made

vars == <<queue, due, flushing, permits, holder, lost, pc, run, rounds, passes>>
queueVars == <<queue, due>>
lockVars == <<flushing, permits, holder, lost>>
workVars == <<run, rounds, passes>>

Locked == {"round", "send", "look", "unlock", "release"}
Listed == Locked \cup {"permit", "leave", "lock", "look2", "relock", "unlist", "abort"}
Permitted == Locked \cup {"lock", "look2", "relock", "unlist", "abort", "return"}

TypeOK ==
    /\ queue \in Seq(Rows) /\ Len(queue) <= Cardinality(Rows)
    /\ due \in BOOLEAN
    /\ flushing \in [Backends -> {"no", "listed", "again"}]
    /\ permits \in [Backends -> 0 .. Permits]
    /\ holder \in Tasks \cup {NoTask, Closing}
    /\ lost \subseteq Tasks
    /\ pc \in [Tasks -> Listed \cup {"idle", "ask", "return"}]
    /\ run \in [Tasks -> Seq(Rows)]
    /\ rounds \in [Tasks -> 0 .. MaxRounds]
    /\ passes \in [Tasks -> 0 .. MaxPasses]

Init ==
    /\ queue = <<>>
    /\ due = TRUE
    /\ flushing = [b \in Backends |-> "no"]
    /\ permits = [b \in Backends |-> Permits]
    /\ holder = NoTask
    /\ lost = {}
    /\ pc = [t \in Tasks |-> "idle"]
    /\ run = [t \in Tasks |-> <<>>]
    /\ rounds = [t \in Tasks |-> 0]
    /\ passes = [t \in Tasks |-> 0]

RowsOf(s) == {s[i] : i \in DOMAIN s}
Goto(t, place) == pc' = [pc EXCEPT ![t] = place]

-----------------------------------------------------------------------------
(* Asking for a flush.                                                     *)

\* A client's row is queued, unless it is pending already.
enqueue_sealed_send(t, r) ==
    /\ pc[t] = "idle"
    /\ queue' = IF r \in RowsOf(queue) THEN queue ELSE Append(queue, r)
    /\ due' = (due \/ queue = <<>>)
    /\ run' = [run EXCEPT ![t] = <<r>>]
    /\ Goto(t, "ask")
    /\ UNCHANGED <<lockVars, rounds, passes>>

\* The worker finds the destination's head due.
flush_due_sealed(t) ==
    /\ pc[t] = "idle"
    /\ queue # <<>>
    /\ due
    /\ run' = [run EXCEPT ![t] = <<>>]
    /\ Goto(t, "ask")
    /\ UNCHANGED <<queueVars, lockVars, rounds, passes>>

\* A flush is under way in this backend: it is asked to run again.
meet_entry(t) ==
    /\ pc[t] = "ask"
    /\ flushing[Home[t]] # "no"
    /\ flushing' = [flushing EXCEPT ![Home[t]] = "again"]
    /\ run' = [run EXCEPT ![t] = <<>>]
    /\ Goto(t, "idle")
    /\ UNCHANGED <<queueVars, permits, holder, lost, rounds, passes>>

list(t) ==
    /\ pc[t] = "ask"
    /\ flushing[Home[t]] = "no"
    /\ flushing' = [flushing EXCEPT ![Home[t]] = "listed"]
    /\ run' = [run EXCEPT ![t] = <<>>]
    /\ Goto(t, "permit")
    /\ UNCHANGED <<queueVars, permits, holder, lost, rounds, passes>>

take_permit(t) ==
    /\ pc[t] = "permit"
    /\ permits[Home[t]] > 0
    /\ permits' = [permits EXCEPT ![Home[t]] = @ - 1]
    /\ Goto(t, "lock")
    /\ UNCHANGED <<queueVars, flushing, holder, lost, workVars>>

\* Mutant of no_permit: the entry stays.
no_permit_listed(t) ==
    /\ pc[t] = "permit"
    /\ permits[Home[t]] = 0
    /\ Goto(t, "idle")
    /\ UNCHANGED <<queueVars, lockVars, workVars>>

\* Every lock connection is taken: skip, and leave the rows to the worker.
no_permit(t) ==
    /\ pc[t] = "permit"
    /\ permits[Home[t]] = 0
    /\ Goto(t, "leave")
    /\ UNCHANGED <<queueVars, lockVars, workVars>>

\* pg_try_advisory_lock; a session that ended takes nothing.
CanLock(t) == holder = NoTask /\ t \notin lost

relock(t) ==
    /\ pc[t] = "lock"
    /\ CanLock(t)
    /\ holder' = t
    /\ Goto(t, "round")
    /\ UNCHANGED <<queueVars, flushing, permits, lost, workVars>>

\* Mutant of relock_failed: the permit is not with the lock that is dropped.
relock_failed_leaky(t) ==
    /\ pc[t] \in {"lock", "relock"}
    /\ Goto(t, "leave")
    /\ UNCHANGED <<queueVars, lockVars, workVars>>

\* Taken by another backend, or no connection, or the query failed.
relock_failed(t) ==
    /\ pc[t] \in {"lock", "relock"}
    /\ Goto(t, "abort")
    /\ UNCHANGED <<queueVars, lockVars, workVars>>

-----------------------------------------------------------------------------
(* A pass of the held flush: flush_rounds.                                 *)

\* Mutant of read_run: every row that is queued.
read_run_whole(t) ==
    /\ pc[t] = "round"
    /\ queue # <<>>
    /\ rounds[t] < MaxRounds
    /\ due \/ t \in Clients
    /\ run' = [run EXCEPT ![t] = IF due THEN queue ELSE <<Head(queue)>>]
    /\ rounds' = [rounds EXCEPT ![t] = @ + 1]
    /\ Goto(t, "send")
    /\ UNCHANGED <<queueVars, lockVars, passes>>

\* The run of pending rows from a due head, or a backing-off head alone, which
\* a client's send may probe.
read_run(t) ==
    /\ pc[t] = "round"
    /\ queue # <<>>
    /\ rounds[t] < MaxRounds
    /\ due \/ t \in Clients
    /\ LET k == IF due THEN MaxBatch ELSE 1
       IN  run' = [run EXCEPT ![t] = SubSeq(queue, 1, IF k < Len(queue) THEN k ELSE Len(queue))]
    /\ rounds' = [rounds EXCEPT ![t] = @ + 1]
    /\ Goto(t, "send")
    /\ UNCHANGED <<queueVars, lockVars, passes>>

\* Nothing is queued, or its head waits, or the rounds are used up.
end_rounds(t) ==
    /\ pc[t] = "round"
    /\ queue = <<>> \/ ~ due \/ rounds[t] = MaxRounds
    /\ passes' = [passes EXCEPT ![t] = @ + 1]
    /\ rounds' = [rounds EXCEPT ![t] = 0]
    /\ Goto(t, "look")
    /\ UNCHANGED <<queueVars, lockVars, run>>

\* A queue without the rows that are done; the others keep their order.
Unsettled(rows, done) ==
    LET kept[n \in 0 .. Len(rows)] ==
            IF n = 0 THEN <<>>
            ELSE IF rows[n] \in done THEN kept[n - 1] ELSE Append(kept[n - 1], rows[n])
    IN  kept[Len(rows)]

\* Takes settled rows off the queue.  The answers to another run with one of
\* them, of a flush whose session was lost, then move nothing: they do not find
\* its first row pending at its sequence.
Settle(t, done) ==
    /\ queue' = Unsettled(queue, done)
    /\ run' = [u \in Tasks |-> IF u = t \/ RowsOf(run[u]) \cap done # {} THEN <<>> ELSE run[u]]

HeadIn(done) == queue # <<>> /\ Head(queue) \in done

\* Every row of the run was settled: on to the next run.
settle_run(t) ==
    /\ pc[t] = "send"
    /\ run[t] # <<>>
    /\ Settle(t, RowsOf(run[t]))
    /\ due' = (due \/ HeadIn(RowsOf(run[t])))
    /\ Goto(t, "round")
    /\ UNCHANGED <<lockVars, rounds, passes>>

\* The run stops at a row whose answer leaves its sequence open: it backs off,
\* unless the answers only ran out or the run was overtaken.
settle_part(t) ==
    /\ pc[t] = "send"
    /\ \E k \in 0 .. Len(run[t]), waits \in BOOLEAN :
          LET done == RowsOf(SubSeq(run[t], 1, k))
          IN  /\ k < Len(run[t]) \/ (run[t] = <<>> /\ ~ waits)
              /\ Settle(t, done)
              /\ due' = /\ due \/ HeadIn(done)
                        /\ ~ (waits /\ queue' # <<>> /\ Head(queue') = run[t][k + 1])
    /\ passes' = [passes EXCEPT ![t] = @ + 1]
    /\ rounds' = [rounds EXCEPT ![t] = 0]
    /\ Goto(t, "look")
    /\ UNCHANGED <<lockVars>>

-----------------------------------------------------------------------------
(* The end of a flush: flush_locked's loop, FlushLock's release and drop.  *)

\* Asked again meanwhile, with passes left: another pass.
look_again(t) ==
    /\ pc[t] = "look"
    /\ passes[t] < MaxPasses
    /\ flushing[Home[t]] = "again"
    /\ flushing' = [flushing EXCEPT ![Home[t]] = "listed"]
    /\ Goto(t, "round")
    /\ UNCHANGED <<queueVars, permits, holder, lost, workVars>>

look_done(t) ==
    /\ pc[t] = "look"
    /\ passes[t] < MaxPasses
    /\ flushing[Home[t]] # "again"
    /\ Goto(t, "unlock")
    /\ UNCHANGED <<queueVars, lockVars, workVars>>

look_limit(t) ==
    /\ pc[t] = "look"
    /\ passes[t] = MaxPasses
    /\ Goto(t, "release")
    /\ UNCHANGED <<queueVars, lockVars, workVars>>

\* The lock goes back; if the query fails its session is closed instead, and
\* this flush has none to take the lock on again.
Unlock(t) ==
    \/ holder' = (IF holder = t THEN NoTask ELSE holder) /\ lost' = lost
    \/ holder' = (IF holder = t THEN Closing ELSE holder) /\ lost' = lost \cup {t}

unlock(t) ==
    /\ pc[t] = "unlock"
    /\ Unlock(t)
    /\ Goto(t, "look2")
    /\ UNCHANGED <<queueVars, flushing, permits, workVars>>

\* The last look, with the lock given back and the entry still listed.
look_last(t) ==
    /\ pc[t] = "look2"
    /\ flushing[Home[t]] = "again"
    /\ flushing' = [flushing EXCEPT ![Home[t]] = "listed"]
    /\ Goto(t, "relock")
    /\ UNCHANGED <<queueVars, permits, holder, lost, workVars>>

look_last_done(t) ==
    /\ pc[t] = "look2"
    /\ flushing[Home[t]] # "again"
    /\ Goto(t, "unlist")
    /\ UNCHANGED <<queueVars, lockVars, workVars>>

\* Mutant of relock_again: on without the lock.
relock_again_unlocked(t) ==
    /\ pc[t] = "relock"
    /\ Goto(t, "round")
    /\ UNCHANGED <<queueVars, lockVars, workVars>>

relock_again(t) ==
    /\ pc[t] = "relock"
    /\ CanLock(t)
    /\ holder' = t
    /\ Goto(t, "round")
    /\ UNCHANGED <<queueVars, flushing, permits, lost, workVars>>

\* The passes are used up: what arrived since is the worker's.
release(t) ==
    /\ pc[t] = "release"
    /\ Unlock(t)
    /\ Goto(t, "abort")
    /\ UNCHANGED <<queueVars, flushing, permits, workVars>>

\* The entry goes.  A flush that failed, got no lock or used up its passes
\* leaves what arrived meanwhile to the worker.
stop_listing(t) ==
    /\ pc[t] \in {"unlist", "abort", "leave"}
    /\ flushing' = [flushing EXCEPT ![Home[t]] = "no"]
    /\ run' = [run EXCEPT ![t] = <<>>]
    /\ rounds' = [rounds EXCEPT ![t] = 0]
    /\ passes' = [passes EXCEPT ![t] = 0]
    /\ Goto(t, IF pc[t] = "leave" THEN "idle" ELSE "return")
    /\ UNCHANGED <<queueVars, permits, holder, lost>>

return_permit(t) ==
    /\ pc[t] = "return"
    /\ permits' = [permits EXCEPT ![Home[t]] = @ + 1]
    /\ lost' = lost \ {t}
    /\ Goto(t, "idle")
    /\ UNCHANGED <<queueVars, flushing, holder, workVars>>

\* Mutant of drop: the connection goes back to the pool with its lock.
drop_pooled(t) ==
    /\ pc[t] \in {"round", "send"}
    /\ Goto(t, "abort")
    /\ UNCHANGED <<queueVars, lockVars, workVars>>

\* A database error ends the flush: dropped while locked, it closes its
\* session.
drop(t) ==
    /\ pc[t] \in {"round", "send"}
    /\ holder' = IF holder = t THEN Closing ELSE holder
    /\ Goto(t, "abort")
    /\ UNCHANGED <<queueVars, flushing, permits, lost, workVars>>

-----------------------------------------------------------------------------
(* The surroundings.                                                       *)

\* A closed session is gone from the database, and its lock with it.
session_ended ==
    /\ holder = Closing
    /\ holder' = NoTask
    /\ UNCHANGED <<queueVars, flushing, permits, lost, pc, workVars>>

\* The database ends a session under its flush.
session_lost(t) ==
    /\ holder = t
    /\ holder' = NoTask
    /\ lost' = lost \cup {t}
    /\ UNCHANGED <<queueVars, flushing, permits, pc, workVars>>

\* A backend stops, its sessions closing, and starts again.
crash(b) ==
    LET here == {t \in Tasks : Home[t] = b}
    IN  /\ \E t \in here : pc[t] # "idle"
        /\ pc' = [t \in Tasks |-> IF t \in here THEN "idle" ELSE pc[t]]
        /\ flushing' = [flushing EXCEPT ![b] = "no"]
        /\ permits' = [permits EXCEPT ![b] = Permits]
        /\ holder' = IF holder \in here THEN Closing ELSE holder
        /\ lost' = lost \ here
        /\ run' = [t \in Tasks |-> IF t \in here THEN <<>> ELSE run[t]]
        /\ rounds' = [t \in Tasks |-> IF t \in here THEN 0 ELSE rounds[t]]
        /\ passes' = [t \in Tasks |-> IF t \in here THEN 0 ELSE passes[t]]
        /\ UNCHANGED queueVars

\* The head's backoff is over.
elapse ==
    /\ ~ due
    /\ due' = TRUE
    /\ UNCHANGED <<queue, lockVars, pc, workVars>>

Flush(t) ==
    \/ meet_entry(t)
    \/ list(t)
    \/ take_permit(t)
    \/ no_permit(t)
    \/ relock(t)
    \/ relock_failed(t)
    \/ read_run(t)
    \/ end_rounds(t)
    \/ settle_run(t)
    \/ settle_part(t)
    \/ look_again(t)
    \/ look_done(t)
    \/ look_limit(t)
    \/ unlock(t)
    \/ look_last(t)
    \/ look_last_done(t)
    \/ relock_again(t)
    \/ release(t)
    \/ stop_listing(t)
    \/ return_permit(t)
    \/ drop(t)

Next ==
    \/ \E t \in Clients, r \in Rows : enqueue_sealed_send(t, r)
    \/ \E t \in Workers : flush_due_sealed(t)
    \/ \E t \in Tasks : Flush(t)
    \/ session_ended
    \/ \E t \in Tasks : session_lost(t)
    \/ \E b \in Backends : crash(b)
    \/ elapse

Spec == Init /\ [][Next]_vars

(***************************************************************************)
(* A flush runs in its own task to its end, a closed session goes, a       *)
(* backoff passes, and the worker looks again and again.  The destination  *)
(* answers a run that keeps being sent, and the database a lock that keeps *)
(* being asked for; any one try may fail, and a backend may crash, but not *)
(* for ever.                                                               *)
(***************************************************************************)
FlushFairness ==
    /\ WF_vars(session_ended)
    /\ WF_vars(elapse)
    /\ SF_vars(\E t \in Workers : flush_due_sealed(t))
    /\ \A t \in Tasks : WF_vars(Flush(t))
    /\ SF_vars(\E t \in Tasks : relock(t))
    /\ SF_vars(\E t \in Tasks : read_run(t))
    /\ SF_vars(\E t \in Tasks : settle_run(t))
    /\ <>[][\A b \in Backends : ~ crash(b)]_vars

FairSpec == Spec /\ FlushFairness

-----------------------------------------------------------------------------
(* What makes the flush correct.                                           *)

\* One flush of a destination sends at a time, across every backend, whatever
\* fails or crashes, unless the database ended a flush's session under it
\* (try_lock, relock and the looks of flush_locked).
OneSender ==
    \A t, u \in Tasks :
        pc[t] \in {"round", "send"} /\ pc[u] \in {"round", "send"} /\ {t, u} \cap lost = {}
            => t = u

\* Nothing keeps the advisory lock but a flush that is working: a connection
\* never goes back to its pool with it (FlushLock's unlock and drop).
LockOwned == holder \in Tasks => pc[holder] \in Locked

\* A backend's entry is there exactly while one flush of it is listed, so a
\* send that meets an entry leaves its wish with a flush that still runs, and
\* no error or missing permit leaves an entry behind (stop_listing, drop).
EntryOwned ==
    \A b \in Backends :
        LET listed == {t \in Tasks : Home[t] = b /\ pc[t] \in Listed}
        IN  IF flushing[b] = "no" THEN listed = {} ELSE \E t \in listed : listed = {t}

\* Every permit not free is a flush's: none leaks, and there are never more
\* sessions than lock connections (try_lock, drop).
PermitsKept ==
    \A b \in Backends :
        permits[b] + Cardinality({t \in Tasks : Home[t] = b /\ pc[t] \in Permitted}) = Permits

\* A flush never sends more rows at once than the destination takes, however
\* long the queue is (flush_rounds' LIMIT and its consecutive run).
BatchesKept == \A t \in Tasks : Len(run[t]) <= MaxBatch

\* Limits hold: of rounds and passes (flush_locked, flush_rounds), of what is
\* sent at once, and of permits.
LimitsKept == TypeOK /\ PermitsKept /\ BatchesKept

\* Every queued row is settled in the end, whoever flushes it.
EventuallyFlushed == \A r \in Rows : r \in RowsOf(queue) ~> r \notin RowsOf(queue)
=============================================================================

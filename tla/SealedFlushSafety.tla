-------------------------- MODULE SealedFlushSafety --------------------------
(***************************************************************************)
(* One flush of a destination sends at a time, proved for every set of     *)
(* backends, clients and workers and every limit.  The inductive invariant *)
(* says who holds what: a flush past its lock query holds the advisory     *)
(* lock or has lost its session, nobody else holds it, and a backend's     *)
(* entry belongs to exactly one listed flush.                              *)
(***************************************************************************)
EXTENDS SealedFlush, FiniteSetTheorems, FunctionTheorems, WellFoundedInduction, TLAPS

FlushTypes ==
    /\ pc \in [Tasks -> Listed \cup {"idle", "ask", "return"}]
    /\ flushing \in [Backends -> {"no", "listed", "again"}]
    /\ holder \in Tasks \cup {NoTask, Closing}
    /\ lost \subseteq Tasks

LockHeld == \A t \in Tasks : pc[t] \in Locked => holder = t \/ t \in lost

ListedHasEntry == \A t \in Tasks : pc[t] \in Listed => flushing[Home[t]] # "no"
EntryHasFlush ==
    \A b \in Backends : flushing[b] # "no" => \E t \in Tasks : Home[t] = b /\ pc[t] \in Listed
ListedAlone ==
    \A t, u \in Tasks : pc[t] \in Listed /\ pc[u] \in Listed /\ Home[t] = Home[u] => t = u
EntryInv == ListedHasEntry /\ EntryHasFlush /\ ListedAlone

FlushInv == FlushTypes /\ LockHeld /\ LockOwned /\ EntryInv
-----------------------------------------------------------------------------
(* How a step moves a flush, its lock and its entry.                       *)

\* Only t moves; it stays listed or unlisted, and the entry stays.
Stays(t) ==
    /\ \A u \in Tasks : u # t => pc'[u] = pc[u]
    /\ pc'[t] \in Listed <=> pc[t] \in Listed
    /\ \A b \in Backends : flushing'[b] # "no" <=> flushing[b] # "no"

Enters(t) ==
    /\ \A u \in Tasks : u # t => pc'[u] = pc[u]
    /\ pc[t] \notin Listed /\ pc'[t] \in Listed
    /\ flushing[Home[t]] = "no" /\ flushing'[Home[t]] # "no"
    /\ \A b \in Backends : b # Home[t] => flushing'[b] = flushing[b]

Leaves(t) ==
    /\ \A u \in Tasks : u # t => pc'[u] = pc[u]
    /\ pc[t] \in Listed /\ pc'[t] \notin Listed
    /\ flushing'[Home[t]] = "no"
    /\ \A b \in Backends : b # Home[t] => flushing'[b] = flushing[b]

\* The lock stays with who has it.
SameLock(t) ==
    /\ holder' = holder /\ lost' = lost
    /\ pc'[t] \in Locked <=> pc[t] \in Locked

Takes(t) == holder = NoTask /\ holder' = t /\ lost' = lost /\ pc'[t] \in Locked /\ t \notin lost

Gives(t) ==
    /\ pc'[t] \notin Locked /\ lost' \in {lost, lost \cup {t}}
    /\ holder' = holder \/ (holder = t /\ holder' \in {NoTask, Closing})
    /\ holder' # t

Moves(t) ==
    /\ Stays(t) \/ Enters(t) \/ Leaves(t)
    /\ SameLock(t) \/ Takes(t) \/ Gives(t)

\* A flush's own step moves only itself, and takes or gives lock and entry
\* together with its place.
LEMMA FlushMoves ==
    ASSUME FlushInv, NEW t \in Tasks, Flush(t), pc[t] # "return"
    PROVE  Moves(t)
<1> USE FlushAssumption DEF FlushInv, FlushTypes, Locked, Listed, Goto, lockVars
<1>0. Home[t] \in Backends
  OBVIOUS
<1>1. CASE meet_entry(t)
  BY <1>0, <1>1 DEF meet_entry, Moves, Stays, SameLock
<1>2. CASE list(t)
  BY <1>0, <1>2 DEF list, Moves, Enters, SameLock
<1>3. CASE take_permit(t) \/ no_permit(t)
  BY <1>3 DEF take_permit, no_permit, Moves, Stays, SameLock
<1>4. CASE relock(t)
  BY <1>4 DEF relock, CanLock, Moves, Stays, Takes
<1>5. CASE relock_failed(t)
  BY <1>5 DEF relock_failed, Moves, Stays, SameLock
<1>6. CASE read_run(t) \/ end_rounds(t) \/ settle_run(t) \/ settle_part(t)
  BY <1>6 DEF read_run, end_rounds, settle_run, settle_part, Moves, Stays, SameLock
<1>7. CASE look_again(t)
  BY <1>0, <1>7 DEF look_again, Moves, Stays, SameLock
<1>8. CASE look_done(t) \/ look_limit(t)
  BY <1>8 DEF look_done, look_limit, Moves, Stays, SameLock
<1>9. CASE unlock(t)
  BY <1>9 DEF unlock, Unlock, Moves, Stays, Gives
<1>10. CASE look_last(t)
  BY <1>0, <1>10 DEF look_last, Moves, Stays, SameLock
<1>11. CASE look_last_done(t)
  BY <1>11 DEF look_last_done, Moves, Stays, SameLock
<1>12. CASE relock_again(t)
  BY <1>12 DEF relock_again, CanLock, Moves, Stays, Takes
<1>13. CASE release(t)
  BY <1>13 DEF release, Unlock, Moves, Stays, Gives
<1>14. CASE stop_listing(t)
  BY <1>0, <1>14 DEF stop_listing, Moves, Leaves, SameLock
<1>15. CASE return_permit(t)
  BY <1>15 DEF return_permit
<1>16. CASE drop(t)
  BY <1>16 DEF drop, Moves, Stays, Gives
<1> QED
  BY <1>1, <1>2, <1>3, <1>4, <1>5, <1>6, <1>7, <1>8, <1>9, <1>10, <1>11, <1>12, <1>13, <1>14,
     <1>15, <1>16 DEF Flush

\* A flush's move keeps who holds the lock.
LEMMA LockMoves ==
    ASSUME FlushInv, NEW t \in Tasks, Moves(t)
    PROVE  LockHeld' /\ LockOwned'
<1> USE FlushAssumption DEF FlushInv, FlushTypes
<1>0. \A u \in Tasks : u # t => pc'[u] = pc[u]
  BY DEF Moves, Stays, Enters, Leaves
<1>1. CASE SameLock(t)
  BY <1>0, <1>1 DEF SameLock, LockHeld, LockOwned
<1>2. CASE Takes(t)
  BY <1>0, <1>2 DEF Takes, LockHeld, LockOwned
<1>3. CASE Gives(t)
  <2>1. LockHeld'
    <3> SUFFICES ASSUME NEW u \in Tasks, pc'[u] \in Locked PROVE holder' = u \/ u \in lost'
      BY DEF LockHeld
    <3>1. u # t /\ pc[u] \in Locked /\ lost \subseteq lost'
      BY <1>0, <1>3 DEF Gives
    <3>2. CASE u \in lost
      BY <3>1, <3>2
    <3>3. CASE holder = u
      BY <1>3, <3>1, <3>3 DEF Gives, LockHeld
    <3> QED BY <3>1, <3>2, <3>3 DEF LockHeld
  <2>2. LockOwned'
    BY <1>0, <1>3 DEF Gives, LockOwned
  <2> QED BY <2>1, <2>2
<1> QED BY <1>1, <1>2, <1>3 DEF Moves

\* A flush's move keeps entries and listed flushes paired.
LEMMA EntryMoves ==
    ASSUME FlushInv, NEW t \in Tasks, Moves(t)
    PROVE  EntryInv'
<1> USE FlushAssumption DEF FlushInv, EntryInv
<1>0. \A u \in Tasks : Home[u] \in Backends
  OBVIOUS
<1>1. CASE Stays(t)
  BY <1>0, <1>1 DEF Stays, ListedHasEntry, EntryHasFlush, ListedAlone
<1>2. CASE Enters(t)
  BY <1>0, <1>2 DEF Enters, ListedHasEntry, EntryHasFlush, ListedAlone
<1>3. CASE Leaves(t)
  BY <1>0, <1>3 DEF Leaves, ListedHasEntry, EntryHasFlush, ListedAlone
<1> QED BY <1>1, <1>2, <1>3 DEF Moves
-----------------------------------------------------------------------------
(* The step, and the theorems.                                             *)

\* Every step of a flush keeps the types.
LEMMA FlushKeepsTypes ==
    ASSUME FlushTypes, NEW t \in Tasks, Flush(t)
    PROVE  FlushTypes'
<1> USE FlushAssumption DEF FlushTypes, Locked, Listed, Goto, lockVars
<1>1. CASE meet_entry(t) \/ list(t) \/ take_permit(t) \/ no_permit(t)
  BY <1>1 DEF meet_entry, list, take_permit, no_permit
<1>2. CASE relock(t) \/ relock_failed(t) \/ relock_again(t)
  BY <1>2 DEF relock, relock_failed, relock_again
<1>3. CASE read_run(t) \/ end_rounds(t) \/ settle_run(t) \/ settle_part(t)
  BY <1>3 DEF read_run, end_rounds, settle_run, settle_part
<1>4. CASE look_again(t) \/ look_done(t) \/ look_limit(t) \/ look_last(t) \/ look_last_done(t)
  BY <1>4 DEF look_again, look_done, look_limit, look_last, look_last_done
<1>5. CASE unlock(t) \/ release(t) \/ drop(t)
  BY <1>5 DEF unlock, release, drop, Unlock
<1>6. CASE stop_listing(t) \/ return_permit(t)
  BY <1>6 DEF stop_listing, return_permit
<1> QED
  BY <1>1, <1>2, <1>3, <1>4, <1>5, <1>6 DEF Flush

\* A flush that is done, and so holds neither lock nor entry, returns its
\* permit.
LEMMA ReturnKeeps ==
    ASSUME FlushInv, NEW t \in Tasks, return_permit(t)
    PROVE  LockHeld' /\ LockOwned' /\ EntryInv'
<1> USE FlushAssumption DEF FlushInv, FlushTypes, Locked, Listed, Goto, return_permit
<1>1. /\ \A u \in Tasks : u # t => pc'[u] = pc[u]
      /\ pc'[t] \notin Listed /\ pc[t] \notin Listed /\ pc[t] \notin Locked /\ pc'[t] \notin Locked
  OBVIOUS
<1>2. holder' = holder /\ flushing' = flushing /\ lost' = lost \ {t}
  OBVIOUS
<1>3. LockHeld'
  BY <1>1, <1>2 DEF LockHeld
<1>4. LockOwned'
  BY <1>1, <1>2 DEF LockOwned
<1>5. EntryInv'
  <2>1. \A u \in Tasks : pc'[u] \in Listed <=> pc[u] \in Listed
    BY <1>1
  <2> QED BY <1>2, <2>1 DEF EntryInv, ListedHasEntry, EntryHasFlush, ListedAlone
<1> QED BY <1>3, <1>4, <1>5

\* A crash takes every flush of one backend off the list and out of the lock.
LEMMA CrashKeeps ==
    ASSUME FlushInv, NEW b \in Backends, crash(b)
    PROVE  FlushInv'
<1> USE FlushAssumption DEF FlushInv, FlushTypes
<1> DEFINE here == {t \in Tasks : Home[t] = b}
<1>1. /\ pc' = [t \in Tasks |-> IF t \in here THEN "idle" ELSE pc[t]]
      /\ flushing' = [flushing EXCEPT ![b] = "no"]
      /\ holder' = IF holder \in here THEN Closing ELSE holder
      /\ lost' = lost \ here
  BY DEF crash
<1>2. "idle" \notin Listed /\ "idle" \notin Locked
  BY DEF Listed, Locked
<1>3. FlushTypes'
  BY <1>1
<1>4. \A t \in Tasks : IF t \in here THEN pc'[t] = "idle" ELSE pc'[t] = pc[t]
  BY <1>1
<1>5. LockHeld'
  BY <1>1, <1>2, <1>4 DEF LockHeld
<1>6. LockOwned'
  <2> SUFFICES ASSUME holder' \in Tasks PROVE pc'[holder'] \in Locked
    BY DEF LockOwned
  <2>1. holder' = holder /\ holder \notin here
    BY <1>1
  <2> QED BY <1>4, <2>1 DEF LockOwned
<1>7. EntryInv'
  <2>1. ListedHasEntry'
    BY <1>1, <1>2, <1>4 DEF EntryInv, ListedHasEntry
  <2>2. EntryHasFlush'
    BY <1>1, <1>4 DEF EntryInv, EntryHasFlush
  <2>3. ListedAlone'
    BY <1>2, <1>4 DEF EntryInv, ListedAlone
  <2> QED BY <2>1, <2>2, <2>3 DEF EntryInv
<1> QED BY <1>3, <1>5, <1>6, <1>7

\* Every step of the system keeps the invariant.
LEMMA FlushStep == FlushInv /\ [Next]_vars => FlushInv'
<1> SUFFICES ASSUME FlushInv, [Next]_vars PROVE FlushInv'
  OBVIOUS
<1> USE FlushAssumption
<1>1. ASSUME NEW t \in Tasks, Flush(t) PROVE FlushInv'
  <2>1. FlushTypes'
    BY <1>1, FlushKeepsTypes DEF FlushInv
  <2>2. CASE return_permit(t)
    BY <2>1, <2>2, ReturnKeeps DEF FlushInv
  <2>3. CASE ~ return_permit(t)
    <3>1. pc[t] # "return"
      BY <1>1, <2>3 DEF Flush, meet_entry, list, take_permit, no_permit, relock, relock_failed,
         read_run, end_rounds, settle_run, settle_part, look_again, look_done, look_limit, unlock,
         look_last, look_last_done, relock_again, release, stop_listing, drop
    <3>2. Moves(t)
      BY <1>1, <3>1, FlushMoves
    <3> QED BY <2>1, <3>2, LockMoves, EntryMoves DEF FlushInv
  <2> QED BY <2>2, <2>3
<1>2. ASSUME NEW t \in Tasks, pc[t] = "idle", Goto(t, "ask"), UNCHANGED lockVars PROVE FlushInv'
  <2> USE DEF FlushInv, FlushTypes, Goto, lockVars, Listed, Locked
  <2>1. FlushTypes'
    BY <1>2
  <2>2. Moves(t)
    BY <1>2 DEF Moves, Stays, SameLock
  <2> HIDE DEF FlushInv
  <2> QED BY <2>1, <2>2, LockMoves, EntryMoves DEF FlushInv
<1>3. CASE \E t \in Clients, r \in Rows : enqueue_sealed_send(t, r)
  BY <1>2, <1>3 DEF enqueue_sealed_send, Tasks, lockVars
<1>4. CASE \E t \in Workers : flush_due_sealed(t)
  BY <1>2, <1>4 DEF flush_due_sealed, Tasks, lockVars
<1>5. CASE session_ended
  <2>1. flushing' = flushing /\ pc' = pc /\ lost' = lost /\ holder = Closing /\ holder' = NoTask
    BY <1>5 DEF session_ended
  <2> QED BY <2>1 DEF FlushInv, FlushTypes, LockHeld, LockOwned, EntryInv, ListedHasEntry,
             EntryHasFlush,
         ListedAlone
<1>6. ASSUME NEW t \in Tasks, session_lost(t) PROVE FlushInv'
  <2>1. flushing' = flushing /\ pc' = pc /\ lost' = lost \cup {t} /\ holder = t /\ holder' = NoTask
    BY <1>6 DEF session_lost
  <2> QED BY <2>1 DEF FlushInv, FlushTypes, LockHeld, LockOwned, EntryInv, ListedHasEntry,
             EntryHasFlush,
         ListedAlone
<1>7. CASE elapse \/ UNCHANGED vars
  <2>1. flushing' = flushing /\ pc' = pc /\ lost' = lost /\ holder' = holder
    BY <1>7 DEF elapse, lockVars, vars
  <2> QED BY <2>1 DEF FlushInv, FlushTypes, LockHeld, LockOwned, EntryInv, ListedHasEntry,
             EntryHasFlush,
         ListedAlone
<1> QED
  BY <1>1, <1>3, <1>4, <1>5, <1>6, <1>7, CrashKeeps DEF Next

LEMMA FlushStart == Init => FlushInv
<1> SUFFICES ASSUME Init PROVE FlushInv
  OBVIOUS
<1> USE FlushAssumption DEF Init, Listed, Locked
<1>1. FlushTypes
  BY DEF FlushTypes
<1>2. \A t \in Tasks : pc[t] \notin Listed /\ pc[t] \notin Locked
  OBVIOUS
<1> QED
  BY <1>1, <1>2 DEF FlushInv, LockHeld, LockOwned, EntryInv, ListedHasEntry, EntryHasFlush,
     ListedAlone

\* One flush of a destination sends at a time, across every backend
\* (try_lock, relock, flush_locked).
THEOREM FlushOneSender == Spec => []OneSender
<1>1. FlushInv => OneSender
  <2> SUFFICES ASSUME FlushInv, NEW t \in Tasks, NEW u \in Tasks,
                      pc[t] \in {"round", "send"}, pc[u] \in {"round", "send"},
                      {t, u} \cap lost = {}
               PROVE  t = u
    BY DEF OneSender
  <2>1. pc[t] \in Locked /\ pc[u] \in Locked /\ t \notin lost /\ u \notin lost
    BY DEF Locked
  <2> QED BY <2>1 DEF FlushInv, LockHeld
<1> QED BY <1>1, FlushStart, FlushStep, PTL DEF Spec

\* The advisory lock is only ever a working flush's (FlushLock's unlock and
\* drop).
THEOREM FlushLockOwned == Spec => []LockOwned
<1>1. FlushInv => LockOwned
  BY DEF FlushInv
<1> QED BY <1>1, FlushStart, FlushStep, PTL DEF Spec

\* A backend's entry is there exactly while one flush of it is listed
\* (try_lock, stop_listing, drop).
THEOREM FlushEntryOwned == Spec => []EntryOwned
<1>1. FlushInv => EntryOwned
  <2> SUFFICES ASSUME FlushInv, NEW b \in Backends
               PROVE  LET listed == {t \in Tasks : Home[t] = b /\ pc[t] \in Listed}
                      IN  IF flushing[b] = "no" THEN listed = {}
                                                ELSE \E t \in listed : listed = {t}
    BY DEF EntryOwned
  <2> DEFINE listed == {t \in Tasks : Home[t] = b /\ pc[t] \in Listed}
  <2>1. ASSUME flushing[b] = "no" PROVE listed = {}
    BY <2>1 DEF FlushInv, EntryInv, ListedHasEntry
  <2>2. ASSUME flushing[b] # "no" PROVE \E t \in listed : listed = {t}
    <3>1. PICK t \in listed : TRUE
      BY <2>2 DEF FlushInv, EntryInv, EntryHasFlush
    <3>2. \A u \in listed : u = t
      BY DEF FlushInv, EntryInv, ListedAlone
    <3> QED BY <3>2
  <2> QED BY <2>1, <2>2
<1> QED BY <1>1, FlushStart, FlushStep, PTL DEF Spec
-----------------------------------------------------------------------------
(***************************************************************************)
(* Limits.  A permit is a flush's from take_permit to return_permit, and a *)
(* flush sends only while it has passes left.                              *)
(***************************************************************************)

Holding(b) == {t \in Tasks : Home[t] = b /\ pc[t] \in Permitted}

PermitsInv ==
    \A b \in Backends :
        /\ IsFiniteSet(Holding(b))
        /\ permits[b] + Cardinality(Holding(b)) = Permits

\* Passes are counted from nothing, and a pass begins only below the limit.
PassesInv ==
    \A t \in Tasks :
        /\ pc[t] \in {"idle", "ask", "permit", "leave", "lock", "return"} => passes[t] = 0
        /\ pc[t] \in {"round", "send", "unlock", "look2", "relock"} => passes[t] < MaxPasses

LimitTypes ==
    /\ permits \in [Backends -> 0 .. Permits]
    /\ rounds \in [Tasks -> 0 .. MaxRounds]
    /\ passes \in [Tasks -> 0 .. MaxPasses]

LimitsInv == LimitTypes /\ PermitsInv /\ PassesInv

\* Only t's place changes, and whether it has a permit does not.
SameHolding(t) ==
    /\ \A u \in Tasks : u # t => pc'[u] = pc[u]
    /\ pc'[t] \in Permitted <=> pc[t] \in Permitted
    /\ permits' = permits

LEMMA HoldingStays ==
    ASSUME PermitsInv, NEW t \in Tasks, SameHolding(t)
    PROVE  PermitsInv'
<1>1. \A b \in Backends : Holding(b)' = Holding(b)
  BY DEF SameHolding, Holding
<1> QED BY <1>1 DEF PermitsInv, SameHolding

\* A flush takes one of its backend's permits.
LEMMA HoldingTaken ==
    ASSUME FlushTypes, LimitTypes, PermitsInv, NEW t \in Tasks, take_permit(t)
    PROVE  PermitsInv' /\ permits' \in [Backends -> 0 .. Permits]
<1> USE FlushAssumption DEF FlushTypes, LimitTypes
<1> DEFINE h == Home[t]
<1>0. h \in Backends /\ Permits \in Nat
  OBVIOUS
<1>1. /\ pc[t] \notin Permitted /\ pc'[t] \in Permitted
      /\ \A u \in Tasks : u # t => pc'[u] = pc[u]
  BY DEF take_permit, Goto, Permitted, Locked
<1>2. permits' = [permits EXCEPT ![h] = permits[h] - 1] /\ permits[h] > 0
  BY DEF take_permit
<1>3. Holding(h)' = Holding(h) \cup {t} /\ t \notin Holding(h)
  BY <1>1 DEF Holding
<1>4. \A b \in Backends : b # h => Holding(b)' = Holding(b)
  BY <1>1 DEF Holding
<1>5. IsFiniteSet(Holding(h)) /\ Cardinality(Holding(h)) \in Nat
  BY <1>0, FS_CardinalityType DEF PermitsInv
<1>6. IsFiniteSet(Holding(h)') /\ Cardinality(Holding(h)') = Cardinality(Holding(h)) + 1
  BY <1>3, <1>5, FS_AddElement
<1>7. permits[h] \in 0 .. Permits /\ permits[h] + Cardinality(Holding(h)) = Permits
  BY <1>0 DEF PermitsInv
<1>8. permits[h] - 1 \in 0 .. Permits
  BY <1>0, <1>2, <1>7
<1>9. permits'[h] + Cardinality(Holding(h)') = Permits
  BY <1>0, <1>2, <1>5, <1>6, <1>7
<1>10. \A b \in Backends : b # h => permits'[b] = permits[b]
  BY <1>2
<1>11. permits' \in [Backends -> 0 .. Permits]
  BY <1>2, <1>8
<1>12. PermitsInv'
  BY <1>4, <1>6, <1>9, <1>10 DEF PermitsInv
<1> QED BY <1>11, <1>12

\* A flush gives its permit back.
LEMMA HoldingReturned ==
    ASSUME FlushTypes, LimitTypes, PermitsInv, NEW t \in Tasks, return_permit(t)
    PROVE  PermitsInv' /\ permits' \in [Backends -> 0 .. Permits]
<1> USE FlushAssumption DEF FlushTypes, LimitTypes
<1> DEFINE h == Home[t]
<1>0. h \in Backends /\ Permits \in Nat
  OBVIOUS
<1>1. /\ pc[t] \in Permitted /\ pc'[t] \notin Permitted
      /\ \A u \in Tasks : u # t => pc'[u] = pc[u]
  BY DEF return_permit, Goto, Permitted, Locked
<1>2. permits' = [permits EXCEPT ![h] = permits[h] + 1]
  BY DEF return_permit
<1>3. Holding(h)' = Holding(h) \ {t} /\ t \in Holding(h)
  BY <1>1 DEF Holding
<1>4. \A b \in Backends : b # h => Holding(b)' = Holding(b)
  BY <1>1 DEF Holding
<1>5. IsFiniteSet(Holding(h)) /\ Cardinality(Holding(h)) \in Nat
  BY <1>0, FS_CardinalityType DEF PermitsInv
<1>6. IsFiniteSet(Holding(h)') /\ Cardinality(Holding(h)') = Cardinality(Holding(h)) - 1
  BY <1>3, <1>5, FS_RemoveElement
<1>7. permits[h] \in 0 .. Permits /\ permits[h] + Cardinality(Holding(h)) = Permits
  BY <1>0 DEF PermitsInv
<1>8. Cardinality(Holding(h)') \in Nat
  BY <1>6, FS_CardinalityType
<1>9. permits[h] + 1 \in 0 .. Permits
  BY <1>0, <1>5, <1>6, <1>7, <1>8
<1>10. permits'[h] + Cardinality(Holding(h)') = Permits
  BY <1>0, <1>2, <1>5, <1>6, <1>7
<1>11. \A b \in Backends : b # h => permits'[b] = permits[b]
  BY <1>2
<1>12. permits' \in [Backends -> 0 .. Permits]
  BY <1>2, <1>9
<1>13. PermitsInv'
  BY <1>4, <1>6, <1>10, <1>11 DEF PermitsInv
<1> QED BY <1>12, <1>13

\* A crash frees every permit of its backend, with every flush that had one.
LEMMA HoldingCrashed ==
    ASSUME FlushTypes, LimitTypes, PermitsInv, PassesInv, NEW b \in Backends, crash(b)
    PROVE  LimitsInv'
<1> USE FlushAssumption DEF FlushTypes, LimitTypes
<1>1. \A t \in Tasks : /\ Home[t] = b => pc'[t] = "idle" /\ passes'[t] = 0
                       /\ Home[t] # b => pc'[t] = pc[t] /\ passes'[t] = passes[t]
  BY DEF crash
<1>2. permits' = [permits EXCEPT ![b] = Permits]
  BY DEF crash
<1>3. "idle" \notin Permitted
  BY DEF Permitted, Locked
<1>4. Holding(b)' = {}
  BY <1>1, <1>3 DEF Holding
<1>5. IsFiniteSet(Holding(b)') /\ Cardinality(Holding(b)') = 0
  BY <1>4, FS_EmptySet
<1>6. \A c \in Backends : c # b => Holding(c)' = Holding(c) /\ permits'[c] = permits[c]
  BY <1>1, <1>2 DEF Holding
<1>7. permits'[b] + Cardinality(Holding(b)') = Permits
  BY <1>2, <1>5
<1>8. PermitsInv'
  BY <1>5, <1>6, <1>7 DEF PermitsInv
<1>9. PassesInv'
  BY <1>1 DEF PassesInv
<1>10. LimitTypes'
  <2>1. permits' \in [Backends -> 0 .. Permits]
    BY <1>2
  <2>2. rounds' \in [Tasks -> 0 .. MaxRounds] /\ passes' \in [Tasks -> 0 .. MaxPasses]
    BY DEF crash
  <2> QED BY <2>1, <2>2
<1> QED BY <1>8, <1>9, <1>10 DEF LimitsInv

\* A flush's own step keeps the limits.
LEMMA FlushLimits ==
    ASSUME FlushTypes, LimitsInv, NEW t \in Tasks, Flush(t)
    PROVE  LimitsInv'
<1> USE FlushAssumption DEF LimitsInv, LimitTypes, FlushTypes
<1>0. MaxPasses \in Nat /\ MaxRounds \in Nat /\ 0 < MaxPasses
  OBVIOUS
<1>1. ASSUME UNCHANGED <<permits, rounds, passes>>, SameHolding(t),
             pc'[t] \in {"idle", "ask", "permit", "leave", "lock", "return"} =>
                 pc[t] \in {"idle", "ask", "permit", "leave", "lock", "return"},
             pc'[t] \in {"round", "send", "unlock", "look2", "relock"} => passes[t] < MaxPasses
      PROVE  LimitsInv'
  <2>1. PermitsInv'
    BY <1>1, HoldingStays
  <2>2. PassesInv'
    BY <1>1 DEF PassesInv, SameHolding
  <2> QED BY <1>1, <2>1, <2>2
<1> USE DEF Goto, lockVars, workVars, Permitted, Locked
<1>2. CASE meet_entry(t) \/ list(t) \/ no_permit(t) \/ relock_failed(t)
  <2>1. CASE meet_entry(t)
    BY <1>1, <2>1 DEF meet_entry, SameHolding, PassesInv
  <2>2. CASE list(t)
    BY <1>1, <2>2 DEF list, SameHolding, Listed, PassesInv
  <2>3. CASE no_permit(t) \/ relock_failed(t)
    BY <1>1, <2>3 DEF no_permit, relock_failed, SameHolding, Listed, PassesInv
  <2> QED BY <1>2, <2>1, <2>2, <2>3
<1>3. CASE relock(t) \/ relock_again(t)
  BY <1>0, <1>1, <1>3 DEF relock, relock_again, SameHolding, Listed, PassesInv
<1>4. CASE look_again(t) \/ look_done(t) \/ look_limit(t)
  BY <1>1, <1>4 DEF look_again, look_done, look_limit, SameHolding, Listed, PassesInv
<1>5. CASE unlock(t) \/ look_last(t) \/ look_last_done(t) \/ release(t) \/ drop(t)
  BY <1>1, <1>5 DEF unlock, look_last, look_last_done, release, drop, SameHolding, Listed, PassesInv
<1>6. CASE take_permit(t)
  <2>1. PermitsInv' /\ permits' \in [Backends -> 0 .. Permits]
    BY <1>6, HoldingTaken
  <2>2. PassesInv'
    BY <1>6 DEF take_permit, PassesInv
  <2> QED BY <1>6, <2>1, <2>2 DEF take_permit
<1>7. CASE return_permit(t)
  <2>1. PermitsInv' /\ permits' \in [Backends -> 0 .. Permits]
    BY <1>7, HoldingReturned
  <2>2. PassesInv'
    BY <1>7 DEF return_permit, PassesInv
  <2> QED BY <1>7, <2>1, <2>2 DEF return_permit
<1>8. CASE read_run(t)
  <2>1. SameHolding(t)
    BY <1>8 DEF read_run, SameHolding
  <2>2. PassesInv'
    BY <1>8 DEF read_run, PassesInv
  <2>3. rounds' \in [Tasks -> 0 .. MaxRounds]
    <3>1. rounds[t] + 1 \in 0 .. MaxRounds
      BY <1>0, <1>8 DEF read_run
    <3> QED BY <1>8, <3>1 DEF read_run
  <2> QED BY <1>8, <2>1, <2>2, <2>3, HoldingStays DEF read_run
<1>9. CASE end_rounds(t) \/ settle_part(t)
  <2>1. /\ passes' = [passes EXCEPT ![t] = @ + 1] /\ rounds' = [rounds EXCEPT ![t] = 0]
        /\ pc' = [pc EXCEPT ![t] = "look"] /\ permits' = permits /\ pc[t] \in {"round", "send"}
    BY <1>9 DEF end_rounds, settle_part
  <2>2. SameHolding(t)
    BY <2>1 DEF SameHolding
  <2>3. passes[t] + 1 \in 0 .. MaxPasses
    BY <1>0, <2>1 DEF PassesInv
  <2>4. passes' \in [Tasks -> 0 .. MaxPasses] /\ rounds' \in [Tasks -> 0 .. MaxRounds]
    BY <1>0, <2>1, <2>3
  <2>5. PassesInv'
    BY <2>1 DEF PassesInv
  <2> QED BY <2>1, <2>2, <2>4, <2>5, HoldingStays
<1>10. CASE settle_run(t)
  <2>1. UNCHANGED <<permits, rounds, passes>> /\ pc' = [pc EXCEPT ![t] = "round"] /\ pc[t] = "send"
    BY <1>10 DEF settle_run
  <2>2. SameHolding(t)
    BY <2>1 DEF SameHolding
  <2> QED BY <1>1, <2>1, <2>2 DEF PassesInv
<1>11. CASE stop_listing(t)
  <2>1. /\ permits' = permits /\ rounds' = [rounds EXCEPT ![t] = 0]
        /\ passes' = [passes EXCEPT ![t] = 0]
        /\ pc' = [pc EXCEPT ![t] = IF pc[t] = "leave" THEN "idle" ELSE "return"]
        /\ pc[t] \in {"unlist", "abort", "leave"}
    BY <1>11 DEF stop_listing
  <2>2. SameHolding(t)
    BY <2>1 DEF SameHolding
  <2>3. PassesInv'
    BY <2>1 DEF PassesInv
  <2>4. passes' \in [Tasks -> 0 .. MaxPasses] /\ rounds' \in [Tasks -> 0 .. MaxRounds]
    BY <1>0, <2>1
  <2> QED BY <2>1, <2>2, <2>3, <2>4, HoldingStays
<1> QED
  BY <1>2, <1>3, <1>4, <1>5, <1>6, <1>7, <1>8, <1>9, <1>10, <1>11 DEF Flush

\* Every step of the system keeps the limits.
LEMMA LimitsStep == FlushInv /\ LimitsInv /\ [Next]_vars => LimitsInv'
<1> SUFFICES ASSUME FlushInv, LimitsInv, [Next]_vars PROVE LimitsInv'
  OBVIOUS
<1> USE DEF FlushInv
<1>1. ASSUME NEW t \in Tasks, pc[t] = "idle", Goto(t, "ask"), UNCHANGED <<permits, rounds, passes>>
      PROVE  LimitsInv'
  <2>1. SameHolding(t)
    BY <1>1 DEF SameHolding, Goto, FlushTypes, Permitted, Locked
  <2>2. PassesInv'
    BY <1>1 DEF PassesInv, LimitsInv, Goto, FlushTypes
  <2> QED BY <1>1, <2>1, <2>2, HoldingStays DEF LimitsInv, LimitTypes
<1>2. CASE \E t \in Clients, r \in Rows : enqueue_sealed_send(t, r)
  BY <1>1, <1>2 DEF enqueue_sealed_send, Tasks, lockVars
<1>3. CASE \E t \in Workers : flush_due_sealed(t)
  BY <1>1, <1>3 DEF flush_due_sealed, Tasks, lockVars
<1>4. CASE UNCHANGED <<pc, permits, rounds, passes>>
  <2>1. \A b \in Backends : Holding(b)' = Holding(b)
    BY <1>4 DEF Holding
  <2> QED BY <1>4, <2>1 DEF LimitsInv, LimitTypes, PermitsInv, PassesInv
<1>5. session_ended \/ elapse \/ (\E t \in Tasks : session_lost(t)) \/ UNCHANGED vars
          => UNCHANGED <<pc, permits, rounds, passes>>
  BY DEF session_ended, elapse, session_lost, vars, lockVars, workVars
<1>6. ASSUME NEW b \in Backends, crash(b) PROVE LimitsInv'
  BY <1>6, HoldingCrashed DEF LimitsInv
<1> QED
  BY <1>2, <1>3, <1>4, <1>5, <1>6, FlushLimits DEF Next

LEMMA LimitsStart == Init => LimitsInv
<1> SUFFICES ASSUME Init PROVE LimitsInv
  OBVIOUS
<1> USE FlushAssumption DEF Init
<1>1. \A b \in Backends : Holding(b) = {}
  BY DEF Holding, Permitted, Locked
<1>2. PermitsInv
  <2> SUFFICES ASSUME NEW b \in Backends
               PROVE  /\ IsFiniteSet(Holding(b))
                      /\ permits[b] + Cardinality(Holding(b)) = Permits
    BY DEF PermitsInv
  <2>1. IsFiniteSet(Holding(b)) /\ Cardinality(Holding(b)) = 0
    BY <1>1, FS_EmptySet
  <2>2. permits[b] = Permits /\ Permits \in Nat
    OBVIOUS
  <2> QED BY <2>1, <2>2
<1> QED BY <1>2 DEF LimitsInv, LimitTypes, PassesInv

-----------------------------------------------------------------------------
(* The queue: no row twice, and what settling leaves of it.                *)

\* Induction, as a fact about sets: < on the naturals is well-founded.
LEMMA NatSets ==
    ASSUME NEW S, 0 \in S, \A n \in Nat : n \in S => n + 1 \in S
    PROVE  Nat \subseteq S
<1> DEFINE R == OpToRel(<, Nat)
          T == Nat \ S
<1> SUFFICES ASSUME T # {} PROVE FALSE
  OBVIOUS
<1>1. IsWellFoundedOn(R, Nat)
  BY NatLessThanWellFounded
<1>2. \A i, j \in Nat : i < j => <<i, j>> \in R
  BY DEF OpToRel
<1> HIDE DEF R
<1>3. PICK n \in T : \A k \in T : ~ (<<k, n>> \in R)
  BY <1>1, WFMin
<1>4. n # 0 /\ n - 1 \in Nat /\ n - 1 < n
  OBVIOUS
<1>5. n - 1 \in T
  BY <1>4
<1> QED BY <1>2, <1>3, <1>4, <1>5

\* One more row of the queue looked at, and from none to n of them.
KeptOf(before, r, done) == IF r \in done THEN before ELSE Append(before, r)
Keeps(kept, rows, done, n) ==
    kept = [i \in 0 .. n |->
               IF i = 0 THEN <<>>
               ELSE IF rows[i] \in done THEN kept[i - 1] ELSE Append(kept[i - 1], rows[i])]

\* The recursion of Unsettled has a solution.
LEMMA KeptExists ==
    ASSUME NEW rows, NEW done, NEW k \in Nat
    PROVE  \E kept : Keeps(kept, rows, done, k)
<1> DEFINE S == {n \in Nat : \E kept : Keeps(kept, rows, done, n)}
<1>1. 0 \in S
  <2>1. Keeps([i \in 0 .. 0 |-> <<>>], rows, done, 0)
    BY DEF Keeps
  <2> QED BY <2>1
<1>2. ASSUME NEW n \in Nat, n \in S PROVE n + 1 \in S
  <2>1. PICK f : Keeps(f, rows, done, n)
    BY <1>2
  <2> DEFINE g == [i \in 0 .. n + 1 |-> IF i = n + 1 THEN KeptOf(f[n], rows[n + 1], done) ELSE f[i]]
             h == [i \in 0 .. n + 1 |->
                      IF i = 0 THEN <<>>
                      ELSE IF rows[i] \in done THEN g[i - 1] ELSE Append(g[i - 1], rows[i])]
  <2>2. \A i \in 0 .. n : f[i] = IF i = 0 THEN <<>> ELSE KeptOf(f[i - 1], rows[i], done)
    BY <2>1 DEF Keeps, KeptOf
  <2>3. \A i \in 0 .. n : g[i] = f[i]
    OBVIOUS
  <2>4. g[n + 1] = KeptOf(f[n], rows[n + 1], done)
    OBVIOUS
  <2>5. ASSUME NEW i \in 0 .. n + 1 PROVE g[i] = h[i]
    <3>1. h[i] = IF i = 0 THEN <<>> ELSE KeptOf(g[i - 1], rows[i], done)
      BY DEF KeptOf
    <3> HIDE DEF g, h
    <3>2. CASE i = 0
      BY <2>2, <2>3, <3>1, <3>2
    <3>3. CASE i \in 1 .. n
      <4>1. i - 1 \in 0 .. n /\ i \in 0 .. n
        BY <3>3
      <4> QED BY <2>2, <2>3, <3>1, <3>3, <4>1
    <3>4. CASE i = n + 1
      BY <2>3, <2>4, <3>1, <3>4
    <3> QED BY <3>2, <3>3, <3>4
  <2>6. g = h
    BY <2>5
  <2>7. Keeps(g, rows, done, n + 1)
    BY <2>6 DEF Keeps
  <2> QED BY <2>7
<1> HIDE DEF S
<1>3. Nat \subseteq S
  BY <1>1, <1>2, NatSets
<1> QED BY <1>3 DEF S

\* So Unsettled is what its equation says.
LEMMA UnsettledDef ==
    ASSUME NEW rows, NEW done, Len(rows) \in Nat
    PROVE  \E kept : /\ Unsettled(rows, done) = kept[Len(rows)]
                     /\ kept[0] = <<>>
                     /\ \A i \in 1 .. Len(rows) : kept[i] = KeptOf(kept[i - 1], rows[i], done)
<1> DEFINE n == Len(rows)
           f == CHOOSE kept : Keeps(kept, rows, done, n)
<1>1. Keeps(f, rows, done, n)
  BY KeptExists
<1>2. Unsettled(rows, done) = f[n]
  BY DEF Unsettled, Keeps
<1>3. n \in Nat
  OBVIOUS
<1> HIDE DEF f, n
<1>4. \A i \in 0 .. n : f[i] = IF i = 0 THEN <<>> ELSE KeptOf(f[i - 1], rows[i], done)
  BY <1>1 DEF Keeps, KeptOf
<1>5. 0 \in 0 .. n /\ \A i \in 1 .. n : i \in 0 .. n /\ i # 0
  BY <1>3
<1>6. f[0] = <<>> /\ \A i \in 1 .. n : f[i] = KeptOf(f[i - 1], rows[i], done)
  BY <1>4, <1>5
<1> QED BY <1>2, <1>6 DEF n

Once(rows) == \A i, j \in DOMAIN rows : rows[i] = rows[j] => i = j

\* A row that is not in a queue goes to its end.
LEMMA AppendOnce ==
    ASSUME NEW s \in Seq(Rows), NEW r \in Rows, Once(s), r \notin RowsOf(s)
    PROVE  /\ Append(s, r) \in Seq(Rows) /\ Once(Append(s, r))
           /\ RowsOf(Append(s, r)) = RowsOf(s) \cup {r}
<1> DEFINE q == Append(s, r)
           n == Len(s)
<1>1. /\ n \in Nat /\ DOMAIN s = 1 .. n /\ q \in Seq(Rows) /\ DOMAIN q = 1 .. n + 1
      /\ q[n + 1] = r /\ \A i \in 1 .. n : q[i] = s[i]
  OBVIOUS
<1> HIDE DEF q
<1>2. \A i \in 1 .. n : s[i] # r
  BY <1>1 DEF RowsOf
<1>3. \A i : i \in 1 .. n + 1 <=> i \in 1 .. n \/ i = n + 1
  BY <1>1
<1>4. Once(q)
  BY <1>1, <1>2, <1>3 DEF Once
<1>5. RowsOf(q) = RowsOf(s) \cup {r}
  BY <1>1, <1>3 DEF RowsOf
<1> QED BY <1>1, <1>4, <1>5 DEF q

\* A queue in which no row is twice is no longer than there are rows.
LEMMA OnceBounded ==
    ASSUME NEW rows \in Seq(Rows), Once(rows)
    PROVE  Len(rows) <= Cardinality(Rows)
<1>1. Len(rows) \in Nat /\ rows \in [1 .. Len(rows) -> Rows] /\ DOMAIN rows = 1 .. Len(rows)
  OBVIOUS
<1>2. rows \in Injection(1 .. Len(rows), Rows)
  BY <1>1, Fun_IsInj DEF Once
<1>3. Cardinality(1 .. Len(rows)) <= Cardinality(Rows)
  BY <1>2, FlushAssumption, FS_Injection
<1>4. Cardinality(1 .. Len(rows)) = Len(rows)
  <2>1. \A n \in Nat : Cardinality(1 .. n) = IF 1 > n THEN 0 ELSE n - 1 + 1
    BY FS_Interval
  <2> QED BY <1>1, <2>1
<1> QED BY <1>3, <1>4

\* What settling leaves of a queue is its other rows, each once, in a queue no
\* longer than it was.
LEMMA UnsettledRows ==
    ASSUME NEW rows \in Seq(Rows), NEW done, Once(rows)
    PROVE  /\ Unsettled(rows, done) \in Seq(Rows)
           /\ Once(Unsettled(rows, done))
           /\ RowsOf(Unsettled(rows, done)) = RowsOf(rows) \ done
<1> DEFINE n == Len(rows)
<1>1. n \in Nat /\ DOMAIN rows = 1 .. n /\ \A i \in 1 .. n : rows[i] \in Rows
  OBVIOUS
<1>2. PICK kept : /\ Unsettled(rows, done) = kept[n]
                  /\ kept[0] = <<>>
                  /\ \A i \in 1 .. n : kept[i] = KeptOf(kept[i - 1], rows[i], done)
  BY <1>1, UnsettledDef
<1> DEFINE Good(k) == /\ kept[k] \in Seq(Rows)
                      /\ Once(kept[k])
                      /\ RowsOf(kept[k]) = {rows[i] : i \in 1 .. k} \ done
           S == {k \in Nat : k <= n => Good(k)}
<1>3. 0 \in S
  <2>1. <<>> \in Seq(Rows) /\ DOMAIN <<>> = {} /\ 1 .. 0 = {}
    OBVIOUS
  <2>2. Once(<<>>) /\ RowsOf(<<>>) = {}
    BY <2>1 DEF Once, RowsOf
  <2>3. {rows[i] : i \in 1 .. 0} \ done = {}
    BY <2>1
  <2> QED BY <1>2, <2>1, <2>2, <2>3
<1>4. ASSUME NEW k \in Nat, k \in S PROVE k + 1 \in S
  <2> SUFFICES ASSUME k + 1 <= n PROVE Good(k + 1)
    OBVIOUS
  <2> DEFINE s == kept[k]
             r == rows[k + 1]
  <2>1. /\ s \in Seq(Rows) /\ Once(s) /\ RowsOf(s) = {rows[i] : i \in 1 .. k} \ done
        /\ k + 1 \in 1 .. n /\ r \in Rows
    BY <1>1, <1>4
  <2>2. kept[k + 1] = KeptOf(s, r, done)
    BY <1>2, <2>1
  <2>3. {rows[i] : i \in 1 .. k + 1} = {rows[i] : i \in 1 .. k} \cup {r}
    <3>1. \A i : i \in 1 .. k + 1 <=> i \in 1 .. k \/ i = k + 1
      OBVIOUS
    <3> QED BY <3>1
  <2>4. r \notin {rows[i] : i \in 1 .. k}
    <3>1. \A i \in 1 .. k : i \in 1 .. n /\ i # k + 1
      BY <2>1, <1>1
    <3> QED BY <1>1, <2>1, <3>1 DEF Once
  <2> HIDE DEF s, r
  <2>5. CASE r \in done
    BY <2>1, <2>2, <2>3, <2>5 DEF KeptOf
  <2>6. CASE r \notin done
    <3>1. kept[k + 1] = Append(s, r)
      BY <2>2, <2>6 DEF KeptOf
    <3>2. r \notin RowsOf(s)
      BY <2>1, <2>4
    <3>3. /\ Append(s, r) \in Seq(Rows) /\ Once(Append(s, r))
          /\ RowsOf(Append(s, r)) = RowsOf(s) \cup {r}
      BY <2>1, <3>2, AppendOnce
    <3> QED BY <2>1, <2>3, <2>6, <3>1, <3>3
  <2> QED BY <2>5, <2>6
<1> HIDE DEF S
<1>5. n \in S
  BY <1>1, <1>3, <1>4, NatSets
<1>6. Good(n)
  BY <1>1, <1>5 DEF S
<1>7. RowsOf(rows) = {rows[i] : i \in 1 .. n}
  BY <1>1 DEF RowsOf
<1> QED BY <1>2, <1>6, <1>7

\* What is sent at once.
Batches == {rows \in Seq(Rows) : Len(rows) <= MaxBatch}

\* The queue has no row twice, and every run is a batch of rows.
QueueInv ==
    /\ queue \in Seq(Rows)
    /\ Once(queue)
    /\ due \in BOOLEAN
    /\ run \in [Tasks -> Batches]

LEMMA ShortBatches ==
    /\ <<>> \in Batches
    /\ \A r \in Rows : <<r>> \in Batches
BY FlushAssumption DEF Batches

LEMMA SettleKeeps ==
    ASSUME QueueInv, NEW t \in Tasks, NEW done, Settle(t, done)
    PROVE  /\ queue' \in Seq(Rows) /\ Once(queue')
           /\ run' \in [Tasks -> Batches]
<1> USE DEF QueueInv
<1>1. queue' = Unsettled(queue, done)
  BY DEF Settle
<1>2. queue' \in Seq(Rows) /\ Once(queue')
  BY <1>1, UnsettledRows
<1>3. run' \in [Tasks -> Batches]
  <2>1. <<>> \in Batches /\ \A u \in Tasks : run[u] \in Batches
    BY ShortBatches
  <2> QED BY <2>1 DEF Settle
<1> QED BY <1>2, <1>3

\* A flush keeps the queue: it takes rows off it or leaves it alone, and sends
\* a part of it.
LEMMA FlushQueue ==
    ASSUME QueueInv, NEW t \in Tasks, Flush(t)
    PROVE  QueueInv'
<1> USE DEF QueueInv
<1>1. ASSUME UNCHANGED queueVars, NEW r \in Batches, run' = [run EXCEPT ![t] = r]
      PROVE  QueueInv'
  BY <1>1 DEF queueVars
<1>2. <<>> \in Batches
  BY ShortBatches
<1>3. CASE meet_entry(t) \/ list(t) \/ stop_listing(t)
  <2>1. UNCHANGED queueVars /\ run' = [run EXCEPT ![t] = <<>>]
    BY <1>3 DEF meet_entry, list, stop_listing
  <2> QED BY <1>1, <1>2, <2>1
<1>4. CASE read_run(t)
  <2> DEFINE k == IF due THEN MaxBatch ELSE 1
             m == IF k < Len(queue) THEN k ELSE Len(queue)
  <2>1. k \in 0 .. MaxBatch /\ Len(queue) \in Nat
    BY FlushAssumption
  <2>2. m \in 0 .. Len(queue) /\ m <= MaxBatch
    BY <2>1, FlushAssumption
  <2> HIDE DEF k
  <2>3. UNCHANGED queueVars /\ run' = [run EXCEPT ![t] = SubSeq(queue, 1, m)]
    BY <1>4 DEF read_run, k
  <2> HIDE DEF m
  <2>4. SubSeq(queue, 1, m) \in Batches
    <3>1. SubSeq(queue, 1, m) \in Seq(Rows) /\ Len(SubSeq(queue, 1, m)) = m
      BY <2>2
    <3> QED BY <2>2, <3>1 DEF Batches
  <2> QED BY <1>1, <2>3, <2>4
<1>5. CASE settle_run(t)
  <2>1. Settle(t, RowsOf(run[t])) /\ due' = (due \/ HeadIn(RowsOf(run[t])))
    BY <1>5 DEF settle_run
  <2>2. due' \in BOOLEAN
    BY <2>1, Zenon
  <2> QED BY <2>1, <2>2, SettleKeeps
<1>6. CASE settle_part(t)
  <2>1. PICK k \in 0 .. Len(run[t]), waits \in BOOLEAN :
          LET done == RowsOf(SubSeq(run[t], 1, k))
          IN  /\ Settle(t, done)
              /\ due' = /\ due \/ HeadIn(done)
                        /\ ~ (waits /\ queue' # <<>> /\ Head(queue') = run[t][k + 1])
    BY <1>6 DEF settle_part
  <2>2. due' \in BOOLEAN
    BY <2>1, Zenon
  <2> QED BY <2>1, <2>2, SettleKeeps
<1>7. CASE \/ take_permit(t) \/ no_permit(t) \/ relock(t) \/ relock_failed(t) \/ end_rounds(t)
           \/ look_again(t) \/ look_done(t) \/ look_limit(t) \/ unlock(t) \/ look_last(t)
           \/ look_last_done(t) \/ relock_again(t) \/ release(t) \/ return_permit(t) \/ drop(t)
  <2>1. UNCHANGED <<queue, due, run>>
    BY <1>7 DEF take_permit, no_permit, relock, relock_failed, end_rounds, look_again, look_done,
                look_limit, unlock, look_last, look_last_done, relock_again, release,
                return_permit, drop, queueVars, workVars
  <2> QED BY <2>1 DEF Once
<1> QED BY <1>3, <1>4, <1>5, <1>6, <1>7 DEF Flush

LEMMA QueueStep == QueueInv /\ [Next]_vars => QueueInv'
<1> SUFFICES ASSUME QueueInv, [Next]_vars PROVE QueueInv'
  OBVIOUS
<1> USE DEF QueueInv
<1>1. CASE \E t \in Clients, r \in Rows : enqueue_sealed_send(t, r)
  <2>1. PICK t \in Clients, r \in Rows : enqueue_sealed_send(t, r)
    BY <1>1
  <2>2. queue' \in Seq(Rows) /\ Once(queue')
    BY <2>1, AppendOnce DEF enqueue_sealed_send
  <2>3. due' \in BOOLEAN
    BY <2>1, Zenon DEF enqueue_sealed_send
  <2>4. <<r>> \in Batches /\ run' = [run EXCEPT ![t] = <<r>>]
    BY <2>1, ShortBatches DEF enqueue_sealed_send
  <2>5. run' \in [Tasks -> Batches]
    BY <2>4
  <2> QED BY <2>2, <2>3, <2>5
<1>2. CASE \E t \in Workers : flush_due_sealed(t)
  <2>1. <<>> \in Batches
    BY ShortBatches
  <2> QED BY <1>2, <2>1 DEF flush_due_sealed, queueVars
<1>3. ASSUME NEW b \in Backends, crash(b) PROVE QueueInv'
  <2>1. <<>> \in Batches /\ UNCHANGED queueVars
    BY <1>3, ShortBatches DEF crash
  <2>2. run' \in [Tasks -> Batches]
    BY <1>3, <2>1 DEF crash
  <2> QED BY <2>1, <2>2 DEF queueVars
<1>4. CASE elapse
  BY <1>4 DEF elapse, workVars
<1>5. CASE session_ended \/ (\E t \in Tasks : session_lost(t)) \/ UNCHANGED vars
  <2>1. UNCHANGED <<queue, due, run>>
    BY <1>5 DEF session_ended, session_lost, vars, queueVars, workVars
  <2> QED BY <2>1
<1> QED
  BY <1>1, <1>2, <1>3, <1>4, <1>5, FlushQueue DEF Next

LEMMA QueueStart == Init => QueueInv
<1> SUFFICES ASSUME Init PROVE QueueInv
  OBVIOUS
<1>1. queue = <<>> /\ due = TRUE /\ run = [t \in Tasks |-> <<>>] /\ <<>> \in Batches
  BY ShortBatches DEF Init
<1>2. Once(queue)
  BY <1>1 DEF Once
<1> QED BY <1>1, <1>2 DEF QueueInv

\* Limits hold, whatever fails or crashes: no permit leaks, the rounds and
\* passes of a flush and the rows it sends at once stay within theirs, and the
\* queue, which has no row twice, is no longer than there are rows (try_lock,
\* flush_locked, flush_rounds, enqueue_sealed_send).
THEOREM FlushLimitsKept == Spec => []LimitsKept
<1>1. FlushInv /\ LimitsInv /\ QueueInv => LimitsKept
  <2>1. QueueInv => queue \in Seq(Rows) /\ due \in BOOLEAN /\ Len(queue) <= Cardinality(Rows)
    BY OnceBounded DEF QueueInv
  <2>2. QueueInv => run \in [Tasks -> Seq(Rows)] /\ BatchesKept
    <3>1. QueueInv => \A t \in Tasks : run[t] \in Seq(Rows) /\ Len(run[t]) <= MaxBatch
      BY DEF QueueInv, Batches
    <3> QED BY <3>1 DEF QueueInv, BatchesKept
  <2> QED BY <2>1, <2>2 DEF FlushInv, FlushTypes, LimitsInv, LimitTypes, PermitsInv,
                            LimitsKept, TypeOK, PermitsKept, Holding
<1> QED
  BY <1>1, FlushStart, FlushStep, LimitsStart, LimitsStep, QueueStart, QueueStep, PTL DEF Spec
=============================================================================

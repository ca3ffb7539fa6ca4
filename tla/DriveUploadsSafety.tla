-------------------------- MODULE DriveUploadsSafety --------------------------
(***************************************************************************)
(* Uploads' safety, proved for any requests, uploads, files, chunks and    *)
(* quota: a stored revision keeps its object, the counter is the sum of    *)
(* what is stored, clients are told the truth, chunks are in order and     *)
(* nothing takes room the quota does not have.                             *)
(*                                                                         *)
(* The locks order the transactions, but nothing orders the store with     *)
(* them.  What keeps an object from being taken away is that an upload is  *)
(* stitched once: the store forgets its parts then, so no later request of *)
(* the same upload gets as far.                                            *)
(***************************************************************************)
EXTENDS DriveUploads, FiniteSetTheorems, TLAPS

Opening == {"opening", "opened"}
\* A request that has made the object and does not know its transaction's end.
AfterStitch == {"stitched", "unsure", "failed"}

\* One transaction holds the account's row.
PoolInv ==
    /\ \A p, q \in Requests : pc[p] \in InPool /\ pc[q] \in InPool => p = q
    /\ \A p \in Requests : pc[p] \in InPool => doubt = {}
    /\ \A u, v \in doubt : u = v

\* One transaction holds an upload's row, and finds it open to its end.
RowInv ==
    /\ \A p, q \in Requests :
          pc[p] \in InRow /\ pc[q] \in InRow /\ up[p] = up[q] /\ up[p] \in Uploads => p = q
    /\ \A p \in Requests : pc[p] \in InRow /\ up[p] \in Uploads => Open(up[p]) /\ up[p] \notin doubt

\* What a request knows of its upload and file.
RequestInv ==
    \A p \in Requests :
        /\ pc[p] \notin {"idle", "purge", "purged"} => up[p] \in Uploads
        /\ pc[p] # "idle" => file[p] \in Files
        /\ pc[p] \in Opening =>
              row[up[p]].state = "new" /\ \A q \in Requests : up[q] = up[p] => q = p
        /\ pc[p] \notin Opening /\ up[p] \in Uploads =>
              row[up[p]].state # "new" /\ row[up[p]].file = file[p]
        /\ pc[p] = "purged" => file[p] \in dead

\* The chunk a request brings is the next one, and the last when it stitches.
ChunkInv ==
    \A p \in Requests :
        /\ pc[p] \in {"part", "stored", "checked", "stitched"} => chunk[p] = Len(row[up[p]].parts) + 1
        /\ pc[p] \in {"checked", "stitched"} => chunk[p] = Chunks

\* What is stored, told, in doubt or an orphan agrees with the upload's row.
RowsInv ==
    \A u \in Uploads :
        /\ row[u].state # "new" => row[u].file \in Files
        /\ landed[u] # NoFile =>
              row[u].state = "gone" /\ row[u].file = landed[u] /\ landed[u] \in live
        /\ u \in doubt => Open(u)
        /\ u \in objects => row[u].state # "new"
        /\ u \in told \cup cancelled => row[u].state = "gone"
        /\ u \in orphans => row[u].state = "gone" /\ landed[u] = NoFile

\* A file has one upload at a time, and what was purged does not come back.
FilesInv ==
    /\ live \cap dead = {}
    /\ \A u, v \in Uploads : Open(u) /\ Open(v) /\ row[u].file = row[v].file => u = v
    /\ \A u \in Uploads : Open(u) /\ ~ row[u].version => row[u].file \notin live \cup dead
    /\ \A u \in doubt : row[u].file \notin dead
    /\ \A p \in Requests :
          /\ pc[p] \in Opening => \A u \in Uploads : Open(u) => row[u].file # file[p]
          /\ pc[p] \in InPool => file[p] \notin dead

\* An upload is stitched once, and its object stays unless a look missed it.
StoreInv ==
    /\ \A p \in Requests : pc[p] \in AfterStitch => up[p] \notin multipart
    /\ \A p, q \in Requests :
          pc[p] \in AfterStitch /\ pc[q] \in AfterStitch /\ up[p] = up[q] => p = q
    /\ \A p \in Requests : pc[p] = "stitched" => up[p] \in objects
    /\ \A u \in doubt : u \in objects \cup missed
    /\ \A p \in Requests : pc[p] = "failed" =>
          up[p] \in missed \/ (up[p] \notin doubt /\ landed[up[p]] = NoFile)

\* Opening an upload leaves room for it until its row is there.
RoomInv ==
    \A p \in Requests : pc[p] \in Opening => used + reserved({}) + 1 <= quota

DriveInv ==
    /\ TypeOK /\ PoolInv /\ RowInv /\ RequestInv /\ ChunkInv /\ RowsInv /\ FilesInv /\ StoreInv
    /\ RoomInv /\ ObjectKept /\ UsedExact /\ ToldLanded /\ CancelledNeverLands /\ PartsInOrder

\* A step that takes room leaves the pool within its quota.
RoomStep == used' + reserved({})' > used + reserved({}) => used' + reserved({})' <= quota'

\* Request p goes to a step, with an upload, file and chunk; no other moves.
Moved(p, step, u, f, n) ==
    /\ pc' \in [Requests -> Steps] /\ up' \in [Requests -> Uploads \cup {NoFile}]
    /\ file' \in [Requests -> Files \cup {NoFile}] /\ chunk' \in [Requests -> 0 .. Chunks]
    /\ pc'[p] = step /\ up'[p] = u /\ file'[p] = f /\ chunk'[p] = n
    /\ \A q \in Requests : q # p =>
          pc'[q] = pc[q] /\ up'[q] = up[q] /\ file'[q] = file[q] /\ chunk'[q] = chunk[q]

\* Upload u gets row r; no other row changes.
RowSet(u, r) ==
    /\ row' \in [Uploads -> Upload]
    /\ row'[u] = r
    /\ \A v \in Uploads : v # u => row'[v] = row[v]

-----------------------------------------------------------------------------
(* Lemmas about requests, rows and the pool.                               *)

LEMMA EndMoves ==
    ASSUME TypeOK, NEW p \in Requests, End(p)
    PROVE  Moved(p, "idle", NoFile, NoFile, 0)
BY UploadsAssumption DEF TypeOK, End, Moved, Steps

LEMMA BecomeMoves ==
    ASSUME TypeOK, NEW p \in Requests, NEW step \in Steps, Become(p, step), UNCHANGED <<up, file, chunk>>
    PROVE  Moved(p, step, up[p], file[p], chunk[p])
BY DEF TypeOK, Become, Moved

LEMMA StartMoves ==
    ASSUME TypeOK, NEW p \in Requests, NEW step \in Steps, NEW u \in Uploads \cup {NoFile},
           NEW f \in Files \cup {NoFile}, NEW n \in 0 .. Chunks, Start(p, step, u, f, n)
    PROVE  pc[p] = "idle" /\ Moved(p, step, u, f, n)
BY DEF TypeOK, Start, Moved

LEMMA RowSets ==
    ASSUME TypeOK, NEW u \in Uploads, NEW r \in Upload, row' = [row EXCEPT ![u] = r]
    PROVE  RowSet(u, r)
BY DEF TypeOK, RowSet

\* The rows an upload gets.
LEMMA RowParts ==
    ASSUME NEW f \in Files
    PROVE  /\ OpenRow(f) \in Upload /\ OpenRow(f).state = "open" /\ OpenRow(f).file = f
           /\ OpenRow(f).version = (f \in live) /\ OpenRow(f).parts = <<>>
           /\ GoneRow(f) \in Upload /\ GoneRow(f).state = "gone" /\ GoneRow(f).file = f
           /\ GoneRow(f).parts = <<>>
<1>1. /\ GoneRow(f) = [state |-> "gone", file |-> f, version |-> FALSE, parts |-> <<>>, idle |-> FALSE]
      /\ OpenRow(f) = [state |-> "open", file |-> f, version |-> f \in live, parts |-> <<>>, idle |-> FALSE]
  BY DEF OpenRow, GoneRow
<1>2. (f \in live) \in BOOLEAN /\ <<>> \in Seq(1 .. Chunks)
  OBVIOUS
<1>3. GoneRow(f) \in Upload
  BY <1>1, <1>2 DEF Upload
<1>4. OpenRow(f) \in Upload
  BY <1>1, <1>2 DEF Upload
<1>5. OpenRow(f).version = (f \in live)
  BY <1>1
<1> QED BY <1>1, <1>3, <1>4, <1>5

\* What is reserved depends on which uploads are open.
LEMMA ReservedNat ==
    ASSUME NEW S \in SUBSET Uploads
    PROVE  IsFiniteSet(S) /\ Cardinality(S) \in Nat /\ Cardinality(S) <= Cardinality(Uploads)
BY UploadsAssumption, FS_Subset, FS_CardinalityType

LEMMA ReservedType == reserved({}) \in Nat
BY ReservedNat DEF reserved

LEMMA ReservedSame ==
    ASSUME \A u \in Uploads : row'[u].state = row[u].state
    PROVE  reserved({})' = reserved({})
BY DEF reserved, Open

\* An upload opens, or an open one goes.
LEMMA ReservedMore ==
    ASSUME NEW u \in Uploads, NEW r \in Upload, RowSet(u, r), row[u].state # "open", r.state = "open"
    PROVE  reserved({})' = reserved({}) + 1
<1> DEFINE S == {v \in Uploads : row[v].state = "open"}
<1>1. {v \in Uploads : row'[v].state = "open"} = S \cup {u} /\ u \notin S
  BY DEF RowSet
<1>2. IsFiniteSet(S)
  BY ReservedNat
<1>3. Cardinality(S \cup {u}) = Cardinality(S) + 1
  BY <1>1, <1>2, FS_AddElement
<1>4. reserved({}) = Cardinality(S) /\ reserved({})' = Cardinality({v \in Uploads : row'[v].state = "open"})
  <2>1. S \ {} = S /\ {v \in Uploads : row'[v].state = "open"} \ {} = {v \in Uploads : row'[v].state = "open"}
    OBVIOUS
  <2> QED BY <2>1 DEF reserved, Open
<1> QED BY <1>1, <1>3, <1>4

LEMMA ReservedLess ==
    ASSUME NEW u \in Uploads, NEW r \in Upload, RowSet(u, r), r.state # "open"
    PROVE  /\ row[u].state = "open" => reserved({})' = reserved({}) - 1
           /\ reserved({})' <= reserved({})
<1> DEFINE S == {v \in Uploads : row[v].state = "open"}
           T == {v \in Uploads : row'[v].state = "open"}
<1>1. T = S \ {u}
  BY DEF RowSet
<1>2. IsFiniteSet(S) /\ Cardinality(S) \in Nat
  BY ReservedNat
<1>3. Cardinality(S \ {u}) = IF u \in S THEN Cardinality(S) - 1 ELSE Cardinality(S)
  BY <1>2, FS_RemoveElement
<1>4. reserved({}) = Cardinality(S) /\ reserved({})' = Cardinality(T)
  <2>1. S \ {} = S /\ T \ {} = T
    OBVIOUS
  <2> QED BY <2>1 DEF reserved, Open
<1>5. u \in S <=> row[u].state = "open"
  OBVIOUS
<1> HIDE DEF S, T
<1> QED BY <1>1, <1>2, <1>3, <1>4, <1>5

\* A part whose variables do not change stays.
LEMMA Untouched ==
    ASSUME DriveInv
    PROVE  /\ UNCHANGED <<pc, doubt>> => PoolInv'
           /\ UNCHANGED <<pc, up, row, doubt>> => RowInv'
           /\ UNCHANGED <<pc, up, file, row, dead>> => RequestInv'
           /\ UNCHANGED <<pc, up, chunk, row>> => ChunkInv'
           /\ UNCHANGED <<row, landed, live, doubt, objects, told, cancelled, orphans>> => RowsInv'
           /\ UNCHANGED <<live, dead, row, doubt, pc, file>> => FilesInv'
           /\ UNCHANGED <<pc, up, multipart, objects, doubt, missed, landed>> => StoreInv'
           /\ UNCHANGED <<pc, used, quota, row>> => RoomInv'
           /\ UNCHANGED <<landed, missed, objects>> => ObjectKept'
           /\ UNCHANGED <<used, landed, drift>> => UsedExact'
           /\ UNCHANGED <<told, landed, row, dead>> => ToldLanded'
           /\ UNCHANGED <<cancelled, landed, told>> => CancelledNeverLands'
           /\ UNCHANGED <<row, pc, chunk>> => PartsInOrder'
           /\ UNCHANGED <<used, quota, row>> => RoomStep
<1> USE DEF DriveInv
<1>1. UNCHANGED <<pc, doubt>> => PoolInv'
  BY DEF PoolInv
<1>2. UNCHANGED <<pc, up, row, doubt>> => RowInv'
  BY DEF RowInv, Open
<1>3. UNCHANGED <<pc, up, file, row, dead>> => RequestInv'
  BY DEF RequestInv
<1>4. UNCHANGED <<pc, up, chunk, row>> => ChunkInv'
  BY DEF ChunkInv
<1>5. UNCHANGED <<row, landed, live, doubt, objects, told, cancelled, orphans>> => RowsInv'
  BY DEF RowsInv, Open
<1>6. UNCHANGED <<live, dead, row, doubt, pc, file>> => FilesInv'
  BY DEF FilesInv, Open
<1>7. UNCHANGED <<pc, up, multipart, objects, doubt, missed, landed>> => StoreInv'
  BY DEF StoreInv
<1>8. UNCHANGED <<pc, used, quota, row>> => RoomInv'
  BY ReservedSame DEF RoomInv
<1>9. UNCHANGED <<landed, missed, objects>> => ObjectKept'
  BY DEF ObjectKept, Landed
<1>10. UNCHANGED <<used, landed, drift>> => UsedExact'
  BY DEF UsedExact, Landed
<1>11. UNCHANGED <<told, landed, row, dead>> => ToldLanded'
  BY DEF ToldLanded
<1>12. UNCHANGED <<cancelled, landed, told>> => CancelledNeverLands'
  BY DEF CancelledNeverLands, Landed
<1>13. UNCHANGED <<row, pc, chunk>> => PartsInOrder'
  BY DEF PartsInOrder
<1>14. UNCHANGED <<used, quota, row>> => RoomStep
  BY ReservedSame, ReservedType DEF RoomStep, TypeOK
<1> QED BY <1>1, <1>2, <1>3, <1>4, <1>5, <1>6, <1>7, <1>8, <1>9, <1>10, <1>11, <1>12, <1>13, <1>14

-----------------------------------------------------------------------------
(* What several actions do.                                                *)

\* Request q does nothing, or ends.
Quiet(q) ==
    \/ pc'[q] = pc[q] /\ up'[q] = up[q] /\ file'[q] = file[q] /\ chunk'[q] = chunk[q]
    \/ pc'[q] = "idle" /\ up'[q] = NoFile

RequestsType ==
    /\ pc \in [Requests -> Steps] /\ up \in [Requests -> Uploads \cup {NoFile}]
    /\ file \in [Requests -> Files \cup {NoFile}] /\ chunk \in [Requests -> 0 .. Chunks]

\* A request that ends leaves everything else as it was.
LEMMA EndsKeeps ==
    ASSUME DriveInv, NEW p \in Requests, Moved(p, "idle", NoFile, NoFile, 0),
           UNCHANGED <<live, landed, row, storeVars, poolVars, doubt, sweepVars, toldVars>>
    PROVE  DriveInv' /\ RoomStep
<1> USE UploadsAssumption DEF DriveInv
<1>1. UNCHANGED <<live, landed, row, multipart, objects, quota, used, drift, doubt, dead,
                  stale, aborted, orphans, found, cancelled, told, missed>>
  BY DEF storeVars, poolVars, sweepVars, toldVars
<1>2. TypeOK'
  BY <1>1 DEF TypeOK, Moved
<1>3. PoolInv'
  BY <1>1 DEF PoolInv, Moved, InPool
<1>4. RowInv'
  BY <1>1 DEF RowInv, Moved, InRow, Open
<1>5. RequestInv'
  BY <1>1 DEF RequestInv, Moved, Opening
<1>6. ChunkInv'
  BY <1>1 DEF ChunkInv, Moved
<1>7. FilesInv'
  BY <1>1 DEF FilesInv, Moved, Open, InPool, Opening
<1>8. StoreInv'
  BY <1>1 DEF StoreInv, Moved, AfterStitch
<1>9. RoomInv'
  BY <1>1, ReservedSame DEF RoomInv, Moved, Opening
<1>10. PartsInOrder'
  BY <1>1 DEF PartsInOrder, Moved
<1>11. RowsInv' /\ ObjectKept' /\ UsedExact' /\ ToldLanded' /\ CancelledNeverLands' /\ RoomStep
  BY <1>1, Untouched
<1> QED BY <1>2, <1>3, <1>4, <1>5, <1>6, <1>7, <1>8, <1>9, <1>10, <1>11

\* An upload's row goes, nobody at work on it.
LEMMA GoneKeeps ==
    ASSUME DriveInv, NEW u \in Uploads, NEW f \in Files, RowSet(u, GoneRow(f)), u \notin doubt,
           row[u].state # "new" => row[u].file = f,
           RequestsType', \A q \in Requests : Quiet(q),
           \A q \in Requests : up'[q] = u => pc'[q] \notin InRow \cup Opening,
           UNCHANGED <<live, landed, objects, poolVars, doubt, dead, stale, orphans, found,
                       told, missed>>,
           multipart' \subseteq multipart, aborted' \subseteq Uploads,
           cancelled' = cancelled \/ (Open(u) /\ cancelled' = cancelled \cup {u})
    PROVE  DriveInv' /\ RoomStep
<1> USE UploadsAssumption DEF DriveInv
<1>1. /\ row' \in [Uploads -> Upload] /\ row'[u].state = "gone" /\ row'[u].file = f /\ row'[u].parts = <<>>
      /\ \A v \in Uploads : v # u => row'[v] = row[v]
      /\ GoneRow(f) \in Upload /\ GoneRow(f).state # "open"
  BY RowParts DEF RowSet
<1>2. UNCHANGED <<live, landed, objects, quota, used, drift, doubt, dead, stale, orphans,
                  found, told, missed>>
  BY DEF poolVars
<1>3. \A q \in Requests : pc'[q] # "idle" =>
          pc'[q] = pc[q] /\ up'[q] = up[q] /\ file'[q] = file[q] /\ chunk'[q] = chunk[q]
  BY DEF Quiet
<1>4. \A q \in Requests : pc'[q] = "idle" => (pc[q] = "idle" /\ up'[q] = up[q] /\ file'[q] = file[q]) \/ up'[q] = NoFile
  BY DEF Quiet
<1>5. \A q \in Requests : pc[q] = "idle" => up[q] \notin Uploads \/ (row[up[q]].state # "new" /\ row[up[q]].file = file[q])
  BY DEF RequestInv, Opening
<1>6. landed[u] # NoFile => landed[u] = f
  BY DEF RowsInv
<1>7. TypeOK'
  BY <1>1, <1>2 DEF TypeOK, RequestsType
<1>8. PoolInv'
  BY <1>2, <1>3 DEF PoolInv, InPool
<1>9. RowInv'
  BY <1>1, <1>2, <1>3 DEF RowInv, InRow, Open
<1>10. RequestInv'
  <2> SUFFICES ASSUME NEW q \in Requests
               PROVE  /\ pc'[q] \notin {"idle", "purge", "purged"} => up'[q] \in Uploads
                      /\ pc'[q] # "idle" => file'[q] \in Files
                      /\ pc'[q] \in Opening =>
                            row'[up'[q]].state = "new" /\ \A s \in Requests : up'[s] = up'[q] => s = q
                      /\ pc'[q] \notin Opening /\ up'[q] \in Uploads =>
                            row'[up'[q]].state # "new" /\ row'[up'[q]].file = file'[q]
                      /\ pc'[q] = "purged" => file'[q] \in dead'
    BY DEF RequestInv
  <2>1. CASE pc'[q] = "idle"
    BY <1>1, <1>4, <1>5, <2>1 DEF Opening
  <2>2. CASE pc'[q] # "idle" /\ pc'[q] \in Opening
    <3>1. pc[q] \in Opening /\ up'[q] = up[q] /\ up[q] \in Uploads /\ up[q] # u /\ row[up[q]].state = "new" /\ file[q] \in Files /\ file'[q] = file[q]
      BY <1>3, <2>2 DEF RequestInv, Opening
    <3>2. \A s \in Requests : up'[s] = up[q] => up[s] = up[q]
      BY <3>1 DEF Quiet
    <3> QED BY <1>1, <2>2, <3>1, <3>2 DEF RequestInv, Opening
  <2>3. CASE pc'[q] # "idle" /\ pc'[q] \notin Opening
    <3>1. pc'[q] = pc[q] /\ up'[q] = up[q] /\ file'[q] = file[q]
      BY <1>3, <2>3
    <3> QED BY <1>1, <1>2, <2>3, <3>1 DEF RequestInv
  <2> QED BY <2>1, <2>2, <2>3
<1>11. ChunkInv'
  BY <1>1, <1>3 DEF ChunkInv, RequestInv, InRow
<1>12. RowsInv'
  BY <1>1, <1>2, <1>6 DEF RowsInv, Open
<1>13. FilesInv'
  <2>1. \A v \in Uploads : Open(v)' => Open(v) /\ row'[v] = row[v]
    BY <1>1 DEF Open
  <2>2. \A v \in doubt : row'[v].file \notin dead
    BY <1>1 DEF FilesInv, TypeOK
  <2>3. \A q \in Requests :
            /\ pc'[q] \in Opening => \A v \in Uploads : Open(v)' => row'[v].file # file'[q]
            /\ pc'[q] \in InPool => file'[q] \notin dead
    BY <1>3, <2>1 DEF FilesInv, InPool, Opening
  <2> QED BY <1>2, <2>1, <2>2, <2>3 DEF FilesInv
<1>14. StoreInv'
  BY <1>2, <1>3 DEF StoreInv, AfterStitch
<1>15. reserved({})' <= reserved({}) /\ reserved({})' \in Nat /\ reserved({}) \in Nat
  BY <1>1, ReservedLess, ReservedType, ReservedNat DEF reserved
<1>16. RoomInv'
  BY <1>2, <1>3, <1>15 DEF RoomInv, Opening, TypeOK
<1>17. ToldLanded'
  BY <1>1, <1>2 DEF ToldLanded, RowsInv, TypeOK
<1>18. CancelledNeverLands'
  BY <1>2 DEF CancelledNeverLands, Landed, RowsInv, Open
<1>19. PartsInOrder'
  BY <1>1, <1>3 DEF PartsInOrder
<1>20. RoomStep
  BY <1>2, <1>15 DEF RoomStep, TypeOK
<1>21. ObjectKept' /\ UsedExact'
  BY <1>2, Untouched
<1> QED BY <1>7, <1>8, <1>9, <1>10, <1>11, <1>12, <1>13, <1>14, <1>16, <1>17, <1>18, <1>19,
           <1>20, <1>21

\* The upload a request opens gets its row.
LEMMA OpenedKeeps ==
    ASSUME DriveInv, NEW p \in Requests, pc[p] = "opened", RowSet(up[p], OpenRow(file[p])),
           Moved(p, "idle", NoFile, NoFile, 0), multipart' \subseteq multipart,
           UNCHANGED <<live, landed, objects, poolVars, doubt, sweepVars, toldVars>>
    PROVE  DriveInv' /\ RoomStep
<1> USE UploadsAssumption DEF DriveInv
<1> DEFINE u == up[p]
           f == file[p]
<1>1. u \in Uploads /\ f \in Files /\ row[u].state = "new"
  BY DEF RequestInv, Opening
<1>2. /\ row' \in [Uploads -> Upload] /\ row'[u].state = "open" /\ row'[u].file = f /\ row'[u].parts = <<>>
      /\ row'[u].version = (f \in live) /\ \A v \in Uploads : v # u => row'[v] = row[v]
      /\ OpenRow(f) \in Upload /\ OpenRow(f).state = "open"
  BY <1>1, RowParts DEF RowSet
<1>3. UNCHANGED <<live, landed, objects, quota, used, drift, doubt, dead, stale, aborted,
                  orphans, found, cancelled, told, missed>>
  BY DEF poolVars, sweepVars, toldVars
<1>4. \A q \in Requests : q # p => pc'[q] = pc[q] /\ up'[q] = up[q] /\ file'[q] = file[q] /\ chunk'[q] = chunk[q] /\ up[q] # u
  BY <1>1 DEF Moved, RequestInv, Opening
<1>5. \A q \in Requests : q # p => pc[q] \notin Opening
  BY DEF PoolInv, InPool, Opening
<1>6. f \notin dead /\ \A v \in Uploads : Open(v) => row[v].file # f
  BY DEF FilesInv, InPool, Opening
<1>7. landed[u] = NoFile /\ u \notin told \cup cancelled \cup orphans \cup doubt /\ u \notin objects
  BY <1>1 DEF RowsInv, Open
<1>8. pc'[p] = "idle" /\ up'[p] = NoFile
  BY DEF Moved
<1> HIDE DEF u, f
<1>9. TypeOK'
  BY <1>2, <1>3 DEF TypeOK, Moved
<1>10. PoolInv'
  BY <1>3, <1>4, <1>8 DEF PoolInv, InPool
<1>11. RowInv'
  BY <1>2, <1>3, <1>4, <1>8 DEF RowInv, InRow, Open
<1>12. RequestInv'
  BY <1>2, <1>3, <1>4, <1>5, <1>8 DEF RequestInv, Opening
<1>13. ChunkInv'
  BY <1>2, <1>4, <1>8 DEF ChunkInv, RequestInv
<1>14. RowsInv'
  BY <1>1, <1>2, <1>3, <1>7 DEF RowsInv, Open
<1>15. FilesInv'
  <2>1. \A v, w \in Uploads : Open(v)' /\ Open(w)' /\ row'[v].file = row'[w].file => v = w
    BY <1>2, <1>6 DEF FilesInv, Open
  <2>2. \A v \in Uploads : Open(v)' /\ ~ row'[v].version => row'[v].file \notin live \cup dead
    <3> SUFFICES ASSUME NEW v \in Uploads, Open(v)', ~ row'[v].version
                 PROVE  row'[v].file \notin live \cup dead
      OBVIOUS
    <3>1. CASE v = u
      BY <1>2, <1>6, <3>1
    <3>2. CASE v # u
      BY <1>2, <3>2 DEF FilesInv, Open
    <3> QED BY <3>1, <3>2
  <2>3. \A v \in doubt : row'[v].file \notin dead
    BY <1>2, <1>7 DEF FilesInv, TypeOK
  <2>4. \A q \in Requests : pc'[q] \notin Opening /\ (pc'[q] \in InPool => file'[q] \notin dead)
    BY <1>4, <1>5, <1>8 DEF FilesInv, Opening, InPool
  <2> QED BY <1>3, <2>1, <2>2, <2>3, <2>4 DEF FilesInv
<1>16. StoreInv'
  BY <1>3, <1>4, <1>8 DEF StoreInv, AfterStitch
<1>17. RoomInv'
  BY <1>4, <1>5, <1>8 DEF RoomInv, Opening
<1>18. ToldLanded'
  BY <1>2, <1>3, <1>7 DEF ToldLanded, TypeOK
<1>19. PartsInOrder'
  BY <1>2, <1>4, <1>8 DEF PartsInOrder
<1>20. reserved({})' = reserved({}) + 1
  BY <1>1, <1>2, ReservedMore DEF u, f
<1>21. used + reserved({}) + 1 <= quota
  BY DEF RoomInv, Opening
<1>22. RoomStep
  BY <1>3, <1>20, <1>21, ReservedType DEF RoomStep, TypeOK
<1>23. ObjectKept' /\ UsedExact' /\ CancelledNeverLands'
  BY <1>3, Untouched
<1> QED BY <1>9, <1>10, <1>11, <1>12, <1>13, <1>14, <1>15, <1>16, <1>17, <1>18, <1>19, <1>22, <1>23

\* A revision lands with its charge: the request of its upload goes on, or the
\* transaction was in doubt.
LEMMA LandsKeeps ==
    ASSUME DriveInv, NEW u \in Uploads, NEW f \in Files, charge(u, f),
           Open(u), row[u].file = f, f \notin dead, u \in objects \cup missed,
           \A q \in Requests : pc[q] = "failed" /\ up[q] = u => u \in missed,
           RequestsType',
           \A q \in Requests : \/ Quiet(q)
                               \/ /\ pc[q] = "stitched" /\ pc'[q] = "unsure" /\ up'[q] = up[q]
                                  /\ file'[q] = file[q] /\ chunk'[q] = chunk[q],
           \A q \in Requests : up'[q] = u => pc'[q] \notin InRow \cup Opening,
           \A q \in Requests : pc'[q] \notin Opening,
           doubt' \subseteq doubt, u \notin doubt',
           told' \in {told, told \cup {u}},
           UNCHANGED <<storeVars, sweepVars, cancelled, missed>>
    PROVE  DriveInv' /\ RoomStep
<1> USE UploadsAssumption DEF DriveInv
<1>1. /\ row' \in [Uploads -> Upload] /\ row'[u].state = "gone" /\ row'[u].file = f /\ row'[u].parts = <<>>
      /\ \A v \in Uploads : v # u => row'[v] = row[v]
      /\ GoneRow(f) \in Upload /\ GoneRow(f).state # "open" /\ RowSet(u, GoneRow(f))
  <2>1. RowSet(u, GoneRow(f))
    BY RowSets, RowParts DEF charge
  <2> QED BY <2>1, RowParts DEF RowSet
<1>2. /\ UNCHANGED <<multipart, objects, quota, drift, dead, stale, aborted, orphans, found,
                     cancelled, missed>>
      /\ live' = live \cup {f} /\ used' = used + 1
      /\ landed' \in [Uploads -> Files \cup {NoFile}] /\ landed'[u] = f
      /\ \A v \in Uploads : v # u => landed'[v] = landed[v]
  BY DEF charge, storeVars, sweepVars, TypeOK
<1>3. f # NoFile /\ landed[u] = NoFile
  BY DEF RowsInv, Open
<1>4. \A q \in Requests : pc'[q] \notin {"idle", "unsure"} =>
          pc'[q] = pc[q] /\ up'[q] = up[q] /\ file'[q] = file[q] /\ chunk'[q] = chunk[q]
  BY DEF Quiet
<1>5. \A q \in Requests : \/ pc'[q] = "idle" /\ up'[q] = NoFile
                          \/ /\ up'[q] = up[q] /\ file'[q] = file[q] /\ chunk'[q] = chunk[q]
                             /\ pc'[q] = pc[q] \/ (pc[q] = "stitched" /\ pc'[q] = "unsure")
  BY DEF Quiet
<1>6. Landed' = Landed \cup {u} /\ u \notin Landed
  BY <1>2, <1>3 DEF Landed
<1>7. Cardinality(Landed') = Cardinality(Landed) + 1 /\ Cardinality(Landed) \in Nat /\ Cardinality(Landed') <= Cardinality(Uploads) /\ Cardinality(Uploads) \in Nat
  <2>1. Landed \in SUBSET Uploads /\ Landed' \in SUBSET Uploads
    BY DEF Landed
  <2> HIDE DEF Landed
  <2> QED BY <1>6, <2>1, ReservedNat, FS_AddElement, FS_CardinalityType
<1>8. UsedExact'
  BY <1>2, <1>7 DEF UsedExact, TypeOK
<1>9. used' \in 0 .. Cardinality(Uploads) + MaxDrift
  BY <1>2, <1>7 DEF UsedExact, TypeOK
<1>10. TypeOK'
  BY <1>1, <1>2, <1>9 DEF TypeOK, RequestsType
<1>11. PoolInv'
  BY <1>4 DEF PoolInv, InPool
<1>12. RowInv'
  BY <1>1, <1>4 DEF RowInv, InRow, Open
<1>13. RequestInv'
  <2> SUFFICES ASSUME NEW q \in Requests
               PROVE  /\ pc'[q] \notin {"idle", "purge", "purged"} => up'[q] \in Uploads
                      /\ pc'[q] # "idle" => file'[q] \in Files
                      /\ up'[q] \in Uploads => row'[up'[q]].state # "new" /\ row'[up'[q]].file = file'[q]
                      /\ pc'[q] = "purged" => file'[q] \in dead'
    BY DEF RequestInv
  <2>1. CASE pc'[q] = "idle" /\ up'[q] = NoFile
    BY <2>1
  <2>2. CASE pc'[q] = pc[q] /\ up'[q] = up[q] /\ file'[q] = file[q]
    <3>1. pc[q] \notin Opening
      BY <2>2
    <3> QED BY <1>1, <1>2, <2>2, <3>1 DEF RequestInv
  <2>3. CASE pc[q] = "stitched" /\ pc'[q] = "unsure" /\ up'[q] = up[q] /\ file'[q] = file[q]
    BY <1>1, <1>2, <2>3 DEF RequestInv, Opening
  <2> QED BY <1>5, <2>1, <2>2, <2>3
<1>14. ChunkInv'
  <2> SUFFICES ASSUME NEW q \in Requests, pc'[q] \in {"part", "stored", "checked", "stitched"}
               PROVE  /\ chunk'[q] = Len(row'[up'[q]].parts) + 1
                      /\ pc'[q] \in {"checked", "stitched"} => chunk'[q] = Chunks
    BY DEF ChunkInv
  <2>1. pc'[q] = pc[q] /\ up'[q] = up[q] /\ chunk'[q] = chunk[q] /\ pc'[q] \in InRow
    BY <1>4 DEF InRow
  <2>2. up[q] \in Uploads /\ up[q] # u
    BY <1>4, <2>1 DEF RequestInv
  <2>3. row'[up'[q]] = row[up[q]]
    BY <1>1, <2>1, <2>2
  <2> QED BY <2>1, <2>3 DEF ChunkInv
<1>15. RowsInv'
  <2> SUFFICES ASSUME NEW v \in Uploads
               PROVE  /\ row'[v].state # "new" => row'[v].file \in Files
                      /\ landed'[v] # NoFile =>
                            row'[v].state = "gone" /\ row'[v].file = landed'[v] /\ landed'[v] \in live'
                      /\ v \in doubt' => row'[v].state = "open"
                      /\ v \in objects' => row'[v].state # "new"
                      /\ v \in told' \cup cancelled' => row'[v].state = "gone"
                      /\ v \in orphans' => row'[v].state = "gone" /\ landed'[v] = NoFile
    BY DEF RowsInv, Open
  <2>1. CASE v = u
    BY <1>1, <1>2, <2>1 DEF RowsInv, Open
  <2>2. CASE v # u
    BY <1>1, <1>2, <2>2 DEF RowsInv, Open
  <2> QED BY <2>1, <2>2
<1>16. FilesInv'
  <2>1. \A v \in Uploads : Open(v)' => Open(v) /\ row'[v] = row[v] /\ row[v].file # f
    BY <1>1 DEF Open, FilesInv
  <2>2. \A v \in doubt' : row'[v].file \notin dead
    BY <1>1 DEF FilesInv, TypeOK
  <2>3. \A q \in Requests : pc'[q] \in InPool => file'[q] \notin dead
    BY <1>4 DEF FilesInv, InPool
  <2> QED BY <1>2, <2>1, <2>2, <2>3 DEF FilesInv
<1>17. StoreInv'
  <2>1. \A q \in Requests : pc'[q] \in AfterStitch => pc[q] \in AfterStitch /\ up'[q] = up[q]
    BY <1>5 DEF AfterStitch
  <2>2. \A q \in Requests : pc'[q] = "stitched" => pc[q] = "stitched" /\ up'[q] = up[q]
    BY <1>4
  <2>3. \A q \in Requests : pc'[q] = "failed" =>
            up'[q] \in missed \/ (up'[q] \notin doubt' /\ landed'[up'[q]] = NoFile)
    <3> SUFFICES ASSUME NEW q \in Requests, pc'[q] = "failed", up'[q] \notin missed
                 PROVE  up'[q] \notin doubt' /\ landed'[up'[q]] = NoFile
      OBVIOUS
    <3>1. pc[q] = "failed" /\ up'[q] = up[q] /\ up[q] # u /\ up[q] \in Uploads
      BY <1>4 DEF RequestInv
    <3> QED BY <1>2, <3>1 DEF StoreInv
  <2> QED BY <1>2, <2>1, <2>2, <2>3 DEF StoreInv
<1>18. RoomInv'
  BY DEF RoomInv
<1>19. ObjectKept'
  BY <1>2, <1>6 DEF ObjectKept
<1>20. ToldLanded'
  BY <1>1, <1>2, <1>3 DEF ToldLanded, TypeOK
<1>21. CancelledNeverLands'
  <2>1. u \notin cancelled
    BY DEF RowsInv, Open
  <2> QED BY <1>2, <1>6, <2>1 DEF CancelledNeverLands
<1>22. PartsInOrder'
  BY <1>1, <1>4 DEF PartsInOrder
<1>23. RoomStep
  <2>1. reserved({})' = reserved({}) - 1
    BY <1>1, ReservedLess DEF Open
  <2> QED BY <1>2, <2>1, ReservedType DEF RoomStep, TypeOK
<1> QED BY <1>8, <1>10, <1>11, <1>12, <1>13, <1>14, <1>15, <1>16, <1>17, <1>18, <1>19, <1>20,
           <1>21, <1>22, <1>23

-----------------------------------------------------------------------------
(* The actions that change a row or the store.                             *)

LEMMA InsertKeeps ==
    ASSUME DriveInv, NEW p \in Requests, insert_upload(p) \/ insert_failed(p)
    PROVE  DriveInv' /\ RoomStep
<1> USE UploadsAssumption DEF DriveInv
<1>1. /\ pc[p] = "opened" /\ Moved(p, "idle", NoFile, NoFile, 0) /\ multipart' \subseteq multipart
      /\ UNCHANGED <<live, landed, objects, poolVars, doubt, sweepVars, toldVars>>
  BY EndMoves DEF insert_upload, insert_failed, storeVars
<1>2. up[p] \in Uploads /\ file[p] \in Files /\ row[up[p]].state = "new"
      /\ \A q \in Requests : q # p => up[q] # up[p]
  BY <1>1 DEF RequestInv, Opening
<1>3. OpenRow(file[p]) \in Upload /\ GoneRow(file[p]) \in Upload
  BY <1>2, RowParts
<1>4. CASE row' = [row EXCEPT ![up[p]] = OpenRow(file[p])]
  BY <1>1, <1>2, <1>3, <1>4, RowSets, OpenedKeeps
<1>5. CASE row' = [row EXCEPT ![up[p]] = GoneRow(file[p])]
  <2>1. RowSet(up[p], GoneRow(file[p]))
    BY <1>2, <1>3, <1>5, RowSets
  <2>2. \A q \in Requests : Quiet(q)
    BY <1>1 DEF Moved, Quiet
  <2>3. RequestsType' /\ \A q \in Requests : up'[q] # up[p]
    BY <1>1, <1>2 DEF Moved, RequestsType
  <2>4. up[p] \notin doubt
    BY <1>2 DEF RowsInv, Open
  <2>5. /\ UNCHANGED <<live, landed, objects, poolVars, doubt, dead, stale, orphans, found,
                       told, missed>>
        /\ aborted' \subseteq Uploads /\ cancelled' = cancelled
    BY <1>1 DEF sweepVars, toldVars, TypeOK
  <2> QED BY <1>1, <1>2, <2>1, <2>2, <2>3, <2>4, <2>5, GoneKeeps
<1> QED BY <1>4, <1>5 DEF insert_upload, insert_failed

\* The row goes with its transaction's request: drop_row and delete_row.
LEMMA DropKeeps ==
    ASSUME DriveInv, NEW p \in Requests, drop_row(p) \/ delete_row(p)
    PROVE  DriveInv' /\ RoomStep
<1> USE UploadsAssumption DEF DriveInv
<1>1. /\ Moved(p, "idle", NoFile, NoFile, 0) /\ pc[p] \in {"dropping", "aborted"}
      /\ row' = [row EXCEPT ![up[p]] = GoneRow(file[p])]
      /\ UNCHANGED <<live, landed, storeVars, poolVars, doubt, sweepVars, told, missed>>
  BY EndMoves DEF drop_row, delete_row, toldVars
<1>2. up[p] \in Uploads /\ file[p] \in Files /\ row[up[p]].state # "new" /\ row[up[p]].file = file[p]
  BY <1>1 DEF RequestInv, Opening
<1>3. RowSet(up[p], GoneRow(file[p]))
  BY <1>1, <1>2, RowParts, RowSets
<1>4. \A q \in Requests : Quiet(q)
  BY <1>1 DEF Moved, Quiet
<1>5. RequestsType'
  BY <1>1 DEF Moved, RequestsType
<1>6. up[p] \notin doubt /\ \A q \in Requests : q # p /\ up[q] = up[p] => pc[q] \notin InRow
  <2>1. CASE drop_row(p)
    BY <2>1 DEF drop_row, RowFree
  <2>2. CASE delete_row(p)
    BY <1>2, <2>2 DEF delete_row, RowInv, InRow
  <2> QED BY <2>1, <2>2
<1>7. \A q \in Requests : q # p /\ up[q] = up[p] => pc[q] \notin Opening
  BY <1>2 DEF RequestInv
<1>8. \A q \in Requests : up'[q] = up[p] => pc'[q] \notin InRow \cup Opening
  BY <1>1, <1>2, <1>6, <1>7 DEF Moved
<1>9. cancelled' = cancelled \/ (Open(up[p]) /\ cancelled' = cancelled \cup {up[p]})
  <2>1. CASE drop_row(p)
    BY <2>1 DEF drop_row, toldVars
  <2>2. CASE delete_row(p)
    BY <1>2, <2>2 DEF delete_row, RowInv, InRow
  <2> QED BY <2>1, <2>2
<1>10. /\ UNCHANGED <<live, landed, objects, poolVars, doubt, dead, stale, orphans, found,
                      told, missed>>
       /\ multipart' \subseteq multipart /\ aborted' \subseteq Uploads
  BY <1>1 DEF sweepVars, storeVars, TypeOK
<1> QED BY <1>2, <1>3, <1>4, <1>5, <1>6, <1>8, <1>9, <1>10, GoneKeeps

LEMMA SweepDeleteKeeps ==
    ASSUME DriveInv, NEW u \in Uploads, uploads_sweep_delete(u)
    PROVE  DriveInv' /\ RoomStep
<1> USE UploadsAssumption DEF DriveInv
<1>1. /\ RowFree(u) /\ aborted' = {}
      /\ UNCHANGED <<live, landed, multipart, objects, poolVars, requestVars, doubt, dead,
                     stale, orphans, found, toldVars>>
  BY DEF uploads_sweep_delete, storeVars
<1>2. \A q \in Requests : Quiet(q)
  BY <1>1 DEF Quiet, requestVars
<1>3. RequestsType'
  BY <1>1 DEF RequestsType, requestVars, TypeOK
<1>4. CASE Open(u)
  <2>1. row[u].file \in Files /\ row[u].state # "new"
    BY <1>4 DEF RowsInv, Open
  <2>2. row' = [row EXCEPT ![u] = GoneRow(row[u].file)]
    BY <1>4 DEF uploads_sweep_delete
  <2>3. RowSet(u, GoneRow(row[u].file))
    BY <2>1, <2>2, RowParts, RowSets
  <2>4. u \notin doubt /\ \A q \in Requests : up'[q] = u => pc'[q] \notin InRow \cup Opening
    BY <1>1, <2>1 DEF RowFree, requestVars, RequestInv
  <2>5. cancelled' = cancelled /\ told' = told /\ missed' = missed /\ aborted' \subseteq Uploads
    BY <1>1 DEF toldVars
  <2> QED BY <1>1, <1>2, <1>3, <2>1, <2>3, <2>4, <2>5, GoneKeeps
<1>5. CASE ~ Open(u)
  <2>1. row' = row
    BY <1>5 DEF uploads_sweep_delete, TypeOK
  <2>2. UNCHANGED <<live, landed, row, multipart, objects, quota, used, drift, pc, up, file,
                    chunk, doubt, dead, orphans, cancelled, told, missed>>
    BY <1>1, <2>1 DEF poolVars, requestVars, toldVars
  <2>3. TypeOK'
    BY <1>1, <2>2 DEF TypeOK
  <2> QED BY <2>2, <2>3, Untouched
<1> QED BY <1>4, <1>5

LEMMA FailKeeps ==
    ASSUME DriveInv, NEW p \in Requests, fail(p)
    PROVE  DriveInv' /\ RoomStep
<1> USE UploadsAssumption DEF DriveInv
<1>1. /\ Moved(p, "idle", NoFile, NoFile, 0)
      /\ UNCHANGED <<live, landed, storeVars, poolVars, doubt, sweepVars, toldVars>>
  BY EndMoves DEF fail
<1>2. CASE pc[p] \in Opening
  <2>1. up[p] \in Uploads /\ file[p] \in Files /\ row[up[p]].state = "new"
        /\ \A q \in Requests : q # p => up[q] # up[p]
    BY <1>2 DEF RequestInv, Opening
  <2>2. row' = [row EXCEPT ![up[p]] = GoneRow(file[p])]
    BY <1>2 DEF fail, Opening
  <2>3. RowSet(up[p], GoneRow(file[p]))
    BY <2>1, <2>2, RowParts, RowSets
  <2>4. \A q \in Requests : Quiet(q)
    BY <1>1 DEF Moved, Quiet
  <2>5. RequestsType' /\ \A q \in Requests : up'[q] # up[p]
    BY <1>1, <2>1 DEF Moved, RequestsType
  <2>6. up[p] \notin doubt
    BY <2>1 DEF RowsInv, Open
  <2>7. /\ UNCHANGED <<live, landed, objects, poolVars, doubt, dead, stale, orphans, found,
                       told, missed>>
        /\ multipart' \subseteq multipart /\ aborted' \subseteq Uploads /\ cancelled' = cancelled
    BY <1>1 DEF sweepVars, toldVars, storeVars, TypeOK
  <2> QED BY <2>1, <2>3, <2>4, <2>5, <2>6, <2>7, GoneKeeps
<1>3. CASE pc[p] \notin Opening
  <2>1. row' = row
    BY <1>3 DEF fail, Opening
  <2> QED BY <1>1, <2>1, EndsKeeps
<1> QED BY <1>2, <1>3

\* What holds of the one request that has stitched an upload.
LEMMA AtStitched ==
    ASSUME DriveInv, NEW p \in Requests, pc[p] = "stitched"
    PROVE  /\ up[p] \in Uploads /\ file[p] \in Files /\ Open(up[p]) /\ row[up[p]].file = file[p]
           /\ file[p] \notin dead /\ up[p] \in objects /\ up[p] \notin doubt /\ doubt = {}
           /\ \A q \in Requests : pc[q] \notin Opening
           /\ \A q \in Requests : up[q] = up[p] => pc[q] # "failed"
           /\ \A q \in Requests : q # p /\ up[q] = up[p] => pc[q] \notin InRow \cup Opening
<1> USE DEF DriveInv
<1>1. up[p] \in Uploads /\ file[p] \in Files /\ row[up[p]].file = file[p] /\ row[up[p]].state # "new"
  BY DEF RequestInv, Opening
<1>2. Open(up[p]) /\ up[p] \notin doubt /\ \A q \in Requests : q # p /\ up[q] = up[p] => pc[q] \notin InRow
  BY <1>1 DEF RowInv, InRow
<1>3. file[p] \notin dead /\ doubt = {} /\ \A q \in Requests : pc[q] \notin Opening
  BY DEF FilesInv, PoolInv, InPool, Opening
<1>4. up[p] \in objects /\ \A q \in Requests : up[q] = up[p] => pc[q] # "failed"
  BY DEF StoreInv, AfterStitch
<1> QED BY <1>1, <1>2, <1>3, <1>4

LEMMA LandKeeps ==
    ASSUME DriveInv, NEW p \in Requests, land(p)
    PROVE  DriveInv' /\ RoomStep
<1> USE UploadsAssumption DEF DriveInv
<1>1. /\ pc[p] = "stitched" /\ charge(up[p], file[p]) /\ Moved(p, "idle", NoFile, NoFile, 0)
      /\ told' = told \cup {up[p]} /\ doubt' = doubt /\ UNCHANGED <<storeVars, sweepVars,
                                                                    cancelled, missed>>
  BY EndMoves DEF land
<1>2. \A q \in Requests : Quiet(q)
  BY <1>1 DEF Moved, Quiet
<1>3. RequestsType'
  BY <1>1 DEF Moved, RequestsType
<1>4. \A q \in Requests : pc'[q] \notin Opening /\ (up'[q] = up[p] => pc'[q] \notin InRow \cup Opening)
  BY <1>1, AtStitched DEF Moved, Opening
<1> QED BY <1>1, <1>2, <1>3, <1>4, AtStitched, LandsKeeps

LEMMA ResolveKeeps ==
    ASSUME DriveInv, NEW u \in Uploads, resolve(u)
    PROVE  DriveInv' /\ RoomStep
<1> USE UploadsAssumption DEF DriveInv
<1>1. /\ u \in doubt /\ doubt' = doubt \ {u} /\ UNCHANGED <<storeVars, requestVars, sweepVars,
                                                            toldVars>>
      /\ charge(u, row[u].file) \/ UNCHANGED <<live, landed, row, poolVars>>
  BY DEF resolve
<1>2. Open(u) /\ row[u].file \in Files /\ row[u].file \notin dead /\ u \in objects \cup missed
  BY <1>1 DEF RowsInv, FilesInv, StoreInv, Open
<1>3. CASE charge(u, row[u].file)
  <2>1. RequestsType' /\ \A q \in Requests : Quiet(q)
    BY <1>1 DEF RequestsType, Quiet, requestVars, TypeOK
  <2>2. \A q \in Requests : pc[q] = "failed" /\ up[q] = u => u \in missed
    BY <1>1 DEF StoreInv
  <2>3. \A q \in Requests : pc'[q] \notin Opening
    BY <1>1 DEF PoolInv, InPool, Opening, requestVars
  <2>4. \A q \in Requests : up'[q] = u => pc'[q] \notin InRow \cup Opening
    BY <1>1, <2>3 DEF RowInv, requestVars
  <2>5. told' \in {told, told \cup {u}} /\ UNCHANGED <<storeVars, sweepVars, cancelled, missed>>
    BY <1>1 DEF toldVars
  <2> QED BY <1>1, <1>2, <1>3, <2>1, <2>2, <2>3, <2>4, <2>5, LandsKeeps
<1>4. CASE UNCHANGED <<live, landed, row, poolVars>>
  <2>1. UNCHANGED <<live, landed, row, multipart, objects, quota, used, drift, pc, up, file,
                    chunk, dead, stale, aborted, orphans, found, cancelled, told, missed>>
    BY <1>1, <1>4 DEF storeVars, poolVars, requestVars, sweepVars, toldVars
  <2>2. TypeOK'
    BY <1>1, <2>1 DEF TypeOK
  <2>3. PoolInv'
    BY <1>1, <2>1 DEF PoolInv
  <2>4. RowInv'
    BY <1>1, <2>1 DEF RowInv, Open
  <2>5. RowsInv'
    BY <1>1, <2>1 DEF RowsInv, Open
  <2>6. FilesInv'
    BY <1>1, <2>1 DEF FilesInv, Open
  <2>7. StoreInv'
    BY <1>1, <2>1 DEF StoreInv
  <2> QED BY <2>1, <2>2, <2>3, <2>4, <2>5, <2>6, <2>7, Untouched
<1> QED BY <1>1, <1>3, <1>4

LEMMA CommitLostKeeps ==
    ASSUME DriveInv, NEW p \in Requests, commit_lost(p)
    PROVE  DriveInv' /\ RoomStep
<1> USE UploadsAssumption DEF DriveInv
<1>1. pc[p] = "stitched" /\ Moved(p, "unsure", up[p], file[p], chunk[p])
      /\ UNCHANGED <<storeVars, sweepVars, toldVars, up, file, chunk>>
  BY BecomeMoves DEF commit_lost, Steps
<1>2. CASE charge(up[p], file[p]) /\ UNCHANGED doubt
  <2>1. \A q \in Requests : \/ Quiet(q)
                            \/ /\ pc[q] = "stitched" /\ pc'[q] = "unsure" /\ up'[q] = up[q]
                               /\ file'[q] = file[q] /\ chunk'[q] = chunk[q]
    BY <1>1 DEF Moved, Quiet
  <2>2. RequestsType'
    BY <1>1 DEF Moved, RequestsType
  <2>3. \A q \in Requests : pc'[q] \notin Opening /\ (up'[q] = up[p] => pc'[q] \notin InRow \cup Opening)
    BY <1>1, AtStitched DEF Moved, Opening, InRow
  <2>4. told' \in {told, told \cup {up[p]}} /\ UNCHANGED <<storeVars, sweepVars, cancelled, missed>>
    BY <1>1 DEF toldVars
  <2> QED BY <1>1, <1>2, <2>1, <2>2, <2>3, <2>4, AtStitched, LandsKeeps
<1>3. CASE /\ UNCHANGED <<live, landed, row, poolVars>>
           /\ doubt' = doubt \/ doubt' = doubt \cup {up[p]}
  <2>1. UNCHANGED <<live, landed, row, multipart, objects, quota, used, drift, dead, stale,
                    aborted, orphans, found, cancelled, told, missed>>
    BY <1>1, <1>3 DEF storeVars, poolVars, sweepVars, toldVars
  <2>2. doubt' \subseteq {up[p]} /\ up[p] \in Uploads /\ Open(up[p]) /\ up[p] \in objects
    BY <1>1, <1>3, AtStitched
  <2>3. TypeOK'
    BY <1>1, <2>1, <2>2 DEF TypeOK, Moved
  <2>4. \A q \in Requests : q # p => pc'[q] \notin InPool
    BY <1>1 DEF PoolInv, Moved, InPool
  <2>5. PoolInv'
    BY <1>1, <2>2, <2>4 DEF PoolInv, Moved, InPool
  <2>6. RowInv'
    BY <1>1, <2>1, <2>2 DEF RowInv, Moved, InRow, Open
  <2>7. RequestInv'
    BY <1>1, <2>1 DEF RequestInv, Moved, Opening
  <2>8. ChunkInv'
    BY <1>1, <2>1 DEF ChunkInv, Moved
  <2>9. RowsInv'
    BY <2>1, <2>2 DEF RowsInv, Open
  <2>10. FilesInv'
    <3>1. file[p] \notin dead /\ row[up[p]].file = file[p] /\ \A q \in Requests : pc'[q] \notin InPool \cup Opening
      BY <1>1, <2>4, AtStitched DEF Moved, InPool, Opening
    <3> QED BY <2>1, <2>2, <3>1 DEF FilesInv, Open
  <2>11. StoreInv'
    <3>1. \A q \in Requests : pc'[q] \in AfterStitch => pc[q] \in AfterStitch /\ up'[q] = up[q]
      BY <1>1 DEF Moved, AfterStitch
    <3>2. \A q \in Requests : pc'[q] = "stitched" => pc[q] = "stitched"
      BY <1>1 DEF Moved
    <3>3. \A q \in Requests : pc'[q] = "failed" => pc[q] = "failed" /\ up'[q] = up[q] /\ up[q] # up[p]
      BY <1>1, AtStitched DEF Moved
    <3> QED BY <1>1, <2>1, <2>2, <3>1, <3>2, <3>3 DEF StoreInv
  <2>12. RoomInv'
    BY <1>1, <2>1, ReservedSame DEF RoomInv, Moved, Opening
  <2>13. PartsInOrder'
    BY <1>1, <2>1 DEF PartsInOrder, Moved
  <2> QED BY <2>1, <2>3, <2>5, <2>6, <2>7, <2>8, <2>9, <2>10, <2>11, <2>12, <2>13, Untouched
<1> QED BY <1>2, <1>3 DEF commit_lost

\* The row moves on by the chunk the request brought.
LEMMA CommitPartKeeps ==
    ASSUME DriveInv, NEW p \in Requests, commit_part(p)
    PROVE  DriveInv' /\ RoomStep
<1> USE UploadsAssumption DEF DriveInv
<1> DEFINE u == up[p]
<1>1. /\ pc[p] = "stored" /\ Moved(p, "idle", NoFile, NoFile, 0)
      /\ row' = [row EXCEPT ![u].parts = Append(@, chunk[p]), ![u].idle = FALSE]
  BY EndMoves DEF commit_part
<1>2. UNCHANGED <<live, landed, multipart, objects, quota, used, drift, doubt, dead, stale,
                  aborted, orphans, found, cancelled, told, missed>>
  BY DEF commit_part, storeVars, poolVars, sweepVars, toldVars
<1>3. u \in Uploads /\ chunk[p] = Len(row[u].parts) + 1
  BY <1>1 DEF RequestInv, ChunkInv
<1>4. row[u] \in Upload /\ row[u].parts \in Seq(1 .. Chunks)
  BY <1>3 DEF TypeOK, Upload
<1>5. Len(row[u].parts) \in Nat /\ chunk[p] \in 1 .. Chunks
  BY <1>3, <1>4 DEF TypeOK
<1>6. /\ Append(row[u].parts, chunk[p]) \in Seq(1 .. Chunks)
      /\ DOMAIN Append(row[u].parts, chunk[p]) = 1 .. (Len(row[u].parts) + 1)
      /\ \A i \in DOMAIN Append(row[u].parts, chunk[p]) :
            Append(row[u].parts, chunk[p])[i] = IF i \in DOMAIN row[u].parts THEN row[u].parts[i] ELSE chunk[p]
  <2>1. \A S : \A s \in Seq(S) : \A c \in S :
            /\ Append(s, c) \in Seq(S) /\ DOMAIN Append(s, c) = 1 .. (Len(s) + 1)
            /\ DOMAIN s = 1 .. Len(s) /\ Len(s) \in Nat
    OBVIOUS
  <2>2. \A S : \A s \in Seq(S) : \A c \in S : \A i \in 1 .. (Len(s) + 1) :
            Append(s, c)[i] = IF i \in 1 .. Len(s) THEN s[i] ELSE c
    OBVIOUS
  <2> DEFINE parts == row[u].parts
  <2>3. parts \in Seq(1 .. Chunks) /\ chunk[p] \in 1 .. Chunks
    BY <1>4, <1>5
  <2> HIDE DEF u, parts
  <2>4. /\ Append(parts, chunk[p]) \in Seq(1 .. Chunks)
        /\ DOMAIN Append(parts, chunk[p]) = 1 .. (Len(parts) + 1)
        /\ DOMAIN parts = 1 .. Len(parts) /\ Len(parts) \in Nat
    BY <2>1, <2>3
  <2>5. \A i \in 1 .. (Len(parts) + 1) :
            Append(parts, chunk[p])[i] = IF i \in 1 .. Len(parts) THEN parts[i] ELSE chunk[p]
    BY <2>2, <2>3
  <2>6. \A i \in DOMAIN Append(parts, chunk[p]) :
            Append(parts, chunk[p])[i] = IF i \in DOMAIN parts THEN parts[i] ELSE chunk[p]
    BY <2>4, <2>5
  <2> QED BY <2>4, <2>6 DEF parts
<1>7. row'[u] = [row[u] EXCEPT !.parts = Append(row[u].parts, chunk[p]), !.idle = FALSE]
  BY <1>1, <1>3 DEF TypeOK
<1>8. /\ row'[u] \in Upload /\ row'[u].parts = Append(row[u].parts, chunk[p])
      /\ row'[u].state = row[u].state /\ row'[u].file = row[u].file /\ row'[u].version = row[u].version
  BY <1>4, <1>6, <1>7 DEF Upload
<1>9. row' \in [Uploads -> Upload] /\ \A v \in Uploads : v # u => row'[v] = row[v]
  BY <1>1, <1>3, <1>8 DEF TypeOK
<1>10. \A v \in Uploads : row'[v].state = row[v].state /\ row'[v].file = row[v].file /\ row'[v].version = row[v].version
  BY <1>8, <1>9
<1>11. /\ pc'[p] = "idle" /\ up'[p] = NoFile
       /\ \A q \in Requests : q # p => pc'[q] = pc[q] /\ up'[q] = up[q] /\ file'[q] = file[q] /\ chunk'[q] = chunk[q]
  BY <1>1 DEF Moved
<1>12. \A q \in Requests : q # p /\ up[q] = u => pc[q] \notin InRow
  BY <1>1, <1>3 DEF RowInv, InRow
<1> HIDE DEF u
<1>13. TypeOK'
  BY <1>1, <1>2, <1>9 DEF TypeOK, Moved
<1>14. PoolInv'
  BY <1>2, <1>11 DEF PoolInv, InPool
<1>15. RowInv'
  BY <1>2, <1>10, <1>11 DEF RowInv, InRow, Open
<1>16. RequestInv'
  BY <1>2, <1>10, <1>11 DEF RequestInv, Opening
<1>17. ChunkInv'
  BY <1>9, <1>11, <1>12 DEF ChunkInv, RequestInv, InRow
<1>18. RowsInv'
  BY <1>2, <1>10 DEF RowsInv, Open
<1>19. FilesInv'
  BY <1>2, <1>10, <1>11 DEF FilesInv, TypeOK, Open, InPool, Opening
<1>20. StoreInv'
  BY <1>2, <1>11 DEF StoreInv, AfterStitch
<1>21. RoomInv'
  BY <1>2, <1>10, <1>11, ReservedSame DEF RoomInv, Opening
<1>22. ToldLanded'
  BY <1>2, <1>10 DEF ToldLanded, TypeOK
<1>23. PartsInOrder'
  <2>1. \A i \in DOMAIN row'[u].parts : row'[u].parts[i] = i
    <3> SUFFICES ASSUME NEW i \in DOMAIN row'[u].parts PROVE row'[u].parts[i] = i
      OBVIOUS
    <3>1. row'[u].parts[i] = IF i \in DOMAIN row[u].parts THEN row[u].parts[i] ELSE chunk[p]
      BY <1>6, <1>8
    <3>2. i \in DOMAIN row[u].parts \/ i = chunk[p]
      BY <1>3, <1>4, <1>5, <1>6, <1>8
    <3> QED BY <1>3, <3>1, <3>2 DEF PartsInOrder
  <2> QED BY <1>9, <1>11, <2>1 DEF PartsInOrder
<1>24. RoomStep
  BY <1>2, <1>10, ReservedSame, ReservedType DEF RoomStep, TypeOK
<1>25. ObjectKept' /\ UsedExact' /\ CancelledNeverLands'
  BY <1>2, Untouched
<1> QED BY <1>13, <1>14, <1>15, <1>16, <1>17, <1>18, <1>19, <1>20, <1>21, <1>22, <1>23, <1>24, <1>25

\* The parts become the object, and the request goes on or is lost.
LEMMA CompleteKeeps ==
    ASSUME DriveInv, NEW p \in Requests, complete_multipart(p)
    PROVE  DriveInv' /\ RoomStep
<1> USE UploadsAssumption DEF DriveInv
<1>1. /\ pc[p] = "checked" /\ up[p] \in multipart
      /\ multipart' = multipart \ {up[p]} /\ objects' = objects \cup {up[p]}
  BY DEF complete_multipart
<1>2. UNCHANGED <<live, landed, row, quota, used, drift, doubt, dead, stale, aborted, orphans,
                  found, cancelled, told, missed>>
  BY DEF complete_multipart, poolVars, sweepVars, toldVars
<1>3. Moved(p, "stitched", up[p], file[p], chunk[p]) \/ Moved(p, "idle", NoFile, NoFile, 0)
  BY EndMoves, BecomeMoves DEF complete_multipart, Steps, InPool
<1>4. RequestsType' /\ \A q \in Requests : q # p =>
          pc'[q] = pc[q] /\ up'[q] = up[q] /\ file'[q] = file[q] /\ chunk'[q] = chunk[q]
  BY <1>3 DEF Moved, RequestsType
<1>5. \/ pc'[p] = "stitched" /\ up'[p] = up[p] /\ file'[p] = file[p] /\ chunk'[p] = chunk[p]
      \/ pc'[p] = "idle" /\ up'[p] = NoFile
  BY <1>3 DEF Moved
<1>6. up[p] \in Uploads /\ file[p] \in Files /\ row[up[p]].state # "new"
  BY <1>1 DEF RequestInv, Opening
<1>7. TypeOK'
  BY <1>1, <1>2, <1>4, <1>6 DEF TypeOK, RequestsType
<1>8. PoolInv'
  BY <1>1, <1>2, <1>4, <1>5 DEF PoolInv, InPool
<1>9. RowInv'
  BY <1>1, <1>2, <1>4, <1>5 DEF RowInv, InRow, Open
<1>10. RequestInv'
  BY <1>1, <1>2, <1>4, <1>5 DEF RequestInv, Opening
<1>11. ChunkInv'
  BY <1>1, <1>2, <1>4, <1>5 DEF ChunkInv
<1>12. RowsInv'
  BY <1>1, <1>2, <1>6 DEF RowsInv, Open
<1>13. FilesInv'
  BY <1>1, <1>2, <1>4, <1>5 DEF FilesInv, Open, InPool, Opening
<1>14. StoreInv'
  <2>1. \A q \in Requests : pc[q] \in AfterStitch => up[q] # up[p] /\ q # p
    BY <1>1 DEF StoreInv, AfterStitch
  <2>2. \A q \in Requests : pc'[q] \in AfterStitch =>
            \/ q # p /\ pc[q] \in AfterStitch /\ up'[q] = up[q] /\ pc'[q] = pc[q]
            \/ q = p /\ pc'[q] = "stitched" /\ up'[q] = up[p]
    BY <1>4, <1>5 DEF AfterStitch
  <2>3. \A q \in Requests : pc'[q] = "failed" => q # p /\ pc[q] = "failed" /\ up'[q] = up[q]
    BY <1>4, <1>5
  <2>4. \A q \in Requests : pc'[q] = "stitched" => up'[q] \in objects'
    BY <1>1, <1>4, <1>5 DEF StoreInv
  <2>5. \A q, s \in Requests : pc'[q] \in AfterStitch /\ pc'[s] \in AfterStitch /\ up'[q] = up'[s] => q = s
    BY <2>1, <2>2 DEF StoreInv
  <2>6. \A q \in Requests : pc'[q] \in AfterStitch => up'[q] \notin multipart'
    BY <1>1, <2>2 DEF StoreInv
  <2> QED BY <1>1, <1>2, <2>3, <2>4, <2>5, <2>6 DEF StoreInv
<1>15. RoomInv'
  BY <1>2, <1>4, <1>5, ReservedSame DEF RoomInv, Opening
<1>16. ObjectKept'
  BY <1>1, <1>2 DEF ObjectKept, Landed
<1>17. PartsInOrder'
  BY <1>1, <1>2, <1>4, <1>5 DEF PartsInOrder, ChunkInv
<1>18. UsedExact' /\ ToldLanded' /\ CancelledNeverLands' /\ RoomStep
  BY <1>2, Untouched
<1> QED BY <1>7, <1>8, <1>9, <1>10, <1>11, <1>12, <1>13, <1>14, <1>15, <1>16, <1>17, <1>18

\* A look finds the upload landed, or does not, or fails.
LEMMA LookAgainKeeps ==
    ASSUME DriveInv, NEW p \in Requests, look_again(p)
    PROVE  DriveInv' /\ RoomStep
<1> USE UploadsAssumption DEF DriveInv
<1>1. /\ pc[p] = "unsure"
      /\ UNCHANGED <<live, landed, row, multipart, objects, quota, used, drift, doubt, dead,
                     stale, aborted, orphans, found, cancelled>>
  BY DEF look_again, file_landed, storeVars, poolVars, sweepVars
<1>2. up[p] \in Uploads
  BY <1>1 DEF RequestInv
<1>3. CASE landed[up[p]] # NoFile /\ told' = told \cup {up[p]} /\ End(p) /\ UNCHANGED missed
  <2>1. Moved(p, "idle", NoFile, NoFile, 0)
    BY <1>3, EndMoves
  <2>2. TypeOK'
    BY <1>1, <1>2, <1>3, <2>1 DEF TypeOK, Moved
  <2>3. PoolInv'
    BY <1>1, <2>1 DEF PoolInv, Moved, InPool
  <2>4. RowInv'
    BY <1>1, <2>1 DEF RowInv, Moved, InRow, Open
  <2>5. RequestInv'
    BY <1>1, <2>1 DEF RequestInv, Moved, Opening
  <2>6. ChunkInv'
    BY <1>1, <2>1 DEF ChunkInv, Moved
  <2>7. RowsInv'
    BY <1>1, <1>2, <1>3 DEF RowsInv, Open
  <2>8. FilesInv'
    BY <1>1, <2>1 DEF FilesInv, Moved, Open, InPool, Opening
  <2>9. StoreInv'
    BY <1>1, <1>3, <2>1 DEF StoreInv, Moved, AfterStitch
  <2>10. RoomInv'
    BY <1>1, <2>1, ReservedSame DEF RoomInv, Moved, Opening
  <2>11. ToldLanded'
    BY <1>1, <1>3 DEF ToldLanded
  <2>12. CancelledNeverLands'
    BY <1>1, <1>2, <1>3 DEF CancelledNeverLands, Landed
  <2>13. PartsInOrder'
    BY <1>1, <2>1 DEF PartsInOrder, Moved
  <2>14. ObjectKept' /\ UsedExact' /\ RoomStep
    BY <1>1, <1>3, Untouched
  <2> QED BY <2>2, <2>3, <2>4, <2>5, <2>6, <2>7, <2>8, <2>9, <2>10, <2>11, <2>12, <2>13, <2>14
<1>4. CASE /\ landed[up[p]] = NoFile /\ missed' = missed \cup ({up[p]} \cap doubt)
           /\ Become(p, "failed") /\ UNCHANGED <<up, file, chunk, told>>
  <2>1. Moved(p, "failed", up[p], file[p], chunk[p])
    BY <1>4, BecomeMoves DEF Steps
  <2>2. TypeOK'
    BY <1>1, <1>2, <1>4, <2>1 DEF TypeOK, Moved
  <2>3. PoolInv'
    BY <1>1, <2>1 DEF PoolInv, Moved, InPool
  <2>4. RowInv'
    BY <1>1, <2>1 DEF RowInv, Moved, InRow, Open
  <2>5. RequestInv'
    BY <1>1, <2>1 DEF RequestInv, Moved, Opening
  <2>6. ChunkInv'
    BY <1>1, <2>1 DEF ChunkInv, Moved
  <2>7. FilesInv'
    BY <1>1, <2>1 DEF FilesInv, Moved, Open, InPool, Opening
  <2>8. StoreInv'
    BY <1>1, <1>4, <2>1 DEF StoreInv, Moved, AfterStitch
  <2>9. RoomInv'
    BY <1>1, <2>1, ReservedSame DEF RoomInv, Moved, Opening
  <2>10. ObjectKept'
    BY <1>1, <1>4 DEF ObjectKept, Landed
  <2>11. PartsInOrder'
    BY <1>1, <2>1 DEF PartsInOrder, Moved
  <2>12. RowsInv' /\ UsedExact' /\ ToldLanded' /\ CancelledNeverLands' /\ RoomStep
    BY <1>1, <1>4, Untouched
  <2> QED BY <2>2, <2>3, <2>4, <2>5, <2>6, <2>7, <2>8, <2>9, <2>10, <2>11, <2>12
<1>5. CASE End(p) /\ UNCHANGED <<told, missed>>
  <2>1. UNCHANGED <<live, landed, row, storeVars, poolVars, doubt, sweepVars, toldVars>>
    BY <1>5 DEF look_again, toldVars
  <2> QED BY <1>5, <2>1, EndMoves, EndsKeeps
<1> QED BY <1>3, <1>4, <1>5 DEF look_again, file_landed

LEMMA PurgeLockKeeps ==
    ASSUME DriveInv, NEW p \in Requests, NEW f \in Files, purge_lock(p, f)
    PROVE  DriveInv' /\ RoomStep
<1> USE UploadsAssumption DEF DriveInv
<1>1. PICK u \in Uploads \cup {NoFile} :
          /\ u # NoFile => Open(u) /\ row[u].file = f /\ RowFree(u)
          /\ Start(p, "purge", u, f, 0)
  BY DEF purge_lock
<1>2. UNCHANGED <<live, landed, row, multipart, objects, quota, used, drift, doubt, dead,
                  stale, aborted, orphans, found, cancelled, told, missed>>
  BY DEF purge_lock, storeVars, poolVars, sweepVars, toldVars
<1>3. pc[p] = "idle" /\ Moved(p, "purge", u, f, 0)
  <2>1. "purge" \in Steps /\ 0 \in 0 .. Chunks /\ f \in Files \cup {NoFile}
    BY DEF Steps, InRow
  <2> QED BY <1>1, <2>1, StartMoves
<1>4. u \in Uploads => Open(u) /\ row[u].file = f /\ RowFree(u)
  BY <1>1
<1>5. TypeOK'
  BY <1>2, <1>3 DEF TypeOK, Moved
<1>6. PoolInv'
  BY <1>2, <1>3 DEF PoolInv, Moved, InPool
<1>7. RowInv'
  BY <1>2, <1>3, <1>4 DEF RowInv, RowFree, Moved, Open
<1>8. RequestInv'
  BY <1>2, <1>3, <1>4 DEF RequestInv, Moved, Open, Opening
<1>9. ChunkInv'
  BY <1>2, <1>3 DEF ChunkInv, Moved
<1>10. FilesInv'
  BY <1>2, <1>3 DEF FilesInv, Moved, Open, InPool, Opening
<1>11. StoreInv'
  BY <1>2, <1>3 DEF StoreInv, Moved, AfterStitch
<1>12. RoomInv'
  BY <1>2, <1>3, ReservedSame DEF RoomInv, Moved, Opening
<1>13. PartsInOrder'
  BY <1>2, <1>3 DEF PartsInOrder, Moved
<1>14. RowsInv' /\ ObjectKept' /\ UsedExact' /\ ToldLanded' /\ CancelledNeverLands' /\ RoomStep
  BY <1>2, Untouched
<1> QED BY <1>5, <1>6, <1>7, <1>8, <1>9, <1>10, <1>11, <1>12, <1>13, <1>14

LEMMA PurgeObjectsKeeps ==
    ASSUME DriveInv, NEW p \in Requests, purge_objects(p)
    PROVE  DriveInv' /\ RoomStep
<1> USE UploadsAssumption DEF DriveInv
<1>1. /\ pc[p] = "purged" /\ Moved(p, "idle", NoFile, NoFile, 0) /\ multipart' \subseteq multipart
      /\ objects' \subseteq objects /\ \A u \in objects \ objects' : row[u].file = file[p]
  BY EndMoves DEF purge_objects
<1>2. UNCHANGED <<live, landed, row, quota, used, drift, doubt, dead, stale, aborted, orphans,
                  found, cancelled, told, missed>>
  BY DEF purge_objects, poolVars, sweepVars, toldVars
<1>3. \A u \in objects \ objects' : row[u].file \in dead
  BY <1>1 DEF RequestInv
<1>4. TypeOK'
  BY <1>1, <1>2 DEF TypeOK, Moved
<1>5. PoolInv'
  BY <1>1, <1>2 DEF PoolInv, Moved, InPool
<1>6. RowInv'
  BY <1>1, <1>2 DEF RowInv, Moved, InRow, Open
<1>7. RequestInv'
  BY <1>1, <1>2 DEF RequestInv, Moved, Opening
<1>8. ChunkInv'
  BY <1>1, <1>2 DEF ChunkInv, Moved
<1>9. RowsInv'
  BY <1>1, <1>2 DEF RowsInv, Open
<1>10. FilesInv'
  BY <1>1, <1>2 DEF FilesInv, Moved, Open, InPool, Opening
<1>11. StoreInv'
  <2>1. \A q \in Requests : pc'[q] = "stitched" => up'[q] \in objects'
    <3> SUFFICES ASSUME NEW q \in Requests, pc'[q] = "stitched" PROVE up'[q] \in objects'
      OBVIOUS
    <3>1. pc[q] = "stitched" /\ up'[q] = up[q]
      BY <1>1 DEF Moved
    <3> QED BY <1>3, <3>1, AtStitched
  <2>2. \A u \in doubt : u \in objects' \cup missed
    BY <1>3 DEF StoreInv, FilesInv
  <2> QED BY <1>1, <1>2, <2>1, <2>2 DEF StoreInv, Moved, AfterStitch
<1>12. RoomInv'
  BY <1>1, <1>2, ReservedSame DEF RoomInv, Moved, Opening
<1>13. ObjectKept'
  <2>1. \A u \in Landed : row[u].file \notin dead
    BY DEF Landed, RowsInv, FilesInv
  <2> QED BY <1>2, <1>3, <2>1 DEF ObjectKept, Landed
<1>14. PartsInOrder'
  BY <1>1, <1>2 DEF PartsInOrder, Moved
<1>15. UsedExact' /\ ToldLanded' /\ CancelledNeverLands' /\ RoomStep
  BY <1>2, Untouched
<1> QED BY <1>4, <1>5, <1>6, <1>7, <1>8, <1>9, <1>10, <1>11, <1>12, <1>13, <1>14, <1>15

\* A file goes: its revisions, their charges and the upload the purge locked.
LEMMA PurgeFileKeeps ==
    ASSUME DriveInv, NEW p \in Requests, purge_file_root(p)
    PROVE  DriveInv' /\ RoomStep
<1> USE UploadsAssumption DEF DriveInv
<1> DEFINE f == file[p]
           u == up[p]
           gone == {v \in Uploads : landed[v] = f}
<1>1. /\ pc[p] = "purge" /\ f \in live /\ FileFree(f) /\ PoolFree
      /\ landed' = [v \in Uploads |-> IF v \in gone THEN NoFile ELSE landed[v]]
      /\ used' = IF used >= Cardinality(gone) THEN used - Cardinality(gone) ELSE 0
      /\ row' = [v \in Uploads |-> IF v = u THEN GoneRow(f) ELSE row[v]]
      /\ live' = live \ {f} /\ dead' = dead \cup {f}
  BY DEF purge_file_root
<1>2. UNCHANGED <<multipart, objects, quota, drift, doubt, stale, aborted, orphans, found,
                  cancelled, told, missed>>
  BY DEF purge_file_root, storeVars, toldVars
<1>3. Moved(p, "purged", u, f, chunk[p])
  BY BecomeMoves DEF purge_file_root, Steps
<1>4. f \in Files
  BY <1>1 DEF TypeOK
<1>5. /\ row' \in [Uploads -> Upload]
      /\ u \in Uploads => row'[u].state = "gone" /\ row'[u].file = f /\ row'[u].parts = <<>>
      /\ \A v \in Uploads : v # u => row'[v] = row[v]
  <2>1. GoneRow(f) \in Upload /\ GoneRow(f).state = "gone" /\ GoneRow(f).file = f /\ GoneRow(f).parts = <<>>
    BY <1>4, RowParts
  <2> HIDE DEF f, u, gone
  <2> QED BY <1>1, <2>1 DEF TypeOK
<1>6. /\ landed' \in [Uploads -> Files \cup {NoFile}]
      /\ \A v \in Uploads : /\ landed[v] = f => landed'[v] = NoFile
                            /\ landed[v] # f => landed'[v] = landed[v]
  BY <1>1 DEF TypeOK
<1>7. u \in Uploads => Open(u) /\ row[u].file = f /\ u \notin doubt
  BY <1>1 DEF RowInv, RequestInv, InRow, Opening
<1>8. doubt = {} /\ \A q \in Requests : pc[q] \notin InPool
  BY <1>1 DEF PoolFree
<1>9. /\ pc'[p] = "purged" /\ up'[p] = u /\ file'[p] = f
      /\ \A q \in Requests : q # p => pc'[q] = pc[q] /\ up'[q] = up[q] /\ file'[q] = file[q] /\ chunk'[q] = chunk[q]
  BY <1>3 DEF Moved
<1>10. \A q \in Requests : q # p /\ up[q] = u /\ u \in Uploads => pc[q] \notin InRow
  BY <1>1 DEF RowInv, InRow
<1>11. \A q \in Requests : pc'[q] \notin InPool \cup Opening
  BY <1>8, <1>9 DEF InPool, Opening
<1>12. Landed' = Landed \ gone /\ gone \subseteq Landed
  BY <1>4, <1>6 DEF Landed
<1>13. /\ Cardinality(Landed') = Cardinality(Landed) - Cardinality(gone)
       /\ Cardinality(Landed) \in Nat /\ Cardinality(gone) \in Nat /\ Cardinality(gone) <= Cardinality(Landed)
       /\ Cardinality(Landed) <= Cardinality(Uploads) /\ Cardinality(Uploads) \in Nat
  <2>1. IsFiniteSet(Landed) /\ IsFiniteSet(gone) /\ Landed \in SUBSET Uploads /\ gone \in SUBSET Uploads
    BY ReservedNat DEF Landed
  <2>2. Landed \cap gone = gone
    BY <1>12
  <2> HIDE DEF Landed, gone
  <2> QED BY <1>12, <2>1, <2>2, ReservedNat, FS_Difference, FS_Subset, FS_CardinalityType
<1> HIDE DEF f, u, gone
<1>14. UsedExact' /\ used' <= used /\ used' \in 0 .. Cardinality(Uploads) + MaxDrift
  BY <1>1, <1>2, <1>13 DEF UsedExact, TypeOK
<1>15. TypeOK'
  BY <1>1, <1>2, <1>3, <1>4, <1>5, <1>6, <1>14 DEF TypeOK, Moved
<1>16. PoolInv'
  BY <1>2, <1>8, <1>11 DEF PoolInv
<1>17. RowInv'
  BY <1>2, <1>5, <1>8, <1>9, <1>10 DEF RowInv, InRow, Open
<1>18. RequestInv'
  <2>1. \A q \in Requests : pc[q] \notin Opening
    BY <1>8 DEF InPool, Opening
  <2> QED BY <1>1, <1>4, <1>5, <1>7, <1>9, <1>11, <2>1 DEF RequestInv
<1>19. ChunkInv'
  BY <1>5, <1>9, <1>10 DEF ChunkInv, RequestInv, InRow
<1>20. RowsInv'
  <2> SUFFICES ASSUME NEW v \in Uploads
               PROVE  /\ row'[v].state # "new" => row'[v].file \in Files
                      /\ landed'[v] # NoFile =>
                            row'[v].state = "gone" /\ row'[v].file = landed'[v] /\ landed'[v] \in live'
                      /\ v \in objects' => row'[v].state # "new"
                      /\ v \in told' \cup cancelled' => row'[v].state = "gone"
                      /\ v \in orphans' => row'[v].state = "gone" /\ landed'[v] = NoFile
    BY <1>2, <1>8 DEF RowsInv
  <2>1. landed'[v] # NoFile => landed'[v] = landed[v] /\ landed[v] # f
    BY <1>6
  <2>2. CASE v = u
    BY <1>1, <1>2, <1>4, <1>5, <1>6, <1>7, <2>1, <2>2 DEF RowsInv, Open
  <2>3. CASE v # u
    BY <1>1, <1>2, <1>5, <1>6, <2>1, <2>3 DEF RowsInv
  <2> QED BY <2>2, <2>3
<1>21. FilesInv'
  <2>1. \A v \in Uploads : Open(v)' => Open(v) /\ row'[v] = row[v]
    BY <1>5 DEF Open
  <2>2. \A v \in Uploads : Open(v)' /\ ~ row'[v].version => row'[v].file \notin live' \cup dead'
    BY <1>1, <2>1 DEF FilesInv
  <2>3. live' \cap dead' = {}
    BY <1>1 DEF FilesInv
  <2> QED BY <1>2, <1>8, <1>11, <2>1, <2>2, <2>3 DEF FilesInv
<1>22. StoreInv'
  <2>1. \A q \in Requests : pc'[q] \in AfterStitch => q # p /\ pc[q] = pc'[q] /\ up'[q] = up[q]
    BY <1>9 DEF AfterStitch
  <2>2. \A q \in Requests : pc'[q] = "failed" =>
            up'[q] \in missed \/ (up'[q] \notin doubt /\ landed'[up'[q]] = NoFile)
    <3> SUFFICES ASSUME NEW q \in Requests, pc'[q] = "failed", up'[q] \notin missed
                 PROVE  up'[q] \notin doubt /\ landed'[up'[q]] = NoFile
      OBVIOUS
    <3>1. pc[q] = "failed" /\ up'[q] = up[q] /\ up[q] \in Uploads
      BY <1>9 DEF RequestInv
    <3> QED BY <1>6, <3>1 DEF StoreInv
  <2> QED BY <1>2, <2>1, <2>2 DEF StoreInv, AfterStitch
<1>23. RoomInv'
  BY <1>11 DEF RoomInv
<1>24. ObjectKept'
  BY <1>2, <1>12 DEF ObjectKept
<1>25. ToldLanded'
  <2> SUFFICES ASSUME NEW v \in told, landed'[v] = NoFile PROVE row'[v].file \in dead'
    BY <1>2 DEF ToldLanded
  <2>1. v \in Uploads /\ row[v].state = "gone"
    BY DEF TypeOK, RowsInv
  <2>2. row'[v] = row[v]
    BY <1>5, <1>7, <2>1 DEF Open
  <2>3. landed[v] = f \/ landed[v] = NoFile
    BY <1>6, <2>1
  <2> QED BY <1>1, <1>4, <2>1, <2>2, <2>3 DEF ToldLanded, RowsInv
<1>26. CancelledNeverLands'
  BY <1>2, <1>12 DEF CancelledNeverLands
<1>27. PartsInOrder'
  BY <1>5, <1>9 DEF PartsInOrder
<1>28. RoomStep
  <2>1. reserved({})' <= reserved({}) /\ reserved({})' \in Nat /\ reserved({}) \in Nat
    <3> DEFINE S == {v \in Uploads : Open(v)} \ {}
               T == {v \in Uploads : Open(v)'} \ {}
    <3>1. T \subseteq S
      BY <1>5 DEF Open
    <3>2. IsFiniteSet(S) /\ Cardinality(S) \in Nat /\ Cardinality(T) \in Nat
      BY ReservedNat
    <3>3. reserved({}) = Cardinality(S) /\ reserved({})' = Cardinality(T)
      BY DEF reserved
    <3> HIDE DEF S, T
    <3> QED BY <3>1, <3>2, <3>3, FS_Subset
  <2>2. used \in Nat /\ used' \in Nat
    BY <1>13, <1>14 DEF TypeOK
  <2> QED BY <1>14, <2>1, <2>2 DEF RoomStep
<1> QED BY <1>14, <1>15, <1>16, <1>17, <1>18, <1>19, <1>20, <1>21, <1>22, <1>23, <1>24, <1>25,
           <1>26, <1>27, <1>28

-----------------------------------------------------------------------------
(* Each action.                                                            *)

LEMMA CreateKeeps ==
    ASSUME DriveInv, NEW p \in Requests, NEW u \in Uploads, NEW f \in Files, create(p, u, f)
    PROVE  DriveInv' /\ RoomStep
<1> USE UploadsAssumption DEF DriveInv
<1>1. row[u].state = "new"
  BY DEF create
<1>2. \A q \in Requests : up[q] # u
  BY DEF create
<1>3. FileFree(f) /\ f \notin dead /\ \A v \in Uploads : Open(v) => row[v].file # f
  BY DEF create, claim_file_id
<1>4. PoolFree
  BY DEF create
<1>5. used + reserved({}) + 1 <= quota
  BY DEF create, check_room
<1>6. pc[p] = "idle" /\ Moved(p, "opening", u, f, 0)
  BY <1>1, <1>2, <1>3, <1>4, <1>5, StartMoves DEF create, Steps, InPool, InRow, TypeOK, Upload
<1>7. UNCHANGED <<live, landed, row, multipart, objects, quota, used, drift, doubt, dead,
                  stale, aborted, orphans, found, cancelled, told, missed>>
  BY DEF create, poolVars, storeVars, requestVars, sweepVars, toldVars
<1>8. TypeOK'
  BY <1>1, <1>2, <1>3, <1>4, <1>5, <1>6, <1>7 DEF TypeOK, Moved
<1>9. PoolInv'
  BY <1>1, <1>2, <1>3, <1>4, <1>5, <1>6, <1>7 DEF PoolInv, PoolFree, Moved, InPool
<1>10. RowInv'
  BY <1>1, <1>2, <1>3, <1>4, <1>5, <1>6, <1>7 DEF RowInv, RowFree, RequestInv, RowsInv, Moved,
     InRow, Open, Opening
<1>11. RequestInv'
  BY <1>1, <1>2, <1>3, <1>4, <1>5, <1>6, <1>7 DEF RequestInv, RowInv, RowFree, RowsInv, Moved,
     InRow, Open, Opening
<1>12. ChunkInv'
  <2>1. \A q \in Requests : q = p \/ (pc'[q] = pc[q] /\ up'[q] = up[q] /\ chunk'[q] = chunk[q])
    BY <1>6 DEF Moved
  <2>2. pc'[p] = "opening"
    BY <1>6 DEF Moved
  <2> QED BY <1>7, <2>1, <2>2 DEF ChunkInv
<1>13. FilesInv'
  BY <1>1, <1>2, <1>3, <1>4, <1>5, <1>6, <1>7 DEF FilesInv, FileFree, RequestInv, RowInv,
     Moved, InPool, InRow, Open, Opening
<1>14. StoreInv'
  BY <1>1, <1>2, <1>3, <1>4, <1>5, <1>6, <1>7 DEF StoreInv, RowInv, RequestInv, RowsInv, Moved,
     InRow, AfterStitch, Open
<1>15. RoomInv'
  BY <1>1, <1>2, <1>3, <1>4, <1>5, <1>6, <1>7, ReservedSame, ReservedType DEF RoomInv, PoolInv,
     PoolFree, Moved, InPool, Opening, TypeOK
<1>16. PartsInOrder'
  BY <1>1, <1>2, <1>3, <1>4, <1>5, <1>6, <1>7 DEF PartsInOrder, ChunkInv, RequestInv, Moved
<1>17. RowsInv' /\ ObjectKept' /\ UsedExact' /\ ToldLanded' /\ CancelledNeverLands' /\ RoomStep
  BY <1>7, Untouched
<1> QED BY <1>8, <1>9, <1>10, <1>11, <1>12, <1>13, <1>14, <1>15, <1>16, <1>17

LEMMA CreateMultipartKeeps ==
    ASSUME DriveInv, NEW p \in Requests, create_multipart(p)
    PROVE  DriveInv' /\ RoomStep
<1> USE UploadsAssumption DEF DriveInv
<1>1. pc[p] = "opening"
  BY DEF create_multipart
<1>2. up[p] \in Uploads /\ file[p] \in Files
  BY <1>1 DEF RequestInv
<1>3. \A q \in Requests : q # p => up[q] # up[p]
  BY <1>1, <1>2 DEF RequestInv, Opening
<1>4. multipart' = multipart \cup {up[p]}
  BY DEF create_multipart
<1>5. Moved(p, "opened", up[p], file[p], chunk[p])
  BY BecomeMoves DEF create_multipart, Steps, InPool, InRow
<1>6. UNCHANGED <<live, landed, row, objects, quota, used, drift, doubt, dead, stale, aborted,
                  orphans, found, cancelled, told, missed>>
  BY DEF create_multipart, poolVars, storeVars, requestVars, sweepVars, toldVars
<1>7. TypeOK'
  BY <1>1, <1>2, <1>3, <1>4, <1>5, <1>6 DEF TypeOK, Moved
<1>8. PoolInv'
  BY <1>1, <1>2, <1>3, <1>4, <1>5, <1>6 DEF PoolInv, PoolFree, Moved, InPool
<1>9. RowInv'
  BY <1>1, <1>2, <1>3, <1>4, <1>5, <1>6 DEF RowInv, RowFree, RequestInv, RowsInv, Moved, InRow,
     Open, Opening
<1>10. RequestInv'
  BY <1>1, <1>2, <1>3, <1>4, <1>5, <1>6 DEF RequestInv, RowInv, RowFree, RowsInv, Moved, InRow,
     Open, Opening
<1>11. ChunkInv'
  BY <1>1, <1>2, <1>3, <1>4, <1>5, <1>6 DEF ChunkInv, Moved
<1>12. FilesInv'
  BY <1>1, <1>2, <1>3, <1>4, <1>5, <1>6 DEF FilesInv, FileFree, RequestInv, RowInv, Moved,
     InPool, InRow, Open, Opening
<1>13. StoreInv'
  BY <1>1, <1>2, <1>3, <1>4, <1>5, <1>6 DEF StoreInv, RowInv, RequestInv, RowsInv, Moved,
     InRow, AfterStitch, Open
<1>14. RoomInv'
  BY <1>1, <1>2, <1>3, <1>4, <1>5, <1>6, ReservedSame, ReservedType DEF RoomInv, PoolInv,
     PoolFree, Moved, InPool, Opening, TypeOK
<1>15. PartsInOrder'
  BY <1>1, <1>2, <1>3, <1>4, <1>5, <1>6 DEF PartsInOrder, ChunkInv, RequestInv, Moved
<1>16. RowsInv' /\ ObjectKept' /\ UsedExact' /\ ToldLanded' /\ CancelledNeverLands' /\ RoomStep
  BY <1>6, Untouched
<1> QED BY <1>7, <1>8, <1>9, <1>10, <1>11, <1>12, <1>13, <1>14, <1>15, <1>16

LEMMA PatchKeeps ==
    ASSUME DriveInv, NEW p \in Requests, NEW u \in Uploads, NEW n \in 1 .. Chunks, patch(p, u, n)
    PROVE  DriveInv' /\ RoomStep
<1> USE UploadsAssumption DEF DriveInv
<1>1. Open(u)
  BY DEF patch, AtOffset
<1>2. row[u].file \in Files
  BY <1>1 DEF RowsInv, Open
<1>3. RowFree(u)
  BY DEF patch, AtOffset
<1>4. n = Len(row[u].parts) + 1
  BY DEF patch, AtOffset
<1>5. pc[p] = "idle" /\ Moved(p, "part", u, row[u].file, n)
  BY <1>1, <1>2, <1>3, <1>4, StartMoves DEF patch, AtOffset, Steps, InPool, InRow, TypeOK, Upload
<1>6. UNCHANGED <<live, landed, row, multipart, objects, quota, used, drift, doubt, dead,
                  stale, aborted, orphans, found, cancelled, told, missed>>
  BY DEF patch, AtOffset, poolVars, storeVars, requestVars, sweepVars, toldVars
<1>7. /\ pc'[p] = "part" /\ up'[p] = u
       /\ \A q \in Requests : q # p => pc'[q] = pc[q] /\ up'[q] = up[q] /\ file'[q] = file[q]
  BY <1>5 DEF Moved
<1>8. TypeOK'
  BY <1>1, <1>2, <1>3, <1>4, <1>5, <1>6 DEF TypeOK, Moved
<1>9. PoolInv'
  BY <1>1, <1>2, <1>3, <1>4, <1>5, <1>6 DEF PoolInv, PoolFree, Moved, InPool
<1>10. RowInv'
  <2>1. \A q \in Requests : q # p => ~ (pc'[q] \in InRow /\ up'[q] = u)
    BY <1>3, <1>7 DEF RowFree
  <2>2. u \notin doubt
    BY <1>3 DEF RowFree
  <2> QED BY <1>1, <1>6, <1>7, <2>1, <2>2 DEF RowInv, Open
<1>11. RequestInv'
  BY <1>1, <1>2, <1>3, <1>4, <1>5, <1>6 DEF RequestInv, RowInv, RowFree, RowsInv, Moved, InRow,
     Open, Opening
<1>12. ChunkInv'
  BY <1>1, <1>2, <1>3, <1>4, <1>5, <1>6 DEF ChunkInv, Moved
<1>13. FilesInv'
  <2>1. \A q \in Requests : pc'[q] \in Opening => pc[q] \in Opening /\ file'[q] = file[q]
    BY <1>7 DEF Opening
  <2>2. \A q \in Requests : pc'[q] \in InPool => pc[q] \in InPool /\ file'[q] = file[q]
    BY <1>7 DEF InPool
  <2> QED BY <1>6, <2>1, <2>2 DEF FilesInv, Open
<1>14. StoreInv'
  <2>1. \A q \in Requests : pc'[q] \in AfterStitch => pc'[q] = pc[q] /\ up'[q] = up[q]
    BY <1>7 DEF AfterStitch
  <2> QED BY <1>6, <2>1 DEF StoreInv, AfterStitch
<1>15. RoomInv'
  BY <1>1, <1>2, <1>3, <1>4, <1>5, <1>6, ReservedSame, ReservedType DEF RoomInv, PoolInv,
     PoolFree, Moved, InPool, Opening, TypeOK
<1>16. PartsInOrder'
  BY <1>1, <1>2, <1>3, <1>4, <1>5, <1>6 DEF PartsInOrder, ChunkInv, RequestInv, Moved
<1>17. RowsInv' /\ ObjectKept' /\ UsedExact' /\ ToldLanded' /\ CancelledNeverLands' /\ RoomStep
  BY <1>6, Untouched
<1> QED BY <1>8, <1>9, <1>10, <1>11, <1>12, <1>13, <1>14, <1>15, <1>16, <1>17

LEMMA PatchForbiddenKeeps ==
    ASSUME DriveInv, NEW p \in Requests, NEW u \in Uploads, patch_forbidden(p, u)
    PROVE  DriveInv' /\ RoomStep
<1> USE UploadsAssumption DEF DriveInv
<1>1. Open(u)
  BY DEF patch_forbidden
<1>2. row[u].file \in Files
  BY <1>1 DEF RowsInv, Open
<1>3. pc[p] = "idle" /\ Moved(p, "refused", u, row[u].file, 0)
  BY <1>1, <1>2, StartMoves DEF patch_forbidden, Steps, InPool, InRow, TypeOK, Upload
<1>4. UNCHANGED <<live, landed, row, multipart, objects, quota, used, drift, doubt, dead,
                  stale, aborted, orphans, found, cancelled, told, missed>>
  BY DEF patch_forbidden, poolVars, storeVars, requestVars, sweepVars, toldVars
<1>5. TypeOK'
  BY <1>1, <1>2, <1>3, <1>4 DEF TypeOK, Moved
<1>6. PoolInv'
  BY <1>1, <1>2, <1>3, <1>4 DEF PoolInv, PoolFree, Moved, InPool
<1>7. RowInv'
  BY <1>1, <1>2, <1>3, <1>4 DEF RowInv, RowFree, RequestInv, RowsInv, Moved, InRow, Open, Opening
<1>8. RequestInv'
  BY <1>1, <1>2, <1>3, <1>4 DEF RequestInv, RowInv, RowFree, RowsInv, Moved, InRow, Open, Opening
<1>9. ChunkInv'
  <2>1. \A q \in Requests :
            pc'[q] = "refused" \/ (pc'[q] = pc[q] /\ up'[q] = up[q] /\ chunk'[q] = chunk[q])
    BY <1>3 DEF Moved
  <2> QED BY <1>4, <2>1 DEF ChunkInv
<1>10. FilesInv'
  BY <1>1, <1>2, <1>3, <1>4 DEF FilesInv, FileFree, RequestInv, RowInv, Moved, InPool, InRow,
     Open, Opening
<1>11. StoreInv'
  BY <1>1, <1>2, <1>3, <1>4 DEF StoreInv, RowInv, RequestInv, RowsInv, Moved, InRow,
     AfterStitch, Open
<1>12. RoomInv'
  BY <1>1, <1>2, <1>3, <1>4, ReservedSame, ReservedType DEF RoomInv, PoolInv, PoolFree, Moved,
     InPool, Opening, TypeOK
<1>13. PartsInOrder'
  BY <1>1, <1>2, <1>3, <1>4 DEF PartsInOrder, ChunkInv, RequestInv, Moved
<1>14. RowsInv' /\ ObjectKept' /\ UsedExact' /\ ToldLanded' /\ CancelledNeverLands' /\ RoomStep
  BY <1>4, Untouched
<1> QED BY <1>5, <1>6, <1>7, <1>8, <1>9, <1>10, <1>11, <1>12, <1>13, <1>14

LEMMA AppendEqualPartsKeeps ==
    ASSUME DriveInv, NEW p \in Requests, append_equal_parts(p)
    PROVE  DriveInv' /\ RoomStep
<1> USE UploadsAssumption DEF DriveInv
<1>1. pc[p] = "part"
  BY DEF append_equal_parts
<1>2. Moved(p, "stored", up[p], file[p], chunk[p])
  BY BecomeMoves DEF append_equal_parts, Steps, InPool, InRow
<1>3. UNCHANGED <<live, landed, row, multipart, objects, quota, used, drift, doubt, dead,
                  stale, aborted, orphans, found, cancelled, told, missed>>
  BY DEF append_equal_parts, poolVars, storeVars, requestVars, sweepVars, toldVars
<1>4. TypeOK'
  BY <1>1, <1>2, <1>3 DEF TypeOK, Moved
<1>5. PoolInv'
  BY <1>1, <1>2, <1>3 DEF PoolInv, PoolFree, Moved, InPool
<1>6. RowInv'
  BY <1>1, <1>2, <1>3 DEF RowInv, RowFree, RequestInv, RowsInv, Moved, InRow, Open, Opening
<1>7. RequestInv'
  BY <1>1, <1>2, <1>3 DEF RequestInv, RowInv, RowFree, RowsInv, Moved, InRow, Open, Opening
<1>8. ChunkInv'
  BY <1>1, <1>2, <1>3 DEF ChunkInv, Moved
<1>9. FilesInv'
  BY <1>1, <1>2, <1>3 DEF FilesInv, FileFree, RequestInv, RowInv, Moved, InPool, InRow, Open,
     Opening
<1>10. StoreInv'
  BY <1>1, <1>2, <1>3 DEF StoreInv, RowInv, RequestInv, RowsInv, Moved, InRow, AfterStitch, Open
<1>11. RoomInv'
  BY <1>1, <1>2, <1>3, ReservedSame, ReservedType DEF RoomInv, PoolInv, PoolFree, Moved,
     InPool, Opening, TypeOK
<1>12. PartsInOrder'
  BY <1>1, <1>2, <1>3 DEF PartsInOrder, ChunkInv, RequestInv, Moved
<1>13. RowsInv' /\ ObjectKept' /\ UsedExact' /\ ToldLanded' /\ CancelledNeverLands' /\ RoomStep
  BY <1>3, Untouched
<1> QED BY <1>4, <1>5, <1>6, <1>7, <1>8, <1>9, <1>10, <1>11, <1>12, <1>13

LEMMA FinalizeCheckKeeps ==
    ASSUME DriveInv, NEW p \in Requests, finalize_check(p)
    PROVE  DriveInv' /\ RoomStep
<1> USE UploadsAssumption DEF DriveInv
<1>1. pc[p] = "stored"
  BY DEF finalize_check
<1>2. chunk[p] = Chunks
  BY <1>1 DEF finalize_check, Last, ChunkInv
<1>3. FileFree(file[p])
  BY DEF finalize_check
<1>4. row[up[p]].version <=> file[p] \in live
  BY DEF finalize_check
<1>5. PoolFree
  BY DEF finalize_check
<1>6. Moved(p, "checked", up[p], file[p], chunk[p])
  BY BecomeMoves DEF finalize_check, Steps, InPool, InRow
<1>7. UNCHANGED <<live, landed, row, multipart, objects, quota, used, drift, doubt, dead,
                  stale, aborted, orphans, found, cancelled, told, missed>>
  BY DEF finalize_check, poolVars, storeVars, requestVars, sweepVars, toldVars
<1>8. TypeOK'
  BY <1>1, <1>2, <1>3, <1>4, <1>5, <1>6, <1>7 DEF TypeOK, Moved
<1>9. PoolInv'
  BY <1>1, <1>2, <1>3, <1>4, <1>5, <1>6, <1>7 DEF PoolInv, PoolFree, Moved, InPool
<1>10. RowInv'
  BY <1>1, <1>2, <1>3, <1>4, <1>5, <1>6, <1>7 DEF RowInv, RowFree, RequestInv, RowsInv, Moved,
     InRow, Open, Opening
<1>11. RequestInv'
  BY <1>1, <1>2, <1>3, <1>4, <1>5, <1>6, <1>7 DEF RequestInv, RowInv, RowFree, RowsInv, Moved,
     InRow, Open, Opening
<1>12. ChunkInv'
  BY <1>1, <1>2, <1>3, <1>4, <1>5, <1>6, <1>7 DEF ChunkInv, Moved
<1>13. FilesInv'
  BY <1>1, <1>2, <1>3, <1>4, <1>5, <1>6, <1>7 DEF FilesInv, FileFree, RequestInv, RowInv,
     Moved, InPool, InRow, Open, Opening
<1>14. StoreInv'
  BY <1>1, <1>2, <1>3, <1>4, <1>5, <1>6, <1>7 DEF StoreInv, RowInv, RequestInv, RowsInv, Moved,
     InRow, AfterStitch, Open
<1>15. RoomInv'
  BY <1>1, <1>2, <1>3, <1>4, <1>5, <1>6, <1>7, ReservedSame, ReservedType DEF RoomInv, PoolInv,
     PoolFree, Moved, InPool, Opening, TypeOK
<1>16. PartsInOrder'
  BY <1>1, <1>2, <1>3, <1>4, <1>5, <1>6, <1>7 DEF PartsInOrder, ChunkInv, RequestInv, Moved
<1>17. RowsInv' /\ ObjectKept' /\ UsedExact' /\ ToldLanded' /\ CancelledNeverLands' /\ RoomStep
  BY <1>7, Untouched
<1> QED BY <1>8, <1>9, <1>10, <1>11, <1>12, <1>13, <1>14, <1>15, <1>16, <1>17

LEMMA FinalizeRefusalKeeps ==
    ASSUME DriveInv, NEW p \in Requests, finalize_refusal(p)
    PROVE  DriveInv' /\ RoomStep
<1> USE UploadsAssumption DEF DriveInv
<1>1. pc[p] = "stored"
  BY DEF finalize_refusal
<1>2. Moved(p, "refused", up[p], file[p], chunk[p])
  BY BecomeMoves DEF finalize_refusal, Steps, InPool, InRow
<1>3. UNCHANGED <<live, landed, row, multipart, objects, quota, used, drift, doubt, dead,
                  stale, aborted, orphans, found, cancelled, told, missed>>
  BY DEF finalize_refusal, poolVars, storeVars, requestVars, sweepVars, toldVars
<1>4. TypeOK'
  BY <1>1, <1>2, <1>3 DEF TypeOK, Moved
<1>5. PoolInv'
  BY <1>1, <1>2, <1>3 DEF PoolInv, PoolFree, Moved, InPool
<1>6. RowInv'
  BY <1>1, <1>2, <1>3 DEF RowInv, RowFree, RequestInv, RowsInv, Moved, InRow, Open, Opening
<1>7. RequestInv'
  BY <1>1, <1>2, <1>3 DEF RequestInv, RowInv, RowFree, RowsInv, Moved, InRow, Open, Opening
<1>8. ChunkInv'
  BY <1>1, <1>2, <1>3 DEF ChunkInv, Moved
<1>9. FilesInv'
  BY <1>1, <1>2, <1>3 DEF FilesInv, FileFree, RequestInv, RowInv, Moved, InPool, InRow, Open,
     Opening
<1>10. StoreInv'
  BY <1>1, <1>2, <1>3 DEF StoreInv, RowInv, RequestInv, RowsInv, Moved, InRow, AfterStitch, Open
<1>11. RoomInv'
  BY <1>1, <1>2, <1>3, ReservedSame, ReservedType DEF RoomInv, PoolInv, PoolFree, Moved,
     InPool, Opening, TypeOK
<1>12. PartsInOrder'
  BY <1>1, <1>2, <1>3 DEF PartsInOrder, ChunkInv, RequestInv, Moved
<1>13. RowsInv' /\ ObjectKept' /\ UsedExact' /\ ToldLanded' /\ CancelledNeverLands' /\ RoomStep
  BY <1>3, Untouched
<1> QED BY <1>4, <1>5, <1>6, <1>7, <1>8, <1>9, <1>10, <1>11, <1>12, <1>13

LEMMA StoreFailedKeeps ==
    ASSUME DriveInv, NEW p \in Requests, store_failed(p)
    PROVE  DriveInv' /\ RoomStep
<1> USE UploadsAssumption DEF DriveInv
<1>1. pc[p] = "stitched"
  BY DEF store_failed
<1>2. Moved(p, "failed", up[p], file[p], chunk[p])
  BY BecomeMoves DEF store_failed, Steps, InPool, InRow
<1>3. UNCHANGED <<live, landed, row, multipart, objects, quota, used, drift, doubt, dead,
                  stale, aborted, orphans, found, cancelled, told, missed>>
  BY DEF store_failed, poolVars, storeVars, requestVars, sweepVars, toldVars
<1>4. TypeOK'
  BY <1>1, <1>2, <1>3 DEF TypeOK, Moved
<1>5. PoolInv'
  BY <1>1, <1>2, <1>3 DEF PoolInv, PoolFree, Moved, InPool
<1>6. RowInv'
  BY <1>1, <1>2, <1>3 DEF RowInv, RowFree, RequestInv, RowsInv, Moved, InRow, Open, Opening
<1>7. RequestInv'
  BY <1>1, <1>2, <1>3 DEF RequestInv, RowInv, RowFree, RowsInv, Moved, InRow, Open, Opening
<1>8. ChunkInv'
  BY <1>1, <1>2, <1>3 DEF ChunkInv, Moved
<1>9. FilesInv'
  BY <1>1, <1>2, <1>3 DEF FilesInv, FileFree, RequestInv, RowInv, Moved, InPool, InRow, Open,
     Opening
<1>10. StoreInv'
  BY <1>1, <1>2, <1>3 DEF StoreInv, RowInv, RequestInv, RowsInv, Moved, InRow, AfterStitch, Open
<1>11. RoomInv'
  BY <1>1, <1>2, <1>3, ReservedSame, ReservedType DEF RoomInv, PoolInv, PoolFree, Moved,
     InPool, Opening, TypeOK
<1>12. PartsInOrder'
  BY <1>1, <1>2, <1>3 DEF PartsInOrder, ChunkInv, RequestInv, Moved
<1>13. RowsInv' /\ ObjectKept' /\ UsedExact' /\ ToldLanded' /\ CancelledNeverLands' /\ RoomStep
  BY <1>3, Untouched
<1> QED BY <1>4, <1>5, <1>6, <1>7, <1>8, <1>9, <1>10, <1>11, <1>12, <1>13

LEMMA DropLandedKeeps ==
    ASSUME DriveInv, NEW p \in Requests, drop_landed(p)
    PROVE  DriveInv' /\ RoomStep
<1> USE UploadsAssumption DEF DriveInv
<1>1. pc[p] = "failed"
  BY DEF drop_landed
<1>2. objects' \in {objects, objects \ {up[p]}}
  BY DEF drop_landed
<1>3. Moved(p, "dropping", up[p], file[p], chunk[p])
  BY BecomeMoves DEF drop_landed, Steps, InPool, InRow
<1>4. UNCHANGED <<live, landed, row, multipart, quota, used, drift, doubt, dead, stale,
                  aborted, orphans, found, cancelled, told, missed>>
  BY DEF drop_landed, poolVars, storeVars, requestVars, sweepVars, toldVars
<1>5. TypeOK'
  BY <1>1, <1>2, <1>3, <1>4 DEF TypeOK, Moved
<1>6. PoolInv'
  BY <1>1, <1>2, <1>3, <1>4 DEF PoolInv, PoolFree, Moved, InPool
<1>7. RowInv'
  BY <1>1, <1>2, <1>3, <1>4 DEF RowInv, RowFree, RequestInv, RowsInv, Moved, InRow, Open, Opening
<1>8. RequestInv'
  BY <1>1, <1>2, <1>3, <1>4 DEF RequestInv, RowInv, RowFree, RowsInv, Moved, InRow, Open, Opening
<1>9. ChunkInv'
  BY <1>1, <1>2, <1>3, <1>4 DEF ChunkInv, Moved
<1>10. RowsInv'
  BY <1>1, <1>2, <1>3, <1>4 DEF RowsInv, RequestInv, RowInv, Moved, InRow, Open, Opening
<1>11. FilesInv'
  BY <1>1, <1>2, <1>3, <1>4 DEF FilesInv, FileFree, RequestInv, RowInv, Moved, InPool, InRow,
     Open, Opening
<1>12. StoreInv'
  BY <1>1, <1>2, <1>3, <1>4 DEF StoreInv, RowInv, RequestInv, RowsInv, Moved, InRow,
     AfterStitch, Open
<1>13. RoomInv'
  BY <1>1, <1>2, <1>3, <1>4, ReservedSame, ReservedType DEF RoomInv, PoolInv, PoolFree, Moved,
     InPool, Opening, TypeOK
<1>14. ObjectKept'
  BY <1>1, <1>2, <1>3, <1>4 DEF ObjectKept, Landed, StoreInv
<1>15. PartsInOrder'
  BY <1>1, <1>2, <1>3, <1>4 DEF PartsInOrder, ChunkInv, RequestInv, Moved
<1>16. UsedExact' /\ ToldLanded' /\ CancelledNeverLands' /\ RoomStep
  BY <1>4, Untouched
<1> QED BY <1>5, <1>6, <1>7, <1>8, <1>9, <1>10, <1>11, <1>12, <1>13, <1>14, <1>15, <1>16

LEMMA DiscardKeeps ==
    ASSUME DriveInv, NEW p \in Requests, discard(p)
    PROVE  DriveInv' /\ RoomStep
<1> USE UploadsAssumption DEF DriveInv
<1>1. pc[p] = "refused"
  BY DEF discard
<1>2. multipart' \subseteq multipart
  BY DEF discard
<1>3. Moved(p, "dropping", up[p], file[p], chunk[p])
  BY BecomeMoves DEF discard, Steps, InPool, InRow
<1>4. UNCHANGED <<live, landed, row, objects, quota, used, drift, doubt, dead, stale, aborted,
                  orphans, found, cancelled, told, missed>>
  BY DEF discard, poolVars, storeVars, requestVars, sweepVars, toldVars
<1>5. TypeOK'
  BY <1>1, <1>2, <1>3, <1>4 DEF TypeOK, Moved
<1>6. PoolInv'
  BY <1>1, <1>2, <1>3, <1>4 DEF PoolInv, PoolFree, Moved, InPool
<1>7. RowInv'
  BY <1>1, <1>2, <1>3, <1>4 DEF RowInv, RowFree, RequestInv, RowsInv, Moved, InRow, Open, Opening
<1>8. RequestInv'
  BY <1>1, <1>2, <1>3, <1>4 DEF RequestInv, RowInv, RowFree, RowsInv, Moved, InRow, Open, Opening
<1>9. ChunkInv'
  BY <1>1, <1>2, <1>3, <1>4 DEF ChunkInv, Moved
<1>10. FilesInv'
  BY <1>1, <1>2, <1>3, <1>4 DEF FilesInv, FileFree, RequestInv, RowInv, Moved, InPool, InRow,
     Open, Opening
<1>11. StoreInv'
  BY <1>1, <1>2, <1>3, <1>4 DEF StoreInv, RowInv, RequestInv, RowsInv, Moved, InRow,
     AfterStitch, Open
<1>12. RoomInv'
  BY <1>1, <1>2, <1>3, <1>4, ReservedSame, ReservedType DEF RoomInv, PoolInv, PoolFree, Moved,
     InPool, Opening, TypeOK
<1>13. PartsInOrder'
  BY <1>1, <1>2, <1>3, <1>4 DEF PartsInOrder, ChunkInv, RequestInv, Moved
<1>14. RowsInv' /\ ObjectKept' /\ UsedExact' /\ ToldLanded' /\ CancelledNeverLands' /\ RoomStep
  BY <1>4, Untouched
<1> QED BY <1>5, <1>6, <1>7, <1>8, <1>9, <1>10, <1>11, <1>12, <1>13, <1>14

LEMMA DeleteKeeps ==
    ASSUME DriveInv, NEW p \in Requests, NEW u \in Uploads, delete(p, u)
    PROVE  DriveInv' /\ RoomStep
<1> USE UploadsAssumption DEF DriveInv
<1>1. Open(u)
  BY DEF delete
<1>2. row[u].file \in Files
  BY <1>1 DEF RowsInv, Open
<1>3. RowFree(u)
  BY DEF delete
<1>4. pc[p] = "idle" /\ Moved(p, "cancel", u, row[u].file, 0)
  BY <1>1, <1>2, <1>3, StartMoves DEF delete, Steps, InPool, InRow, TypeOK, Upload
<1>5. UNCHANGED <<live, landed, row, multipart, objects, quota, used, drift, doubt, dead,
                  stale, aborted, orphans, found, cancelled, told, missed>>
  BY DEF delete, poolVars, storeVars, requestVars, sweepVars, toldVars
<1>6. TypeOK'
  BY <1>1, <1>2, <1>3, <1>4, <1>5 DEF TypeOK, Moved
<1>7. PoolInv'
  BY <1>1, <1>2, <1>3, <1>4, <1>5 DEF PoolInv, PoolFree, Moved, InPool
<1>8. RowInv'
  BY <1>1, <1>2, <1>3, <1>4, <1>5 DEF RowInv, RowFree, RequestInv, RowsInv, Moved, InRow, Open,
     Opening
<1>9. RequestInv'
  BY <1>1, <1>2, <1>3, <1>4, <1>5 DEF RequestInv, RowInv, RowFree, RowsInv, Moved, InRow, Open,
     Opening
<1>10. ChunkInv'
  BY <1>1, <1>2, <1>3, <1>4, <1>5 DEF ChunkInv, Moved
<1>11. FilesInv'
  BY <1>1, <1>2, <1>3, <1>4, <1>5 DEF FilesInv, FileFree, RequestInv, RowInv, Moved, InPool,
     InRow, Open, Opening
<1>12. StoreInv'
  BY <1>1, <1>2, <1>3, <1>4, <1>5 DEF StoreInv, RowInv, RequestInv, RowsInv, Moved, InRow,
     AfterStitch, Open
<1>13. RoomInv'
  BY <1>1, <1>2, <1>3, <1>4, <1>5, ReservedSame, ReservedType DEF RoomInv, PoolInv, PoolFree,
     Moved, InPool, Opening, TypeOK
<1>14. PartsInOrder'
  BY <1>1, <1>2, <1>3, <1>4, <1>5 DEF PartsInOrder, ChunkInv, RequestInv, Moved
<1>15. RowsInv' /\ ObjectKept' /\ UsedExact' /\ ToldLanded' /\ CancelledNeverLands' /\ RoomStep
  BY <1>5, Untouched
<1> QED BY <1>6, <1>7, <1>8, <1>9, <1>10, <1>11, <1>12, <1>13, <1>14, <1>15

LEMMA DeletePartsKeeps ==
    ASSUME DriveInv, NEW p \in Requests, delete_parts(p)
    PROVE  DriveInv' /\ RoomStep
<1> USE UploadsAssumption DEF DriveInv
<1>1. pc[p] = "cancel"
  BY DEF delete_parts, abort_multipart
<1>2. multipart' \subseteq multipart
  BY DEF delete_parts, abort_multipart
<1>3. Moved(p, "aborted", up[p], file[p], chunk[p])
  BY BecomeMoves DEF delete_parts, abort_multipart, Steps, InPool, InRow
<1>4. UNCHANGED <<live, landed, row, objects, quota, used, drift, doubt, dead, stale, aborted,
                  orphans, found, cancelled, told, missed>>
  BY DEF delete_parts, abort_multipart, poolVars, storeVars, requestVars, sweepVars, toldVars
<1>5. TypeOK'
  BY <1>1, <1>2, <1>3, <1>4 DEF TypeOK, Moved
<1>6. PoolInv'
  BY <1>1, <1>2, <1>3, <1>4 DEF PoolInv, PoolFree, Moved, InPool
<1>7. RowInv'
  BY <1>1, <1>2, <1>3, <1>4 DEF RowInv, RowFree, RequestInv, RowsInv, Moved, InRow, Open, Opening
<1>8. RequestInv'
  BY <1>1, <1>2, <1>3, <1>4 DEF RequestInv, RowInv, RowFree, RowsInv, Moved, InRow, Open, Opening
<1>9. ChunkInv'
  BY <1>1, <1>2, <1>3, <1>4 DEF ChunkInv, Moved
<1>10. FilesInv'
  BY <1>1, <1>2, <1>3, <1>4 DEF FilesInv, FileFree, RequestInv, RowInv, Moved, InPool, InRow,
     Open, Opening
<1>11. StoreInv'
  BY <1>1, <1>2, <1>3, <1>4 DEF StoreInv, RowInv, RequestInv, RowsInv, Moved, InRow,
     AfterStitch, Open
<1>12. RoomInv'
  BY <1>1, <1>2, <1>3, <1>4, ReservedSame, ReservedType DEF RoomInv, PoolInv, PoolFree, Moved,
     InPool, Opening, TypeOK
<1>13. PartsInOrder'
  BY <1>1, <1>2, <1>3, <1>4 DEF PartsInOrder, ChunkInv, RequestInv, Moved
<1>14. RowsInv' /\ ObjectKept' /\ UsedExact' /\ ToldLanded' /\ CancelledNeverLands' /\ RoomStep
  BY <1>4, Untouched
<1> QED BY <1>5, <1>6, <1>7, <1>8, <1>9, <1>10, <1>11, <1>12, <1>13, <1>14

LEMMA GrowStaleKeeps ==
    ASSUME DriveInv, NEW u \in Uploads, grow_stale(u)
    PROVE  DriveInv' /\ RoomStep
<1> USE UploadsAssumption DEF DriveInv
<1>1. Open(u)
  BY DEF grow_stale
<1>2. row' = [row EXCEPT ![u].idle = TRUE]
  BY DEF grow_stale
<1>3. UNCHANGED <<live, landed, multipart, objects, quota, used, drift, pc, up, file, chunk,
                  doubt, dead, stale, aborted, orphans, found, cancelled, told, missed>>
  BY DEF grow_stale, poolVars, storeVars, requestVars, sweepVars, toldVars
<1>4. /\ row' \in [Uploads -> Upload]
      /\ \A v \in Uploads : /\ row'[v].state = row[v].state /\ row'[v].file = row[v].file
                             /\ row'[v].version = row[v].version /\ row'[v].parts = row[v].parts
<2>1. row[u] \in Upload /\ row'[u] = [row[u] EXCEPT !.idle = TRUE]
  BY <1>1, <1>2, <1>3 DEF TypeOK
  <2>2. row'[u] \in Upload
    BY <2>1 DEF Upload
  <2> QED BY <1>1, <1>2, <1>3, <2>1, <2>2 DEF TypeOK, Upload
<1>5. TypeOK'
  BY <1>3, <1>4 DEF TypeOK
<1>6. RowInv'
  BY <1>3, <1>4 DEF RowInv, Open
<1>7. RequestInv'
  BY <1>3, <1>4 DEF RequestInv, Opening
<1>8. ChunkInv'
  BY <1>3, <1>4 DEF ChunkInv, RequestInv
<1>9. RowsInv'
  BY <1>3, <1>4 DEF RowsInv, Open
<1>10. FilesInv'
  BY <1>3, <1>4 DEF FilesInv, TypeOK, Open
<1>11. RoomInv'
  BY <1>3, <1>4, ReservedSame DEF RoomInv
<1>12. ToldLanded'
  BY <1>3, <1>4 DEF ToldLanded, TypeOK
<1>13. PartsInOrder'
  BY <1>3, <1>4 DEF PartsInOrder
<1>14. RoomStep
  BY <1>3, <1>4, ReservedSame, ReservedType DEF RoomStep, TypeOK
<1>15. PoolInv' /\ StoreInv' /\ ObjectKept' /\ UsedExact' /\ CancelledNeverLands'
  BY <1>3, Untouched
<1> QED BY <1>5, <1>6, <1>7, <1>8, <1>9, <1>10, <1>11, <1>12, <1>13, <1>14, <1>15

LEMMA UploadsSweepListKeeps ==
    ASSUME DriveInv, uploads_sweep_list
    PROVE  DriveInv' /\ RoomStep
<1> USE UploadsAssumption DEF DriveInv
<1>1. stale' \subseteq Uploads
  BY DEF uploads_sweep_list
<1>2. UNCHANGED <<live, landed, row, multipart, objects, quota, used, drift, pc, up, file,
                  chunk, doubt, dead, aborted, orphans, found, cancelled, told, missed>>
  BY DEF uploads_sweep_list, poolVars, storeVars, requestVars, sweepVars, toldVars
<1>3. TypeOK'
  BY <1>1, <1>2 DEF TypeOK
<1>4. PoolInv' /\ RowInv' /\ RequestInv' /\ ChunkInv' /\ RowsInv' /\ FilesInv' /\
      StoreInv' /\ RoomInv' /\ ObjectKept' /\ UsedExact' /\ ToldLanded' /\
      CancelledNeverLands' /\ PartsInOrder' /\ RoomStep
  BY <1>2, Untouched
<1> QED BY <1>3, <1>4

LEMMA UploadsSweepAbortKeeps ==
    ASSUME DriveInv, NEW u \in Uploads, uploads_sweep_abort(u)
    PROVE  DriveInv' /\ RoomStep
<1> USE UploadsAssumption DEF DriveInv
<1>1. stale' \subseteq stale
  BY DEF uploads_sweep_abort, abort_multipart, TypeOK
<1>2. multipart' \subseteq multipart
  BY DEF uploads_sweep_abort, abort_multipart, TypeOK
<1>3. aborted' \subseteq Uploads
  BY DEF uploads_sweep_abort, abort_multipart, TypeOK
<1>4. UNCHANGED <<live, landed, row, objects, quota, used, drift, pc, up, file, chunk, doubt,
                  dead, orphans, found, cancelled, told, missed>>
  BY DEF uploads_sweep_abort, abort_multipart, TypeOK, poolVars, storeVars, requestVars,
     sweepVars, toldVars
<1>5. TypeOK'
  BY <1>1, <1>2, <1>3, <1>4 DEF TypeOK
<1>6. StoreInv'
  BY <1>1, <1>2, <1>3, <1>4 DEF StoreInv, RowInv, RequestInv, RowsInv, InRow, AfterStitch, Open
<1>7. PoolInv' /\ RowInv' /\ RequestInv' /\ ChunkInv' /\ RowsInv' /\ FilesInv' /\ RoomInv' /\
      ObjectKept' /\ UsedExact' /\ ToldLanded' /\ CancelledNeverLands' /\ PartsInOrder' /\
      RoomStep
  BY <1>4, Untouched
<1> QED BY <1>5, <1>6, <1>7

LEMMA OrphanSweepListKeeps ==
    ASSUME DriveInv, orphan_sweep_list
    PROVE  DriveInv' /\ RoomStep
<1> USE UploadsAssumption DEF DriveInv
<1>1. \A u \in orphans' : u \in objects /\ landed[u] = NoFile /\ ~ Open(u)
  BY DEF orphan_sweep_list, Referenced
<1>2. UNCHANGED <<live, landed, row, multipart, objects, quota, used, drift, pc, up, file,
                  chunk, doubt, dead, stale, aborted, found, cancelled, told, missed>>
  BY DEF orphan_sweep_list, poolVars, storeVars, requestVars, sweepVars, toldVars
<1>3. TypeOK'
  BY <1>1, <1>2 DEF TypeOK
<1>4. RowsInv'
  BY <1>1, <1>2 DEF RowsInv, Open, TypeOK, Upload
<1>5. PoolInv' /\ RowInv' /\ RequestInv' /\ ChunkInv' /\ FilesInv' /\ StoreInv' /\
      RoomInv' /\ ObjectKept' /\ UsedExact' /\ ToldLanded' /\ CancelledNeverLands' /\
      PartsInOrder' /\ RoomStep
  BY <1>2, Untouched
<1> QED BY <1>3, <1>4, <1>5

LEMMA OrphanSweepDeleteKeeps ==
    ASSUME DriveInv, NEW u \in Uploads, orphan_sweep_delete(u)
    PROVE  DriveInv' /\ RoomStep
<1> USE UploadsAssumption DEF DriveInv
<1>1. u \in orphans
  BY DEF orphan_sweep_delete
<1>2. orphans' \subseteq orphans
  BY DEF orphan_sweep_delete
<1>3. objects' \in {objects, objects \ {u}}
  BY DEF orphan_sweep_delete
<1>4. row[u].state = "gone" /\ landed[u] = NoFile
  BY <1>1, <1>2, <1>3 DEF RowsInv
<1>5. UNCHANGED <<live, landed, row, multipart, quota, used, drift, pc, up, file, chunk, doubt,
                  dead, stale, aborted, found, cancelled, told, missed>>
  BY DEF orphan_sweep_delete, poolVars, storeVars, requestVars, sweepVars, toldVars
<1>6. TypeOK'
  BY <1>1, <1>2, <1>3, <1>4, <1>5 DEF TypeOK
<1>7. RowsInv'
  BY <1>1, <1>2, <1>3, <1>4, <1>5 DEF RowsInv, RequestInv, RowInv, InRow, Open, Opening
<1>8. StoreInv'
  BY <1>1, <1>2, <1>3, <1>4, <1>5 DEF StoreInv, RowInv, RequestInv, RowsInv, InRow,
     AfterStitch, Open
<1>9. ObjectKept'
  BY <1>1, <1>2, <1>3, <1>4, <1>5 DEF ObjectKept, Landed, StoreInv
<1>10. PoolInv' /\ RowInv' /\ RequestInv' /\ ChunkInv' /\ FilesInv' /\ RoomInv' /\
       UsedExact' /\ ToldLanded' /\ CancelledNeverLands' /\ PartsInOrder' /\ RoomStep
  BY <1>5, Untouched
<1> QED BY <1>6, <1>7, <1>8, <1>9, <1>10

LEMMA ReconcileFindKeeps ==
    ASSUME DriveInv, reconcile_find
    PROVE  DriveInv' /\ RoomStep
<1> USE UploadsAssumption DEF DriveInv
<1>1. found' = {Cardinality(Landed)}
  BY DEF reconcile_find
<1>2. Cardinality(Landed) \in 0 .. Cardinality(Uploads)
  BY UploadsAssumption, ReservedNat, FS_CardinalityType DEF Landed
<1>3. UNCHANGED <<live, landed, row, multipart, objects, quota, used, drift, pc, up, file,
                  chunk, doubt, dead, stale, aborted, orphans, cancelled, told, missed>>
  BY DEF reconcile_find, poolVars, storeVars, requestVars, sweepVars, toldVars
<1>4. TypeOK'
  BY <1>1, <1>2, <1>3 DEF TypeOK
<1>5. PoolInv' /\ RowInv' /\ RequestInv' /\ ChunkInv' /\ RowsInv' /\ FilesInv' /\
      StoreInv' /\ RoomInv' /\ ObjectKept' /\ UsedExact' /\ ToldLanded' /\
      CancelledNeverLands' /\ PartsInOrder' /\ RoomStep
  BY <1>3, Untouched
<1> QED BY <1>4, <1>5

LEMMA ReconcileFixKeeps ==
    ASSUME DriveInv, reconcile_fix
    PROVE  DriveInv' /\ RoomStep
<1> USE UploadsAssumption DEF DriveInv
<1>1. PoolFree
  BY DEF reconcile_fix, account_quota_reconcile
<1>2. used' = Cardinality(Landed) /\ drift' = 0 /\ found' = {}
  BY DEF reconcile_fix, account_quota_reconcile
<1>3. Cardinality(Landed) \in 0 .. Cardinality(Uploads)
  BY UploadsAssumption, ReservedNat, FS_CardinalityType DEF Landed
<1>4. Cardinality(Uploads) \in Nat
  BY FS_CardinalityType
<1>5. UNCHANGED <<live, landed, row, multipart, objects, quota, pc, up, file, chunk, doubt,
                  dead, stale, aborted, orphans, cancelled, told, missed>>
  BY DEF reconcile_fix, account_quota_reconcile, poolVars, storeVars, requestVars, sweepVars,
     toldVars
<1>6. TypeOK'
  BY <1>1, <1>2, <1>3, <1>4, <1>5 DEF TypeOK
<1>7. RoomInv'
  BY <1>1, <1>2, <1>3, <1>4, <1>5, ReservedSame, ReservedType DEF RoomInv, PoolInv, PoolFree,
     InPool, Opening, TypeOK
<1>8. UsedExact'
  BY <1>1, <1>2, <1>3, <1>4, <1>5 DEF UsedExact, Landed
<1>9. RoomStep
  BY <1>1, <1>2, <1>3, <1>4, <1>5, ReservedSame, ReservedType DEF RoomStep, UsedExact, TypeOK
<1>10. PoolInv' /\ RowInv' /\ RequestInv' /\ ChunkInv' /\ RowsInv' /\ FilesInv' /\
       StoreInv' /\ ObjectKept' /\ ToldLanded' /\ CancelledNeverLands' /\ PartsInOrder'
  BY <1>5, Untouched
<1> QED BY <1>6, <1>7, <1>8, <1>9, <1>10

LEMMA SetQuotaKeeps ==
    ASSUME DriveInv, NEW q \in 0 .. MaxQuota, set_quota(q)
    PROVE  DriveInv' /\ RoomStep
<1> USE UploadsAssumption DEF DriveInv
<1>1. PoolFree
  BY DEF set_quota
<1>2. quota' = q
  BY DEF set_quota
<1>3. UNCHANGED <<live, landed, row, multipart, objects, used, drift, pc, up, file, chunk,
                  doubt, dead, stale, aborted, orphans, found, cancelled, told, missed>>
  BY DEF set_quota, poolVars, storeVars, requestVars, sweepVars, toldVars
<1>4. TypeOK'
  BY <1>1, <1>2, <1>3 DEF TypeOK
<1>5. RoomInv'
  BY <1>1, <1>2, <1>3, ReservedSame, ReservedType DEF RoomInv, PoolInv, PoolFree, InPool,
     Opening, TypeOK
<1>6. RoomStep
  BY <1>1, <1>2, <1>3, ReservedSame, ReservedType DEF RoomStep, TypeOK
<1>7. PoolInv' /\ RowInv' /\ RequestInv' /\ ChunkInv' /\ RowsInv' /\ FilesInv' /\
      StoreInv' /\ ObjectKept' /\ UsedExact' /\ ToldLanded' /\ CancelledNeverLands' /\
      PartsInOrder'
  BY <1>3, Untouched
<1> QED BY <1>4, <1>5, <1>6, <1>7

-----------------------------------------------------------------------------
(* Uploads.                                                                *)

LEMMA DriveStart ==
    Init => DriveInv
<1> SUFFICES ASSUME Init PROVE DriveInv
  OBVIOUS
<1> USE UploadsAssumption DEF Init
<1>1. NewRow \in Upload /\ NewRow.state = "new" /\ NewRow.parts = <<>>
  BY DEF NewRow, Upload
<1>2. \A u \in Uploads : row[u].state = "new" /\ row[u].parts = <<>> /\ landed[u] = NoFile
  BY <1>1
<1>3. \A p \in Requests : pc[p] = "idle" /\ up[p] = NoFile
  OBVIOUS
<1>4. Cardinality(Landed) = 0
  <2>1. Landed = {}
    BY <1>2 DEF Landed
  <2> QED BY <2>1, FS_EmptySet
<1>5. Cardinality(Uploads) \in Nat
  BY FS_CardinalityType
<1>6. TypeOK
  BY <1>1, <1>5 DEF TypeOK, Steps
<1>7. PoolInv /\ RowInv /\ RequestInv /\ ChunkInv
  BY <1>2, <1>3 DEF PoolInv, RowInv, RequestInv, ChunkInv, InPool, InRow, Opening
<1>8. RowsInv /\ FilesInv /\ StoreInv /\ RoomInv
  BY <1>2, <1>3 DEF RowsInv, FilesInv, StoreInv, RoomInv, Open, InPool, Opening, AfterStitch
<1>9. ObjectKept /\ ToldLanded /\ CancelledNeverLands
  BY <1>2 DEF ObjectKept, ToldLanded, CancelledNeverLands, Landed
<1>10. UsedExact
  BY <1>4 DEF UsedExact
<1>11. PartsInOrder
  BY <1>2, <1>3 DEF PartsInOrder
<1> QED BY <1>6, <1>7, <1>8, <1>9, <1>10, <1>11 DEF DriveInv

LEMMA RequestKeeps ==
    ASSUME DriveInv, NEW p \in Requests, Request(p)
    PROVE  DriveInv' /\ RoomStep
BY CreateKeeps, CreateMultipartKeeps, InsertKeeps, PatchKeeps, PatchForbiddenKeeps,
   AppendEqualPartsKeeps, CommitPartKeeps, FinalizeCheckKeeps, FinalizeRefusalKeeps, CompleteKeeps,
   StoreFailedKeeps, LandKeeps, CommitLostKeeps, LookAgainKeeps, DropLandedKeeps, DiscardKeeps,
   DropKeeps, DeleteKeeps, DeletePartsKeeps, PurgeLockKeeps, PurgeFileKeeps, PurgeObjectsKeeps,
   FailKeeps DEF Request

LEMMA DriveStep ==
    DriveInv /\ [Next]_vars => DriveInv' /\ (RoomStep \/ UNCHANGED vars)
<1> SUFFICES ASSUME DriveInv, [Next]_vars PROVE DriveInv' /\ (RoomStep \/ UNCHANGED vars)
  OBVIOUS
<1>1. CASE UNCHANGED vars
  <2>1. TypeOK'
    BY <1>1 DEF DriveInv, TypeOK, vars
  <2> QED BY <1>1, <2>1, Untouched DEF DriveInv, vars
<1>2. CASE \E p \in Requests : Request(p)
  BY <1>2, RequestKeeps
<1>3. CASE \E u \in Uploads : resolve(u) \/ grow_stale(u)
  BY <1>3, ResolveKeeps, GrowStaleKeeps
<1>4. CASE UploadsSweep
  BY <1>4, UploadsSweepListKeeps, UploadsSweepAbortKeeps, SweepDeleteKeeps DEF UploadsSweep
<1>5. CASE OrphanSweep
  BY <1>5, OrphanSweepListKeeps, OrphanSweepDeleteKeeps DEF OrphanSweep
<1>6. CASE reconcile_find \/ reconcile_fix
  BY <1>6, ReconcileFindKeeps, ReconcileFixKeeps
<1>7. CASE \E q \in 0 .. MaxQuota : set_quota(q)
  BY <1>7, SetQuotaKeeps
<1> QED BY <1>1, <1>2, <1>3, <1>4, <1>5, <1>6, <1>7 DEF Next

LEMMA DriveAlways == Spec => []DriveInv
<1>1. DriveInv /\ [Next]_vars => DriveInv'
  BY DriveStep
<1> QED BY <1>1, DriveStart, PTL DEF Spec

\* Everything a file or version row names is in the store, whatever failed, was
\* swept or purged in between, unless a look missed a commit under way.
THEOREM UploadsKeepObjects == Spec => []ObjectKept
<1>1. DriveInv => ObjectKept
  BY DEF DriveInv
<1> QED BY <1>1, DriveAlways, PTL

\* What a client was told of its upload is and stays so: stored unless the file
\* was purged since, cancelled and never stored after.
THEOREM UploadsToldTrue == Spec => []ToldTrue
<1>1. DriveInv => ToldTrue
  BY DEF DriveInv, ToldTrue
<1> QED BY <1>1, DriveAlways, PTL

\* The account's counter is the sum of what it stores and what it was off by at
\* the start, until the reconciler corrects it.
THEOREM UploadsUsedExact == Spec => []UsedExact
<1>1. DriveInv => UsedExact
  BY DEF DriveInv
<1> QED BY <1>1, DriveAlways, PTL

\* The rows are well formed, and their chunks are there once and in order.
THEOREM UploadsInOrder == Spec => []UploadsInv
<1>1. DriveInv => UploadsInv
  BY DEF DriveInv, UploadsInv
<1> QED BY <1>1, DriveAlways, PTL

\* No step that takes room leaves the pool over its quota.
THEOREM UploadsFit == Spec => NeverOvercommitted
<1>1. DriveInv /\ [Next]_vars =>
        [used' + reserved({})' > used + reserved({}) => used' + reserved({})' <= quota']_vars
  BY DriveStep DEF RoomStep
<1> QED BY <1>1, DriveAlways, PTL DEF Spec, NeverOvercommitted
=============================================================================

-------------------------- MODULE ChatMailboxSafety --------------------------
(***************************************************************************)
(* The mailbox's safety, proved for any sends, devices, cursors and page   *)
(* size: nothing that committed in the order of the cursors is out of its  *)
(* device's reach, nothing leaves the mailbox unhandled, no device reads a *)
(* send twice while its claim is kept, and a direct send is stored for     *)
(* every listed device and beyond those only for expired ones.             *)
(*                                                                         *)
(* The inductive invariant ties three places together that no transaction  *)
(* covers: the rows still open at the server, the rows committed, and what *)
(* a client has journaled, drained or handled.  A cursor in either of the  *)
(* last two is drawn and no longer open, its send is claimed for that      *)
(* device or the claim was swept, and while it was not the device has no   *)
(* other cursor of the same send.                                          *)
(***************************************************************************)
EXTENDS ChatMailbox, FiniteSetTheorems, WellFoundedInduction, TLAPS

\* The send is recognised as accepted for the device: it is not stored for it again.
Claimed(s, d) == IF s \in Multi THEN <<s, d>> \in multiClaims ELSE s \in claims

\* It was accepted, and is recognised as such unless its claim was swept.
Accepted(s, d) == Claimed(s, d) \/ <<s, d>> \in forgotten

\* The cursors a device's client has, and all that were ever within its reach.
Got(d) == {c \in Cursors : journal[d][c] # "none" \/ c \in handled[d]}
Known(d) ==
    Got(d) \cup {r.cursor : r \in page[d]}
           \cup {r.cursor : r \in {q \in mailbox : q.device = d}}

CursorsDrawn == Len(drawn) = nextCursor - 1

\* An open transaction has a row per device it no longer owes one, for a send
\* that is not claimed for the device.
OpenInv ==
    \A s \in Sends :
        /\ \A d \in owed[s] : ~ Claimed(s, d)
        /\ \A r \in open[s] :
              /\ r.send = s
              /\ r.cursor < nextCursor
              /\ drawn[r.cursor] = s
              /\ r.device \notin owed[s]
              /\ ~ Claimed(s, r.device)
        /\ \A q, r \in open[s] : q.cursor = r.cursor \/ q.device = r.device => q = r

\* What is within a device's reach is committed, accepted, and once per send
\* whose claim was never swept.
KnownInv ==
    \A d \in Devices :
        /\ \A c \in Known(d) : c < nextCursor /\ ~ Drawn(c) /\ Accepted(drawn[c], d)
        /\ \A c, e \in Known(d) : drawn[c] = drawn[e] /\ <<drawn[c], d>> \notin forgotten => c = e

\* A row of the mailbox or of a page is what its cursor was drawn for.
RowsInv ==
    /\ \A r \in mailbox : r.send = drawn[r.cursor]
    /\ \A q, r \in mailbox : q.cursor = r.cursor => q = r
    /\ \A d \in Devices : \A r \in page[d] : r.device = d

\* A client's cursor is past everything it has, and was committed.
JournalInv ==
    \A d \in Devices :
        /\ cursor[d] < nextCursor /\ ~ Drawn(cursor[d])
        /\ \A c \in Got(d) : c <= cursor[d]
        /\ \A c \in Cursors :
              /\ journal[d][c] = "pendingAck" => c \in handled[d]
              /\ journal[d][c] = "pendingDecrypt" => c \notin handled[d]

\* A pass reads what the journal holds; a page starts past the cursor and leaves
\* out no row before its last one that committed in order.
PassInv ==
    \A d \in Devices :
        /\ pc[d] = "process" => todo[d] \subseteq PendingDecrypt(d)
        /\ pc[d] = "page" =>
              /\ page[d] # {}
              /\ \A p \in page[d] : p.cursor > cursor[d]
              /\ \A r \in mailbox \ late, p \in page[d] :
                    r.device = d /\ r.cursor > cursor[d] /\ r.cursor <= p.cursor
                        => \E q \in page[d] : q.cursor = r.cursor

\* What a device has read was handled, once per send.
ReadsInv ==
    \A d \in Devices : \A i \in DOMAIN reads[d] : \E c \in handled[d] : reads[d][i] = drawn[c]

\* The devices a send stores for: those it has a row for and those it owes one.
StoresFor(s) == owed[s] \cup {r.device : r \in open[s]}

\* A direct send stores for the devices listed when it began: of those, any may
\* have expired since.
ListedInv ==
    \A s \in Sends \ Multi :
        IsOpen(s) => Listed \subseteq StoresFor(s) /\ StoresFor(s) \subseteq Listed \cup Expired

MailInv ==
    /\ TypeOK /\ CursorsDrawn /\ OpenInv /\ KnownInv /\ RowsInv /\ JournalInv /\ PassInv
    /\ OrderedNotSkipped /\ AckedHandled /\ ReadsInv /\ ReadOnce /\ ListedInv
-----------------------------------------------------------------------------
(* Lemmas about cursors and pages.                                         *)

\* A finite set of naturals has a largest member.
LEMMA LargestExists ==
    ASSUME NEW S \in SUBSET Nat, IsFiniteSet(S), S # {}
    PROVE  \E m \in S : \A k \in S : k <= m
<1> DEFINE Above(c) == {k \in S : k > c}
           Family == {Above(c) : c \in S}
<1>1. IsWellFoundedOn(StrictSubsetOrdering(S), FiniteSubsetsOf(S))
  BY FS_StrictSubsetOrderingWellFounded
<1>2. Family \subseteq FiniteSubsetsOf(S)
  BY FS_FiniteSubsetsOfFinite
<1>3. Family # {}
  OBVIOUS
<1>4. PICK u \in Family : \A v \in Family : ~ (<<v, u>> \in StrictSubsetOrdering(S))
  BY <1>1, <1>2, <1>3, WFMin
<1>5. PICK m \in S : u = Above(m)
  OBVIOUS
<1>6. ASSUME NEW k \in S, k > m PROVE FALSE
  <2>0. k \in Nat /\ m \in Nat /\ \A j \in S : j \in Nat
    OBVIOUS
  <2>1. Above(k) \subseteq u /\ k \in u /\ k \notin Above(k)
    <3>1. (\A j \in S : j > k => j > m) /\ ~ (k > k)
      BY <1>6, <2>0
    <3>2. k \notin Above(k)
      BY <3>1
    <3>3. Above(k) \subseteq Above(m) /\ k \in Above(m)
      BY <1>6, <3>1, Zenon
    <3> QED BY <1>5, <3>2, <3>3
  <2>2. <<Above(k), u>> \in StrictSubsetOrdering(S)
    BY <1>5, <2>1 DEF StrictSubsetOrdering
  <2> QED BY <1>4, <2>2
<1> QED BY <1>6

\* stage_cursor keeps the highest cursor of the page.
LEMMA LastCursorHighest ==
    ASSUME NEW rows \in SUBSET Row, rows # {}
    PROVE  /\ \E r \in rows : LastCursor(rows) = r.cursor
           /\ \A r \in rows : r.cursor <= LastCursor(rows)
<1> DEFINE S == {r.cursor : r \in rows}
<1>1. S \in SUBSET Nat /\ S # {} /\ \A c \in S : c <= MaxCursor
  BY MailboxAssumption DEF Row, Cursors
<1>2. IsFiniteSet(S)
  BY <1>1, FS_BoundedSetOfNaturals, MailboxAssumption
<1>3. \E c \in S : \A k \in S : k <= c
  BY <1>1, <1>2, LargestExists
<1>4. \E c \in S : \A r \in rows : r.cursor <= c
  BY <1>3
<1> QED BY <1>4 DEF LastCursor

\* A page holds every row ahead of the cursor up to its last one: rows are drained
\* from the oldest on, and each cursor is one row's.
LEMMA PageFromOldest ==
    ASSUME NEW d \in Devices, mailbox \subseteq Row,
           \A q, r \in mailbox : q.cursor = r.cursor => q = r,
           NEW p \in drain_mailbox(d), NEW r \in mailbox,
           r.device = d, r.cursor > cursor[d], r.cursor <= p.cursor
    PROVE  r \in drain_mailbox(d)
<1> DEFINE ahead == {q \in mailbox : q.device = d /\ q.cursor > cursor[d]}
           Before(x) == {q \in ahead : q.cursor < x.cursor}
<1>1. IsFiniteSet(ahead)
  <2> DEFINE f == [q \in ahead |-> q.cursor]
  <2>1. f \in Injection(ahead, Cursors)
    BY DEF Injection, IsInjective, Row
  <2>2. IsFiniteSet(Cursors)
    BY FS_Interval, MailboxAssumption DEF Cursors
  <2> QED BY <2>1, <2>2, FS_Injection
<1>2. Before(r) \subseteq Before(p) /\ Before(p) \subseteq ahead
  <2>1. p \in mailbox /\ \A q \in mailbox : q.cursor \in Nat
    BY DEF drain_mailbox, Row, Cursors
  <2>2. \A q \in ahead : q.cursor < r.cursor => q.cursor < p.cursor
    BY <2>1
  <2> QED BY <2>2
<1>3. Cardinality(Before(r)) <= Cardinality(Before(p)) /\ Cardinality(Before(p)) \in Nat
      /\ Cardinality(Before(r)) \in Nat
  <2>1. IsFiniteSet(Before(p))
    BY <1>1, <1>2, FS_Subset
  <2> QED BY <1>2, <2>1, FS_Subset, FS_CardinalityType
<1>4. Cardinality(Before(p)) < PageSize
  BY DEF drain_mailbox
<1>5. Cardinality(Before(r)) < PageSize
  BY <1>3, <1>4, MailboxAssumption
<1> QED BY <1>5 DEF drain_mailbox
-----------------------------------------------------------------------------
(* Every step keeps the invariant: the senders' steps.                     *)

\* With no send's step, a device's reach may only shrink.
LEMMA KnownShrinks ==
    ASSUME KnownInv, UNCHANGED sendVars, \A d \in Devices : Known(d)' \subseteq Known(d)
    PROVE  KnownInv'
<1>1. \A c : Drawn(c)' <=> Drawn(c)
  BY DEF Drawn, sendVars
<1>2. \A t, d : Accepted(t, d)' <=> Accepted(t, d)
  BY DEF Accepted, Claimed, sendVars
<1> QED BY <1>1, <1>2 DEF KnownInv, sendVars

LEMMA ClaimKeeps ==
    ASSUME MailInv, NEW s \in Sends, claim_send(s)
    PROVE  MailInv'
<1> USE MailboxAssumption DEF MailInv
<1>1. /\ owed' = [owed EXCEPT ![s] = Unclaimed(s)]
      /\ UNCHANGED <<devices, claims, multiClaims, forgotten, nextCursor, drawn, open, mailbox,
                     clientVars, stored, late>>
      /\ open[s] = {} /\ owed[s] = {}
  BY DEF claim_send, IsOpen
<1>2. Unclaimed(s) \subseteq Listed /\ \A d \in Unclaimed(s) : ~ Claimed(s, d)
  BY DEF Unclaimed, Claimed
<1>3. TypeOK'
  BY <1>1, <1>2 DEF TypeOK, clientVars, Listed
<1>4. \A t \in Sends : owed'[t] = IF t = s THEN Unclaimed(s) ELSE owed[t]
  BY <1>1 DEF TypeOK
<1>5. OpenInv'
  <2>1. \A t, d : Claimed(t, d)' <=> Claimed(t, d)
    BY <1>1 DEF Claimed
  <2> QED BY <1>1, <1>2, <1>4, <2>1 DEF OpenInv
<1>6. ListedInv'
  <2>1. s \notin Multi => Unclaimed(s) = Listed
    BY DEF claim_send, Unclaimed
  <2> QED BY <1>1, <1>4, <2>1 DEF ListedInv, StoresFor, IsOpen, Listed, Expired
<1>7. KnownInv'
  BY <1>1 DEF KnownInv, Known, Got, Drawn, Accepted, Claimed, clientVars
<1>8. CursorsDrawn' /\ RowsInv' /\ JournalInv' /\ ReadsInv' /\ ReadOnce'
  BY <1>1 DEF CursorsDrawn, RowsInv, JournalInv, Got, Drawn, ReadsInv, ReadOnce, clientVars
<1>9. PassInv' /\ OrderedNotSkipped' /\ AckedHandled'
  BY <1>1 DEF PassInv, PendingDecrypt, OrderedNotSkipped, Fetchable, AckedHandled, clientVars
<1> QED BY <1>3, <1>5, <1>6, <1>7, <1>8, <1>9

LEMMA InsertKeeps ==
    ASSUME MailInv, NEW s \in Sends, NEW d \in Devices, insert_envelope(s, d)
    PROVE  MailInv'
<1> DEFINE row == [cursor |-> nextCursor, device |-> d, send |-> s]
<1> USE MailboxAssumption DEF MailInv
<1>1. /\ d \in owed[s] /\ nextCursor \in Cursors /\ nextCursor' = nextCursor + 1
      /\ UNCHANGED <<devices, claims, multiClaims, forgotten, mailbox, clientVars, stored, late>>
  BY DEF insert_envelope, TypeOK, Cursors
<1>2. row \in Row /\ row.cursor = nextCursor /\ row.device = d /\ row.send = s
  BY <1>1 DEF Row, TypeOK
<1>3. TypeOK'
  BY <1>1, <1>2 DEF insert_envelope, TypeOK, clientVars, Cursors
<1>4. /\ drawn' \in Seq(Sends) /\ Len(drawn') = nextCursor
      /\ drawn'[nextCursor] = s
      /\ \A c \in Cursors : c < nextCursor => drawn'[c] = drawn[c]
  BY DEF insert_envelope, TypeOK, CursorsDrawn, Cursors
<1>5. /\ \A t \in Sends : owed'[t] = IF t = s THEN owed[t] \ {d} ELSE owed[t]
      /\ \A t \in Sends : open'[t] = IF t = s THEN open[t] \cup {row} ELSE open[t]
  BY DEF insert_envelope, TypeOK
<1> HIDE DEF row
<1>6. \A c : Drawn(c)' <=> Drawn(c) \/ c = nextCursor
  <2>1. /\ \A t \in Sends : t # s => open'[t] = open[t]
        /\ open'[s] = open[s] \cup {row}
    BY <1>5
  <2>2. ASSUME NEW c, NEW t \in Sends, NEW r \in open'[t], r.cursor = c
        PROVE  Drawn(c) \/ c = nextCursor
    <3>1. CASE t = s /\ r = row
      BY <1>2, <2>2, <3>1
    <3>2. CASE r \in open[t]
      BY <2>2, <3>2 DEF Drawn
    <3> QED BY <2>1, <3>1, <3>2
  <2>3. ASSUME NEW c, NEW t \in Sends, NEW r \in open[t], r.cursor = c
        PROVE  Drawn(c)'
    <3>1. r \in open'[t]
      BY <2>1
    <3> QED BY <2>3, <3>1 DEF Drawn
  <2>4. ASSUME NEW c, c = nextCursor PROVE Drawn(c)'
    <3>1. row \in open'[s] /\ row.cursor = c
      BY <1>2, <2>1, <2>4
    <3> QED BY <3>1 DEF Drawn
  <2>5. ASSUME NEW c, Drawn(c)' PROVE Drawn(c) \/ c = nextCursor
    BY <2>2, <2>5 DEF Drawn
  <2>6. ASSUME NEW c, Drawn(c) PROVE Drawn(c)'
    BY <2>3, <2>6 DEF Drawn
  <2> QED BY <2>4, <2>5, <2>6
<1>7. \A t, e : Claimed(t, e)' <=> Claimed(t, e)
  BY <1>1 DEF Claimed
<1>8. CursorsDrawn'
  BY <1>1, <1>4 DEF CursorsDrawn, TypeOK
<1>9. \A t \in Sends : \A r \in open[t] : r \in Row /\ r.cursor \in Cursors /\ r.cursor < nextCursor
  BY DEF TypeOK, OpenInv, Row
<1>10. OpenInv'
  <2> SUFFICES ASSUME NEW t \in Sends
               PROVE  /\ \A e \in owed'[t] : ~ Claimed(t, e)'
                      /\ \A r \in open'[t] :
                            /\ r.send = t
                            /\ r.cursor < nextCursor'
                            /\ drawn'[r.cursor] = t
                            /\ r.device \notin owed'[t]
                            /\ ~ Claimed(t, r.device)'
                      /\ \A q, r \in open'[t] : q.cursor = r.cursor \/ q.device = r.device => q = r
    BY DEF OpenInv
  <2>1. \A e \in owed'[t] : ~ Claimed(t, e)'
    BY <1>5, <1>7 DEF OpenInv
  <2>2. ASSUME NEW r \in open'[t]
        PROVE  /\ r.send = t /\ r.cursor < nextCursor' /\ drawn'[r.cursor] = t
               /\ r.device \notin owed'[t] /\ ~ Claimed(t, r.device)'
    <3>1. CASE r \in open[t]
      <4>1. /\ r.send = t /\ r.cursor < nextCursor /\ drawn[r.cursor] = t
            /\ r.device \notin owed[t] /\ ~ Claimed(t, r.device) /\ r.cursor \in Cursors
        BY <1>9, <3>1 DEF OpenInv
      <4>2. r.cursor < nextCursor' /\ drawn'[r.cursor] = t
        BY <1>1, <1>4, <4>1 DEF TypeOK, Cursors
      <4> QED BY <1>5, <1>7, <4>1, <4>2
    <3>2. CASE r = row /\ t = s
      <4>1. nextCursor < nextCursor'
        BY <1>1 DEF Cursors
      <4>2. ~ Claimed(s, d) /\ d \notin owed'[s]
        BY <1>1, <1>5 DEF OpenInv
      <4> QED BY <1>2, <1>4, <1>7, <3>2, <4>1, <4>2
    <3> QED BY <1>5, <3>1, <3>2
  <2>3. ASSUME NEW q \in open'[t], NEW r \in open'[t], q.cursor = r.cursor \/ q.device = r.device
        PROVE  q = r
    <3>1. ASSUME NEW x \in open[s] PROVE x.cursor # row.cursor /\ x.device # row.device
      <4>1. x.cursor \in Nat /\ x.cursor < nextCursor /\ x.device \notin owed[s] /\ nextCursor \in Nat
        BY <1>1, <1>9 DEF OpenInv, Cursors
      <4> QED BY <1>1, <1>2, <4>1
    <3>2. CASE q \in open[t] /\ r \in open[t]
      BY <2>3, <3>2 DEF OpenInv
    <3>3. CASE ~ (q \in open[t] /\ r \in open[t])
      <4>1. t = s /\ {q, r} \subseteq open[s] \cup {row} /\ (q = row \/ r = row)
        BY <1>5, <3>3
      <4> QED BY <2>3, <3>1, <4>1
    <3> QED BY <3>2, <3>3
  <2> QED BY <2>1, <2>2, <2>3
<1>11. \A e \in Devices : /\ Known(e)' = Known(e) /\ Got(e)' = Got(e)
                          /\ Known(e) \subseteq Cursors
                          /\ \A c \in Known(e) : c < nextCursor
  BY <1>1 DEF Known, Got, clientVars, TypeOK, Row, KnownInv
<1>12. KnownInv'
  <2>1. \A e \in Devices : \A c \in Known(e) :
           c < nextCursor' /\ ~ Drawn(c)' /\ drawn'[c] = drawn[c] /\ Accepted(drawn[c], e)'
    <3>1. \A t, e : Accepted(t, e)' <=> Accepted(t, e)
      BY <1>1, <1>7 DEF Accepted
    <3> QED BY <1>1, <1>4, <1>6, <1>11, <3>1 DEF KnownInv, TypeOK, Cursors
  <2> QED BY <1>1, <1>11, <2>1 DEF KnownInv
<1>13. RowsInv'
  <2>1. \A r \in mailbox : r.cursor \in Known(r.device) /\ r.device \in Devices
    BY DEF Known, TypeOK, Row
  <2>2. \A r \in mailbox : drawn'[r.cursor] = drawn[r.cursor]
    BY <1>4, <1>11, <2>1
  <2> QED BY <1>1, <2>2 DEF RowsInv, clientVars
<1>14. JournalInv'
  BY <1>1, <1>6, <1>11 DEF JournalInv, clientVars, TypeOK, Cursors
<1>15. ReadsInv'
  <2>1. \A e \in Devices : \A c \in handled[e] : c \in Known(e)
    BY DEF Known, Got, TypeOK
  <2>2. \A e \in Devices : \A c \in handled[e] : drawn'[c] = drawn[c]
    BY <1>4, <1>11, <2>1
  <2> QED BY <1>1, <2>2 DEF ReadsInv, clientVars
<1>16. ListedInv'
  <2> SUFFICES ASSUME NEW t \in Sends \ Multi, IsOpen(t)'
               PROVE  Listed' \subseteq StoresFor(t)' /\ StoresFor(t)' \subseteq Listed' \cup Expired'
    BY DEF ListedInv
  <2>1. IsOpen(t) /\ Listed' = Listed /\ Expired' = Expired
    BY <1>1, <1>5 DEF IsOpen, Listed, Expired
  <2>2. StoresFor(t)' = StoresFor(t)
    <3>1. CASE t = s
      <4>1. owed'[t] = owed[t] \ {d} /\ open'[t] = open[t] \cup {row} /\ d \in owed[t]
        BY <1>1, <1>5, <3>1
      <4>2. {r.device : r \in open'[t]} = {r.device : r \in open[t]} \cup {d}
        BY <1>2, <4>1
      <4> QED BY <4>1, <4>2 DEF StoresFor
    <3>2. CASE t # s
      BY <1>5, <3>2 DEF StoresFor
    <3> QED BY <3>1, <3>2
  <2> QED BY <2>1, <2>2 DEF ListedInv
<1>17. PassInv' /\ OrderedNotSkipped' /\ AckedHandled' /\ ReadOnce'
  BY <1>1 DEF PassInv, PendingDecrypt, OrderedNotSkipped, Fetchable, AckedHandled, ReadOnce,
     clientVars
<1> QED BY <1>3, <1>8, <1>10, <1>12, <1>13, <1>14, <1>15, <1>16, <1>17

LEMMA CommitKeeps ==
    ASSUME MailInv, NEW s \in Sends, commit_send(s)
    PROVE  MailInv'
<1> USE MailboxAssumption DEF MailInv
<1>1. /\ owed[s] = {} /\ open' = [open EXCEPT ![s] = {}]
      /\ mailbox' = mailbox \cup open[s] /\ stored' = stored \cup open[s]
      /\ UNCHANGED <<devices, forgotten, nextCursor, drawn, owed, clientVars>>
  BY DEF commit_send
<1>2. \A t \in Sends : open'[t] = IF t = s THEN {} ELSE open[t]
  BY <1>1 DEF TypeOK
<1>3. TypeOK'
  <2>1. \A r \in open[s] : r \in Row /\ r.device \in Devices
    BY DEF TypeOK, Row
  <2>2. claims' \subseteq Sends /\ multiClaims' \subseteq Sends \X Devices
    <3>1. CASE s \in Multi
      <4>1. claims' = claims /\ multiClaims' = multiClaims \cup {<<s, r.device>> : r \in open[s]}
        BY <3>1 DEF commit_send
      <4>2. \A r \in open[s] : <<s, r.device>> \in Sends \X Devices
        BY <2>1
      <4> QED BY <4>1, <4>2 DEF TypeOK
    <3>2. CASE s \notin Multi
      BY <3>2 DEF commit_send, TypeOK
    <3> QED BY <3>1, <3>2
  <2>3. late' \subseteq Row
    BY <2>1 DEF commit_send, TypeOK
  <2> QED BY <1>1, <2>1, <2>2, <2>3 DEF TypeOK, clientVars
\* Nothing open becomes so, and the rows that were s's are no longer.
<1>4. \A c : Drawn(c)' => Drawn(c)
  BY <1>2 DEF Drawn
<1>5. ASSUME NEW r \in open[s] PROVE ~ Drawn(r.cursor)' /\ Drawn(r.cursor)
  <2>1. ASSUME NEW t \in Sends, NEW q \in open'[t], q.cursor = r.cursor PROVE FALSE
    <3>1. t # s /\ q \in open[t]
      BY <1>2, <2>1
    <3> QED BY <2>1, <3>1 DEF OpenInv
  <2> QED BY <2>1 DEF Drawn
<1>6. /\ \A t, d : Claimed(t, d) => Claimed(t, d)'
      /\ \A t, d : Claimed(t, d)' => Claimed(t, d) \/ t = s
      /\ \A r \in open[s] : Claimed(s, r.device)'
  BY DEF commit_send, Claimed
<1>7. OpenInv'
  BY <1>1, <1>2, <1>6 DEF OpenInv
<1>8. \A d \in Devices : Known(d) \subseteq Cursors /\ Got(d)' = Got(d)
  BY <1>1 DEF Known, Got, clientVars, TypeOK, Row
<1>9. ASSUME NEW d \in Devices
      PROVE  \A c \in Known(d)' : c \in Known(d) \/ \E r \in open[s] : r.device = d /\ r.cursor = c
  BY <1>1 DEF Known, Got, clientVars
<1>10. KnownInv'
  <2> SUFFICES ASSUME NEW d \in Devices
               PROVE  /\ \A c \in Known(d)' : c < nextCursor /\ ~ Drawn(c)' /\ Accepted(drawn[c], d)'
                      /\ \A c, e \in Known(d)' :
                            drawn[c] = drawn[e] /\ <<drawn[c], d>> \notin forgotten => c = e
    BY <1>1 DEF KnownInv
  <2>1. ASSUME NEW c \in Known(d) PROVE c < nextCursor /\ ~ Drawn(c)' /\ Accepted(drawn[c], d)'
    BY <1>1, <1>4, <1>6 DEF KnownInv, Accepted
  <2>2. ASSUME NEW r \in open[s], r.device = d
        PROVE  /\ r.cursor < nextCursor /\ ~ Drawn(r.cursor)' /\ Accepted(drawn[r.cursor], d)'
               /\ drawn[r.cursor] = s /\ ~ Claimed(s, d)
    BY <1>1, <1>5, <1>6, <2>2 DEF OpenInv, Accepted
  <2>3. ASSUME NEW c \in Known(d)', NEW e \in Known(d)', drawn[c] = drawn[e],
               <<drawn[c], d>> \notin forgotten
        PROVE  c = e
    <3>1. CASE c \in Known(d) /\ e \in Known(d)
      BY <2>3, <3>1 DEF KnownInv
    <3>2. ASSUME NEW r \in open[s], r.device = d, NEW k \in Known(d), drawn[k] = drawn[r.cursor],
                 <<drawn[k], d>> \notin forgotten
          PROVE  FALSE
      BY <2>2, <3>2 DEF KnownInv, Accepted
    <3>3. ASSUME NEW q \in open[s], q.device = d, NEW r \in open[s], r.device = d PROVE q = r
      BY <3>3 DEF OpenInv
    <3> QED BY <1>9, <2>3, <3>1, <3>2, <3>3
  <2> QED BY <1>9, <2>1, <2>2, <2>3
<1>11. RowsInv'
  <2>1. \A r \in open[s] : r.send = drawn[r.cursor]
    BY DEF OpenInv
  <2>2. \A q \in mailbox, r \in open[s] : q.cursor # r.cursor
    <3>1. \A q \in mailbox : q.device \in Devices /\ q.cursor \in Known(q.device)
      BY DEF Known, TypeOK, Row
    <3> QED BY <1>5, <3>1 DEF KnownInv
  <2>3. \A q, r \in open[s] : q.cursor = r.cursor => q = r
    BY DEF OpenInv
  <2> QED BY <1>1, <2>1, <2>2, <2>3 DEF RowsInv, clientVars
<1>12. JournalInv'
  BY <1>1, <1>4, <1>8 DEF JournalInv, clientVars
\* A row that is not late has every higher cursor still open, so no client is
\* past it and no page holds a higher one.
<1>13. ASSUME NEW r \in open[s], r \notin late', NEW c \in Cursors, c < nextCursor, ~ Drawn(c)
       PROVE  c < r.cursor
  <2>1. r.cursor \in Nat /\ c \in Nat /\ nextCursor \in Nat /\ c # r.cursor
    BY <1>5, <1>13 DEF TypeOK, Row, Cursors
  <2>2. ~ \E k \in r.cursor + 1 .. nextCursor - 1 : ~ Drawn(k)
    BY <1>13 DEF commit_send
  <2> QED BY <1>13, <2>1, <2>2
<1>14. OrderedNotSkipped'
  <2> SUFFICES ASSUME NEW r \in mailbox', r \notin late' PROVE Fetchable(r)'
    BY DEF OrderedNotSkipped
  <2>1. CASE r \in mailbox
    <3>1. r \notin late
      BY DEF commit_send
    <3> QED BY <1>1, <2>1, <3>1 DEF OrderedNotSkipped, Fetchable, clientVars
  <2>2. CASE r \in open[s]
    <3>1. r.device \in Devices /\ r.cursor \in Cursors /\ cursor[r.device] \in 0 .. MaxCursor
      BY <2>2 DEF TypeOK, Row
    <3>2. cursor[r.device] < nextCursor /\ ~ Drawn(cursor[r.device])
      BY <3>1 DEF JournalInv
    <3>3. cursor[r.device] < r.cursor
      <4>1. CASE cursor[r.device] \in Cursors
        BY <1>13, <2>2, <3>2, <4>1
      <4>2. CASE cursor[r.device] \notin Cursors
        BY <3>1, <4>2 DEF Cursors
      <4> QED BY <4>1, <4>2
    <3> QED BY <1>1, <3>1, <3>3 DEF Fetchable, clientVars, Cursors
  <2> QED BY <1>1, <2>1, <2>2
<1>15. PassInv'
  <2> SUFFICES ASSUME NEW d \in Devices, pc[d] = "page", NEW r \in mailbox', r \notin late',
                      NEW p \in page[d], r.device = d, r.cursor > cursor[d], r.cursor <= p.cursor
               PROVE  \E q \in page[d] : q.cursor = r.cursor
    BY <1>1 DEF PassInv, PendingDecrypt, clientVars
  <2>1. CASE r \in mailbox
    <3>1. r \notin late
      BY DEF commit_send
    <3> QED BY <2>1, <3>1 DEF PassInv
  <2>2. CASE r \in open[s]
    <3>1. p.cursor \in Cursors /\ p.cursor < nextCursor /\ ~ Drawn(p.cursor)
      BY <1>8 DEF KnownInv, Known
    <3>2. p.cursor < r.cursor
      BY <1>13, <2>2, <3>1
    <3>3. r.cursor \in Nat /\ p.cursor \in Nat
      BY <2>2, <3>1 DEF TypeOK, Row, Cursors
    <3> QED BY <3>2, <3>3
  <2> QED BY <1>1, <2>1, <2>2
<1>16. ListedInv'
  BY <1>1, <1>2 DEF ListedInv, StoresFor, IsOpen, Listed, Expired
<1>17. CursorsDrawn' /\ AckedHandled' /\ ReadsInv' /\ ReadOnce'
  BY <1>1 DEF CursorsDrawn, AckedHandled, ReadsInv, ReadOnce, clientVars
<1> QED BY <1>3, <1>7, <1>10, <1>11, <1>12, <1>14, <1>15, <1>16, <1>17
\* A rolled back send's cursors are nobody's.
LEMMA RollbackKeeps ==
    ASSUME MailInv, NEW s \in Sends, rollback_send(s)
    PROVE  MailInv'
<1> USE MailboxAssumption DEF MailInv
<1>1. /\ owed' = [owed EXCEPT ![s] = {}] /\ open' = [open EXCEPT ![s] = {}]
      /\ UNCHANGED <<devices, claims, multiClaims, forgotten, nextCursor, drawn, mailbox,
                     clientVars, stored, late>>
  BY DEF rollback_send
<1>2. /\ \A t \in Sends : open'[t] = IF t = s THEN {} ELSE open[t]
      /\ \A t \in Sends : owed'[t] = IF t = s THEN {} ELSE owed[t]
  BY <1>1 DEF TypeOK
<1>3. \A c : Drawn(c)' => Drawn(c)
  BY <1>2 DEF Drawn
<1>4. \A t, d : Claimed(t, d)' <=> Claimed(t, d)
  BY <1>1 DEF Claimed
<1>5. TypeOK'
  BY <1>1 DEF TypeOK, clientVars
<1>6. OpenInv' /\ ListedInv'
  BY <1>1, <1>2, <1>4 DEF OpenInv, ListedInv, StoresFor, IsOpen, Listed, Expired
<1>7. \A d \in Devices : Known(d)' = Known(d) /\ Got(d)' = Got(d)
  BY <1>1 DEF Known, Got, clientVars
<1>8. KnownInv' /\ JournalInv'
  BY <1>1, <1>3, <1>4, <1>7 DEF KnownInv, Accepted, JournalInv, clientVars
<1>9. CursorsDrawn' /\ RowsInv' /\ ReadsInv' /\ ReadOnce'
  BY <1>1 DEF CursorsDrawn, RowsInv, ReadsInv, ReadOnce, clientVars
<1>10. PassInv' /\ OrderedNotSkipped' /\ AckedHandled'
  BY <1>1 DEF PassInv, PendingDecrypt, OrderedNotSkipped, Fetchable, AckedHandled, clientVars
<1> QED BY <1>5, <1>6, <1>8, <1>9, <1>10
-----------------------------------------------------------------------------
(* The device list and retention.                                          *)

\* What depends on the senders alone.
LEMMA SendsStand ==
    ASSUME CursorsDrawn, OpenInv, UNCHANGED sendVars
    PROVE  CursorsDrawn' /\ OpenInv' /\ \A c : Drawn(c)' <=> Drawn(c)
BY DEF CursorsDrawn, OpenInv, Claimed, Drawn, sendVars

\* A device is added or dropped only while no send is open.
LEMMA DevicesKeep ==
    ASSUME MailInv, NEW d \in Devices, register_device(d) \/ revoke_device(d)
    PROVE  MailInv'
<1> USE MailboxAssumption DEF MailInv
<1>1. /\ UNCHANGED <<sendVars, journal, cursor, reads, handled, late>>
      /\ mailbox' \subseteq mailbox /\ stored' \subseteq stored
      /\ \A e \in Devices : pc'[e] = "idle" \/ /\ pc'[e] = pc[e]
                                               /\ todo'[e] = todo[e] /\ page'[e] = page[e]
      /\ \A e \in Devices : page'[e] = page[e] \/ page'[e] = {}
      /\ \A r \in stored' : r \in mailbox => r \in mailbox'
  BY DEF register_device, revoke_device, PassOver, clientVars, TypeOK
<1>2. TypeOK'
  <2>1. devices' \in [Devices -> {"new", "listed", "expired", "gone"}]
    BY DEF TypeOK, register_device, revoke_device
  <2>2. /\ pc' \in [Devices -> {"idle", "process", "acked", "drain", "page"}]
        /\ todo' \in [Devices -> SUBSET Cursors] /\ page' \in [Devices -> SUBSET Row]
        /\ more' \in [Devices -> BOOLEAN]
    <3>1. CASE register_device(d)
      BY <3>1 DEF TypeOK, register_device, clientVars
    <3>2. CASE revoke_device(d)
      BY <3>2 DEF TypeOK, revoke_device, PassOver
    <3> QED BY <3>1, <3>2
  <2>3. mailbox' \subseteq Row /\ stored' \subseteq Row
    BY <1>1 DEF TypeOK
  <2>4. UNCHANGED <<claims, multiClaims, forgotten, nextCursor, drawn, owed, open, journal,
                    cursor, reads, handled, late>>
    BY <1>1 DEF sendVars
  <2> QED BY <2>1, <2>2, <2>3, <2>4 DEF TypeOK
<1>3. CursorsDrawn' /\ OpenInv' /\ \A c : Drawn(c)' <=> Drawn(c)
  BY <1>1, SendsStand
<1>4. ListedInv'
  BY <1>1 DEF register_device, revoke_device, ListedInv, NoSendOpen, IsOpen, sendVars
<1>5. \A e \in Devices : Known(e)' \subseteq Known(e) /\ Got(e)' = Got(e)
  BY <1>1 DEF Known, Got
<1>6. KnownInv'
  BY <1>1, <1>5, KnownShrinks
<1>7. RowsInv' /\ JournalInv' /\ ReadsInv' /\ ReadOnce'
  BY <1>1, <1>3, <1>5 DEF RowsInv, JournalInv, ReadsInv, ReadOnce, sendVars
<1>8. PassInv'
  <2>1. \A e \in Devices : PendingDecrypt(e)' = PendingDecrypt(e)
    BY <1>1 DEF PendingDecrypt
  <2> QED BY <1>1, <2>1 DEF PassInv
<1>9. OrderedNotSkipped' /\ AckedHandled'
  BY <1>1 DEF OrderedNotSkipped, Fetchable, AckedHandled
<1> QED BY <1>2, <1>3, <1>4, <1>6, <1>7, <1>8, <1>9

\* A device that expires under an open send is one of those it stores for.
LEMMA ExpiryKeeps ==
    ASSUME MailInv, NEW d \in Devices, expire_device(d)
    PROVE  MailInv'
<1> USE MailboxAssumption DEF MailInv
<1>1. /\ UNCHANGED <<sendVars, mailbox, clientVars, stored, late>>
      /\ devices[d] = "listed" /\ devices' = [devices EXCEPT ![d] = "expired"]
  BY DEF expire_device
<1>2. TypeOK'
  BY <1>1 DEF TypeOK, sendVars, clientVars
<1>3. CursorsDrawn' /\ OpenInv' /\ \A c : Drawn(c)' <=> Drawn(c)
  BY <1>1, SendsStand
<1>4. ListedInv'
  <2>1. Listed' \subseteq Listed /\ Listed \cup Expired \subseteq Listed' \cup Expired'
    BY <1>1 DEF TypeOK, Listed, Expired
  <2>2. \A s \in Sends : (IsOpen(s)' <=> IsOpen(s)) /\ StoresFor(s)' = StoresFor(s)
    BY <1>1 DEF IsOpen, StoresFor, sendVars
  <2> QED BY <2>1, <2>2 DEF ListedInv
<1>5. \A e \in Devices : Known(e)' = Known(e) /\ Got(e)' = Got(e)
  BY <1>1 DEF Known, Got, clientVars
<1>6. KnownInv'
  BY <1>1, <1>5, KnownShrinks
<1>7. RowsInv' /\ JournalInv' /\ ReadsInv' /\ ReadOnce'
  BY <1>1, <1>3, <1>5 DEF RowsInv, JournalInv, ReadsInv, ReadOnce, sendVars, clientVars
<1>8. PassInv'
  BY <1>1 DEF PassInv, PendingDecrypt, clientVars
<1>9. OrderedNotSkipped' /\ AckedHandled'
  BY <1>1 DEF OrderedNotSkipped, Fetchable, AckedHandled, clientVars
<1> QED BY <1>2, <1>3, <1>4, <1>6, <1>7, <1>8, <1>9

\* What was accepted stays so when its claim is swept; nothing is claimed anew.
LEMMA ForgetKeeps ==
    ASSUME MailInv,
           (\E s \in Sends : sweep_sends(s))
               \/ (\E s \in Sends, d \in Devices : sweep_multi_send_ids(s, d))
    PROVE  MailInv'
<1> USE MailboxAssumption DEF MailInv
<1>1. /\ UNCHANGED <<devices, nextCursor, drawn, owed, open, mailbox, clientVars, stored, late>>
      /\ claims' \subseteq claims /\ multiClaims' \subseteq multiClaims
      /\ forgotten \subseteq forgotten' /\ forgotten' \subseteq Sends \X Devices
  BY DEF sweep_sends, sweep_multi_send_ids, TypeOK
<1>2. /\ \A t, d : Claimed(t, d)' => Claimed(t, d)
      /\ \A t \in Sends, d \in Devices : Accepted(t, d) => Accepted(t, d)'
  <2>1. CASE \E s \in Sends : sweep_sends(s)
    BY <1>1, <2>1 DEF sweep_sends, Accepted, Claimed
  <2>2. CASE \E s \in Sends, d \in Devices : sweep_multi_send_ids(s, d)
    BY <1>1, <2>2 DEF sweep_multi_send_ids, Accepted, Claimed
  <2> QED BY <2>1, <2>2
<1>3. TypeOK' /\ CursorsDrawn'
  BY <1>1 DEF TypeOK, CursorsDrawn, clientVars
<1>4. OpenInv'
  BY <1>1, <1>2 DEF OpenInv
<1>5. ListedInv'
  BY <1>1 DEF ListedInv, StoresFor, IsOpen, Listed, Expired
<1>6. \A e \in Devices : Known(e)' = Known(e) /\ Got(e)' = Got(e)
  BY <1>1 DEF Known, Got, clientVars
<1>7. \A c : Drawn(c)' <=> Drawn(c)
  BY <1>1 DEF Drawn
<1>8. KnownInv'
  <2>1. ASSUME NEW e \in Devices, NEW c \in Known(e)
        PROVE  c < nextCursor /\ ~ Drawn(c) /\ Accepted(drawn[c], e)'
    <3>1. c < nextCursor /\ ~ Drawn(c) /\ Accepted(drawn[c], e)
      BY DEF KnownInv
    <3>2. drawn[c] \in Sends
      <4>1. c \in 1 .. Len(drawn)
        BY <3>1 DEF Known, Got, Cursors, CursorsDrawn, TypeOK, Row
      <4> QED BY <4>1 DEF TypeOK
    <3> QED BY <1>1, <1>2, <3>1, <3>2
  <2>2. \A e \in Devices : \A c, k \in Known(e) :
           drawn[c] = drawn[k] /\ <<drawn[c], e>> \notin forgotten' => c = k
    BY <1>1 DEF KnownInv
  <2> QED BY <1>1, <1>6, <1>7, <2>1, <2>2 DEF KnownInv
<1>9. RowsInv' /\ JournalInv' /\ ReadsInv'
  BY <1>1, <1>6, <1>7 DEF RowsInv, JournalInv, ReadsInv, clientVars
<1>10. ReadOnce'
  BY <1>1 DEF ReadOnce, clientVars
<1>11. PassInv' /\ OrderedNotSkipped' /\ AckedHandled'
  BY <1>1 DEF PassInv, PendingDecrypt, OrderedNotSkipped, Fetchable, AckedHandled, clientVars
<1> QED BY <1>3, <1>4, <1>5, <1>8, <1>9, <1>10, <1>11

LEMMA SweepKeeps ==
    ASSUME MailInv, NEW r \in mailbox, sweep_mailbox(r)
    PROVE  MailInv'
<1> USE MailboxAssumption DEF MailInv
<1>1. /\ UNCHANGED <<devices, sendVars, clientVars, late>>
      /\ mailbox' = mailbox \ {r} /\ stored' = stored \ {r}
  BY DEF sweep_mailbox
<1>2. TypeOK'
  BY <1>1 DEF TypeOK, sendVars, clientVars
<1>3. CursorsDrawn' /\ OpenInv' /\ \A c : Drawn(c)' <=> Drawn(c)
  BY <1>1, SendsStand
<1>4. ListedInv'
  BY <1>1 DEF ListedInv, StoresFor, IsOpen, Listed, Expired, sendVars
<1>5. \A e \in Devices : Known(e)' \subseteq Known(e) /\ Got(e)' = Got(e)
  BY <1>1 DEF Known, Got, clientVars
<1>6. KnownInv'
  BY <1>1, <1>5, KnownShrinks
<1>7. RowsInv' /\ JournalInv' /\ ReadsInv' /\ ReadOnce'
  BY <1>1, <1>3, <1>5 DEF RowsInv, JournalInv, ReadsInv, ReadOnce, sendVars, clientVars
<1>8. PassInv'
  BY <1>1 DEF PassInv, PendingDecrypt, clientVars
<1>9. OrderedNotSkipped' /\ AckedHandled'
  BY <1>1 DEF OrderedNotSkipped, Fetchable, AckedHandled, clientVars
<1> QED BY <1>2, <1>3, <1>4, <1>6, <1>7, <1>8, <1>9
-----------------------------------------------------------------------------
(* The client's steps.                                                     *)

\* A pass that starts or stops changes nothing durable.
LEMMA PassKeeps ==
    ASSUME MailInv, NEW d \in Devices, receive_pass(d) \/ stop_pass(d)
    PROVE  MailInv'
<1> USE MailboxAssumption DEF MailInv
<1>1. /\ UNCHANGED <<devices, sendVars, mailbox, journal, cursor, reads, handled, stored, late>>
      /\ page' = page \/ page' = [page EXCEPT ![d] = {}]
      /\ \/ pc' = [pc EXCEPT ![d] = "process"] /\ todo' = [todo EXCEPT ![d] = PendingDecrypt(d)]
         \/ pc' = [pc EXCEPT ![d] = "idle"] /\ todo' = [todo EXCEPT ![d] = {}]
      /\ more' \in [Devices -> BOOLEAN]
  <2>1. CASE receive_pass(d)
    BY <2>1 DEF receive_pass, TypeOK
  <2>2. CASE stop_pass(d)
    BY <2>2 DEF stop_pass, PassOver, TypeOK
  <2> QED BY <2>1, <2>2
<1>2. TypeOK'
  <2>1. PendingDecrypt(d) \subseteq Cursors
    BY DEF PendingDecrypt
  <2>2. /\ pc' \in [Devices -> {"idle", "process", "acked", "drain", "page"}]
        /\ todo' \in [Devices -> SUBSET Cursors]
    <3>1. CASE pc' = [pc EXCEPT ![d] = "process"] /\ todo' = [todo EXCEPT ![d] = PendingDecrypt(d)]
      BY <2>1, <3>1 DEF TypeOK
    <3>2. CASE pc' = [pc EXCEPT ![d] = "idle"] /\ todo' = [todo EXCEPT ![d] = {}]
      BY <3>2 DEF TypeOK
    <3> QED BY <1>1, <3>1, <3>2
  <2>3. page' \in [Devices -> SUBSET Row]
    BY <1>1 DEF TypeOK
  <2> QED BY <1>1, <2>2, <2>3 DEF TypeOK, sendVars
<1>3. CursorsDrawn' /\ OpenInv' /\ \A c : Drawn(c)' <=> Drawn(c)
  BY <1>1, SendsStand
<1>4. ListedInv'
  BY <1>1 DEF ListedInv, StoresFor, IsOpen, Listed, Expired, sendVars
<1>5. \A e \in Devices : page'[e] = page[e] \/ page'[e] = {}
  BY <1>1 DEF TypeOK
<1>6. \A e \in Devices : Known(e)' \subseteq Known(e) /\ Got(e)' = Got(e)
  BY <1>1, <1>5 DEF Known, Got
<1>7. KnownInv'
  BY <1>1, <1>6, KnownShrinks
<1>8. RowsInv' /\ JournalInv' /\ ReadsInv' /\ ReadOnce'
  BY <1>1, <1>3, <1>5, <1>6 DEF RowsInv, JournalInv, ReadsInv, ReadOnce, sendVars
<1>9. PassInv'
  <2> SUFFICES ASSUME NEW e \in Devices
               PROVE  /\ pc'[e] = "process" => todo'[e] \subseteq PendingDecrypt(e)'
                      /\ pc'[e] = "page" => pc[e] = "page" /\ page'[e] = page[e]
    BY <1>1 DEF PassInv
  <2>1. PendingDecrypt(e)' = PendingDecrypt(e)
    BY <1>1 DEF PendingDecrypt
  <2>2. CASE e = d
    BY <1>1, <2>1, <2>2 DEF TypeOK
  <2>3. CASE e # d
    BY <1>1, <2>1, <2>3 DEF TypeOK, PassInv
  <2> QED BY <2>2, <2>3
<1>10. OrderedNotSkipped' /\ AckedHandled'
  BY <1>1 DEF OrderedNotSkipped, Fetchable, AckedHandled
<1> QED BY <1>2, <1>3, <1>4, <1>7, <1>8, <1>9, <1>10

\* Nothing is read again: what is read had not been handled, and no other cursor
\* of the same send is within the device's reach.
LEMMA ProcessKeeps ==
    ASSUME MailInv, NEW d \in Devices, NEW c \in Cursors, process_inbound(d, c)
    PROVE  MailInv'
<1> USE MailboxAssumption DEF MailInv
<1>1. /\ UNCHANGED <<devices, sendVars, mailbox, pc, page, more, cursor, stored, late>>
      /\ pc[d] = "process" /\ c \in todo[d] /\ todo' = [todo EXCEPT ![d] = @ \ {c}]
  BY DEF process_inbound
<1>2. journal[d][c] = "pendingDecrypt" /\ c \in Got(d) /\ c \in Known(d) /\ c \notin handled[d]
  BY <1>1 DEF PassInv, PendingDecrypt, JournalInv, Got, Known
<1>3. drawn[c] \in Sends
  <2>1. c \in 1 .. Len(drawn)
    BY <1>2 DEF KnownInv, CursorsDrawn, Cursors, TypeOK
  <2> QED BY <2>1 DEF TypeOK
<1>4. \/ UNCHANGED <<journal, reads, handled>>
      \/ /\ journal' = [journal EXCEPT ![d][c] = "pendingAck"]
         /\ handled' = [handled EXCEPT ![d] = @ \cup {c}]
         /\ reads' = [reads EXCEPT ![d] = Append(@, drawn[c])] \/ UNCHANGED reads
  BY DEF process_inbound, receive_envelope
<1>5. TypeOK'
  <2>1. todo' \in [Devices -> SUBSET Cursors]
    BY <1>1 DEF TypeOK
  <2>2. journal' \in [Devices -> [Cursors -> {"none", "pendingDecrypt", "pendingAck"}]]
    <3>1. CASE journal' = [journal EXCEPT ![d][c] = "pendingAck"]
      BY <3>1 DEF TypeOK
    <3> QED BY <1>4, <3>1 DEF TypeOK
  <2>3. handled' \in [Devices -> SUBSET Cursors]
    <3>1. CASE handled' = [handled EXCEPT ![d] = @ \cup {c}]
      BY <3>1 DEF TypeOK
    <3> QED BY <1>4, <3>1 DEF TypeOK
  <2>4. reads' \in [Devices -> Seq(Sends)]
    <3>1. reads \in [Devices -> Seq(Sends)] /\ Append(reads[d], drawn[c]) \in Seq(Sends)
      BY <1>3 DEF TypeOK
    <3>2. reads' = reads \/ reads' = [reads EXCEPT ![d] = Append(reads[d], drawn[c])]
      BY <1>4
    <3> QED BY <3>1, <3>2
  <2> QED BY <1>1, <2>1, <2>2, <2>3, <2>4 DEF TypeOK, sendVars
<1>6. /\ \A e \in Devices : \A k \in Cursors :
            \/ journal'[e][k] = journal[e][k]
            \/ e = d /\ k = c /\ journal'[e][k] = "pendingAck" /\ c \in handled'[e]
      /\ \A e \in Devices :
            \/ handled'[e] = handled[e]
            \/ e = d /\ handled'[e] = handled[e] \cup {c} /\ journal'[e][c] = "pendingAck"
  <2>1. CASE UNCHANGED <<journal, handled>>
    BY <2>1
  <2>2. CASE /\ journal' = [journal EXCEPT ![d][c] = "pendingAck"]
             /\ handled' = [handled EXCEPT ![d] = @ \cup {c}]
    <3>1. /\ \A e \in Devices : e # d => journal'[e] = journal[e] /\ handled'[e] = handled[e]
          /\ handled'[d] = handled[d] \cup {c}
      BY <2>2 DEF TypeOK
    <3>2. \A k \in Cursors : journal'[d][k] = IF k = c THEN "pendingAck" ELSE journal[d][k]
      BY <2>2 DEF TypeOK
    <3> QED BY <3>1, <3>2
  <2> QED BY <1>4, <2>1, <2>2
<1>7. \A e \in Devices : Got(e)' = Got(e)
  <2>1. ASSUME NEW e \in Devices, NEW k \in Cursors
        PROVE  (journal'[e][k] # "none" \/ k \in handled'[e])
                   <=> (journal[e][k] # "none" \/ k \in handled[e])
    BY <1>2, <1>6
  <2> QED BY <2>1 DEF Got
<1>8. \A e \in Devices : Known(e)' = Known(e)
  BY <1>1, <1>7 DEF Known
<1>9. CursorsDrawn' /\ OpenInv' /\ \A k : Drawn(k)' <=> Drawn(k)
  BY <1>1, SendsStand
<1>10. ListedInv'
  BY <1>1 DEF ListedInv, StoresFor, IsOpen, Listed, Expired, sendVars
<1>11. KnownInv'
  BY <1>1, <1>8, KnownShrinks
<1>12. RowsInv'
  BY <1>1 DEF RowsInv, sendVars
<1>13. JournalInv'
  <2>1. ASSUME NEW e \in Devices, NEW k \in Cursors
        PROVE  /\ journal'[e][k] = "pendingAck" => k \in handled'[e]
               /\ journal'[e][k] = "pendingDecrypt" => k \notin handled'[e]
    BY <1>2, <1>6 DEF JournalInv
  <2> QED BY <1>1, <1>7, <1>9, <2>1 DEF JournalInv, sendVars
<1>14. PassInv'
  <2> SUFFICES ASSUME NEW e \in Devices, pc[e] = "process"
               PROVE  todo'[e] \subseteq PendingDecrypt(e)'
    BY <1>1 DEF PassInv
  <2>1. todo'[e] \subseteq PendingDecrypt(e) /\ (e = d => c \notin todo'[e])
    BY <1>1 DEF TypeOK, PassInv
  <2> QED BY <1>6, <2>1 DEF PendingDecrypt
<1>15. \A e \in Devices : handled[e] \subseteq handled'[e]
  BY <1>6
<1>16. OrderedNotSkipped'
  <2> SUFFICES ASSUME NEW r \in mailbox, r \notin late PROVE Fetchable(r)'
    BY <1>1 DEF OrderedNotSkipped
  <2>1. Fetchable(r) /\ r.device \in Devices /\ r.cursor \in Cursors
    BY DEF OrderedNotSkipped, TypeOK, Row
  <2> QED BY <1>1, <1>6, <1>15, <2>1 DEF Fetchable
<1>17. AckedHandled'
  <2>1. \A r \in stored : r.device \in Devices
    BY DEF TypeOK, Row
  <2> QED BY <1>1, <1>15, <2>1 DEF AckedHandled
<1>18. \A e \in Devices :
          \/ reads'[e] = reads[e]
          \/ e = d /\ reads'[e] = Append(reads[e], drawn[c]) /\ c \in handled'[e]
  BY <1>4 DEF TypeOK
<1>19. ReadsInv' /\ ReadOnce'
  <2> SUFFICES ASSUME NEW e \in Devices
               PROVE  /\ \A i \in DOMAIN reads'[e] : \E k \in handled'[e] : reads'[e][i] = drawn[k]
                      /\ \A i, j \in DOMAIN reads'[e] :
                            reads'[e][i] = reads'[e][j] /\ <<reads'[e][i], e>> \notin forgotten => i = j
    BY <1>1 DEF ReadsInv, ReadOnce, sendVars
  <2>1. CASE reads'[e] = reads[e]
    BY <1>15, <2>1 DEF ReadsInv, ReadOnce
  <2>2. CASE e = d /\ reads'[e] = Append(reads[e], drawn[c]) /\ c \in handled'[e]
    <3>1. reads[d] \in Seq(Sends) /\ Len(reads[d]) \in Nat
      BY DEF TypeOK
    <3>2. /\ DOMAIN reads'[e] = 1 .. Len(reads[d]) + 1
          /\ DOMAIN reads[d] = 1 .. Len(reads[d])
          /\ reads'[e][Len(reads[d]) + 1] = drawn[c]
          /\ \A i \in 1 .. Len(reads[d]) : reads'[e][i] = reads[d][i]
      BY <2>2, <3>1, <1>3
    <3>3. ASSUME NEW i \in 1 .. Len(reads[d]), <<drawn[c], d>> \notin forgotten
          PROVE  reads[d][i] # drawn[c]
      <4>1. PICK k \in handled[d] : reads[d][i] = drawn[k]
        BY <3>2 DEF ReadsInv
      <4>2. k \in Known(d) /\ k # c
        BY <1>2, <4>1 DEF Known, Got, TypeOK
      <4> QED BY <1>2, <3>3, <4>1, <4>2 DEF KnownInv
    <3>4. \A i \in 1 .. Len(reads[d]) : \E k \in handled'[e] : reads[d][i] = drawn[k]
      BY <1>15, <2>2, <3>2 DEF ReadsInv
    <3>5. \A i \in DOMAIN reads'[e] : i \in 1 .. Len(reads[d]) \/ i = Len(reads[d]) + 1
      BY <3>1, <3>2
    <3>6. \A i, j \in 1 .. Len(reads[d]) :
             reads[d][i] = reads[d][j] /\ <<reads[d][i], d>> \notin forgotten => i = j
      BY <3>2 DEF ReadOnce
    <3>7. \A i \in DOMAIN reads'[e] : \E k \in handled'[e] : reads'[e][i] = drawn[k]
      BY <2>2, <3>2, <3>4, <3>5
    <3>8. \A i, j \in DOMAIN reads'[e] :
             reads'[e][i] = reads'[e][j] /\ <<reads'[e][i], e>> \notin forgotten => i = j
      BY <2>2, <3>2, <3>3, <3>5, <3>6
    <3> QED BY <3>7, <3>8
  <2> QED BY <1>18, <2>1, <2>2
<1> QED BY <1>5, <1>9, <1>10, <1>11, <1>12, <1>13, <1>14, <1>16, <1>17, <1>19

\* Only handled cursors are acknowledged.
LEMMA AckKeeps ==
    ASSUME MailInv, NEW d \in Devices, ack_messages(d)
    PROVE  MailInv'
<1> USE MailboxAssumption DEF MailInv
<1>1. /\ UNCHANGED <<devices, sendVars, todo, page, more, journal, cursor, reads, handled,
                     stored, late>>
      /\ mailbox' \subseteq mailbox
      /\ \A r \in mailbox \ mailbox' : r.device = d /\ r.cursor \in PendingAck(d)
      /\ \A e \in Devices : e # d => pc'[e] = pc[e]
      /\ pc'[d] \in {"idle", "drain", "acked"}
      /\ pc' \in [Devices -> {"idle", "process", "acked", "drain", "page"}]
  <2>1. CASE PendingAck(d) = {}
    BY <2>1 DEF ack_messages, NextPage, TypeOK
  <2>2. CASE PendingAck(d) # {}
    BY <2>2 DEF ack_messages, TypeOK
  <2> QED BY <2>1, <2>2
<1>2. TypeOK'
  BY <1>1 DEF TypeOK, sendVars
<1>3. CursorsDrawn' /\ OpenInv' /\ \A c : Drawn(c)' <=> Drawn(c)
  BY <1>1, SendsStand
<1>4. ListedInv'
  BY <1>1 DEF ListedInv, StoresFor, IsOpen, Listed, Expired, sendVars
<1>5. \A e \in Devices : Known(e)' \subseteq Known(e) /\ Got(e)' = Got(e)
  BY <1>1 DEF Known, Got
<1>6. KnownInv'
  BY <1>1, <1>5, KnownShrinks
<1>7. RowsInv' /\ JournalInv' /\ ReadsInv' /\ ReadOnce'
  BY <1>1, <1>3, <1>5 DEF RowsInv, JournalInv, ReadsInv, ReadOnce, sendVars
<1>8. PassInv'
  <2>1. \A e \in Devices : PendingDecrypt(e)' = PendingDecrypt(e)
    BY <1>1 DEF PendingDecrypt
  <2>2. \A e \in Devices : (pc'[e] = "process" => pc[e] = "process") /\ (pc'[e] = "page" => pc[e] = "page")
    BY <1>1
  <2> QED BY <1>1, <2>1, <2>2 DEF PassInv
<1>9. OrderedNotSkipped'
  BY <1>1 DEF OrderedNotSkipped, Fetchable
<1>10. AckedHandled'
  <2>1. \A c \in PendingAck(d) : c \in handled[d]
    BY DEF PendingAck, JournalInv
  <2> QED BY <1>1, <2>1 DEF AckedHandled
<1> QED BY <1>2, <1>3, <1>4, <1>6, <1>7, <1>8, <1>9, <1>10

LEMMA FinishKeeps ==
    ASSUME MailInv, NEW d \in Devices, finish_acks(d)
    PROVE  MailInv'
<1> USE MailboxAssumption DEF MailInv
<1>1. /\ UNCHANGED <<devices, sendVars, mailbox, todo, page, more, cursor, reads, handled,
                     stored, late>>
      /\ \A e \in Devices : e # d => pc'[e] = pc[e]
      /\ pc'[d] \in {"idle", "drain"}
      /\ pc' \in [Devices -> {"idle", "process", "acked", "drain", "page"}]
  BY DEF finish_acks, NextPage, TypeOK
<1>2. /\ \A e \in Devices : e # d => journal'[e] = journal[e]
      /\ \A c \in Cursors : journal'[d][c] = IF journal[d][c] = "pendingAck" THEN "none" ELSE journal[d][c]
      /\ journal' \in [Devices -> [Cursors -> {"none", "pendingDecrypt", "pendingAck"}]]
  BY DEF finish_acks, TypeOK
<1>3. TypeOK'
  BY <1>1, <1>2 DEF TypeOK, sendVars
<1>4. CursorsDrawn' /\ OpenInv' /\ \A c : Drawn(c)' <=> Drawn(c)
  BY <1>1, SendsStand
<1>5. ListedInv'
  BY <1>1 DEF ListedInv, StoresFor, IsOpen, Listed, Expired, sendVars
<1>6. \A e \in Devices : Got(e)' = Got(e)
  <2>1. ASSUME NEW e \in Devices, NEW c \in Cursors
        PROVE  (journal'[e][c] # "none" \/ c \in handled[e]) <=> (journal[e][c] # "none" \/ c \in handled[e])
    BY <1>2 DEF JournalInv
  <2> QED BY <1>1, <2>1 DEF Got
<1>7. \A e \in Devices : Known(e)' = Known(e)
  BY <1>1, <1>6 DEF Known
<1>8. KnownInv'
  BY <1>1, <1>7, KnownShrinks
<1>9. JournalInv'
  <2>1. \A e \in Devices : \A c \in Cursors : journal'[e][c] = journal[e][c] \/ journal'[e][c] = "none"
    BY <1>2
  <2>2. \A e \in Devices : \A c \in Cursors :
           /\ journal'[e][c] = "pendingAck" => c \in handled'[e]
           /\ journal'[e][c] = "pendingDecrypt" => c \notin handled'[e]
    BY <1>1, <2>1 DEF JournalInv
  <2> QED BY <1>1, <1>4, <1>6, <2>2 DEF JournalInv, sendVars
<1>10. RowsInv' /\ ReadsInv' /\ ReadOnce'
  BY <1>1 DEF RowsInv, ReadsInv, ReadOnce, sendVars
<1>11. PassInv'
  <2>1. \A e \in Devices : (pc'[e] = "process" => pc[e] = "process" /\ e # d)
                           /\ (pc'[e] = "page" => pc[e] = "page")
    BY <1>1
  <2>2. \A e \in Devices : e # d => PendingDecrypt(e)' = PendingDecrypt(e)
    BY <1>2 DEF PendingDecrypt
  <2> QED BY <1>1, <2>1, <2>2 DEF PassInv
<1>12. OrderedNotSkipped'
  <2> SUFFICES ASSUME NEW r \in mailbox, r \notin late PROVE Fetchable(r)'
    BY <1>1 DEF OrderedNotSkipped
  <2>1. Fetchable(r) /\ r.device \in Devices /\ r.cursor \in Cursors
    BY DEF OrderedNotSkipped, TypeOK, Row
  <2>2. journal[r.device][r.cursor] # "none" => journal'[r.device][r.cursor] # "none" \/ r.cursor \in handled[r.device]
    BY <1>2, <2>1 DEF JournalInv
  <2> QED BY <1>1, <2>1, <2>2 DEF Fetchable
<1>13. AckedHandled'
  BY <1>1 DEF AckedHandled
<1> QED BY <1>3, <1>4, <1>5, <1>8, <1>9, <1>10, <1>11, <1>12, <1>13

LEMMA DrainKeeps ==
    ASSUME MailInv, NEW d \in Devices, drain(d)
    PROVE  MailInv'
<1> USE MailboxAssumption DEF MailInv
<1> DEFINE rows == drain_mailbox(d)
<1>1. /\ UNCHANGED <<devices, sendVars, mailbox, todo, journal, cursor, reads, handled, stored,
                     late>>
      /\ page' = [page EXCEPT ![d] = rows]
      /\ pc' = [pc EXCEPT ![d] = IF rows = {} THEN "idle" ELSE "page"]
      /\ more' = [more EXCEPT ![d] = \E r \in mailbox \ rows : r.device = d /\ r.cursor > cursor[d]]
  BY DEF drain
<1>2. rows \subseteq mailbox /\ \A r \in rows : r.device = d /\ r.cursor > cursor[d]
  BY DEF drain_mailbox
<1>3. ASSUME NEW p \in rows, NEW r \in mailbox, r.device = d, r.cursor > cursor[d], r.cursor <= p.cursor
      PROVE  r \in rows
  BY <1>3, PageFromOldest DEF RowsInv, TypeOK
<1> HIDE DEF rows
<1>4. TypeOK'
  <2>1. more' \in [Devices -> BOOLEAN]
    BY <1>1 DEF TypeOK
  <2>2. pc' \in [Devices -> {"idle", "process", "acked", "drain", "page"}]
    BY <1>1 DEF TypeOK
  <2>3. page' \in [Devices -> SUBSET Row]
    BY <1>1, <1>2 DEF TypeOK
  <2> QED BY <1>1, <2>1, <2>2, <2>3 DEF TypeOK, sendVars
<1>5. CursorsDrawn' /\ OpenInv' /\ \A c : Drawn(c)' <=> Drawn(c)
  BY <1>1, SendsStand
<1>6. ListedInv'
  BY <1>1 DEF ListedInv, StoresFor, IsOpen, Listed, Expired, sendVars
<1>7. \A e \in Devices : page'[e] = IF e = d THEN rows ELSE page[e]
  BY <1>1 DEF TypeOK
<1>8. \A e \in Devices : Known(e)' \subseteq Known(e) /\ Got(e)' = Got(e)
  <2> SUFFICES ASSUME NEW e \in Devices PROVE Known(e)' \subseteq Known(e) /\ Got(e)' = Got(e)
    OBVIOUS
  <2>1. Got(e)' = Got(e)
    BY <1>1 DEF Got
  <2>2. CASE e = d
    BY <1>1, <1>2, <1>7, <2>1, <2>2 DEF Known
  <2>3. CASE e # d
    BY <1>1, <1>7, <2>1, <2>3 DEF Known
  <2> QED BY <2>1, <2>2, <2>3
<1>9. KnownInv'
  BY <1>1, <1>8, KnownShrinks
<1>10. RowsInv' /\ JournalInv' /\ ReadsInv' /\ ReadOnce'
  <2>1. RowsInv'
    BY <1>1, <1>2, <1>7 DEF RowsInv, sendVars
  <2>2. JournalInv'
    BY <1>1, <1>5, <1>8 DEF JournalInv, sendVars
  <2>3. ReadsInv' /\ ReadOnce'
    BY <1>1 DEF ReadsInv, ReadOnce, sendVars
  <2> QED BY <2>1, <2>2, <2>3
<1>11. PassInv'
  <2> SUFFICES ASSUME NEW e \in Devices
               PROVE  /\ pc'[e] = "process" => todo[e] \subseteq PendingDecrypt(e)'
                      /\ pc'[e] = "page" =>
                            /\ page'[e] # {}
                            /\ \A p \in page'[e] : p.cursor > cursor[e]
                            /\ \A r \in mailbox \ late, p \in page'[e] :
                                  r.device = e /\ r.cursor > cursor[e] /\ r.cursor <= p.cursor
                                      => \E q \in page'[e] : q.cursor = r.cursor
    BY <1>1 DEF PassInv
  <2>1. PendingDecrypt(e)' = PendingDecrypt(e)
    BY <1>1 DEF PendingDecrypt
  <2>2. CASE e = d
    <3>1. pc'[e] = (IF rows = {} THEN "idle" ELSE "page") /\ page'[e] = rows
      BY <1>1, <1>7, <2>2 DEF TypeOK
    <3> QED BY <1>2, <1>3, <2>2, <3>1
  <2>3. CASE e # d
    <3>1. pc'[e] = pc[e] /\ page'[e] = page[e]
      BY <1>1, <1>7, <2>3 DEF TypeOK
    <3> QED BY <2>1, <3>1 DEF PassInv
  <2> QED BY <2>2, <2>3
<1>12. OrderedNotSkipped' /\ AckedHandled'
  BY <1>1 DEF OrderedNotSkipped, Fetchable, AckedHandled
<1> QED BY <1>4, <1>5, <1>6, <1>9, <1>10, <1>11, <1>12

\* The cursor passes only what it journals: the page is all there was, but for
\* the rows that committed late.
LEMMA JournalKeeps ==
    ASSUME MailInv, NEW d \in Devices, journal_envelopes(d)
    PROVE  MailInv'
<1> USE MailboxAssumption DEF MailInv
<1> DEFINE last == LastCursor(page[d])
<1>1. /\ UNCHANGED <<devices, sendVars, mailbox, more, reads, handled, stored, late>>
      /\ pc[d] = "page"
      /\ journal' = [journal EXCEPT ![d] =
             [c \in Cursors |-> IF \E r \in page[d] : r.cursor = c THEN "pendingDecrypt" ELSE @[c]]]
      /\ cursor' = [cursor EXCEPT ![d] = last]
      /\ todo' = [todo EXCEPT ![d] = {r.cursor : r \in page[d]}]
      /\ pc' = [pc EXCEPT ![d] = "process"]
      /\ page' = [page EXCEPT ![d] = {}]
  BY DEF journal_envelopes
<1>2. page[d] \subseteq Row /\ page[d] # {} /\ \A p \in page[d] : p.cursor > cursor[d] /\ p.cursor \in Cursors
  BY <1>1 DEF PassInv, TypeOK, Row
<1>3. (\E p \in page[d] : last = p.cursor) /\ \A p \in page[d] : p.cursor <= last
  BY <1>2, LastCursorHighest
<1> HIDE DEF last
<1>4. last \in Cursors /\ last > cursor[d]
  BY <1>2, <1>3
<1>5. /\ \A e \in Devices : e # d => /\ journal'[e] = journal[e] /\ cursor'[e] = cursor[e]
                                     /\ todo'[e] = todo[e] /\ pc'[e] = pc[e] /\ page'[e] = page[e]
      /\ cursor'[d] = last /\ todo'[d] = {r.cursor : r \in page[d]} /\ pc'[d] = "process"
      /\ page'[d] = {}
      /\ \A c \in Cursors : journal'[d][c] =
            IF \E r \in page[d] : r.cursor = c THEN "pendingDecrypt" ELSE journal[d][c]
  BY <1>1 DEF TypeOK
<1>6. TypeOK'
  <2>1. journal' \in [Devices -> [Cursors -> {"none", "pendingDecrypt", "pendingAck"}]]
    <3>1. [c \in Cursors |-> IF \E r \in page[d] : r.cursor = c THEN "pendingDecrypt" ELSE journal[d][c]]
             \in [Cursors -> {"none", "pendingDecrypt", "pendingAck"}]
      BY DEF TypeOK
    <3> QED BY <1>1, <3>1 DEF TypeOK
  <2>2. cursor' \in [Devices -> 0 .. MaxCursor]
    BY <1>1, <1>4 DEF TypeOK, Cursors
  <2>3. todo' \in [Devices -> SUBSET Cursors]
    BY <1>1, <1>2 DEF TypeOK
  <2>4. pc' \in [Devices -> {"idle", "process", "acked", "drain", "page"}] /\ page' \in [Devices -> SUBSET Row]
    BY <1>1 DEF TypeOK
  <2> QED BY <1>1, <2>1, <2>2, <2>3, <2>4 DEF TypeOK, sendVars
<1>7. CursorsDrawn' /\ OpenInv' /\ \A c : Drawn(c)' <=> Drawn(c)
  BY <1>1, SendsStand
<1>8. ListedInv'
  BY <1>1 DEF ListedInv, StoresFor, IsOpen, Listed, Expired, sendVars
<1>9. \A p \in page[d] : p.cursor \in Known(d) /\ p.cursor \notin Got(d)
  <2>1. ASSUME NEW p \in page[d] PROVE p.cursor \notin Got(d)
    <3>1. p.cursor > cursor[d] /\ p.cursor \in Nat /\ cursor[d] \in Nat
      BY <1>2 DEF TypeOK, Cursors
    <3> QED BY <3>1 DEF JournalInv
  <2> QED BY <2>1 DEF Known
<1>10. /\ \A e \in Devices : e # d => Got(e)' = Got(e)
       /\ Got(d)' = Got(d) \cup {r.cursor : r \in page[d]}
  <2>1. ASSUME NEW c \in Cursors
        PROVE  (journal'[d][c] # "none" \/ c \in handled[d])
                  <=> (journal[d][c] # "none" \/ c \in handled[d] \/ \E r \in page[d] : r.cursor = c)
    BY <1>5
  <2> QED BY <1>1, <1>2, <1>5, <2>1 DEF Got
<1>11. \A e \in Devices : Known(e)' \subseteq Known(e)
  <2> SUFFICES ASSUME NEW e \in Devices PROVE Known(e)' \subseteq Known(e)
    OBVIOUS
  <2>1. CASE e = d
    BY <1>1, <1>5, <1>10, <2>1 DEF Known
  <2>2. CASE e # d
    BY <1>1, <1>5, <1>10, <2>2 DEF Known
  <2> QED BY <2>1, <2>2
<1>12. KnownInv'
  BY <1>1, <1>11, KnownShrinks
<1>13. RowsInv' /\ ReadsInv' /\ ReadOnce'
  BY <1>1, <1>5 DEF RowsInv, ReadsInv, ReadOnce, sendVars
<1>14. JournalInv'
  <2> SUFFICES ASSUME NEW e \in Devices
               PROVE  /\ cursor'[e] < nextCursor /\ ~ Drawn(cursor'[e])
                      /\ \A c \in Got(e)' : c <= cursor'[e]
                      /\ \A c \in Cursors :
                            /\ journal'[e][c] = "pendingAck" => c \in handled[e]
                            /\ journal'[e][c] = "pendingDecrypt" => c \notin handled[e]
    <3>1. \A e \in Devices : Drawn(cursor[e])' <=> Drawn(cursor'[e])
      BY <1>1 DEF Drawn, sendVars
    <3> QED BY <1>1, <3>1 DEF JournalInv, sendVars
  <2>1. CASE e = d
    <3>1. last < nextCursor /\ ~ Drawn(last)
      BY <1>3, <1>9 DEF KnownInv
    <3>2. ASSUME NEW c \in Got(d)' PROVE c <= last
      <4>1. CASE c \in Got(d)
        <5>1. c \in Nat /\ c <= cursor[d] /\ cursor[d] \in Nat /\ last \in Nat
          BY <1>4, <4>1 DEF JournalInv, Got, TypeOK, Cursors
        <5> QED BY <1>4, <5>1
      <4>2. CASE c \in {r.cursor : r \in page[d]}
        BY <1>3, <4>2
      <4> QED BY <1>10, <4>1, <4>2
    <3>3. ASSUME NEW c \in Cursors
          PROVE  /\ journal'[d][c] = "pendingAck" => c \in handled[d]
                 /\ journal'[d][c] = "pendingDecrypt" => c \notin handled[d]
      <4>1. CASE \E r \in page[d] : r.cursor = c
        BY <1>5, <1>9, <4>1 DEF Got
      <4>2. CASE ~ \E r \in page[d] : r.cursor = c
        BY <1>5, <4>2 DEF JournalInv
      <4> QED BY <4>1, <4>2
    <3> QED BY <1>5, <2>1, <3>1, <3>2, <3>3
  <2>2. CASE e # d
    BY <1>5, <1>10, <2>2 DEF JournalInv
  <2> QED BY <2>1, <2>2
<1>15. PassInv'
  <2> SUFFICES ASSUME NEW e \in Devices
               PROVE  /\ pc'[e] = "process" => todo'[e] \subseteq PendingDecrypt(e)'
                      /\ pc'[e] = "page" => e # d
    BY <1>1, <1>5 DEF PassInv
  <2>1. CASE e = d
    BY <1>2, <1>5, <2>1 DEF PendingDecrypt
  <2>2. CASE e # d
    BY <1>5, <2>2 DEF PendingDecrypt, PassInv
  <2> QED BY <2>1, <2>2
<1>16. OrderedNotSkipped'
  <2> SUFFICES ASSUME NEW r \in mailbox, r \notin late PROVE Fetchable(r)'
    BY <1>1 DEF OrderedNotSkipped
  <2>1. Fetchable(r) /\ r.device \in Devices /\ r.cursor \in Cursors
    BY DEF OrderedNotSkipped, TypeOK, Row
  <2>2. CASE r.device # d
    BY <1>1, <1>5, <2>1, <2>2 DEF Fetchable
  <2>3. CASE r.device = d
    <3>1. CASE r.cursor > cursor[d]
      <4>1. CASE r.cursor > last
        BY <1>5, <2>3, <4>1 DEF Fetchable
      <4>2. CASE ~ (r.cursor > last)
        <5>1. r.cursor <= last
          BY <1>4, <2>1, <4>2 DEF Cursors
        <5>2. \E q \in page[d] : q.cursor = r.cursor
          BY <1>1, <1>3, <2>3, <3>1, <5>1 DEF PassInv
        <5> QED BY <1>5, <2>1, <2>3, <5>2 DEF Fetchable
      <4> QED BY <4>1, <4>2
    <3>2. CASE journal[d][r.cursor] # "none" \/ r.cursor \in handled[d]
      BY <1>1, <1>5, <2>1, <2>3, <3>2 DEF Fetchable
    <3> QED BY <2>1, <2>3, <3>1, <3>2 DEF Fetchable
  <2> QED BY <2>2, <2>3
<1>17. AckedHandled'
  BY <1>1 DEF AckedHandled
<1> QED BY <1>6, <1>7, <1>8, <1>12, <1>13, <1>14, <1>15, <1>16, <1>17
-----------------------------------------------------------------------------
(* The theorems.                                                           *)

LEMMA MailStart == Init => MailInv
<1> SUFFICES ASSUME Init PROVE MailInv
  OBVIOUS
<1> USE MailboxAssumption DEF Init
<1>1. TypeOK
  BY DEF TypeOK, Cursors
<1>2. \A c : ~ Drawn(c)
  BY DEF Drawn
<1>3. \A d \in Devices : Known(d) = {} /\ Got(d) = {}
  BY DEF Known, Got
<1>4. CursorsDrawn /\ OpenInv /\ KnownInv /\ RowsInv
  BY <1>3 DEF CursorsDrawn, OpenInv, KnownInv, RowsInv
<1>5. JournalInv /\ PassInv
  BY <1>2, <1>3 DEF JournalInv, PassInv
<1>6. OrderedNotSkipped /\ AckedHandled /\ ReadsInv /\ ReadOnce /\ ListedInv
  BY DEF OrderedNotSkipped, AckedHandled, ReadsInv, ReadOnce, ListedInv, IsOpen
<1> QED BY <1>1, <1>4, <1>5, <1>6 DEF MailInv

LEMMA MailStep == MailInv /\ [Next]_vars => MailInv'
<1> SUFFICES ASSUME MailInv, [Next]_vars PROVE MailInv'
  OBVIOUS
<1>1. CASE UNCHANGED vars
  <2>1. UNCHANGED <<devices, sendVars, mailbox, clientVars, stored, late>>
    BY <1>1 DEF vars, sendVars, clientVars
  <2>2. TypeOK' /\ CursorsDrawn' /\ OpenInv' /\ RowsInv'
    BY <2>1, SendsStand DEF MailInv, TypeOK, RowsInv, sendVars, clientVars
  <2>3. \A d \in Devices : Known(d)' = Known(d) /\ Got(d)' = Got(d)
    BY <2>1 DEF Known, Got, clientVars
  <2>4. KnownInv'
    BY <2>1, <2>3, KnownShrinks DEF MailInv
  <2>5. JournalInv' /\ PassInv' /\ ListedInv'
    BY <2>1, <2>3 DEF MailInv, JournalInv, PassInv, PendingDecrypt, ListedInv, StoresFor, Drawn,
                      IsOpen, Listed, Expired, sendVars, clientVars
  <2>6. OrderedNotSkipped' /\ AckedHandled' /\ ReadsInv' /\ ReadOnce'
    BY <2>1 DEF MailInv, OrderedNotSkipped, Fetchable, AckedHandled, ReadsInv, ReadOnce,
       sendVars, clientVars
  <2> QED BY <2>2, <2>4, <2>5, <2>6 DEF MailInv
<1>2. CASE \E s \in Sends : claim_send(s) \/ commit_send(s) \/ rollback_send(s)
  BY <1>2, ClaimKeeps, CommitKeeps, RollbackKeeps
<1>3. CASE \E s \in Sends, d \in Devices : insert_envelope(s, d)
  BY <1>3, InsertKeeps
<1>4. CASE \E d \in Devices : register_device(d) \/ revoke_device(d) \/ expire_device(d)
  BY <1>4, DevicesKeep, ExpiryKeeps
<1>5. CASE \E r \in mailbox : sweep_mailbox(r)
  BY <1>5, SweepKeeps
<1>6. CASE \E d \in Online : Client(d) \/ stop_pass(d)
  <2>1. PICK d \in Devices : Client(d) \/ stop_pass(d)
    BY <1>6, MailboxAssumption
  <2> QED BY <2>1, PassKeeps, ProcessKeeps, AckKeeps, FinishKeeps, DrainKeeps, JournalKeeps DEF Client
<1>7. CASE \/ \E s \in Sends : sweep_sends(s)
           \/ \E s \in Sends, d \in Devices : sweep_multi_send_ids(s, d)
  BY <1>7, ForgetKeeps
<1> QED BY <1>1, <1>2, <1>3, <1>4, <1>5, <1>6, <1>7 DEF Next

LEMMA MailAlways == Spec => []MailInv
BY MailStart, MailStep, PTL DEF Spec

\* The state stays well formed and every row that committed in the order of the
\* cursors stays within its device's reach, however pages and passes are cut.
THEOREM MailboxInOrder == Spec => []MailboxInv
<1>1. MailInv => MailboxInv
  BY DEF MailInv, MailboxInv
<1> QED BY <1>1, MailAlways, PTL

\* A row leaves the mailbox only when its device has handled it.
THEOREM MailboxAcked == Spec => []AckedHandled
<1>1. MailInv => AckedHandled
  BY DEF MailInv
<1> QED BY <1>1, MailAlways, PTL

\* A device reads a send once while its claim is kept, whatever the sender retries
\* and the client drains again: only a retry after the sweep is read anew.
THEOREM MailboxReadOnce == Spec => []ReadOnce
<1>1. MailInv => ReadOnce
  BY DEF MailInv
<1> QED BY <1>1, MailAlways, PTL

\* A direct send commits its rows for every device listed then, none of which it
\* had stored for, and for no other but one that expired after it began: devices
\* are added and dropped only around it.
THEOREM MailboxStoredForListed == Spec => StoredForListed
<1> DEFINE Rows(s) == {r.device : r \in {q \in mailbox' \ mailbox : q.send = s}}
           Stores == \A s \in claims' \ claims :
                         Listed' \subseteq Rows(s) /\ Rows(s) \subseteq Listed' \cup Expired'
<1>1. MailInv /\ [Next]_vars => [Stores]_vars
  <2> SUFFICES ASSUME MailInv, Next, NEW s \in claims' \ claims
               PROVE  Listed' \subseteq Rows(s) /\ Rows(s) \subseteq Listed' \cup Expired'
    BY DEF vars
  <2>1. PICK t \in Sends : commit_send(t)
    <3>1. CASE \/ \E u \in Sends : claim_send(u) \/ rollback_send(u)
               \/ \E u \in Sends, d \in Devices : insert_envelope(u, d)
      BY <3>1 DEF claim_send, rollback_send, insert_envelope
    <3>2. CASE \/ \E d \in Devices : register_device(d) \/ revoke_device(d) \/ expire_device(d)
               \/ \E r \in mailbox : sweep_mailbox(r)
      BY <3>2 DEF register_device, revoke_device, expire_device, sweep_mailbox, sendVars
    <3>3. CASE \/ \E u \in Sends : sweep_sends(u)
               \/ \E u \in Sends, d \in Devices : sweep_multi_send_ids(u, d)
      BY <3>3 DEF sweep_sends, sweep_multi_send_ids
    <3>4. CASE \E d \in Online : Client(d) \/ stop_pass(d)
      BY <3>4 DEF Client, receive_pass, process_inbound, ack_messages, finish_acks, drain,
             journal_envelopes, stop_pass, sendVars
    <3> QED BY <3>1, <3>2, <3>3, <3>4 DEF Next
  <2>2. s = t /\ s \in Sends \ Multi /\ s \notin claims
    BY <2>1 DEF commit_send
  <2>3. /\ owed[s] = {} /\ open[s] # {} /\ mailbox' = mailbox \cup open[s] /\ devices' = devices
    BY <2>1, <2>2 DEF commit_send
  \* A row of the mailbox has a cursor that nothing open has.
  <2>4. \A r \in open[s] : r \notin mailbox
    <3> SUFFICES ASSUME NEW r \in open[s], r \in mailbox PROVE FALSE
      OBVIOUS
    <3>1. r.device \in Devices /\ r.cursor \in Known(r.device)
      BY DEF MailInv, TypeOK, Row, Known
    <3>2. Drawn(r.cursor)
      BY <2>2 DEF Drawn
    <3> QED BY <3>1, <3>2 DEF MailInv, KnownInv
  <2>5. \A r \in open[s] : r.send = s
    BY <2>2 DEF MailInv, OpenInv
  <2>6. {q \in mailbox' \ mailbox : q.send = s} = open[s]
    BY <2>3, <2>4, <2>5
  <2>7. Rows(s) = StoresFor(s)
    BY <2>3, <2>6 DEF StoresFor
  <2>8. Listed \subseteq StoresFor(s) /\ StoresFor(s) \subseteq Listed \cup Expired
    BY <2>2, <2>3 DEF MailInv, ListedInv, IsOpen
  <2> QED BY <2>3, <2>7, <2>8 DEF Listed, Expired
<1> QED BY <1>1, MailAlways, PTL DEF Spec, StoredForListed
=============================================================================

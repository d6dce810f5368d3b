------------------------- MODULE TurnRepositoryProofs -------------------------
(***************************************************************************)
(* Proofs about TurnRepository, for any number of processes, Sessions and  *)
(* Turns and any lease term: type correctness, the agreement of the lock   *)
(* table with the ingress table, the uniqueness of the Turn of a client    *)
(* request, the finality of an outcome, the safety of a live lease, and    *)
(* what can end a deletion fence.                                          *)
(***************************************************************************)
EXTENDS TurnRepository, TLAPS

RowTable == [Turns -> IngressRow \cup {NoRow}]
WorkKinds == TurnKinds \cup TurnDeletingKinds

\* rows2 is rows with some accepted Turns settled, and nothing else.
OnlySettles(rows, rows2) ==
  \A t \in Turns :
    rows2[t] # rows[t] =>
      /\ rows[t].status = "accepted"
      /\ rows2[t].status \in Terminal
      /\ rows2[t].session = rows[t].session
      /\ rows2[t].seq = rows[t].seq
      /\ rows2[t].request = rows[t].request

\* ... and none of them outside Session s.
OnlySettlesIn(rows, rows2, s) ==
  /\ OnlySettles(rows, rows2)
  /\ \A t \in Turns : rows2[t] # rows[t] => rows[t].session = s

-----------------------------------------------------------------------------
(* Types of the pieces of the transactions.                                *)

\* An accepted Turn of Session s has a proper row of that Session.
LEMMA AcceptedRow ==
  ASSUME NEW rows \in RowTable, NEW s, NEW t \in AcceptedIn(rows, s)
  PROVE  t \in Turns /\ rows[t] \in IngressRow /\ rows[t].session = s
BY DEF RowTable, AcceptedIn, NoRow

\* Settling accepted Turns of s changes the outcome column of s and nothing else.
LEMMA SettledRows ==
  ASSUME NEW rows \in RowTable, NEW T, NEW s, T \subseteq AcceptedIn(rows, s),
         NEW o \in Terminal
  PROVE  /\ Settled(rows, T, o) \in RowTable
         /\ OnlySettlesIn(rows, Settled(rows, T, o), s)
<1>1. \A t \in T : t \in Turns /\ rows[t] \in IngressRow /\ rows[t].session = s
                   /\ rows[t].status = "accepted"
  BY AcceptedRow DEF AcceptedIn
<1>2. \A t \in T : /\ [rows[t] EXCEPT !.status = o] \in IngressRow
                   /\ [rows[t] EXCEPT !.status = o].status = o
                   /\ [rows[t] EXCEPT !.status = o].session = rows[t].session
                   /\ [rows[t] EXCEPT !.status = o].seq = rows[t].seq
                   /\ [rows[t] EXCEPT !.status = o].request = rows[t].request
  BY <1>1 DEF IngressRow, Terminal
<1>3. Settled(rows, T, o) \in RowTable
  BY <1>1, <1>2 DEF Settled, RowTable
<1>4. OnlySettlesIn(rows, Settled(rows, T, o), s)
  BY <1>1, <1>2 DEF Settled, OnlySettlesIn, OnlySettles
<1> QED BY <1>3, <1>4

\* findLatestAcceptedTurn returns an accepted Turn of the Session.
LEMMA LatestIsAccepted ==
  ASSUME NEW rows, NEW s
  PROVE  LatestAccepted(rows, s) \subseteq AcceptedIn(rows, s)
BY DEF LatestAccepted

\* The promoted fence is a lock row with the owner it was promoted from.
LEMMA FenceType ==
  ASSUME TypeOK, NEW l \in LockRow
  PROVE  /\ Fence(l) \in LockRow
         /\ Fence(l).kind = "session-deletion"
         /\ Fence(l).lease = l.lease
         /\ Fence(l).rt = l.rt
<1>1. now \in Nat
  BY DEF TypeOK
<1>2. Forever \in 0..Forever
  BY LeaseTermAssumption DEF LeaseTermAssumption, Forever
<1>3. "session-deletion" \in OwnerKinds
  BY DEF OwnerKinds, DeletionKinds
<1> QED BY <1>1, <1>2, <1>3 DEF Fence, LockRow

\* A fresh lock row has its kind and a lease nobody was given before.
LEMMA NewLockType ==
  ASSUME TypeOK, NEW r \in Runtimes, NEW kind \in OwnerKinds, NEW ttl \in 0..Forever
  PROVE  /\ NewLock(r, kind, ttl) \in LockRow
         /\ NewLock(r, kind, ttl).kind = kind
         /\ NewLock(r, kind, ttl).lease = now + 1
BY DEF TypeOK, NewLock, LockRow

\* An absent lock is no lock row, and the kinds of the work locks are not
\* those of fences and maintenance.
LEMMA NoLockFacts ==
  /\ NoLock.kind = "none"
  /\ "none" \notin OwnerKinds
  /\ NoLock \notin LockRow
  /\ \A l \in LockRow \cup {NoLock} : l.kind = "none" <=> l = NoLock
  /\ WorkKinds \subseteq OwnerKinds \ {"session-deletion", "maintenance", "maintenance-deleting"}
BY DEF NoLock, OwnerKinds, TurnKinds, DeletionKinds, TurnDeletingKinds, LockRow, WorkKinds

\* releaseOrPromoteDeletionFence leaves no lock or a fence.
LEMMA ReleaseType ==
  ASSUME TypeOK, NEW l \in LockRow \cup {NoLock}
  PROVE  /\ ReleaseOrPromoteDeletionFence(l) \in LockRow \cup {NoLock}
         /\ ReleaseOrPromoteDeletionFence(l).kind \in {"none", "session-deletion"}
BY FenceType, NoLockFacts DEF ReleaseOrPromoteDeletionFence, NoLock, TurnDeletingKinds

\* recoverPendingSettlementInTransaction settles Turns of its Session only.
LEMMA PendingType ==
  ASSUME TypeOK, NEW r \in Runtimes, NEW s \in Sessions
  PROVE  /\ LockAfterPending(r, s) \in LockRow \cup {NoLock}
         /\ RowsAfterPending(r, s) \in RowTable
         /\ OnlySettlesIn(row, RowsAfterPending(r, s), s)
<1>1. lock[s] \in LockRow \cup {NoLock} /\ row \in RowTable
  BY DEF TypeOK, RowTable
<1>2. OnlySettlesIn(row, row, s)
  BY DEF OnlySettlesIn, OnlySettles
<1>3. CASE PendingApplies(r, s)
  <2>1. {pending[r][s].turn} \subseteq AcceptedIn(row, s)
    BY <1>3 DEF PendingApplies
  <2>2. Settled(row, {pending[r][s].turn}, "failed") \in RowTable
        /\ OnlySettlesIn(row, Settled(row, {pending[r][s].turn}, "failed"), s)
    BY <1>1, <2>1, SettledRows DEF Terminal
  <2> QED BY <1>1, <1>3, <2>2, ReleaseType DEF LockAfterPending, RowsAfterPending
<1>4. CASE ~PendingApplies(r, s)
  BY <1>1, <1>2, <1>4 DEF LockAfterPending, RowsAfterPending
<1> QED BY <1>3, <1>4

\* recoverExpiredSessionLock settles Turns of its Session only.
LEMMA ExpiryType ==
  ASSUME TypeOK, NEW l \in LockRow \cup {NoLock}, NEW rows \in RowTable, NEW s
  PROVE  /\ LockAfterExpiry(l) \in LockRow \cup {NoLock}
         /\ RowsAfterExpiry(l, rows, s) \in RowTable
         /\ OnlySettlesIn(rows, RowsAfterExpiry(l, rows, s), s)
<1>1. Settled(rows, LatestAccepted(rows, s), "failed") \in RowTable
      /\ OnlySettlesIn(rows, Settled(rows, LatestAccepted(rows, s), "failed"), s)
  BY SettledRows, LatestIsAccepted DEF Terminal
<1>2. OnlySettlesIn(rows, rows, s)
  BY DEF OnlySettlesIn, OnlySettles
<1> QED BY <1>1, <1>2 DEF LockAfterExpiry, RowsAfterExpiry

\* Two settlements of one Session in one transaction are one settlement.
LEMMA SettlesTransitive ==
  ASSUME NEW a \in RowTable, NEW b \in RowTable, NEW c \in RowTable, NEW s,
         OnlySettlesIn(a, b, s), OnlySettlesIn(b, c, s)
  PROVE  OnlySettlesIn(a, c, s)
<1> SUFFICES ASSUME NEW t \in Turns, c[t] # a[t]
             PROVE  /\ a[t].status = "accepted"
                    /\ c[t].status \in Terminal
                    /\ c[t].session = a[t].session
                    /\ c[t].seq = a[t].seq
                    /\ c[t].request = a[t].request
                    /\ a[t].session = s
  BY DEF OnlySettlesIn, OnlySettles
<1>1. CASE b[t] = a[t]
  BY <1>1 DEF OnlySettlesIn, OnlySettles
<1>2. CASE b[t] # a[t]
  BY <1>2 DEF OnlySettlesIn, OnlySettles, Terminal
<1> QED BY <1>1, <1>2

\* What admit does before it looks at the lock keeps the types.
LEMMA AdmissionType ==
  ASSUME TypeOK, NEW r \in Runtimes, NEW s \in Sessions
  PROVE  /\ AdmissionLock(r, s) \in LockRow \cup {NoLock}
         /\ AdmissionRows(r, s) \in RowTable
         /\ OnlySettlesIn(row, AdmissionRows(r, s), s)
BY PendingType, ExpiryType, SettlesTransitive DEF AdmissionLock, AdmissionRows, TypeOK, RowTable

\* What beginSessionDeletion does before it fences keeps the types.
LEMMA DeletionType ==
  ASSUME TypeOK, NEW r \in Runtimes, NEW s \in Sessions
  PROVE  /\ DeletionLock(r, s) \in LockRow \cup {NoLock}
         /\ DeletionRows(r, s) \in RowTable
         /\ OnlySettlesIn(row, DeletionRows(r, s), s)
<1> DEFINE l == LockAfterPending(r, s)
           rows == RowsAfterPending(r, s)
<1>1. l \in LockRow \cup {NoLock} /\ rows \in RowTable /\ OnlySettlesIn(row, rows, s)
  BY PendingType
<1>2. DeletionLock(r, s) \in LockRow \cup {NoLock}
  BY <1>1, ReleaseType, FenceType, NoLockFacts DEF DeletionLock, Expired
<1>3. Settled(rows, LatestAccepted(rows, s), "failed") \in RowTable
      /\ OnlySettlesIn(rows, Settled(rows, LatestAccepted(rows, s), "failed"), s)
  BY <1>1, SettledRows, LatestIsAccepted DEF Terminal
<1>4. row \in RowTable
  BY DEF TypeOK, RowTable
<1> HIDE DEF l, rows
<1>5. OnlySettlesIn(row, Settled(rows, LatestAccepted(rows, s), "failed"), s)
  BY <1>1, <1>3, <1>4, SettlesTransitive
<1> QED BY <1>1, <1>2, <1>3, <1>5 DEF DeletionRows, l, rows

-----------------------------------------------------------------------------
(* Type correctness.                                                       *)

\* A lease in memory belongs to a process and a Session, before and after it
\* is marked as ending.
LEMMA LeaseFacts ==
  ASSUME TypeOK, NEW h \in held
  PROVE  /\ h \in Lease /\ h.rt \in Runtimes /\ h.session \in Sessions
         /\ Ending(h) \in Lease
         /\ Ending(h).rt = h.rt
BY DEF TypeOK, Lease, Ending

\* The lease an admission returns is a lease.
LEMMA NewLeaseType ==
  ASSUME TypeOK, NEW r \in Runtimes, NEW s \in Sessions, NEW t \in Turns \cup {NoTurn}
  PROVE  NewLease(r, s, t) \in Lease
BY DEF TypeOK, NewLease, Lease

\* Forgetting a pending settlement keeps the type of the map.
LEMMA ForgetType ==
  ASSUME TypeOK, NEW r \in Runtimes, NEW s \in Sessions
  PROVE  ForgetPending(r, s) \in [Runtimes -> [Sessions -> Lease \cup {NoLease}]]
BY DEF TypeOK, ForgetPending

\* So does dropping it when its own lease is settled.
LEMMA DropType ==
  ASSUME TypeOK, NEW h \in held
  PROVE  DropPending(h) \in [Runtimes -> [Sessions -> Lease \cup {NoLease}]]
<1>1. h.rt \in Runtimes /\ h.session \in Sessions
  BY LeaseFacts
<1>2. ForgetPending(h.rt, h.session) \in [Runtimes -> [Sessions -> Lease \cup {NoLease}]]
  BY <1>1, ForgetType
<1> QED BY <1>2 DEF DropPending, TypeOK

\* Both terms a lock may be given are terms.
LEMMA LeaseTermRange == LeaseTerm \in 0..Forever /\ Forever \in 0..Forever
BY LeaseTermAssumption DEF LeaseTermAssumption, Forever

\* The empty database has the right types.
LEMMA InitType == Init => TypeOK
BY DEF Init, TypeOK, Stages

\* Each action keeps the types.
LEMMA TypeStep == TypeOK /\ [Next]_vars => TypeOK'
<1> SUFFICES ASSUME TypeOK, [Next]_vars PROVE TypeOK'
  OBVIOUS
<1> USE DEF processVars, dbVars
<1>1. ASSUME NEW r \in Runtimes, RuntimeStep(r) PROVE TypeOK'
  <2>1. CASE Start(r)
    BY <2>1 DEF Start, TypeOK
  <2>2. CASE Compromise(r) \/ Close(r)
    BY <2>2 DEF Compromise, Close, TypeOK
  <2>3. CASE Crash(r)
    BY <2>3 DEF Crash, TypeOK, Stages
  <2> QED BY <1>1, <2>1, <2>2, <2>3 DEF RuntimeStep
<1>2. ASSUME NEW r \in Runtimes, RecoverProcessRestart(r) PROVE TypeOK'
  <2>1. \A s \in Sessions : RestartLock(r, s) \in LockRow \cup {NoLock}
    BY NewLockType, LeaseTermRange DEF RestartLock, TypeOK, OwnerKinds, DeletionKinds
  <2>2. RestartFailed(r) \subseteq {t \in Turns : row[t].status = "accepted"}
    BY DEF RestartFailed, LatestAccepted, AcceptedIn
  <2>3. \A t \in RestartFailed(r) : [row[t] EXCEPT !.status = "failed"] \in IngressRow
    <3>1. \A t \in RestartFailed(r) : row[t] \in IngressRow
      BY <2>2 DEF TypeOK, NoRow
    <3> QED BY <3>1 DEF IngressRow, Terminal
  <2>4. Settled(row, RestartFailed(r), "failed") \in [Turns -> IngressRow \cup {NoRow}]
    BY <2>3 DEF Settled, TypeOK
  <2> QED BY <1>2, <2>1, <2>4 DEF RecoverProcessRestart, TypeOK
<1>3. ASSUME NEW r \in Runtimes, NEW s \in Sessions, SessionStep(r, s) PROVE TypeOK'
  <2>1. CASE AdmitRefused(r, s)
    BY <2>1, ForgetType DEF AdmitRefused, TypeOK
  <2>2. CASE AdmitRejected(r, s)
    BY <2>2, ForgetType, AdmissionType DEF AdmitRejected, TypeOK, RowTable
  <2>3. ASSUME NEW t \in Turns, NEW q \in Requests \cup {NoRequest}, NEW busy \in Busy,
               AdmitAccepted(r, s, t, q, busy)
        PROVE  TypeOK'
    <3>1. NewLock(r, busy, LeaseTerm) \in LockRow
      BY NewLockType, LeaseTermRange, BusyAssumption
         DEF BusyAssumption, OwnerKinds, TurnKinds
    <3>2. [status |-> "accepted", session |-> s, seq |-> now + 1, request |-> q] \in IngressRow
      BY DEF IngressRow, TypeOK
    <3>3. AdmissionRows(r, s) \in RowTable
      BY AdmissionType
    <3>4. NewLease(r, s, t) \in Lease
      BY NewLeaseType
    <3>5. row' \in RowTable
      BY <2>3, <3>2, <3>3 DEF AdmitAccepted, RowTable
    <3> QED BY <2>3, <3>1, <3>4, <3>5, ForgetType DEF AdmitAccepted, TypeOK, RowTable
  <2>4. CASE RecoverExpired(r, s)
    BY <2>4, ExpiryType DEF RecoverExpired, TypeOK, RowTable
  <2>5. CASE AcquireMaintenance(r, s)
    <3>1. NewLock(r, "maintenance", LeaseTerm) \in LockRow
      BY NewLockType, LeaseTermRange DEF OwnerKinds
    <3>2. NewLease(r, s, NoTurn) \in Lease
      BY NewLeaseType
    <3>3. RowsAfterExpiry(lock[s], row, s) \in RowTable
      BY ExpiryType DEF TypeOK, RowTable
    <3> QED BY <2>5, <3>1, <3>2, <3>3 DEF AcquireMaintenance, TypeOK, RowTable
  <2>6. CASE BeginMutation(r, s)
    BY <2>6 DEF BeginMutation, TypeOK
  <2>7. CASE EndMutation(r, s)
    BY <2>7 DEF EndMutation, TypeOK
  <2> QED BY <1>3, <2>1, <2>2, <2>3, <2>4, <2>5, <2>6, <2>7 DEF SessionStep
<1>4. ASSUME NEW r \in Runtimes, NEW s \in Sessions, DeletionStep(r, s) PROVE TypeOK'
  <2>1. CASE DeletionStart(r, s)
    BY <2>1 DEF DeletionStart, TypeOK, Stages
  <2>2. CASE DeletionBegin(r, s)
    <3>1. DeletionLock(r, s) \in LockRow \cup {NoLock} /\ DeletionRows(r, s) \in RowTable
      BY DeletionType
    <3>2. NewLock(r, "session-deletion", Forever) \in LockRow
      BY NewLockType, LeaseTermRange DEF OwnerKinds, DeletionKinds
    <3>3. \A l \in LockRow : [l EXCEPT !.kind = DeletingKind(l.kind)] \in LockRow
      BY DEF LockRow, DeletingKind, OwnerKinds, DeletionKinds, TurnDeletingKinds
    <3>4. lock' \in [Sessions -> LockRow \cup {NoLock}]
      BY <2>2, <3>1, <3>2, <3>3, NoLockFacts DEF DeletionBegin, TypeOK
    <3>5. now' \in Nat
      BY <2>2 DEF DeletionBegin, TypeOK
    <3> QED BY <2>2, <3>1, <3>4, <3>5, ForgetType DEF DeletionBegin, TypeOK, RowTable, Stages
  <2>3. CASE DeletionAbort(r, s)
    <3>1. held' \subseteq Lease
      BY <2>3, LeaseFacts DEF DeletionAbort
    <3> QED BY <2>3, <3>1 DEF DeletionAbort, TypeOK, Stages
  <2>4. CASE DeletionQuiescent(r, s)
    BY <2>4 DEF DeletionQuiescent, TypeOK, Stages
  <2>5. CASE DeletionPurge(r, s)
    BY <2>5, ForgetType DEF DeletionPurge, TypeOK, Stages
  <2>6. CASE DeletionCleanup(r, s)
    BY <2>6 DEF DeletionCleanup, TypeOK, Stages
  <2>7. CASE DeletionComplete(r, s)
    BY <2>7 DEF DeletionComplete, TypeOK, Stages
  <2>8. CASE DeletionNotFound(r, s)
    BY <2>8 DEF DeletionNotFound, TypeOK
  <2>9. CASE DeletionThrows(r, s)
    BY <2>9 DEF DeletionThrows, TypeOK, Stages
  <2> QED BY <1>4, <2>1, <2>2, <2>3, <2>4, <2>5, <2>6, <2>7, <2>8, <2>9 DEF DeletionStep
<1>5. ASSUME NEW h \in held, LeaseStep(h) PROVE TypeOK'
  <2>0. h \in Lease /\ h.rt \in Runtimes /\ h.session \in Sessions
    BY LeaseFacts
  <2>1. CASE Renew(h) \/ RenewMaintenance(h)
    <3>1. lock[h.session] \in LockRow
      BY <2>0, <2>1 DEF Renew, RenewMaintenance, TypeOK, NoLock
    <3>2. [lock[h.session] EXCEPT !.ttl = LeaseTerm] \in LockRow
      BY <3>1, LeaseTermRange DEF LockRow
    <3> QED BY <2>0, <2>1, <3>2 DEF Renew, RenewMaintenance, TypeOK
  <2>2. ASSUME NEW o \in Terminal, Settle(h, o) PROVE TypeOK'
    <3>1. {h.turn} \subseteq AcceptedIn(row, h.session)
      BY <2>2, LatestIsAccepted DEF Settle, OwnsTurn
    <3>2. Settled(row, {h.turn}, o) \in RowTable
      BY <3>1, SettledRows DEF TypeOK, RowTable
    <3>3. ReleaseOrPromoteDeletionFence(lock[h.session]) \in LockRow \cup {NoLock}
      BY <2>0, ReleaseType DEF TypeOK
    <3> QED BY <2>0, <2>2, <3>2, <3>3, DropType DEF Settle, TypeOK, RowTable
  <2>3. CASE SettleStale(h)
    BY <2>3, DropType DEF SettleStale, TypeOK
  <2>4. CASE SettleThrows(h)
    <3>1. Ending(h) \in Lease
      BY LeaseFacts
    <3>2. held' \subseteq Lease
      BY <2>4, <3>1 DEF SettleThrows, TypeOK
    <3> QED BY <2>0, <2>4, <3>1, <3>2 DEF SettleThrows, TypeOK
  <2>5. CASE RevokeAdmission(h)
    BY <2>0, <2>5 DEF RevokeAdmission, TypeOK
  <2>6. CASE ReleaseMaintenance(h)
    <3>1. lock[h.session] \in LockRow \cup {NoLock}
      BY <2>0 DEF TypeOK
    <3>2. lock' \in [Sessions -> LockRow \cup {NoLock}]
      BY <2>0, <2>6, <3>1, FenceType, NoLockFacts DEF ReleaseMaintenance, TypeOK
    <3> QED BY <2>6, <3>2 DEF ReleaseMaintenance, TypeOK
  <2> QED BY <1>5, <2>1, <2>2, <2>3, <2>4, <2>5, <2>6 DEF LeaseStep
<1>6. ASSUME NEW s \in Sessions, Tick(s) PROVE TypeOK'
  <2>1. lock[s] \in LockRow
    BY <1>6 DEF Tick, TypeOK, NoLock
  <2>2. lock[s].ttl - 1 \in 0..Forever
    BY <1>6, <2>1, LeaseTermAssumption DEF LeaseTermAssumption, Tick, LockRow, Forever
  <2>3. [lock[s] EXCEPT !.ttl = lock[s].ttl - 1] \in LockRow
    BY <2>1, <2>2 DEF LockRow
  <2> QED BY <1>6, <2>3 DEF Tick, TypeOK
<1>7. CASE UNCHANGED vars
  BY <1>7 DEF vars, TypeOK
<1> QED BY <1>1, <1>2, <1>3, <1>4, <1>5, <1>6, <1>7 DEF Next

\* The tables, leases, gates and deletion runs of every process keep their
\* types, whatever the number of processes, Sessions and Turns.
THEOREM TypeCorrect == Spec => []TypeOK
<1>1. Init => TypeOK
  BY InitType
<1>2. TypeOK /\ [Next]_vars => TypeOK'
  BY TypeStep
<1> QED BY <1>1, <1>2, PTL DEF Spec

-----------------------------------------------------------------------------
(* Agreement of the lock of a Session with its accepted Turns.             *)

Agrees(rows, l, s) ==
  /\ \A t \in AcceptedIn(rows, s) : l.kind \in WorkKinds /\ l.lease = rows[t].seq
  /\ l.kind \in WorkKinds => AcceptedIn(rows, s) # {}

SequencesUnique(rows) ==
  \A t, u \in Turns :
    /\ rows[t].status = "accepted" /\ rows[u].status = "accepted"
    /\ rows[t].seq = rows[u].seq
    => t = u

SequencesIssued == \A t \in Turns : row[t].seq <= now

\* The inductive invariant.  AcceptedTurnOwnsLock alone is not inductive: the
\* recoveries fail only the latest accepted Turn before they release the lock,
\* so one needs that it is the only one, hence that sequences are unique, hence
\* that each was issued by the counter.
IInv ==
  /\ TypeOK
  /\ \A s \in Sessions : Agrees(row, lock[s], s)
  /\ SequencesUnique(row)
  /\ SequencesIssued

\* In a Session that agrees with its lock, the latest accepted Turn is every
\* accepted Turn, so a recovery that fails only the latest fails them all.
LEMMA LatestIsAll ==
  ASSUME NEW rows \in RowTable, NEW l, NEW s, Agrees(rows, l, s)
  PROVE  LatestAccepted(rows, s) = AcceptedIn(rows, s)
<1>1. \A t \in AcceptedIn(rows, s) : rows[t].seq \in Nat
  BY AcceptedRow DEF IngressRow
<1>2. \A t, u \in AcceptedIn(rows, s) : rows[t].seq = rows[u].seq
  BY DEF Agrees
<1>3. \A t, u \in AcceptedIn(rows, s) : rows[u].seq <= rows[t].seq
  BY <1>1, <1>2
<1> QED BY <1>3 DEF LatestAccepted

\* Such a Session has at most one accepted Turn.
LEMMA OneAccepted ==
  ASSUME NEW rows, NEW l, NEW s, Agrees(rows, l, s), SequencesUnique(rows),
         NEW t \in AcceptedIn(rows, s)
  PROVE  AcceptedIn(rows, s) = {t}
BY DEF Agrees, SequencesUnique, AcceptedIn

\* Settling keeps the sequences of the accepted Turns distinct.
LEMMA SettlesUnique ==
  ASSUME NEW rows \in RowTable, NEW rows2 \in RowTable, OnlySettles(rows, rows2),
         SequencesUnique(rows)
  PROVE  SequencesUnique(rows2)
<1>1. \A t \in Turns : rows2[t].status = "accepted" => rows2[t] = rows[t]
  BY DEF OnlySettles, Terminal
<1> QED BY <1>1 DEF SequencesUnique

\* Settling Turns of s leaves the agreement of every other Session alone.
LEMMA SettlesElsewhere ==
  ASSUME NEW rows \in RowTable, NEW rows2 \in RowTable, NEW s, NEW x, x # s,
         OnlySettlesIn(rows, rows2, s), NEW l, Agrees(rows, l, x)
  PROVE  Agrees(rows2, l, x)
<1>1. \A t \in Turns : rows2[t].session = rows[t].session
  BY DEF OnlySettlesIn, OnlySettles
<1>2. \A t \in Turns : rows2[t] # rows[t] => rows[t].session # x
  BY DEF OnlySettlesIn
<1>3. AcceptedIn(rows2, x) = AcceptedIn(rows, x)
  BY <1>1, <1>2 DEF AcceptedIn
<1>4. \A t \in AcceptedIn(rows, x) : rows2[t] = rows[t]
  BY <1>2 DEF AcceptedIn
<1> QED BY <1>3, <1>4 DEF Agrees

\* When every accepted Turn is settled, any lock that is not a work lock agrees.
LEMMA SettledAllAgrees ==
  ASSUME NEW rows \in RowTable, NEW s, NEW T, T = AcceptedIn(rows, s),
         NEW o \in Terminal, NEW l, l.kind \notin WorkKinds
  PROVE  Agrees(Settled(rows, T, o), l, s)
<1>1. \A t \in AcceptedIn(rows, s) : [rows[t] EXCEPT !.status = o].status # "accepted"
  BY AcceptedRow DEF IngressRow, Terminal
<1>2. AcceptedIn(Settled(rows, T, o), s) = {}
  BY <1>1 DEF AcceptedIn, Settled
<1> QED BY <1>2 DEF Agrees

\* A released or promoted lock is no work lock.
LEMMA ReleasedKind ==
  ASSUME TypeOK, NEW l \in LockRow \cup {NoLock}
  PROVE  /\ ReleaseOrPromoteDeletionFence(l).kind \notin WorkKinds
         /\ NoLock.kind \notin WorkKinds
BY ReleaseType, NoLockFacts

\* recoverPendingSettlementInTransaction keeps the agreement.
LEMMA PendingAgrees ==
  ASSUME IInv, NEW r \in Runtimes, NEW s \in Sessions
  PROVE  /\ Agrees(RowsAfterPending(r, s), LockAfterPending(r, s), s)
         /\ SequencesUnique(RowsAfterPending(r, s))
<1>1. row \in RowTable /\ lock[s] \in LockRow \cup {NoLock} /\ TypeOK
  BY DEF IInv, TypeOK, RowTable
<1>2. Agrees(row, lock[s], s) /\ SequencesUnique(row)
  BY DEF IInv
<1>3. CASE PendingApplies(r, s)
  <2>1. pending[r][s].turn \in AcceptedIn(row, s)
    BY <1>3 DEF PendingApplies
  <2>2. AcceptedIn(row, s) = {pending[r][s].turn}
    BY <1>2, <2>1, OneAccepted
  <2>3. Agrees(Settled(row, {pending[r][s].turn}, "failed"),
               ReleaseOrPromoteDeletionFence(lock[s]), s)
    BY <1>1, <2>2, SettledAllAgrees, ReleasedKind DEF Terminal
  <2>4. Agrees(RowsAfterPending(r, s), LockAfterPending(r, s), s)
    BY <1>3, <2>3 DEF RowsAfterPending, LockAfterPending
  <2>5. SequencesUnique(RowsAfterPending(r, s))
    BY <1>1, <1>2, PendingType, SettlesUnique DEF OnlySettlesIn
  <2> QED BY <2>4, <2>5
<1>4. CASE ~PendingApplies(r, s)
  BY <1>2, <1>4 DEF RowsAfterPending, LockAfterPending
<1> QED BY <1>3, <1>4

\* recoverExpiredSessionLock keeps the agreement.
LEMMA ExpiryAgrees ==
  ASSUME TypeOK, NEW l \in LockRow \cup {NoLock}, NEW rows \in RowTable, NEW s,
         Agrees(rows, l, s)
  PROVE  Agrees(RowsAfterExpiry(l, rows, s), LockAfterExpiry(l), s)
<1>1. LatestAccepted(rows, s) = AcceptedIn(rows, s)
  BY LatestIsAll
<1>2. Agrees(Settled(rows, LatestAccepted(rows, s), "failed"), NoLock, s)
  BY <1>1, SettledAllAgrees, ReleasedKind DEF Terminal
<1> QED BY <1>2 DEF RowsAfterExpiry, LockAfterExpiry

\* So do both together, at the start of admit.
LEMMA AdmissionAgrees ==
  ASSUME IInv, NEW r \in Runtimes, NEW s \in Sessions
  PROVE  Agrees(AdmissionRows(r, s), AdmissionLock(r, s), s)
<1>1. TypeOK
  BY DEF IInv
<1> QED BY <1>1, PendingAgrees, PendingType, ExpiryAgrees DEF AdmissionRows, AdmissionLock

\* So does the recovery at the start of beginSessionDeletion.
LEMMA DeletionAgrees ==
  ASSUME IInv, NEW r \in Runtimes, NEW s \in Sessions
  PROVE  Agrees(DeletionRows(r, s), DeletionLock(r, s), s)
<1> DEFINE l == LockAfterPending(r, s)
           rows == RowsAfterPending(r, s)
<1>0. TypeOK
  BY DEF IInv
<1>1. l \in LockRow \cup {NoLock} /\ rows \in RowTable /\ Agrees(rows, l, s)
  BY <1>0, PendingType, PendingAgrees
<1>2. DeletionRows(r, s) = IF Expired(l) /\ l.kind \in WorkKinds
                           THEN Settled(rows, LatestAccepted(rows, s), "failed") ELSE rows
  BY DEF DeletionRows, WorkKinds
<1>3. DeletionLock(r, s) = IF ~Expired(l) \/ l.kind = "session-deletion" THEN l
                           ELSE IF l.kind = "maintenance-deleting" THEN Fence(l)
                           ELSE ReleaseOrPromoteDeletionFence(l)
  BY DEF DeletionLock
<1> HIDE DEF l, rows
<1>4. CASE Expired(l) /\ l.kind \in WorkKinds
  <2>1. LatestAccepted(rows, s) = AcceptedIn(rows, s)
    BY <1>1, LatestIsAll
  <2>2. DeletionLock(r, s) = ReleaseOrPromoteDeletionFence(l)
    BY <1>3, <1>4, NoLockFacts
  <2> QED BY <1>0, <1>1, <1>2, <1>4, <2>1, <2>2, SettledAllAgrees, ReleasedKind DEF Terminal
<1>5. CASE ~Expired(l)
  BY <1>1, <1>2, <1>3, <1>5
<1>6. CASE Expired(l) /\ l.kind \notin WorkKinds
  <2>1. AcceptedIn(rows, s) = {}
    BY <1>1, <1>6 DEF Agrees
  <2>2. DeletionLock(r, s).kind \notin WorkKinds
    BY <1>0, <1>1, <1>3, <1>6, ReleasedKind, FenceType, NoLockFacts DEF Expired
  <2> QED BY <1>2, <1>6, <2>1, <2>2 DEF Agrees
<1> QED BY <1>4, <1>5, <1>6

\* A step that settles Turns of one Session and moves only its lock.
LEMMA OneSessionStep ==
  ASSUME IInv, TypeOK', NEW s \in Sessions, now <= now',
         OnlySettlesIn(row, row', s),
         \A x \in Sessions \ {s} : lock'[x] = lock[x],
         Agrees(row', lock'[s], s)
  PROVE  IInv'
<1>1. row \in RowTable /\ row' \in RowTable /\ now \in Nat /\ now' \in Nat
  BY DEF IInv, TypeOK, RowTable
<1>2. \A x \in Sessions : Agrees(row', lock'[x], x)
  <2> SUFFICES ASSUME NEW x \in Sessions, x # s PROVE Agrees(row', lock'[x], x)
    OBVIOUS
  <2> QED BY <1>1, SettlesElsewhere DEF IInv
<1>3. SequencesUnique(row')
  BY <1>1, SettlesUnique DEF IInv, OnlySettlesIn
<1>4. \A t \in Turns : row'[t].seq = row[t].seq
  BY DEF OnlySettlesIn, OnlySettles
<1>5. \A t \in Turns : row[t].seq \in Nat
  BY <1>1 DEF RowTable, IngressRow, NoRow
<1>6. SequencesIssued'
  BY <1>1, <1>4, <1>5 DEF IInv, SequencesIssued
<1> QED BY <1>2, <1>3, <1>6 DEF IInv, Agrees, SequencesUnique, AcceptedIn, WorkKinds

\* A step that leaves the ingress table alone, and every lock's owner too.
LEMMA QuietStep ==
  ASSUME IInv, TypeOK', now <= now', row' = row,
         \A x \in Sessions : lock'[x].kind = lock[x].kind /\ lock'[x].lease = lock[x].lease
  PROVE  IInv'
<1>1. row \in RowTable /\ now \in Nat /\ now' \in Nat
  BY DEF IInv, TypeOK, RowTable
<1>2. \A t \in Turns : row[t].seq \in Nat
  BY <1>1 DEF RowTable, IngressRow, NoRow
<1>3. SequencesIssued'
  BY <1>1, <1>2 DEF IInv, SequencesIssued
<1> QED BY <1>3 DEF IInv, Agrees, SequencesUnique, AcceptedIn, WorkKinds

\* A table is itself with no Turn settled.
LEMMA NoneSettled ==
  ASSUME NEW rows, NEW s
  PROVE  OnlySettlesIn(rows, rows, s)
BY DEF OnlySettlesIn, OnlySettles

\* insertAdmission: the one step that adds an accepted Turn.
LEMMA AdmitKeeps ==
  ASSUME IInv, TypeOK', NEW r \in Runtimes, NEW s \in Sessions, NEW t \in Turns,
         NEW q \in Requests \cup {NoRequest}, NEW busy \in Busy,
         AdmitAccepted(r, s, t, q, busy)
  PROVE  IInv'
<1> DEFINE rows == AdmissionRows(r, s)
           new == [status |-> "accepted", session |-> s, seq |-> now + 1, request |-> q]
<1>0. TypeOK /\ now \in Nat /\ now' = now + 1 /\ row \in RowTable
  BY DEF IInv, TypeOK, AdmitAccepted, RowTable
<1>1. rows \in RowTable /\ OnlySettlesIn(row, rows, s)
  BY <1>0, AdmissionType
<1>2. Agrees(rows, NoLock, s)
  BY AdmissionAgrees DEF AdmitAccepted
<1>3. AcceptedIn(rows, s) = {}
  BY <1>2, NoLockFacts DEF Agrees
<1>4. rows[t].status = "none"
  BY DEF AdmitAccepted, IsDuplicate
<1>5. row' = [rows EXCEPT ![t] = new]
  BY DEF AdmitAccepted
<1>6. lock'[s] = NewLock(r, busy, LeaseTerm) /\ \A x \in Sessions \ {s} : lock'[x] = lock[x]
  BY <1>0 DEF AdmitAccepted, TypeOK
<1>7. lock'[s].kind = busy /\ lock'[s].lease = now + 1
  BY <1>6 DEF NewLock
<1>8. busy \in WorkKinds
  BY BusyAssumption DEF BusyAssumption, WorkKinds, TurnKinds
<1>9. SequencesUnique(rows) /\ \A u \in Turns : rows[u].seq \in Nat /\ rows[u].seq <= now
  <2>1. SequencesUnique(rows)
    BY <1>0, <1>1, SettlesUnique DEF IInv, OnlySettlesIn
  <2>2. \A u \in Turns : rows[u].seq = row[u].seq
    BY <1>1 DEF OnlySettlesIn, OnlySettles
  <2>3. \A u \in Turns : row[u].seq \in Nat
    BY <1>0 DEF RowTable, IngressRow, NoRow
  <2> QED BY <2>1, <2>2, <2>3 DEF IInv, SequencesIssued
<1> HIDE DEF rows
<1>10. \A u \in Turns \ {t} : row'[u] = rows[u]
  BY <1>1, <1>5 DEF RowTable
<1>11. row'[t] = new
  BY <1>1, <1>5 DEF RowTable
<1>12. AcceptedIn(row', s) = {t}
  BY <1>3, <1>10, <1>11 DEF AcceptedIn
<1>13. Agrees(row', lock'[s], s)
  BY <1>7, <1>8, <1>11, <1>12 DEF Agrees
<1>14. ASSUME NEW x \in Sessions, x # s PROVE Agrees(row', lock'[x], x)
  <2>1. Agrees(rows, lock[x], x)
    BY <1>0, <1>1, <1>14, SettlesElsewhere DEF IInv
  <2>2. AcceptedIn(row', x) = AcceptedIn(rows, x) /\ t \notin AcceptedIn(rows, x)
    BY <1>4, <1>10, <1>11, <1>14 DEF AcceptedIn
  <2>3. \A u \in AcceptedIn(rows, x) : row'[u] = rows[u]
    BY <1>10, <2>2 DEF AcceptedIn
  <2> QED BY <1>6, <1>14, <2>1, <2>2, <2>3 DEF Agrees
<1>15. SequencesUnique(row')
  BY <1>0, <1>9, <1>10, <1>11 DEF SequencesUnique
<1>16. SequencesIssued'
  BY <1>0, <1>9, <1>10, <1>11 DEF SequencesIssued
<1> QED BY <1>13, <1>14, <1>15, <1>16 DEF IInv, Agrees, SequencesUnique, AcceptedIn, WorkKinds

\* The two steps that remove rows: revokeAdmission and deleteSessionData.
LEMMA RemoveKeeps ==
  ASSUME IInv, TypeOK', NEW s \in Sessions, now' = now,
         \A t \in Turns : row'[t] = row[t] \/ row'[t] = NoRow,
         \A t \in Turns : row'[t] # row[t] /\ row[t].status = "accepted" => row[t].session = s,
         \A x \in Sessions \ {s} : lock'[x] = lock[x],
         AcceptedIn(row', s) = {}, lock'[s].kind \notin WorkKinds
  PROVE  IInv'
<1>1. ASSUME NEW x \in Sessions, x # s PROVE Agrees(row', lock'[x], x)
  <2>1. \A t \in Turns : row[t].status = "accepted" /\ row[t].session = x => row'[t] = row[t]
    BY <1>1
  <2>2. AcceptedIn(row', x) = AcceptedIn(row, x)
    BY <2>1 DEF AcceptedIn, NoRow
  <2> QED BY <1>1, <2>1, <2>2 DEF IInv, Agrees, AcceptedIn
<1>2. Agrees(row', lock'[s], s)
  BY DEF Agrees
<1>3. SequencesUnique(row')
  BY DEF IInv, SequencesUnique, NoRow
<1>4. SequencesIssued'
  <2>1. now \in Nat /\ \A t \in Turns : row[t].seq <= now
    BY DEF IInv, TypeOK, SequencesIssued
  <2>2. \A t \in Turns : row'[t].seq = row[t].seq \/ row'[t].seq = 0
    BY DEF NoRow
  <2> QED BY <2>1, <2>2 DEF SequencesIssued
<1> QED BY <1>1, <1>2, <1>3, <1>4 DEF IInv, Agrees, SequencesUnique, AcceptedIn, WorkKinds

\* recoverProcessRestart: each Session either keeps its lock and its rows or
\* loses both its lock and its accepted Turn.
LEMMA RestartKeeps ==
  ASSUME IInv, TypeOK', NEW r \in Runtimes, RecoverProcessRestart(r)
  PROVE  IInv'
<1> DEFINE F == RestartFailed(r)
<1>0. TypeOK /\ row \in RowTable /\ now \in Nat /\ now' = now + 1
  BY DEF IInv, TypeOK, RowTable, RecoverProcessRestart
<1>1. F = UNION {AcceptedIn(row, x) : x \in {y \in Sessions : Orphaned(r, y) /\ lock[y].kind \in WorkKinds}}
  <2>1. \A x \in Sessions : LatestAccepted(row, x) = AcceptedIn(row, x)
    BY <1>0, LatestIsAll DEF IInv
  <2> QED BY <2>1 DEF RestartFailed, WorkKinds
<1>2. \A t \in F : row[t].status = "accepted" /\ t \in Turns
  BY <1>1 DEF AcceptedIn
<1>3. \A t \in Turns : row'[t] = IF t \in F THEN [row[t] EXCEPT !.status = "failed"] ELSE row[t]
  BY DEF RecoverProcessRestart, Settled
<1>4. \A t \in F : /\ row'[t].status = "failed" /\ row'[t].session = row[t].session
                   /\ row'[t].seq = row[t].seq
  <2>1. \A t \in F : row[t] \in IngressRow
    BY <1>0, <1>2 DEF RowTable, NoRow
  <2> QED BY <1>2, <1>3, <2>1 DEF IngressRow
<1> HIDE DEF F
<1>5. ASSUME NEW x \in Sessions PROVE Agrees(row', lock'[x], x)
  <2>1. AcceptedIn(row', x) = AcceptedIn(row, x) \ F
    BY <1>3, <1>4 DEF AcceptedIn
  <2>2. lock'[x] = RestartLock(r, x)
    BY DEF RecoverProcessRestart
  <2>3. Agrees(row, lock[x], x)
    BY DEF IInv
  <2>4. CASE ~Orphaned(r, x)
    <3>1. AcceptedIn(row, x) \cap F = {}
      BY <1>1, <2>4 DEF AcceptedIn
    <3>2. lock'[x] = lock[x]
      BY <2>2, <2>4 DEF RestartLock
    <3> QED BY <1>3, <2>1, <2>3, <3>1, <3>2 DEF Agrees, AcceptedIn
  <2>5. CASE Orphaned(r, x)
    <3>1. lock'[x].kind \notin WorkKinds
      BY <2>2, <2>5, NoLockFacts DEF RestartLock, NewLock
    <3>2. AcceptedIn(row, x) \subseteq F
      BY <1>1, <2>3, <2>5 DEF Agrees
    <3> QED BY <2>1, <3>1, <3>2 DEF Agrees
  <2> QED BY <2>4, <2>5
<1>6. SequencesUnique(row')
  BY <1>3, <1>4 DEF IInv, SequencesUnique
<1>7. \A t \in Turns : row[t].seq \in Nat
  BY <1>0 DEF RowTable, IngressRow, NoRow
<1>8. SequencesIssued'
  <2>1. \A t \in Turns : row'[t].seq = row[t].seq
    BY <1>3, <1>4
  <2>2. \A t \in Turns : row[t].seq <= now
    BY DEF IInv, SequencesIssued
  <2> QED BY <1>0, <1>7, <2>1, <2>2 DEF SequencesIssued
<1> QED BY <1>5, <1>6, <1>8 DEF IInv, Agrees, SequencesUnique, AcceptedIn, WorkKinds

\* The empty database satisfies the inductive invariant.
LEMMA InitInv == Init => IInv
<1> SUFFICES ASSUME Init PROVE IInv
  OBVIOUS
<1>1. TypeOK
  BY InitType
<1>2. \A t \in Turns : row[t].status = "none" /\ row[t].seq = 0
  BY DEF Init, NoRow
<1>3. \A s \in Sessions : AcceptedIn(row, s) = {} /\ lock[s].kind \notin WorkKinds
  BY <1>2, NoLockFacts DEF Init, AcceptedIn
<1>4. now = 0
  BY DEF Init
<1> QED BY <1>1, <1>2, <1>3, <1>4 DEF IInv, Agrees, SequencesUnique, SequencesIssued

\* Each action keeps the inductive invariant.
LEMMA InvStep == IInv /\ [Next]_vars => IInv'
<1> SUFFICES ASSUME IInv, [Next]_vars PROVE IInv'
  OBVIOUS
<1>0. /\ TypeOK /\ TypeOK' /\ now \in Nat /\ row \in RowTable
      /\ lock \in [Sessions -> LockRow \cup {NoLock}]
      /\ \A s \in Sessions : Agrees(row, lock[s], s)
  <2>1. TypeOK
    BY DEF IInv
  <2> QED BY <2>1, TypeStep DEF IInv, TypeOK, RowTable
<1> USE DEF processVars, dbVars
<1>1. ASSUME NEW r \in Runtimes, RuntimeStep(r) PROVE IInv'
  <2>1. row' = row /\ lock' = lock /\ now <= now'
    BY <1>0, <1>1 DEF RuntimeStep, Start, Compromise, Close, Crash
  <2> QED BY <1>0, <2>1, QuietStep
<1>2. ASSUME NEW r \in Runtimes, RecoverProcessRestart(r) PROVE IInv'
  BY <1>0, <1>2, RestartKeeps
<1>3. ASSUME NEW r \in Runtimes, NEW s \in Sessions, SessionStep(r, s) PROVE IInv'
  <2>1. CASE AdmitRefused(r, s) \/ BeginMutation(r, s) \/ EndMutation(r, s)
    <3>1. row' = row /\ lock' = lock /\ now <= now'
      BY <1>0, <2>1 DEF AdmitRefused, BeginMutation, EndMutation
    <3> QED BY <1>0, <3>1, QuietStep
  <2>2. CASE AdmitRejected(r, s)
    <3>1. row' = AdmissionRows(r, s) /\ lock'[s] = AdmissionLock(r, s) /\ now' = now
          /\ \A x \in Sessions \ {s} : lock'[x] = lock[x]
      BY <1>0, <2>2 DEF AdmitRejected
    <3>2. Agrees(row', lock'[s], s) /\ OnlySettlesIn(row, row', s)
      BY <1>0, <3>1, AdmissionAgrees, AdmissionType
    <3>3. now <= now'
      BY <1>0, <3>1
    <3> QED BY <1>0, <3>1, <3>2, <3>3, OneSessionStep
  <2>3. ASSUME NEW t \in Turns, NEW q \in Requests \cup {NoRequest}, NEW busy \in Busy,
               AdmitAccepted(r, s, t, q, busy)
        PROVE  IInv'
    BY <1>0, <2>3, AdmitKeeps
  <2>4. CASE RecoverExpired(r, s)
    <3>1. row' = RowsAfterExpiry(lock[s], row, s) /\ lock'[s] = LockAfterExpiry(lock[s])
          /\ now' = now /\ \A x \in Sessions \ {s} : lock'[x] = lock[x]
      BY <1>0, <2>4 DEF RecoverExpired
    <3>2. Agrees(row', lock'[s], s) /\ OnlySettlesIn(row, row', s)
      BY <1>0, <3>1, ExpiryAgrees, ExpiryType
    <3>3. now <= now'
      BY <1>0, <3>1
    <3> QED BY <1>0, <3>1, <3>2, <3>3, OneSessionStep
  <2>5. CASE AcquireMaintenance(r, s)
    <3>1. row' = RowsAfterExpiry(lock[s], row, s) /\ now' = now + 1
          /\ lock'[s] = NewLock(r, "maintenance", LeaseTerm)
          /\ LockAfterExpiry(lock[s]) = NoLock
          /\ \A x \in Sessions \ {s} : lock'[x] = lock[x]
      BY <1>0, <2>5 DEF AcquireMaintenance
    <3>2. Agrees(row', NoLock, s) /\ OnlySettlesIn(row, row', s)
      BY <1>0, <3>1, ExpiryAgrees, ExpiryType
    <3>3. lock'[s].kind \notin WorkKinds
      BY <3>1, NoLockFacts DEF NewLock
    <3>4. Agrees(row', lock'[s], s)
      BY <3>2, <3>3, NoLockFacts DEF Agrees
    <3>5. now <= now'
      BY <1>0, <3>1
    <3> QED BY <1>0, <3>1, <3>2, <3>4, <3>5, OneSessionStep
  <2> QED BY <1>3, <2>1, <2>2, <2>3, <2>4, <2>5 DEF SessionStep
<1>4. ASSUME NEW r \in Runtimes, NEW s \in Sessions, DeletionStep(r, s) PROVE IInv'
  <2>1. CASE \/ DeletionStart(r, s) \/ DeletionAbort(r, s) \/ DeletionQuiescent(r, s)
             \/ DeletionCleanup(r, s) \/ DeletionThrows(r, s)
    <3>1. row' = row /\ lock' = lock /\ now <= now'
      BY <1>0, <2>1 DEF DeletionStart, DeletionAbort, DeletionQuiescent, DeletionCleanup,
                        DeletionThrows
    <3> QED BY <1>0, <3>1, QuietStep
  <2>2. CASE DeletionBegin(r, s)
    <3> DEFINE l == DeletionLock(r, s)
    <3>1. l \in LockRow \cup {NoLock} /\ Agrees(DeletionRows(r, s), l, s)
          /\ OnlySettlesIn(row, DeletionRows(r, s), s)
      BY <1>0, DeletionType, DeletionAgrees
    <3>2. row' = DeletionRows(r, s) /\ \A x \in Sessions \ {s} : lock'[x] = lock[x]
      BY <1>0, <2>2 DEF DeletionBegin
    <3>3. now <= now'
      BY <1>0, <2>2 DEF DeletionBegin
    <3>4. \/ l.kind \in {"none", "session-deletion"}
             /\ lock'[s] = NewLock(r, "session-deletion", Forever)
          \/ l.kind = "session-deletion" /\ lock'[s] = l
          \/ l \in LockRow /\ l.kind # "session-deletion"
             /\ lock'[s] = [l EXCEPT !.kind = DeletingKind(l.kind)]
      BY <1>0, <2>2, <3>1, NoLockFacts DEF DeletionBegin
    <3>5. Agrees(row', lock'[s], s)
      <4>1. CASE l.kind \in {"none", "session-deletion"}
                 /\ lock'[s] = NewLock(r, "session-deletion", Forever)
        BY <3>1, <3>2, <4>1, NoLockFacts DEF Agrees, NewLock
      <4>2. CASE l.kind = "session-deletion" /\ lock'[s] = l
        BY <3>1, <3>2, <4>2
      <4>3. CASE l \in LockRow /\ l.kind # "session-deletion"
                 /\ lock'[s] = [l EXCEPT !.kind = DeletingKind(l.kind)]
        <5>1. lock'[s].kind = DeletingKind(l.kind) /\ lock'[s].lease = l.lease
          BY <4>3 DEF LockRow
        <5>2. l.kind \in OwnerKinds /\ (l.kind \in WorkKinds <=> DeletingKind(l.kind) \in WorkKinds)
          BY <4>3 DEF LockRow, DeletingKind, WorkKinds, OwnerKinds, TurnKinds, TurnDeletingKinds,
                      DeletionKinds
        <5> QED BY <3>1, <3>2, <5>1, <5>2 DEF Agrees
      <4> QED BY <3>4, <4>1, <4>2, <4>3
    <3> QED BY <1>0, <3>1, <3>2, <3>3, <3>5, OneSessionStep
  <2>3. CASE DeletionPurge(r, s)
    <3>1. now' = now /\ lock' = lock
          /\ \A t \in Turns : row'[t] = IF row[t].session = s THEN NoRow ELSE row[t]
      BY <2>3 DEF DeletionPurge
    <3>2. AcceptedIn(row', s) = {}
      BY <3>1 DEF AcceptedIn, NoRow
    <3>3. lock'[s].kind \notin WorkKinds
      BY <2>3, <3>1, NoLockFacts DEF DeletionPurge
    <3> QED BY <1>0, <3>1, <3>2, <3>3, RemoveKeeps
  <2>4. CASE DeletionComplete(r, s) \/ DeletionNotFound(r, s)
    <3>1. row' = row /\ now' = now /\ \A x \in Sessions \ {s} : lock'[x] = lock[x]
      BY <1>0, <2>4 DEF DeletionComplete, DeletionNotFound
    <3>2. lock'[s] = lock[s] \/ (lock[s].kind \in {"none", "session-deletion"} /\ lock'[s] = NoLock)
      BY <1>0, <2>4 DEF DeletionComplete, DeletionNotFound, CanComplete
    <3>3. Agrees(row', lock'[s], s)
      BY <1>0, <3>1, <3>2, NoLockFacts DEF Agrees
    <3>4. now <= now'
      BY <1>0, <3>1
    <3> QED BY <1>0, <3>1, <3>3, <3>4, NoneSettled, OneSessionStep
  <2> QED BY <1>4, <2>1, <2>2, <2>3, <2>4 DEF DeletionStep
<1>5. ASSUME NEW h \in held, LeaseStep(h) PROVE IInv'
  <2>0. h \in Lease /\ h.rt \in Runtimes /\ h.session \in Sessions
    BY <1>0, LeaseFacts
  <2>1. CASE Renew(h) \/ RenewMaintenance(h)
    <3>1. row' = row /\ now' = now /\ lock' = [lock EXCEPT ![h.session].ttl = LeaseTerm]
      BY <2>1 DEF Renew, RenewMaintenance
    <3>2. lock[h.session] \in LockRow \cup {NoLock}
      BY <1>0, <2>0
    <3>3. \A x \in Sessions : lock'[x].kind = lock[x].kind /\ lock'[x].lease = lock[x].lease
      BY <1>0, <2>0, <3>1, <3>2 DEF LockRow, NoLock
    <3>4. now <= now'
      BY <1>0, <3>1
    <3> QED BY <1>0, <3>1, <3>3, <3>4, QuietStep
  <2>2. ASSUME NEW o \in Terminal, Settle(h, o) PROVE IInv'
    <3>1. row' = Settled(row, {h.turn}, o) /\ now' = now
          /\ lock'[h.session] = ReleaseOrPromoteDeletionFence(lock[h.session])
          /\ \A x \in Sessions \ {h.session} : lock'[x] = lock[x]
      BY <1>0, <2>0, <2>2 DEF Settle
    <3>2. {h.turn} = AcceptedIn(row, h.session)
      BY <1>0, <2>0, <2>2, LatestIsAll DEF Settle, OwnsTurn
    <3>3. Agrees(row', lock'[h.session], h.session)
      BY <1>0, <2>0, <3>1, <3>2, SettledAllAgrees, ReleasedKind
    <3>4. OnlySettlesIn(row, row', h.session)
      BY <1>0, <3>1, <3>2, SettledRows
    <3>5. now <= now'
      BY <1>0, <3>1
    <3> QED BY <1>0, <2>0, <3>1, <3>3, <3>4, <3>5, OneSessionStep
  <2>3. CASE SettleStale(h) \/ SettleThrows(h)
    <3>1. row' = row /\ lock' = lock /\ now <= now'
      BY <1>0, <2>3 DEF SettleStale, SettleThrows
    <3> QED BY <1>0, <3>1, QuietStep
  <2>4. CASE RevokeAdmission(h)
    <3>1. h.turn \in AcceptedIn(row, h.session) /\ now' = now
          /\ row' = [row EXCEPT ![h.turn] = NoRow] /\ lock'[h.session] = NoLock
          /\ \A x \in Sessions \ {h.session} : lock'[x] = lock[x]
      BY <1>0, <2>0, <2>4 DEF RevokeAdmission
    <3>2. AcceptedIn(row, h.session) = {h.turn} /\ h.turn \in Turns
          /\ row[h.turn].session = h.session
      BY <1>0, <2>0, <3>1, OneAccepted, AcceptedRow DEF IInv
    <3>3. \A t \in Turns : row'[t] = IF t = h.turn THEN NoRow ELSE row[t]
      BY <1>0, <3>1 DEF RowTable
    <3>4. AcceptedIn(row', h.session) = {}
      BY <3>2, <3>3 DEF AcceptedIn, NoRow
    <3>5. lock'[h.session].kind \notin WorkKinds
      BY <3>1, NoLockFacts
    <3>6. \A t \in Turns : row'[t] = row[t] \/ row'[t] = NoRow
      BY <3>3
    <3>7. \A t \in Turns :
            row'[t] # row[t] /\ row[t].status = "accepted" => row[t].session = h.session
      BY <3>2, <3>3
    <3>8. h.session \in Sessions /\ IInv /\ TypeOK'
      BY <1>0, <2>0
    <3> QED BY <3>1, <3>4, <3>5, <3>6, <3>7, <3>8, RemoveKeeps
  <2>5. CASE ReleaseMaintenance(h)
    <3>1. row' = row /\ now' = now /\ \A x \in Sessions \ {h.session} : lock'[x] = lock[x]
      BY <1>0, <2>0, <2>5 DEF ReleaseMaintenance
    <3>2. \/ lock'[h.session] = lock[h.session]
          \/ lock[h.session].kind \in {"maintenance", "maintenance-deleting"}
             /\ lock'[h.session] \in {NoLock, Fence(lock[h.session])}
      BY <1>0, <2>0, <2>5 DEF ReleaseMaintenance
    <3>3. lock[h.session].kind \in {"maintenance", "maintenance-deleting"}
            => lock[h.session] \in LockRow
      BY <1>0, <2>0, NoLockFacts
    <3>4. Agrees(row', lock'[h.session], h.session)
      BY <1>0, <2>0, <3>1, <3>2, <3>3, FenceType, NoLockFacts DEF Agrees
    <3>5. now <= now'
      BY <1>0, <3>1
    <3> QED BY <1>0, <2>0, <3>1, <3>4, <3>5, NoneSettled, OneSessionStep
  <2> QED BY <1>5, <2>1, <2>2, <2>3, <2>4, <2>5 DEF LeaseStep
<1>6. ASSUME NEW s \in Sessions, Tick(s) PROVE IInv'
  <2>1. row' = row /\ now' = now /\ lock' = [lock EXCEPT ![s].ttl = @ - 1]
    BY <1>6 DEF Tick
  <2>2. lock[s] \in LockRow \cup {NoLock}
    BY <1>0
  <2>3. \A x \in Sessions : lock'[x].kind = lock[x].kind /\ lock'[x].lease = lock[x].lease
    BY <1>0, <2>1, <2>2 DEF LockRow, NoLock
  <2>4. now <= now'
    BY <1>0, <2>1
  <2> QED BY <1>0, <2>1, <2>3, <2>4, QuietStep
<1>7. CASE UNCHANGED vars
  <2>1. row' = row /\ lock' = lock /\ now <= now'
    BY <1>0, <1>7 DEF vars
  <2> QED BY <1>0, <2>1, QuietStep
<1> QED BY <1>1, <1>2, <1>3, <1>4, <1>5, <1>6, <1>7 DEF Next

\* The inductive invariant implies the two properties that the runs check.
LEMMA InvImplies == IInv => AcceptedTurnOwnsLock /\ ActiveLockHasTurn
BY DEF IInv, Agrees, AcceptedTurnOwnsLock, ActiveLockHasTurn, WorkKinds

\* In every reachable state, in whichever processes its Turns were admitted,
\* recovered or revoked, an accepted Turn is the one its Session's lock was
\* taken for.
THEOREM AcceptedOwnsLock == Spec => []AcceptedTurnOwnsLock
<1>1. Init => IInv
  BY InitInv
<1>2. IInv /\ [Next]_vars => IInv'
  BY InvStep
<1>3. IInv => AcceptedTurnOwnsLock
  BY InvImplies
<1> QED BY <1>1, <1>2, <1>3, PTL DEF Spec

\* A lock of a Turn kind always has its accepted Turn: requireAcceptedTurnId
\* finds one whenever work is in progress.
THEOREM ActiveLockNamesTurn == Spec => []ActiveLockHasTurn
<1>1. Init => IInv
  BY InitInv
<1>2. IInv /\ [Next]_vars => IInv'
  BY InvStep
<1>3. IInv => ActiveLockHasTurn
  BY InvImplies
<1> QED BY <1>1, <1>2, <1>3, PTL DEF Spec

-----------------------------------------------------------------------------
(* What a step may do to the ingress table.                                *)

\* Every step either settles accepted Turns, or inserts the row of one
\* admission, or removes rows.
RowStep ==
  \/ OnlySettles(row, row')
  \/ \A t \in Turns : row'[t] = row[t] \/ row'[t] = NoRow
  \/ \E s \in Sessions, t \in Turns, q \in Requests \cup {NoRequest}, rows \in RowTable :
       /\ OnlySettles(row, rows)
       /\ ~IsDuplicate(rows, s, t, q)
       /\ row' = [rows EXCEPT ![t] =
                    [status |-> "accepted", session |-> s, seq |-> now + 1, request |-> q]]

\* Every step of every process treats the ingress table in one of these ways.
LEMMA RowStepOfNext == TypeOK /\ [Next]_vars => RowStep
<1> SUFFICES ASSUME TypeOK, [Next]_vars PROVE RowStep
  OBVIOUS
<1>0. row \in RowTable /\ lock \in [Sessions -> LockRow \cup {NoLock}]
  BY DEF TypeOK, RowTable
<1> USE DEF processVars, dbVars
<1>1. ASSUME NEW r \in Runtimes, RuntimeStep(r) PROVE RowStep
  <2>1. row' = row
    BY <1>1 DEF RuntimeStep, Start, Compromise, Close, Crash
  <2> QED BY <2>1 DEF RowStep
<1>2. ASSUME NEW r \in Runtimes, RecoverProcessRestart(r) PROVE RowStep
  <2>1. \A t \in RestartFailed(r) : row[t].status = "accepted" /\ row[t] \in IngressRow
    BY <1>0 DEF RestartFailed, LatestAccepted, AcceptedIn, RowTable, NoRow
  <2>2. \A t \in Turns : row'[t] = IF t \in RestartFailed(r)
                                   THEN [row[t] EXCEPT !.status = "failed"] ELSE row[t]
    BY <1>2 DEF RecoverProcessRestart, Settled
  <2>3. OnlySettles(row, row')
    BY <2>1, <2>2 DEF OnlySettles, IngressRow, Terminal
  <2> QED BY <2>3 DEF RowStep
<1>3. ASSUME NEW r \in Runtimes, NEW s \in Sessions, SessionStep(r, s) PROVE RowStep
  <2>1. CASE AdmitRefused(r, s) \/ BeginMutation(r, s) \/ EndMutation(r, s)
    BY <2>1 DEF AdmitRefused, BeginMutation, EndMutation, RowStep
  <2>2. CASE AdmitRejected(r, s)
    BY <2>2, AdmissionType DEF AdmitRejected, RowStep, OnlySettlesIn
  <2>3. ASSUME NEW t \in Turns, NEW q \in Requests \cup {NoRequest}, NEW busy \in Busy,
               AdmitAccepted(r, s, t, q, busy)
        PROVE  RowStep
    BY <2>3, AdmissionType DEF AdmitAccepted, RowStep, OnlySettlesIn
  <2>4. CASE RecoverExpired(r, s) \/ AcquireMaintenance(r, s)
    <3>1. row' = RowsAfterExpiry(lock[s], row, s)
      BY <2>4 DEF RecoverExpired, AcquireMaintenance
    <3> QED BY <1>0, <3>1, ExpiryType DEF RowStep, OnlySettlesIn
  <2> QED BY <1>3, <2>1, <2>2, <2>3, <2>4 DEF SessionStep
<1>4. ASSUME NEW r \in Runtimes, NEW s \in Sessions, DeletionStep(r, s) PROVE RowStep
  <2>1. CASE DeletionBegin(r, s)
    BY <2>1, DeletionType DEF DeletionBegin, RowStep, OnlySettlesIn
  <2>2. CASE DeletionPurge(r, s)
    BY <2>2 DEF DeletionPurge, RowStep
  <2>3. CASE ~DeletionBegin(r, s) /\ ~DeletionPurge(r, s)
    <3>1. row' = row
      BY <1>4, <2>3 DEF DeletionStep, DeletionStart, DeletionAbort, DeletionQuiescent,
           DeletionCleanup, DeletionComplete, DeletionNotFound, DeletionThrows
    <3> QED BY <3>1 DEF RowStep
  <2> QED BY <2>1, <2>2, <2>3
<1>5. ASSUME NEW h \in held, LeaseStep(h) PROVE RowStep
  <2>1. ASSUME NEW o \in Terminal, Settle(h, o) PROVE RowStep
    <3>1. {h.turn} \subseteq AcceptedIn(row, h.session)
      BY <2>1, LatestIsAccepted DEF Settle, OwnsTurn
    <3>2. OnlySettlesIn(row, Settled(row, {h.turn}, o), h.session)
      BY <1>0, <3>1, SettledRows
    <3> QED BY <2>1, <3>2 DEF Settle, RowStep, OnlySettlesIn
  <2>2. CASE RevokeAdmission(h)
    <3>1. row' = [row EXCEPT ![h.turn] = NoRow]
      BY <2>2 DEF RevokeAdmission
    <3>2. \A t \in Turns : row'[t] = row[t] \/ row'[t] = NoRow
      BY <1>0, <3>1 DEF RowTable
    <3> QED BY <3>2 DEF RowStep
  <2>3. CASE \/ Renew(h) \/ SettleStale(h) \/ SettleThrows(h)
             \/ RenewMaintenance(h) \/ ReleaseMaintenance(h)
    BY <2>3 DEF Renew, SettleStale, SettleThrows, RenewMaintenance, ReleaseMaintenance, RowStep
  <2> QED BY <1>5, <2>1, <2>2, <2>3 DEF LeaseStep
<1>6. ASSUME NEW s \in Sessions, Tick(s) PROVE RowStep
  BY <1>6 DEF Tick, RowStep
<1>7. CASE UNCHANGED vars
  BY <1>7 DEF vars, RowStep
<1> QED BY <1>1, <1>2, <1>3, <1>4, <1>5, <1>6, <1>7 DEF Next

\* No step of any process overwrites the outcome of a Turn: a late settlement
\* after a recovery, and a recovery after a settlement, leave it alone.
THEOREM OutcomeIsFinal == Spec => TerminalIsFinal
<1> DEFINE Final == \A t \in Turns : row[t].status \in Terminal =>
                      row'[t].status \in {row[t].status, "none"}
<1>1. TypeOK /\ [Next]_vars => Final
  <2> SUFFICES ASSUME TypeOK, [Next]_vars, NEW t \in Turns, row[t].status \in Terminal
               PROVE  row'[t].status \in {row[t].status, "none"}
    OBVIOUS
  <2>0. RowStep /\ row[t].status # "accepted" /\ row[t].status # "none"
    BY RowStepOfNext DEF Terminal
  <2>1. CASE OnlySettles(row, row')
    BY <2>0, <2>1 DEF OnlySettles
  <2>2. CASE \A u \in Turns : row'[u] = row[u] \/ row'[u] = NoRow
    BY <2>2 DEF NoRow
  <2>3. ASSUME NEW s \in Sessions, NEW u \in Turns, NEW q \in Requests \cup {NoRequest},
               NEW rows \in RowTable,
               OnlySettles(row, rows),
               ~IsDuplicate(rows, s, u, q),
               row' = [rows EXCEPT ![u] =
                         [status |-> "accepted", session |-> s, seq |-> now + 1, request |-> q]]
        PROVE  row'[t].status \in {row[t].status, "none"}
    <3>1. rows[t] = row[t]
      BY <2>0, <2>3 DEF OnlySettles
    <3>2. rows[u].status = "none"
      BY <2>3 DEF IsDuplicate
    <3>3. t # u
      BY <2>0, <3>1, <3>2
    <3> QED BY <2>3, <3>1, <3>3 DEF RowTable
  <2> QED BY <2>0, <2>1, <2>2, <2>3 DEF RowStep
<1>2. Spec => []TypeOK
  BY TypeCorrect
<1>3. TypeOK /\ [Next]_vars => [Final]_vars
  BY <1>1
<1> QED BY <1>2, <1>3, PTL DEF Spec, TerminalIsFinal

\* A client request is admitted at most once in its Session, for any number
\* of processes racing to submit it.
THEOREM RequestsAreUnique == Spec => []RequestAdmittedOnce
<1>1. Init => RequestAdmittedOnce
  BY DEF Init, RequestAdmittedOnce, NoRow
<1>2. TypeOK /\ RequestAdmittedOnce /\ [Next]_vars => RequestAdmittedOnce'
  <2> SUFFICES ASSUME TypeOK, RequestAdmittedOnce, RowStep PROVE RequestAdmittedOnce'
    BY RowStepOfNext
  <2>0. row \in RowTable
    BY DEF TypeOK, RowTable
  <2>1. ASSUME NEW rows, OnlySettles(row, rows)
        PROVE  \A t \in Turns : /\ rows[t].session = row[t].session
                                /\ rows[t].request = row[t].request
                                /\ rows[t].status # "none" => row[t].status # "none"
    BY <2>1 DEF OnlySettles
  <2>2. CASE OnlySettles(row, row')
    BY <2>1, <2>2 DEF RequestAdmittedOnce
  <2>3. CASE \A u \in Turns : row'[u] = row[u] \/ row'[u] = NoRow
    BY <2>3 DEF RequestAdmittedOnce, NoRow
  <2>4. ASSUME NEW s \in Sessions, NEW u \in Turns, NEW q \in Requests \cup {NoRequest},
               NEW rows \in RowTable,
               OnlySettles(row, rows),
               ~IsDuplicate(rows, s, u, q),
               row' = [rows EXCEPT ![u] =
                         [status |-> "accepted", session |-> s, seq |-> now + 1, request |-> q]]
        PROVE  RequestAdmittedOnce'
    <3>1. /\ row'[u].session = s /\ row'[u].request = q
          /\ \A t \in Turns \ {u} : row'[t] = rows[t]
      BY <2>4 DEF RowTable
    <3>2. q # NoRequest => \A t \in Turns : ~(rows[t].status # "none" /\ rows[t].session = s
                                              /\ rows[t].request = q)
      BY <2>4 DEF IsDuplicate
    <3>3. \A t \in Turns : /\ rows[t].session = row[t].session
                           /\ rows[t].request = row[t].request
                           /\ rows[t].status # "none" => row[t].status # "none"
      BY <2>1, <2>4
    <3> QED BY <3>1, <3>2, <3>3 DEF RequestAdmittedOnce
  <2> QED BY <2>2, <2>3, <2>4 DEF RowStep
<1>3. Spec => []TypeOK
  BY TypeCorrect
<1> QED BY <1>1, <1>2, <1>3, PTL DEF Spec

-----------------------------------------------------------------------------
(* Who owns a lease.                                                       *)

LeasesIssued ==
  /\ \A s \in Sessions : lock[s].lease <= now
  /\ \A h \in held : h.lease \in 1..now
  /\ \A r \in Runtimes, s \in Sessions :
       pending[r][s] # NoLease =>
         /\ pending[r][s].rt = r /\ pending[r][s].session = s
         /\ pending[r][s].lease \in 1..now

LeasesNameOwner ==
  /\ \A h \in held : lock[h.session].lease = h.lease => lock[h.session].rt = h.rt
  /\ \A r \in Runtimes, s \in Sessions :
       pending[r][s] # NoLease /\ lock[s].lease = pending[r][s].lease => lock[s].rt = r

\* The inductive invariant of the leases: a number that a process holds or
\* remembers was issued by the counter, and when the lock of the Session still
\* carries it, the lock is that process's.
LInv == TypeOK /\ LeasesIssued /\ LeasesNameOwner

\* What a step may do to the lock of s: release it, keep its owner, or replace
\* it by one with a fresh number.
LockMove(s) ==
  \/ lock'[s] = NoLock
  \/ lock'[s].lease = lock[s].lease /\ lock'[s].rt = lock[s].rt
  \/ now' = now + 1 /\ lock'[s].lease = now + 1

\* What a step may do to the leases in memory.
MemoryMove ==
  /\ \A h \in held' :
       \/ \E g \in held : h.rt = g.rt /\ h.lease = g.lease /\ h.session = g.session
       \/ /\ now' = now + 1 /\ h.lease = now + 1
          /\ h.session \in Sessions /\ lock'[h.session].rt = h.rt
  /\ \A r \in Runtimes, s \in Sessions :
       \/ pending'[r][s] \in {NoLease, pending[r][s]}
       \/ \E g \in held : /\ g.rt = r /\ g.session = s
                          /\ pending'[r][s].rt = r /\ pending'[r][s].session = s
                          /\ pending'[r][s].lease = g.lease

\* Such moves keep the invariant of the leases.
LEMMA MovesKeep ==
  ASSUME LInv, TypeOK', now' \in {now, now + 1}, \A s \in Sessions : LockMove(s), MemoryMove
  PROVE  LInv'
<1>0. /\ now \in Nat /\ now' \in Nat /\ now <= now'
      /\ \A s \in Sessions : lock[s].lease \in Nat
  BY SMTT(30) DEF LInv, TypeOK, LockRow, NoLock
<1>1. \A s \in Sessions : lock'[s].lease <= now'
  BY <1>0 DEF LInv, LeasesIssued, LockMove, NoLock
<1>2. ASSUME NEW h \in held'
      PROVE  h.lease \in 1..now' /\ (lock'[h.session].lease = h.lease => lock'[h.session].rt = h.rt)
  <2>1. ASSUME NEW g \in held, h.rt = g.rt, h.lease = g.lease, h.session = g.session
        PROVE  h.lease \in 1..now' /\ (lock'[h.session].lease = h.lease => lock'[h.session].rt = h.rt)
    <3>1. g.session \in Sessions /\ g.lease \in 1..now
      BY LeaseFacts DEF LInv, LeasesIssued
    <3>2. LockMove(g.session)
      BY <3>1
    <3>3. lock[g.session].lease = g.lease => lock[g.session].rt = g.rt
      BY DEF LInv, LeasesNameOwner
    <3> QED BY <1>0, <2>1, <3>1, <3>2, <3>3 DEF LockMove, NoLock
  <2>2. CASE /\ now' = now + 1 /\ h.lease = now + 1
             /\ h.session \in Sessions /\ lock'[h.session].rt = h.rt
    BY <1>0, <2>2
  <2> QED BY <2>1, <2>2 DEF MemoryMove
<1>3. ASSUME NEW r \in Runtimes, NEW s \in Sessions, pending'[r][s] # NoLease
      PROVE  /\ pending'[r][s].rt = r /\ pending'[r][s].session = s
             /\ pending'[r][s].lease \in 1..now'
             /\ lock'[s].lease = pending'[r][s].lease => lock'[s].rt = r
  <2>1. CASE pending'[r][s] = pending[r][s]
    <3>1. /\ pending[r][s].rt = r /\ pending[r][s].session = s
          /\ pending[r][s].lease \in 1..now
          /\ lock[s].lease = pending[r][s].lease => lock[s].rt = r
      BY <1>3, <2>1 DEF LInv, LeasesIssued, LeasesNameOwner
    <3> QED BY <1>0, <2>1, <3>1 DEF LockMove, NoLock
  <2>2. ASSUME NEW g \in held, g.rt = r, g.session = s, pending'[r][s].rt = r,
               pending'[r][s].session = s, pending'[r][s].lease = g.lease
        PROVE  /\ pending'[r][s].lease \in 1..now'
               /\ lock'[s].lease = pending'[r][s].lease => lock'[s].rt = r
    <3>1. g.lease \in 1..now /\ (lock[s].lease = g.lease => lock[s].rt = r)
      BY <2>2 DEF LInv, LeasesIssued, LeasesNameOwner
    <3> QED BY <1>0, <2>2, <3>1 DEF LockMove, NoLock
  <2> QED BY <1>3, <2>1, <2>2 DEF MemoryMove
<1> QED BY <1>1, <1>2, <1>3 DEF LInv, LeasesIssued, LeasesNameOwner

\* The recovery of a remembered settlement: the lock is kept, released, or
\* promoted to the fence.
LEMMA PendingLock ==
  ASSUME TypeOK, NEW r \in Runtimes, NEW s \in Sessions
  PROVE  \/ LockAfterPending(r, s) = lock[s]
         \/ /\ PendingApplies(r, s)
            /\ lock[s] \in LockRow /\ lock[s].kind \in TurnDeletingKinds
            /\ LockAfterPending(r, s) = Fence(lock[s])
         \/ PendingApplies(r, s) /\ LockAfterPending(r, s) = NoLock
<1>1. lock[s] \in LockRow \cup {NoLock}
  BY DEF TypeOK
<1>2. NoLock.kind \notin TurnDeletingKinds
  BY DEF NoLock, TurnDeletingKinds
<1> QED BY <1>1, <1>2 DEF LockAfterPending, ReleaseOrPromoteDeletionFence

\* A fence just made has not expired.
LEMMA FenceStands ==
  ASSUME TypeOK, NEW l \in LockRow
  PROVE  ~Expired(Fence(l)) /\ Fence(l).ttl = Forever
<1>1. Fence(l).ttl = Forever /\ Forever # 0
  BY LeaseTermAssumption DEF LeaseTermAssumption, Fence, LockRow, Forever
<1> QED BY <1>1 DEF Expired

\* The lock admit finds after its recoveries.
LEMMA AdmissionLockMove ==
  ASSUME TypeOK, NEW r \in Runtimes, NEW s \in Sessions
  PROVE  \/ AdmissionLock(r, s) = lock[s]
         \/ /\ PendingApplies(r, s)
            /\ lock[s] \in LockRow /\ lock[s].kind \in TurnDeletingKinds
            /\ AdmissionLock(r, s) = Fence(lock[s])
         \/ (PendingApplies(r, s) \/ Expired(lock[s])) /\ AdmissionLock(r, s) = NoLock
<1>1. ~Expired(NoLock)
  BY DEF Expired, NoLock
<1> QED BY <1>1, PendingLock, FenceStands DEF AdmissionLock, LockAfterExpiry

\* The lock beginSessionDeletion finds after its recoveries.
LEMMA DeletionLockMove ==
  ASSUME TypeOK, NEW r \in Runtimes, NEW s \in Sessions
  PROVE  \/ DeletionLock(r, s) = lock[s]
         \/ /\ lock[s] \in LockRow
            /\ \/ PendingApplies(r, s) /\ lock[s].kind \in TurnDeletingKinds
               \/ Expired(lock[s])
                  /\ lock[s].kind \in TurnDeletingKinds \cup {"maintenance-deleting"}
            /\ DeletionLock(r, s) = Fence(lock[s])
         \/ (PendingApplies(r, s) \/ Expired(lock[s])) /\ DeletionLock(r, s) = NoLock
<1>1. ~Expired(NoLock)
  BY DEF Expired, NoLock
<1>2. lock[s] \in LockRow \cup {NoLock}
  BY DEF TypeOK
<1>3. CASE LockAfterPending(r, s) = lock[s]
  BY <1>1, <1>2, <1>3 DEF DeletionLock, ReleaseOrPromoteDeletionFence
<1>4. CASE LockAfterPending(r, s) # lock[s]
  <2>1. ~Expired(LockAfterPending(r, s))
    BY <1>1, <1>4, PendingLock, FenceStands
  <2>2. DeletionLock(r, s) = LockAfterPending(r, s)
    BY <2>1 DEF DeletionLock
  <2> QED BY <1>4, <2>2, PendingLock
<1> QED BY <1>3, <1>4

\* Every step of every process moves locks and leases in these ways.
LEMMA NextMoves ==
  ASSUME LInv, TypeOK', [Next]_vars
  PROVE  now' \in {now, now + 1} /\ (\A s \in Sessions : LockMove(s)) /\ MemoryMove
<1> DEFINE Goal == now' \in {now, now + 1} /\ (\A s \in Sessions : LockMove(s)) /\ MemoryMove
<1>0. /\ TypeOK /\ now \in Nat
      /\ lock \in [Sessions -> LockRow \cup {NoLock}]
      /\ pending \in [Runtimes -> [Sessions -> Lease \cup {NoLease}]]
  BY DEF LInv, TypeOK
<1>a. ASSUME lock' = lock, held' \subseteq held, pending' = pending, now' \in {now, now + 1} PROVE Goal
  BY <1>a DEF LockMove, MemoryMove
<1>b. ASSUME NEW r \in Runtimes, NEW s \in Sessions
      PROVE  \A x \in Runtimes, y \in Sessions :
               ForgetPending(r, s)[x][y] \in {NoLease, pending[x][y]}
  BY <1>0 DEF ForgetPending
<1>c. ASSUME NEW h \in held
      PROVE  \A x \in Runtimes, y \in Sessions : DropPending(h)[x][y] \in {NoLease, pending[x][y]}
  <2>1. h.rt \in Runtimes /\ h.session \in Sessions
    BY <1>0, LeaseFacts
  <2> QED BY <1>b, <2>1 DEF DropPending
<1>d. \A h \in held : Ending(h).rt = h.rt /\ Ending(h).lease = h.lease /\ Ending(h).session = h.session
  BY <1>0 DEF TypeOK, Lease, Ending
<1>e. \A s \in Sessions : lock[s] \in LockRow =>
        Fence(lock[s]).lease = lock[s].lease /\ Fence(lock[s]).rt = lock[s].rt
  BY <1>0, FenceType
<1> USE DEF processVars, dbVars
<1>1. ASSUME NEW r \in Runtimes, RuntimeStep(r) PROVE Goal
  <2>1. CASE Start(r) \/ Compromise(r) \/ Close(r)
    BY <1>a, <2>1 DEF Start, Compromise, Close
  <2>2. CASE Crash(r)
    <3>1. lock' = lock /\ held' \subseteq held /\ now' = now
      BY <2>2 DEF Crash
    <3>2. \A x \in Runtimes, y \in Sessions : pending'[x][y] \in {NoLease, pending[x][y]}
      BY <1>0, <2>2 DEF Crash
    <3> QED BY <3>1, <3>2 DEF LockMove, MemoryMove
  <2> QED BY <1>1, <2>1, <2>2 DEF RuntimeStep
<1>2. ASSUME NEW r \in Runtimes, RecoverProcessRestart(r) PROVE Goal
  <2>1. now' = now + 1 /\ held' = held /\ pending' = pending
        /\ \A s \in Sessions : lock'[s] = RestartLock(r, s)
    BY <1>2 DEF RecoverProcessRestart
  <2>2. \A s \in Sessions : LockMove(s)
    BY <2>1 DEF LockMove, RestartLock, NewLock
  <2> QED BY <2>1, <2>2 DEF MemoryMove
<1>3. ASSUME NEW r \in Runtimes, NEW s \in Sessions, SessionStep(r, s) PROVE Goal
  <2>1. CASE AdmitRefused(r, s)
    BY <1>b, <2>1 DEF AdmitRefused, LockMove, MemoryMove
  <2>2. CASE BeginMutation(r, s) \/ EndMutation(r, s)
    BY <1>a, <2>2 DEF BeginMutation, EndMutation
  <2>3. CASE AdmitRejected(r, s)
    <3>1. lock'[s] = AdmissionLock(r, s) /\ \A x \in Sessions \ {s} : lock'[x] = lock[x]
      BY <1>0, <2>3 DEF AdmitRejected
    <3>2. \A x \in Sessions : LockMove(x)
      BY <1>0, <1>e, <3>1, AdmissionLockMove DEF LockMove
    <3>3. MemoryMove
      BY <1>b, <2>3 DEF AdmitRejected, MemoryMove
    <3> QED BY <2>3, <3>2, <3>3 DEF AdmitRejected
  <2>4. ASSUME NEW t \in Turns, NEW q \in Requests \cup {NoRequest}, NEW busy \in Busy,
               AdmitAccepted(r, s, t, q, busy)
        PROVE  Goal
    <3>1. lock'[s] = NewLock(r, busy, LeaseTerm) /\ \A x \in Sessions \ {s} : lock'[x] = lock[x]
      BY <1>0, <2>4 DEF AdmitAccepted
    <3>2. now' = now + 1 /\ held' = held \cup {NewLease(r, s, t)} /\ pending' = ForgetPending(r, s)
      BY <2>4 DEF AdmitAccepted
    <3>3. lock'[s].lease = now + 1 /\ lock'[s].rt = r
      BY <3>1 DEF NewLock
    <3>4. \A x \in Sessions : LockMove(x)
      BY <3>1, <3>2, <3>3 DEF LockMove
    <3>5. MemoryMove
      BY <1>b, <3>2, <3>3 DEF MemoryMove, NewLease
    <3> QED BY <3>2, <3>4, <3>5
  <2>5. CASE RecoverExpired(r, s)
    <3>1. lock'[s] \in {lock[s], NoLock} /\ \A x \in Sessions \ {s} : lock'[x] = lock[x]
      BY <1>0, <2>5 DEF RecoverExpired, LockAfterExpiry
    <3> QED BY <2>5, <3>1 DEF RecoverExpired, LockMove, MemoryMove
  <2>6. CASE AcquireMaintenance(r, s)
    <3>1. lock'[s] = NewLock(r, "maintenance", LeaseTerm)
          /\ \A x \in Sessions \ {s} : lock'[x] = lock[x]
      BY <1>0, <2>6 DEF AcquireMaintenance
    <3>2. now' = now + 1 /\ held' = held \cup {NewLease(r, s, NoTurn)} /\ pending' = pending
      BY <2>6 DEF AcquireMaintenance
    <3>3. lock'[s].lease = now + 1 /\ lock'[s].rt = r
      BY <3>1 DEF NewLock
    <3>4. \A x \in Sessions : LockMove(x)
      BY <3>1, <3>2, <3>3 DEF LockMove
    <3>5. MemoryMove
      BY <3>2, <3>3 DEF MemoryMove, NewLease
    <3> QED BY <3>2, <3>4, <3>5
  <2> QED BY <1>3, <2>1, <2>2, <2>3, <2>4, <2>5, <2>6 DEF SessionStep
<1>4. ASSUME NEW r \in Runtimes, NEW s \in Sessions, DeletionStep(r, s) PROVE Goal
  <2>1. CASE DeletionBegin(r, s)
    <3> DEFINE l == DeletionLock(r, s)
    <3>1. l = NoLock \/ (l.lease = lock[s].lease /\ l.rt = lock[s].rt)
      BY <1>0, <1>e, DeletionLockMove
    <3>2. l \in LockRow \cup {NoLock}
      BY <1>0, DeletionType
    <3>3. \A x \in Sessions \ {s} : lock'[x] = lock[x]
      BY <1>0, <2>1 DEF DeletionBegin
    <3>4. \/ lock'[s] = NewLock(r, "session-deletion", Forever) /\ now' = now + 1
          \/ l # NoLock /\ lock'[s] = l /\ now' = now
          \/ l \in LockRow /\ lock'[s] = [l EXCEPT !.kind = DeletingKind(l.kind)] /\ now' = now
      BY <1>0, <2>1, <3>2, NoLockFacts DEF DeletionBegin
    <3> HIDE DEF l
    <3>5. l \in LockRow =>
            /\ [l EXCEPT !.kind = DeletingKind(l.kind)].lease = l.lease
            /\ [l EXCEPT !.kind = DeletingKind(l.kind)].rt = l.rt
      BY DEF LockRow
    <3>6. LockMove(s)
      <4>1. CASE lock'[s] = NewLock(r, "session-deletion", Forever) /\ now' = now + 1
        BY <4>1 DEF LockMove, NewLock
      <4>2. CASE l # NoLock /\ lock'[s] = l
        BY <3>1, <4>2 DEF LockMove
      <4>3. CASE l \in LockRow /\ lock'[s] = [l EXCEPT !.kind = DeletingKind(l.kind)]
        BY <3>1, <3>5, <4>3, NoLockFacts DEF LockMove
      <4> QED BY <3>4, <4>1, <4>2, <4>3
    <3>7. \A x \in Sessions : LockMove(x)
      BY <3>3, <3>6 DEF LockMove
    <3>8. MemoryMove
      BY <1>b, <2>1 DEF DeletionBegin, MemoryMove
    <3> QED BY <3>4, <3>7, <3>8
  <2>2. CASE DeletionAbort(r, s)
    <3>1. \A h \in held' : \E g \in held : h = g \/ h = Ending(g)
      BY <2>2 DEF DeletionAbort
    <3>2. MemoryMove
      BY <1>d, <2>2, <3>1 DEF MemoryMove, DeletionAbort
    <3> QED BY <2>2, <3>2 DEF DeletionAbort, LockMove
  <2>3. CASE DeletionPurge(r, s)
    BY <1>b, <2>3 DEF DeletionPurge, LockMove, MemoryMove
  <2>4. CASE DeletionComplete(r, s) \/ DeletionNotFound(r, s)
    <3>1. lock'[s] \in {lock[s], NoLock} /\ \A x \in Sessions \ {s} : lock'[x] = lock[x]
      BY <1>0, <2>4 DEF DeletionComplete, DeletionNotFound
    <3>2. held' = held /\ pending' = pending /\ now' = now
      BY <2>4 DEF DeletionComplete, DeletionNotFound
    <3> QED BY <3>1, <3>2 DEF LockMove, MemoryMove
  <2>5. CASE \/ DeletionStart(r, s) \/ DeletionQuiescent(r, s)
             \/ DeletionCleanup(r, s) \/ DeletionThrows(r, s)
    BY <1>a, <2>5 DEF DeletionStart, DeletionQuiescent, DeletionCleanup, DeletionThrows
  <2> QED BY <1>4, <2>1, <2>2, <2>3, <2>4, <2>5 DEF DeletionStep
<1>5. ASSUME NEW h \in held, LeaseStep(h) PROVE Goal
  <2>0. h \in Lease /\ h.rt \in Runtimes /\ h.session \in Sessions
        /\ lock[h.session] \in LockRow \cup {NoLock}
    BY <1>0, LeaseFacts
  <2>1. CASE Renew(h) \/ RenewMaintenance(h)
    <3>1. lock' = [lock EXCEPT ![h.session].ttl = LeaseTerm]
          /\ held' = held /\ pending' = pending /\ now' = now
      BY <2>1 DEF Renew, RenewMaintenance
    <3>2. \A x \in Sessions : lock'[x].lease = lock[x].lease /\ lock'[x].rt = lock[x].rt
      BY <1>0, <2>0, <3>1 DEF LockRow, NoLock
    <3> QED BY <3>1, <3>2 DEF LockMove, MemoryMove
  <2>2. ASSUME NEW o \in Terminal, Settle(h, o) PROVE Goal
    <3>1. lock'[h.session] = ReleaseOrPromoteDeletionFence(lock[h.session])
          /\ (\A x \in Sessions \ {h.session} : lock'[x] = lock[x])
          /\ held' \subseteq held /\ pending' = DropPending(h) /\ now' = now
      BY <1>0, <2>0, <2>2 DEF Settle
    <3>2. NoLock.kind \notin TurnDeletingKinds
      BY DEF NoLock, TurnDeletingKinds
    <3>3. LockMove(h.session)
      BY <1>e, <2>0, <3>1, <3>2 DEF LockMove, ReleaseOrPromoteDeletionFence
    <3>4. \A x \in Sessions : LockMove(x)
      BY <3>1, <3>3 DEF LockMove
    <3> QED BY <1>c, <3>1, <3>4 DEF MemoryMove
  <2>3. CASE SettleStale(h)
    BY <1>c, <2>3 DEF SettleStale, LockMove, MemoryMove
  <2>4. CASE SettleThrows(h)
    <3>1. lock' = lock /\ now' = now /\ held' \subseteq held \cup {Ending(h)}
      BY <2>4 DEF SettleThrows
    <3>2. \A x \in Runtimes, y \in Sessions :
            pending'[x][y] = pending[x][y] \/ (x = h.rt /\ y = h.session /\ pending'[x][y] = Ending(h))
      BY <1>0, <2>0, <2>4 DEF SettleThrows
    <3>3. MemoryMove
      BY <1>d, <3>1, <3>2 DEF MemoryMove
    <3> QED BY <3>1, <3>3 DEF LockMove
  <2>5. CASE RevokeAdmission(h)
    <3>1. lock'[h.session] = NoLock /\ \A x \in Sessions \ {h.session} : lock'[x] = lock[x]
      BY <1>0, <2>0, <2>5 DEF RevokeAdmission
    <3> QED BY <2>5, <3>1 DEF RevokeAdmission, LockMove, MemoryMove
  <2>6. CASE ReleaseMaintenance(h)
    <3>1. held' \subseteq held /\ pending' = pending /\ now' = now
          /\ \A x \in Sessions \ {h.session} : lock'[x] = lock[x]
      BY <1>0, <2>0, <2>6 DEF ReleaseMaintenance
    <3>2. \/ lock'[h.session] \in {lock[h.session], NoLock}
          \/ lock[h.session] \in LockRow /\ lock'[h.session] = Fence(lock[h.session])
      BY <1>0, <2>0, <2>6, NoLockFacts DEF ReleaseMaintenance
    <3>3. LockMove(h.session)
      BY <1>e, <2>0, <3>2 DEF LockMove
    <3>4. \A x \in Sessions : LockMove(x)
      BY <3>1, <3>3 DEF LockMove
    <3> QED BY <3>1, <3>4 DEF MemoryMove
  <2> QED BY <1>5, <2>1, <2>2, <2>3, <2>4, <2>5, <2>6 DEF LeaseStep
<1>6. ASSUME NEW s \in Sessions, Tick(s) PROVE Goal
  <2>1. lock' = [lock EXCEPT ![s].ttl = @ - 1] /\ held' = held /\ pending' = pending /\ now' = now
    BY <1>6 DEF Tick
  <2>2. \A x \in Sessions : lock'[x].lease = lock[x].lease /\ lock'[x].rt = lock[x].rt
    BY <1>0, <2>1 DEF LockRow, NoLock
  <2> QED BY <2>1, <2>2 DEF LockMove, MemoryMove
<1>7. CASE UNCHANGED vars
  BY <1>a, <1>7 DEF vars
<1> QED BY <1>1, <1>2, <1>3, <1>4, <1>5, <1>6, <1>7 DEF Next

\* The empty database has no leases.
LEMMA InitLeases == Init => LInv
<1> SUFFICES ASSUME Init PROVE LInv
  OBVIOUS
<1>1. TypeOK
  BY InitType
<1>2. now = 0 /\ held = {} /\ (\A s \in Sessions : lock[s].lease = 0)
      /\ \A r \in Runtimes, s \in Sessions : pending[r][s] = NoLease
  BY DEF Init, NoLock
<1> QED BY <1>1, <1>2 DEF LInv, LeasesIssued, LeasesNameOwner

\* Each step keeps the invariant of the leases.
LEMMA LeaseStepKeeps == LInv /\ [Next]_vars => LInv'
<1> SUFFICES ASSUME LInv, [Next]_vars PROVE LInv'
  OBVIOUS
<1>1. TypeOK'
  BY TypeStep DEF LInv
<1> QED BY <1>1, NextMoves, MovesKeep

\* Why the lock of s may leave its owner.
LetGo(s) ==
  \/ Expired(lock[s])
  \/ ~IsOwnerAlive(lock[s].rt)
  \/ \E h \in held : h.lease = lock[s].lease /\ h.session = s /\ h \notin held'
  \/ pending[lock[s].rt][s].lease = lock[s].lease /\ pending'[lock[s].rt][s] = NoLease
  \/ lock[s].kind = "session-deletion" /\ \A t \in Turns : row[t].session # s

\* A settlement that the process itself remembered releases only its own lock.
LEMMA PendingLetsGo ==
  ASSUME LInv, NEW r \in Runtimes, NEW s \in Sessions, PendingApplies(r, s),
         pending' = ForgetPending(r, s)
  PROVE  LetGo(s)
<1>1. pending[r][s] # NoLease /\ lock[s].lease = pending[r][s].lease
  BY DEF PendingApplies
<1>2. lock[s].rt = r
  BY <1>1 DEF LInv, LeasesNameOwner
<1>3. pending'[r][s] = NoLease
  BY DEF LInv, TypeOK, ForgetPending
<1> QED BY <1>1, <1>2, <1>3 DEF LetGo

\* A step in which the lock of a Session leaves its owner is one of those that
\* may let it go.
LEMMA NextLetsGo ==
  ASSUME LInv, [Next]_vars, NEW s \in Sessions, lock[s].kind # "none",
         lock'[s].lease # lock[s].lease
  PROVE  LetGo(s)
<1>0. /\ TypeOK /\ lock \in [Sessions -> LockRow \cup {NoLock}]
      /\ lock[s] \in LockRow /\ lock'[s] # lock[s]
  BY NoLockFacts DEF LInv, TypeOK
<1>e. Fence(lock[s]).lease = lock[s].lease /\ Fence(lock[s]).rt = lock[s].rt
  BY <1>0, FenceType
<1>f. lock[s] # NoLock
  BY <1>0, NoLockFacts
<1> USE DEF processVars, dbVars
<1>1. ASSUME NEW r \in Runtimes, RuntimeStep(r) PROVE LetGo(s)
  BY <1>0, <1>1 DEF RuntimeStep, Start, Compromise, Close, Crash
<1>2. ASSUME NEW r \in Runtimes, RecoverProcessRestart(r) PROVE LetGo(s)
  <2>1. lock'[s] = RestartLock(r, s)
    BY <1>2 DEF RecoverProcessRestart
  <2>2. Orphaned(r, s)
    BY <1>0, <2>1 DEF RestartLock
  <2> QED BY <2>2 DEF Orphaned, LetGo
<1>3. ASSUME NEW r \in Runtimes, NEW x \in Sessions, SessionStep(r, x) PROVE LetGo(s)
  <2>1. CASE AdmitRefused(r, x) \/ BeginMutation(r, x) \/ EndMutation(r, x)
    BY <1>0, <2>1 DEF AdmitRefused, BeginMutation, EndMutation
  <2>2. CASE AdmitRejected(r, x)
    <3>1. x = s /\ lock'[s] = AdmissionLock(r, s) /\ pending' = ForgetPending(r, s)
      BY <1>0, <2>2 DEF AdmitRejected
    <3>2. PendingApplies(r, s) \/ Expired(lock[s])
      BY <1>0, <3>1, AdmissionLockMove
    <3> QED BY <3>1, <3>2, PendingLetsGo DEF LetGo
  <2>3. ASSUME NEW t \in Turns, NEW q \in Requests \cup {NoRequest}, NEW busy \in Busy,
               AdmitAccepted(r, x, t, q, busy)
        PROVE  LetGo(s)
    <3>1. x = s /\ AdmissionLock(r, s) = NoLock /\ pending' = ForgetPending(r, s)
      BY <1>0, <2>3 DEF AdmitAccepted
    <3>2. PendingApplies(r, s) \/ Expired(lock[s])
      BY <1>0, <1>f, <3>1, AdmissionLockMove
    <3> QED BY <3>1, <3>2, PendingLetsGo DEF LetGo
  <2>4. CASE RecoverExpired(r, x) \/ AcquireMaintenance(r, x)
    <3>1. x = s
      BY <1>0, <2>4 DEF RecoverExpired, AcquireMaintenance
    <3>2. Expired(lock[s])
      BY <1>f, <2>4, <3>1 DEF RecoverExpired, AcquireMaintenance, LockAfterExpiry
    <3> QED BY <3>2 DEF LetGo
  <2> QED BY <1>3, <2>1, <2>2, <2>3, <2>4 DEF SessionStep
<1>4. ASSUME NEW r \in Runtimes, NEW x \in Sessions, DeletionStep(r, x) PROVE LetGo(s)
  <2>1. CASE DeletionBegin(r, x)
    <3> DEFINE l == DeletionLock(r, s)
    <3>1. x = s /\ pending' = ForgetPending(r, s)
      BY <1>0, <2>1 DEF DeletionBegin
    <3>2. \/ l = NoLock
          \/ l.kind = "session-deletion" /\ ~IsOwnerAlive(l.rt)
          \/ l # NoLock /\ lock'[s] = l
          \/ l \in LockRow /\ lock'[s] = [l EXCEPT !.kind = DeletingKind(l.kind)]
      BY <1>0, <2>1, <3>1, DeletionType, NoLockFacts DEF DeletionBegin
    <3>3. \/ l.lease = lock[s].lease /\ l.rt = lock[s].rt
          \/ (PendingApplies(r, s) \/ Expired(lock[s])) /\ l = NoLock
      BY <1>0, <1>e, DeletionLockMove
    <3> HIDE DEF l
    <3>4. l \in LockRow => [l EXCEPT !.kind = DeletingKind(l.kind)].lease = l.lease
      BY DEF LockRow
    <3>5. CASE PendingApplies(r, s) \/ Expired(lock[s])
      BY <3>1, <3>5, PendingLetsGo DEF LetGo
    <3>6. CASE ~(PendingApplies(r, s) \/ Expired(lock[s]))
      <4>1. l.lease = lock[s].lease /\ l.rt = lock[s].rt
        BY <3>3, <3>6
      <4>2. l # NoLock
        BY <4>1, <3>6, <1>f, <1>0, DeletionLockMove DEF l
      <4>3. ~(l # NoLock /\ lock'[s] = l)
        BY <4>1
      <4>4. ~(l \in LockRow /\ lock'[s] = [l EXCEPT !.kind = DeletingKind(l.kind)])
        BY <3>4, <4>1
      <4> QED BY <3>2, <4>1, <4>2, <4>3, <4>4 DEF LetGo
    <3> QED BY <3>5, <3>6
  <2>2. CASE DeletionComplete(r, x) \/ DeletionNotFound(r, x)
    <3>1. x = s
      BY <1>0, <2>2 DEF DeletionComplete, DeletionNotFound
    <3>2. CanComplete(r, s)
      BY <1>0, <2>2, <3>1 DEF DeletionComplete, DeletionNotFound
    <3> QED BY <3>2 DEF CanComplete, LetGo
  <2>3. CASE \/ DeletionStart(r, x) \/ DeletionAbort(r, x) \/ DeletionQuiescent(r, x)
             \/ DeletionPurge(r, x) \/ DeletionCleanup(r, x) \/ DeletionThrows(r, x)
    BY <1>0, <2>3 DEF DeletionStart, DeletionAbort, DeletionQuiescent, DeletionPurge,
                      DeletionCleanup, DeletionThrows
  <2> QED BY <1>4, <2>1, <2>2, <2>3 DEF DeletionStep
<1>5. ASSUME NEW h \in held, LeaseStep(h) PROVE LetGo(s)
  <2>0. h.session \in Sessions
    BY <1>0, LeaseFacts
  <2>1. CASE Renew(h) \/ RenewMaintenance(h)
    <3>1. lock' = [lock EXCEPT ![h.session].ttl = LeaseTerm]
      BY <2>1 DEF Renew, RenewMaintenance
    <3>2. lock'[s].lease = lock[s].lease
      BY <1>0, <3>1 DEF LockRow
    <3> QED BY <1>0, <3>2
  <2>2. ASSUME NEW o \in Terminal, Settle(h, o) PROVE LetGo(s)
    <3>1. h.session = s /\ lock[s].lease = h.lease /\ h \notin held'
      BY <1>0, <2>0, <2>2 DEF Settle, OwnsTurn
    <3> QED BY <3>1 DEF LetGo
  <2>3. CASE SettleStale(h) \/ SettleThrows(h)
    BY <1>0, <2>3 DEF SettleStale, SettleThrows
  <2>4. CASE RevokeAdmission(h)
    <3>1. h.session = s /\ lock[s].lease = h.lease /\ h \notin held'
      BY <1>0, <2>0, <2>4 DEF RevokeAdmission
    <3> QED BY <3>1 DEF LetGo
  <2>5. CASE ReleaseMaintenance(h)
    <3>1. h.session = s /\ lock[s].lease = h.lease /\ h \notin held'
      BY <1>0, <2>0, <2>5 DEF ReleaseMaintenance
    <3> QED BY <3>1 DEF LetGo
  <2> QED BY <1>5, <2>1, <2>2, <2>3, <2>4, <2>5 DEF LeaseStep
<1>6. ASSUME NEW x \in Sessions, Tick(x) PROVE LetGo(s)
  <2>1. lock' = [lock EXCEPT ![x].ttl = @ - 1]
    BY <1>6 DEF Tick
  <2>2. lock'[s].lease = lock[s].lease
    BY <1>0, <2>1 DEF LockRow
  <2> QED BY <2>2
<1>7. CASE UNCHANGED vars
  BY <1>0, <1>7 DEF vars
<1> QED BY <1>1, <1>2, <1>3, <1>4, <1>5, <1>6, <1>7 DEF Next

\* No process loses the lock of a Session while it is alive and its lease runs,
\* unless it let go itself, for any number of processes that admit, recover,
\* renew and delete at the same time.
THEOREM LiveLeaseKept == Spec => LiveLeaseIsNotTaken
<1> DEFINE Kept == \A s \in Sessions :
                     LET l == lock[s] IN
                     l.kind # "none" /\ lock'[s].lease # l.lease =>
                       \/ Expired(l)
                       \/ ~IsOwnerAlive(l.rt)
                       \/ \E h \in held : h.lease = l.lease /\ h.session = s /\ h \notin held'
                       \/ pending[l.rt][s].lease = l.lease /\ pending'[l.rt][s] = NoLease
                       \/ l.kind = "session-deletion" /\ \A t \in Turns : row[t].session # s
<1>1. Init => LInv
  BY InitLeases
<1>2. LInv /\ [Next]_vars => LInv'
  BY LeaseStepKeeps
<1>3. LInv /\ [Next]_vars => [Kept]_vars
  BY NextLetsGo DEF LetGo
<1> QED BY <1>1, <1>2, <1>3, PTL DEF Spec, LiveLeaseIsNotTaken

-----------------------------------------------------------------------------
(* The deletion fence.                                                     *)

CleanedIsGone ==
  \A r \in Runtimes, s \in Sessions : stage[r][s] = "cleaned" => s \notin exists

\* The inductive invariant of the fence.  A fence is let go by the recoveries,
\* which need an accepted Turn or an expiry, and by the end of a run, which
\* needs the session row gone: so one needs that a fence has no accepted Turn
\* beside it, and that a run past its cleanup has left no row.
FInv == IInv /\ CleanedIsGone

\* A session row that is gone stays gone, and only cleanup makes a run cleaned.
LEMMA CleanedKept ==
  ASSUME TypeOK, CleanedIsGone, [Next]_vars
  PROVE  CleanedIsGone'
<1>0. stage \in [Runtimes -> [Sessions -> Stages]] /\ exists \subseteq Sessions
  BY DEF TypeOK
<1> USE DEF processVars, dbVars
<1>1. ASSUME exists' \subseteq exists,
             \A r \in Runtimes, s \in Sessions : stage'[r][s] \in {stage[r][s]} \cup (Stages \ {"cleaned"})
      PROVE  CleanedIsGone'
  BY <1>1 DEF CleanedIsGone
<1>2. ASSUME stage' = stage, exists' = exists PROVE CleanedIsGone'
  BY <1>1, <1>2
<1>3. ASSUME NEW r \in Runtimes, RuntimeStep(r) \/ RecoverProcessRestart(r) PROVE CleanedIsGone'
  <2>1. CASE Crash(r)
    <3>1. \A x \in Runtimes, s \in Sessions : stage'[x][s] \in {stage[x][s], "idle"}
      BY <1>0, <2>1 DEF Crash
    <3>2. exists' = exists
      BY <2>1 DEF Crash
    <3> QED BY <3>1, <3>2 DEF CleanedIsGone
  <2>2. CASE ~Crash(r)
    BY <1>2, <1>3, <2>2 DEF RuntimeStep, Start, Compromise, Close, RecoverProcessRestart
  <2> QED BY <2>1, <2>2
<1>4. ASSUME NEW r \in Runtimes, NEW s \in Sessions, SessionStep(r, s) PROVE CleanedIsGone'
  BY <1>2, <1>4 DEF SessionStep, AdmitRefused, AdmitRejected, AdmitAccepted, RecoverExpired,
       AcquireMaintenance, BeginMutation, EndMutation
<1>5. ASSUME NEW r \in Runtimes, NEW s \in Sessions, DeletionStep(r, s) PROVE CleanedIsGone'
  <2>1. ASSUME NEW st \in Stages \ {"cleaned"}, stage' = [stage EXCEPT ![r][s] = st], exists' = exists
        PROVE  CleanedIsGone'
    <3>1. \A x \in Runtimes, y \in Sessions : stage'[x][y] \in {stage[x][y], st}
      BY <1>0, <2>1
    <3> QED BY <2>1, <3>1 DEF CleanedIsGone
  <2>2. CASE DeletionCleanup(r, s)
    <3>1. exists' = exists \ {s}
          /\ \A x \in Runtimes, y \in Sessions : stage'[x][y] = stage[x][y] \/ y = s
      BY <1>0, <2>2 DEF DeletionCleanup
    <3> QED BY <3>1 DEF CleanedIsGone
  <2>3. CASE DeletionNotFound(r, s)
    BY <1>2, <2>3 DEF DeletionNotFound
  <2>4. CASE \/ DeletionStart(r, s) \/ DeletionBegin(r, s) \/ DeletionAbort(r, s)
             \/ DeletionQuiescent(r, s)
    BY <2>1, <2>4 DEF DeletionStart, DeletionBegin, DeletionAbort, DeletionQuiescent, Stages
  <2>5. CASE DeletionPurge(r, s) \/ DeletionComplete(r, s) \/ DeletionThrows(r, s)
    BY <2>1, <2>5 DEF DeletionPurge, DeletionComplete, DeletionThrows, Stages
  <2> QED BY <1>5, <2>2, <2>3, <2>4, <2>5 DEF DeletionStep
<1>6. ASSUME NEW h \in held, LeaseStep(h) PROVE CleanedIsGone'
  BY <1>2, <1>6 DEF LeaseStep, Renew, Settle, SettleStale, SettleThrows, RevokeAdmission,
       RenewMaintenance, ReleaseMaintenance
<1>7. ASSUME NEW s \in Sessions, Tick(s) PROVE CleanedIsGone'
  BY <1>2, <1>7 DEF Tick
<1>8. CASE UNCHANGED vars
  BY <1>2, <1>8 DEF vars
<1> QED BY <1>3, <1>4, <1>5, <1>6, <1>7, <1>8 DEF Next

\* A fence that stands has no accepted Turn beside it and does not expire, so
\* none of the recoveries of a transaction touches it.
LEMMA FenceUntouched ==
  ASSUME FInv, NEW s \in Sessions, Fenced(s)
  PROVE  /\ ~Expired(lock[s])
         /\ AcceptedIn(row, s) = {}
         /\ \A r \in Runtimes : ~PendingApplies(r, s)
<1>1. ~Expired(lock[s])
  BY LeaseTermAssumption DEF LeaseTermAssumption, Fenced, Expired, Forever
<1>2. AcceptedIn(row, s) = {}
  BY NoLockFacts DEF FInv, IInv, Agrees, Fenced
<1> QED BY <1>1, <1>2 DEF PendingApplies

\* A step that takes the fence of s away finds its session row gone.
LEMMA FenceReleased ==
  ASSUME FInv, [Next]_vars, NEW s \in Sessions, Fenced(s),
         lock'[s].kind # "session-deletion"
  PROVE  s \notin exists
<1>0. /\ TypeOK /\ lock \in [Sessions -> LockRow \cup {NoLock}]
      /\ lock[s].kind = "session-deletion" /\ lock[s] # NoLock /\ lock'[s] # lock[s]
  BY NoLockFacts DEF FInv, IInv, TypeOK, Fenced
<1>f. /\ ~Expired(lock[s]) /\ AcceptedIn(row, s) = {}
      /\ \A r \in Runtimes : ~PendingApplies(r, s)
  BY FenceUntouched
<1> USE DEF processVars, dbVars
<1>1. ASSUME NEW r \in Runtimes, RuntimeStep(r) PROVE FALSE
  BY <1>0, <1>1 DEF RuntimeStep, Start, Compromise, Close, Crash
<1>2. ASSUME NEW r \in Runtimes, RecoverProcessRestart(r) PROVE FALSE
  <2>1. lock'[s] = RestartLock(r, s)
    BY <1>2 DEF RecoverProcessRestart
  <2> QED BY <1>0, <2>1 DEF RestartLock, NewLock
<1>3. ASSUME NEW r \in Runtimes, NEW x \in Sessions, SessionStep(r, x) PROVE FALSE
  <2>0. AdmissionLock(r, s) = lock[s]
    BY <1>0, <1>f, AdmissionLockMove, NoLockFacts
  <2>1. CASE AdmitRefused(r, x) \/ BeginMutation(r, x) \/ EndMutation(r, x)
    BY <1>0, <2>1 DEF AdmitRefused, BeginMutation, EndMutation
  <2>2. CASE AdmitRejected(r, x)
    BY <1>0, <2>0, <2>2 DEF AdmitRejected
  <2>3. ASSUME NEW t \in Turns, NEW q \in Requests \cup {NoRequest}, NEW busy \in Busy,
               AdmitAccepted(r, x, t, q, busy)
        PROVE  FALSE
    BY <1>0, <2>0, <2>3 DEF AdmitAccepted
  <2>4. CASE RecoverExpired(r, x) \/ AcquireMaintenance(r, x)
    BY <1>0, <1>f, <2>4 DEF RecoverExpired, AcquireMaintenance, LockAfterExpiry
  <2> QED BY <1>3, <2>1, <2>2, <2>3, <2>4 DEF SessionStep
<1>4. ASSUME NEW r \in Runtimes, NEW x \in Sessions, DeletionStep(r, x) PROVE s \notin exists
  <2>1. CASE DeletionBegin(r, x)
    <3>1. x = s
      BY <1>0, <2>1 DEF DeletionBegin
    <3>2. DeletionLock(r, s) = lock[s]
      BY <1>0, <1>f, DeletionLockMove, NoLockFacts
    <3>3. lock'[s] \in {NewLock(r, "session-deletion", Forever), lock[s]}
      BY <1>0, <2>1, <3>1, <3>2 DEF DeletionBegin
    <3> QED BY <1>0, <3>3 DEF NewLock
  <2>2. CASE DeletionComplete(r, x)
    <3>1. x = s /\ stage[r][s] = "cleaned"
      BY <1>0, <2>2 DEF DeletionComplete
    <3> QED BY <3>1 DEF FInv, CleanedIsGone
  <2>3. CASE DeletionNotFound(r, x)
    BY <1>0, <2>3 DEF DeletionNotFound
  <2>4. CASE \/ DeletionStart(r, x) \/ DeletionAbort(r, x) \/ DeletionQuiescent(r, x)
             \/ DeletionPurge(r, x) \/ DeletionCleanup(r, x) \/ DeletionThrows(r, x)
    BY <1>0, <2>4 DEF DeletionStart, DeletionAbort, DeletionQuiescent, DeletionPurge,
                      DeletionCleanup, DeletionThrows
  <2> QED BY <1>4, <2>1, <2>2, <2>3, <2>4 DEF DeletionStep
<1>5. ASSUME NEW h \in held, LeaseStep(h) PROVE FALSE
  <2>0. h.session \in Sessions
    BY <1>0, LeaseFacts
  <2>1. CASE Renew(h) \/ RenewMaintenance(h)
    <3>1. lock' = [lock EXCEPT ![h.session].ttl = LeaseTerm]
      BY <2>1 DEF Renew, RenewMaintenance
    <3>2. lock'[s].kind = lock[s].kind
      BY <1>0, <3>1 DEF LockRow, NoLock
    <3> QED BY <1>0, <3>2
  <2>2. ASSUME NEW o \in Terminal, Settle(h, o) PROVE FALSE
    BY <1>0, <1>f, <2>0, <2>2, LatestIsAccepted DEF Settle, OwnsTurn
  <2>3. CASE SettleStale(h) \/ SettleThrows(h)
    BY <1>0, <2>3 DEF SettleStale, SettleThrows
  <2>4. CASE RevokeAdmission(h)
    BY <1>0, <1>f, <2>0, <2>4 DEF RevokeAdmission
  <2>5. CASE ReleaseMaintenance(h)
    BY <1>0, <2>0, <2>5 DEF ReleaseMaintenance
  <2> QED BY <1>5, <2>1, <2>2, <2>3, <2>4, <2>5 DEF LeaseStep
<1>6. ASSUME NEW x \in Sessions, Tick(x) PROVE FALSE
  <2>1. lock' = [lock EXCEPT ![x].ttl = @ - 1]
    BY <1>6 DEF Tick
  <2>2. lock'[s].kind = lock[s].kind
    BY <1>0, <2>1 DEF LockRow, NoLock
  <2> QED BY <1>0, <2>2
<1>7. CASE UNCHANGED vars
  BY <1>0, <1>7 DEF vars
<1> QED BY <1>1, <1>2, <1>3, <1>4, <1>5, <1>6, <1>7 DEF Next

\* A step after which the fence of s has an ordinary expiry either found it so
\* or is the renewal of a Turn that runs under its owner id.
LEMMA FenceRenewed ==
  ASSUME TypeOK, [Next]_vars, NEW s \in Sessions, FenceLapses(s)', ~FenceLapses(s)
  PROVE  Fenced(s) /\ RunsUnderLock(s)
<1>0. /\ lock \in [Sessions -> LockRow \cup {NoLock}]
      /\ lock'[s].kind = "session-deletion" /\ lock'[s].ttl # Forever
      /\ lock'[s] # lock[s] /\ lock'[s] # NoLock
  BY NoLockFacts DEF TypeOK, FenceLapses
<1>1. \A l \in LockRow : lock'[s] # Fence(l)
  BY <1>0, FenceStands
<1>2. \A r \in Runtimes : lock'[s] # NewLock(r, "session-deletion", Forever)
  BY <1>0 DEF NewLock
<1>3. \A r \in Runtimes, k \in OwnerKinds \ {"session-deletion"} : lock'[s] # NewLock(r, k, LeaseTerm)
  BY <1>0 DEF NewLock
<1> USE DEF processVars, dbVars
<1>4. ASSUME NEW r \in Runtimes, RuntimeStep(r) PROVE FALSE
  BY <1>0, <1>4 DEF RuntimeStep, Start, Compromise, Close, Crash
<1>5. ASSUME NEW r \in Runtimes, RecoverProcessRestart(r) PROVE FALSE
  <2>1. lock'[s] = RestartLock(r, s)
    BY <1>5 DEF RecoverProcessRestart
  <2> QED BY <1>0, <1>2, <2>1 DEF RestartLock
<1>6. ASSUME NEW r \in Runtimes, NEW x \in Sessions, SessionStep(r, x) PROVE FALSE
  <2>0. lock'[s] # AdmissionLock(r, s)
    BY <1>0, <1>1, AdmissionLockMove
  <2>1. CASE AdmitRefused(r, x) \/ BeginMutation(r, x) \/ EndMutation(r, x)
    BY <1>0, <2>1 DEF AdmitRefused, BeginMutation, EndMutation
  <2>2. CASE AdmitRejected(r, x)
    BY <1>0, <2>0, <2>2 DEF AdmitRejected
  <2>3. ASSUME NEW t \in Turns, NEW q \in Requests \cup {NoRequest}, NEW busy \in Busy,
               AdmitAccepted(r, x, t, q, busy)
        PROVE  FALSE
    <3>1. busy \in OwnerKinds \ {"session-deletion"}
      BY BusyAssumption DEF BusyAssumption, OwnerKinds, TurnKinds
    <3> QED BY <1>0, <1>3, <2>3, <3>1 DEF AdmitAccepted
  <2>4. CASE RecoverExpired(r, x)
    BY <1>0, <2>4 DEF RecoverExpired, LockAfterExpiry
  <2>5. CASE AcquireMaintenance(r, x)
    <3>1. "maintenance" \in OwnerKinds \ {"session-deletion"}
      BY DEF OwnerKinds
    <3> QED BY <1>0, <1>3, <2>5, <3>1 DEF AcquireMaintenance
  <2> QED BY <1>6, <2>1, <2>2, <2>3, <2>4, <2>5 DEF SessionStep
<1>7. ASSUME NEW r \in Runtimes, NEW x \in Sessions, DeletionStep(r, x) PROVE FALSE
  <2>1. CASE DeletionBegin(r, x)
    <3>1. x = s
      BY <1>0, <2>1 DEF DeletionBegin
    <3>2. lock'[s] # DeletionLock(r, s)
      BY <1>0, <1>1, DeletionLockMove
    <3>3. lock'[s] = [DeletionLock(r, s) EXCEPT !.kind = DeletingKind(DeletionLock(r, s).kind)]
      BY <1>0, <1>2, <2>1, <3>1, <3>2 DEF DeletionBegin
    <3>4. DeletionLock(r, s) \in LockRow \cup {NoLock}
      BY <1>0, DeletionLockMove, FenceType
    <3>5. lock'[s].kind = DeletingKind(DeletionLock(r, s).kind)
      BY <3>3, <3>4 DEF LockRow, NoLock
    <3> QED BY <1>0, <3>5 DEF DeletingKind
  <2>2. CASE DeletionComplete(r, x) \/ DeletionNotFound(r, x)
    BY <1>0, <2>2 DEF DeletionComplete, DeletionNotFound
  <2>3. CASE \/ DeletionStart(r, x) \/ DeletionAbort(r, x) \/ DeletionQuiescent(r, x)
             \/ DeletionPurge(r, x) \/ DeletionCleanup(r, x) \/ DeletionThrows(r, x)
    BY <1>0, <2>3 DEF DeletionStart, DeletionAbort, DeletionQuiescent, DeletionPurge,
                      DeletionCleanup, DeletionThrows
  <2> QED BY <1>7, <2>1, <2>2, <2>3 DEF DeletionStep
<1>8. ASSUME NEW h \in held, LeaseStep(h) PROVE Fenced(s) /\ RunsUnderLock(s)
  <2>0. h.session \in Sessions
    BY LeaseFacts
  <2>1. CASE Renew(h)
    <3>1. lock' = [lock EXCEPT ![h.session].ttl = LeaseTerm] /\ lock[h.session].lease = h.lease
          /\ h.turn # NoTurn /\ h.phase = "running"
      BY <2>1 DEF Renew
    <3>2. lock'[s].kind = lock[s].kind
      BY <1>0, <3>1 DEF LockRow, NoLock
    <3>3. h.session = s
      BY <1>0, <3>1
    <3> QED BY <1>0, <3>1, <3>2, <3>3 DEF Fenced, FenceLapses, RunsUnderLock
  <2>2. CASE RenewMaintenance(h)
    <3>1. lock' = [lock EXCEPT ![h.session].ttl = LeaseTerm]
          /\ lock[h.session].kind \in {"maintenance", "maintenance-deleting"}
      BY <2>2 DEF RenewMaintenance
    <3>2. lock'[s].kind = lock[s].kind
      BY <1>0, <3>1 DEF LockRow, NoLock
    <3>3. h.session = s
      BY <1>0, <3>1
    <3> QED BY <1>0, <3>1, <3>2, <3>3
  <2>3. ASSUME NEW o \in Terminal, Settle(h, o) PROVE FALSE
    <3>1. lock'[s] \in {lock[s], ReleaseOrPromoteDeletionFence(lock[s])}
      BY <1>0, <2>0, <2>3 DEF Settle
    <3> QED BY <1>0, <1>1, <3>1, NoLockFacts DEF ReleaseOrPromoteDeletionFence, TurnDeletingKinds
  <2>4. CASE SettleStale(h) \/ SettleThrows(h)
    BY <1>0, <2>4 DEF SettleStale, SettleThrows
  <2>5. CASE RevokeAdmission(h)
    BY <1>0, <2>0, <2>5 DEF RevokeAdmission
  <2>6. CASE ReleaseMaintenance(h)
    <3>1. \/ lock'[s] \in {lock[s], NoLock}
          \/ lock'[s] = Fence(lock[s]) /\ lock[s].kind = "maintenance-deleting"
      BY <1>0, <2>0, <2>6 DEF ReleaseMaintenance
    <3> QED BY <1>0, <1>1, <3>1 DEF NoLock
  <2> QED BY <1>8, <2>1, <2>2, <2>3, <2>4, <2>5, <2>6 DEF LeaseStep
<1>9. ASSUME NEW x \in Sessions, Tick(x) PROVE FALSE
  <2>1. lock' = [lock EXCEPT ![x].ttl = @ - 1] /\ lock[x].ttl \in 1..LeaseTerm
    BY <1>9 DEF Tick
  <2>2. lock'[s].kind = lock[s].kind
    BY <1>0, <2>1 DEF LockRow, NoLock
  <2>3. x = s
    BY <1>0, <2>1
  <2>4. lock[s].ttl # Forever
    BY <2>1, <2>3, LeaseTermAssumption DEF LeaseTermAssumption, Forever
  <2> QED BY <1>0, <2>2, <2>4 DEF FenceLapses
<1>10. CASE UNCHANGED vars
  BY <1>0, <1>10 DEF vars
<1> QED BY <1>4, <1>5, <1>6, <1>7, <1>8, <1>9, <1>10 DEF Next

\* Whatever the number of processes, and wherever a run throws or its process
\* dies, a deletion fence is released only after the session row is gone, unless
\* it has lapsed; and it comes to lapse only in the renewal of a Turn that still
\* runs under the owner id the fence took over.
THEOREM FenceHolds == Spec => FenceHoldsUntilCleanup
<1> DEFINE Holds == \A s \in Sessions :
       /\ Fenced(s) /\ s \in exists => lock'[s].kind = "session-deletion"
       /\ FenceLapses(s)' => FenceLapses(s) \/ (Fenced(s) /\ RunsUnderLock(s))
<1>1. Init => FInv
  <2> SUFFICES ASSUME Init PROVE FInv
    OBVIOUS
  <2>1. \A r \in Runtimes, s \in Sessions : stage[r][s] = "idle"
    BY DEF Init
  <2> QED BY <2>1, InitInv DEF FInv, CleanedIsGone
<1>2. FInv /\ [Next]_vars => FInv'
  BY InvStep, CleanedKept DEF FInv, IInv
<1>3. FInv /\ [Next]_vars => [Holds]_vars
  BY FenceReleased, FenceRenewed DEF FInv, IInv
<1> QED BY <1>1, <1>2, <1>3, PTL DEF Spec, FenceHoldsUntilCleanup

=============================================================================

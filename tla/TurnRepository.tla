---------------------------- MODULE TurnRepository ----------------------------
(***************************************************************************)
(* The durable owner of Session work: one lock row per Session, one        *)
(* ingress row per Turn, shared through one SQLite database by every       *)
(* Runtime process of the machine.  Every repository call is one immediate *)
(* transaction, hence one action; a process may stop between two calls.    *)
(* The module also holds the Session deletion run, the one client whose    *)
(* several repository calls only make sense in order.                      *)
(*                                                                         *)
(* turn.repository.ts, turn-lease-recovery.ts, session-turn-deletion.ts,   *)
(* deletion-gate.ts and infra/runtime-owner/identity.ts.                   *)
(***************************************************************************)
EXTENDS Naturals, FiniteSets

CONSTANTS Runtimes,   \* runtime instances; an instance starts and dies once
          Sessions,
          Turns,      \* turn identities a client may submit
          Requests,   \* client request identities (queue claims work alike)
          NoRequest,  \* a submission without such an identity
          NoTurn,     \* the turn of a maintenance lease
          Busy,       \* busy reasons in use, a subset of {"turn","compaction"}
          Overlap,    \* whether two processes may run at the same time
          LeaseTerm,  \* how many ticks a lease lasts
          MaxNow      \* bound on the counter that stands for the clock

ASSUME RuntimesAssumption == NoRequest \notin Requests /\ NoTurn \notin Turns
ASSUME BusyAssumption == Busy \subseteq {"turn", "compaction"}
ASSUME OverlapAssumption == Overlap \in BOOLEAN
ASSUME LeaseTermAssumption == LeaseTerm \in Nat \ {0}
ASSUME MaxNowAssumption == MaxNow \in Nat

VARIABLES rt,         \* runtime instance -> life-cycle state
          startedAt,  \* runtime instance -> processStartedAtMs
          now,        \* clock; also the source of fresh lease identities
          lock,       \* sessionLocks: Session -> lock row
          row,        \* turnIngress: Turn -> ingress row
          held,       \* leases some process still has in memory
          pending,    \* pendingSettlements of each process
          gate,       \* what each process refuses for a Session
          stage,      \* how far each process's deletion run has got
          exists      \* Sessions with a session row

vars == <<rt, startedAt, now, lock, row, held, pending, gate, stage, exists>>

-----------------------------------------------------------------------------
(* Types.                                                                  *)

TurnKinds == {"turn", "compaction"}
TurnDeletingKinds == {"turn-deleting", "compaction-deleting"}
DeletionKinds == TurnDeletingKinds \cup {"maintenance-deleting", "session-deletion"}
OwnerKinds == TurnKinds \cup {"maintenance"} \cup DeletionKinds

\* DELETION_FENCE_EXPIRES_AT_MS: a lease that outlasts every tick.
Forever == LeaseTerm + 1

NoLock == [kind |-> "none", rt |-> "none", lease |-> 0, at |-> 0, ttl |-> 0]
LockRow == [kind: OwnerKinds, rt: Runtimes, lease: Nat, at: Nat, ttl: 0..Forever]

Terminal == {"completed", "failed", "aborted"}
NoRow == [status |-> "none", session |-> "none", seq |-> 0, request |-> NoRequest]
IngressRow == [status: Terminal \cup {"accepted"}, session: Sessions, seq: Nat,
               request: Requests \cup {NoRequest}]

\* A lease in a process's memory.  The controller renews a running Turn; one
\* that was aborted or is being settled is renewed no more.
Lease == [rt: Runtimes, lease: Nat, session: Sessions, turn: Turns \cup {NoTurn},
          phase: {"running", "ending"}]
NoLease == [rt |-> "none", lease |-> 0, session |-> "none", turn |-> NoTurn,
            phase |-> "ending"]
NewLease(r, s, t) ==
  [rt |-> r, lease |-> now + 1, session |-> s, turn |-> t, phase |-> "running"]
Ending(h) == [h EXCEPT !.phase = "ending"]

Stages == {"idle", "gated", "fenced", "aborted", "quiescent", "purged", "cleaned"}

TypeOK ==
  /\ rt \in [Runtimes -> {"down", "live", "compromised", "closed", "dead"}]
  /\ startedAt \in [Runtimes -> Nat]
  /\ now \in Nat
  /\ lock \in [Sessions -> LockRow \cup {NoLock}]
  /\ row \in [Turns -> IngressRow \cup {NoRow}]
  /\ held \subseteq Lease
  /\ pending \in [Runtimes -> [Sessions -> Lease \cup {NoLease}]]
  /\ gate \in [Runtimes -> [Sessions -> {"open", "mutating", "deleting"}]]
  /\ stage \in [Runtimes -> [Sessions -> Stages]]
  /\ exists \subseteq Sessions

-----------------------------------------------------------------------------
(* Runtime owner identity.                                                 *)

Running(r) == rt[r] \in {"live", "compromised", "closed"}

\* Still taking requests: compromise and close both stop new work.
Serving(r) == rt[r] \in {"live", "compromised"}

\* createOwnerId throws once the identity is closed or compromised.
CanCreateOwner(r) == rt[r] = "live" /\ now < MaxNow

\* isOwnerAlive: a missing lease file or a dead process is death, a late
\* heartbeat is not.
IsOwnerAlive(o) == rt[o] \in {"live", "compromised"}

\* ownsOwnerId, asked by process r about a lock row.
OwnsLock(r, l) == rt[r] = "live" /\ l.rt = r

-----------------------------------------------------------------------------
(* The pieces of the transactions, as functions of a lock row and the      *)
(* ingress table, so that one transaction can apply several in order.      *)

AcceptedIn(rows, s) ==
  {t \in Turns : rows[t].status = "accepted" /\ rows[t].session = s}

\* orderBy(desc(acceptedSequence)).get()
LatestAccepted(rows, s) ==
  {t \in AcceptedIn(rows, s) :
     \A u \in AcceptedIn(rows, s) : rows[u].seq <= rows[t].seq}

Settled(rows, T, outcome) ==
  [t \in Turns |-> IF t \in T THEN [rows[t] EXCEPT !.status = outcome] ELSE rows[t]]

\* Mutant: the fence gets the expiry of an ordinary lease.
FenceExpiring(l) ==
  [l EXCEPT !.kind = "session-deletion", !.at = now, !.ttl = LeaseTerm]


Fence(l) == [l EXCEPT !.kind = "session-deletion", !.at = now, !.ttl = Forever]

ReleaseOrPromoteDeletionFence(l) ==
  IF l.kind \in TurnDeletingKinds THEN Fence(l) ELSE NoLock

Expired(l) == l.kind # "none" /\ l.ttl = 0

\* recoverPendingSettlementInTransaction applies.
PendingApplies(r, s) ==
  LET p == pending[r][s] IN
  /\ p # NoLease
  /\ lock[s].kind # "none"
  /\ lock[s].lease = p.lease
  /\ p.turn \in AcceptedIn(row, s)

\* Mutant: the Turn is failed and the lock kept.
LockAfterPendingKept(r, s) == lock[s]

LockAfterPending(r, s) ==
  IF PendingApplies(r, s) THEN ReleaseOrPromoteDeletionFence(lock[s]) ELSE lock[s]

RowsAfterPending(r, s) ==
  IF PendingApplies(r, s) THEN Settled(row, {pending[r][s].turn}, "failed") ELSE row

\* Mutant: only the locks of Turns are recovered.
LockAfterExpiryTurnsOnly(l) == IF Expired(l) /\ l.kind \in TurnKinds THEN NoLock ELSE l

\* recoverExpiredInTransaction: an expired lock of any kind is released.
LockAfterExpiry(l) == IF Expired(l) THEN NoLock ELSE l

\* Mutant: the lock is released and the Turn left accepted.
RowsAfterExpiryKept(l, rows, s) == rows

RowsAfterExpiry(l, rows, s) ==
  IF Expired(l) THEN Settled(rows, LatestAccepted(rows, s), "failed") ELSE rows

\* recoverAdmissionTerminalFacts: pending settlement first, then expiry.
AdmissionLock(r, s) == LockAfterExpiry(LockAfterPending(r, s))
AdmissionRows(r, s) ==
  RowsAfterExpiry(LockAfterPending(r, s), RowsAfterPending(r, s), s)

Refuses(r, s) == s \notin exists \/ gate[r][s] # "open"

\* Mutant: the client request is not looked up.
IsDuplicateByTurn(rows, s, t, q) == rows[t].status # "none"

\* findDuplicate: by turn identity, then by client request.
IsDuplicate(rows, s, t, q) ==
  \/ rows[t].status # "none"
  \/ /\ q # NoRequest
     /\ \E u \in Turns : /\ rows[u].status # "none"
                         /\ rows[u].session = s
                         /\ rows[u].request = q

NewLock(r, kind, ttl) ==
  [kind |-> kind, rt |-> r, lease |-> now + 1, at |-> now + 1, ttl |-> ttl]

ForgetPending(r, s) == [pending EXCEPT ![r][s] = NoLease]

-----------------------------------------------------------------------------
Init ==
  /\ rt = [r \in Runtimes |-> "down"]
  /\ startedAt = [r \in Runtimes |-> 0]
  /\ now = 0
  /\ lock = [s \in Sessions |-> NoLock]
  /\ row = [t \in Turns |-> NoRow]
  /\ held = {}
  /\ pending = [r \in Runtimes |-> [s \in Sessions |-> NoLease]]
  /\ gate = [r \in Runtimes |-> [s \in Sessions |-> "open"]]
  /\ stage = [r \in Runtimes |-> [s \in Sessions |-> "idle"]]
  /\ exists = Sessions

processVars == <<held, pending, gate, stage>>
dbVars == <<lock, row, exists>>

(***************************************************************************)
(* Life of a runtime instance and of time.                                 *)
(***************************************************************************)

\* createRuntimeOwnerIdentity; processStartedAtMs is read here.
Start(r) ==
  /\ rt[r] = "down"
  /\ Overlap \/ \A x \in Runtimes : ~Running(x)
  /\ now < MaxNow
  /\ rt' = [rt EXCEPT ![r] = "live"]
  /\ now' = now + 1
  /\ startedAt' = [startedAt EXCEPT ![r] = now + 1]
  /\ UNCHANGED <<dbVars, processVars>>

\* markCompromised: authority is lost, the work goes on draining.
Compromise(r) ==
  /\ rt[r] = "live"
  /\ rt' = [rt EXCEPT ![r] = "compromised"]
  /\ UNCHANGED <<startedAt, now, dbVars, processVars>>

\* RuntimeOwnerIdentity.close: the lease file is gone although a Turn that
\* outlived the drain timeout may still be running.
Close(r) ==
  /\ rt[r] \in {"live", "compromised"}
  /\ rt' = [rt EXCEPT ![r] = "closed"]
  /\ UNCHANGED <<startedAt, now, dbVars, processVars>>

\* The process ends; everything it kept in memory goes with it.
Crash(r) ==
  /\ Running(r)
  /\ rt' = [rt EXCEPT ![r] = "dead"]
  /\ held' = {h \in held : h.rt # r}
  /\ pending' = [pending EXCEPT ![r] = [s \in Sessions |-> NoLease]]
  /\ gate' = [gate EXCEPT ![r] = [s \in Sessions |-> "open"]]
  /\ stage' = [stage EXCEPT ![r] = [s \in Sessions |-> "idle"]]
  /\ UNCHANGED <<startedAt, now, dbVars>>

\* Time passes for one lease.
Tick(s) ==
  /\ lock[s].kind # "none"
  /\ lock[s].ttl \in 1..LeaseTerm
  /\ lock' = [lock EXCEPT ![s].ttl = @ - 1]
  /\ UNCHANGED <<rt, startedAt, now, row, exists, processVars>>

(***************************************************************************)
(* Admission and the life of an accepted Turn.                             *)
(***************************************************************************)

\* admit, refused by the Session before any recovery; the pending
\* settlement is forgotten all the same.
AdmitRefused(r, s) ==
  /\ Serving(r)
  /\ Refuses(r, s)
  /\ pending' = ForgetPending(r, s)
  /\ UNCHANGED <<rt, startedAt, now, dbVars, held, gate, stage>>

\* admit, past the Session check, answered with a duplicate or a rejection:
\* the recoveries of the transaction are committed, nothing is inserted.
\* The priority fence and the admission policy may reject whatever the lock.
AdmitRejected(r, s) ==
  /\ Serving(r)
  /\ s \in exists /\ gate[r][s] # "deleting"
  /\ lock' = [lock EXCEPT ![s] = AdmissionLock(r, s)]
  /\ row' = AdmissionRows(r, s)
  /\ pending' = ForgetPending(r, s)
  /\ UNCHANGED <<rt, startedAt, now, exists, held, gate, stage>>

\* insertAdmission
AdmitAccepted(r, s, t, q, busy) ==
  /\ CanCreateOwner(r)
  /\ s \in exists /\ gate[r][s] # "deleting"
  /\ AdmissionLock(r, s) = NoLock
  /\ ~IsDuplicate(AdmissionRows(r, s), s, t, q)
  /\ now' = now + 1
  /\ lock' = [lock EXCEPT ![s] = NewLock(r, busy, LeaseTerm)]
  /\ row' = [AdmissionRows(r, s) EXCEPT ![t] =
               [status |-> "accepted", session |-> s, seq |-> now + 1, request |-> q]]
  /\ held' = held \cup {NewLease(r, s, t)}
  /\ pending' = ForgetPending(r, s)
  /\ UNCHANGED <<rt, startedAt, exists, gate, stage>>

\* renew: any lock row with this owner that has not expired, whatever its
\* kind.  The controller renews running Turns only, never one being settled.
Renew(h) ==
  /\ Running(h.rt)
  /\ h.turn # NoTurn
  /\ h.phase = "running"
  /\ lock[h.session].lease = h.lease
  /\ lock[h.session].ttl > 0
  /\ lock' = [lock EXCEPT ![h.session].ttl = LeaseTerm]
  /\ UNCHANGED <<rt, startedAt, now, row, exists, processVars>>

\* Mutant: the lease alone decides.
OwnsTurnByLease(h) == h.turn \in Turns /\ lock[h.session].lease = h.lease /\ row[h.turn].status # "none"

\* settleInTransaction's ownership test.
OwnsTurn(h) ==
  /\ lock[h.session].lease = h.lease
  /\ LatestAccepted(row, h.session) = {h.turn}

DropPending(h) ==
  IF pending[h.rt][h.session].lease = h.lease THEN ForgetPending(h.rt, h.session) ELSE pending

\* settle, committed.
Settle(h, outcome) ==
  /\ Running(h.rt)
  /\ OwnsTurn(h)
  /\ row' = Settled(row, {h.turn}, outcome)
  /\ lock' = [lock EXCEPT ![h.session] = ReleaseOrPromoteDeletionFence(@)]
  /\ held' = held \ {h}
  /\ pending' = DropPending(h)
  /\ UNCHANGED <<rt, startedAt, now, exists, gate, stage>>

\* settle answers stale-owner; the caller drops the Turn.
SettleStale(h) ==
  /\ Running(h.rt)
  /\ h.turn # NoTurn
  /\ ~OwnsTurn(h)
  /\ held' = held \ {h}
  /\ pending' = DropPending(h)
  /\ UNCHANGED <<rt, startedAt, now, dbVars, gate, stage>>

\* settle throws: the settlement is remembered.  The caller tries once more
\* and then gives the Turn up, so the lease may or may not stay in use.
SettleThrows(h) ==
  /\ Running(h.rt)
  /\ h.turn # NoTurn
  /\ pending' = [pending EXCEPT ![h.rt][h.session] = Ending(h)]
  /\ held' \in {held \ {h}, (held \ {h}) \cup {Ending(h)}}
  /\ UNCHANGED <<rt, startedAt, now, dbVars, gate, stage>>

\* revokeAdmission, called when the registration of an accepted Turn fails;
\* registration is process-local and not kept here, so any lease may be revoked.
RevokeAdmission(h) ==
  /\ Running(h.rt)
  /\ h.turn \in AcceptedIn(row, h.session)
  /\ lock[h.session].lease = h.lease
  /\ lock[h.session].kind = "turn"
  /\ row' = [row EXCEPT ![h.turn] = NoRow]
  /\ lock' = [lock EXCEPT ![h.session] = NoLock]
  /\ held' = held \ {h}
  /\ UNCHANGED <<rt, startedAt, now, exists, pending, gate, stage>>

\* recoverExpired
RecoverExpired(r, s) ==
  /\ Serving(r)
  /\ Expired(lock[s])
  /\ lock' = [lock EXCEPT ![s] = LockAfterExpiry(lock[s])]
  /\ row' = RowsAfterExpiry(lock[s], row, s)
  /\ UNCHANGED <<rt, startedAt, now, exists, processVars>>

(***************************************************************************)
(* Session maintenance.                                                    *)
(***************************************************************************)

\* tryAcquireSessionMaintenance; a pending settlement is not consulted.
AcquireMaintenance(r, s) ==
  /\ CanCreateOwner(r)
  /\ ~Refuses(r, s)
  /\ LockAfterExpiry(lock[s]) = NoLock
  /\ now' = now + 1
  /\ lock' = [lock EXCEPT ![s] = NewLock(r, "maintenance", LeaseTerm)]
  /\ row' = RowsAfterExpiry(lock[s], row, s)
  /\ held' = held \cup {NewLease(r, s, NoTurn)}
  /\ UNCHANGED <<rt, startedAt, exists, pending, gate, stage>>

\* renewSessionMaintenance
RenewMaintenance(h) ==
  /\ Running(h.rt)
  /\ h.turn = NoTurn
  /\ lock[h.session].lease = h.lease
  /\ lock[h.session].kind \in {"maintenance", "maintenance-deleting"}
  /\ lock[h.session].ttl > 0
  /\ lock' = [lock EXCEPT ![h.session].ttl = LeaseTerm]
  /\ UNCHANGED <<rt, startedAt, now, row, exists, processVars>>

\* releaseSessionMaintenance
ReleaseMaintenance(h) ==
  /\ Running(h.rt)
  /\ h.turn = NoTurn
  /\ held' = held \ {h}
  /\ LET l == lock[h.session] IN
     lock' = [lock EXCEPT ![h.session] =
                IF l.lease # h.lease THEN l
                ELSE IF l.kind = "maintenance-deleting" THEN Fence(l)
                ELSE IF l.kind = "maintenance" THEN NoLock ELSE l]
  /\ UNCHANGED <<rt, startedAt, now, row, exists, pending, gate, stage>>

(***************************************************************************)
(* Recovery of the locks of earlier processes, all Sessions in one         *)
(* transaction.                                                            *)
(***************************************************************************)

\* Mutant: age alone makes a lock an orphan.
OrphanedByAge(r, s) == lock[s].kind # "none" /\ lock[s].at < startedAt[r]

\* recoverProcessRestartInTransaction: locks older than this process whose
\* owner is gone.  Owner ids of this build always name an instance, so
\* liveness is never unknown.
Orphaned(r, s) ==
  /\ lock[s].kind # "none"
  /\ lock[s].at < startedAt[r]
  /\ ~IsOwnerAlive(lock[s].rt)

RestartLock(r, s) ==
  CASE ~Orphaned(r, s) -> lock[s]
    [] Orphaned(r, s) /\ lock[s].kind = "session-deletion" ->
         NewLock(r, "session-deletion", Forever)
    [] OTHER -> NoLock

RestartFailed(r) ==
  UNION {LatestAccepted(row, s) :
           s \in {x \in Sessions : /\ Orphaned(r, x)
                                  /\ lock[x].kind \in TurnKinds \cup TurnDeletingKinds}}

RecoverProcessRestart(r) ==
  /\ CanCreateOwner(r)
  /\ \E s \in Sessions : Orphaned(r, s)
  /\ now' = now + 1
  /\ lock' = [s \in Sessions |-> RestartLock(r, s)]
  /\ row' = Settled(row, RestartFailed(r), "failed")
  /\ UNCHANGED <<rt, startedAt, exists, processVars>>

(***************************************************************************)
(* Process-local refusals and the deletion run.                            *)
(***************************************************************************)

\* A conversation mutation blocks the Session in this process.
BeginMutation(r, s) ==
  /\ Serving(r)
  /\ gate[r][s] = "open"
  /\ gate' = [gate EXCEPT ![r][s] = "mutating"]
  /\ UNCHANGED <<rt, startedAt, now, dbVars, held, pending, stage>>

EndMutation(r, s) ==
  /\ Running(r)
  /\ gate[r][s] = "mutating"
  /\ gate' = [gate EXCEPT ![r][s] = "open"]
  /\ UNCHANGED <<rt, startedAt, now, dbVars, held, pending, stage>>

\* SessionDeletionGate.begin for a Session with a row.  A conversation
\* mutation in progress ends before the operation drain, hence before
\* anything the run does after "fenced".
DeletionStart(r, s) ==
  /\ Serving(r)
  /\ stage[r][s] = "idle"
  /\ s \in exists
  /\ gate' = [gate EXCEPT ![r][s] = "deleting"]
  /\ stage' = [stage EXCEPT ![r][s] = "gated"]
  /\ UNCHANGED <<rt, startedAt, now, dbVars, held, pending>>

\* recoverExpiredDeletionTurnInTransaction throws: an expired lock that
\* ought to have an accepted Turn has none.
ActiveTurnMissing(r, s) ==
  LET l == LockAfterPending(r, s) IN
  /\ Expired(l)
  /\ l.kind \notin {"maintenance-deleting", "session-deletion"}
  /\ AcceptedIn(RowsAfterPending(r, s), s) = {}

\* The lock that transaction leaves, and the Turn it fails.
DeletionLock(r, s) ==
  LET l == LockAfterPending(r, s) IN
  IF ~Expired(l) \/ l.kind = "session-deletion" THEN l
  ELSE IF l.kind = "maintenance-deleting" THEN Fence(l)
  ELSE ReleaseOrPromoteDeletionFence(l)

DeletionRows(r, s) ==
  LET l == LockAfterPending(r, s) IN
  IF Expired(l) /\ l.kind \in TurnKinds \cup TurnDeletingKinds
  THEN Settled(RowsAfterPending(r, s), LatestAccepted(RowsAfterPending(r, s), s), "failed")
  ELSE RowsAfterPending(r, s)

\* Mutant: maintenance has no deleting kind.
DeletingKindOfTurns(kind) ==
  CASE kind \in {"turn", "turn-deleting"} -> "turn-deleting"
    [] kind \in {"compaction", "compaction-deleting"} -> "compaction-deleting"
    [] OTHER -> "undefined"

DeletingKind(kind) ==
  CASE kind \in {"turn", "turn-deleting"} -> "turn-deleting"
    [] kind \in {"compaction", "compaction-deleting"} -> "compaction-deleting"
    [] OTHER -> "maintenance-deleting"

\* beginSessionDeletion, committed: the fence is inserted, found, reclaimed
\* from a dead owner, or announced on the lock of the work in progress.
DeletionBegin(r, s) ==
  LET l == DeletionLock(r, s)
      foreign == l.kind = "session-deletion" /\ ~OwnsLock(r, l)
      fresh == l.kind = "none" \/ foreign
  IN
  /\ Running(r)
  /\ stage[r][s] = "gated"
  /\ ~ActiveTurnMissing(r, s)
  /\ foreign => ~IsOwnerAlive(l.rt)
  /\ fresh => CanCreateOwner(r)
  /\ now' = IF fresh THEN now + 1 ELSE now
  /\ lock' = [lock EXCEPT ![s] =
                IF fresh THEN NewLock(r, "session-deletion", Forever)
                ELSE IF l.kind = "session-deletion" THEN l
                ELSE [l EXCEPT !.kind = DeletingKind(l.kind)]]
  /\ row' = DeletionRows(r, s)
  /\ pending' = ForgetPending(r, s)
  /\ stage' = [stage EXCEPT ![r][s] = "fenced"]
  /\ UNCHANGED <<rt, startedAt, exists, held, gate>>

\* The operation gate has drained, so no maintenance of this process is left;
\* controller.abort stops the renewal of the local Turn, which then settles.
DeletionAbort(r, s) ==
  /\ Running(r)
  /\ stage[r][s] = "fenced"
  /\ ~ \E h \in held : h.rt = r /\ h.session = s /\ h.turn = NoTurn
  /\ held' = {IF h.rt = r /\ h.session = s /\ h.turn # NoTurn
              THEN Ending(h) ELSE h : h \in held}
  /\ stage' = [stage EXCEPT ![r][s] = "aborted"]
  /\ UNCHANGED <<rt, startedAt, now, dbVars, pending, gate>>

\* requireQuiescentTurn: the local Turn is released, then the fence is read.
DeletionQuiescent(r, s) ==
  /\ Running(r)
  /\ stage[r][s] = "aborted"
  /\ ~ \E h \in held : h.rt = r /\ h.session = s /\ h.turn # NoTurn
  /\ lock[s].kind = "session-deletion"
  /\ stage' = [stage EXCEPT ![r][s] = "quiescent"]
  /\ UNCHANGED <<rt, startedAt, now, dbVars, held, pending, gate>>

\* deleteSessionData
DeletionPurge(r, s) ==
  /\ Running(r)
  /\ stage[r][s] = "quiescent"
  /\ \/ lock[s].kind = "session-deletion"
     \/ lock[s].kind = "none" /\ \A t \in Turns : row[t].session # s
  /\ row' = [t \in Turns |-> IF row[t].session = s THEN NoRow ELSE row[t]]
  /\ pending' = ForgetPending(r, s)
  /\ stage' = [stage EXCEPT ![r][s] = "purged"]
  /\ UNCHANGED <<rt, startedAt, now, lock, exists, held, gate>>

\* cleanup() removes the session row.
DeletionCleanup(r, s) ==
  /\ Running(r)
  /\ stage[r][s] = "purged"
  /\ exists' = exists \ {s}
  /\ stage' = [stage EXCEPT ![r][s] = "cleaned"]
  /\ UNCHANGED <<rt, startedAt, now, lock, row, held, pending, gate>>

\* completeSessionDeletion does not throw.
CanComplete(r, s) ==
  \/ lock[s].kind = "none"
  \/ /\ lock[s].kind = "session-deletion"
     /\ OwnsLock(r, lock[s])
     /\ \A t \in Turns : row[t].session # s

DeletionComplete(r, s) ==
  /\ Running(r)
  /\ stage[r][s] = "cleaned"
  /\ CanComplete(r, s)
  /\ lock' = [lock EXCEPT ![s] = NoLock]
  /\ gate' = [gate EXCEPT ![r][s] = "open"]
  /\ stage' = [stage EXCEPT ![r][s] = "idle"]
  /\ UNCHANGED <<rt, startedAt, now, row, exists, held, pending>>

\* SessionDeletionGate.begin answers not-found: a Session without a row, whose
\* fence an earlier run may have left behind, is completed at once.
DeletionNotFound(r, s) ==
  /\ Serving(r)
  /\ stage[r][s] = "idle"
  /\ s \notin exists
  /\ lock' = [lock EXCEPT ![s] = IF CanComplete(r, s) THEN NoLock ELSE @]
  /\ gate' = [gate EXCEPT ![r][s] = IF @ = "deleting" THEN "open" ELSE @]
  /\ UNCHANGED <<rt, startedAt, now, row, exists, held, pending, stage>>

\* Some step of the run throws: a transaction, the dispatch drain awaited while
\* fenced (quiesceSession rethrows the failure of a drain), the abort, or the
\* cleanup.  Nothing is undone: the process keeps refusing the Session, what is
\* on the lock stays there, and the caller may delete the Session again.
DeletionThrows(r, s) ==
  /\ Running(r)
  /\ stage[r][s] # "idle"
  /\ stage' = [stage EXCEPT ![r][s] = "idle"]
  /\ UNCHANGED <<rt, startedAt, now, dbVars, held, pending, gate>>

-----------------------------------------------------------------------------
RuntimeStep(r) == Start(r) \/ Compromise(r) \/ Close(r) \/ Crash(r)

SessionStep(r, s) ==
  \/ AdmitRefused(r, s) \/ AdmitRejected(r, s)
  \/ \E t \in Turns, q \in Requests \cup {NoRequest}, busy \in Busy :
        AdmitAccepted(r, s, t, q, busy)
  \/ RecoverExpired(r, s) \/ AcquireMaintenance(r, s)
  \/ BeginMutation(r, s) \/ EndMutation(r, s)

DeletionStep(r, s) ==
  \/ DeletionStart(r, s) \/ DeletionBegin(r, s) \/ DeletionAbort(r, s)
  \/ DeletionQuiescent(r, s)
  \/ DeletionPurge(r, s) \/ DeletionCleanup(r, s) \/ DeletionComplete(r, s)
  \/ DeletionNotFound(r, s) \/ DeletionThrows(r, s)

LeaseStep(h) ==
  \/ Renew(h) \/ (\E o \in Terminal : Settle(h, o)) \/ SettleStale(h)
  \/ SettleThrows(h) \/ RevokeAdmission(h)
  \/ RenewMaintenance(h) \/ ReleaseMaintenance(h)

Next ==
  \/ \E r \in Runtimes : RuntimeStep(r) \/ RecoverProcessRestart(r)
  \/ \E r \in Runtimes, s \in Sessions : SessionStep(r, s) \/ DeletionStep(r, s)
  \/ \E h \in held : LeaseStep(h)
  \/ \E s \in Sessions : Tick(s)

Spec == Init /\ [][Next]_vars

-----------------------------------------------------------------------------
(* Correctness.                                                            *)

\* Every accepted Turn is the Turn its Session's lock was taken for: the
\* lock is of a Turn kind and carries the number issued with the Turn's
\* acceptedSequence.  With unique sequences this makes the accepted Turn of
\* a Session unique, through every admission, expiry, restart recovery,
\* revocation and deletion by any process.
AcceptedTurnOwnsLock ==
  \A s \in Sessions : \A t \in AcceptedIn(row, s) :
    /\ lock[s].kind \in TurnKinds \cup TurnDeletingKinds
    /\ lock[s].lease = row[t].seq

\* requireAcceptedTurnId never throws for a Turn-kind lock: such a lock
\* always has its accepted Turn, so a deletion that finds work in progress
\* can name it.
ActiveLockHasTurn ==
  \A s \in Sessions :
    lock[s].kind \in TurnKinds \cup TurnDeletingKinds => AcceptedIn(row, s) # {}

\* A client request becomes at most one Turn of its Session, however often
\* and in whichever processes it is submitted (findDuplicate).
RequestAdmittedOnce ==
  \A t, u \in Turns :
    /\ row[t].status # "none" /\ row[u].status # "none"
    /\ row[t].session = row[u].session
    /\ row[t].request = row[u].request
    /\ row[t].request # NoRequest
    => t = u

\* A Turn that reached a terminal status keeps it until its Session's data
\* are deleted: a late settlement, a pending settlement found again, and
\* the recoveries never write a second outcome.
TerminalIsFinal ==
  [][\A t \in Turns :
       row[t].status \in Terminal =>
         row'[t].status \in {row[t].status, "none"}]_vars

\* Nobody takes a lease from a process that is alive and renews in time: a
\* lock leaves its owner only if it had expired, its owner was gone, or the
\* owner itself let it go: it ended that lease, or completed a deletion that
\* leaves no Turn data behind.
LiveLeaseIsNotTaken ==
  [][\A s \in Sessions :
       LET l == lock[s] IN
       l.kind # "none" /\ lock'[s].lease # l.lease =>
         \/ Expired(l)
         \/ ~IsOwnerAlive(l.rt)
         \/ \E h \in held : h.lease = l.lease /\ h.session = s /\ h \notin held'
         \/ pending[l.rt][s].lease = l.lease /\ pending'[l.rt][s] = NoLease
         \/ l.kind = "session-deletion" /\ \A t \in Turns : row[t].session # s]_vars

\* Time passes for every lease, and clients keep submitting to a Session,
\* in every process that still serves it.
FairSpec ==
  /\ Spec
  /\ \A s \in Sessions : WF_vars(Tick(s))
  /\ \A r \in Runtimes, s \in Sessions : WF_vars(AdmitRejected(r, s))

\* A Session does not stay locked by a process that is gone: as long as some
\* process keeps serving the Session, the lock of the dead owner is released
\* (only a deletion fence outlasts its owner, for the deletion to resume).
AbandonedLockIsReleased ==
  \A s \in Sessions :
    (lock[s].kind \notin {"none", "session-deletion"} /\ ~IsOwnerAlive(lock[s].rt))
      ~> \/ lock[s].kind \in {"none", "session-deletion"}
         \/ IsOwnerAlive(lock[s].rt)
         \/ \A r \in Runtimes : ~Serving(r) \/ gate[r][s] = "deleting"
         \/ s \notin exists

\* The constant DELETION_FENCE_EXPIRES_AT_MS says that a deletion fence does
\* not expire.
DeletionFenceNeverExpires ==
  \A s \in Sessions : lock[s].kind = "session-deletion" => lock[s].ttl = Forever

\* A fence with the expiry it was made with, or, if not, with a lease's.
Fenced(s) == lock[s].kind = "session-deletion" /\ lock[s].ttl = Forever
FenceLapses(s) == lock[s].kind = "session-deletion" /\ lock[s].ttl # Forever

\* A Turn still runs, and is renewed, under the owner id of the lock of s.
RunsUnderLock(s) ==
  \E h \in held : /\ h.session = s /\ h.turn # NoTurn /\ h.phase = "running"
                  /\ h.lease = lock[s].lease

\* A deletion fence is released only after the session row is gone, wherever
\* the run throws or its process dies, as long as the fence keeps the expiry it
\* was made with; and it loses that expiry in one way only, to a Turn that is
\* still renewed under the owner id the fence took over (beginSessionDeletion
\* promotes the expired lock of a running Turn; see DeletionFenceNeverExpires).
FenceHoldsUntilCleanup ==
  [][\A s \in Sessions :
       /\ Fenced(s) /\ s \in exists => lock'[s].kind = "session-deletion"
       /\ FenceLapses(s)' => FenceLapses(s) \/ (Fenced(s) /\ RunsUnderLock(s))]_vars

=============================================================================

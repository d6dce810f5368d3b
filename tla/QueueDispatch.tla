---------------------------- MODULE QueueDispatch ----------------------------
(***************************************************************************)
(* The queue of one Session and the dispatchers that empty it: the rows    *)
(* and claims of queue/repo/drizzle.ts, the priority fence an admission    *)
(* passes, queue.dispatcher.ts, the delivery of a claimed item             *)
(* (user-message-turn-delivery.ts) and the start and settlement of its     *)
(* Turn.  Several runtimes share the database; one may crash and restart   *)
(* between any two steps.                                                  *)
(*                                                                         *)
(* A delivery claims the row, records the attempt, admits a Turn, commits  *)
(* the user's message, acknowledges the claim, which deletes the row, and  *)
(* only then lets the host start.  Each of these is a transaction of its   *)
(* own.  The lock of a dead runtime is recovered at any time; the lock of  *)
(* a live one is taken by an admission once its lease has lapsed, while    *)
(* the Turn that lost it goes on until a renewal tells it so.              *)
(***************************************************************************)
EXTENDS Naturals, Sequences, FiniteSets, SequencesExt

CONSTANTS Runtimes,
          Items,       \* queued messages, each shown in the conversation once delivered
          Direct,      \* stands for the Turns that do not come from the queue
          Foreground,  \* items of a user: their failed Turns pause the queue
          Nobody,
          MaxClaims,   \* bound on claims
          MaxFaults,   \* bound on crashes, failed writes and expired leases
          Requests     \* bound on the kinds of requests callers make

ASSUME QueueAssumption ==
  /\ Direct \notin Items /\ Nobody \notin Runtimes
  /\ Foreground \subseteq Items \cup {Direct}
  /\ MaxClaims \in Nat /\ MaxFaults \in Nat
  /\ Requests \subseteq {"dispatch", "direct", "cancel", "reorder", "abort", "stop", "continue", "defer"}

VARIABLES
  \* the database
  rows,      \* queue_items by id
  claims,    \* number of claims made; a claim id is its number
  paused,    \* the queue_pauses row
  ingress,   \* the Turns admitted, each with its claim
  lock,      \* the session lock: a Turn and its runtime
  messages,  \* items whose user message is in the conversation
  lapsed,    \* leases that ran out unrenewed, each a Turn and its runtime
  \* each runtime
  up, startedAt,                 \* startedAt: processStartedAtMs, on the clock of claims
  requested, yielded, recover,   \* the drain's wake, yielded set, recoverBeforeNextClaim
  lanes,     \* the drain and continuePaused, each with the claim it handles
  entry,     \* the controller's entry
  failing,   \* a Turn the controller refused, to be settled by failAdmission
  pending, cancelling,   \* completions in phase pending, and those with a cancellationReason
  faults,
  \* history
  submitted, dropped, starts,
  overtaken, \* items acknowledged past an earlier one that had not yielded
  told,      \* items whose caller was answered 'aborted' before registration
  defied,    \* items started by a runtime that had answered 'aborted'
  parked     \* work was last left in the queue by a path that promises no wake

process == <<up, startedAt>>
dispatcher == <<requested, yielded, recover, lanes>>
turns == <<entry, failing>>
registry == <<pending, cancelling>>
vars == <<rows, claims, paused, ingress, lock, messages, lapsed, process, dispatcher, turns, registry,
          faults, submitted, dropped, starts, overtaken, told, defied, parked>>

NoTurn == <<Direct, 0>>
Claims == 1..MaxClaims
TurnIds == Items \X (0..MaxClaims) \cup {NoTurn}

Row == [item: Items, claim: 0..MaxClaims,   \* 0: status queued
        by: Runtimes \cup {Nobody},         \* claimOwnerId
        tried: 0..MaxClaims]                \* claim of the last delivery attempt

\* A claim in the hands of the dispatcher (dispatchClaim, executeClaim).
LaneStates == {"idle", "top", "claimed", "ready", "prepared", "stopped", "rejected", "conflict",
               "duplicate", "accepted", "committed", "thrown"}
Lane == [at: LaneStates, claim: 0..MaxClaims, turn: TurnIds, stopped: BOOLEAN]
LaneNames == {"drain", "continue"}

Entry == [turn: TurnIds, aborted: BOOLEAN,
          at: {"none", "held", "failed", "released", "running", "ended", "settled"},
          outcome: {"none", "completed", "failed", "aborted", "unstarted", "stale"}]

\* Every variable has its type and a Session has at most one claimed row.
TypeOK ==
  /\ \A k \in DOMAIN rows : rows[k] \in Row
  /\ claims \in 0..MaxClaims /\ paused \in BOOLEAN
  /\ ingress \subseteq TurnIds \X Claims
  /\ lock \in TurnIds \X (Runtimes \cup {Nobody})
  /\ messages \subseteq Items /\ lapsed \subseteq TurnIds \X Runtimes
  /\ up \in [Runtimes -> BOOLEAN] /\ startedAt \in [Runtimes -> 0..MaxClaims]
  /\ requested \in [Runtimes -> BOOLEAN] /\ recover \in [Runtimes -> BOOLEAN]
  /\ yielded \in [Runtimes -> SUBSET Items]
  /\ \A p \in Runtimes, l \in LaneNames : lanes[p][l] \in Lane
  /\ entry \in [Runtimes -> Entry] /\ failing \in [Runtimes -> TurnIds]
  /\ pending \in [Runtimes -> SUBSET Items]
  /\ \A p \in Runtimes : cancelling[p] \subseteq pending[p]
  /\ faults \in 0..MaxFaults
  /\ dropped \subseteq submitted /\ submitted \subseteq Items
  /\ Cardinality({k \in DOMAIN rows : rows[k].claim # 0}) <= 1

Idle == [at |-> "idle", claim |-> 0, turn |-> NoTurn, stopped |-> FALSE]
NoEntry == [turn |-> NoTurn, aborted |-> FALSE, at |-> "none", outcome |-> "none"]
NoLock == <<NoTurn, Nobody>>

Init ==
  /\ rows = <<>> /\ claims = 0 /\ paused = FALSE /\ ingress = {} /\ lock = NoLock /\ messages = {}
  /\ lapsed = {}
  /\ up = [p \in Runtimes |-> TRUE] /\ startedAt = [p \in Runtimes |-> 0]
  /\ requested = [p \in Runtimes |-> FALSE] /\ recover = [p \in Runtimes |-> FALSE]
  /\ yielded = [p \in Runtimes |-> {}]
  /\ lanes = [p \in Runtimes |-> [l \in LaneNames |-> Idle]]
  /\ entry = [p \in Runtimes |-> NoEntry] /\ failing = [p \in Runtimes |-> NoTurn]
  /\ pending = [p \in Runtimes |-> {}] /\ cancelling = [p \in Runtimes |-> {}]
  /\ faults = 0
  /\ submitted = {} /\ dropped = {} /\ starts = [i \in Items |-> 0]
  /\ overtaken = {} /\ told = [p \in Runtimes |-> {}] /\ defied = {} /\ parked = FALSE

Fails == faults < MaxFaults /\ faults' = faults + 1

-----------------------------------------------------------------------------
(* The rows.                                                               *)

Queued(s) == {s[k].item : k \in DOMAIN s}
\* Mutant: hasClaimed is not asked.
ClaimedIgnored == {}

Claimed == {k \in DOMAIN rows : rows[k].claim # 0}
Holds(c) == \E k \in DOMAIN rows : rows[k].claim = c

\* withoutClaim and deleteItem: the row keeps its id, hence its position.
Released(c) ==
  [k \in DOMAIN rows |-> IF rows[k].claim = c THEN [rows[k] EXCEPT !.claim = 0, !.by = Nobody]
                         ELSE rows[k]]
\* Mutant: the acknowledged row is put back
RemovedNot(c) == Released(c)

Removed(c) == RemoveAt(rows, CHOOSE k \in DOMAIN rows : rows[k].claim = c)

\* Every transaction ends by dropping the pause of an empty queue.
ReconcilePause == paused' = (paused /\ rows' # <<>>)

\* A runtime that crashed and came back owns none of its earlier claims.
OwnerAlive(r) == up[r.by] /\ r.claim > startedAt[r.by]

ActiveClaim(r, scope, expired) == r.claim > scope /\ ~expired /\ OwnerAlive(r)

\* recoverClaims settles the claims that are not active.  A claim whose
\* delivery is recorded is redelivered even when its Turn was admitted.
Accepted(c) == \E g \in ingress : g[2] = c
\* Mutant: a recorded attempt is not looked at
PendingDeliveryIgnored(r) == FALSE

PendingDelivery(r) == r.tried = r.claim
Recovered(scope, expired) ==
  LET inactive(r) == r.claim # 0 /\ ~ActiveClaim(r, scope, expired)
      kept == {k \in DOMAIN rows : inactive(rows[k]) /\ Accepted(rows[k].claim)
                                     => PendingDelivery(rows[k])}
      nth(n) == CHOOSE k \in kept : Cardinality({j \in kept : j <= k}) = n
      settled(r) == IF inactive(r) THEN [r EXCEPT !.claim = 0, !.by = Nobody] ELSE r
  IN  [n \in 1..Cardinality(kept) |-> settled(rows[nth(n)])]

\* A registry drops a completion when its runtime commits the removal.
Forget(p, i) ==
  /\ pending' = [pending EXCEPT ![p] = @ \ {i}]
  /\ cancelling' = [cancelling EXCEPT ![p] = @ \ {i}]

\* Mutant: a wake of a running drain is dropped
WakeIdle(p) ==
  requested' = [requested EXCEPT ![p] = @ \/ lanes[p]["drain"].at = "idle"] /\ parked' = FALSE

Wake(p) == requested' = [requested EXCEPT ![p] = TRUE] /\ parked' = FALSE

-----------------------------------------------------------------------------
(* Callers.                                                                *)

Submit(p, i) ==
  /\ up[p] /\ i \notin submitted
  /\ submitted' = submitted \cup {i}
  /\ rows' = Append(rows, [item |-> i, claim |-> 0, by |-> Nobody, tried |-> 0])
  /\ pending' = [pending EXCEPT ![p] = @ \cup {i}]
  /\ Wake(p)
  /\ UNCHANGED <<claims, paused, ingress, lock, messages, lapsed, process, yielded, recover, lanes, turns,
                 cancelling, faults, dropped, starts, overtaken, told, defied>>

\* drainQueued and the other callers of dispatch
DispatchQueue(p) ==
  /\ "dispatch" \in Requests
  /\ up[p] /\ ~requested[p] /\ rows # <<>>
  /\ Wake(p)
  /\ UNCHANGED <<rows, claims, paused, ingress, lock, messages, lapsed, process, yielded, recover, lanes,
                 turns, registry, faults, submitted, dropped, starts, overtaken, told, defied>>

\* recoverAdmissionTerminalFacts: an admission releases an expired lock first,
\* whoever owns it.
AdmissionLock == IF lock \in lapsed THEN NoLock ELSE lock

\* A Turn that does not come from the queue.  The fence holds it back for a
\* pause and for older rows unless it continues, retries or answers a Turn, so
\* it may be let in whatever is queued.
DirectTurn(p) ==
  /\ "direct" \in Requests
  /\ up[p] /\ AdmissionLock = NoLock /\ entry[p] = NoEntry
  /\ lock' = <<NoTurn, p>> /\ lapsed' = lapsed \ {<<NoTurn, p>>}
  /\ entry' = [entry EXCEPT ![p] = [NoEntry EXCEPT !.at = "running"]]
  /\ UNCHANGED <<rows, claims, paused, ingress, messages, process, dispatcher, failing, registry,
                 faults, submitted, dropped, starts, overtaken, told, defied, parked>>

\* cancel, and the expiry of a queued row
CancelQueued(p, i) ==
  /\ "cancel" \in Requests
  /\ up[p] /\ \E k \in DOMAIN rows : /\ rows[k].item = i /\ rows[k].claim = 0
                                     /\ rows' = RemoveAt(rows, k)
  /\ ReconcilePause
  /\ dropped' = dropped \cup {i}
  /\ Forget(p, i)
  /\ UNCHANGED <<claims, ingress, lock, messages, lapsed, process, dispatcher, turns, faults, submitted,
                 starts, overtaken, told, defied, parked>>

Reorder(p) ==
  /\ "reorder" \in Requests
  /\ up[p] /\ Claimed = {} /\ Len(rows) > 1
  /\ \E order \in Bijection(DOMAIN rows, DOMAIN rows) :
       rows' = [k \in DOMAIN rows |-> rows[order[k]]]
  /\ rows' # rows
  /\ UNCHANGED <<claims, paused, ingress, lock, messages, lapsed, process, dispatcher, turns, registry,
                 faults, submitted, dropped, starts, overtaken, told, defied, parked>>

\* PendingSubmissions.stop: a submission is enrolled while it is prepared.
StopLanes(p, which) ==
  lanes' = [lanes EXCEPT ![p] = [l \in LaneNames |->
              IF @[l].at = "prepared" /\ @[l].turn[1] \in which
              THEN [@[l] EXCEPT !.stopped = TRUE] ELSE @[l]]]

\* abort with the Turn id of a queued item that has no controller entry yet
RequestCancellation(p, i) ==
  /\ "abort" \in Requests
  /\ up[p] /\ i \in pending[p] \ cancelling[p]
  /\ cancelling' = [cancelling EXCEPT ![p] = @ \cup {i}]
  /\ told' = [told EXCEPT ![p] = @ \cup {i}]
  /\ IF entry[p].at = "none" THEN StopLanes(p, {i}) ELSE lanes' = lanes
  /\ Wake(p)
  /\ UNCHANGED <<rows, claims, paused, ingress, lock, messages, lapsed, process, yielded, recover, turns,
                 pending, faults, submitted, dropped, starts, overtaken, defied>>

\* abort without a Turn id
Stop(p) ==
  /\ "stop" \in Requests /\ up[p]
  /\ StopLanes(p, Items)
  /\ entry' = IF entry[p].at \in {"held", "failed", "released", "running"}
              THEN [entry EXCEPT ![p].aborted = TRUE] ELSE entry
  /\ <<lanes', entry'>> # <<lanes, entry>>
  /\ UNCHANGED <<rows, claims, paused, ingress, lock, messages, lapsed, process, requested, yielded,
                 recover, failing, registry, faults, submitted, dropped, starts, overtaken, told,
                 defied, parked>>

-----------------------------------------------------------------------------
(* The dispatcher.  A drain passes its top when it claims; "top" asks for  *)
(* another pass, as does a wake that came meanwhile.                       *)

AtTop(p) == up[p] /\ \/ lanes[p]["drain"].at = "top"
                     \/ (lanes[p]["drain"].at = "idle" /\ requested[p])

\* The end of a lane's claim; drainAgain concerns the drain only.
Finish(p, l, again) ==
  lanes' = [lanes EXCEPT ![p][l] = [Idle EXCEPT !.at = IF again /\ l = "drain" THEN "top" ELSE "idle"]]

Goto(p, l, at) == lanes' = [lanes EXCEPT ![p][l].at = at]

\* queueDeliveryIdentity: an item that was tried gets a fresh Turn id.
DeliveryTurn(r, c) == IF r.tried = 0 THEN <<r.item, 0>> ELSE <<r.item, c>>

Claim(p, l, k) ==
  /\ claims < MaxClaims
  /\ claims' = claims + 1
  /\ rows' = [rows EXCEPT ![k].claim = claims + 1, ![k].by = p]
  /\ lanes' = [lanes EXCEPT ![p][l] = [at |-> "claimed", claim |-> claims + 1, stopped |-> FALSE,
                                       turn |-> DeliveryTurn(rows[k], claims + 1)]]

\* claimCandidate: the first queued row that is not excluded
Candidates(excluded) ==
  {k \in DOMAIN rows : /\ rows[k].claim = 0 /\ rows[k].item \notin excluded
                       /\ \A j \in 1..(k - 1) : rows[j].claim # 0 \/ rows[j].item \in excluded}

ClaimNext(p) ==
  /\ AtTop(p) /\ ~recover[p]
  /\ LET skip == IF requested[p] THEN {} ELSE yielded[p]
         free == IF paused \/ Claimed # {} THEN {} ELSE Candidates(skip)
     IN  /\ yielded' = [yielded EXCEPT ![p] = skip]
         /\ requested' = [requested EXCEPT ![p] = FALSE]
         /\ \/ free = {} /\ Finish(p, "drain", FALSE) /\ UNCHANGED <<rows, claims>>
            \/ \E k \in free : Claim(p, "drain", k)
  /\ UNCHANGED <<paused, ingress, lock, messages, lapsed, process, recover, turns, registry, faults,
                 submitted, dropped, starts, overtaken, told, defied, parked>>

ContinuePaused(p) ==
  /\ "continue" \in Requests
  /\ up[p] /\ lanes[p]["continue"].at = "idle"
  /\ Claimed = {} /\ \E k \in Candidates({}) : Claim(p, "continue", k)
  /\ UNCHANGED <<paused, ingress, lock, messages, lapsed, process, requested, yielded, recover, turns,
                 registry, faults, submitted, dropped, starts, overtaken, told, defied, parked>>

\* A claim lease runs for a fixed time that a slow delivery may exceed.
LeaseExpired(expired) == IF expired THEN Fails ELSE UNCHANGED faults

\* recoverBeforeNextClaim
RecoverBefore(p) ==
  /\ AtTop(p) /\ recover[p]
  /\ \E expired \in BOOLEAN : LeaseExpired(expired) /\ rows' = Recovered(0, expired)
  /\ ReconcilePause
  /\ recover' = [recover EXCEPT ![p] = FALSE]
  /\ UNCHANGED <<claims, ingress, lock, messages, lapsed, process, requested, yielded, lanes, turns,
                 registry, submitted, dropped, starts, overtaken, told, defied, parked>>

\* recoverPending, at startup and from the recovery timer: the claims made
\* before this runtime started are settled too, whoever owns them.
RecoverPending(p) ==
  /\ up[p]
  /\ \E expired \in BOOLEAN : LeaseExpired(expired) /\ rows' = Recovered(startedAt[p], expired)
  /\ rows' # rows
  /\ ReconcilePause
  /\ parked' = TRUE
  /\ UNCHANGED <<claims, ingress, lock, messages, lapsed, process, dispatcher, turns, registry,
                 submitted, dropped, starts, overtaken, told, defied>>

\* cancelClaim and rejectClaim throw when the claim is gone.
RemoveClaim(p, l, again) ==
  LET c == lanes[p][l].claim
      i == lanes[p][l].turn[1]
  IN  IF Holds(c)
      THEN /\ rows' = Removed(c) /\ dropped' = dropped \cup {i}
           /\ Forget(p, i) /\ Finish(p, l, again)
      ELSE Finish(p, l, FALSE) /\ UNCHANGED <<rows, dropped, registry>>

ReleaseClaim(p, l, again) ==
  /\ rows' = Released(lanes[p][l].claim)
  /\ Finish(p, l, again)
  /\ UNCHANGED <<dropped, registry>>

CancelRequested(p, l) == lanes[p][l].turn[1] \in cancelling[p]

\* Mutant: whatever is deferred yields
YieldsAlways(i) == TRUE

\* shouldYieldFifoPosition: an autonomous item yields to a user's message; an
\* unreadable policy does not yield.
YieldsFifoPosition(i) == i \notin Foreground /\ Queued(rows) \cap Foreground # {}

\* The release of a deferred claim, at classification and at admission
Defer(p, l) ==
  /\ "defer" \in Requests
  /\ \E yields \in BOOLEAN :
       /\ yields => l = "drain" /\ YieldsFifoPosition(lanes[p][l].turn[1])
       /\ ReleaseClaim(p, l, yields)
       /\ yielded' = IF yields THEN [yielded EXCEPT ![p] = @ \cup {lanes[p][l].turn[1]}] ELSE yielded

Classify(p, l) ==
  /\ up[p] /\ lanes[p][l].at = "claimed"
  /\ \/ /\ CancelRequested(p, l) /\ RemoveClaim(p, l, TRUE)
        /\ parked' = (parked \/ l = "continue") /\ UNCHANGED <<yielded, faults>>
     \/ /\ ~CancelRequested(p, l)   \* 'ready'
        /\ Goto(p, l, "ready") /\ UNCHANGED <<rows, dropped, registry, yielded, parked, faults>>
     \/ /\ Fails                    \* the classifier throws
        /\ Goto(p, l, "thrown") /\ parked' = TRUE
        /\ UNCHANGED <<rows, dropped, registry, yielded>>
     \/ ~CancelRequested(p, l) /\ Defer(p, l) /\ parked' = TRUE /\ UNCHANGED faults
     \/ /\ "cancel" \in Requests /\ ~CancelRequested(p, l)   \* 'cancel'
        /\ IF l = "drain" THEN RemoveClaim(p, l, TRUE) /\ UNCHANGED parked
           ELSE ReleaseClaim(p, l, FALSE) /\ parked' = TRUE
        /\ UNCHANGED <<yielded, faults>>
  /\ ReconcilePause
  /\ UNCHANGED <<claims, ingress, lock, messages, lapsed, process, requested, recover, turns,
                 submitted, starts, overtaken, told, defied>>

\* prepareDelivery records the attempt before anything is submitted.
PrepareDelivery(p, l) ==
  /\ up[p] /\ lanes[p][l].at = "ready"
  /\ LET c == lanes[p][l].claim
     IN  IF Holds(c)
         THEN /\ rows' = [k \in DOMAIN rows |->
                            IF rows[k].claim = c THEN [rows[k] EXCEPT !.tried = c] ELSE rows[k]]
              /\ Goto(p, l, "prepared") /\ UNCHANGED parked
         ELSE Goto(p, l, "thrown") /\ parked' = TRUE /\ UNCHANGED rows
  /\ UNCHANGED <<claims, paused, ingress, lock, messages, lapsed, process, requested, yielded, recover,
                 turns, registry, faults, submitted, dropped, starts, overtaken, told, defied>>

\* The submission's preparation defers: settleAdmissionDeferral.
DeferAdmission(p, l) ==
  /\ up[p] /\ lanes[p][l].at = "prepared" /\ ~lanes[p][l].stopped /\ ~CancelRequested(p, l)
  /\ Defer(p, l) /\ parked' = TRUE
  /\ ReconcilePause
  /\ UNCHANGED <<claims, ingress, lock, messages, lapsed, process, requested, recover, turns, faults,
                 submitted, starts, overtaken, told, defied>>

\* claimedQueueItemBlocks: the claim is gone, or a row before it has not yielded.
BlockedBy(p, l, c) ==
  {k \in DOMAIN rows : /\ \E j \in DOMAIN rows : rows[j].claim = c /\ k < j
                       /\ ~(l = "drain" /\ rows[k].item \in yielded[p])}
PriorityBlocked(p, l) ==
  LET c == lanes[p][l].claim
  IN  (paused /\ l = "drain") \/ ~Holds(c) \/ BlockedBy(p, l, c) # {}

\* submitTurn up to the repository's answer
AdmitResult(p, l) ==
  LET t == lanes[p][l].turn
      c == lanes[p][l].claim
  IN  IF lanes[p][l].stopped THEN "stopped"
      ELSE IF <<t, c>> \in ingress THEN "duplicate"
      ELSE IF \E g \in ingress : g[1] = t \/ g[2] = c THEN "conflict"
      ELSE IF AdmissionLock # NoLock \/ PriorityBlocked(p, l) THEN "rejected"
      ELSE "accepted"

\* Mutant: the reason is dropped
CancellationDropped(p, i) == FALSE

\* beginExecution hands over a cancellation requested before registration.
CancellationAtRegister(p, i) == i \in cancelling[p]

\* An admitted Turn registers with the controller, which takes over a
\* cancellation requested so far.  It goes to failAdmission instead when its
\* preparation cannot be committed, or the controller has an entry left.  (A
\* Turn that went there before it, if unsettled, has lost its lease.)
Admit(p, l) ==
  LET t == lanes[p][l].turn
      result == AdmitResult(p, l)
  IN  /\ up[p] /\ lanes[p][l].at = "prepared"
      /\ Goto(p, l, result)
      /\ IF result # "accepted"
         THEN /\ lock' = IF result = "stopped" THEN lock ELSE AdmissionLock
              /\ UNCHANGED <<ingress, paused, turns, registry, faults>>
         ELSE /\ lock' = <<t, p>>
              /\ ingress' = ingress \cup {<<t, lanes[p][l].claim>>}
              /\ paused' = (paused /\ l = "drain")
              /\ Forget(p, t[1])
              /\ \/ /\ entry[p].at = "none"
                    /\ entry' = [entry EXCEPT ![p] = [turn |-> t, aborted |-> CancellationAtRegister(p, t[1]),
                                                      at |-> "held", outcome |-> "none"]]
                    /\ UNCHANGED <<failing, faults>>
                 \/ /\ IF entry[p].at = "none" THEN Fails ELSE UNCHANGED faults
                    /\ failing' = [failing EXCEPT ![p] = t] /\ UNCHANGED entry
      /\ UNCHANGED <<rows, claims, messages, lapsed, process, requested, yielded, recover,
                     submitted, dropped, starts, overtaken, told, defied, parked>>

\* settleExecutedClaim for what was not accepted
SettleRejected(p, l) ==
  /\ up[p] /\ lanes[p][l].at \in {"stopped", "rejected", "conflict"}
  /\ IF CancelRequested(p, l) THEN RemoveClaim(p, l, TRUE)
     ELSE IF l = "continue" \/ lanes[p][l].at = "rejected" THEN ReleaseClaim(p, l, FALSE)
     ELSE RemoveClaim(p, l, lanes[p][l].at = "conflict")
  /\ parked' = (parked \/ l = "continue" \/ lanes[p][l].at = "stopped")
  /\ ReconcilePause
  /\ UNCHANGED <<claims, ingress, lock, messages, lapsed, process, requested, yielded, recover, turns,
                 faults, submitted, starts, overtaken, told, defied>>

\* Mutant: a failed delivery lets the host start
FailStartOpen(p, t) ==
  entry' = IF entry[p].at = "held" /\ entry[p].turn = t
           THEN [entry EXCEPT ![p].at = "released"] ELSE entry

\* start.fail: the Turn that waits for this delivery never enters the host.
FailStart(p, t) ==
  entry' = IF entry[p].at = "held" /\ entry[p].turn = t
           THEN [entry EXCEPT ![p].at = "failed"] ELSE entry

CommitMessages(p, l) ==
  /\ up[p] /\ lanes[p][l].at = "accepted"
  /\ \/ /\ messages' = messages \cup {lanes[p][l].turn[1]}
        /\ Goto(p, l, "committed") /\ UNCHANGED <<entry, faults>>
     \/ /\ Fails /\ FailStart(p, lanes[p][l].turn)
        /\ Goto(p, l, "thrown") /\ UNCHANGED messages
  /\ UNCHANGED <<rows, claims, paused, ingress, lock, lapsed, process, requested, yielded, recover, failing,
                 registry, submitted, dropped, starts, overtaken, told, defied, parked>>

ReleaseStart(p, t) ==
  entry' = IF entry[p].at = "held" /\ entry[p].turn = t
           THEN [entry EXCEPT ![p].at = "released"] ELSE entry

\* A row before the claimed one is a user's, or has not yielded to this drain.
Overtakes(p, c) ==
  \E j \in DOMAIN rows : rows[j].claim = c
    /\ \E k \in 1..(j - 1) : rows[k].item \in Foreground \/ rows[k].item \notin yielded[p]

\* acknowledgeAccepted, which tries twice; a duplicate is acknowledged too.
Acknowledge(p, l) ==
  LET t == lanes[p][l].turn
      c == lanes[p][l].claim
  IN  /\ up[p] /\ lanes[p][l].at \in {"committed", "duplicate"}
      /\ \/ /\ Holds(c) /\ Accepted(c)
            /\ rows' = Removed(c)
            /\ overtaken' = IF Overtakes(p, c) THEN overtaken \cup {t[1]} ELSE overtaken
            /\ ReleaseStart(p, t)
            /\ Finish(p, l, lanes[p][l].at = "duplicate")
            /\ parked' = (parked \/ (l = "continue" /\ entry[p].turn # t))
            /\ UNCHANGED <<recover, faults>>
         \/ /\ IF Holds(c) THEN Fails ELSE UNCHANGED faults
            /\ recover' = [recover EXCEPT ![p] = @ \/ l = "drain"]
            /\ FailStart(p, t)
            /\ Goto(p, l, "thrown")
            /\ UNCHANGED <<rows, overtaken, parked>>
      /\ ReconcilePause
      /\ UNCHANGED <<claims, ingress, lock, messages, lapsed, process, requested, yielded, failing, registry,
                     submitted, dropped, starts, told, defied>>

SettleThrown(p, l) ==
  /\ up[p] /\ lanes[p][l].at = "thrown"
  /\ IF CancelRequested(p, l) THEN RemoveClaim(p, l, TRUE) ELSE ReleaseClaim(p, l, FALSE)
  /\ parked' = (parked \/ l = "continue")
  /\ ReconcilePause
  /\ UNCHANGED <<claims, ingress, lock, messages, lapsed, process, requested, yielded, recover, turns,
                 faults, submitted, starts, overtaken, told, defied>>

-----------------------------------------------------------------------------
(* The Turn, from the start fence to its settlement.                       *)

EnterHost(p) ==
  LET t == entry[p].turn
  IN  /\ up[p] /\ entry[p].at = "released"
      /\ IF entry[p].aborted
         THEN /\ entry' = [entry EXCEPT ![p].at = "ended", ![p].outcome = "aborted"]
              /\ UNCHANGED <<starts, defied>>
         ELSE /\ entry' = [entry EXCEPT ![p].at = "running"]
              /\ starts' = [starts EXCEPT ![t[1]] = @ + 1]
              /\ defied' = defied \cup ({t[1]} \cap told[p])
      /\ UNCHANGED <<rows, claims, paused, ingress, lock, messages, lapsed, process, dispatcher, failing,
                     registry, faults, submitted, dropped, overtaken, told, parked>>

HostEnds(p) ==
  /\ up[p]
  /\ \/ /\ entry[p].at = "running"
        /\ \E o \in {"completed", "failed"} \cup IF entry[p].aborted THEN {"aborted"} ELSE {} :
             entry' = [entry EXCEPT ![p].at = "ended", ![p].outcome = o]
     \/ /\ entry[p].at = "failed"   \* settlePreHostFailure
        /\ entry' = [entry EXCEPT ![p].at = "ended", ![p].outcome = "unstarted"]
  /\ UNCHANGED <<rows, claims, paused, ingress, lock, messages, lapsed, process, dispatcher, failing,
                 registry, faults, submitted, dropped, starts, overtaken, told, defied, parked>>

\* terminalQueuePauseCause; only a user's stop pauses for an abort.
PauseCause(item, outcome, userStop) ==
  /\ item \in Foreground
  /\ outcome \in {"failed", "unstarted"} \/ (outcome = "aborted" /\ userStop)

\* Mutant: the owner is not compared
OwnsLeaseAny(p, t) == TRUE

\* settleInTransaction's ownership test
OwnsLease(p, t) == lock = <<t, p>>

\* The repository's settle: the lock is released and the pause recorded, or the
\* answer is stale-owner.
Settle(p) ==
  /\ up[p] /\ entry[p].at = "ended"
  /\ IF OwnsLease(p, entry[p].turn)
     THEN /\ lock' = NoLock
          /\ \E userStop \in BOOLEAN :
               paused' = (paused \/ (PauseCause(entry[p].turn[1], entry[p].outcome, userStop)
                                      /\ rows # <<>>))
          /\ entry' = [entry EXCEPT ![p].at = "settled"]
     ELSE /\ entry' = [entry EXCEPT ![p].at = "settled", ![p].outcome = "stale"]
          /\ UNCHANGED <<lock, paused>>
  /\ UNCHANGED <<rows, claims, ingress, messages, lapsed, process, dispatcher, failing, registry, faults,
                 submitted, dropped, starts, overtaken, told, defied, parked>>

\* The controller forgets the Turn and the queue is woken, unless the host's
\* Turn failed, was aborted, waits for the user or had lost its lease.
WakesQueue(outcome, waits) == outcome = "unstarted" \/ (outcome = "completed" /\ ~waits)

Complete(p) ==
  /\ up[p] /\ entry[p].at = "settled"
  /\ entry' = [entry EXCEPT ![p] = NoEntry]
  /\ \E waits \in BOOLEAN :
       IF WakesQueue(entry[p].outcome, waits) THEN Wake(p) ELSE parked' = TRUE /\ UNCHANGED requested
  /\ UNCHANGED <<rows, claims, paused, ingress, lock, messages, lapsed, process, yielded, recover, lanes,
                 failing, registry, faults, submitted, dropped, starts, overtaken, told, defied>>

\* settleFailedAdmission
SettleFailing(p) ==
  /\ up[p] /\ failing[p] # NoTurn
  /\ IF OwnsLease(p, failing[p])
     THEN /\ lock' = NoLock
          /\ paused' = (paused \/ (PauseCause(failing[p][1], "failed", FALSE) /\ rows # <<>>))
          /\ Wake(p)
     ELSE parked' = TRUE /\ UNCHANGED <<lock, paused, requested>>
  /\ failing' = [failing EXCEPT ![p] = NoTurn]
  /\ UNCHANGED <<rows, claims, ingress, messages, lapsed, process, yielded, recover, lanes, entry, registry,
                 faults, submitted, dropped, starts, overtaken, told, defied>>

-----------------------------------------------------------------------------
(* Crash and restart.                                                      *)

Crash(p) ==
  /\ up[p] /\ Fails
  /\ up' = [up EXCEPT ![p] = FALSE]
  /\ requested' = [requested EXCEPT ![p] = FALSE] /\ recover' = [recover EXCEPT ![p] = FALSE]
  /\ yielded' = [yielded EXCEPT ![p] = {}]
  /\ lanes' = [lanes EXCEPT ![p] = [l \in LaneNames |-> Idle]]
  /\ entry' = [entry EXCEPT ![p] = NoEntry] /\ failing' = [failing EXCEPT ![p] = NoTurn]
  /\ pending' = [pending EXCEPT ![p] = {}] /\ cancelling' = [cancelling EXCEPT ![p] = {}]
  /\ told' = [told EXCEPT ![p] = {}]
  /\ parked' = TRUE
  /\ UNCHANGED <<rows, claims, paused, ingress, lock, messages, lapsed, startedAt, submitted, dropped,
                 starts, overtaken, defied>>

\* A lease is not renewed in time although its runtime lives (that of a dead
\* one need not lapse to be recovered).
LeaseLapses(p) ==
  /\ up[p] /\ lock[2] = p /\ lock \notin lapsed /\ Fails
  /\ lapsed' = lapsed \cup {lock}
  /\ UNCHANGED <<rows, claims, paused, ingress, lock, messages, process, dispatcher, turns, registry,
                 submitted, dropped, starts, overtaken, told, defied, parked>>

\* renew finds the lease gone, and the controller aborts the Turn.
LeaseLost(p) ==
  /\ up[p] /\ entry[p].at \in {"held", "failed", "released", "running"} /\ ~entry[p].aborted
  /\ <<entry[p].turn, p>> \in lapsed
  /\ entry' = [entry EXCEPT ![p].aborted = TRUE]
  /\ UNCHANGED <<rows, claims, paused, ingress, lock, messages, lapsed, process, dispatcher, failing,
                 registry, faults, submitted, dropped, starts, overtaken, told, defied, parked>>

\* recoverState interrupts a Turn whose owner is dead; any submission, also one
\* refused in the end, releases a lock whose lease has lapsed.
RecoverTurn(p) ==
  /\ up[p] /\ lock[2] # Nobody /\ (~up[lock[2]] \/ lock \in lapsed)
  /\ lock' = NoLock
  /\ UNCHANGED <<rows, claims, paused, ingress, messages, lapsed, process, dispatcher, turns, registry,
                 faults, submitted, dropped, starts, overtaken, told, defied, parked>>

\* A restarted runtime recovers its own former Turn before anything else.
Start(p) ==
  /\ ~up[p]
  /\ up' = [up EXCEPT ![p] = TRUE] /\ startedAt' = [startedAt EXCEPT ![p] = claims]
  /\ lock' = IF lock[2] = p THEN NoLock ELSE lock
  /\ UNCHANGED <<rows, claims, paused, ingress, messages, lapsed, dispatcher, turns, registry, faults,
                 submitted, dropped, starts, overtaken, told, defied, parked>>

-----------------------------------------------------------------------------
Callers(p) ==
  \/ \E i \in Items : Submit(p, i) \/ CancelQueued(p, i) \/ RequestCancellation(p, i)
  \/ DispatchQueue(p) \/ DirectTurn(p) \/ Reorder(p) \/ Stop(p) \/ ContinuePaused(p)

LaneStep(p, l) ==
  \/ Classify(p, l) \/ PrepareDelivery(p, l) \/ DeferAdmission(p, l) \/ Admit(p, l)
  \/ SettleRejected(p, l) \/ CommitMessages(p, l) \/ Acknowledge(p, l) \/ SettleThrown(p, l)

TurnStep(p) == EnterHost(p) \/ HostEnds(p) \/ Settle(p) \/ Complete(p) \/ SettleFailing(p)

DrainStep(p) == ClaimNext(p) \/ RecoverBefore(p)

Next == \E p \in Runtimes :
  \/ Callers(p) \/ DrainStep(p) \/ (\E l \in LaneNames : LaneStep(p, l)) \/ TurnStep(p)
  \/ RecoverPending(p) \/ LeaseLapses(p) \/ LeaseLost(p)
  \/ Crash(p) \/ RecoverTurn(p) \/ Start(p)

Spec == Init /\ [][Next]_vars

\* Promises resume and hosts end; nothing obliges callers, crashes or timers.
Fairness == \A p \in Runtimes :
  /\ WF_vars(DrainStep(p)) /\ WF_vars(TurnStep(p))
  /\ \A l \in LaneNames : WF_vars(LaneStep(p, l))
FairSpec == Spec /\ Fairness

-----------------------------------------------------------------------------
(* Properties.                                                             *)

\* A queued message enters the host at most once, whatever runtime crashes,
\* loses its claim to a recovery or redelivers: the host starts only after
\* the acknowledgement that deletes the row.
StartedAtMostOnce == \A i \in Items : starts[i] <= 1

\* A message the host took has left the queue, is in the conversation, and no
\* caller was told that it was cancelled out of the queue.
StartedIsDelivered ==
  \A i \in Items : starts[i] > 0 => i \notin Queued(rows) /\ i \in messages /\ i \notin dropped

\* A submitted message stays in the queue until it is in the conversation or
\* its removal is reported: no crash, recovery or failed write loses it.
NeverLost == \A i \in submitted : i \in Queued(rows) \/ i \in messages \/ i \in dropped

\* No message overtakes a user's message, or an autonomous one that did not
\* yield to this very drain, whoever released or recovered its claim before.
FifoKept == overtaken = {}

\* Until something fails, a runtime that answered 'aborted' for a queued Turn
\* does not start it, whether it meets the cancellation at classification, in
\* the preparation or at registration, and whatever the other lane does.  After
\* a failure it may: registration takes the reason from the registry, so a
\* delivery that throws later finds none, and its row is delivered again.
CancelledNeverStarts == faults = 0 => defied = {}

\* A Turn enters or occupies the host only under the Session's lock, unless its
\* own lease has lapsed; in particular a Turn that lost the lock so, and the
\* recoveries, never release the lock of the Turn that came after it.
HostHoldsLock ==
  \A p \in Runtimes : entry[p].at \in {"held", "failed", "released", "running", "ended"}
    => lock = <<entry[p].turn, p>> \/ <<entry[p].turn, p>> \in lapsed

\* A queued message is eventually taken, unless the queue is paused or was
\* last left by a path that promises no wake: no wake is lost between a
\* refused admission, the release of its claim and the end of the drain.
QueueDrains ==
  \A i \in Items : i \in Queued(rows) ~>
    (i \notin Queued(rows) \/ paused \/ parked \/ claims = MaxClaims)
=============================================================================

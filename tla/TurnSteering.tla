---------------------------- MODULE TurnSteering ----------------------------
(***************************************************************************)
(* Messages sent to a Turn while it runs ("steering"), from their          *)
(* admission to where they end up: turn.controller.ts (the entry of one    *)
(* Turn), user-input-control.ts (the host's polls), execution.coordinator  *)
(* .ts (settlement and release) and steering-requeue.ts (the lanes that    *)
(* save what the Turn did not consume).                                    *)
(*                                                                         *)
(* A user message the Turn did not consume goes back to the Session queue  *)
(* when the Turn closed normally ("requeue") and into the conversation     *)
(* when it was aborted or failed ("teardown").  Each lane is a detached    *)
(* asynchronous function; shutdown starts them all from drain().           *)
(***************************************************************************)
EXTENDS Naturals, Sequences, FiniteSets, SequencesExt

CONSTANTS Users,        \* messages of user producers
          Machines,     \* messages of the other producers
          MaxFailures   \* bound on failed writes and elapsed timeouts

ASSUME SteeringAssumption ==
  /\ Users \cap Machines = {}
  /\ IsFiniteSet(Users \cup Machines)
  /\ MaxFailures \in Nat

Messages == Users \cup Machines

VARIABLES
  \* the controller's entry
  phase, reason,   \* phase and abortReason
  released,        \* the entry is gone and turnReleased resolved
  admitted,        \* accepted messages in send order (steeringIdentities, createdAt)
  steering, claims,
  \* the host and the coordinator
  host, outcome,
  poll,            \* the claims of the poll under way
  consumed,        \* acknowledged messages
  awaiting,        \* discards whose task the pre-release commit awaits
  \* steering-requeue and what it writes
  discards, conversation, queue, paused,
  \* the process
  process, drain, failures

entry == <<phase, reason, released, admitted, steering, claims>>
work == <<host, outcome, poll, consumed>>
saved == <<conversation, queue, paused>>
vars == <<entry, work, awaiting, discards, saved, process, drain, failures>>

Sequence(S) == UNION {[1..n -> S] : n \in 0..Cardinality(S)}

\* The elements of a sequence that are in S, in their order (none occurs twice).
Among(s, S) ==
  LET members == Range(s) \cap S IN
  CHOOSE t \in [1..Cardinality(members) -> members] :
    \A j, k \in DOMAIN t : j < k =>
      \E p, q \in DOMAIN s : p < q /\ s[p] = t[j] /\ s[q] = t[k]

\* TrackedDiscard, its inflight task and its detached lane.
Discard == [batch: Sequence(Users),   \* the key
            left: Sequence(Users),    \* messages
            cause: {"abort", "abnormal-seal", "exit-close"},
            stopped: BOOLEAN,         \* abortReason is a user stop
            route: {"teardown", "requeue"},
            pending: BOOLEAN,
            task: {"none", "merged", "teardown", "enqueue", "pause"},
            lane: 0..3,               \* attempts the lane has left
            waiting: BOOLEAN,         \* the lane awaits the task
            wake: {"none", "due", "published"}]

TypeOK ==
  /\ phase \in {"running", "closing", "aborted"}
  /\ reason \in {"none", "user_stop", "other"}
  /\ released \in BOOLEAN
  /\ admitted \in Sequence(Messages) /\ steering \in Sequence(Messages)
  /\ claims \subseteq Messages /\ consumed \subseteq Messages
  /\ host \in {"starting", "running", "polling", "failing", "closed",
               "ended", "committing", "settling", "stuck", "done"}
  /\ outcome \in {"none", "unstarted", "completed", "failed", "aborted"}
  /\ poll \in [batch: Sequence(Messages), exit: BOOLEAN]
  /\ \A i \in DOMAIN discards : discards[i] \in Discard
  /\ awaiting \subseteq DOMAIN discards
  /\ conversation \in Sequence(Users)
  /\ queue \subseteq Sequence(Users)
  /\ paused \in BOOLEAN
  /\ process \in {"up", "first", "each", "last", "down"}
  /\ drain.wait \subseteq DOMAIN discards /\ Range(drain.list) \subseteq DOMAIN discards
  /\ failures \in 0..MaxFailures

NoPoll == [batch |-> <<>>, exit |-> FALSE]
NoDrain == [wait |-> {}, list |-> <<>>, tried |-> FALSE]

\* register: the Turn is running and its host awaits executionStart.
Init ==
  /\ phase = "running" /\ reason = "none" /\ released = FALSE
  /\ admitted = <<>> /\ steering = <<>> /\ claims = {}
  /\ host = "starting" /\ outcome = "none" /\ poll = NoPoll /\ consumed = {}
  /\ awaiting = {} /\ discards = <<>>
  /\ conversation = <<>> /\ queue = {} /\ paused = FALSE
  /\ process = "up" /\ drain = NoDrain /\ failures = 0

Alive == process # "down"
Fails == failures < MaxFailures /\ failures' = failures + 1

CreatedAt(m) == CHOOSE k \in DOMAIN admitted : admitted[k] = m

-----------------------------------------------------------------------------
(* Handing messages over: onSteeringDiscarded -> discard(batch).           *)

UsersIn(messages) == Among(messages, Users)

\* Mutant: a torn-down batch relies on the pre-release commit alone.
NewDiscardWithoutLane(batch, cause, why) ==
  LET exit == cause = "exit-close" IN
  [batch |-> batch, left |-> batch, cause |-> cause, stopped |-> why = "user_stop",
   route |-> IF exit THEN "requeue" ELSE "teardown",
   pending |-> TRUE, task |-> IF exit THEN "enqueue" ELSE "none",
   lane |-> IF exit THEN 1 ELSE 0, waiting |-> exit, wake |-> "none"]

NewDiscard(batch, cause, why) ==
  LET exit == cause = "exit-close" IN
  [batch |-> batch, left |-> batch, cause |-> cause, stopped |-> why = "user_stop",
   route |-> IF exit THEN "requeue" ELSE "teardown",
   pending |-> TRUE,
   task |-> IF exit THEN "enqueue" ELSE "none",   \* the first attempt starts at once
   lane |-> IF exit THEN 1 ELSE 3,
   waiting |-> exit,
   wake |-> "none"]

\* The discards after handing messages over; a batch that is pending or
\* settled is not taken again.
Discarded(messages, cause, why) ==
  LET batch == UsersIn(messages) IN
  IF batch = <<>> \/ \E i \in DOMAIN discards : discards[i].batch = batch
  THEN discards
  ELSE Append(discards, NewDiscard(batch, cause, why))

-----------------------------------------------------------------------------
(* The controller's entry.                                                 *)

\* Mutant: the identity is not looked up.
SteerAgain(m) ==
  /\ Alive /\ ~released /\ phase = "running"
  /\ admitted' = Append(admitted, m)
  /\ steering' = Append(steering, m)
  /\ UNCHANGED <<phase, reason, released, claims, work, awaiting, discards, saved, process, drain, failures>>

\* steerActiveTurn accepts a message; one whose identity is known is accepted
\* without effect, and after the running phase the answer is "closing".
Steer(m) ==
  /\ Alive /\ ~released /\ phase = "running"
  /\ m \notin Range(admitted)
  /\ admitted' = Append(admitted, m)
  /\ steering' = Append(steering, m)
  /\ UNCHANGED <<phase, reason, released, claims, work, awaiting, discards, saved, process, drain, failures>>

\* Mutant: the claims of a poll under way are cleared with the rest.
AbortEntryForgettingClaims(why) ==
  /\ phase' = "aborted" /\ reason' = why
  /\ discards' = Discarded(steering, "abort", why)
  /\ steering' = <<>> /\ claims' = {}

\* abortEntry; a poll under way keeps its claims.
AbortEntry(why) ==
  /\ phase' = "aborted" /\ reason' = why
  /\ discards' = Discarded(steering, "abort", why)
  /\ steering' = <<>>
  /\ UNCHANGED claims

\* abort of a running Turn, by the user, another caller or a lost lease.  In
\* the closing phase abort only waits, and so does a second one.
Abort(why) ==
  /\ Alive /\ ~released /\ phase = "running"
  /\ AbortEntry(why)
  /\ UNCHANGED <<released, admitted, work, awaiting, saved, process, drain, failures>>

-----------------------------------------------------------------------------
(* The host.                                                               *)

\* executionStart resolves.  The host is not entered after an abort.
StartHost ==
  /\ Alive /\ host = "starting"
  /\ IF phase = "aborted" THEN host' = "ended" /\ outcome' \in {"aborted", "failed"}
                          ELSE host' = "running" /\ UNCHANGED outcome
  /\ UNCHANGED <<entry, poll, consumed, awaiting, discards, saved, process, drain, failures>>

\* executionStart rejects: settlePreHostFailure settles without the host.
PreHostFailure ==
  /\ Alive /\ host = "starting"
  /\ host' = "ended" /\ outcome' = "unstarted"
  /\ UNCHANGED <<entry, poll, consumed, awaiting, discards, saved, process, drain, failures>>

\* getSteeringMessages up to its first await.  An empty drain changes nothing.
PollBegin(exit) ==
  /\ Alive /\ host = "running" /\ phase # "aborted" /\ steering # <<>>
  /\ host' = "polling"
  /\ poll' = [batch |-> steering, exit |-> exit]
  /\ claims' = claims \cup Range(steering)
  /\ steering' = <<>>
  /\ UNCHANGED <<phase, reason, released, admitted, outcome, consumed, awaiting, discards, saved, process, drain, failures>>

RestoreSteering(messages) ==
  LET restored == Among(messages, claims) IN
  IF phase = "aborted"
  THEN discards' = Discarded(restored, "abort", reason) /\ UNCHANGED steering
  ELSE steering' = restored \o steering /\ UNCHANGED discards

\* The rest of getSteeringMessages once the messages in accepted are consumed:
\* the others are restored, then these acknowledged.
FinishPoll(accepted) ==
  /\ RestoreSteering(Among(poll.batch, Range(poll.batch) \ accepted))
  /\ claims' = claims \ Range(poll.batch)
  /\ consumed' = consumed \cup accepted
  /\ poll' = NoPoll
  /\ UNCHANGED <<phase, reason, released, admitted, outcome, awaiting, saved, process, drain, failures>>

\* Every message was prepared and recorded; at the exit boundary the user's
\* are deferred.
PollConsumes ==
  /\ Alive /\ host = "polling" /\ host' = "running"
  /\ FinishPoll(Range(poll.batch) \ IF poll.exit THEN Users ELSE {})

\* A plugin hook stops the Turn at a message (the host goes on to close), or
\* preparing or recording one throws (the host fails the Turn).
PollGivesBack ==
  /\ Alive /\ host = "polling" /\ host' \in {"running", "failing"}
  /\ FinishPoll({})

\* Mutant: a close that overlooks the queued machine messages.
CloseDroppingMachines ==
  /\ Alive /\ host = "running" /\ phase # "aborted" /\ claims = {}
  /\ phase' = "closing" /\ host' = "closed"
  /\ discards' = Discarded(steering, "exit-close", "none")
  /\ steering' = <<>>
  /\ UNCHANGED <<reason, released, admitted, claims, outcome, poll, consumed, awaiting, saved, process, drain, failures>>

\* tryBeginClose succeeds.  Refused, it changes nothing and the host polls
\* again or fails the Turn.
TryBeginClose ==
  /\ Alive /\ host = "running" /\ phase # "aborted" /\ claims = {}
  /\ Range(steering) \subseteq Users
  /\ phase' = "closing" /\ host' = "closed"
  /\ discards' = Discarded(steering, "exit-close", "none")
  /\ steering' = <<>>
  /\ UNCHANGED <<reason, released, admitted, claims, outcome, poll, consumed, awaiting, saved, process, drain, failures>>

\* A plugin Stop hook asks for another step: the host runs on in a Turn that
\* stays closing.
StopHookContinues ==
  /\ Alive /\ host = "closed" /\ host' = "running"
  /\ UNCHANGED <<entry, outcome, poll, consumed, awaiting, discards, saved, process, drain, failures>>

HostCompletes ==
  /\ Alive /\ host = "closed"
  /\ host' = "ended" /\ outcome' = "completed"
  /\ UNCHANGED <<entry, poll, consumed, awaiting, discards, saved, process, drain, failures>>

\* The host ends aborted or failed; sealAbnormalTerminal comes first.
HostEndsAbnormally ==
  /\ Alive /\ host \in {"running", "failing", "closed"}
  /\ host' = "ended"
  /\ outcome' \in IF phase = "aborted" THEN {"aborted", "failed"} ELSE {"failed"}
  /\ discards' = Discarded(steering, "abnormal-seal", reason)
  /\ steering' = <<>> /\ claims' = {}
  /\ phase' = IF phase = "aborted" THEN phase ELSE "closing"
  /\ UNCHANGED <<reason, released, admitted, poll, consumed, awaiting, saved, process, drain, failures>>

-----------------------------------------------------------------------------
(* settleAndRelease.                                                       *)

Inflight == {i \in DOMAIN discards : discards[i].task # "none"}

Mergeable(i) ==
  discards[i].pending /\ discards[i].route = "teardown" /\ discards[i].task = "none"

\* commitDiscardedBeforeRelease starts one task for all idle teardown batches
\* of the Turn and awaits it and the teardown tasks already running.
CommitDiscardedBeforeRelease ==
  /\ Alive /\ host = "ended" /\ host' = "committing"
  /\ discards' = [i \in DOMAIN discards |->
                    IF Mergeable(i) THEN [discards[i] EXCEPT !.task = "merged"] ELSE discards[i]]
  /\ awaiting' = {i \in DOMAIN discards :
                    discards[i].pending /\ discards[i].route = "teardown"}
  /\ UNCHANGED <<entry, outcome, poll, consumed, saved, process, drain, failures>>

\* Its end, or its two-second bound.
CommitSettles ==
  /\ Alive /\ host = "committing" /\ host' = "settling"
  /\ \/ awaiting = {} /\ UNCHANGED failures
     \/ awaiting # {} /\ Fails
  /\ awaiting' = {}
  /\ UNCHANGED <<entry, outcome, poll, consumed, discards, saved, process, drain>>

\* The repository refused the settlement twice: the entry stays.
SettlementFails ==
  /\ Alive /\ host = "settling" /\ host' = "stuck"
  /\ Fails
  /\ UNCHANGED <<entry, outcome, poll, consumed, awaiting, discards, saved, process, drain>>

\* settle, then complete(turn) with its clearControl.
Complete ==
  /\ Alive /\ host = "settling" /\ host' = "done"
  /\ released' = TRUE /\ steering' = <<>> /\ claims' = {}
  /\ UNCHANGED <<phase, reason, admitted, outcome, poll, consumed, awaiting, discards, saved, process, drain, failures>>

-----------------------------------------------------------------------------
(* The tasks: persistTracked and commitMergedTeardown.                     *)

\* start(key, retry): joins the running task or begins one.
Started(d) ==
  IF d.task # "none" THEN d
  ELSE [d EXCEPT !.task = IF d.route = "teardown" THEN "teardown" ELSE "enqueue"]

\* The tasks of the discards in DOMAIN ended end and leave these behind.
EndTasks(ended) ==
  LET S == DOMAIN ended IN
  /\ discards' = [i \in DOMAIN discards |->
                    IF i \in S THEN [ended[i] EXCEPT !.task = "none", !.waiting = FALSE]
                    ELSE discards[i]]
  /\ awaiting' = awaiting \ S
  /\ drain' = [drain EXCEPT !.wait = @ \ S]

TeardownGroups ==
  {{i} : i \in {j \in DOMAIN discards : discards[j].task = "teardown"}}
    \cup ({{i \in DOMAIN discards : discards[i].task = "merged"}} \ {{}})

Left(S) == UNION {Range(discards[i].left) : i \in S}

\* Mutant: the messages are written in the order of the batches.
NextRowOfFirstBatch(S) ==
  LET i == CHOOSE j \in S : discards[j].left # <<>> /\ \A k \in S : discards[k].left # <<>> => j <= k
  IN Head(discards[i].left)

\* The messages are written in createdAt order.
NextRow(S) == CHOOSE m \in Left(S) : \A n \in Left(S) : CreatedAt(m) <= CreatedAt(n)

\* Mutant: the durable prefix is not trimmed.
WithoutCommittedKept(left, m) == left

WithoutCommitted(left, m) == Among(left, Range(left) \ {m})

\* One row of the sink is durable and leaves the batches.
TeardownWrite(S) ==
  /\ Alive /\ S \in TeardownGroups /\ Left(S) # {}
  /\ LET m == NextRow(S) IN
     /\ conversation' = Append(conversation, m)
     /\ discards' = [i \in DOMAIN discards |->
                       IF i \in S THEN [discards[i] EXCEPT !.left = WithoutCommitted(@, m)]
                       ELSE discards[i]]
  /\ UNCHANGED <<entry, work, awaiting, queue, paused, process, drain, failures>>

\* A failed task leaves only the batches with rows left to write pending.
TeardownEnd(S) ==
  /\ Alive /\ S \in TeardownGroups
  /\ \/ Left(S) = {} /\ UNCHANGED failures
     \/ Left(S) # {} /\ Fails
  /\ EndTasks([i \in S |-> [discards[i] EXCEPT !.pending = @ /\ discards[i].left # <<>>]])
  /\ UNCHANGED <<entry, work, saved, process>>

\* Mutant: nobody is told of the queued batch.
SettledQuietly(d) == [d EXCEPT !.pending = FALSE]

Settled(d) ==
  [d EXCEPT !.pending = FALSE, !.wake = IF d.cause = "exit-close" THEN "due" ELSE @]

\* persistRequeue: the enqueue is replayed when the batch is queued already.
\* After a user stop the queue is paused before the batch counts as saved.
Enqueue(i) ==
  /\ Alive /\ discards[i].task = "enqueue"
  /\ queue' = queue \cup {discards[i].left}
  /\ IF discards[i].stopped
     THEN discards' = [discards EXCEPT ![i].task = "pause"] /\ UNCHANGED <<awaiting, drain>>
     ELSE EndTasks([j \in {i} |-> Settled(discards[j])])
  /\ UNCHANGED <<entry, work, conversation, paused, process, failures>>

\* Mutant: the batch counts as saved whether or not the pause succeeded.
PauseIgnored(i) ==
  /\ Alive /\ discards[i].task = "pause"
  /\ paused' \in BOOLEAN
  /\ EndTasks([j \in {i} |-> Settled(discards[j])])
  /\ UNCHANGED <<entry, work, conversation, queue, process, failures>>

PauseIfPending(i) ==
  /\ Alive /\ discards[i].task = "pause"
  /\ paused' = TRUE
  /\ EndTasks([j \in {i} |-> Settled(discards[j])])
  /\ UNCHANGED <<entry, work, conversation, queue, process, failures>>

RequeueFails(i) ==
  /\ Alive /\ discards[i].task \in {"enqueue", "pause"}
  /\ Fails
  /\ EndTasks([j \in {i} |-> discards[j]])
  /\ UNCHANGED <<entry, work, saved, process>>

-----------------------------------------------------------------------------
(* The detached lanes.                                                     *)

\* The last attempt of a teardown lane returns the batch to the queue.
LaneRoute(d) == IF d.lane = 1 THEN "requeue" ELSE d.route

\* After the release a pending batch is tried again; joining a running task
\* counts as an attempt.
LaneAttempt(i) ==
  /\ Alive /\ released
  /\ discards[i].pending /\ ~discards[i].waiting /\ discards[i].lane > 0
  /\ LET d == [discards[i] EXCEPT !.route = LaneRoute(discards[i]), !.lane = @ - 1,
                                  !.waiting = TRUE]
     IN discards' = [discards EXCEPT ![i] = Started(d)]
  /\ UNCHANGED <<entry, work, awaiting, saved, process, drain, failures>>

WakeQueueAfterRelease(i) ==
  /\ Alive /\ released /\ discards[i].wake = "due"
  /\ discards' = [discards EXCEPT ![i].wake = "published"]
  /\ UNCHANGED <<entry, work, awaiting, saved, process, drain, failures>>

-----------------------------------------------------------------------------
(* Shutdown: close() calls controller.close and drain in one step and then *)
(* waits for both.                                                         *)

Shutdown ==
  /\ process = "up" /\ process' = "first"
  /\ IF ~released /\ phase # "aborted"
     THEN AbortEntry("other")
     ELSE UNCHANGED <<phase, reason, steering, claims, discards>>
  /\ drain' = [NoDrain EXCEPT !.wait = Inflight]
  /\ UNCHANGED <<released, admitted, work, awaiting, saved, failures>>

\* drainOrder: by the earliest message left; a batch without any comes last.
Earliest(i) == Min({CreatedAt(m) : m \in Range(discards[i].left)} \cup {Len(admitted) + 1})

DrainBefore(i, j) == Earliest(i) < Earliest(j) \/ (Earliest(i) = Earliest(j) /\ i < j)

DrainCollect ==
  LET found == {i \in DOMAIN discards : discards[i].pending} IN
  /\ process = "first" /\ drain.wait = {}
  /\ process' = "each"
  /\ \E list \in [1..Cardinality(found) -> found] :
       /\ \A j, k \in DOMAIN list : j < k => DrainBefore(list[j], list[k])
       /\ drain' = [drain EXCEPT !.list = list]
  /\ UNCHANGED <<entry, work, awaiting, discards, saved, failures>>

\* A batch of the list is started, and once more on the queue lane when its
\* teardown failed.
DrainStep ==
  /\ process = "each" /\ drain.wait = {} /\ drain.list # <<>>
  /\ LET i == Head(drain.list)
         retry == drain.tried /\ discards[i].route = "teardown" /\ discards[i].pending
     IN IF ~drain.tried \/ retry
        THEN /\ discards' = [discards EXCEPT ![i] =
                               Started(IF retry THEN [@ EXCEPT !.route = "requeue"] ELSE @)]
             /\ drain' = [drain EXCEPT !.wait = {i}, !.tried = TRUE]
        ELSE /\ drain' = [drain EXCEPT !.list = Tail(@), !.tried = FALSE]
             /\ UNCHANGED discards
  /\ UNCHANGED <<entry, work, awaiting, saved, process, failures>>

DrainFlush ==
  /\ process = "each" /\ drain.wait = {} /\ drain.list = <<>>
  /\ process' = "last"
  /\ drain' = [drain EXCEPT !.wait = Inflight]
  /\ UNCHANGED <<entry, work, awaiting, discards, saved, failures>>

\* Mutant: shutdown does not wait for the drain.
ExitEarly ==
  /\ process \in {"first", "each", "last"}
  /\ released /\ process' = "down"
  /\ UNCHANGED <<entry, work, awaiting, discards, saved, drain, failures>>

\* Both settled; the wait for the Turn's release is bounded.
Exit ==
  /\ process = "last" /\ drain.wait = {}
  /\ process' = "down"
  /\ \/ released /\ UNCHANGED failures
     \/ host = "stuck" /\ UNCHANGED failures
     \/ ~released /\ host # "stuck" /\ Fails
  /\ UNCHANGED <<entry, work, awaiting, discards, saved, drain>>

-----------------------------------------------------------------------------
Host ==
  \/ StartHost \/ PreHostFailure
  \/ \E exit \in BOOLEAN : PollBegin(exit)
  \/ PollConsumes \/ PollGivesBack
  \/ TryBeginClose \/ StopHookContinues \/ HostCompletes \/ HostEndsAbnormally

Settlement ==
  CommitDiscardedBeforeRelease \/ CommitSettles \/ SettlementFails \/ Complete

Tasks ==
  \/ \E S \in SUBSET DOMAIN discards : TeardownWrite(S) \/ TeardownEnd(S)
  \/ \E i \in DOMAIN discards : Enqueue(i) \/ PauseIfPending(i) \/ RequeueFails(i)

Lanes == \E i \in DOMAIN discards : LaneAttempt(i) \/ WakeQueueAfterRelease(i)

Drain == DrainCollect \/ DrainStep \/ DrainFlush \/ Exit

Next ==
  \/ \E m \in Messages : Steer(m)
  \/ \E why \in {"user_stop", "other"} : Abort(why)
  \/ Host \/ Settlement \/ Tasks \/ Lanes \/ Shutdown \/ Drain

Spec == Init /\ [][Next]_vars

HostEnds == HostCompletes \/ HostEndsAbnormally

\* Promises that can be resumed are, and the host ends: the runner fails a Turn
\* whose close is refused twice, and a hook may ask for more only eight times.
\* Nothing forces a message, an abort, a failure or a shutdown.
FairSpec ==
  /\ Spec
  /\ WF_vars(StartHost) /\ WF_vars(PollConsumes) /\ SF_vars(HostEnds)
  /\ WF_vars(CommitDiscardedBeforeRelease) /\ WF_vars(CommitSettles) /\ WF_vars(Complete)
  /\ WF_vars(Tasks) /\ WF_vars(Lanes) /\ WF_vars(Drain)

-----------------------------------------------------------------------------
(* Correctness.                                                            *)

AdmittedUsers == Users \cap Range(admitted)
Queued == UNION {Range(b) : b \in queue}
Durable == consumed \cup Range(conversation) \cup Queued

\* In memory, where a later step will find it.
Held ==
  Range(steering) \cup Range(poll.batch)
    \cup UNION {Range(discards[i].left) : i \in {j \in DOMAIN discards : discards[j].pending}}

\* A user message accepted by a Turn that reached its host is not lost while
\* the process lives, however polls, aborts, closes, failed writes and
\* shutdown interleave.
UserSteeringKept ==
  Alive /\ outcome # "unstarted" => AdmittedUsers \subseteq Durable \cup Held

\* runner/contracts.ts: user steering "must survive Turn teardown".
UserSteeringSurvivesTeardown == Alive => AdmittedUsers \subseteq Durable \cup Held

\* A user message ends in one place, once: consumed, a row of the
\* conversation, or a member of one queued batch.
EndsOnce ==
  /\ consumed \cap Range(conversation) = {}
  /\ (consumed \cup Range(conversation)) \cap Queued = {}
  /\ IsInjective(conversation)
  /\ \A b, c \in queue : b # c => Range(b) \cap Range(c) = {}

\* A Turn that completed consumed every machine message it accepted: they
\* have no lane to return on.
MachinesConsumed == outcome = "completed" => Machines \cap Range(admitted) \subseteq consumed

InSendOrder ==
  \A j, k \in DOMAIN conversation : j < k => CreatedAt(conversation[j]) < CreatedAt(conversation[k])

\* While the process is up and its writes succeed, rows fall into the
\* conversation in send order although batches are discarded out of it.  (At
\* shutdown drain and the pre-release commit write side by side.)
SendOrder == failures = 0 /\ process = "up" => InSendOrder

\* What a user stop returned to the queue stays parked: once the batch counts
\* as saved the queue is paused.
StoppedStaysParked ==
  \A i \in DOMAIN discards :
    discards[i].stopped /\ ~discards[i].pending /\ discards[i].left # <<>> =>
      discards[i].left \in queue /\ paused

\* A shutdown in which no write failed and nothing timed out leaves every
\* accepted user message durable.
ShutdownSaves ==
  process = "down" /\ failures = 0 /\ outcome # "unstarted" => AdmittedUsers \subseteq Durable

MaxDiscards == Cardinality(Users)
Is(i, P(_)) == i \in DOMAIN discards /\ P(discards[i])

\* A discarded batch is saved after up to two failures, an exit-close batch
\* after one (then only shutdown tries again), unless the Turn is never
\* released.
EveryBatchLands ==
  \A i \in 1..MaxDiscards :
    Is(i, LAMBDA d : d.pending) ~>
      \/ ~Alive \/ host = "stuck"
      \/ Is(i, LAMBDA d : ~d.pending)
      \/ Is(i, LAMBDA d : d.cause = "exit-close" /\ failures > 1)

\* The dispatcher hears of every batch a finished Turn returned to the queue.
RequeuedIsWoken ==
  \A i \in 1..MaxDiscards :
    Is(i, LAMBDA d : d.cause = "exit-close" /\ ~d.pending) ~>
      (~Alive \/ host = "stuck" \/ Is(i, LAMBDA d : d.wake = "published"))

=============================================================================

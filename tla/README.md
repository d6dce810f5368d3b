# Verification of the Bari local runtime

Bari is a terminal harness for AI agents.  A front end (TUI, `exec`, ACP)
talks to local applications, which call the Session, Turn and Agent services of
`packages/local-runtime-v2`; those call the model providers and the local tools.
This project models the part of the program where concurrency, crashes and time
decide correctness: the *turn system*, the parts of the *session system* it
shares state with, the *stream* through which clients watch a Session, and the
*scheduled tasks*.  TLC checks the modules on small instances; TLAPS proves the
central safety properties for instances of every size.

All source paths below are relative to
`src/packages/local-runtime-v2/src/` unless they start with `packages/`.

## 1. The system

### 1.1 Components and their state

| Component | Source | State | Operations | Modelled by |
|---|---|---|---|---|
| Runtime owner identity | `infra/runtime-owner/identity.ts` | one lease file per runtime instance, compromised/closed flags | create, `createOwnerId`, `ownsOwnerId`, `isOwnerAlive`, compromise, close | `TurnRepository` |
| Turn repository | `service/turn-system/persistence/turn.repository.ts`, `turn-lease-recovery.ts` | SQLite tables `session_locks` (at most one row per Session) and `turn_ingress` (one row per Turn); `pendingSettlements` in memory | admit, renew, settle, revoke, recover (expired, restart), maintenance acquire/renew/release, the four deletion calls | `TurnRepository` |
| Session deletion | `service/turn-system/lifecycle/session-turn-deletion.ts`, `service/session-system/sessions/lifecycle/deletion-gate.ts` | process-local `deleting` set, the progress of a run | run: gate, fence, drain, abort, purge, clean up, complete | `TurnRepository` |
| Session operation gate | `service/turn-system/lifecycle/session-operation-gate.ts` | per Session: active count, mutation token, deleting flag, two drain promises | tryEnter, tryAcquireExclusive, block, release | `OperationGate`, abstract `SessionAccess` |
| Turn controller | `service/turn-system/execution/turn-controller/turn.controller.ts` | the active Turn of each Session: lease, abort controller, steering queue, claims, tool-result tails, released promise | register, renew, steer, drain, acknowledge, restore, tryBeginClose, seal, abort, complete, close | `TurnSteering` |
| User input control | `service/turn-system/agent-host/execution/user-input-control.ts` | the drained batch of the agent loop | getSteeringMessages, tryClose | `TurnSteering` |
| Steering requeue | `service/turn-system/execution/steering/steering-requeue.ts` | pending batches of discarded user messages, in-flight attempts, settled identities | discard, commit before release, retry after release, drain at shutdown | `TurnSteering` |
| Execution coordinator | `service/turn-system/execution/execution.coordinator.ts` | — | run, settle, release, publish | `TurnSteering`, `QueueDispatch` (settle and release), planned for the rest |
| Turn execution service | `service/turn-system/execution/turn-execution.service.ts` | pending submissions, stop tokens | submit, interrupting handoff, compaction | `QueueDispatch` (submit), `OperationGate` (the handoff's lease), planned for the rest |
| Session queue | `service/session-system/queue/repo/drizzle.ts`, `service/session-system/queue/turn-priority-fence.ts` | queue items (queued or claimed), claims with leases, pause rows | enqueue, claim, prepare, acknowledge, release, recover, pause | `QueueDispatch` |
| Queue dispatcher | `service/turn-system/queue.dispatcher.ts` | per Session drains, wake flags, held claims | dispatch, drain, execute a claim, recover, quiesce, close | `QueueDispatch` (without quiesce and close) |
| Steer session, send-now | `service/turn-system/execution/steering/steer-session.service.ts`, `application/conversation/queue-steer-workflow.ts` | steering receipts | steer with receipt | planned |
| History mutation, compaction | `service/turn-system/lifecycle/history-mutation-capability.ts`, `service/turn-system/compaction/` | exclusive leases, checkpoints | edit, rewind, compact | the maintenance lease in `TurnRepository`; planned for the rest |
| Agent host | `service/turn-system/agent-host/` | the run of one Turn's agent loop | prepare, run, commit events | steering boundary only |
| Session stream | `service/session-system/stream/`, `infra/sse/` | per Session: a ring of frames with cursors, groups of completed messages, subscriptions with bounded queues, reservations | write, reserve, resume (by cursor, by message, unanchored), read, dispose | `SessionRing`, `SessionStream` |
| Scheduler | `infra/scheduler/index.ts` | `scheduler_jobs` rows, the record and timer of each job | start, stop, schedule, reschedule, cancel, trigger | `CronRuns` |
| Cron | `service/cron/` | definitions, run rows, the executor's queue and executions in flight | create, update, delete, trigger, run by hand, drain, recover, close | `CronRuns` |
| Automation | `service/automation/` | learning jobs over finished Turns | schedule, run | not modelled |
| OAuth, MCP pool, miniapp supervisor | see `PROJECT.json` | tokens, connections, child processes | refresh, acquire, supervise | not modelled |
| TUI, CLI, ACP front ends, providers, plugins | `packages/*` | presentation state | rendering, I/O | not modelled |

### 1.2 How they interact

All processes of a machine share one SQLite database.  A *runtime instance* is
one process; it owns a lease file and gives every lock it takes an owner id made
from its identity, so that another process can ask whether the owner lives.
Every repository call is one immediate transaction.  Inside a process everything
is a single thread of promises: a step runs from one `await` to the next.

A message takes one of two ways to the agent.  *Queued*: the application enqueues
a row and wakes the dispatcher; a drain claims the first row, records the
attempt, admits a Turn (repository: lock row + ingress row, both in one
transaction, after asking the priority fence), registers it with the controller,
commits the user's message, acknowledges the claim (which deletes the row) and
only then lets the host start.  *Steered*: while a Turn runs, a message enters the
controller's entry and the agent loop polls for it; what the loop does not
consume is handed to the steering requeue, which writes it to the conversation
(after an abort or failure) or back to the queue (after a normal close) and wakes
the dispatcher once the Turn has released its lock.  At the end of a Turn the
coordinator commits discarded steering, settles the Turn in the repository (lock
released, outcome written, pause recorded), completes the controller entry and
wakes the queue.

A Session deletion crosses all of it: it closes the operation gate and the
dispatcher, puts a fence on the lock (or announces it on the lock of the work in
progress), waits for the operations inside, aborts the local Turn, purges the
Turn data, removes the session row and releases the fence.

What a Turn does is published as *frames*: first the message is saved, then its
frame is written to the ring of the Session and pushed to the subscriptions.  A
client resumes with the cursor of the last frame or the id of the last message it
has; the service joins what it finds in the table, in the ring and in the live
queue.  Every Turn ends with a terminal frame, which ends the reader.

One process, the Electron owner, has a Scheduler.  A trigger advances the job row,
inserts a run row under the trigger's identity and queues it; the executor claims
the run, creates or finds its session, attaches it and steers the prompt in, and
writes the outcome by compare-and-swap.  At start the timers are restored first
and the pending runs are recovered last.

### 1.3 What is hard

- *Two processes.*  Admission, renewal, expiry, restart recovery and deletion of
  one Session race through the database; a lease may end while its holder runs.
- *Crashes.*  A process may die between any two transactions of a deletion, a
  delivery or a settlement; the next one continues from the rows alone.
- *Awaits.*  An abort arrives while a poll holds claimed messages; a stop
  releases a lease its holder is waiting on; a cancellation arrives between the
  registration and the start of a queued Turn.
- *Partial failure.*  A settlement throws twice, a teardown commit writes half of
  its rows, an enqueue succeeds and the pause after it fails.
- *Readers.*  A client of a stream is cut off, overflows or comes back while
  messages are saved and published in two steps, frames are evicted and the
  process restarts.
- *Timers.*  A schedule fires while its task is changed, while the process starts
  or stops, and between the two writes of an earlier trigger.
- *Wakes.*  A queue with work and no drain must be woken by somebody: by the end
  of the Turn that made the admission fail, or by the wake that found a drain
  running.

The hazards are listed with their lines in `PROJECT.json`.

### 1.4 What makes each component correct

| Component | Properties |
|---|---|
| Turn repository | an accepted Turn owns its Session's lock and vice versa; outcomes are final; a request is admitted once; no live lease is taken; the lock of a dead owner is released |
| Session deletion | the fence stands until the session row is gone, whatever throws or crashes; it never expires (the code breaks this: finding 1) |
| Operation gate | it implements exclusive access; everyone uses one state object; a waiting deletion is let through |
| Turn controller, steering requeue | no accepted user message is lost, saved twice or reordered; background notices are consumed before a normal end; what the user stopped stays parked; every batch lands and is announced; shutdown saves everything |
| Queue, dispatcher | no message is lost, started twice or overtaken; a message answered as aborted does not start as long as nothing fails; the host runs under the lock until its own lease lapses, and a Turn that lost the lock never frees its successor's; no wake is lost |
| Session stream | a reader who comes back misses nothing that was published, gets nothing twice or out of order, and sees the end of the Turn it watches; the ring stays within its bounds |
| Cron, Scheduler | a trigger is delivered at most once and never taken for another; a fixed session is one; terminal states are final; every run ends; the recovery leaves the runs of its own process alone |

## 2. The modules

| Module | Models | Variables ↔ code |
|---|---|---|
| `TurnRepository` | lock and ingress tables, runtime owner identity, deletion run | `lock` ↔ `session_locks`, `row` ↔ `turn_ingress`, `pending` ↔ `pendingSettlements`, `held` ↔ the leases processes have in memory, `gate` ↔ `deletion-gate.ts` and the process-local mutation block, `stage` ↔ the progress of `session-turn-deletion.ts`, `rt`/`startedAt` ↔ `identity.ts`, `exists` ↔ session rows |
| `TurnRepositoryProofs`, `OperationGateProofs`, `TurnSteeringProofs`, `QueueDispatchProofs`, `SessionStreamProofs`, `CronRunsProofs` | inductive invariants, lemmas and theorems about the module of that name | |
| `OperationGate` | `session-operation-gate.ts` and its callers | `states` ↔ the map entry, `obj` ↔ the state objects by identity, `permit`, `lease`, `run` ↔ what callers hold |
| `SessionAccess` | abstract: many ordinary users, or one exclusive user alone | `working` |
| `TurnSteering` | one Turn: controller entry, polls, release, requeue lanes, shutdown | `phase`, `reason`, `steering`, `claims` ↔ `ActiveTurnEntry`; `poll`, `consumed` ↔ `user-input-control.ts`; `discards` ↔ `TrackedDiscard`, its in-flight task and its lane; `conversation`, `queue`, `paused` ↔ what is durable |
| `QueueDispatch` | one Session: queue rows, dispatchers, deliveries, Turns' start and end | `rows` ↔ queue items, `paused` ↔ the pause row, `ingress`, `lock` ↔ the repository, `lapsed` ↔ leases past their `expiresAtMs` while the owner lives, `lanes` ↔ the drain and `continuePaused`, `requested`/`yielded`/`recover` ↔ the drain state, `entry`/`failing` ↔ controller and failed admission, `pending`/`cancelling` ↔ `queued-turn-completion.ts` |
| `SessionRing` | pure: the bounded ring with its eviction policy and replay; a filter is given by the positions it keeps (`AtPositions`), the eviction loop by where it last asks the policy (`LastLook`) and what it is told there (`Evicts`) | operators on a record: `entries`, `next`, `dropped`, `completed`, `active` |
| `SessionStream` | one Session: the state object, the producers of frames, one iterator and its client | `rows` ↔ the message table, `present`/`epoch`/`ring` ↔ the map entry and its object, `lane` ↔ what a producer has saved and not published, `reservation` ↔ `reserve`, `it` ↔ `SessionResumeIterator` and its subscription, `client` ↔ what `headless/supervisor.ts` holds |
| `CronRuns` | one task: definition, job, runs, executor, process | `job`/`mem`/`timer` ↔ the Scheduler's row, map and timers, `runs` ↔ `cron_runs`, `queue`/`consumer`/`exec` ↔ `queue`, the pump and the recovery's drain, `inFlight`; `phase`/`era` ↔ start, ready, stop and close of the owner |
| `MC*` | instances for TLC: symmetry sets, the foreground items, the tasks | |

Each action is one transaction or one run between awaits, with everything it
changes.  `PROJECT.json` maps every definition to its lines.  Mutated forms of
definitions, marked "Mutant", stand before the definition they alter; they
document which slip in the code each property would reveal.

Choices worth knowing:

- *Time* in `TurnRepository`.  `now` only orders identities and process starts:
  it issues lease numbers and accepted sequences.  A lease has a remaining term
  (`ttl`) that `Tick` lowers at any moment, so renewals and expiries interleave
  freely; a fence has `ttl = Forever`, which never ticks.
- *Settlement that throws.*  The coordinator tries twice and gives up; the lease
  then may or may not still be in use.  Both are allowed.
- *Gate objects.*  The map may hold another object than the one a permit came
  from; the model keeps them apart, which is what `OneStateObject` is about.
- *Clock of claims* in `QueueDispatch`.  A claim id is its number, and a process
  start is the number of claims made before it; the recovery scope
  `claimedAt <= processStartedAt` becomes a comparison of these.
- *`parked`* in `QueueDispatch` is a history variable: work was last left in the
  queue by a path that promises no wake (crash, deferral, failed, aborted or
  waiting Turn, a continued dispatch that started nothing, a stopped submission,
  a throwing preparation, recovery by timer).
- *Microtasks* in `SessionStream`.  `ready` names the producers that may run
  before the iterator's awaited read resumes; frames written in between are the
  window `initializeDurable` closes with its watermark.
- *Objects* in `SessionStream`.  An object that leaves the map has no frames
  (`discardIfEmpty`), so only the ring of the last one is kept; a reader of an
  older one is "not attached".
- *Eras* in `CronRuns` number the lives of the process.  A run records the era
  that claimed it, and the era that failed it as left over; the code has only the
  time of the claim, which is the point of finding 4.
- *`accepted`* in `CronRuns` is a history variable: the triggers that were
  answered as accepted.
- *`Requests`* in `QueueDispatch` bounds the kinds of caller requests of a run.

## 3. The runs

| Run | Instance | What it shows |
|---|---|---|
| `turn_repository` | 2 overlapping processes, 1 Session, 2 Turns, 1 client request, term 1, `MaxNow` 4; 2.5 M states | lock and ingress tables agree, outcomes are final, a request is admitted once, no live lease is taken, a fence is released only with the session row gone unless a running Turn made it expire |
| `turn_repository_serial` | 2 instances one after the other, Turns and compactions, term 2, `MaxNow` 5; 1.1 M states | a dead owner's lock is released |
| `deletion_fence_expires` | 1 process, 2 Turns | *violation*: a fence can expire (finding 1) |
| `operation_gate` | 4 operations, 2 handoffs, 2 end fences, 1 deletion run, 2 objects | refinement of `SessionAccess`, one state object, the deletion drains |
| `steering` | 2 user messages, 1 notice, 2 failures; 0.38 M states | no user message lost, duplicated or reordered; notices consumed; stop parks; shutdown saves; every batch lands and the dispatcher hears of each requeued one |
| `steering_unstarted` | no failure | *violation*: a rejected start loses steering (finding 2) |
| `queue_safety` | 2 processes, a user's item and an autonomous one, 3 claims, 1 fault; 2.3 M states | no message lost, started twice or overtaken; the host runs only under the lock, or after its own lease lapsed |
| `queue_drains` | 1 process, 2 items, 3 claims, no fault, every kind of request but reorder and dispatch; 0.34 M states | no wake is lost; what was answered as aborted does not start as long as nothing fails |
| `session_stream` | a user's message and an assistant's, 2 Turns, ring of 2 frames or 2 bytes, subscription of 1, 2 objects; 0.8 M states | no gap, no duplicate, no reordering; the ring stays within its bounds; a watched Turn lets its reader go |
| `stream_orphaned_resume` | the same | *violation*: a resumed reader can be left on a removed object (finding 3) |
| `cron` | a task that runs once, one that runs at most once with a fixed session, one that recurs; 1 manual request, 2 runs, 2 lives of the process, 1 failing call; 1.1 M states | at most one delivery, no swallowed trigger, one fixed session, final states, orderly close, every run ends |
| `cron_recovery_race` | the same, no failing call | *violation*: the recovery fails a run of its own process (finding 4) |

### 3.1 Bounds, and why they are enough

- *Two processes, one Session.*  The database relates rows of one Session only;
  the hard cases are pairs (the owner and the one that recovers, or deletes).
  That nothing depends on the number is what the theorems add.
- *Two Turns*: one to own the lock and one to compete or follow.  *One client
  request* under two Turn identities is the duplicate case.
- *Term 1*: a lease is valid or expired; renewal brings it back.  The serial run
  uses 2 to tell a renewed lease from a fresh one.  `MaxNow` bounds starts +
  admissions + fences + takeovers: 4 lets both processes start, admit a Turn and
  fence; 5 also lets a restarted process take a fence over and admit again.
- *Steering*: a batch boundary needs two user messages (one claimed by a poll,
  one queued when the abort comes).  Two failures make the pre-release commit and
  a retry fail.
- *Queue*: three claims allow a delivery, its redelivery and the one after, or a
  handover between two items; with one fault in the two-process run any single
  crash, failed write, expired claim lease or lapsed Turn lease may fall between
  any two steps.
- *Gate*: the counter distinguishes 0, 1 and more; two handoffs and two end
  fences compete with each other and with the deletion run.

- *Stream*: frames of size 1 fill the ring, one of size 3 is larger than it; two
  Turns give a reader of the second a terminal of the first to stumble over; two
  objects give a cursor of a forgotten ring.  One reader: readers share nothing
  but the ring.
- *Cron*: two runs are a trigger and its competitor (the next trigger, the one of
  a new schedule, the manual run); two lives give one crash or one orderly stop
  between any two steps, and one recovery.

`CHECK_DEADLOCK FALSE` is set where the system may stop: all processes dead, all
messages delivered, or a bound reached.  The gate runs with the deadlock check.

Symmetry is used only in safety runs, on process, Turn or message identities that
the specification compares for equality alone.

### 3.2 Fairness

- `TurnRepository`: time passes for each lease (`Tick`), and clients keep
  submitting to the Session in every process that serves it (`AdmitRejected`,
  which needs nothing but a serving process).  The second is an assumption about
  the environment: in this code an expired lock is recovered by the next
  submission, no timer does it.  The property therefore says "released once
  somebody asks", and excuses Sessions that no process serves.
- `OperationGate`: operations and exclusive sections end; their releases are in
  `finally` blocks.
- `TurnSteering`: promises whose operations have finished resume, and the host
  ends (strong fairness): the runner fails a Turn whose close is refused twice,
  and a Stop hook may continue it at most eight times.  Messages, aborts,
  failures and shutdown are never forced.
- `SessionStream`: a producer that saved a message publishes it, a running Turn
  ends and writes its terminal, a reader reads.  The fairness of steps that write
  to the ring is stated through the guard that enables them (`TerminalDue`,
  `PublishDue`) instead of `ENABLED`, which is the same and quicker to check.
- `CronRuns`: promises settle, the loops go on, a starting process recovers and
  a stopping one exits and is started again.  No timer has to fire and nobody has
  to run a task.  `PendingEnds` is excused once a database call threw: a run
  whose terminal write failed stays pending until the next start.
- `QueueDispatch`: drains, deliveries and Turns that can go on do; callers,
  crashes, restarts and the recovery timer are never forced.

## 4. What is proved

Six modules hold proofs.  Each has an inductive invariant `IInv`, which TLC was
run on first, one lemma per action that the action keeps it, and theorems that
follow from it.  Three properties need more than `IInv` says and have an invariant
of their own on top of it: `LInv` and `FInv` of `TurnRepositoryProofs`, `CInv` of
`QueueDispatchProofs`.  The theorems hold for every value of the constants: any
number of processes, Sessions, Turns, messages, items, tasks, and any bound.

| Module | Theorem | Statement |
|---|---|---|
| `TurnRepositoryProofs` | `TypeCorrect` | `Spec => []TypeOK` |
| | `AcceptedOwnsLock` | `Spec => []AcceptedTurnOwnsLock` |
| | `ActiveLockNamesTurn` | `Spec => []ActiveLockHasTurn` |
| | `OutcomeIsFinal` | `Spec => TerminalIsFinal` |
| | `RequestsAreUnique` | `Spec => []RequestAdmittedOnce` |
| | `LiveLeaseKept` | `Spec => LiveLeaseIsNotTaken` |
| | `FenceHolds` | `Spec => FenceHoldsUntilCleanup` |
| `OperationGateProofs` | `TypeCorrect` | `Spec => []TypeOK` |
| | `OneObject` | `Spec => []OneStateObject` |
| | `GateIsExclusive` | `Spec => ExclusiveAccess`, the refinement of `SessionAccess` |
| `TurnSteeringProofs` | `TypeCorrect` | `Spec => []TypeOK` |
| | `NoSteeringIsLost` | `Spec => []UserSteeringKept` |
| | `DeliveredOnce` | `Spec => []EndsOnce` |
| | `CompletedOwesNoMachine` | `Spec => []MachinesConsumed` |
| | `RowsInSendOrder` | `Spec => []SendOrder` |
| | `StoppedIsParked` | `Spec => []StoppedStaysParked` |
| | `ShutdownLeavesNothing` | `Spec => []ShutdownSaves` |
| `QueueDispatchProofs` | `TypeCorrect` | `Spec => []TypeOK` |
| | `OneStart` | `Spec => []StartedAtMostOnce` |
| | `StartDelivers` | `Spec => []StartedIsDelivered` |
| | `NothingLost` | `Spec => []NeverLost` |
| | `OrderKept` | `Spec => []FifoKept` |
| | `HostIsLocked` | `Spec => []HostHoldsLock` |
| | `CancellationHeeded` | `Spec => []CancelledNeverStarts` |
| `SessionStreamProofs` | `TypeCorrect` | `Spec => []TypeOK`, the limits of ring and subscription included |
| | `FramesInOrder` | `Spec => []PendingInOrder` |
| `CronRunsProofs` | `TypeCorrect` | `Spec => []TypeOK` |
| | `OneDelivery` | `Spec => []DeliveredAtMostOnce` |
| | `TriggersKept` | `Spec => []NoTriggerSwallowed` |
| | `OneFixedTarget` | `Spec => []FixedTargetIsOne` |
| | `CloseSettles` | `Spec => []CloseSettlesClaims` |
| | `TerminalFinal` | `Spec => TerminalIsFinal` |

The assumptions are the named `ASSUME`s of the modules, which TLC evaluates in
each run: bounds are numbers (the lease term a positive one), the values that
stand for "none" are not identities, the kinds of users of the gate and of
steered messages are disjoint, the steered and the streamed messages are finitely
many, and a Session can have a stream object.

### 4.1 The turn repository

Agreement of lock and accepted Turns is not
inductive.  Expiry and restart recovery fail only the *latest* accepted Turn of a
Session and then drop the lock; if two were accepted, one would be left without a
lock.  So the invariant adds that the sequence of an accepted Turn is unique
(`SequencesUnique`), whence a Session whose lock carries that sequence has one
accepted Turn (`OneAccepted`, `LatestIsAll`); and that is kept by an admission
because every sequence so far was issued by the counter (`SequencesIssued`).

A transaction is a composition of small pieces (settle Turns,
release or promote a lock, apply a pending settlement, recover an expired lock).
One lemma per piece says that it settles accepted Turns of its own Session and
changes nothing else (`OnlySettlesIn`), another that it keeps the agreement.
`OneSessionStep`, `QuietStep`, `AdmitKeeps`, `RemoveKeeps` and `RestartKeeps` lift
them to the five shapes an action can have, and `InvStep` assigns each action its
shape.  Finality and uniqueness of requests need no agreement: they follow from
`RowStepOfNext`, which says that each step settles accepted rows, removes rows or
inserts the row of one admission that found no duplicate.

*A live lease is not taken* (`LInv`).  Every number a lock, a lease in memory or a
remembered settlement carries was issued by the counter, and a lock with the number
of a lease some process holds or remembers belongs to that process.  A step that
replaces a lock therefore comes from its owner, or finds the lock expired or its
owner gone.

*The fence stands* (`FInv`).  The statement has two halves.  A fence with the expiry
it was made with (`Fenced`) leaves the lock only in `completeSessionDeletion`, and
`FInv` adds that a run which has come that far has removed the session row
(`CleanedIsGone`); every other piece finds the fence unexpired, unowned by a Turn
and not to be replaced (`FenceUntouched`, `FenceReleased`).  And a fence that lapses
is one whose expiry `renew` replaced, by a Turn still running under the owner id of
the lock (`FenceRenewed`).  That this second case exists is finding 1, in one
process as well as in two; so neither half can be had without naming it.

### 4.2 The operation gate

That everyone uses the object in the map does not follow from what the code
checks at a release: it holds because `settleState` forgets an object only when
nobody counts on it.  The invariant says so: the object's count is the number of
permits that are out (`PermitsCounted`), the object of a drained user counts none
(`DrainedIsEmpty`), and a deletion run keeps its flag on the object of the map
(`RunIsFenced`).  `SettlesTo` states once what `settleState` does; each action is
an instance of it.  The refinement maps the permits, the working exclusive users
and the working deletion run to `working`; an exclusive user starts to work only
after its drain, when the count is zero, and the token or the flag keeps everyone
out until it leaves.

### 4.3 Steering

The properties speak of messages, which pass through six hands; the invariant
says where each one is.

- *One place* (`IPlaces`): an accepted message is consumed, waits in the entry, is
  being polled, or is in the batch of one discard.  Claims are the messages of the
  poll under way, so `restoreSteering` gives back all it was handed.
- *What is queued is final* (`ISaved`): a batch in the queue is what a discard has
  left, and that discard is routed to the queue and written by no task any more.
  This is why a retry on the queue lane cannot duplicate rows a teardown wrote,
  and a second enqueue of the batch is a replay.
- *Nobody lets go early* (`IKept`): a discard stops being pending only with nothing
  left or with what is left in the queue.
- *Phases* (`IControl`, `IMachines`): nothing waits once the entry is closing or
  aborted, and a Turn that started does not settle in the running phase; so what
  `clearControl` empties at the release was empty.
- *On its way* (`IQuiet`): while nothing failed, a pending batch waits for the
  pre-release commit, is in it, or is in its first enqueue.  At the exit of a
  shutdown none of the three is possible.
- *One writer* (`IOrder`): while the process is up and nothing failed, whatever may
  still be written is written by the merged task, and is later than every row
  there is; the task writes the earliest first.

The steps fall into four shapes, each treated by one lemma: messages move
(`MovesInv`), the state of discards changes (`UpdatesKeep`), tasks end
(`EndsInv`), a row is written (`TeardownWriteStep`).  That the filter `Among`
keeps exactly the members of a set, each once, is an induction over the prefixes
of the sequence; it is carried out with the least-number principle (`NatMin`),
since the induction theorems of the library are out of the provers' reach.

### 4.4 The queue

Five facts carry the six properties.

- *One claim* (`OneClaim`): a claim is made in a transaction that finds no
  claimed row, so its number is new to every lane and every admission
  (`ClaimFacts`, `ClaimsApart`).
- *Recorded before admitted* (`AcceptedIsTried`): a claim whose Turn was admitted
  has its attempt recorded.  Therefore the branch of `recoverClaims` that deletes
  a row as delivered is never taken for such a claim, and a recovery only gives
  claims up (`RecoveredKeeps`): this is what keeps `NeverLost`.
- *Deleted before started* (`StartsOK`): the start is released in the step that
  deletes the row, and an item without a row gets none again, so a released or
  started item is never delivered again.
- *The lock follows the Turn* (`LockIsHeld`): from admission to settlement the
  Turn of an entry, and one that goes to `failAdmission`, has the lock or has let
  its lease lapse; the lock is freed by its Turn, by an admission or recovery that
  finds it lapsed, or by the recovery of a dead runtime.  A Turn that lapsed
  settles as `stale-owner` and frees nothing (`OwnsLease`).
- *Nothing before it* (`LaneOK`): at the admission only rows that yielded to this
  drain stand before the claimed one.  Later steps cannot change that: rows are
  appended at the end, a reorder needs a queue without claims, a drain resets
  what yielded only at its top, and nothing that yields is a user's.

The writes of the repository are treated once: those that keep the rows (`Keeps`)
and those that take one out (`Loses`) keep the order of what remains (`Shrinks`),
and `ShrinkRows` and `LaneKept` say what that leaves true.

*Cancellation* (`CInv`).  Before any fault a claim stays with the lane that made it
and no recovery changes a row, since every owner is alive.  So a runtime that
answered "aborted" for an item still has the reason in `cancelling`, or the item has
no row, or its row is held by that runtime's own lane past the admission, where the
Turn is aborted before it reaches its host.  After a failed acknowledgement the
registry has forgotten the reason and the redelivery may start; hence `faults = 0`
in the property.

### 4.5 The session stream

*The ring* (`RingOK`).  The entries have the cursors right after the last dropped
one, without a gap, and are within the bounds.  That a write ends there is the
argument for `enforceRetention`: while the bounds are exceeded the policy gives up at
least one entry and never more than there are (`EvictionCount`), so the loop moves
forward and stops (`LastLookStops`), either with nothing left or with a policy that
is content, which it is only within the bounds (`RetentionKeeps`).

*The iterator* (`IterOK`, `OrderOK`).  What is handed over, replayed and queued has
growing cursors below the next one of the ring, so a frame that is written now may
go to the end (`PushInOrder`).  Between the two halves of `initializeDurable` the
snapshot ends and the queue begins at the mark.  Afterwards every queued frame is
among the frames captured since the mark, so the filter of `filterLiveAfterReplay`
empties the queue, and the replay is the saved messages, of which only the last has
a cursor, followed by later frames (`StitchInOrder`, `DurableOpens`).  In cursor
mode the statement is exact: pending are the frames `n + 1 .. next - 1` for the
client's cursor `n`; a read moves both ends of that equation.  A resync, an overflow
and an end of the wait only drop frames.

*Objects* (`ObjectsOK`).  No iterator is on an object newer than the last.  A write
to a new object therefore reaches nobody, and a reader that is not attached has no
claim on the order.

Recursive functions (the eviction loop, the fold over captured frames) and filters
are reasoned about through `HandedOver`, `StepByStep` and `AtPositionsLists`: each
is an induction carried out with the least-number principle.

### 4.6 Scheduled tasks

*Delivery.*  A run is delivered by the execution that claimed it, and an execution
exists for one claim: the invariant relates the stage of each execution to its
row (`ExecOK`: the claim before the session, the session before the delivery, and
nothing sent until the steering call), and the claim is a
compare-and-swap on a row nobody claimed.  That two rows never stand for one
trigger (`UniqueTriggers`) needs that the triggers on record are those of earlier
schedules or of this one up to the job's count (`TriggersArePast`), which also
makes the number of scheduled rows that of the accepted triggers (`Counted`).

*The fixed session.*  An execution that creates a session has read a definition
without one; the bind is a compare-and-swap, and an execution that loses it
discards what it created (`TargetOK`, `OneTarget`).

*Close.*  While no database call threw, what this process claimed is settled or
has an execution in flight (`ClaimsInHand`); the close waits for the executions.

### 4.7 Only model-checked

- Liveness, which is out of the prover's reach: `AbandonedLockIsReleased`,
  `DeletionDrains`, `EveryBatchLands`, `RequeuedIsWoken`, `QueueDrains`,
  `WatchEnds`, `PendingEnds`.
- `UserSteeringSurvivesTeardown`, which the code violates (finding 2): the theorem
  `NoSteeringIsLost` leaves out the Turns that never reached their host.
- `NothingOwedIsMissing` of `SessionStream`: it compares two folds, what the client
  makes of the frames it is still to read and what the producers have published, and
  would need an induction over both sequences with the operators as parameters.
- `DeletionFenceNeverExpires` and `ResumeSeesTerminal`, which the code violates
  (findings 1 and 3).

## 5. Findings

1. **A deletion fence can expire** (`turn.repository.ts:130`).  `renew` matches the
   owner id alone.  A deletion announces itself on the lock of a running Turn and
   ends before it has aborted the Turn, because the drain of the dispatcher that it
   awaits rejects (`session-turn-deletion.ts:41`, `queue.dispatcher.ts:196`); or it
   was another process that announced it.  The lock lapses.  The next deletion in
   the Turn's own process makes the lapsed lock the fence and keeps its owner id
   (`turn.repository.ts:896`, `1102`); a renewal of the Turn before the abort gives
   that fence an ordinary expiry.  One process is enough.  A second process never
   makes such a fence itself: it throws while the owner lives (`:825`) and takes a
   dead owner's lock over under an id of its own (`:828`).
2. **Steering accepted before a rejected start is lost**
   (`execution.coordinator.ts:164`).
3. **A resumed stream can wait for ever** (`session-stream-service.ts:129`).  A
   refused send discards the state object if no frame was written to it, also
   when a reader has resumed on it; the frames of the next Turn go to another.
4. **The recovery can fail a run that is executing** (`executor.ts:259`).  Timers
   are restored by `background.start()`, the runs are recovered at the end of
   `services.ready()`.  A run that fires and is claimed in between is marked
   failed(PROCESS_RESTARTED); it is then abandoned with its session, or delivered
   and recorded as failed.

Observations made while modelling, each a behaviour of the models above:

- An expired plain maintenance lock is treated by a deletion as the lock of a
  Turn, and the call throws (`turn.repository.ts:884`, `ActiveTurnMissing`).
- At shutdown the drain of the requeue and the pre-release commit run side by
  side and can write steered messages in another order (`initialize.ts:233`).
- The cancellation of a queued message is cleared at registration
  (`queued-turn-completion.ts:71`): if the delivery then throws, the message is
  redelivered without it and starts, although its caller was answered "aborted".
  `CancelledNeverStarts` therefore speaks of the time before the first failure.
- A Turn whose lease lapsed loses the lock to the next admission, whoever makes it
  (`turn.repository.ts:715`), and goes on in its host until its own renewal fails:
  for that while two Turns of a Session run.  `HostHoldsLock` states the exception.
- After `continuePaused` ends without starting a Turn, the remaining items wait
  for another wake (it ignores `drainAgain`).
- Between settle and complete a Turn can be admitted that the controller then
  refuses; its message is in the conversation and its Turn fails, but nothing is
  lost (`NeverLost`).
- A frame that is written twice is classified twice though appended once: it
  completes the message that is streaming, so the ring may keep one completed
  message too many until the next append.
- A crash or a failed insert between the job row and the run row loses that
  occurrence of a schedule: it counts towards `maxRuns` and never runs.

## 6. What is not modelled

- `TurnRepository`: leases of older releases without owner identities and their
  stall window; queue pauses (in `QueueDispatch`).
- `OperationGate`: what a stopped handoff still does after its release (an
  admission in flight and its rollback), which runs outside the gate like any
  submission; the second call of a release, a no-op by the flag of its closure
  (`session-operation-gate.ts:66`).
- `TurnSteering`: tool-result tails, which have no caller; lease renewal.  A
  teardown write puts a message on display and into the canonical history in one
  step (`steering-teardown-commit.ts:67`; a retry of the pair skips what is there);
  an `onConsumed` that fails has recorded nothing of its batch
  (`user-input-control.ts:92`); the pause that follows an enqueue finds the rows it
  has just enqueued, which nothing else in this model removes
  (`queue/repo/drizzle.ts:101`).
- `QueueDispatch`: send-now, rejection by the operation gate, quiesce and close,
  front placement, deduplication, immediate-send batches, messages that are not
  shown in the conversation (`user-message-turn-delivery.ts:199`).  A stop between
  admission and registration, which revokes the admission, is taken as a stop
  before it; the controller forgets a Turn and wakes the queue in one step; a
  direct Turn is admitted only by a process whose controller has no entry.
- `SessionRing`: a chunk with `finish` also completes its message
  (`session-frame-retention.ts:100`), which changes only how much is evicted.
- `SessionStream`: `deleteSession`, frames that carry neither a message nor a
  terminal, several readers, and the TUI's own reconnection.  A recall reads the
  messages of the Turn and rewinds them in one step (`agent-projection.ts:426`);
  whether a resume waits is decided on the state of the Turn, where the
  application reads the durable status of the Session
  (`conversation-application.ts:295`).
- `CronRuns`: the rollback of a lifecycle transaction (the Scheduler's memory
  stays ahead of the rows), retargeting a task, hard deletion and `kickManual`
  (no product code calls them), a start without restored timers.  A new schedule
  keeps the kind and `maxRuns` of its task (`lifecycle.ts:120`).  No call throws
  between the attachment of a session and the delivery (`executor.ts:496`), and a
  pump that rejected does not end a close early (`executor.ts:243`); both need a
  failing call, after which `CloseSettlesClaims` and `PendingEnds` promise nothing.
  *Assumed*: tasks are created, changed, cancelled and run by hand only while the
  process serves requests (`Serving`).  The executor does not test this itself
  (`executor.ts:198`, and its close looks at the executions in flight once,
  `:244`), so a run started by hand during the close would not be waited for.
- The agent loop, providers, tools, front ends and file-system or network I/O:
  no protocol of this program to check, or out of TLC's reach.

Behaviours of the code that are known to be hard and that no property is about
yet, besides those `PROJECT.json` lists: the stall window of older leases
(`turn.repository.ts:360`); the controller entry that stays when a settlement is
refused twice (`turn.controller.ts:76`); a continued dispatch while
`quiesceSession` waits (`queue.dispatcher.ts:196`); a head claimed by another
process whose admission is refused, which wakes nobody (`queue.dispatcher.ts:289`);
cancellation of an item that another process holds (`queued-turn-completion.ts:46`).

`PROJECT.json` lists every component with its status.

## 7. Plan

Done: `TurnRepository`, `OperationGate`/`SessionAccess`, `TurnSteering`,
`QueueDispatch`, `SessionRing`/`SessionStream` and `CronRuns`, with their proofs.
Next, in this order:

1. Steering receipts and the send-now workflow, whose claims the steering requeue
   may take over.
2. Submission with the interrupting handoff's retry and stop token, composed with
   the gate; the controller entry that a twice-refused settlement leaves behind;
   the renewal timer against the lease clock.
3. OAuth refresh under the cross-process lock, and the tools host's leases.

------------------------------ MODULE CronRuns ------------------------------
(***************************************************************************)
(* One scheduled task and its runs: the Scheduler of infra/scheduler       *)
(* (job row, memory record, timer), the CronExecutor (queue, pump, single  *)
(* flight, recovery, close), the lifecycle operations on the definition    *)
(* and the compare-and-swap updates of the run table.  The process that    *)
(* owns the task may crash between any two steps and start again; only one *)
(* process (the Electron owner) has a Scheduler.                           *)
(*                                                                         *)
(* An action is one segment of code between two awaits.  What the Session  *)
(* and Turn systems do while an execution waits for them (a session is     *)
(* created, a message is steered in) is an action of its own.              *)
(***************************************************************************)
EXTENDS Naturals, Sequences, FiniteSets, SequencesExt

CONSTANTS Requests,    \* idempotency keys of manual triggers
          Tasks,       \* what may be created: kind of schedule, maxRuns, session target
          MaxGenerations, MaxRows, MaxEras, MaxFaults   \* bounds on the run

ASSUME CronAssumption ==
  /\ Tasks \subseteq [kind : {"once", "cron"}, maxRuns : Nat \ {0}, fixed : BOOLEAN]
  /\ {MaxGenerations, MaxRows, MaxEras, MaxFaults} \subseteq Nat

VARIABLES
  definition,  \* the definition row, its schedule and its session target (0: none yet)
  job,         \* the scheduler row
  runs,        \* the run rows, in the order of their creation
  accepted,    \* scheduled triggers that were accepted so far
  phase,       \* of the process: see Start to Exit
  era,         \* how many times the process has been started
  clean,       \* the last process ended with Exit
  mem, timer,  \* the Scheduler's record of the job, and whether it has a timer
  queue,       \* the executor's queue of run ids
  consumer,    \* the two loops over the queue: the pump and the recovery
  exec,        \* executions in flight, by run id
  faults       \* database calls that threw so far

vars == <<definition, job, runs, accepted, phase, era, clean, mem, timer,
          queue, consumer, exec, faults>>
scheduler == <<job, mem, timer>>
executor == <<queue, consumer, exec>>
process == <<phase, era, clean>>

Rows == 1..MaxRows
NoTask == [kind |-> "none", maxRuns |-> 0, fixed |-> FALSE]
NoJob == [generation |-> 0, count |-> 0, state |-> "none"]
NoExec == [stage |-> "none", target |-> "new"]
Idle == [state |-> "idle", run |-> 0]
At(state) == [state |-> state, run |-> 0]

Init ==
  /\ definition = [state |-> "none", task |-> NoTask, target |-> 0]
  /\ job = NoJob /\ mem = NoJob /\ timer = FALSE
  /\ runs = <<>> /\ accepted = 0
  /\ phase = "down" /\ era = 0 /\ clean = FALSE
  /\ queue = <<>>
  /\ consumer = [c \in {"pump", "recovery"} |-> Idle]
  /\ exec = [r \in Rows |-> NoExec]
  /\ faults = 0

----------------------------------------------------------------------------
(* The run table                                                           *)

Trigger(source, generation, key) ==
  [source |-> source, generation |-> generation, key |-> key]

NewRun(trigger) ==
  [trigger |-> trigger, status |-> "pending", code |-> "none", claimed |-> 0,
   session |-> 0, sent |-> 0, failedIn |-> 0]

\* The rows with the identity of the trigger: scheduler_trigger_id and
\* manual_request_id are unique.
RowsOf(trigger) == {r \in DOMAIN runs : runs[r].trigger = trigger}

\* Mutant: every manual request has a row of its own.
InsertAlways(trigger) == Append(runs, NewRun(trigger))

\* insertPendingScheduled and createManualRun: an existing row, or a new one.
Insert(trigger) == IF RowsOf(trigger) # {} THEN runs ELSE Append(runs, NewRun(trigger))

\* claimExecution: once, whoever comes first and whichever process.
Claimable(run) == run.status = "pending" /\ run.claimed = 0

Attachable(run) == run.status = "pending" /\ run.session = 0 /\ run.claimed # 0

\* Mutant: the state of the row is not looked at.
SettlesAlways(run) == TRUE

\* The guard of markDelivered and markFailed.
Settles(run) == run.status = "pending"

MarkDelivered(run) ==
  IF Settles(run) /\ run.session # 0 /\ run.claimed # 0
  THEN [run EXCEPT !.status = "delivered"] ELSE run

MarkFailed(run, code) ==
  IF Settles(run) /\ run.claimed # 0
  THEN [run EXCEPT !.status = "failed", !.code = code,
                     !.failedIn = IF code = "restarted" THEN era ELSE 0] ELSE run

----------------------------------------------------------------------------
(* The executor's queue                                                    *)

Closed == phase = "closing"

\* enqueue and schedulePump.
Queued(q, r) == IF Closed \/ Contains(q, r) THEN q ELSE Append(q, r)
PumpScheduled(c) == IF ~Closed /\ c["pump"] = Idle THEN [c EXCEPT !["pump"] = At("loop")] ELSE c

Enqueue(r) == queue' = Queued(queue, r) /\ consumer' = PumpScheduled(consumer)

\* getOrStartExecution: one execution per run.
Started(r) == IF exec[r].stage = "none" THEN [exec EXCEPT ![r] = [NoExec EXCEPT !.stage = "ready"]]
              ELSE exec

Pending(r) == runs[r].status = "pending"

\* drainOnce, by the pump (continuePump) or by the recovery (drainAll).
Drain(c) ==
  /\ consumer[c].state = "loop"
  /\ \/ /\ queue = <<>> \/ (c = "pump" /\ Closed)
        /\ consumer' = [consumer EXCEPT ![c] = At("ending")]
        /\ UNCHANGED <<queue, exec>>
     \/ /\ queue # <<>> /\ ~(c = "pump" /\ Closed)
        /\ queue' = Tail(queue)
        /\ IF Pending(Head(queue))
           THEN /\ exec' = Started(Head(queue))
                /\ consumer' = [consumer EXCEPT ![c] = [state |-> "await", run |-> Head(queue)]]
           ELSE UNCHANGED <<exec, consumer>>
  /\ UNCHANGED <<definition, scheduler, runs, accepted, process, faults>>

\* The awaited execution has completed.
Awaited(c) ==
  /\ consumer[c].state = "await"
  /\ exec[consumer[c].run].stage = "none"
  /\ consumer' = [consumer EXCEPT ![c] = At("loop")]
  /\ UNCHANGED <<definition, scheduler, runs, accepted, process, queue, exec, faults>>

\* Mutant: what was queued meanwhile is not looked at.
AfterPumpQuiet == Idle

\* The finally of continuePump: a run queued since the loop saw an empty queue
\* schedules it again.
AfterPump == IF ~Closed /\ queue # <<>> THEN At("loop") ELSE Idle

PumpEnds ==
  /\ consumer["pump"].state = "ending"
  /\ consumer' = [consumer EXCEPT !["pump"] = AfterPump]
  /\ UNCHANGED <<definition, scheduler, runs, accepted, process, queue, exec, faults>>

\* The end of drainAll is the end of ready().
RecoveryEnds ==
  /\ consumer["recovery"].state = "ending"
  /\ consumer' = [consumer EXCEPT !["recovery"] = Idle]
  /\ phase' = IF phase = "recovering" THEN "up" ELSE phase
  /\ UNCHANGED <<definition, scheduler, runs, accepted, era, clean, queue, exec, faults>>

----------------------------------------------------------------------------
(* The Scheduler                                                           *)

\* advanceJob: a schedule that runs once, or the last of maxRuns.
Reached(count) == definition.task.kind = "once" \/ count >= definition.task.maxRuns

Advanced(j) ==
  [j EXCEPT !.count = @ + 1, !.state = IF Reached(j.count + 1) THEN "completed" ELSE @]

Ticking == phase \in {"starting", "recovering", "up"} /\ timer /\ mem.state = "active"

\* acceptScheduledTrigger: the run of the trigger, found or inserted, is queued.
AcceptScheduledTrigger(trigger) ==
  LET rows == Insert(trigger) IN
  /\ runs' = rows
  /\ accepted' = accepted + 1
  /\ Enqueue(CHOOSE r \in DOMAIN rows : rows[r].trigger = trigger)

\* trigger: the row is advanced, then the handler is invoked.  If its insert
\* throws (CRON_PERSIST_FAILED) the trigger is gone.  The definition is there:
\* its deletion cancels the job.
Fire ==
  /\ Ticking
  /\ Len(runs) < MaxRows
  /\ job' = Advanced(mem) /\ mem' = Advanced(mem)
  /\ timer' = (Advanced(mem).state # "completed")
  /\ \/ /\ AcceptScheduledTrigger(Trigger("scheduled", mem.generation, Advanced(mem).count))
        /\ UNCHANGED faults
     \/ /\ faults < MaxFaults /\ faults' = faults + 1
        /\ UNCHANGED <<runs, accepted, queue, consumer>>
  /\ UNCHANGED <<definition, process, exec>>

\* The update of the row throws: a job that runs once gives up its timer, a
\* recurring one is as it was.
FireFails ==
  /\ Ticking /\ definition.task.kind = "once"
  /\ faults < MaxFaults
  /\ faults' = faults + 1
  /\ timer' = FALSE
  /\ UNCHANGED <<definition, job, mem, runs, accepted, process, executor>>

----------------------------------------------------------------------------
(* Operations of the product, each one transaction                         *)

Serving == phase = "up"

Scheduled(generation, active) ==
  LET new == [generation |-> generation, count |-> 0,
              state |-> IF active THEN "active" ELSE "cancelled"]
  IN job' = new /\ mem' = new /\ timer' = active

\* create, and the job it schedules (cancelled at once if it is not enabled).
Create ==
  /\ Serving /\ definition.state = "none"
  /\ \E task \in Tasks, active \in BOOLEAN :
       /\ definition' = [state |-> "live", task |-> task, target |-> 0]
       /\ Scheduled(0, active)
  /\ UNCHANGED <<runs, accepted, process, executor, faults>>

\* Mutant: the generation stays.
SameGeneration(g) == g

\* nextScheduleGeneration
NextGeneration(g) == g + 1

\* update with a schedule, or enabling: reschedule, and cancel if the task is
\* or becomes disabled.
Reschedule ==
  /\ Serving /\ definition.state = "live"
  /\ mem.state # "none" /\ mem.generation < MaxGenerations
  /\ \E active \in BOOLEAN : Scheduled(NextGeneration(mem.generation), active)
  /\ UNCHANGED <<definition, runs, accepted, process, executor, faults>>

\* cancel, of the row, the record and the timer.
Cancelled == [mem EXCEPT !.state = "cancelled"]

\* update that disables the task, and the deletion of the definition.
Cancel(deleting) ==
  /\ Serving /\ definition.state = "live" /\ mem.state # "none"
  /\ definition' = IF deleting THEN [definition EXCEPT !.state = "deleted"] ELSE definition
  /\ deleting \/ mem.state # "cancelled"
  /\ job' = Cancelled /\ mem' = Cancelled /\ timer' = FALSE
  /\ UNCHANGED <<runs, accepted, process, executor, faults>>

\* prepareManual: the run of the request, or a new one, is executed at once.
Manual(q) ==
  LET trigger == Trigger("manual", 0, q)
      rows == Insert(trigger)
      row == CHOOSE r \in DOMAIN rows :
               /\ rows[r].trigger = trigger
               /\ \A o \in DOMAIN rows : rows[o].trigger = trigger => o <= r
  IN
  /\ Serving /\ definition.state = "live"
  /\ Len(rows) <= MaxRows
  /\ runs' = rows
  /\ exec' = IF rows[row].status = "pending" THEN Started(row) ELSE exec
  /\ UNCHANGED <<definition, scheduler, accepted, process, queue, consumer, faults>>

----------------------------------------------------------------------------
(* An execution                                                            *)

Done(r) == exec' = [exec EXCEPT ![r] = NoExec]
Stage(r, stage) == exec' = [exec EXCEPT ![r].stage = stage]
Row(r, row) == runs' = [runs EXCEPT ![r] = row]

\* executePending up to the creation of the session: the claim, then the
\* definition as it is now.
Claim(r) ==
  /\ exec[r].stage = "ready"
  /\ LET claimed == [runs[r] EXCEPT !.claimed = era] IN
     \/ /\ ~Claimable(runs[r])
        /\ Done(r) /\ UNCHANGED runs
     \/ /\ Claimable(runs[r]) /\ definition.state # "live"
        /\ Row(r, MarkFailed(claimed, "execution"))
        /\ Done(r)
     \/ /\ Claimable(runs[r]) /\ definition.state = "live"
        /\ Row(r, claimed)
        /\ exec' = [exec EXCEPT ![r] =
             [stage |-> "creating",
              target |-> CASE ~definition.task.fixed -> "new"
                           [] definition.task.fixed /\ definition.target = 0 -> "pending"
                           [] OTHER -> "bound"]]
  /\ UNCHANGED <<definition, scheduler, accepted, process, queue, consumer, faults>>

\* Mutant: the last one binds.
BindLast(r) == r

\* bindPendingTargetSession: the first session becomes the target.
Bind(r) == IF definition.target = 0 THEN r ELSE definition.target

\* attachSession, and on to the delivery unless the run is no longer pending.
Attach(r, session) ==
  IF Attachable(runs[r])
  THEN Row(r, [runs[r] EXCEPT !.session = session]) /\ Stage(r, "delivering")
  ELSE UNCHANGED runs /\ Done(r)

\* The session is there (the execution of run r creates session r): a pending
\* fixed target is bound, the loser of that race discards its session first.
SessionReady(r) ==
  /\ exec[r].stage = "creating"
  /\ \/ /\ exec[r].target # "pending"
        /\ Attach(r, IF exec[r].target = "bound" THEN definition.target ELSE r)
        /\ UNCHANGED definition
     \/ /\ exec[r].target = "pending" /\ definition.state = "live"
        /\ definition' = [definition EXCEPT !.target = Bind(r)]
        /\ IF Bind(r) = r THEN Attach(r, r) ELSE Stage(r, "discarding") /\ UNCHANGED runs
     \/ /\ exec[r].target = "pending" /\ definition.state # "live"
        /\ Stage(r, "failing") /\ UNCHANGED <<runs, definition>>
  /\ UNCHANGED <<scheduler, accepted, process, queue, consumer, faults>>

\* The session of the loser is discarded, as far as possible.
Discarded(r) ==
  /\ exec[r].stage = "discarding"
  /\ Attach(r, definition.target)
  /\ UNCHANGED <<definition, scheduler, accepted, process, queue, consumer, faults>>

\* No session (or no target any more): finishFailed.
SessionFails(r) ==
  /\ exec[r].stage \in {"creating", "failing"}
  /\ Row(r, MarkFailed(runs[r], "execution")) /\ Done(r)
  /\ UNCHANGED <<definition, scheduler, accepted, process, queue, consumer, faults>>

\* The Turn system takes the message, or not; a call that throws may have
\* been taken.
Steer(r) ==
  /\ exec[r].stage = "delivering"
  /\ \E taken, reported \in BOOLEAN :
       /\ reported => taken
       /\ Row(r, [runs[r] EXCEPT !.sent = IF taken THEN @ + 1 ELSE @])
       /\ Stage(r, IF reported THEN "delivered" ELSE "rejected")
  /\ UNCHANGED <<definition, scheduler, accepted, process, queue, consumer, faults>>

\* The end of executePending; a conflict preserves the row.
Mark(r) ==
  /\ exec[r].stage \in {"delivered", "rejected"}
  /\ Row(r, IF exec[r].stage = "delivered" THEN MarkDelivered(runs[r])
            ELSE MarkFailed(runs[r], "execution"))
  /\ Done(r)
  /\ UNCHANGED <<definition, scheduler, accepted, process, queue, consumer, faults>>

\* A database call of the execution throws: its completion rejects, the loop
\* that awaits it ends, and a recovery that awaits it fails the startup.
Throws(r) ==
  /\ exec[r].stage \notin {"none", "delivering"}
  /\ faults < MaxFaults /\ faults' = faults + 1
  /\ Done(r)
  /\ consumer' = [c \in DOMAIN consumer |->
                    IF consumer[c] = [state |-> "await", run |-> r] THEN At("ending")
                    ELSE consumer[c]]
  /\ IF consumer["recovery"] = [state |-> "await", run |-> r]
     THEN phase' = "stopping" /\ mem' = NoJob /\ timer' = FALSE
     ELSE UNCHANGED <<phase, mem, timer>>
  /\ UNCHANGED <<definition, job, runs, accepted, era, clean, queue>>

----------------------------------------------------------------------------
(* The process                                                             *)

\* Scheduler.start restores the job: a job that runs once may have missed its
\* time.  The recovery of the runs comes last in ready(), timers run before.
Start ==
  /\ phase = "down" /\ era < MaxEras
  /\ phase' = "starting" /\ era' = era + 1 /\ clean' = FALSE
  /\ \/ /\ job.state = "active" /\ definition.task.kind = "once"
        /\ job' = [job EXCEPT !.state = "expired"]
        /\ timer' = FALSE
     \/ /\ UNCHANGED job
        /\ timer' = (job.state = "active")
  /\ mem' = job'
  /\ UNCHANGED <<definition, runs, accepted, executor, faults>>

\* What the recovery queues.
Requeues(run) == run.claimed = 0

\* Mutant: a run that a timer queued already is queued again.
QueuedAgain(found) == found

\* enqueue's test, for all that the recovery finds.
Unqueued(found) == found \ Range(queue)

\* recoverPendingRuns up to drainAll: pending runs are queued in the order of
\* their creation, unless they are already, claimed ones fail, PROCESS_RESTARTED.
Recover ==
  LET found == {r \in DOMAIN runs : Pending(r) /\ Requeues(runs[r])}
      new == Unqueued(found)
  IN
  /\ phase = "starting"
  /\ phase' = "recovering"
  /\ runs' = [r \in DOMAIN runs |->
                IF Pending(r) /\ ~Requeues(runs[r]) THEN MarkFailed(runs[r], "restarted")
                ELSE runs[r]]
  /\ \E listed \in [1..Cardinality(new) -> new] :
       /\ \A i, j \in 1..Cardinality(new) : i < j => listed[i] < listed[j]
       /\ queue' = queue \o listed
  /\ consumer' = [IF found = {} THEN consumer ELSE PumpScheduled(consumer)
                    EXCEPT !["recovery"] = At("loop")]
  /\ UNCHANGED <<definition, scheduler, accepted, era, clean, exec, faults>>

\* The background runtime stops the Scheduler first.
Stop ==
  /\ phase \in {"starting", "recovering", "up"} /\ era < MaxEras
  /\ phase' = "stopping"
  /\ mem' = NoJob /\ timer' = FALSE
  /\ UNCHANGED <<definition, job, runs, accepted, era, clean, executor, faults>>

\* Then, once ready() is over, close: nothing more is queued.
CloseExecutor ==
  /\ phase = "stopping" /\ consumer["recovery"] = Idle
  /\ phase' = "closing"
  /\ queue' = <<>>
  /\ UNCHANGED <<definition, scheduler, runs, accepted, era, clean, consumer, exec, faults>>

\* Mutant: close does not wait.
IdleAtOnce == TRUE

\* waitForIdle: the pump, then every execution.
ExecutorIdle == consumer["pump"] = Idle /\ \A r \in Rows : exec[r].stage = "none"

Gone ==
  /\ phase' = "down"
  /\ mem' = NoJob /\ timer' = FALSE
  /\ queue' = <<>> /\ consumer' = [c \in DOMAIN consumer |-> Idle]
  /\ exec' = [r \in Rows |-> NoExec]
  /\ UNCHANGED <<definition, runs, accepted, era, faults>>

Exit ==
  /\ phase = "closing" /\ ExecutorIdle
  /\ clean' = TRUE
  /\ Gone /\ UNCHANGED job

\* A crash anywhere, between the two writes of a trigger too.
Crash ==
  /\ phase # "down" /\ era < MaxEras
  /\ clean' = FALSE
  /\ job' = job \/ (Ticking /\ job' = Advanced(mem))
  /\ Gone

----------------------------------------------------------------------------
Execution(r) ==
  \/ Claim(r) \/ SessionReady(r) \/ Discarded(r) \/ SessionFails(r)
  \/ Steer(r) \/ Mark(r)

Loop(c) == Drain(c) \/ Awaited(c)

Next ==
  \/ \E c \in {"pump", "recovery"} : Loop(c)
  \/ PumpEnds \/ RecoveryEnds
  \/ Fire \/ FireFails
  \/ Create \/ Reschedule
  \/ \E deleting \in BOOLEAN : Cancel(deleting)
  \/ \E q \in Requests : Manual(q)
  \/ \E r \in Rows : Execution(r) \/ Throws(r)
  \/ Start \/ Recover \/ Stop \/ CloseExecutor \/ Exit \/ Crash

Spec == Init /\ [][Next]_vars

\* Promises settle, loops go on, a process that starts recovers and one that
\* stops exits; the user starts it again.  No timer has to fire.
FairSpec ==
  /\ Spec
  /\ \A r \in Rows : WF_vars(Execution(r))
  /\ \A c \in {"pump", "recovery"} : WF_vars(Loop(c))
  /\ WF_vars(PumpEnds) /\ WF_vars(RecoveryEnds)
  /\ WF_vars(Start) /\ WF_vars(Recover) /\ WF_vars(CloseExecutor) /\ WF_vars(Exit)

----------------------------------------------------------------------------
TypeOK ==
  /\ definition.state \in {"none", "live", "deleted"} /\ definition.target \in 0..MaxRows
  /\ Len(runs) <= MaxRows
  /\ \A r \in DOMAIN runs :
       /\ runs[r].status \in {"pending", "delivered", "failed"}
       /\ runs[r].claimed \in 0..era /\ runs[r].sent \in 0..MaxEras
  /\ phase \in {"down", "starting", "recovering", "up", "stopping", "closing"}
  /\ \A j \in {job, mem} :
       /\ j.generation \in 0..MaxGenerations
       /\ j.state \in {"none", "active", "completed", "cancelled", "expired"}
  /\ timer => mem.state = "active"
  /\ Range(queue) \subseteq DOMAIN runs /\ IsInjective(queue)
  /\ consumer["recovery"] # Idle => phase \in {"recovering", "stopping"}

\* A trigger is delivered at most once: duplicate manual requests, the pump
\* next to the recovery, crashes between claim, delivery and the terminal
\* write, and restarts included.
DeliveredAtMostOnce ==
  \A r \in DOMAIN runs :
    /\ runs[r].sent <= 1
    /\ \A o \in RowsOf(runs[r].trigger) : runs[r].sent > 0 /\ runs[o].sent > 0 => o = r

\* No accepted trigger is taken for an earlier one: counts start again with
\* every new schedule, and its generation keeps the identities apart.
NoTriggerSwallowed ==
  accepted = Cardinality({r \in DOMAIN runs : runs[r].trigger.source = "scheduled"})

\* Every run of a task with a fixed session is delivered to the same session,
\* although concurrent first runs each create one.
FixedTargetIsOne ==
  definition.task.fixed =>
    \A r \in DOMAIN runs : runs[r].session # 0 => runs[r].session = definition.target

\* The executor's promise that duplicate triggers, restarts and concurrent
\* draining "converge on one authoritative fact": a terminal state is final.
TerminalIsFinal ==
  [][\A r \in DOMAIN runs :
       ~Pending(r) => runs'[r].status = runs[r].status /\ runs'[r].code = runs[r].code]_runs

\* close waits "for currently claimed runs to persist terminal state".
CloseSettlesClaims ==
  (clean /\ faults = 0) =>
    \A r \in DOMAIN runs : Pending(r) => runs[r].claimed # era

Waiting(r) == r \in DOMAIN runs /\ Pending(r)

\* Every run ends, through crashes and restarts, unless a database call threw.
PendingEnds ==
  \A r \in Rows : Waiting(r) ~> (~Waiting(r) \/ faults > 0)

\* recoverPendingRuns is to "recover runs left by the previous process".
RecoverySparesOwnRuns ==
  \A r \in DOMAIN runs :
    runs[r].code = "restarted" => runs[r].claimed # runs[r].failedIn
=============================================================================

--------------------------- MODULE CronRunsProofs ---------------------------
(***************************************************************************)
(* Proofs about CronRuns, for any set of tasks and requests and any bounds *)
(* on schedules, rows, processes and faults: a trigger is delivered at     *)
(* most once, no accepted trigger is swallowed, a fixed session target is  *)
(* one session, a clean exit leaves no claim of its own open, and a        *)
(* terminal state is final.                                                *)
(***************************************************************************)
EXTENDS CronRuns, FiniteSetTheorems, SequenceTheorems, TLAPS

JobStates == {"none", "active", "completed", "cancelled", "expired"}
Job == [generation : 0..MaxGenerations, count : Nat, state : JobStates]
Triggers == [source : {"scheduled"}, generation : Nat, key : Nat]
              \cup [source : {"manual"}, generation : {0}, key : Requests]
RunRow ==
  [trigger : Triggers, status : {"pending", "delivered", "failed"},
   code : {"none", "execution", "restarted"}, claimed : Nat,
   session : 0..MaxRows, sent : Nat, failedIn : Nat]
Stages == {"none", "ready", "creating", "discarding", "failing", "delivering", "delivered",
           "rejected"}
Executions == [stage : Stages, target : {"new", "pending", "bound"}]
Phases == {"down", "starting", "recovering", "up", "stopping", "closing"}
Consumers == [{"pump", "recovery"} ->
                [state : {"idle", "loop", "await", "ending"}, run : 0..MaxRows]]

\* The types of the variables, in full.
Types ==
  /\ definition \in [state : {"none", "live", "deleted"}, task : Tasks \cup {NoTask},
                     target : 0..MaxRows]
  /\ job \in Job /\ mem \in Job /\ timer \in BOOLEAN
  /\ runs \in Seq(RunRow) /\ Len(runs) <= MaxRows
  /\ accepted \in Nat
  /\ phase \in Phases /\ era \in 0..MaxEras /\ clean \in BOOLEAN
  /\ queue \in Seq(Rows)
  /\ consumer \in Consumers
  /\ exec \in [Rows -> Executions]
  /\ faults \in 0..MaxFaults

\* A process that is down has nothing in memory, and one that is up has been
\* started.
DownIsEmpty ==
  /\ phase = "down" => /\ consumer = [c \in {"pump", "recovery"} |-> Idle]
                       /\ \A r \in Rows : exec[r].stage = "none"
  /\ phase # "down" => era # 0 /\ ~clean
  /\ clean => era # 0

\* The record of the job in memory is the row, and it is what the timer is for.
MemoryIsRow ==
  /\ mem.state # "none" => mem = job
  /\ timer => mem.state = "active"
  /\ definition.state = "none" => job.state = "none" /\ Len(runs) = 0

QueueOK ==
  /\ \A i \in 1..Len(queue) : queue[i] \in 1..Len(runs)
  /\ \A i, j \in 1..Len(queue) : queue[i] = queue[j] => i = j
  /\ consumer["recovery"] # Idle => phase \in {"recovering", "stopping"}

\* A row: who was claimed belongs to this process or an earlier one, and what
\* was not claimed has neither session nor delivery.
RowOK(run) ==
  /\ run.claimed <= era /\ run.sent <= 1
  /\ run.claimed = 0 => run.session = 0 /\ run.sent = 0

\* An execution and the row of its run: the claim comes before the session,
\* the session before the delivery.
ExecOK(e, run) ==
  /\ e.stage \notin {"none", "ready"} => run.claimed # 0
  /\ e.stage \in {"creating", "discarding", "failing"} => run.session = 0 /\ run.sent = 0
  /\ e.stage = "delivering" => run.sent = 0
  /\ e.stage \in {"delivering", "delivered", "rejected"} => run.session # 0

\* ... and the target as the execution read it with its claim.
TargetOK(e, def) ==
  /\ e.stage = "creating" =>
       /\ e.target = "new" <=> ~def.task.fixed
       /\ e.target = "bound" => def.target # 0
  /\ e.stage = "discarding" => def.task.fixed /\ def.target # 0

RowsOK == \A r \in 1..Len(runs) : RowOK(runs[r])

ExecsOK ==
  \A r \in Rows : exec[r].stage # "none" =>
    r \in 1..Len(runs) /\ ExecOK(exec[r], runs[r]) /\ TargetOK(exec[r], definition)

UniqueTriggers ==
  \A r, o \in 1..Len(runs) : runs[r].trigger = runs[o].trigger => r = o

\* The triggers on record are those of earlier schedules, and of this one up
\* to the count of the job.
TriggersArePast ==
  \A r \in 1..Len(runs) : runs[r].trigger.source = "scheduled" =>
    \/ runs[r].trigger.generation < job.generation
    \/ runs[r].trigger.generation = job.generation /\ runs[r].trigger.key <= job.count

ScheduledRows == {r \in 1..Len(runs) : runs[r].trigger.source = "scheduled"}
Counted == accepted = Cardinality(ScheduledRows)

OneTarget ==
  definition.task.fixed =>
    \A r \in 1..Len(runs) : runs[r].session # 0 => runs[r].session = definition.target

\* What this process claimed is settled or being executed, unless a call to
\* the database threw; after a clean exit it is settled.
ClaimsInHand ==
  \A r \in 1..Len(runs) :
    faults = 0 /\ runs[r].status = "pending" /\ runs[r].claimed = era /\ era # 0 =>
      \/ phase # "down" /\ exec[r].stage \notin {"none", "ready"}
      \/ phase = "down" /\ ~clean

IInv ==
  /\ Types /\ DownIsEmpty /\ MemoryIsRow /\ QueueOK
  /\ RowsOK /\ ExecsOK /\ UniqueTriggers /\ TriggersArePast /\ Counted
  /\ OneTarget /\ ClaimsInHand

-----------------------------------------------------------------------------
(* The bounds are numbers, and the rows they allow.                        *)

LEMMA Bounds ==
  /\ MaxGenerations \in Nat /\ MaxRows \in Nat /\ MaxEras \in Nat /\ MaxFaults \in Nat
  /\ \A r \in Rows : r \in Nat /\ r # 0 /\ r \in 0..MaxRows
BY CronAssumption DEF CronAssumption, Rows

\* A function on 1..n is a sequence of length n.
LEMMA FunctionIsSeq ==
  ASSUME NEW S, NEW n \in Nat, NEW f \in [1..n -> S]
  PROVE  f \in Seq(S) /\ Len(f) = n
OBVIOUS

LEMMA InitInv == Init => IInv
<1> SUFFICES ASSUME Init PROVE IInv
  OBVIOUS
<1>1. NoJob \in Job /\ NoExec \in Executions /\ NoExec.stage = "none"
  BY Bounds DEF NoJob, Job, JobStates, NoExec, Executions, Stages
<1>2. consumer \in Consumers
  BY Bounds DEF Init, Consumers, Idle
<1>3. exec \in [Rows -> Executions] /\ \A r \in Rows : exec[r].stage = "none"
  BY <1>1 DEF Init
<1>4. Types
  <2>1. definition \in [state : {"none", "live", "deleted"}, task : Tasks \cup {NoTask},
                        target : 0..MaxRows]
    BY Bounds DEF Init
  <2>2. runs \in Seq(RunRow) /\ Len(runs) <= MaxRows /\ queue \in Seq(Rows)
    BY Bounds DEF Init
  <2>3. era \in 0..MaxEras /\ faults \in 0..MaxFaults
    BY Bounds DEF Init
  <2> QED BY <1>1, <1>2, <1>3, <2>1, <2>2, <2>3 DEF Init, Types, Phases
<1>5. Len(runs) = 0 /\ Len(queue) = 0
  BY DEF Init
<1>6. Counted
  <2>1. ScheduledRows = {}
    BY <1>5 DEF ScheduledRows
  <2> QED BY <2>1, FS_EmptySet DEF Counted, Init
<1> QED BY <1>3, <1>4, <1>5, <1>6
        DEF Init, IInv, DownIsEmpty, MemoryIsRow, QueueOK, RowsOK, ExecsOK, UniqueTriggers,
            TriggersArePast, OneTarget, ClaimsInHand, NoJob, Idle

-----------------------------------------------------------------------------
(* Writes to the run table.                                                *)

\* A row is replaced by another of the same trigger.
LEMMA RowUpdate ==
  ASSUME NEW rows \in Seq(RunRow), NEW r \in 1..Len(rows), NEW row \in RunRow
  PROVE  LET new == [rows EXCEPT ![r] = row] IN
         /\ new \in Seq(RunRow) /\ Len(new) = Len(rows)
         /\ new[r] = row
         /\ \A o \in 1..Len(rows) : o # r => new[o] = rows[o]
OBVIOUS

\* markFailed and markDelivered keep the identity, the claim, the session and
\* the deliveries of a row, and they change a pending row only.
LEMMA MarkFacts ==
  ASSUME era \in Nat, NEW run \in RunRow, NEW code \in {"execution", "restarted"}
  PROVE  /\ MarkFailed(run, code) \in RunRow /\ MarkDelivered(run) \in RunRow
         /\ \A new \in {MarkFailed(run, code), MarkDelivered(run)} :
              /\ new.trigger = run.trigger /\ new.claimed = run.claimed
              /\ new.session = run.session /\ new.sent = run.sent
              /\ run.status # "pending" => new = run
         /\ run.claimed # 0 => MarkFailed(run, code).status # "pending"
         /\ run.claimed # 0 /\ run.session # 0 => MarkDelivered(run).status # "pending"
<1>1. /\ MarkFailed(run, code) \in RunRow
      /\ MarkFailed(run, code).trigger = run.trigger
      /\ MarkFailed(run, code).claimed = run.claimed
      /\ MarkFailed(run, code).session = run.session
      /\ MarkFailed(run, code).sent = run.sent
      /\ run.status # "pending" => MarkFailed(run, code) = run
      /\ run.claimed # 0 => MarkFailed(run, code).status # "pending"
  BY DEF MarkFailed, Settles, RunRow
<1>2. /\ MarkDelivered(run) \in RunRow
      /\ MarkDelivered(run).trigger = run.trigger
      /\ MarkDelivered(run).claimed = run.claimed
      /\ MarkDelivered(run).session = run.session
      /\ MarkDelivered(run).sent = run.sent
      /\ run.status # "pending" => MarkDelivered(run) = run
      /\ run.claimed # 0 /\ run.session # 0 => MarkDelivered(run).status # "pending"
  BY DEF MarkDelivered, Settles, RunRow
<1> QED BY <1>1, <1>2

\* The rows keep their triggers, so what is known of triggers stays.
LEMMA SameTriggers ==
  ASSUME IInv, runs' \in Seq(RunRow), Len(runs') = Len(runs),
         \A o \in 1..Len(runs) : runs'[o].trigger = runs[o].trigger,
         job' = job, accepted' = accepted
  PROVE  UniqueTriggers' /\ TriggersArePast' /\ Counted'
<1>1. UniqueTriggers' /\ TriggersArePast'
  BY DEF IInv, UniqueTriggers, TriggersArePast
<1>2. ScheduledRows' = ScheduledRows
  BY DEF ScheduledRows
<1> QED BY <1>1, <1>2 DEF IInv, Counted

-----------------------------------------------------------------------------
(* One step of the execution of run r: it replaces its row and its own     *)
(* state, and it may bind the session target.                              *)

Bound(def, r) == [def EXCEPT !.target = r]

LEMMA ExecStep ==
  ASSUME IInv, NEW r \in Rows, exec[r].stage # "none",
         NEW row \in RunRow, NEW e \in Executions,
         runs' = [runs EXCEPT ![r] = row], exec' = [exec EXCEPT ![r] = e],
         row.trigger = runs[r].trigger, RowOK(row), ExecOK(e, row), TargetOK(e, definition'),
         \/ definition' = definition
         \/ definition.target = 0 /\ definition' = Bound(definition, r),
         definition.task.fixed /\ row.session # 0 => row.session = definition'.target,
         faults = 0 /\ row.status = "pending" /\ row.claimed = era =>
           e.stage \notin {"none", "ready"},
         UNCHANGED <<scheduler, accepted, process, queue, consumer, faults>>
  PROVE  IInv'
<1> USE DEF scheduler, process
<1>1. r \in 1..Len(runs) /\ phase # "down" /\ runs \in Seq(RunRow)
  BY DEF IInv, ExecsOK, DownIsEmpty, Types
<1>2. /\ runs' \in Seq(RunRow) /\ Len(runs') = Len(runs)
      /\ runs'[r] = row
      /\ \A o \in 1..Len(runs) : o # r => runs'[o] = runs[o]
  BY <1>1, RowUpdate
<1>3. exec' \in [Rows -> Executions] /\ exec'[r] = e
      /\ \A o \in Rows : o # r => exec'[o] = exec[o]
  BY DEF IInv, Types
<1>4. /\ definition' \in [state : {"none", "live", "deleted"}, task : Tasks \cup {NoTask},
                         target : 0..MaxRows]
      /\ definition'.state = definition.state /\ definition'.task = definition.task
      /\ definition'.target = definition.target \/ (definition.target = 0 /\ definition'.target = r)
  BY Bounds DEF IInv, Types, Bound
<1>5. Types'
  BY <1>2, <1>3, <1>4 DEF IInv, Types
<1>6. DownIsEmpty' /\ MemoryIsRow' /\ QueueOK'
  BY <1>1, <1>2, <1>4 DEF IInv, DownIsEmpty, MemoryIsRow, QueueOK
<1>7. RowsOK'
  BY <1>2 DEF IInv, RowsOK, RowOK
<1>8. ExecsOK'
  <2> SUFFICES ASSUME NEW o \in Rows, exec'[o].stage # "none"
               PROVE  o \in 1..Len(runs') /\ ExecOK(exec'[o], runs'[o]) /\ TargetOK(exec'[o], definition')
    BY DEF ExecsOK
  <2>1. CASE o = r
    BY <1>1, <1>2, <1>3, <2>1
  <2>2. CASE o # r
    <3>1. o \in 1..Len(runs) /\ ExecOK(exec[o], runs[o]) /\ TargetOK(exec[o], definition)
      BY <1>3, <2>2 DEF IInv, ExecsOK
    <3>2. TargetOK(exec[o], definition')
      BY <1>3, <1>4, <2>2, <3>1, Bounds DEF TargetOK
    <3> QED BY <1>2, <1>3, <2>2, <3>1, <3>2
  <2> QED BY <2>1, <2>2
<1>9. UniqueTriggers' /\ TriggersArePast' /\ Counted'
  <2>1. \A o \in 1..Len(runs) : runs'[o].trigger = runs[o].trigger
    BY <1>2
  <2> QED BY <1>2, <2>1, SameTriggers
<1>10. OneTarget'
  BY <1>2, <1>4 DEF IInv, OneTarget
<1>11. ClaimsInHand'
  BY <1>1, <1>2, <1>3 DEF IInv, ClaimsInHand
<1> QED BY <1>5, <1>6, <1>7, <1>8, <1>9, <1>10, <1>11 DEF IInv

\* What an execution in flight knows.
LEMMA InFlight ==
  ASSUME IInv, NEW r \in Rows, exec[r].stage # "none"
  PROVE  /\ r \in 1..Len(runs) /\ runs[r] \in RunRow /\ exec[r] \in Executions
         /\ RowOK(runs[r]) /\ ExecOK(exec[r], runs[r]) /\ TargetOK(exec[r], definition)
         /\ r # 0 /\ r \in 0..MaxRows /\ era \in Nat /\ era # 0
         /\ definition.task.fixed /\ runs[r].session # 0 => runs[r].session = definition.target
         /\ definition.target \in 0..MaxRows
         /\ runs \in Seq(RunRow) /\ runs = [runs EXCEPT ![r] = runs[r]]
         /\ faults = 0 /\ runs[r].status = "pending" /\ runs[r].claimed = era =>
              exec[r].stage # "ready"
<1>1. /\ r \in 1..Len(runs) /\ ExecOK(exec[r], runs[r]) /\ TargetOK(exec[r], definition)
      /\ exec[r] \in Executions
  BY DEF IInv, ExecsOK, Types
<1>2. runs \in Seq(RunRow) /\ runs[r] \in RunRow /\ RowOK(runs[r])
  BY <1>1 DEF IInv, Types, RowsOK
<1>3. era \in Nat /\ era # 0 /\ phase # "down"
  BY Bounds DEF IInv, Types, DownIsEmpty
<1>4. /\ definition.task.fixed /\ runs[r].session # 0 => runs[r].session = definition.target
      /\ definition.target \in 0..MaxRows
  BY <1>1 DEF IInv, OneTarget, Types
<1>5. faults = 0 /\ runs[r].status = "pending" /\ runs[r].claimed = era => exec[r].stage # "ready"
  BY <1>1, <1>3 DEF IInv, ClaimsInHand
<1>6. runs = [runs EXCEPT ![r] = runs[r]]
  BY <1>1, <1>2
<1> QED BY <1>1, <1>2, <1>3, <1>4, <1>5, <1>6, Bounds

LEMMA NoExecFacts ==
  /\ NoExec \in Executions /\ NoExec.stage = "none"
  /\ \A run : ExecOK(NoExec, run)
  /\ \A def : TargetOK(NoExec, def)
BY DEF NoExec, Executions, Stages, ExecOK, TargetOK

LEMMA ClaimStep ==
  ASSUME IInv, NEW r \in Rows, Claim(r)
  PROVE  IInv'
<1> DEFINE claimed == [runs[r] EXCEPT !.claimed = era]
<1>1. exec[r].stage = "ready"
  BY DEF Claim
<1>2. UNCHANGED <<definition, scheduler, accepted, process, queue, consumer, faults>>
  BY DEF Claim
<1>3. /\ r \in 1..Len(runs) /\ runs[r] \in RunRow /\ RowOK(runs[r]) /\ era \in Nat /\ era # 0
      /\ definition.task.fixed /\ runs[r].session # 0 => runs[r].session = definition.target
      /\ definition.target \in 0..MaxRows
      /\ runs = [runs EXCEPT ![r] = runs[r]]
      /\ faults = 0 /\ runs[r].status = "pending" => runs[r].claimed # era
  BY <1>1, InFlight
<1>4. CASE ~Claimable(runs[r]) /\ Done(r) /\ UNCHANGED runs
  <2>1. runs' = [runs EXCEPT ![r] = runs[r]] /\ exec' = [exec EXCEPT ![r] = NoExec]
    BY <1>3, <1>4 DEF Done
  <2> QED BY <1>1, <1>2, <1>3, <2>1, NoExecFacts, ExecStep
<1>5. CASE Claimable(runs[r])
  <2> SUFFICES ASSUME \/ /\ definition.state # "live"
                         /\ Row(r, MarkFailed(claimed, "execution")) /\ Done(r)
                      \/ /\ definition.state = "live" /\ Row(r, claimed)
                         /\ exec' = [exec EXCEPT ![r] =
                              [stage |-> "creating",
                               target |-> CASE ~definition.task.fixed -> "new"
                                            [] definition.task.fixed /\ definition.target = 0 -> "pending"
                                            [] OTHER -> "bound"]]
               PROVE  IInv'
    BY <1>5 DEF Claim
  <2>1. /\ claimed \in RunRow /\ RowOK(claimed) /\ claimed.trigger = runs[r].trigger
        /\ claimed.claimed = era /\ claimed.session = 0 /\ claimed.sent = 0
    BY <1>3, <1>5 DEF Claimable, RowOK, RunRow
  <2>2. CASE Row(r, MarkFailed(claimed, "execution")) /\ Done(r)
    <3> DEFINE row == MarkFailed(claimed, "execution")
    <3>1. /\ row \in RunRow /\ RowOK(row) /\ row.trigger = runs[r].trigger
          /\ row.status # "pending" /\ row.session = 0
      BY <1>3, <2>1, MarkFacts DEF RowOK
    <3>2. runs' = [runs EXCEPT ![r] = row] /\ exec' = [exec EXCEPT ![r] = NoExec]
      BY <2>2 DEF Row, Done
    <3> HIDE DEF row
    <3> QED BY <1>1, <1>2, <3>1, <3>2, NoExecFacts, ExecStep
  <2>3. ASSUME NEW target \in {"new", "pending", "bound"},
               target = (CASE ~definition.task.fixed -> "new"
                           [] definition.task.fixed /\ definition.target = 0 -> "pending"
                           [] OTHER -> "bound"),
               Row(r, claimed),
               exec' = [exec EXCEPT ![r] = [stage |-> "creating", target |-> target]]
        PROVE  IInv'
    <3> DEFINE e == [stage |-> "creating", target |-> target]
    <3>1. e \in Executions /\ e.stage = "creating" /\ e.target = target
      BY DEF Executions, Stages
    <3>2. ExecOK(e, claimed)
      BY <1>3, <2>1, <3>1 DEF ExecOK
    <3>3. TargetOK(e, definition')
      <4>1. (target = "new" <=> ~definition.task.fixed) /\ (target = "bound" => definition.target # 0)
        BY <2>3
      <4> QED BY <1>2, <3>1, <4>1 DEF TargetOK
    <3>4. runs' = [runs EXCEPT ![r] = claimed] /\ exec' = [exec EXCEPT ![r] = e]
      BY <2>3 DEF Row
    <3> HIDE DEF e, claimed
    <3> QED BY <1>1, <1>2, <2>1, <3>1, <3>2, <3>3, <3>4, ExecStep
  <2> QED BY <2>2, <2>3
<1> QED BY <1>4, <1>5 DEF Claim

\* attachSession, of the session the target asks for.
LEMMA AttachStep ==
  ASSUME IInv, NEW r \in Rows, exec[r].stage \in {"creating", "discarding"},
         NEW session \in 0..MaxRows, session # 0, Attach(r, session),
         \/ definition' = definition
         \/ definition.target = 0 /\ definition' = Bound(definition, r),
         definition.task.fixed => session = definition'.target,
         UNCHANGED <<scheduler, accepted, process, queue, consumer, faults>>
  PROVE  IInv'
<1>1. /\ exec[r].stage # "none" /\ exec[r] \in Executions
      /\ r \in 1..Len(runs) /\ runs[r] \in RunRow /\ RowOK(runs[r])
      /\ runs = [runs EXCEPT ![r] = runs[r]]
      /\ runs[r].claimed # 0 /\ runs[r].session = 0 /\ runs[r].sent = 0
  BY InFlight DEF ExecOK
<1>2. CASE Attachable(runs[r])
  <2> DEFINE row == [runs[r] EXCEPT !.session = session]
             e   == [exec[r] EXCEPT !.stage = "delivering"]
  <2>1. runs' = [runs EXCEPT ![r] = row] /\ exec' = [exec EXCEPT ![r] = e]
    BY <1>2 DEF Attach, Row, Stage
  <2>2. /\ row \in RunRow /\ row.trigger = runs[r].trigger /\ row.session = session
        /\ row.sent = 0 /\ row.claimed = runs[r].claimed
    BY <1>1 DEF RunRow
  <2>3. RowOK(row)
    BY <1>1, <2>2 DEF RowOK
  <2>4. e \in Executions /\ e.stage = "delivering"
    BY <1>1 DEF Executions, Stages
  <2>5. ExecOK(e, row) /\ TargetOK(e, definition')
    BY <1>1, <2>2, <2>4 DEF ExecOK, TargetOK
  <2> HIDE DEF row, e
  <2> QED BY <1>1, <2>1, <2>2, <2>3, <2>4, <2>5, ExecStep
<1>3. CASE ~Attachable(runs[r])
  <2>1. runs' = [runs EXCEPT ![r] = runs[r]] /\ exec' = [exec EXCEPT ![r] = NoExec]
    BY <1>1, <1>3 DEF Attach, Done
  <2>2. runs[r].status # "pending"
    BY <1>1, <1>3 DEF Attachable
  <2> QED BY <1>1, <2>1, <2>2, NoExecFacts, ExecStep
<1> QED BY <1>2, <1>3

LEMMA SessionReadyStep ==
  ASSUME IInv, NEW r \in Rows, SessionReady(r)
  PROVE  IInv'
<1>1. exec[r].stage = "creating"
  BY DEF SessionReady
<1>2. UNCHANGED <<scheduler, accepted, process, queue, consumer, faults>>
  BY DEF SessionReady
<1>3. /\ r \in 1..Len(runs) /\ runs[r] \in RunRow /\ exec[r] \in Executions /\ RowOK(runs[r])
      /\ runs = [runs EXCEPT ![r] = runs[r]]
      /\ r # 0 /\ r \in 0..MaxRows /\ definition.target \in 0..MaxRows
      /\ ExecOK(exec[r], runs[r]) /\ TargetOK(exec[r], definition)
      /\ definition.task.fixed /\ runs[r].session # 0 => runs[r].session = definition.target
  BY <1>1, InFlight
<1>4. /\ runs[r].session = 0 /\ runs[r].sent = 0 /\ runs[r].claimed # 0
      /\ exec[r].target = "new" <=> ~definition.task.fixed
      /\ exec[r].target = "bound" => definition.target # 0
      /\ exec[r].target \in {"new", "pending", "bound"}
  BY <1>1, <1>3 DEF ExecOK, TargetOK, Executions
<1> DEFINE staged(stage) == [exec[r] EXCEPT !.stage = stage]
<1>5. \A stage \in {"discarding", "failing"} :
        staged(stage) \in Executions /\ staged(stage).stage = stage
  BY <1>3 DEF Executions, Stages
<1>6. CASE /\ exec[r].target # "pending"
           /\ Attach(r, IF exec[r].target = "bound" THEN definition.target ELSE r)
           /\ UNCHANGED definition
  <2> DEFINE session == IF exec[r].target = "bound" THEN definition.target ELSE r
  <2>1. /\ session \in 0..MaxRows /\ session # 0
        /\ definition.task.fixed => session = definition'.target
    BY <1>3, <1>4, <1>6
  <2>2. Attach(r, session) /\ definition' = definition
    BY <1>6
  <2> HIDE DEF session
  <2> QED BY <1>1, <1>2, <2>1, <2>2, AttachStep
<1>7. CASE /\ exec[r].target = "pending" /\ definition.state = "live"
           /\ definition' = [definition EXCEPT !.target = Bind(r)]
           /\ IF Bind(r) = r THEN Attach(r, r) ELSE Stage(r, "discarding") /\ UNCHANGED runs
  <2>1. /\ definition'.target = Bind(r)
        /\ \/ definition' = definition /\ definition.target = Bind(r)
           \/ definition.target = 0 /\ definition' = Bound(definition, r) /\ Bind(r) = r
    BY <1>7 DEF Bind, Bound, IInv, Types
  <2>2. CASE Bind(r) = r
    BY <1>1, <1>2, <1>3, <1>7, <2>1, <2>2, AttachStep
  <2>3. CASE Bind(r) # r
    <3> DEFINE e == staged("discarding")
    <3>1. runs' = [runs EXCEPT ![r] = runs[r]] /\ exec' = [exec EXCEPT ![r] = e]
      BY <1>3, <1>7, <2>3 DEF Stage
    <3>2. definition' = definition /\ definition.target # 0
      BY <1>3, <2>1, <2>3 DEF Bind
    <3>3. e \in Executions /\ e.stage = "discarding"
      BY <1>5
    <3>4. ExecOK(e, runs[r]) /\ TargetOK(e, definition')
      BY <1>4, <1>7, <3>2, <3>3 DEF ExecOK, TargetOK
    <3> HIDE DEF e
    <3> QED BY <1>1, <1>2, <1>3, <1>4, <3>1, <3>2, <3>3, <3>4, ExecStep
  <2> QED BY <2>2, <2>3
<1>8. CASE /\ exec[r].target = "pending" /\ definition.state # "live"
           /\ Stage(r, "failing") /\ UNCHANGED <<runs, definition>>
  <2> DEFINE e == staged("failing")
  <2>1. runs' = [runs EXCEPT ![r] = runs[r]] /\ exec' = [exec EXCEPT ![r] = e]
    BY <1>3, <1>8 DEF Stage
  <2>2. e \in Executions /\ e.stage = "failing"
    BY <1>5
  <2>3. ExecOK(e, runs[r]) /\ TargetOK(e, definition')
    BY <1>4, <2>2 DEF ExecOK, TargetOK
  <2> HIDE DEF e
  <2> QED BY <1>1, <1>2, <1>3, <1>4, <1>8, <2>1, <2>2, <2>3, ExecStep
<1> QED BY <1>6, <1>7, <1>8 DEF SessionReady

LEMMA DiscardedStep ==
  ASSUME IInv, NEW r \in Rows, Discarded(r)
  PROVE  IInv'
<1>1. exec[r].stage = "discarding" /\ Attach(r, definition.target) /\ definition' = definition
      /\ UNCHANGED <<scheduler, accepted, process, queue, consumer, faults>>
  BY DEF Discarded
<1>2. definition.target \in 0..MaxRows /\ definition.target # 0
  BY <1>1, InFlight DEF TargetOK
<1> QED BY <1>1, <1>2, AttachStep

LEMMA SessionFailsStep ==
  ASSUME IInv, NEW r \in Rows, SessionFails(r)
  PROVE  IInv'
<1> DEFINE row == MarkFailed(runs[r], "execution")
<1>1. /\ exec[r].stage \in {"creating", "failing"}
      /\ runs' = [runs EXCEPT ![r] = row] /\ exec' = [exec EXCEPT ![r] = NoExec]
      /\ UNCHANGED <<definition, scheduler, accepted, process, queue, consumer, faults>>
  BY DEF SessionFails, Row, Done
<1>2. /\ exec[r].stage # "none" /\ runs[r] \in RunRow /\ RowOK(runs[r])
      /\ runs[r].claimed # 0 /\ runs[r].session = 0 /\ era \in Nat
  BY <1>1, InFlight DEF ExecOK
<1>3. /\ row \in RunRow /\ RowOK(row) /\ row.trigger = runs[r].trigger
      /\ row.status # "pending" /\ row.session = 0
  BY <1>2, MarkFacts DEF RowOK
<1> HIDE DEF row
<1> QED BY <1>1, <1>2, <1>3, NoExecFacts, ExecStep

LEMMA SteerStep ==
  ASSUME IInv, NEW r \in Rows, Steer(r)
  PROVE  IInv'
<1>1. /\ exec[r].stage = "delivering"
      /\ UNCHANGED <<definition, scheduler, accepted, process, queue, consumer, faults>>
  BY DEF Steer
<1>2. PICK taken, reported \in BOOLEAN :
        /\ Row(r, [runs[r] EXCEPT !.sent = IF taken THEN @ + 1 ELSE @])
        /\ Stage(r, IF reported THEN "delivered" ELSE "rejected")
  BY DEF Steer
<1> DEFINE row == [runs[r] EXCEPT !.sent = IF taken THEN @ + 1 ELSE @]
           e   == [exec[r] EXCEPT !.stage = IF reported THEN "delivered" ELSE "rejected"]
<1>3. /\ runs[r] \in RunRow /\ exec[r] \in Executions /\ RowOK(runs[r])
      /\ runs[r].claimed # 0 /\ runs[r].session # 0 /\ runs[r].sent = 0
      /\ definition.task.fixed => runs[r].session = definition.target
  BY <1>1, InFlight DEF ExecOK
<1>4. /\ row \in RunRow /\ row.sent \in {0, 1} /\ row.trigger = runs[r].trigger
      /\ row.claimed = runs[r].claimed /\ row.session = runs[r].session
  BY <1>3 DEF RunRow
<1>5. e \in Executions /\ e.stage \in {"delivered", "rejected"}
  BY <1>3 DEF Executions, Stages
<1>6. RowOK(row) /\ ExecOK(e, row) /\ TargetOK(e, definition')
  BY <1>3, <1>4, <1>5 DEF RowOK, ExecOK, TargetOK
<1>7. runs' = [runs EXCEPT ![r] = row] /\ exec' = [exec EXCEPT ![r] = e]
  BY <1>2 DEF Row, Stage
<1> HIDE DEF row, e
<1> QED BY <1>1, <1>3, <1>4, <1>5, <1>6, <1>7, ExecStep

LEMMA MarkStep ==
  ASSUME IInv, NEW r \in Rows, Mark(r)
  PROVE  IInv'
<1>1. /\ exec[r].stage \in {"delivered", "rejected"}
      /\ exec' = [exec EXCEPT ![r] = NoExec]
      /\ UNCHANGED <<definition, scheduler, accepted, process, queue, consumer, faults>>
  BY DEF Mark, Done
<1>2. /\ exec[r].stage # "none" /\ runs[r] \in RunRow /\ RowOK(runs[r])
      /\ runs[r].claimed # 0 /\ runs[r].session # 0 /\ era \in Nat
      /\ definition.task.fixed => runs[r].session = definition.target
  BY <1>1, InFlight DEF ExecOK
<1>3. PICK row \in {MarkFailed(runs[r], "execution"), MarkDelivered(runs[r])} :
        runs' = [runs EXCEPT ![r] = row]
  BY DEF Mark, Row
<1>4. /\ row \in RunRow /\ RowOK(row) /\ row.trigger = runs[r].trigger
      /\ row.status # "pending" /\ row.session = runs[r].session
  BY <1>2, MarkFacts DEF RowOK
<1> QED BY <1>1, <1>2, <1>3, <1>4, NoExecFacts, ExecStep

-----------------------------------------------------------------------------
(* Steps that leave the runs and their executions alone.                   *)

LEMMA RunsKept ==
  ASSUME IInv, UNCHANGED <<definition, runs, accepted, exec, job, era>>,
         phase # "down", phase' # "down", faults' = 0 => faults = 0
  PROVE  /\ RowsOK' /\ ExecsOK' /\ UniqueTriggers' /\ TriggersArePast' /\ Counted'
         /\ OneTarget' /\ ClaimsInHand'
<1>1. RowsOK' /\ ExecsOK'
  BY DEF IInv, RowsOK, RowOK, ExecsOK
<1>2. UniqueTriggers' /\ TriggersArePast' /\ Counted'
  BY DEF IInv, UniqueTriggers, TriggersArePast, Counted, ScheduledRows
<1>3. OneTarget' /\ ClaimsInHand'
  BY DEF IInv, OneTarget, ClaimsInHand
<1> QED BY <1>1, <1>2, <1>3

LEMMA ConsumerFacts ==
  /\ Idle.state = "idle"
  /\ \A state \in {"idle", "loop", "await", "ending"} :
       At(state) \in [state : {"idle", "loop", "await", "ending"}, run : 0..MaxRows]
  /\ Idle \in [state : {"idle", "loop", "await", "ending"}, run : 0..MaxRows]
BY Bounds DEF Idle, At

\* A loop goes on: the process is not down, and the recovery's loop is one of
\* a process that recovers.
LEMMA LoopStep ==
  ASSUME IInv, NEW c \in {"pump", "recovery"}, consumer[c] # Idle,
         NEW x \in [state : {"idle", "loop", "await", "ending"}, run : 0..MaxRows],
         consumer' = [consumer EXCEPT ![c] = x],
         \/ phase' = phase
         \/ phase = "recovering" /\ phase' = "up" /\ c = "recovery" /\ x = Idle,
         UNCHANGED <<definition, job, mem, timer, runs, accepted, era, clean, queue, exec, faults>>
  PROVE  IInv'
<1>1. phase # "down" /\ phase' # "down"
  BY DEF IInv, DownIsEmpty
<1>2. consumer' \in Consumers /\ consumer'[c] = x
      /\ \A o \in {"pump", "recovery"} : o # c => consumer'[o] = consumer[o]
  BY DEF IInv, Types, Consumers
<1>3. Types'
  BY <1>2 DEF IInv, Types, Phases
<1>4. DownIsEmpty' /\ MemoryIsRow'
  BY <1>1 DEF IInv, DownIsEmpty, MemoryIsRow
<1>5. QueueOK'
  BY <1>2 DEF IInv, QueueOK
<1> QED BY <1>1, <1>3, <1>4, <1>5, RunsKept DEF IInv

LEMMA AwaitedStep ==
  ASSUME IInv, NEW c \in {"pump", "recovery"}, Awaited(c)
  PROVE  IInv'
<1>1. consumer[c] # Idle /\ consumer' = [consumer EXCEPT ![c] = At("loop")] /\ phase' = phase
  BY ConsumerFacts DEF Awaited, process
<1>2. UNCHANGED <<definition, job, mem, timer, runs, accepted, era, clean, queue, exec, faults>>
  BY DEF Awaited, scheduler, process
<1> QED BY <1>1, <1>2, ConsumerFacts, LoopStep

LEMMA PumpEndsStep ==
  ASSUME IInv, PumpEnds
  PROVE  IInv'
<1>1. consumer["pump"] # Idle /\ consumer' = [consumer EXCEPT !["pump"] = AfterPump] /\ phase' = phase
  BY ConsumerFacts DEF PumpEnds, process
<1>2. UNCHANGED <<definition, job, mem, timer, runs, accepted, era, clean, queue, exec, faults>>
  BY DEF PumpEnds, scheduler, process
<1>3. AfterPump \in [state : {"idle", "loop", "await", "ending"}, run : 0..MaxRows]
  BY ConsumerFacts DEF AfterPump
<1> QED BY <1>1, <1>2, <1>3, LoopStep

LEMMA RecoveryEndsStep ==
  ASSUME IInv, RecoveryEnds
  PROVE  IInv'
<1>1. /\ consumer["recovery"] # Idle /\ consumer' = [consumer EXCEPT !["recovery"] = Idle]
      /\ phase' = phase \/ (phase = "recovering" /\ phase' = "up")
  BY ConsumerFacts DEF RecoveryEnds
<1>2. UNCHANGED <<definition, job, mem, timer, runs, accepted, era, clean, queue, exec, faults>>
  BY DEF RecoveryEnds, scheduler
<1> QED BY <1>1, <1>2, ConsumerFacts, LoopStep

\* drainOnce: a run taken off the queue is one of the rows, and its execution
\* starts unless it is in flight.
LEMMA StartedFacts ==
  ASSUME IInv, NEW r \in Rows
  PROVE  /\ Started(r) \in [Rows -> Executions]
         /\ \A o \in Rows : o # r => Started(r)[o] = exec[o]
         /\ Started(r)[r] = exec[r] \/ (exec[r].stage = "none" /\ Started(r)[r].stage = "ready")
<1>1. exec \in [Rows -> Executions]
  BY DEF IInv, Types
<1>2. [NoExec EXCEPT !.stage = "ready"] \in Executions
      /\ [NoExec EXCEPT !.stage = "ready"].stage = "ready"
  BY DEF NoExec, Executions, Stages
<1> QED BY <1>1, <1>2 DEF Started

\* A run is picked up: nothing of what is known about it changes.
LEMMA PickUp ==
  ASSUME IInv, NEW r \in Rows, r \in 1..Len(runs), exec' = Started(r), phase # "down",
         UNCHANGED <<definition, runs, accepted, job, era, phase, faults>>
  PROVE  /\ exec' \in [Rows -> Executions]
         /\ RowsOK' /\ ExecsOK' /\ UniqueTriggers' /\ TriggersArePast' /\ Counted'
         /\ OneTarget' /\ ClaimsInHand'
<1>1. /\ exec' \in [Rows -> Executions]
      /\ \A o \in Rows : o # r => exec'[o] = exec[o]
      /\ exec'[r] = exec[r] \/ (exec[r].stage = "none" /\ exec'[r].stage = "ready")
  BY StartedFacts
<1>2. RowsOK' /\ UniqueTriggers' /\ TriggersArePast' /\ Counted' /\ OneTarget'
  BY DEF IInv, RowsOK, RowOK, UniqueTriggers, TriggersArePast, Counted, ScheduledRows, OneTarget
<1>3. ExecsOK'
  <2> SUFFICES ASSUME NEW o \in Rows, exec'[o].stage # "none"
               PROVE  o \in 1..Len(runs') /\ ExecOK(exec'[o], runs'[o])
                      /\ TargetOK(exec'[o], definition')
    BY DEF ExecsOK
  <2>1. CASE exec'[o] = exec[o]
    BY <2>1 DEF IInv, ExecsOK
  <2>2. CASE o = r /\ exec'[o].stage = "ready"
    BY <2>2 DEF ExecOK, TargetOK
  <2> QED BY <1>1, <2>1, <2>2
<1>4. ClaimsInHand'
  <2> SUFFICES ASSUME NEW o \in 1..Len(runs), faults = 0, runs[o].status = "pending",
                      runs[o].claimed = era, era # 0
               PROVE  exec'[o].stage \notin {"none", "ready"}
    BY DEF ClaimsInHand
  <2>1. exec[o].stage \notin {"none", "ready"}
    BY DEF IInv, ClaimsInHand
  <2>2. o \in Rows
    BY Bounds DEF IInv, Types, Rows
  <2> QED BY <1>1, <2>1, <2>2
<1> QED BY <1>1, <1>2, <1>3, <1>4

LEMMA DrainStep ==
  ASSUME IInv, NEW c \in {"pump", "recovery"}, Drain(c)
  PROVE  IInv'
<1>1. /\ consumer[c] # Idle
      /\ UNCHANGED <<definition, job, mem, timer, runs, accepted, phase, era, clean, faults>>
  BY ConsumerFacts DEF Drain, scheduler, process
<1>2. CASE UNCHANGED <<queue, exec>> /\ consumer' = [consumer EXCEPT ![c] = At("ending")]
  BY <1>1, <1>2, ConsumerFacts, LoopStep
<1>3. ASSUME queue # <<>>, queue' = Tail(queue)
      PROVE  /\ queue' \in Seq(Rows) /\ Head(queue) \in Rows /\ Head(queue) \in 1..Len(runs)
             /\ \A i \in 1..Len(queue') : queue'[i] \in 1..Len(runs)
             /\ \A i, j \in 1..Len(queue') : queue'[i] = queue'[j] => i = j
  <2>1. queue \in Seq(Rows) /\ queue' \in Seq(Rows) /\ Len(queue') = Len(queue) - 1
        /\ Head(queue) = queue[1] /\ 1 \in 1..Len(queue)
        /\ \A i \in 1..Len(queue') : queue'[i] = queue[i + 1] /\ i + 1 \in 1..Len(queue)
    BY <1>3 DEF IInv, Types
  <2> QED BY <2>1, SMTT(30) DEF IInv, QueueOK
<1>4. phase # "down"
  BY <1>1 DEF IInv, DownIsEmpty
<1>5. CASE queue # <<>> /\ queue' = Tail(queue) /\ UNCHANGED <<exec, consumer>>
  <2>1. Types'
    BY <1>1, <1>3, <1>5 DEF IInv, Types
  <2>2. DownIsEmpty' /\ MemoryIsRow' /\ QueueOK'
    BY <1>1, <1>3, <1>5 DEF IInv, DownIsEmpty, MemoryIsRow, QueueOK
  <2> QED BY <1>1, <1>4, <1>5, <2>1, <2>2, RunsKept DEF IInv
<1>6. CASE /\ queue # <<>> /\ queue' = Tail(queue) /\ exec' = Started(Head(queue))
           /\ consumer' = [consumer EXCEPT ![c] = [state |-> "await", run |-> Head(queue)]]
  <2>1. Head(queue) \in Rows /\ Head(queue) \in 1..Len(runs) /\ Head(queue) \in 0..MaxRows
    BY <1>3, <1>6, Bounds
  <2>2. /\ consumer' \in Consumers
        /\ \A o \in {"pump", "recovery"} : o # c => consumer'[o] = consumer[o]
    BY <1>6, <2>1 DEF IInv, Types, Consumers
  <2>3. /\ exec' \in [Rows -> Executions]
        /\ RowsOK' /\ ExecsOK' /\ UniqueTriggers' /\ TriggersArePast' /\ Counted'
        /\ OneTarget' /\ ClaimsInHand'
    BY <1>1, <1>4, <1>6, <2>1, PickUp
  <2>4. Types'
    BY <1>1, <1>3, <1>6, <2>2, <2>3 DEF IInv, Types
  <2>5. DownIsEmpty' /\ MemoryIsRow' /\ QueueOK'
    BY <1>1, <1>3, <1>4, <1>6, <2>2 DEF IInv, DownIsEmpty, MemoryIsRow, QueueOK
  <2> QED BY <2>3, <2>4, <2>5 DEF IInv
<1> QED BY <1>2, <1>5, <1>6 DEF Drain

-----------------------------------------------------------------------------
(* New runs.                                                               *)

\* A trigger that has no row gets one: unclaimed, undelivered, of no session.
LEMMA InsertFacts ==
  ASSUME IInv, NEW trigger \in Triggers, RowsOf(trigger) = {}, Len(runs) < MaxRows,
         runs' = Append(runs, NewRun(trigger)),
         UNCHANGED <<definition, era, phase, clean, faults>>
  PROVE  /\ runs' \in Seq(RunRow) /\ Len(runs') = Len(runs) + 1 /\ Len(runs') <= MaxRows
         /\ Len(runs') \in Rows
         /\ \A o \in 1..Len(runs) : runs'[o] = runs[o]
         /\ runs'[Len(runs')] = NewRun(trigger) /\ runs'[Len(runs')].trigger = trigger
         /\ \A o \in 1..Len(runs') : runs'[o].trigger = trigger => o = Len(runs')
         /\ RowsOK' /\ UniqueTriggers' /\ OneTarget'
         /\ exec' = exec => ExecsOK' /\ ClaimsInHand'
<1>1. NewRun(trigger) \in RunRow
  BY Bounds DEF NewRun, RunRow
<1>2. /\ NewRun(trigger).trigger = trigger /\ NewRun(trigger).claimed = 0
      /\ NewRun(trigger).session = 0 /\ NewRun(trigger).sent = 0
  BY DEF NewRun
<1>3. runs \in Seq(RunRow) /\ Len(runs) \in Nat /\ era \in Nat
  BY Bounds DEF IInv, Types
<1>4. /\ runs' \in Seq(RunRow) /\ Len(runs') = Len(runs) + 1
      /\ \A o \in 1..Len(runs) : runs'[o] = runs[o]
      /\ runs'[Len(runs')] = NewRun(trigger)
  BY <1>1, <1>3
<1>5. Len(runs') <= MaxRows /\ Len(runs') \in Rows
  BY <1>3, <1>4, Bounds DEF Rows
<1>6. \A o \in 1..Len(runs') : o \in 1..Len(runs) \/ o = Len(runs')
  BY <1>3, <1>4
<1>7. \A o \in 1..Len(runs) : runs[o].trigger # trigger
  BY <1>3 DEF RowsOf
<1>8. \A o \in 1..Len(runs') : runs'[o].trigger = trigger => o = Len(runs')
  BY <1>4, <1>6, <1>7
<1>9. RowsOK'
  BY <1>2, <1>3, <1>4, <1>6 DEF IInv, RowsOK, RowOK
<1>10. UniqueTriggers'
  BY <1>2, <1>4, <1>6, <1>7 DEF IInv, UniqueTriggers
<1>11. OneTarget'
  BY <1>2, <1>4, <1>6 DEF IInv, OneTarget
<1>12. ASSUME exec' = exec
       PROVE  ExecsOK' /\ ClaimsInHand'
  <2>1. ExecsOK'
    <3> SUFFICES ASSUME NEW o \in Rows, exec[o].stage # "none"
                 PROVE  o \in 1..Len(runs') /\ ExecOK(exec[o], runs'[o])
                        /\ TargetOK(exec[o], definition)
      BY <1>12 DEF ExecsOK
    <3>1. o \in 1..Len(runs) /\ ExecOK(exec[o], runs[o]) /\ TargetOK(exec[o], definition)
      BY DEF IInv, ExecsOK
    <3> QED BY <1>3, <1>4, <3>1
  <2>2. ClaimsInHand'
    BY <1>2, <1>4, <1>6, <1>12 DEF IInv, ClaimsInHand
  <2> QED BY <2>1, <2>2
<1> QED BY <1>2, <1>4, <1>5, <1>8, <1>9, <1>10, <1>11, <1>12

\* The set of scheduled rows is finite, and what a new row does to it.
LEMMA ScheduledFinite ==
  ASSUME IInv
  PROVE  IsFiniteSet(ScheduledRows)
<1>1. Len(runs) \in Nat
  BY DEF IInv, Types
<1>2. IsFiniteSet(1..Len(runs))
  BY <1>1, FS_Interval
<1> QED BY <1>2, FS_Subset DEF ScheduledRows

LEMMA InsertCounts ==
  ASSUME IInv, NEW trigger \in Triggers, runs' \in Seq(RunRow), Len(runs') = Len(runs) + 1,
         \A o \in 1..Len(runs) : runs'[o] = runs[o],
         runs'[Len(runs')].trigger = trigger,
         accepted' = IF trigger.source = "scheduled" THEN accepted + 1 ELSE accepted
  PROVE  Counted'
<1>1. runs \in Seq(RunRow) /\ Len(runs) \in Nat
  BY DEF IInv, Types
<1>2. CASE trigger.source = "scheduled"
  <2>1. ScheduledRows' = ScheduledRows \cup {Len(runs')} /\ Len(runs') \notin ScheduledRows
    BY <1>1, <1>2 DEF ScheduledRows
  <2>2. Cardinality(ScheduledRows \cup {Len(runs')}) = Cardinality(ScheduledRows) + 1
    BY <2>1, ScheduledFinite, FS_AddElement
  <2> QED BY <1>2, <2>1, <2>2 DEF IInv, Counted
<1>3. CASE trigger.source # "scheduled"
  <2>1. ScheduledRows' = ScheduledRows
    BY <1>1, <1>3 DEF ScheduledRows
  <2> QED BY <1>3, <2>1 DEF IInv, Counted
<1> QED BY <1>2, <1>3

\* enqueue and schedulePump, of a run that is on record.
LEMMA EnqueueFacts ==
  ASSUME IInv, NEW r \in Rows, Enqueue(r), r \in 1..Len(runs'), Len(runs') >= Len(runs),
         Len(runs') \in Nat, phase # "down"
  PROVE  /\ queue' \in Seq(Rows) /\ consumer' \in Consumers
         /\ \A i \in 1..Len(queue') : queue'[i] \in 1..Len(runs')
         /\ \A i, j \in 1..Len(queue') : queue'[i] = queue'[j] => i = j
         /\ consumer'["recovery"] = consumer["recovery"]
<1>1. queue \in Seq(Rows) /\ Len(runs) \in Nat /\ consumer \in Consumers
  BY DEF IInv, Types
<1>2. /\ consumer' \in Consumers /\ consumer'["recovery"] = consumer["recovery"]
  BY <1>1, ConsumerFacts DEF Enqueue, PumpScheduled, Consumers
<1>3. CASE queue' = queue
  BY <1>1, <1>2, <1>3 DEF IInv, QueueOK
<1>4. CASE queue' = Append(queue, r) /\ ~Contains(queue, r)
  <2>1. /\ queue' \in Seq(Rows) /\ Len(queue') = Len(queue) + 1
        /\ \A i \in 1..Len(queue) : queue'[i] = queue[i]
        /\ queue'[Len(queue')] = r
        /\ \A i \in 1..Len(queue') : i \in 1..Len(queue) \/ i = Len(queue')
    BY <1>1, <1>4
  <2>2. \A i \in 1..Len(queue) : queue[i] # r
    BY <1>1, <1>4 DEF Contains
  <2>3. \A i \in 1..Len(queue') : queue'[i] \in 1..Len(runs')
    BY <1>1, <2>1 DEF IInv, QueueOK
  <2>4. \A i, j \in 1..Len(queue') : queue'[i] = queue'[j] => i = j
    BY <2>1, <2>2 DEF IInv, QueueOK
  <2> QED BY <1>2, <2>1, <2>3, <2>4
<1> QED BY <1>3, <1>4 DEF Enqueue, Queued

-----------------------------------------------------------------------------
(* The Scheduler and the operations of the product.                        *)

\* A timer that may fire belongs to the job as it is on record, of a live or
\* deleted definition.
LEMMA TickingFacts ==
  ASSUME IInv, Ticking
  PROVE  /\ phase # "down" /\ phase # "closing" /\ mem = job /\ mem \in Job
         /\ mem.state = "active" /\ definition.state # "none"
         /\ Advanced(mem) \in Job /\ Advanced(mem).generation = job.generation
         /\ Advanced(mem).count = job.count + 1
         /\ Advanced(mem).state \in {"active", "completed"}
<1>1. /\ phase # "down" /\ phase # "closing" /\ mem = job /\ mem \in Job
      /\ mem.state = "active" /\ definition.state # "none"
  BY DEF IInv, Types, MemoryIsRow, Ticking
<1>2. /\ Advanced(mem) \in Job /\ Advanced(mem).generation = mem.generation
      /\ Advanced(mem).count = mem.count + 1
      /\ Advanced(mem).state \in {"active", "completed"}
  <2>1. PICK state \in {"active", "completed"} :
          Advanced(mem) = [mem EXCEPT !.count = mem.count + 1, !.state = state]
    <3>1. CASE Reached(mem.count + 1)
      BY <3>1 DEF Advanced
    <3>2. CASE ~Reached(mem.count + 1)
      BY <1>1, <3>2 DEF Advanced
    <3> QED BY <3>1, <3>2
  <2>2. mem \in [generation : 0..MaxGenerations, count : Nat, state : JobStates]
    BY <1>1 DEF Job
  <2>3. mem.count + 1 \in Nat /\ state \in JobStates
    BY <2>2 DEF JobStates
  <2> QED BY <2>1, <2>2, <2>3 DEF Job
<1> QED BY <1>1, <1>2

\* What is known of triggers stays true of a job with a higher count.
LEMMA LaterCount ==
  ASSUME IInv, NEW j \in Job, j.generation = job.generation, j.count >= job.count
  PROVE  \A r \in 1..Len(runs) : runs[r].trigger.source = "scheduled" =>
           \/ runs[r].trigger.generation < j.generation
           \/ runs[r].trigger.generation = j.generation /\ runs[r].trigger.key <= j.count
<1> SUFFICES ASSUME NEW r \in 1..Len(runs), runs[r].trigger.source = "scheduled"
             PROVE  \/ runs[r].trigger.generation < j.generation
                    \/ runs[r].trigger.generation = j.generation /\ runs[r].trigger.key <= j.count
  OBVIOUS
<1>1. runs[r].trigger \in Triggers
  <2>1. runs[r] \in RunRow
    BY DEF IInv, Types
  <2> QED BY <2>1 DEF RunRow
<1>2. runs[r].trigger.key \in Nat
  BY <1>1 DEF Triggers
<1>3. job.count \in Nat /\ j.count \in Nat
  BY DEF IInv, Types, Job
<1> QED BY <1>2, <1>3 DEF IInv, TriggersArePast

LEMMA FireStep ==
  ASSUME IInv, Fire
  PROVE  IInv'
<1> DEFINE j == Advanced(mem)
           t == Trigger("scheduled", mem.generation, j.count)
<1>1. /\ phase # "down" /\ phase # "closing" /\ mem = job /\ definition.state # "none"
      /\ j \in Job /\ j.generation = job.generation /\ j.count = job.count + 1
      /\ j.state \in {"active", "completed"} /\ job.count \in Nat
  BY TickingFacts DEF Fire, Job
<1>2. /\ Len(runs) < MaxRows /\ job' = j /\ mem' = j /\ timer' = (j.state # "completed")
      /\ UNCHANGED <<definition, phase, era, clean, exec>>
  BY DEF Fire, process
<1>3. \A r \in 1..Len(runs) : runs[r].trigger.source = "scheduled" =>
        \/ runs[r].trigger.generation < j.generation
        \/ runs[r].trigger.generation = j.generation /\ runs[r].trigger.key <= job.count
  <2>1. job \in Job
    BY DEF IInv, Types
  <2> QED BY <1>1, <2>1, LaterCount
<1>4. \A r \in 1..Len(runs) : runs[r].trigger.source = "scheduled" =>
        \/ runs[r].trigger.generation < j.generation
        \/ runs[r].trigger.generation = j.generation /\ runs[r].trigger.key <= j.count
  <2> HIDE DEF j
  <2> QED BY <1>1, LaterCount
<1>5. CASE AcceptScheduledTrigger(t) /\ UNCHANGED faults
  <2>1. /\ t \in Triggers /\ t.source = "scheduled"
        /\ t.generation = j.generation /\ t.key = job.count + 1 /\ j.generation \in Nat
    BY <1>1, Bounds DEF Trigger, Triggers, Job
  <2>2. RowsOf(t) = {}
    <3>1. \A r \in 1..Len(runs) : runs[r].trigger # t
      BY <1>1, <1>3, <2>1
    <3>2. DOMAIN runs = 1..Len(runs)
      BY DEF IInv, Types
    <3> QED BY <3>1, <3>2 DEF RowsOf
  <2>3. runs' = Append(runs, NewRun(t)) /\ accepted' = accepted + 1
    BY <1>5, <2>2 DEF AcceptScheduledTrigger, Insert
  <2> HIDE DEF t, j
  <2>4. /\ runs' \in Seq(RunRow) /\ Len(runs') = Len(runs) + 1 /\ Len(runs') <= MaxRows
        /\ Len(runs') \in Rows
        /\ \A o \in 1..Len(runs) : runs'[o] = runs[o]
        /\ runs'[Len(runs')].trigger = t
        /\ \A o \in 1..Len(runs') : runs'[o].trigger = t => o = Len(runs')
        /\ RowsOK' /\ UniqueTriggers' /\ OneTarget' /\ ExecsOK' /\ ClaimsInHand'
    BY <1>2, <1>5, <2>1, <2>2, <2>3, InsertFacts
  <2>5. Len(runs) \in Nat /\ accepted \in Nat
    BY DEF IInv, Types
  <2>6. Enqueue(Len(runs'))
    <3>1. (CHOOSE r \in DOMAIN runs' : runs'[r].trigger = t) = Len(runs')
      <4>1. DOMAIN runs' = 1..Len(runs') /\ Len(runs') \in 1..Len(runs')
        BY <2>4, <2>5
      <4> QED BY <2>4, <4>1
    <3>2. Enqueue(CHOOSE r \in DOMAIN runs' : runs'[r].trigger = t)
      BY <1>5 DEF AcceptScheduledTrigger
    <3> QED BY <3>1, <3>2
  <2>7. /\ queue' \in Seq(Rows) /\ consumer' \in Consumers
        /\ \A i \in 1..Len(queue') : queue'[i] \in 1..Len(runs')
        /\ \A i, k \in 1..Len(queue') : queue'[i] = queue'[k] => i = k
        /\ consumer'["recovery"] = consumer["recovery"]
    <3>1. Len(runs') \in 1..Len(runs') /\ Len(runs') >= Len(runs) /\ Len(runs') \in Nat
      BY <2>4, <2>5
    <3> QED BY <1>1, <2>4, <2>6, <3>1, EnqueueFacts
  <2>8. Types'
    BY <1>1, <1>2, <1>5, <2>3, <2>4, <2>5, <2>7 DEF IInv, Types
  <2>9. DownIsEmpty' /\ MemoryIsRow' /\ QueueOK'
    BY <1>1, <1>2, <2>7 DEF IInv, DownIsEmpty, MemoryIsRow, QueueOK
  <2>10. TriggersArePast'
    <3> SUFFICES ASSUME NEW r \in 1..Len(runs'), runs'[r].trigger.source = "scheduled"
                 PROVE  \/ runs'[r].trigger.generation < j.generation
                        \/ /\ runs'[r].trigger.generation = j.generation
                           /\ runs'[r].trigger.key <= j.count
      BY <1>2 DEF TriggersArePast
    <3>1. CASE r \in 1..Len(runs)
      BY <1>4, <2>4, <3>1
    <3>2. CASE r = Len(runs')
      BY <1>1, <2>1, <2>4, <3>2
    <3> QED BY <2>4, <2>5, <3>1, <3>2
  <2>11. Counted'
    BY <2>1, <2>3, <2>4, InsertCounts
  <2> QED BY <2>4, <2>8, <2>9, <2>10, <2>11 DEF IInv
<1>6. CASE /\ faults < MaxFaults /\ faults' = faults + 1
           /\ UNCHANGED <<runs, accepted, queue, consumer>>
  <2>1. faults \in Nat /\ faults' \in 0..MaxFaults /\ faults' # 0
    BY <1>6, Bounds DEF IInv, Types
  <2> HIDE DEF j
  <2>2. Types'
    BY <1>1, <1>2, <1>6, <2>1 DEF IInv, Types
  <2>3. DownIsEmpty' /\ MemoryIsRow' /\ QueueOK'
    BY <1>1, <1>2, <1>6 DEF IInv, DownIsEmpty, MemoryIsRow, QueueOK
  <2>4. RowsOK' /\ ExecsOK' /\ UniqueTriggers' /\ Counted' /\ OneTarget'
    BY <1>2, <1>6 DEF IInv, RowsOK, RowOK, ExecsOK, UniqueTriggers, Counted, ScheduledRows, OneTarget
  <2>5. TriggersArePast'
    BY <1>2, <1>4, <1>6 DEF TriggersArePast
  <2>6. ClaimsInHand'
    BY <2>1 DEF ClaimsInHand
  <2> QED BY <2>2, <2>3, <2>4, <2>5, <2>6 DEF IInv
<1> QED BY <1>5, <1>6 DEF Fire

LEMMA FireFailsStep ==
  ASSUME IInv, FireFails
  PROVE  IInv'
<1>1. phase # "down"
  BY DEF FireFails, Ticking
<1>2. /\ timer' = FALSE /\ faults' = faults + 1 /\ faults < MaxFaults
      /\ UNCHANGED <<definition, job, mem, runs, accepted, phase, era, clean, queue, consumer, exec>>
  BY DEF FireFails, process, executor
<1>3. faults' \in 0..MaxFaults /\ faults' # 0
  BY <1>2, Bounds DEF IInv, Types
<1>4. Types'
  BY <1>2, <1>3 DEF IInv, Types
<1>5. DownIsEmpty' /\ MemoryIsRow' /\ QueueOK'
  BY <1>2 DEF IInv, DownIsEmpty, MemoryIsRow, QueueOK
<1> QED BY <1>1, <1>2, <1>3, <1>4, <1>5, RunsKept DEF IInv

\* A new schedule, or the end of one: the record and the row change together.
LEMMA ScheduleStep ==
  ASSUME IInv, phase = "up", NEW j \in Job, job' = j, mem' = j, timer' \in BOOLEAN,
         timer' => j.state = "active", definition'.state # "none",
         definition' \in [state : {"none", "live", "deleted"}, task : Tasks \cup {NoTask},
                          target : 0..MaxRows],
         \/ Len(runs) = 0
         \/ definition'.task = definition.task /\ definition'.target = definition.target,
         \/ Len(runs) = 0
         \/ j.generation > job.generation
         \/ j.generation = job.generation /\ j.count = job.count,
         UNCHANGED <<runs, accepted, process, executor, faults>>
  PROVE  IInv'
<1> USE DEF process, executor
<1>1. Types'
  BY DEF IInv, Types
<1>2. DownIsEmpty' /\ QueueOK'
  BY DEF IInv, DownIsEmpty, QueueOK
<1>3. MemoryIsRow'
  BY DEF MemoryIsRow
<1>4. RowsOK' /\ UniqueTriggers' /\ Counted' /\ ClaimsInHand'
  BY DEF IInv, RowsOK, RowOK, UniqueTriggers, Counted, ScheduledRows, ClaimsInHand
<1>5. ExecsOK'
  <2> SUFFICES ASSUME NEW o \in Rows, exec[o].stage # "none"
               PROVE  o \in 1..Len(runs) /\ ExecOK(exec[o], runs[o])
                      /\ TargetOK(exec[o], definition')
    BY DEF ExecsOK
  <2>1. o \in 1..Len(runs) /\ ExecOK(exec[o], runs[o]) /\ TargetOK(exec[o], definition)
    BY DEF IInv, ExecsOK
  <2> QED BY <2>1 DEF TargetOK
<1>6. TriggersArePast'
  <2> SUFFICES ASSUME NEW r \in 1..Len(runs), runs[r].trigger.source = "scheduled"
               PROVE  \/ runs[r].trigger.generation < j.generation
                      \/ /\ runs[r].trigger.generation = j.generation
                         /\ runs[r].trigger.key <= j.count
    BY DEF TriggersArePast
  <2>1. \/ runs[r].trigger.generation < job.generation
        \/ runs[r].trigger.generation = job.generation /\ runs[r].trigger.key <= job.count
    BY DEF IInv, TriggersArePast
  <2>2. job.generation \in Nat /\ j.generation \in Nat
    BY Bounds DEF IInv, Types, Job
  <2>3. runs[r].trigger.generation \in Nat
    <3>1. runs[r] \in RunRow
      BY DEF IInv, Types
    <3>2. runs[r].trigger \in Triggers
      BY <3>1 DEF RunRow
    <3> QED BY <3>2 DEF Triggers
  <2> QED BY <2>1, <2>2, <2>3
<1>7. OneTarget'
  BY DEF IInv, OneTarget
<1> QED BY <1>1, <1>2, <1>3, <1>4, <1>5, <1>6, <1>7 DEF IInv

LEMMA CreateStep ==
  ASSUME IInv, Create
  PROVE  IInv'
<1>1. PICK task \in Tasks, active \in BOOLEAN :
        /\ definition' = [state |-> "live", task |-> task, target |-> 0]
        /\ Scheduled(0, active)
  BY DEF Create
<1>2. phase = "up" /\ definition.state = "none"
      /\ UNCHANGED <<runs, accepted, process, executor, faults>>
  BY DEF Create, Serving
<1>3. Len(runs) = 0
  BY <1>2 DEF IInv, MemoryIsRow
<1> DEFINE j == [generation |-> 0, count |-> 0,
                 state |-> IF active THEN "active" ELSE "cancelled"]
<1>4. job' = j /\ mem' = j /\ timer' = active
  BY <1>1 DEF Scheduled
<1>5. j \in Job /\ (active => j.state = "active")
  BY Bounds DEF Job, JobStates
<1>6. /\ definition' \in [state : {"none", "live", "deleted"}, task : Tasks \cup {NoTask},
                          target : 0..MaxRows]
      /\ definition'.state # "none"
  BY <1>1, Bounds
<1> HIDE DEF j
<1> QED BY <1>2, <1>3, <1>4, <1>5, <1>6, ScheduleStep

LEMMA RescheduleStep ==
  ASSUME IInv, Reschedule
  PROVE  IInv'
<1>1. PICK active \in BOOLEAN : Scheduled(NextGeneration(mem.generation), active)
  BY DEF Reschedule
<1>2. /\ phase = "up" /\ definition.state = "live" /\ definition' = definition
      /\ mem.generation < MaxGenerations /\ mem = job
      /\ UNCHANGED <<runs, accepted, process, executor, faults>>
  BY DEF Reschedule, Serving, IInv, MemoryIsRow
<1> DEFINE j == [generation |-> NextGeneration(mem.generation), count |-> 0,
                 state |-> IF active THEN "active" ELSE "cancelled"]
<1>3. job' = j /\ mem' = j /\ timer' = active
  BY <1>1 DEF Scheduled
<1>4. job.generation \in Nat /\ job.generation < MaxGenerations
  BY <1>2, Bounds DEF IInv, Types, Job
<1>5. j \in Job /\ (active => j.state = "active") /\ j.generation > job.generation
  BY <1>2, <1>4, Bounds DEF Job, JobStates, NextGeneration
<1>6. definition' \in [state : {"none", "live", "deleted"}, task : Tasks \cup {NoTask},
                       target : 0..MaxRows]
  BY <1>2 DEF IInv, Types
<1> HIDE DEF j
<1> QED BY <1>2, <1>3, <1>5, <1>6, ScheduleStep

LEMMA CancelStep ==
  ASSUME IInv, NEW deleting \in BOOLEAN, Cancel(deleting)
  PROVE  IInv'
<1>1. /\ phase = "up" /\ definition.state = "live" /\ mem = job
      /\ job' = Cancelled /\ mem' = Cancelled /\ timer' = FALSE
      /\ UNCHANGED <<runs, accepted, process, executor, faults>>
  BY DEF Cancel, Serving, IInv, MemoryIsRow
<1>2. /\ definition' \in [state : {"none", "live", "deleted"}, task : Tasks \cup {NoTask},
                          target : 0..MaxRows]
      /\ definition'.state # "none"
      /\ definition'.task = definition.task /\ definition'.target = definition.target
  BY <1>1 DEF Cancel, IInv, Types
<1>3. /\ Cancelled \in Job /\ Cancelled.generation = job.generation
      /\ Cancelled.count = job.count
  <2>1. job \in [generation : 0..MaxGenerations, count : Nat, state : JobStates]
    BY DEF IInv, Types, Job
  <2> QED BY <1>1, <2>1 DEF Cancelled, Job, JobStates
<1> QED BY <1>1, <1>2, <1>3, ScheduleStep

LEMMA ManualStep ==
  ASSUME IInv, NEW q \in Requests, Manual(q)
  PROVE  IInv'
<1> DEFINE t == Trigger("manual", 0, q)
           row == CHOOSE r \in DOMAIN runs' :
                    /\ runs'[r].trigger = t
                    /\ \A o \in DOMAIN runs' : runs'[o].trigger = t => o <= r
<1>1. /\ phase = "up" /\ definition.state = "live"
      /\ runs' = Insert(t) /\ Len(runs') <= MaxRows
      /\ exec' = IF runs'[row].status = "pending" THEN Started(row) ELSE exec
      /\ UNCHANGED <<definition, job, mem, timer, accepted, phase, era, clean, queue, consumer, faults>>
  BY DEF Manual, Serving, scheduler, process
<1>2. runs \in Seq(RunRow) /\ Len(runs) \in Nat /\ DOMAIN runs = 1..Len(runs)
  BY DEF IInv, Types
<1>3. t \in Triggers /\ t.source # "scheduled"
  BY DEF Trigger, Triggers
<1> HIDE DEF t
<1>4. /\ runs' \in Seq(RunRow) /\ Len(runs') \in Nat /\ Len(runs') >= Len(runs)
      /\ \A o \in 1..Len(runs) : runs'[o] = runs[o]
      /\ RowsOK' /\ UniqueTriggers' /\ OneTarget' /\ Counted'
      /\ \E r \in 1..Len(runs') : runs'[r].trigger = t
  <2>1. CASE RowsOf(t) # {}
    <3>1. runs' = runs
      BY <1>1, <2>1 DEF Insert
    <3>2. \E r \in 1..Len(runs) : runs[r].trigger = t
      BY <1>2, <2>1 DEF RowsOf
    <3>3. RowsOK' /\ UniqueTriggers' /\ OneTarget' /\ Counted'
      BY <1>1, <3>1 DEF IInv, RowsOK, RowOK, UniqueTriggers, OneTarget, Counted, ScheduledRows
    <3> QED BY <1>2, <3>1, <3>2, <3>3
  <2>2. CASE RowsOf(t) = {}
    <3>1. runs' = Append(runs, NewRun(t))
      BY <1>1, <2>2 DEF Insert
    <3>2. Len(runs') = Len(runs) + 1 /\ Len(runs) < MaxRows
      BY <1>1, <1>2, <3>1, Bounds
    <3>3. /\ runs' \in Seq(RunRow)
          /\ \A o \in 1..Len(runs) : runs'[o] = runs[o]
          /\ runs'[Len(runs')].trigger = t
          /\ RowsOK' /\ UniqueTriggers' /\ OneTarget'
      BY <1>1, <1>3, <2>2, <3>1, <3>2, InsertFacts
    <3>4. Counted'
      BY <1>1, <1>3, <3>2, <3>3, InsertCounts
    <3> QED BY <1>2, <3>2, <3>3, <3>4
  <2> QED BY <2>1, <2>2
<1>5. row \in 1..Len(runs') /\ runs'[row].trigger = t
  <2>1. DOMAIN runs' = 1..Len(runs')
    BY <1>4
  <2>2. PICK r \in 1..Len(runs') : runs'[r].trigger = t
    BY <1>4
  <2>3. \A o \in 1..Len(runs') : runs'[o].trigger = t => o <= r
    BY <1>4, <2>2 DEF UniqueTriggers
  <2> QED BY <2>1, <2>2, <2>3
<1> HIDE DEF row
<1>6. row \in Rows
  BY <1>1, <1>4, <1>5, Bounds DEF Rows
<1>7. /\ exec' \in [Rows -> Executions]
      /\ \A o \in Rows : o # row => exec'[o] = exec[o]
      /\ exec'[row] = exec[row] \/ (exec[row].stage = "none" /\ exec'[row].stage = "ready")
  BY <1>1, <1>6, StartedFacts DEF IInv, Types
<1>8. Types'
  BY <1>1, <1>4, <1>7 DEF IInv, Types
<1>9. DownIsEmpty' /\ MemoryIsRow' /\ QueueOK'
  <2>1. DownIsEmpty' /\ MemoryIsRow'
    BY <1>1 DEF IInv, DownIsEmpty, MemoryIsRow
  <2>2. QueueOK'
    BY <1>1, <1>2, <1>4 DEF IInv, QueueOK
  <2> QED BY <2>1, <2>2
<1>10. ExecsOK'
  <2> SUFFICES ASSUME NEW o \in Rows, exec'[o].stage # "none"
               PROVE  o \in 1..Len(runs') /\ ExecOK(exec'[o], runs'[o])
                      /\ TargetOK(exec'[o], definition')
    BY DEF ExecsOK
  <2>1. CASE exec'[o] = exec[o]
    <3>1. o \in 1..Len(runs) /\ ExecOK(exec[o], runs[o]) /\ TargetOK(exec[o], definition)
      BY <2>1 DEF IInv, ExecsOK
    <3> QED BY <1>1, <1>2, <1>4, <2>1, <3>1
  <2>2. CASE o = row /\ exec'[o].stage = "ready"
    BY <1>5, <2>2 DEF ExecOK, TargetOK
  <2> QED BY <1>7, <2>1, <2>2
<1>11. TriggersArePast'
  <2> SUFFICES ASSUME NEW r \in 1..Len(runs'), runs'[r].trigger.source = "scheduled"
               PROVE  r \in 1..Len(runs)
    BY <1>1, <1>4 DEF IInv, TriggersArePast
  <2> QED BY <1>1, <1>2, <1>3 DEF Insert, NewRun
<1>12. ClaimsInHand'
  <2> SUFFICES ASSUME NEW o \in 1..Len(runs'), faults = 0, runs'[o].status = "pending",
                      runs'[o].claimed = era, era # 0
               PROVE  exec'[o].stage \notin {"none", "ready"}
    BY <1>1 DEF ClaimsInHand
  <2>1. o \in 1..Len(runs)
    BY <1>1, <1>2 DEF Insert, NewRun
  <2>2. exec[o].stage \notin {"none", "ready"}
    BY <1>1, <1>4, <2>1 DEF IInv, ClaimsInHand
  <2>3. o \in Rows
    BY <2>1, Bounds DEF IInv, Types, Rows
  <2> QED BY <1>7, <2>2, <2>3
<1> QED BY <1>4, <1>8, <1>9, <1>10, <1>11, <1>12 DEF IInv

-----------------------------------------------------------------------------
(* Faults, and the life of the process.                                    *)

LEMMA ThrowsStep ==
  ASSUME IInv, NEW r \in Rows, Throws(r)
  PROVE  IInv'
<1>1. /\ exec[r].stage # "none" /\ faults < MaxFaults /\ faults' = faults + 1
      /\ exec' = [exec EXCEPT ![r] = NoExec]
      /\ UNCHANGED <<definition, job, runs, accepted, era, clean, queue>>
  BY DEF Throws, Done
<1>2. consumer \in Consumers /\ DOMAIN consumer = {"pump", "recovery"} /\ phase # "down"
  BY <1>1 DEF IInv, Types, Consumers, DownIsEmpty
<1>3. \/ /\ phase' = "stopping" /\ mem' = NoJob /\ timer' = FALSE
         /\ consumer["recovery"] # Idle
      \/ /\ phase' = phase /\ mem' = mem /\ timer' = timer
         /\ consumer'["recovery"] = consumer["recovery"]
  <2>1. [state |-> "await", run |-> r] # Idle
    BY ConsumerFacts
  <2> QED BY <1>2, <2>1 DEF Throws
<1>4. consumer' \in Consumers
  BY <1>2, ConsumerFacts DEF Throws, Consumers
<1>5. faults' \in 0..MaxFaults /\ faults' # 0
  BY <1>1, Bounds DEF IInv, Types
<1>6. /\ exec' \in [Rows -> Executions] /\ exec'[r] = NoExec
      /\ \A o \in Rows : o # r => exec'[o] = exec[o]
  BY <1>1, NoExecFacts DEF IInv, Types
<1>7. NoJob \in Job /\ NoJob.state = "none"
  BY Bounds DEF NoJob, Job, JobStates
<1>8. Types'
  BY <1>1, <1>3, <1>4, <1>5, <1>6, <1>7 DEF IInv, Types, Phases
<1>9. DownIsEmpty' /\ MemoryIsRow'
  BY <1>1, <1>2, <1>3, <1>7 DEF IInv, DownIsEmpty, MemoryIsRow
<1>10. QueueOK'
  BY <1>1, <1>3 DEF IInv, QueueOK
<1>11. RowsOK' /\ UniqueTriggers' /\ TriggersArePast' /\ Counted' /\ OneTarget'
  BY <1>1 DEF IInv, RowsOK, RowOK, UniqueTriggers, TriggersArePast, Counted, ScheduledRows, OneTarget
<1>12. ExecsOK'
  BY <1>1, <1>6, NoExecFacts DEF IInv, ExecsOK
<1>13. ClaimsInHand'
  BY <1>5 DEF ClaimsInHand
<1> QED BY <1>8, <1>9, <1>10, <1>11, <1>12, <1>13 DEF IInv

LEMMA StartStep ==
  ASSUME IInv, Start
  PROVE  IInv'
<1>1. /\ phase = "down" /\ era < MaxEras /\ phase' = "starting" /\ era' = era + 1
      /\ clean' = FALSE /\ mem' = job'
      /\ UNCHANGED <<definition, runs, accepted, queue, consumer, exec, faults>>
  BY DEF Start, executor
<1>2. /\ job' \in Job /\ job'.generation = job.generation /\ job'.count = job.count
      /\ job.state = "none" => job'.state = "none"
      /\ timer' \in BOOLEAN /\ (timer' => job'.state = "active")
  <2>1. job \in [generation : 0..MaxGenerations, count : Nat, state : JobStates]
    BY DEF IInv, Types, Job
  <2> QED BY <2>1 DEF Start, Job, JobStates
<1>3. era \in Nat /\ era' \in Nat /\ era' \in 0..MaxEras
  BY <1>1, Bounds DEF IInv, Types
<1>4. Types'
  BY <1>1, <1>2, <1>3 DEF IInv, Types, Phases
<1>5. DownIsEmpty' /\ MemoryIsRow'
  BY <1>1, <1>2, <1>3 DEF IInv, DownIsEmpty, MemoryIsRow
<1>6. QueueOK'
  BY <1>1 DEF IInv, QueueOK, DownIsEmpty
<1>7. \A r \in 1..Len(runs) : runs[r].claimed \in Nat /\ runs[r].claimed <= era /\ RowOK(runs[r])
  <2>1. \A r \in 1..Len(runs) : runs[r] \in RunRow
    BY DEF IInv, Types
  <2> QED BY <2>1 DEF IInv, RowsOK, RowOK, RunRow
<1>8. RowsOK' /\ ClaimsInHand'
  BY <1>1, <1>3, <1>7 DEF RowsOK, RowOK, ClaimsInHand
<1>9. ExecsOK' /\ OneTarget'
  BY <1>1 DEF IInv, ExecsOK, OneTarget
<1>10. UniqueTriggers' /\ TriggersArePast' /\ Counted'
  BY <1>1, <1>2 DEF IInv, UniqueTriggers, TriggersArePast, Counted, ScheduledRows
<1> QED BY <1>4, <1>5, <1>6, <1>8, <1>9, <1>10 DEF IInv

\* recoverPendingRuns: what it queues are rows, each of them once.
LEMMA RecoverStep ==
  ASSUME IInv, Recover
  PROVE  IInv'
<1> DEFINE found == {r \in DOMAIN runs : Pending(r) /\ Requeues(runs[r])}
           new == found \ Range(queue)
           n == Cardinality(new)
<1>1. /\ phase = "starting" /\ phase' = "recovering"
      /\ runs' = [r \in DOMAIN runs |->
                    IF Pending(r) /\ ~Requeues(runs[r]) THEN MarkFailed(runs[r], "restarted")
                    ELSE runs[r]]
      /\ consumer' = [IF found = {} THEN consumer ELSE PumpScheduled(consumer)
                        EXCEPT !["recovery"] = At("loop")]
      /\ UNCHANGED <<definition, job, mem, timer, accepted, era, clean, exec, faults>>
  BY DEF Recover, Unqueued, scheduler
<1>2. PICK listed \in [1..n -> new] :
        /\ \A i, j \in 1..n : i < j => listed[i] < listed[j]
        /\ queue' = queue \o listed
  BY DEF Recover, Unqueued
<1>3. /\ runs \in Seq(RunRow) /\ Len(runs) \in Nat /\ DOMAIN runs = 1..Len(runs)
      /\ era \in Nat /\ Len(runs) <= MaxRows /\ queue \in Seq(Rows) /\ consumer \in Consumers
  BY Bounds DEF IInv, Types
<1>4. /\ runs' \in Seq(RunRow) /\ Len(runs') = Len(runs)
      /\ \A r \in 1..Len(runs) :
           /\ runs'[r] \in {runs[r], MarkFailed(runs[r], "restarted")}
           /\ runs'[r].trigger = runs[r].trigger /\ runs'[r].claimed = runs[r].claimed
           /\ runs'[r].session = runs[r].session /\ runs'[r].sent = runs[r].sent
           /\ runs'[r].status = "pending" => runs[r].status = "pending"
  <2>1. \A r \in 1..Len(runs) : runs[r] \in RunRow
    BY <1>3
  <2>2. \A r \in 1..Len(runs) :
          /\ runs'[r] \in {runs[r], MarkFailed(runs[r], "restarted")}
          /\ runs'[r] \in RunRow
          /\ runs'[r].trigger = runs[r].trigger /\ runs'[r].claimed = runs[r].claimed
          /\ runs'[r].session = runs[r].session /\ runs'[r].sent = runs[r].sent
          /\ runs'[r].status = "pending" => runs[r].status = "pending"
    <3> SUFFICES ASSUME NEW r \in 1..Len(runs)
                 PROVE  /\ runs'[r] \in {runs[r], MarkFailed(runs[r], "restarted")}
                        /\ runs'[r] \in RunRow
                        /\ runs'[r].trigger = runs[r].trigger
                        /\ runs'[r].claimed = runs[r].claimed
                        /\ runs'[r].session = runs[r].session /\ runs'[r].sent = runs[r].sent
                        /\ runs'[r].status = "pending" => runs[r].status = "pending"
      OBVIOUS
    <3>1. runs'[r] \in {runs[r], MarkFailed(runs[r], "restarted")}
      BY <1>1, <1>3
    <3> QED BY <1>3, <2>1, <3>1, MarkFacts
  <2>3. DOMAIN runs' = 1..Len(runs)
    BY <1>1, <1>3
  <2>4. runs' \in [1..Len(runs) -> RunRow]
    BY <1>1, <1>3, <2>2
  <2>5. runs' \in Seq(RunRow) /\ Len(runs') = Len(runs)
    BY <1>3, <2>4, FunctionIsSeq
  <2> QED BY <2>2, <2>5
<1>5. IsFiniteSet(new) /\ n \in Nat /\ new \subseteq 1..Len(runs) /\ new \subseteq Rows
  <2>1. new \subseteq 1..Len(runs)
    BY <1>3
  <2> HIDE DEF new
  <2>2. IsFiniteSet(new)
    <3>1. IsFiniteSet(1..Len(runs))
      BY <1>3, FS_Interval
    <3> QED BY <2>1, <3>1, FS_Subset
  <2>3. new \subseteq Rows
    BY <1>3, <2>1, Bounds DEF Rows
  <2>4. n \in Nat
    BY <2>2, FS_CardinalityType
  <2> QED BY <2>1, <2>2, <2>3, <2>4
<1>6. \A i \in 1..Len(queue) : queue[i] \notin new
  BY <1>3 DEF Range
<1> HIDE DEF new, n
<1>7. /\ queue' \in Seq(Rows)
      /\ \A i \in 1..Len(queue') : queue'[i] \in 1..Len(runs)
      /\ \A i, j \in 1..Len(queue') : queue'[i] = queue'[j] => i = j
  <2>1. listed \in Seq(Rows) /\ Len(listed) = n
    <3>1. listed \in [1..n -> Rows]
      BY <1>5
    <3> QED BY <1>5, <3>1, FunctionIsSeq
  <2>2. /\ queue' \in Seq(Rows) /\ Len(queue') = Len(queue) + n
        /\ \A i \in 1..Len(queue') :
             \/ i \in 1..Len(queue) /\ queue'[i] = queue[i]
             \/ i - Len(queue) \in 1..n /\ queue'[i] = listed[i - Len(queue)]
    <3>1. queue' = queue \o listed
      BY <1>2
    <3>2. /\ queue' \in Seq(Rows) /\ Len(queue') = Len(queue) + n
          /\ \A i \in 1..Len(queue) + n :
               queue'[i] = IF i <= Len(queue) THEN queue[i] ELSE listed[i - Len(queue)]
      BY <1>3, <2>1, <3>1, ConcatProperties
    <3>3. Len(queue) \in Nat /\ n \in Nat
      BY <1>3, <1>5
    <3> QED BY <3>2, <3>3
  <2>3. \A i \in 1..n : listed[i] \in new
    OBVIOUS
  <2>4. \A i \in 1..Len(queue') : queue'[i] \in 1..Len(runs)
    BY <1>5, <2>2, <2>3 DEF IInv, QueueOK
  <2>5. \A i, j \in 1..n : listed[i] = listed[j] => i = j
    <3> SUFFICES ASSUME NEW i \in 1..n, NEW j \in 1..n, listed[i] = listed[j], i < j
                 PROVE  FALSE
      BY <1>5
    <3>1. listed[i] \in Nat /\ listed[j] \in Nat
      <4>1. \A r \in 1..Len(runs) : r \in Nat
        BY <1>3
      <4> QED BY <1>5, <2>3, <4>1
    <3> QED BY <1>2, <3>1
  <2>6. \A i, j \in 1..Len(queue') : queue'[i] = queue'[j] => i = j
    <3> SUFFICES ASSUME NEW i \in 1..Len(queue'), NEW j \in 1..Len(queue'), queue'[i] = queue'[j]
                 PROVE  i = j
      OBVIOUS
    <3>1. CASE i \in 1..Len(queue) /\ j \in 1..Len(queue)
      BY <1>3, <2>2, <3>1 DEF IInv, QueueOK
    <3>2. CASE i - Len(queue) \in 1..n /\ j - Len(queue) \in 1..n
      BY <1>3, <1>5, <2>2, <2>5, <3>2, SMTT(30)
    <3>3. CASE i \in 1..Len(queue) /\ j - Len(queue) \in 1..n
      BY <1>3, <1>5, <1>6, <2>2, <2>3, <3>3, SMTT(30)
    <3>4. CASE i - Len(queue) \in 1..n /\ j \in 1..Len(queue)
      BY <1>3, <1>5, <1>6, <2>2, <2>3, <3>4, SMTT(30)
    <3> QED BY <2>2, <3>1, <3>2, <3>3, <3>4
  <2> QED BY <2>2, <2>4, <2>6
<1>8. consumer' \in Consumers
  <2>1. PumpScheduled(consumer) \in Consumers
    BY <1>3, ConsumerFacts DEF PumpScheduled, Consumers
  <2> QED BY <1>1, <1>3, <2>1, ConsumerFacts DEF Consumers
<1> HIDE DEF found
<1>9. Types'
  BY <1>1, <1>3, <1>4, <1>7, <1>8 DEF IInv, Types, Phases
<1>10. DownIsEmpty' /\ MemoryIsRow' /\ QueueOK'
  BY <1>1, <1>4, <1>7 DEF IInv, DownIsEmpty, MemoryIsRow, QueueOK
<1>11. RowsOK' /\ OneTarget'
  <2>1. era' = era /\ definition' = definition
    BY <1>1
  <2> QED BY <1>4, <2>1 DEF IInv, RowsOK, RowOK, OneTarget
<1>12. ExecsOK'
  BY <1>1, <1>4, ZenonT(60) DEF IInv, ExecsOK, ExecOK
<1>13. UniqueTriggers' /\ TriggersArePast' /\ Counted'
  BY <1>1, <1>4, SameTriggers
<1>14. ClaimsInHand'
  BY <1>1, <1>4 DEF IInv, ClaimsInHand
<1> QED BY <1>9, <1>10, <1>11, <1>12, <1>13, <1>14 DEF IInv

LEMMA StopStep ==
  ASSUME IInv, Stop
  PROVE  IInv'
<1>1. /\ phase # "down" /\ phase' = "stopping" /\ mem' = NoJob /\ timer' = FALSE
      /\ UNCHANGED <<definition, job, runs, accepted, era, clean, queue, consumer, exec, faults>>
  BY DEF Stop, executor
<1>2. NoJob \in Job /\ NoJob.state = "none"
  BY Bounds DEF NoJob, Job, JobStates
<1>3. Types'
  BY <1>1, <1>2 DEF IInv, Types, Phases
<1>4. DownIsEmpty' /\ MemoryIsRow' /\ QueueOK'
  BY <1>1, <1>2 DEF IInv, DownIsEmpty, MemoryIsRow, QueueOK
<1> QED BY <1>1, <1>3, <1>4, RunsKept DEF IInv

LEMMA CloseStep ==
  ASSUME IInv, CloseExecutor
  PROVE  IInv'
<1>1. /\ phase = "stopping" /\ consumer["recovery"] = Idle /\ phase' = "closing"
      /\ queue' = <<>>
      /\ UNCHANGED <<definition, job, mem, timer, runs, accepted, era, clean, consumer, exec, faults>>
  BY DEF CloseExecutor, scheduler
<1>2. Types'
  BY <1>1 DEF IInv, Types, Phases
<1>3. DownIsEmpty' /\ MemoryIsRow' /\ QueueOK'
  BY <1>1 DEF IInv, DownIsEmpty, MemoryIsRow, QueueOK
<1> QED BY <1>1, <1>2, <1>3, RunsKept DEF IInv

\* The process is gone, cleanly or not.
LEMMA GoneStep ==
  ASSUME IInv, Gone, phase # "down",
         job' \in Job, job'.generation = job.generation, job'.count >= job.count,
         job.state = "none" => job'.state = "none",
         clean' = FALSE \/ (clean' = TRUE /\ \A r \in Rows : exec[r].stage = "none")
  PROVE  IInv'
<1>1. /\ phase' = "down" /\ mem' = NoJob /\ timer' = FALSE /\ queue' = <<>>
      /\ consumer' = [c \in DOMAIN consumer |-> Idle]
      /\ exec' = [r \in Rows |-> NoExec]
      /\ UNCHANGED <<definition, runs, accepted, era, faults>>
  BY DEF Gone
<1>2. DOMAIN consumer = {"pump", "recovery"}
  BY DEF IInv, Types, Consumers
<1>3. NoJob \in Job /\ NoJob.state = "none"
  BY Bounds DEF NoJob, Job, JobStates
<1>4. /\ exec' \in [Rows -> Executions] /\ consumer' \in Consumers
      /\ \A r \in Rows : exec'[r].stage = "none"
  BY <1>1, <1>2, NoExecFacts, ConsumerFacts DEF Consumers
<1>5. Types'
  <2>1. clean' \in BOOLEAN /\ timer' \in BOOLEAN
    BY <1>1
  <2>2. queue' \in Seq(Rows)
    BY <1>1
  <2> QED BY <1>1, <1>3, <1>4, <2>1, <2>2 DEF IInv, Types, Phases
<1>6. DownIsEmpty' /\ MemoryIsRow' /\ QueueOK'
  BY <1>1, <1>2, <1>3, <1>4 DEF IInv, DownIsEmpty, MemoryIsRow, QueueOK
<1>7. RowsOK' /\ UniqueTriggers' /\ Counted' /\ OneTarget'
  BY <1>1 DEF IInv, RowsOK, RowOK, UniqueTriggers, Counted, ScheduledRows, OneTarget
<1>8. TriggersArePast'
  BY <1>1, LaterCount DEF TriggersArePast
<1>9. ExecsOK'
  BY <1>4 DEF ExecsOK
<1>10. ClaimsInHand'
  <2> SUFFICES ASSUME NEW r \in 1..Len(runs), faults = 0, runs[r].status = "pending",
                      runs[r].claimed = era, era # 0
               PROVE  clean' = FALSE
    BY <1>1 DEF ClaimsInHand
  <2>1. exec[r].stage # "none"
    BY DEF IInv, ClaimsInHand
  <2>2. r \in Rows
    BY Bounds DEF IInv, Types, Rows
  <2> QED BY <2>1, <2>2
<1> QED BY <1>5, <1>6, <1>7, <1>8, <1>9, <1>10 DEF IInv

LEMMA ExitStep ==
  ASSUME IInv, Exit
  PROVE  IInv'
<1>1. /\ Gone /\ phase # "down" /\ clean' = TRUE /\ job' = job
      /\ \A r \in Rows : exec[r].stage = "none"
  BY DEF Exit, ExecutorIdle
<1>2. job \in Job /\ job.count >= job.count
  BY DEF IInv, Types, Job
<1> QED BY <1>1, <1>2, GoneStep

LEMMA CrashStep ==
  ASSUME IInv, Crash
  PROVE  IInv'
<1>1. Gone /\ phase # "down" /\ clean' = FALSE
      /\ (job' = job \/ (Ticking /\ job' = Advanced(mem)))
  BY DEF Crash
<1>2. job \in Job /\ job.count \in Nat
  BY DEF IInv, Types, Job
<1>3. /\ job' \in Job /\ job'.generation = job.generation /\ job'.count >= job.count
      /\ job.state = "none" => job'.state = "none"
  <2>1. CASE job' = job
    BY <1>2, <2>1
  <2>2. CASE Ticking /\ job' = Advanced(mem)
    BY <1>2, <2>2, TickingFacts
  <2> QED BY <1>1, <2>1, <2>2
<1> QED BY <1>1, <1>3, GoneStep

-----------------------------------------------------------------------------
LEMMA InvStep == IInv /\ [Next]_vars => IInv'
<1> SUFFICES ASSUME IInv, [Next]_vars
             PROVE  IInv'
  OBVIOUS
<1>1. CASE UNCHANGED vars
  <2>1. UNCHANGED <<definition, job, runs, accepted, phase, era, clean, mem, timer, queue, consumer,
                    exec, faults>>
    BY <1>1 DEF vars
  <2>2. Types' /\ DownIsEmpty' /\ MemoryIsRow' /\ QueueOK'
    BY <2>1 DEF IInv, Types, DownIsEmpty, MemoryIsRow, QueueOK
  <2>3. RowsOK' /\ ExecsOK' /\ OneTarget' /\ ClaimsInHand'
    BY <2>1 DEF IInv, RowsOK, RowOK, ExecsOK, OneTarget, ClaimsInHand
  <2>4. UniqueTriggers' /\ TriggersArePast' /\ Counted'
    BY <2>1 DEF IInv, UniqueTriggers, TriggersArePast, Counted, ScheduledRows
  <2> QED BY <2>2, <2>3, <2>4 DEF IInv
<1>2. ASSUME NEW c \in {"pump", "recovery"}, Loop(c) PROVE IInv'
  BY <1>2, DrainStep, AwaitedStep DEF Loop
<1>3. CASE PumpEnds \/ RecoveryEnds
  BY <1>3, PumpEndsStep, RecoveryEndsStep
<1>4. CASE Fire \/ FireFails
  BY <1>4, FireStep, FireFailsStep
<1>5. CASE Create \/ Reschedule
  BY <1>5, CreateStep, RescheduleStep
<1>6. ASSUME NEW deleting \in BOOLEAN, Cancel(deleting) PROVE IInv'
  BY <1>6, CancelStep
<1>7. ASSUME NEW q \in Requests, Manual(q) PROVE IInv'
  BY <1>7, ManualStep
<1>8. ASSUME NEW r \in Rows, Execution(r) PROVE IInv'
  BY <1>8, ClaimStep, SessionReadyStep, DiscardedStep, SessionFailsStep, SteerStep, MarkStep
     DEF Execution
<1>9. ASSUME NEW r \in Rows, Throws(r) PROVE IInv'
  BY <1>9, ThrowsStep
<1>10. CASE Start \/ Recover \/ Stop
  BY <1>10, StartStep, RecoverStep, StopStep
<1>11. CASE CloseExecutor \/ Exit \/ Crash
  BY <1>11, CloseStep, ExitStep, CrashStep
<1> QED BY <1>1, <1>2, <1>3, <1>4, <1>5, <1>6, <1>7, <1>8, <1>9, <1>10, <1>11 DEF Next

\* The inductive invariant holds of every reachable state of the scheduler,
\* the executor and the run table.
THEOREM Invariance == Spec => []IInv
BY InitInv, InvStep, PTL DEF Spec

LEMMA RunsDomain ==
  ASSUME IInv
  PROVE  DOMAIN runs = 1..Len(runs) /\ \A r \in 1..Len(runs) : runs[r] \in RunRow
BY DEF IInv, Types

\* Types, and the executor's queue holds rows of the table, each of them once.
THEOREM TypeCorrect == Spec => []TypeOK
<1>1. IInv => TypeOK
  <2> SUFFICES ASSUME IInv PROVE TypeOK
    OBVIOUS
  <2>1. /\ definition.state \in {"none", "live", "deleted"} /\ definition.target \in 0..MaxRows
        /\ Len(runs) <= MaxRows /\ phase \in Phases
        /\ timer => mem.state = "active"
        /\ consumer["recovery"] # Idle => phase \in {"recovering", "stopping"}
    BY DEF IInv, Types, MemoryIsRow, QueueOK
  <2>2. \A r \in DOMAIN runs :
          /\ runs[r].status \in {"pending", "delivered", "failed"}
          /\ runs[r].claimed \in 0..era /\ runs[r].sent \in 0..MaxEras
    <3> SUFFICES ASSUME NEW r \in 1..Len(runs)
                 PROVE  /\ runs[r].status \in {"pending", "delivered", "failed"}
                        /\ runs[r].claimed \in 0..era /\ runs[r].sent \in 0..MaxEras
      BY RunsDomain
    <3>1. /\ runs[r].status \in {"pending", "delivered", "failed"}
          /\ runs[r].claimed \in Nat /\ runs[r].sent \in Nat
      BY RunsDomain DEF RunRow
    <3>2. era \in Nat /\ era <= MaxEras
      BY Bounds DEF IInv, Types
    <3>3. RowOK(runs[r])
      BY DEF IInv, RowsOK
    <3> QED BY <3>1, <3>2, <3>3, Bounds DEF RowOK
  <2>3. \A j \in {job, mem} :
          /\ j.generation \in 0..MaxGenerations
          /\ j.state \in {"none", "active", "completed", "cancelled", "expired"}
    BY DEF IInv, Types, Job, JobStates
  <2>4. Range(queue) \subseteq DOMAIN runs /\ IsInjective(queue)
    <3>1. DOMAIN queue = 1..Len(queue)
      BY DEF IInv, Types
    <3> QED BY <3>1, RunsDomain DEF IInv, QueueOK, Range, IsInjective
  <2> QED BY <2>1, <2>2, <2>3, <2>4 DEF TypeOK, Phases
<1> QED BY <1>1, Invariance, PTL

\* A trigger is delivered at most once, whatever crashes, restarts, repeated
\* requests and concurrent loops do to claimExecution and the two marks.
THEOREM OneDelivery == Spec => []DeliveredAtMostOnce
<1>1. IInv => DeliveredAtMostOnce
  <2> SUFFICES ASSUME IInv, NEW r \in 1..Len(runs)
               PROVE  /\ runs[r].sent <= 1
                      /\ \A o \in 1..Len(runs) : runs[o].trigger = runs[r].trigger => o = r
    BY RunsDomain DEF DeliveredAtMostOnce, RowsOf
  <2> QED BY DEF IInv, RowsOK, RowOK, UniqueTriggers
<1> QED BY <1>1, Invariance, PTL

\* Every trigger that acceptScheduledTrigger accepted has a row of its own.
THEOREM TriggersKept == Spec => []NoTriggerSwallowed
<1>1. IInv => NoTriggerSwallowed
  BY RunsDomain DEF IInv, Counted, ScheduledRows, NoTriggerSwallowed
<1> QED BY <1>1, Invariance, PTL

\* bindPendingTargetSession makes one session the target of all runs of a task
\* with a fixed session.
THEOREM OneFixedTarget == Spec => []FixedTargetIsOne
<1>1. IInv => FixedTargetIsOne
  BY RunsDomain DEF IInv, OneTarget, FixedTargetIsOne
<1> QED BY <1>1, Invariance, PTL

\* A process that exits cleanly, without a fault of the database, leaves no
\* run claimed and unsettled.
THEOREM CloseSettles == Spec => []CloseSettlesClaims
<1>1. IInv => CloseSettlesClaims
  <2> SUFFICES ASSUME IInv, clean, faults = 0, NEW r \in 1..Len(runs), Pending(r),
                      runs[r].claimed = era
               PROVE  FALSE
    BY RunsDomain DEF CloseSettlesClaims
  <2>1. phase = "down" /\ era # 0
    BY DEF IInv, DownIsEmpty
  <2> QED BY <2>1 DEF IInv, ClaimsInHand, Pending
<1> QED BY <1>1, Invariance, PTL

-----------------------------------------------------------------------------
(* A terminal state is final.                                              *)

Final ==
  \A r \in DOMAIN runs :
    ~Pending(r) => runs'[r].status = runs[r].status /\ runs'[r].code = runs[r].code

\* The step replaces one row, and it keeps a row that is terminal.
LEMMA RowFinal ==
  ASSUME IInv, NEW r \in Rows, r \in 1..Len(runs), NEW row,
         runs' = [runs EXCEPT ![r] = row],
         runs[r].status # "pending" => row.status = runs[r].status /\ row.code = runs[r].code
  PROVE  Final
<1>1. DOMAIN runs = 1..Len(runs)
  BY RunsDomain
<1> QED BY <1>1 DEF Final, Pending

LEMMA AttachFinal ==
  ASSUME IInv, NEW r \in Rows, r \in 1..Len(runs), NEW session, Attach(r, session)
  PROVE  Final
<1>1. CASE Attachable(runs[r])
  BY <1>1, RowFinal DEF Attach, Row, Attachable
<1>2. CASE ~Attachable(runs[r])
  BY <1>2 DEF Attach, Final
<1> QED BY <1>1, <1>2

LEMMA ExecutionFinal ==
  ASSUME IInv, NEW r \in Rows, Execution(r)
  PROVE  Final
<1>1. exec[r].stage # "none"
  BY DEF Execution, Claim, SessionReady, Discarded, SessionFails, Steer, Mark
<1>2. r \in 1..Len(runs) /\ runs[r] \in RunRow /\ era \in Nat
  BY <1>1, InFlight
<1>3. CASE Claim(r)
  <2>1. CASE ~Claimable(runs[r])
    BY <1>3, <2>1 DEF Claim, Final
  <2>2. CASE Claimable(runs[r])
    BY <1>2, <1>3, <2>2, RowFinal DEF Claim, Row, Claimable
  <2> QED BY <2>1, <2>2
<1>4. CASE SessionReady(r)
  <2>1. runs' = runs \/ \E session : Attach(r, session)
    BY <1>4 DEF SessionReady
  <2> QED BY <1>2, <2>1, AttachFinal DEF Final
<1>5. CASE Discarded(r)
  BY <1>2, <1>5, AttachFinal DEF Discarded
<1>6. CASE SessionFails(r) \/ Mark(r)
  <2>1. PICK row \in {MarkFailed(runs[r], "execution"), MarkDelivered(runs[r])} :
          runs' = [runs EXCEPT ![r] = row]
    BY <1>6 DEF SessionFails, Mark, Row
  <2>2. runs[r].status # "pending" => row = runs[r]
    BY <1>2, <2>1, MarkFacts
  <2> QED BY <1>2, <2>1, <2>2, RowFinal
<1>7. CASE Steer(r)
  <2>1. PICK taken \in BOOLEAN :
          runs' = [runs EXCEPT ![r] = [runs[r] EXCEPT !.sent = IF taken THEN @ + 1 ELSE @]]
    BY <1>7 DEF Steer, Row
  <2> DEFINE row == [runs[r] EXCEPT !.sent = IF taken THEN @ + 1 ELSE @]
  <2>2. row.status = runs[r].status /\ row.code = runs[r].code
    BY <1>2 DEF RunRow
  <2>3. runs' = [runs EXCEPT ![r] = row]
    BY <2>1
  <2> HIDE DEF row
  <2> QED BY <1>2, <2>2, <2>3, RowFinal
<1> QED BY <1>3, <1>4, <1>5, <1>6, <1>7 DEF Execution

LEMMA InsertFinal ==
  ASSUME IInv, NEW trigger, runs' = Insert(trigger)
  PROVE  Final
<1>1. runs \in Seq(RunRow) /\ DOMAIN runs = 1..Len(runs)
  BY DEF IInv, Types
<1>2. CASE runs' = runs
  BY <1>2 DEF Final
<1>3. CASE runs' = Append(runs, NewRun(trigger))
  BY <1>1, <1>3 DEF Final
<1> QED BY <1>2, <1>3 DEF Insert

\* markDelivered, markFailed and the recovery never overwrite a terminal state:
\* the executor's runs converge on one fact.
THEOREM TerminalFinal == Spec => TerminalIsFinal
<1>1. IInv /\ [Next]_vars => [Final]_runs
  <2> SUFFICES ASSUME IInv, Next, runs' # runs PROVE Final
    BY DEF vars
  <2>1. ASSUME NEW r \in Rows, Execution(r) PROVE Final
    BY <2>1, ExecutionFinal
  <2>2. CASE Fire
    BY <2>2, InsertFinal DEF Fire, AcceptScheduledTrigger
  <2>3. ASSUME NEW q \in Requests, Manual(q) PROVE Final
    BY <2>3, InsertFinal DEF Manual
  <2>4. CASE Recover
    BY <2>4 DEF Recover, Final
  <2> QED BY <2>1, <2>2, <2>3, <2>4
          DEF Next, Loop, Drain, Awaited, PumpEnds, RecoveryEnds, FireFails, Create, Reschedule,
              Cancel, Throws, Start, Stop, CloseExecutor, Exit, Crash, Gone
<1>2. [][Final]_runs => TerminalIsFinal
  BY DEF TerminalIsFinal, Final
<1> QED BY <1>1, <1>2, Invariance, PTL DEF Spec

=============================================================================

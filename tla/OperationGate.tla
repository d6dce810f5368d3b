---------------------------- MODULE OperationGate ----------------------------
(***************************************************************************)
(* session-operation-gate.ts for one Session: the state object behind the  *)
(* Session's entry of the `states` map, its two drain promises, and the    *)
(* three kinds of users.  Ordinary operations (tryRun, tryEnter) hold a    *)
(* permit.  An interrupting handoff takes the mutation token and waits for *)
(* the permits to drain; the Session-end fence takes the token and does    *)
(* not wait.  The deletion run blocks the Session and waits for both.      *)
(*                                                                         *)
(* A gate call is one synchronous step; callers proceed after a promise    *)
(* resolves, in a later step.  State objects are modelled with identity:   *)
(* a permit keeps the object it was issued from, which need not be the one *)
(* the map holds when it is released.                                      *)
(***************************************************************************)
EXTENDS Naturals, FiniteSets

CONSTANTS Operations,  \* ordinary operations
          Handoffs,    \* submitInterruptingHandoff calls
          EndFences,   \* sessionLifecycle.runExclusive calls
          Deletion,    \* the Session's deletion run
          Objects,     \* state objects; one that nobody refers to is fresh
          NoObject, NoOne

Exclusives == Handoffs \cup EndFences

ASSUME UsersAssumption ==
  /\ Operations \cap Exclusives = {} /\ Handoffs \cap EndFences = {}
  /\ Deletion \notin Operations \cup Exclusives
  /\ NoOne \notin Exclusives
  /\ NoObject \notin Objects
  /\ IsFiniteSet(Operations)

VARIABLES states,  \* states.get(sessionId)
          obj,     \* the state objects
          permit,  \* operation -> the object its permit came from
          lease,   \* exclusive user -> phase and object
          run      \* the deletion run: phase and the object it waits on

vars == <<states, obj, permit, lease, run>>

State == [active: Nat, deleting: BOOLEAN, mutation: Exclusives \cup {NoOne},
          sharedDrain: BOOLEAN,   \* an unresolved promise for active = 0
          fullDrain: BOOLEAN]     \* ... and for no mutation as well

createState == [active |-> 0, deleting |-> FALSE, mutation |-> NoOne,
                sharedDrain |-> FALSE, fullDrain |-> FALSE]

Idle == [phase |-> "none", obj |-> NoObject]

TypeOK ==
  /\ states \in Objects \cup {NoObject}
  /\ obj \in [Objects -> State]
  /\ permit \in [Operations -> Objects \cup {NoObject}]
  /\ lease \in [Exclusives -> [phase: {"none", "waiting", "drained", "working", "holding"},
                               obj: Objects \cup {NoObject}]]
  /\ run \in [phase: {"none", "waiting", "drained", "working"}, obj: Objects \cup {NoObject}]

Init ==
  /\ states = NoObject
  /\ obj = [o \in Objects |-> createState]
  /\ permit = [p \in Operations |-> NoObject]
  /\ lease = [x \in Exclusives |-> Idle]
  /\ run = Idle

\* states.get(sessionId) ?? createState()
Unreferenced(o) ==
  /\ states # o /\ run.obj # o
  /\ \A p \in Operations : permit[p] # o
  /\ \A x \in Exclusives : lease[x].obj # o

Candidates ==
  IF states # NoObject THEN {states} ELSE {o \in Objects : Unreferenced(o)}

StateOf(o) == IF o = states THEN obj[o] ELSE createState

Closed(st) == st.deleting \/ st.mutation # NoOne

\* settleState resolves the shared drain at zero permits and the full drain
\* when the mutation is gone as well.
FullyDrained(st) == st.active = 0 /\ st.mutation = NoOne

\* Mutant: the entry of a Session with permits out is dropped from the map.
ForgottenInUse(o, st) == ~st.deleting /\ st.mutation = NoOne /\ states = o

Forgotten(o, st) ==
  st.active = 0 /\ ~st.deleting /\ st.mutation = NoOne /\ states = o

\* settleState(states, sessionId, state) applied to object o with content st,
\* where ls and rn are the callers after this call's own change.
SettleState(o, st, ls, rn) ==
  LET shared == st.active = 0
      full == FullyDrained(st)
  IN
  /\ obj' = [obj EXCEPT ![o] = [st EXCEPT !.sharedDrain = @ /\ ~shared,
                                          !.fullDrain = @ /\ ~full]]
  /\ lease' = [x \in Exclusives |->
                 IF ls[x].phase = "waiting" /\ ls[x].obj = o /\ shared
                 THEN [ls[x] EXCEPT !.phase = "drained"] ELSE ls[x]]
  /\ run' = IF rn.phase = "waiting" /\ rn.obj = o /\ full
            THEN [rn EXCEPT !.phase = "drained"] ELSE rn
  /\ states' = IF Forgotten(o, st) THEN NoObject ELSE states

-----------------------------------------------------------------------------
TryEnter(p) ==
  /\ permit[p] = NoObject
  /\ \E o \in Candidates :
       /\ ~Closed(StateOf(o))
       /\ states' = o
       /\ obj' = [obj EXCEPT ![o] = [StateOf(o) EXCEPT !.active = @ + 1]]
       /\ permit' = [permit EXCEPT ![p] = o]
  /\ UNCHANGED <<lease, run>>

\* Mutant: releasing a permit a second time counts again.
LeaveAgain(p) ==
  LET o == permit[p] IN
  /\ o # NoObject
  /\ SettleState(o, [obj[o] EXCEPT !.active = @ - 1], lease, run)
  /\ UNCHANGED permit

\* The permit is released in a finally block.
Leave(p) ==
  LET o == permit[p] IN
  /\ o # NoObject
  /\ permit' = [permit EXCEPT ![p] = NoObject]
  /\ SettleState(o, [obj[o] EXCEPT !.active = @ - 1], lease, run)

\* Mutant: the drain is taken for resolved while permits are out.
ExclusivePhaseEager(x, st) == IF x \in EndFences THEN "holding" ELSE "drained"

\* sharedDrain: resolved at once when nobody is inside.
ExclusivePhase(x, st) ==
  IF x \in EndFences THEN "holding" ELSE IF st.active = 0 THEN "drained" ELSE "waiting"

TryAcquireExclusive(x) ==
  /\ lease[x].phase = "none"
  /\ \E o \in Candidates :
       LET st == StateOf(o) IN
       /\ ~Closed(st)
       /\ states' = o
       /\ obj' = [obj EXCEPT ![o] =
                    [st EXCEPT !.mutation = x, !.sharedDrain = @ \/ st.active # 0]]
       /\ lease' = [lease EXCEPT ![x] = [phase |-> ExclusivePhase(x, st), obj |-> o]]
  /\ UNCHANGED <<permit, run>>

\* The handoff resumes after its drain.
ProceedExclusive(x) ==
  /\ lease[x].phase = "drained"
  /\ lease' = [lease EXCEPT ![x].phase = "working"]
  /\ UNCHANGED <<states, obj, permit, run>>

\* Mutant: the token is cleared without settling the state.
ReleaseExclusiveUnsettled(x) ==
  /\ lease[x].phase # "none"
  /\ obj' = [obj EXCEPT ![lease[x].obj].mutation = NoOne]
  /\ lease' = [lease EXCEPT ![x] = Idle]
  /\ UNCHANGED <<states, permit, run>>

\* The lease ends in any phase: done, timed out while waiting, or stopped.  What
\* a stopped handoff still does, an admission in flight and its rollback, runs
\* outside the gate like any submission.  A second release of the same lease is
\* a no-op by the flag of its closure and is not a step here.
ReleaseExclusive(x) ==
  LET o == lease[x].obj IN
  /\ lease[x].phase # "none"
  /\ obj[o].mutation = x            \* otherwise the release throws
  /\ SettleState(o, [obj[o] EXCEPT !.mutation = NoOne],
                 [lease EXCEPT ![x] = Idle], run)
  /\ UNCHANGED permit

\* block, the first gate call of a deletion run.
Block ==
  /\ run.phase = "none"
  /\ \E o \in Candidates :
       LET st == StateOf(o) IN
       /\ states' = o
       /\ obj' = [obj EXCEPT ![o] =
                    [st EXCEPT !.deleting = TRUE, !.fullDrain = @ \/ ~FullyDrained(st)]]
       /\ run' = [phase |-> IF FullyDrained(st) THEN "drained" ELSE "waiting", obj |-> o]
  /\ UNCHANGED <<permit, lease>>

ProceedDeletion ==
  /\ run.phase = "drained"
  /\ run' = [run EXCEPT !.phase = "working"]
  /\ UNCHANGED <<states, obj, permit, lease>>

\* The run throws: a later step of it does, or the drain of the queue dispatcher
\* that it awaits beside this one rejects while this one still waits.  The
\* Session stays blocked.
FailDeletion ==
  /\ run.phase # "none"
  /\ run' = Idle
  /\ UNCHANGED <<states, obj, permit, lease>>

\* release(sessionId) does not throw on a Session that has a state object.
CanRelease == states # NoObject /\ FullyDrained(obj[states])

\* release at the end of a run, or at once when the Session has no row.
ReleaseGate ==
  /\ run.phase \in {"none", "working"}
  /\ CanRelease
  /\ SettleState(states, [obj[states] EXCEPT !.deleting = FALSE], lease, Idle)
  /\ UNCHANGED permit

Next ==
  \/ \E p \in Operations : TryEnter(p) \/ Leave(p)
  \/ \E x \in Exclusives : TryAcquireExclusive(x) \/ ProceedExclusive(x) \/ ReleaseExclusive(x)
  \/ Block \/ ProceedDeletion \/ FailDeletion \/ ReleaseGate

Spec == Init /\ [][Next]_vars

\* Every operation and every exclusive section ends (its release is in a
\* finally block).
FairSpec ==
  /\ Spec
  /\ \A p \in Operations : WF_vars(Leave(p))
  /\ \A x \in Exclusives : WF_vars(ReleaseExclusive(x))

-----------------------------------------------------------------------------
(* Correctness.                                                            *)

\* Who uses the Session.  The Session-end fence is left out: it keeps others
\* from entering but relies on the maintenance lease for exclusion.
Working ==
  {p \in Operations : permit[p] # NoObject}
    \cup {x \in Handoffs : lease[x].phase = "working"}
    \cup (IF run.phase = "working" THEN {Deletion} ELSE {})

Access == INSTANCE SessionAccess
            WITH working <- Working, ExclusiveUsers <- Handoffs \cup {Deletion}

\* The gate implements exclusive access: a handoff that was told that the
\* Session drained, and a deletion run past its drain, are alone with it.
ExclusiveAccess == Access!Spec

\* Every permit and lease in use came from the object the map holds, so all
\* users of the Session see one count, one token and one deleting flag.
OneStateObject ==
  /\ \A p \in Operations : permit[p] # NoObject => permit[p] = states
  /\ \A x \in Exclusives : lease[x].phase # "none" =>
       lease[x].obj = states /\ obj[states].mutation = x

\* A deletion run that waits is let through, whatever was inside.
DeletionDrains == run.phase = "waiting" ~> run.phase # "waiting"

=============================================================================

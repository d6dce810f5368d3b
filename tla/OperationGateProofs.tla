------------------------- MODULE OperationGateProofs -------------------------
(***************************************************************************)
(* Proofs about OperationGate, for any number of operations, handoffs, end *)
(* fences and state objects: type correctness (the count of permits never  *)
(* falls below zero), one state object for all users, and that the gate    *)
(* implements exclusive access (SessionAccess).                            *)
(***************************************************************************)
EXTENDS OperationGate, FiniteSetTheorems, TLAPS

Inside == {p \in Operations : permit[p] # NoObject}

\* The count of the object in the map is the number of permits that are out.
PermitsCounted == states # NoObject => obj[states].active = Cardinality(Inside)

\* An exclusive user past its drain is alone: the token keeps others out.
DrainedIsEmpty ==
  \A x \in Exclusives :
    lease[x].phase \in {"drained", "working"} => obj[states].active = 0

\* A deletion run holds on to the object of the map, whose deleting flag
\* stays up; past its drain nobody else is inside.
RunIsFenced ==
  run.phase # "none" =>
    /\ states # NoObject /\ run.obj = states /\ obj[states].deleting
    /\ run.phase # "waiting" => FullyDrained(obj[states])

\* Who is in use of the Session is in use of an object.
LeasesHaveObjects ==
  \A x \in Exclusives : lease[x].phase # "none" => states # NoObject

IInv ==
  /\ TypeOK
  /\ OneStateObject
  /\ PermitsCounted
  /\ DrainedIsEmpty
  /\ RunIsFenced
  /\ LeasesHaveObjects

Leases == [Exclusives -> [phase: {"none", "waiting", "drained", "working", "holding"},
                          obj: Objects \cup {NoObject}]]
DeletionRuns == [phase: {"none", "waiting", "drained", "working"}, obj: Objects \cup {NoObject}]

\* What settleState does to the object of the map when it has content st, ls
\* are the leases and rn is the run: it resolves drains, and it forgets an
\* object in no use.
SettlesTo(st, ls, rn) ==
  /\ states' \in {states, NoObject}
  /\ states' = NoObject <=> st.active = 0 /\ ~st.deleting /\ st.mutation = NoOne
  /\ obj' \in [Objects -> State]
  /\ obj'[states].active = st.active
  /\ obj'[states].deleting = st.deleting
  /\ obj'[states].mutation = st.mutation
  /\ lease' \in Leases
  /\ \A x \in Exclusives :
       /\ lease'[x].obj = ls[x].obj
       /\ \/ lease'[x].phase = ls[x].phase
          \/ ls[x].phase = "waiting" /\ lease'[x].phase = "drained" /\ st.active = 0
  /\ run' \in DeletionRuns
  /\ run'.obj = rn.obj
  /\ \/ run'.phase = rn.phase
     \/ rn.phase = "waiting" /\ run'.phase = "drained" /\ FullyDrained(st)

-----------------------------------------------------------------------------
(* The steps of the gate on the object of the map.                         *)

\* The object a call works on, as it finds it: the one of the map, or a new
\* one in a Session nobody uses.
LEMMA CandidateFacts ==
  ASSUME IInv, NEW o \in Candidates
  PROVE  /\ o \in Objects
         /\ StateOf(o) \in State
         /\ StateOf(o).active = Cardinality(Inside)
         /\ states # NoObject => o = states /\ StateOf(o) = obj[states]
         /\ states = NoObject =>
              /\ Inside = {} /\ run.phase = "none"
              /\ \A x \in Exclusives : lease[x].phase = "none"
              /\ StateOf(o) = createState
<1>1. o \in Objects
  BY DEF Candidates, IInv, TypeOK
<1>2. createState \in State
  BY DEF createState, State
<1>3. StateOf(o) \in State
  BY <1>1, <1>2 DEF StateOf, IInv, TypeOK
<1>4. CASE states # NoObject
  BY <1>1, <1>3, <1>4 DEF Candidates, StateOf, IInv, PermitsCounted
<1>5. CASE states = NoObject
  <2>1. Inside = {}
    BY <1>5 DEF Inside, IInv, OneStateObject
  <2>2. run.phase = "none" /\ \A x \in Exclusives : lease[x].phase = "none"
    BY <1>5 DEF IInv, RunIsFenced, LeasesHaveObjects
  <2>3. o # states /\ StateOf(o) = createState
    BY <1>1, <1>5, UsersAssumption DEF UsersAssumption, StateOf
  <2>4. Cardinality({}) = 0
    BY FS_EmptySet
  <2> QED BY <1>1, <1>3, <1>5, <2>1, <2>2, <2>3, <2>4 DEF createState
<1> QED BY <1>4, <1>5

\* The permits are finitely many.
LEMMA InsideFinite == IsFiniteSet(Inside)
BY FS_Subset, UsersAssumption DEF UsersAssumption, Inside

LEMMA SettleFacts ==
  ASSUME IInv, states # NoObject, NEW st \in State, NEW ls \in Leases, NEW rn \in DeletionRuns,
         SettleState(states, st, ls, rn)
  PROVE  SettlesTo(st, ls, rn)
<1>1. states \in Objects /\ obj \in [Objects -> State]
  BY DEF IInv, TypeOK
<1> DEFINE new == [st EXCEPT !.sharedDrain = @ /\ ~(st.active = 0),
                             !.fullDrain = @ /\ ~FullyDrained(st)]
<1>2. obj' = [obj EXCEPT ![states] = new]
  BY DEF SettleState
<1>3. /\ new \in State /\ new.active = st.active
      /\ new.deleting = st.deleting /\ new.mutation = st.mutation
  BY DEF State
<1>4. obj' \in [Objects -> State] /\ obj'[states] = new
  BY <1>1, <1>2, <1>3
<1>5. /\ states' \in {states, NoObject}
      /\ states' = NoObject <=> st.active = 0 /\ ~st.deleting /\ st.mutation = NoOne
  BY DEF SettleState, Forgotten
<1>6. /\ lease' \in Leases
      /\ \A x \in Exclusives :
           /\ lease'[x].obj = ls[x].obj
           /\ \/ lease'[x].phase = ls[x].phase
              \/ ls[x].phase = "waiting" /\ lease'[x].phase = "drained" /\ st.active = 0
  BY DEF SettleState, Leases
<1>7. /\ run' \in DeletionRuns
      /\ run'.obj = rn.obj
      /\ \/ run'.phase = rn.phase
         \/ rn.phase = "waiting" /\ run'.phase = "drained" /\ FullyDrained(st)
  BY DEF SettleState, DeletionRuns
<1> QED BY <1>3, <1>4, <1>5, <1>6, <1>7 DEF SettlesTo

\* A permit more: the user that was outside is counted.
LEMMA EnterCounts ==
  ASSUME IInv, NEW p \in Operations, NEW o \in Objects, permit[p] = NoObject,
         permit' = [permit EXCEPT ![p] = o]
  PROVE  Inside' = Inside \cup {p} /\ Cardinality(Inside') = Cardinality(Inside) + 1
                 /\ Cardinality(Inside) \in Nat
<1>1. Inside' = Inside \cup {p} /\ p \notin Inside
  BY UsersAssumption DEF UsersAssumption, Inside, IInv, TypeOK
<1> QED BY <1>1, InsideFinite, FS_AddElement, FS_CardinalityType

\* A permit less: the count was at least one.
LEMMA LeaveCounts ==
  ASSUME IInv, NEW p \in Operations, permit[p] # NoObject,
         permit' = [permit EXCEPT ![p] = NoObject]
  PROVE  /\ Inside' = Inside \ {p} /\ p \in Inside
         /\ Cardinality(Inside') = Cardinality(Inside) - 1
         /\ Cardinality(Inside') \in Nat /\ Cardinality(Inside) \in Nat
<1>1. Inside' = Inside \ {p} /\ p \in Inside
  BY DEF Inside, IInv, TypeOK
<1>2. IsFiniteSet(Inside \ {p}) /\ Cardinality(Inside \ {p}) = Cardinality(Inside) - 1
  BY <1>1, InsideFinite, FS_RemoveElement
<1> QED BY <1>1, <1>2, InsideFinite, FS_CardinalityType

-----------------------------------------------------------------------------
(* The invariant, action by action.                                        *)

LEMMA InitInv == Init => IInv
<1> SUFFICES ASSUME Init PROVE IInv
  OBVIOUS
<1>1. createState \in State
  BY DEF createState, State
<1>2. TypeOK
  BY <1>1 DEF Init, TypeOK, Idle
<1>3. OneStateObject /\ PermitsCounted /\ DrainedIsEmpty /\ RunIsFenced /\ LeasesHaveObjects
  BY DEF Init, Idle, OneStateObject, PermitsCounted, DrainedIsEmpty, RunIsFenced, LeasesHaveObjects
<1> QED BY <1>2, <1>3 DEF IInv

LEMMA TryEnterKeeps ==
  ASSUME IInv, NEW p \in Operations, TryEnter(p)
  PROVE  IInv'
<1>1. PICK o \in Candidates :
        /\ ~Closed(StateOf(o))
        /\ states' = o
        /\ obj' = [obj EXCEPT ![o] = [StateOf(o) EXCEPT !.active = @ + 1]]
        /\ permit' = [permit EXCEPT ![p] = o]
  BY DEF TryEnter
<1> DEFINE new == [StateOf(o) EXCEPT !.active = @ + 1]
<1>2. permit[p] = NoObject /\ UNCHANGED <<lease, run>>
  BY DEF TryEnter
<1>3. /\ o \in Objects /\ StateOf(o) \in State
      /\ StateOf(o).active = Cardinality(Inside)
      /\ states # NoObject => o = states /\ StateOf(o) = obj[states]
      /\ states = NoObject =>
           /\ Inside = {} /\ run.phase = "none"
           /\ \A x \in Exclusives : lease[x].phase = "none"
  BY CandidateFacts
<1>4. Cardinality(Inside') = Cardinality(Inside) + 1 /\ Cardinality(Inside) \in Nat
  BY <1>1, <1>2, <1>3, EnterCounts
<1>5. /\ new \in State /\ new.active = Cardinality(Inside')
      /\ new.deleting = StateOf(o).deleting /\ new.mutation = StateOf(o).mutation
  BY <1>3, <1>4 DEF State
<1>6. obj' \in [Objects -> State] /\ obj'[o] = new
  BY <1>1, <1>3, <1>5 DEF IInv, TypeOK
<1>7. TypeOK'
  BY <1>1, <1>2, <1>3, <1>6 DEF IInv, TypeOK
<1>8. \A x \in Exclusives : lease[x].phase = "none"
  BY <1>1, <1>3, UsersAssumption DEF UsersAssumption, Closed, IInv, OneStateObject
<1>9. run.phase = "none"
  BY <1>1, <1>3 DEF Closed, IInv, RunIsFenced
<1>10. OneStateObject'
  BY <1>1, <1>2, <1>3, <1>8 DEF OneStateObject, IInv, TypeOK, Inside
<1>11. PermitsCounted'
  BY <1>1, <1>5, <1>6 DEF PermitsCounted
<1> QED BY <1>2, <1>7, <1>8, <1>9, <1>10, <1>11
        DEF IInv, DrainedIsEmpty, RunIsFenced, LeasesHaveObjects

LEMMA LeaveKeeps ==
  ASSUME IInv, NEW p \in Operations, Leave(p)
  PROVE  IInv'
<1> DEFINE st == [obj[states] EXCEPT !.active = @ - 1]
<1>1. /\ permit[p] # NoObject /\ permit[p] = states /\ states # NoObject
      /\ permit' = [permit EXCEPT ![p] = NoObject]
      /\ SettleState(states, st, lease, run)
  BY DEF Leave, IInv, OneStateObject
<1>2. /\ Inside' = Inside \ {p} /\ p \in Inside
      /\ Cardinality(Inside') = Cardinality(Inside) - 1
      /\ Cardinality(Inside') \in Nat /\ Cardinality(Inside) \in Nat
  BY <1>1, LeaveCounts
<1>3. obj[states] \in State /\ obj[states].active = Cardinality(Inside)
  BY <1>1 DEF IInv, TypeOK, PermitsCounted
<1>4. /\ st \in State /\ st.active = Cardinality(Inside')
      /\ st.deleting = obj[states].deleting /\ st.mutation = obj[states].mutation
  BY <1>2, <1>3 DEF State
<1>5. SettlesTo(st, lease, run)
  <2> HIDE DEF st
  <2>1. lease \in Leases /\ run \in DeletionRuns
    BY DEF IInv, TypeOK, Leases, DeletionRuns
  <2> QED BY <1>1, <1>4, <2>1, SettleFacts
<1>6. TypeOK'
  BY <1>1, <1>5 DEF IInv, TypeOK, SettlesTo, Leases, DeletionRuns
<1>7. \A x \in Exclusives : lease[x].phase # "none" => states' = states
  BY <1>4, <1>5, UsersAssumption DEF UsersAssumption, IInv, OneStateObject, SettlesTo
<1>8. \A q \in Operations : permit'[q] # NoObject => states' = states
  <2> SUFFICES ASSUME NEW q \in Operations, permit'[q] # NoObject, states' # states PROVE FALSE
    OBVIOUS
  <2>1. q \in Inside' /\ Cardinality(Inside') = 0
    BY <1>4, <1>5 DEF Inside, SettlesTo
  <2>2. IsFiniteSet(Inside')
    BY <1>2, InsideFinite, FS_RemoveElement
  <2> QED BY <2>1, <2>2, FS_EmptySet
<1>9. OneStateObject'
  <2>1. \A q \in Operations : permit'[q] # NoObject => permit'[q] = states'
    BY <1>1, <1>8 DEF IInv, OneStateObject, TypeOK
  <2>2. \A x \in Exclusives : lease'[x].phase # "none" => lease[x].phase # "none"
    BY <1>5 DEF SettlesTo
  <2>3. \A x \in Exclusives : lease'[x].phase # "none" =>
          lease'[x].obj = states' /\ obj'[states'].mutation = x
    BY <1>4, <1>5, <1>7, <2>2 DEF IInv, OneStateObject, SettlesTo
  <2> QED BY <2>1, <2>3 DEF OneStateObject
<1>10. PermitsCounted'
  BY <1>1, <1>4, <1>5 DEF PermitsCounted, SettlesTo
<1>11. DrainedIsEmpty'
  <2> SUFFICES ASSUME NEW x \in Exclusives, lease'[x].phase \in {"drained", "working"}
               PROVE  obj'[states'].active = 0
    BY DEF DrainedIsEmpty
  <2>1. states' = states
    BY <1>5, <1>7 DEF SettlesTo
  <2>2. lease[x].phase \notin {"drained", "working"}
    <3>1. obj[states].active # 0
      BY <1>2, <1>3
    <3> QED BY <3>1 DEF IInv, DrainedIsEmpty
  <2> QED BY <1>5, <2>1, <2>2 DEF SettlesTo
<1>12. RunIsFenced'
  <2> SUFFICES ASSUME run'.phase # "none"
               PROVE  /\ states' # NoObject /\ run'.obj = states' /\ obj'[states'].deleting
                      /\ run'.phase # "waiting" => FullyDrained(obj'[states'])
    BY DEF RunIsFenced, FullyDrained
  <2>1. run.phase # "none"
    BY <1>5 DEF SettlesTo
  <2>2. run.obj = states /\ obj[states].deleting
    BY <2>1 DEF IInv, RunIsFenced
  <2>3. states' = states
    BY <1>4, <1>5, <2>2 DEF SettlesTo
  <2>4. run.phase \notin {"drained", "working"}
    <3>1. obj[states].active # 0
      BY <1>2, <1>3
    <3> QED BY <3>1 DEF IInv, RunIsFenced, FullyDrained
  <2> QED BY <1>1, <1>4, <1>5, <2>2, <2>3, <2>4 DEF IInv, TypeOK, FullyDrained, SettlesTo
<1>13. LeasesHaveObjects'
  BY <1>1, <1>5, <1>7 DEF LeasesHaveObjects, SettlesTo
<1> QED BY <1>6, <1>9, <1>10, <1>11, <1>12, <1>13 DEF IInv

LEMMA AcquireKeeps ==
  ASSUME IInv, NEW x \in Exclusives, TryAcquireExclusive(x)
  PROVE  IInv'
<1>1. PICK o \in Candidates :
        /\ ~Closed(StateOf(o))
        /\ states' = o
        /\ obj' = [obj EXCEPT ![o] = [StateOf(o) EXCEPT !.mutation = x,
                                        !.sharedDrain = @ \/ StateOf(o).active # 0]]
        /\ lease' = [lease EXCEPT ![x] = [phase |-> ExclusivePhase(x, StateOf(o)), obj |-> o]]
  BY DEF TryAcquireExclusive
<1> DEFINE new == [StateOf(o) EXCEPT !.mutation = x, !.sharedDrain = @ \/ StateOf(o).active # 0]
<1>2. UNCHANGED <<permit, run>>
  BY DEF TryAcquireExclusive
<1>3. /\ o \in Objects /\ StateOf(o) \in State
      /\ StateOf(o).active = Cardinality(Inside)
      /\ states # NoObject => o = states /\ StateOf(o) = obj[states]
      /\ states = NoObject =>
           /\ Inside = {} /\ run.phase = "none"
           /\ \A y \in Exclusives : lease[y].phase = "none"
  BY CandidateFacts
<1>4. /\ new \in State /\ new.active = StateOf(o).active
      /\ new.deleting = StateOf(o).deleting /\ new.mutation = x
  BY <1>3 DEF State
<1>5. obj' \in [Objects -> State] /\ obj'[o] = new
  BY <1>1, <1>3, <1>4 DEF IInv, TypeOK
<1>6. /\ ExclusivePhase(x, StateOf(o)) \in {"waiting", "drained", "holding"}
      /\ ExclusivePhase(x, StateOf(o)) = "drained" => StateOf(o).active = 0
  BY DEF ExclusivePhase
<1>7. TypeOK'
  BY <1>1, <1>2, <1>3, <1>5, <1>6 DEF IInv, TypeOK
<1>8. \A y \in Exclusives : lease[y].phase = "none"
  BY <1>1, <1>3, UsersAssumption DEF UsersAssumption, Closed, IInv, OneStateObject
<1>9. run.phase = "none"
  BY <1>1, <1>3 DEF Closed, IInv, RunIsFenced
<1>10. /\ lease'[x].phase = ExclusivePhase(x, StateOf(o)) /\ lease'[x].obj = o
       /\ \A y \in Exclusives : y # x => lease'[y].phase = "none"
  BY <1>1, <1>8 DEF IInv, TypeOK
<1>11. OneStateObject'
  <2>1. \A p \in Operations : permit'[p] # NoObject => permit'[p] = states'
    BY <1>1, <1>2, <1>3 DEF OneStateObject, IInv, Inside
  <2> QED BY <1>1, <1>4, <1>5, <1>10, <2>1 DEF OneStateObject
<1>12. PermitsCounted'
  BY <1>1, <1>2, <1>3, <1>4, <1>5 DEF PermitsCounted, Inside
<1>13. DrainedIsEmpty'
  BY <1>1, <1>4, <1>5, <1>6, <1>10 DEF DrainedIsEmpty
<1>14. LeasesHaveObjects'
  BY <1>1, <1>3, UsersAssumption DEF LeasesHaveObjects, UsersAssumption
<1> QED BY <1>2, <1>7, <1>9, <1>11, <1>12, <1>13, <1>14 DEF IInv, RunIsFenced

LEMMA ReleaseExclusiveKeeps ==
  ASSUME IInv, NEW x \in Exclusives, ReleaseExclusive(x)
  PROVE  IInv'
<1> DEFINE st == [obj[states] EXCEPT !.mutation = NoOne]
           ls == [lease EXCEPT ![x] = Idle]
<1>1. /\ lease[x].phase # "none" /\ lease[x].obj = states /\ states # NoObject
      /\ SettleState(states, st, ls, run)
      /\ UNCHANGED permit
  BY DEF ReleaseExclusive, IInv, OneStateObject, LeasesHaveObjects
<1>2. obj[states] \in State /\ obj[states].active = Cardinality(Inside)
  BY <1>1 DEF IInv, TypeOK, PermitsCounted
<1>3. /\ st \in State /\ st.active = Cardinality(Inside) /\ st.active = obj[states].active
      /\ st.deleting = obj[states].deleting /\ st.mutation = NoOne
  BY <1>2 DEF State
<1>4. ls \in Leases /\ run \in DeletionRuns
  BY DEF IInv, TypeOK, Leases, DeletionRuns, Idle
<1>5. ls[x].phase = "none"
  BY DEF IInv, TypeOK, Idle
<1>6. \A y \in Exclusives : ls[y].phase = "none"
  <2>1. \A y \in Exclusives : lease[y].phase # "none" => y = x
    BY <1>1 DEF IInv, OneStateObject
  <2> QED BY <1>5, <2>1 DEF IInv, TypeOK
<1>7. SettlesTo(st, ls, run)
  <2> HIDE DEF st, ls
  <2> QED BY <1>1, <1>3, <1>4, SettleFacts
<1>8. TypeOK'
  BY <1>1, <1>7 DEF IInv, TypeOK, SettlesTo, Leases, DeletionRuns
<1>9. \A y \in Exclusives : lease'[y].phase = "none"
  BY <1>6, <1>7 DEF SettlesTo
<1>10. \A q \in Operations : permit[q] # NoObject => states' = states
  <2> SUFFICES ASSUME NEW q \in Operations, permit[q] # NoObject, states' # states PROVE FALSE
    OBVIOUS
  <2>1. q \in Inside /\ Cardinality(Inside) = 0
    BY <1>3, <1>7 DEF Inside, SettlesTo
  <2> QED BY <2>1, InsideFinite, FS_EmptySet
<1>11. OneStateObject'
  BY <1>1, <1>9, <1>10 DEF IInv, OneStateObject
<1>12. PermitsCounted'
  BY <1>1, <1>3, <1>7 DEF PermitsCounted, SettlesTo, Inside
<1>13. RunIsFenced'
  <2> SUFFICES ASSUME run'.phase # "none"
               PROVE  /\ states' # NoObject /\ run'.obj = states' /\ obj'[states'].deleting
                      /\ run'.phase # "waiting" => FullyDrained(obj'[states'])
    BY DEF RunIsFenced, FullyDrained
  <2>1. run.phase # "none"
    BY <1>7 DEF SettlesTo
  <2>2. run.obj = states /\ obj[states].deleting
    BY <2>1 DEF IInv, RunIsFenced
  <2>3. states' = states
    BY <1>3, <1>7, <2>2 DEF SettlesTo
  <2>4. run.phase \notin {"drained", "working"}
    <3>1. obj[states].mutation # NoOne
      BY <1>1, UsersAssumption DEF UsersAssumption, IInv, OneStateObject
    <3> QED BY <3>1 DEF IInv, RunIsFenced, FullyDrained
  <2> QED BY <1>1, <1>3, <1>7, <2>2, <2>3, <2>4 DEF IInv, TypeOK, FullyDrained, SettlesTo
<1> QED BY <1>8, <1>9, <1>11, <1>12, <1>13 DEF IInv, DrainedIsEmpty, LeasesHaveObjects

LEMMA BlockKeeps ==
  ASSUME IInv, Block
  PROVE  IInv'
<1>1. PICK o \in Candidates :
        /\ states' = o
        /\ obj' = [obj EXCEPT ![o] = [StateOf(o) EXCEPT !.deleting = TRUE,
                                        !.fullDrain = @ \/ ~FullyDrained(StateOf(o))]]
        /\ run' = [phase |-> IF FullyDrained(StateOf(o)) THEN "drained" ELSE "waiting", obj |-> o]
  BY DEF Block
<1> DEFINE new == [StateOf(o) EXCEPT !.deleting = TRUE, !.fullDrain = @ \/ ~FullyDrained(StateOf(o))]
<1>2. UNCHANGED <<permit, lease>>
  BY DEF Block
<1>3. /\ o \in Objects /\ StateOf(o) \in State
      /\ StateOf(o).active = Cardinality(Inside)
      /\ states # NoObject => o = states /\ StateOf(o) = obj[states]
      /\ states = NoObject =>
           /\ Inside = {}
           /\ \A y \in Exclusives : lease[y].phase = "none"
  BY CandidateFacts
<1>4. /\ new \in State /\ new.active = StateOf(o).active
      /\ new.deleting /\ new.mutation = StateOf(o).mutation
  BY <1>3 DEF State
<1>5. obj' \in [Objects -> State] /\ obj'[o] = new
  BY <1>1, <1>3, <1>4 DEF IInv, TypeOK
<1>6. TypeOK'
  BY <1>1, <1>2, <1>3, <1>5 DEF IInv, TypeOK
<1>7. OneStateObject'
  <2>1. \A p \in Operations : permit[p] # NoObject => permit[p] = o
    BY <1>3 DEF OneStateObject, IInv, Inside
  <2>2. \A x \in Exclusives : lease[x].phase # "none" =>
          lease[x].obj = o /\ StateOf(o).mutation = x
    BY <1>3 DEF OneStateObject, IInv
  <2> QED BY <1>1, <1>2, <1>4, <1>5, <2>1, <2>2 DEF OneStateObject
<1>8. PermitsCounted'
  BY <1>1, <1>2, <1>3, <1>4, <1>5 DEF PermitsCounted, Inside
<1>9. DrainedIsEmpty'
  BY <1>1, <1>2, <1>3, <1>4, <1>5 DEF DrainedIsEmpty, IInv
<1>10. RunIsFenced'
  BY <1>1, <1>3, <1>4, <1>5, UsersAssumption DEF RunIsFenced, FullyDrained, UsersAssumption
<1>11. LeasesHaveObjects'
  BY <1>1, <1>3, UsersAssumption DEF LeasesHaveObjects, UsersAssumption
<1> QED BY <1>6, <1>7, <1>8, <1>9, <1>10, <1>11 DEF IInv

LEMMA ReleaseGateKeeps ==
  ASSUME IInv, ReleaseGate
  PROVE  IInv' /\ run' = Idle
<1> DEFINE st == [obj[states] EXCEPT !.deleting = FALSE]
<1>1. /\ states # NoObject /\ FullyDrained(obj[states])
      /\ SettleState(states, st, lease, Idle)
      /\ UNCHANGED permit
  BY DEF ReleaseGate, CanRelease
<1>2. obj[states] \in State /\ obj[states].active = Cardinality(Inside)
  BY <1>1 DEF IInv, TypeOK, PermitsCounted
<1>3. /\ st \in State /\ st.active = Cardinality(Inside) /\ st.active = 0
      /\ ~st.deleting /\ st.mutation = NoOne
  BY <1>1, <1>2 DEF State, FullyDrained
<1>4. lease \in Leases /\ Idle \in DeletionRuns
  BY DEF IInv, TypeOK, Leases, DeletionRuns, Idle
<1>5. SettlesTo(st, lease, Idle)
  <2> HIDE DEF st
  <2> QED BY <1>1, <1>3, <1>4, SettleFacts
<1>6. TypeOK'
  BY <1>1, <1>5 DEF IInv, TypeOK, SettlesTo, Leases, DeletionRuns
<1>7. \A q \in Operations : permit'[q] = NoObject
  BY <1>1, <1>3, InsideFinite, FS_EmptySet DEF Inside
<1>8. \A y \in Exclusives : lease[y].phase = "none"
  BY <1>1, UsersAssumption DEF UsersAssumption, IInv, OneStateObject, FullyDrained
<1>9. \A y \in Exclusives : lease'[y].phase = "none"
  BY <1>5, <1>8 DEF SettlesTo
<1>10. states' = NoObject
  BY <1>3, <1>5 DEF SettlesTo
<1>11. run' = Idle
  BY DEF ReleaseGate, SettleState, Idle
<1> QED BY <1>6, <1>7, <1>9, <1>10, <1>11
        DEF IInv, OneStateObject, PermitsCounted, DrainedIsEmpty, RunIsFenced, LeasesHaveObjects,
            Idle

LEMMA InvStep == IInv /\ [Next]_vars => IInv'
<1> SUFFICES ASSUME IInv, [Next]_vars PROVE IInv'
  OBVIOUS
<1>1. ASSUME NEW p \in Operations, TryEnter(p) PROVE IInv'
  BY <1>1, TryEnterKeeps
<1>2. ASSUME NEW p \in Operations, Leave(p) PROVE IInv'
  BY <1>2, LeaveKeeps
<1>3. ASSUME NEW x \in Exclusives, TryAcquireExclusive(x) PROVE IInv'
  BY <1>3, AcquireKeeps
<1>4. ASSUME NEW x \in Exclusives, ProceedExclusive(x) PROVE IInv'
  <2>1. \A y \in Exclusives : /\ lease'[y].obj = lease[y].obj
                              /\ lease'[y].phase = IF y = x THEN "working" ELSE lease[y].phase
    BY <1>4 DEF ProceedExclusive, IInv, TypeOK
  <2>2. TypeOK'
    BY <1>4 DEF ProceedExclusive, IInv, TypeOK
  <2> QED BY <1>4, <2>1, <2>2
          DEF ProceedExclusive, IInv, OneStateObject, PermitsCounted, Inside, DrainedIsEmpty,
              RunIsFenced, FullyDrained, LeasesHaveObjects
<1>5. ASSUME NEW x \in Exclusives, ReleaseExclusive(x) PROVE IInv'
  BY <1>5, ReleaseExclusiveKeeps
<1>6. CASE Block
  BY <1>6, BlockKeeps
<1>7. CASE ProceedDeletion
  <2>1. run' \in DeletionRuns /\ run'.phase = "working" /\ run'.obj = run.obj
    BY <1>7 DEF ProceedDeletion, IInv, TypeOK, DeletionRuns
  <2> QED BY <1>7, <2>1
          DEF ProceedDeletion, IInv, TypeOK, DeletionRuns, OneStateObject, PermitsCounted, Inside,
              DrainedIsEmpty, RunIsFenced, FullyDrained, LeasesHaveObjects
<1>8. CASE FailDeletion
  BY <1>8 DEF FailDeletion, Idle, IInv, TypeOK, OneStateObject, PermitsCounted, Inside,
              DrainedIsEmpty, RunIsFenced, LeasesHaveObjects
<1>9. CASE ReleaseGate
  BY <1>9, ReleaseGateKeeps
<1>10. CASE UNCHANGED vars
  BY <1>10 DEF vars, IInv, TypeOK, OneStateObject, PermitsCounted, Inside,
               DrainedIsEmpty, RunIsFenced, FullyDrained, LeasesHaveObjects
<1> QED BY <1>1, <1>2, <1>3, <1>4, <1>5, <1>6, <1>7, <1>8, <1>9, <1>10 DEF Next

LEMMA Invariance == Spec => []IInv
BY InitInv, InvStep, PTL DEF Spec

\* Every variable keeps its type: in particular the count of permits of
\* session-operation-gate.ts never falls below zero.
THEOREM TypeCorrect == Spec => []TypeOK
<1>1. IInv => TypeOK
  BY DEF IInv
<1> QED BY <1>1, Invariance, PTL

\* All permits and leases in use came from the object the map holds.
THEOREM OneObject == Spec => []OneStateObject
<1>1. IInv => OneStateObject
  BY DEF IInv
<1> QED BY <1>1, Invariance, PTL

-----------------------------------------------------------------------------
(* The gate implements SessionAccess: every step of it admits one user,    *)
(* lets one leave, or changes nothing the abstract specification sees.     *)

BusyHandoffs == {x \in Handoffs : lease[x].phase = "working"}
BusyRun == IF run.phase = "working" THEN {Deletion} ELSE {}

LEMMA WorkingParts == Working = Inside \cup BusyHandoffs \cup BusyRun
BY DEF Working, Inside, BusyHandoffs, BusyRun

\* The abstract steps, as the gate takes them.
LEMMA AdmitStep ==
  ASSUME NEW c \in Operations \cup Handoffs \cup {Deletion}, c \notin Working,
         IF c \in Operations THEN Working \subseteq Operations ELSE Working = {},
         Working' = Working \cup {c}
  PROVE  Access!Next
BY DEF Access!Next, Access!Admit

LEMMA LeaveStep ==
  ASSUME NEW c \in Operations \cup Handoffs \cup {Deletion}, c \in Working,
         Working' = Working \ {c}
  PROVE  Access!Next
BY DEF Access!Next, Access!Leave

\* The three kinds of users are different.
LEMMA UsersDiffer ==
  /\ Inside \cap Handoffs = {} /\ Deletion \notin Inside
  /\ Deletion \notin Handoffs /\ BusyHandoffs \subseteq Handoffs
  /\ Handoffs \cap Operations = {} /\ Deletion \notin Operations
BY UsersAssumption DEF UsersAssumption, Exclusives, Inside, BusyHandoffs

\* Whoever works alone holds the token or the fence.
LEMMA ExclusiveIsAlone ==
  ASSUME IInv
  PROVE  /\ \A x \in Exclusives : lease[x].phase \in {"drained", "working"} =>
              Inside = {} /\ run.phase \in {"none", "waiting"}
              /\ \A y \in Exclusives : lease[y].phase # "none" => y = x
         /\ run.phase \in {"drained", "working"} =>
              Inside = {} /\ \A y \in Exclusives : lease[y].phase = "none"
<1>1. ASSUME states # NoObject, obj[states].active = 0 PROVE Inside = {}
  BY <1>1, InsideFinite, FS_EmptySet DEF IInv, PermitsCounted
<1>2. ASSUME NEW x \in Exclusives, lease[x].phase \in {"drained", "working"}
      PROVE  Inside = {} /\ run.phase \in {"none", "waiting"}
             /\ \A y \in Exclusives : lease[y].phase # "none" => y = x
  <2>1. states # NoObject /\ obj[states].active = 0 /\ obj[states].mutation = x
    BY <1>2 DEF IInv, OneStateObject, LeasesHaveObjects, DrainedIsEmpty
  <2>2. run.phase \in {"none", "waiting"}
    BY <2>1, UsersAssumption DEF UsersAssumption, IInv, TypeOK, RunIsFenced, FullyDrained
  <2> QED BY <1>1, <2>1, <2>2 DEF IInv, OneStateObject
<1>3. ASSUME run.phase \in {"drained", "working"}
      PROVE  Inside = {} /\ \A y \in Exclusives : lease[y].phase = "none"
  <2>1. states # NoObject /\ obj[states].active = 0 /\ obj[states].mutation = NoOne
    BY <1>3 DEF IInv, RunIsFenced, FullyDrained
  <2> QED BY <1>1, <2>1, UsersAssumption DEF UsersAssumption, IInv, OneStateObject
<1> QED BY <1>2, <1>3

LEMMA TryEnterAdmits ==
  ASSUME IInv, NEW p \in Operations, TryEnter(p)
  PROVE  Access!Next
<1>1. PICK o \in Candidates : /\ ~Closed(StateOf(o))
                              /\ permit' = [permit EXCEPT ![p] = o]
  BY DEF TryEnter
<1>2. permit[p] = NoObject /\ UNCHANGED <<lease, run>>
  BY DEF TryEnter
<1>3. o \in Objects /\ (states # NoObject => StateOf(o) = obj[states])
      /\ (states = NoObject => run.phase = "none" /\ \A x \in Exclusives : lease[x].phase = "none")
  BY CandidateFacts
<1>4. Inside' = Inside \cup {p}
  BY <1>1, <1>2, <1>3, EnterCounts
<1>5. BusyHandoffs = {} /\ BusyRun = {}
  BY <1>1, <1>3, UsersAssumption
  DEF UsersAssumption, BusyHandoffs, BusyRun, Closed, IInv, OneStateObject, RunIsFenced, Exclusives
<1>6. BusyHandoffs' = {} /\ BusyRun' = {}
  BY <1>2, <1>5 DEF BusyHandoffs, BusyRun
<1>7. Working = Inside /\ Working' = Inside' /\ Inside \subseteq Operations /\ p \notin Inside
  BY <1>2, <1>5, <1>6, WorkingParts DEF Inside, Working, BusyHandoffs, BusyRun
<1> QED BY <1>4, <1>7, AdmitStep

LEMMA LeaveLeaves ==
  ASSUME IInv, NEW p \in Operations, Leave(p)
  PROVE  Access!Next
<1>1. permit[p] # NoObject /\ permit' = [permit EXCEPT ![p] = NoObject]
      /\ lease' = [x \in Exclusives |->
                     IF lease[x].phase = "waiting" /\ lease[x].obj = permit[p]
                        /\ [obj[permit[p]] EXCEPT !.active = @ - 1].active = 0
                     THEN [lease[x] EXCEPT !.phase = "drained"] ELSE lease[x]]
  BY DEF Leave, SettleState
<1>2. run'.phase = "working" <=> run.phase = "working"
  BY DEF Leave, SettleState, IInv, TypeOK
<1>3. Inside' = Inside \ {p} /\ p \in Inside
  BY <1>1, LeaveCounts
<1>4. \A x \in Exclusives : lease'[x].phase = "working" <=> lease[x].phase = "working"
  BY <1>1 DEF IInv, TypeOK
<1>5. BusyHandoffs' = BusyHandoffs /\ BusyRun' = BusyRun
  BY <1>2, <1>4 DEF BusyHandoffs, BusyRun, Exclusives
<1>6. Working' = Working \ {p} /\ p \in Working
  <2>1. p \notin BusyHandoffs /\ p \notin BusyRun
    BY UsersDiffer DEF BusyRun
  <2>2. Working' = Inside' \cup BusyHandoffs' \cup BusyRun'
    BY DEF Working, Inside, BusyHandoffs, BusyRun
  <2> QED BY <1>3, <1>5, <2>1, <2>2, WorkingParts
<1> QED BY <1>6, LeaveStep

LEMMA ProceedAdmits ==
  ASSUME IInv, NEW x \in Exclusives, ProceedExclusive(x)
  PROVE  Access!Next \/ Working' = Working
<1>1. lease[x].phase = "drained" /\ lease' = [lease EXCEPT ![x].phase = "working"]
      /\ UNCHANGED <<states, obj, permit, run>>
  BY DEF ProceedExclusive
<1>2. Inside' = Inside /\ BusyRun' = BusyRun
  BY <1>1 DEF Inside, BusyRun
<1>3. Working' = Inside' \cup BusyHandoffs' \cup BusyRun'
  BY DEF Working, Inside, BusyHandoffs, BusyRun
<1>4. \A y \in Exclusives : lease'[y].phase = IF y = x THEN "working" ELSE lease[y].phase
  BY <1>1 DEF IInv, TypeOK
<1>5. CASE x \in Handoffs
  <2>1. Working = {}
    BY <1>1, ExclusiveIsAlone, WorkingParts DEF BusyHandoffs, BusyRun, Exclusives
  <2>2. BusyHandoffs' = {x}
    BY <1>4, <1>5, <2>1, WorkingParts DEF BusyHandoffs, Exclusives
  <2>3. Working' = Working \cup {x}
    BY <1>2, <1>3, <2>1, <2>2, WorkingParts
  <2> QED BY <1>5, <2>1, <2>3, AdmitStep, UsersDiffer
<1>6. CASE x \notin Handoffs
  BY <1>2, <1>3, <1>4, <1>6, WorkingParts DEF BusyHandoffs, Exclusives
<1> QED BY <1>5, <1>6

LEMMA ReleaseLeaves ==
  ASSUME IInv, NEW x \in Exclusives, ReleaseExclusive(x)
  PROVE  Access!Next \/ Working' = Working
<1> DEFINE o == lease[x].obj
           ls == [lease EXCEPT ![x] = Idle]
<1>1. lease[x].phase # "none" /\ UNCHANGED permit
  BY DEF ReleaseExclusive
<1>2. \A y \in Exclusives : y # x => lease[y].phase = "none"
  BY <1>1 DEF IInv, OneStateObject
<1>3. \A y \in Exclusives : ls[y].phase = "none"
  BY <1>2 DEF IInv, TypeOK, Idle
<1>4. \A y \in Exclusives : lease'[y].phase = "none"
  BY <1>3 DEF ReleaseExclusive, SettleState
<1>5. run'.phase = "working" <=> run.phase = "working"
  BY DEF ReleaseExclusive, SettleState, IInv, TypeOK
<1>6. Inside' = Inside /\ BusyRun' = BusyRun /\ BusyHandoffs' = {}
  BY <1>1, <1>4, <1>5 DEF Inside, BusyRun, BusyHandoffs, Exclusives
<1>7. Working' = Inside' \cup BusyHandoffs' \cup BusyRun'
  BY DEF Working, Inside, BusyHandoffs, BusyRun
<1>8. BusyHandoffs \subseteq {x}
  BY <1>2 DEF BusyHandoffs, Exclusives
<1>9. CASE x \in BusyHandoffs
  <2>1. x \in Handoffs /\ x \notin Inside /\ x \notin BusyRun
    BY <1>9, UsersDiffer DEF BusyHandoffs, BusyRun
  <2>2. Working' = Working \ {x} /\ x \in Working
    BY <1>6, <1>7, <1>8, <1>9, <2>1, WorkingParts
  <2> QED BY <2>1, <2>2, LeaveStep
<1>10. CASE x \notin BusyHandoffs
  BY <1>6, <1>7, <1>8, <1>10, WorkingParts
<1> QED BY <1>9, <1>10

LEMMA AccessStep == IInv /\ [Next]_vars => [Access!Next]_Working
<1> SUFFICES ASSUME IInv, [Next]_vars PROVE Access!Next \/ Working' = Working
  OBVIOUS
<1>0. Working' = Inside' \cup BusyHandoffs' \cup BusyRun'
  BY DEF Working, Inside, BusyHandoffs, BusyRun
<1>1. ASSUME NEW p \in Operations, TryEnter(p) PROVE Access!Next
  BY <1>1, TryEnterAdmits
<1>2. ASSUME NEW p \in Operations, Leave(p) PROVE Access!Next
  BY <1>2, LeaveLeaves
<1>3. ASSUME NEW x \in Exclusives, TryAcquireExclusive(x) PROVE Working' = Working
  <2>1. \A y \in Exclusives : lease'[y].phase = "working" <=> lease[y].phase = "working"
    BY <1>3 DEF TryAcquireExclusive, ExclusivePhase, IInv, TypeOK
  <2>2. BusyHandoffs' = BusyHandoffs
    BY <2>1 DEF BusyHandoffs, Exclusives
  <2> QED BY <1>0, <1>3, <2>2, WorkingParts DEF TryAcquireExclusive, Inside, BusyRun
<1>4. ASSUME NEW x \in Exclusives, ProceedExclusive(x) PROVE Access!Next \/ Working' = Working
  BY <1>4, ProceedAdmits
<1>5. ASSUME NEW x \in Exclusives, ReleaseExclusive(x) PROVE Access!Next \/ Working' = Working
  BY <1>5, ReleaseLeaves
<1>6. CASE Block
  BY <1>0, <1>6, WorkingParts DEF Block, Inside, BusyHandoffs, BusyRun
<1>7. CASE ProceedDeletion
  <2>1. Working = {}
    BY <1>7, ExclusiveIsAlone, WorkingParts DEF ProceedDeletion, BusyHandoffs, BusyRun, Exclusives
  <2>2. run'.phase = "working" /\ UNCHANGED <<permit, lease>>
    BY <1>7 DEF ProceedDeletion, IInv, TypeOK
  <2>3. Working' = Working \cup {Deletion}
    BY <1>0, <2>1, <2>2, WorkingParts DEF Inside, BusyHandoffs, BusyRun
  <2> QED BY <2>1, <2>3, AdmitStep, UsersDiffer
<1>8. CASE FailDeletion
  <2>1. run' = Idle /\ UNCHANGED <<permit, lease>>
    BY <1>8 DEF FailDeletion
  <2>2. Working' = Working \ BusyRun
    <3>1. Working' = Inside \cup BusyHandoffs
      BY <1>0, <2>1 DEF Inside, BusyHandoffs, BusyRun, Idle
    <3>2. BusyRun \cap (Inside \cup BusyHandoffs) = {}
      BY UsersDiffer DEF BusyRun
    <3> QED BY <3>1, <3>2, WorkingParts
  <2> QED BY <2>2, LeaveStep, WorkingParts DEF BusyRun
<1>9. CASE ReleaseGate
  <2>1. UNCHANGED permit /\ run' = Idle
    BY <1>9, ReleaseGateKeeps DEF ReleaseGate
  <2>2. states # NoObject /\ obj[states].mutation = NoOne
    BY <1>9 DEF ReleaseGate, CanRelease, FullyDrained
  <2>3. \A y \in Exclusives : lease[y].phase = "none"
    BY <2>2, UsersAssumption DEF UsersAssumption, IInv, OneStateObject
  <2>4. \A y \in Exclusives : lease'[y].phase = "none"
    BY <1>9, <2>3 DEF ReleaseGate, SettleState
  <2>5. Inside' = Inside /\ BusyHandoffs' = {} /\ BusyHandoffs = {} /\ BusyRun' = {}
    BY <2>1, <2>3, <2>4 DEF Inside, BusyHandoffs, BusyRun, Exclusives, Idle
  <2>6. Working' = Working \ BusyRun
    BY <1>0, <2>5, WorkingParts, UsersDiffer DEF BusyRun
  <2> QED BY <2>6, LeaveStep, WorkingParts DEF BusyRun
<1>10. CASE UNCHANGED vars
  BY <1>10 DEF vars, Working
<1> QED BY <1>1, <1>2, <1>3, <1>4, <1>5, <1>6, <1>7, <1>8, <1>9, <1>10 DEF Next

\* The gate implements exclusive access: a handoff that was told that the
\* Session drained, and a deletion run past its drain, are alone with it.
THEOREM GateIsExclusive == Spec => ExclusiveAccess
<1>1. Init => Access!Init
  BY DEF Init, Access!Init, Working, Idle, Exclusives
<1> QED BY <1>1, AccessStep, Invariance, PTL DEF Spec, ExclusiveAccess, Access!Spec

=============================================================================

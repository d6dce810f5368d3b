------------------------- MODULE QueueDispatchProofs -------------------------
(***************************************************************************)
(* Proofs about QueueDispatch, for any runtimes and items and any bounds   *)
(* on claims and faults: a queued message is never lost, enters the host   *)
(* at most once and only from a committed delivery, is not overtaken, and  *)
(* the host runs under the Session's lock; until the first fault, what was *)
(* answered 'aborted' is not started.                                      *)
(***************************************************************************)
EXTENDS QueueDispatch, FiniteSetTheorems, SequenceTheorems, TLAPS

Types ==
  /\ rows \in Seq(Row) /\ claims \in 0..MaxClaims /\ paused \in BOOLEAN
  /\ ingress \subseteq TurnIds \X Claims
  /\ lock \in TurnIds \X (Runtimes \cup {Nobody})
  /\ messages \subseteq submitted /\ submitted \subseteq Items /\ dropped \subseteq submitted
  /\ up \in [Runtimes -> BOOLEAN] /\ startedAt \in [Runtimes -> 0..MaxClaims]
  /\ requested \in [Runtimes -> BOOLEAN] /\ recover \in [Runtimes -> BOOLEAN]
  /\ yielded \in [Runtimes -> SUBSET (Items \ Foreground)]
  /\ lanes \in [Runtimes -> [LaneNames -> Lane]]
  /\ entry \in [Runtimes -> Entry] /\ failing \in [Runtimes -> TurnIds]
  /\ pending \in [Runtimes -> SUBSET Items] /\ cancelling \in [Runtimes -> SUBSET Items]
  /\ \A p \in Runtimes : cancelling[p] \subseteq pending[p]
  /\ faults \in 0..MaxFaults /\ lapsed \subseteq TurnIds \X Runtimes
  /\ starts \in [Items -> Nat]

\* The lock belongs to the Turn in the controller unless its lease has lapsed;
\* what was admitted is in the table, so no Turn is admitted a second time.
Occupied(e) == e.at \in {"held", "failed", "released", "running", "ended"}
TurnIn(table, t) == t = NoTurn \/ \E g \in table : g[1] = t
LockIsHeld ==
  \A p \in Runtimes :
    /\ Occupied(entry[p]) =>
         /\ up[p] /\ TurnIn(ingress, entry[p].turn)
         /\ lock = <<entry[p].turn, p>> \/ <<entry[p].turn, p>> \in lapsed
    /\ failing[p] # NoTurn =>
         TurnIn(ingress, failing[p]) /\ (Occupied(entry[p]) => failing[p] # entry[p].turn)

\* The rows: one per item, at most one of them claimed, and what was admitted
\* under a claim has its attempt recorded.
RowsAreItems ==
  /\ \A k \in 1..Len(rows) : rows[k].item \in submitted /\ rows[k].claim <= claims
  /\ \A j, k \in 1..Len(rows) : rows[j].item = rows[k].item => j = k
OneClaim == \A j, k \in 1..Len(rows) : rows[j].claim # 0 /\ rows[k].claim # 0 => j = k
AcceptedIsTried ==
  \A k \in 1..Len(rows) :
    rows[k].claim # 0 /\ Accepted(rows[k].claim) => rows[k].tried = rows[k].claim
IngressIsPast == \A g \in ingress : g[2] <= claims

\* A lane that has a claim: the row of the claim, while there is one, is that
\* of its item; its Turn is admitted once, after the attempt is recorded; and
\* from then on only what yielded to this drain stands before it.
Early == {"claimed", "ready", "prepared"}
LaneOK(p, l) ==
  LET x == lanes[p][l] IN
  /\ x.at \notin {"idle", "top"} => x.claim # 0
  /\ x.claim # 0 => up[p] /\ x.claim <= claims /\ x.turn[1] \in submitted /\ x.at # "duplicate"
  /\ x.claim # 0 => \A k \in 1..Len(rows) : rows[k].claim = x.claim => rows[k].item = x.turn[1]
  /\ x.at \in Early => ~Accepted(x.claim)
  /\ x.at = "prepared" => \A k \in 1..Len(rows) : rows[k].claim = x.claim => rows[k].tried = x.claim
  /\ x.at = "committed" => x.turn[1] \in messages
  /\ x.at \in {"accepted", "committed"} =>
       \A j, k \in 1..Len(rows) : rows[k].claim = x.claim /\ j < k =>
         l = "drain" /\ rows[j].item \in yielded[p]
LanesOK == \A p \in Runtimes, l \in LaneNames : LaneOK(p, l)

ClaimsApart ==
  \A p, q \in Runtimes, l, m \in LaneNames :
    lanes[p][l].claim # 0 /\ lanes[p][l].claim = lanes[q][m].claim => p = q /\ l = m

\* What has left the queue for the host, or is about to.
Left(i) == (\A k \in 1..Len(rows) : rows[k].item # i) /\ i \in messages /\ i \notin dropped
StartsOK ==
  /\ \A i \in Items : starts[i] <= 1 /\ (starts[i] > 0 => Left(i))
  /\ \A p \in Runtimes :
       /\ entry[p].at \in {"held", "failed", "released"} => entry[p].turn[1] \in Items
       /\ entry[p].at = "released" => starts[entry[p].turn[1]] = 0 /\ Left(entry[p].turn[1])
  /\ \A p, q \in Runtimes :
       entry[p].at = "released" /\ entry[q].at = "released" /\ p # q =>
         entry[p].turn[1] # entry[q].turn[1]

\* Nothing that is queued was dropped, and what is neither is delivered.
Accounted ==
  /\ \A k \in 1..Len(rows) : rows[k].item \notin dropped
  /\ \A i \in submitted : (\E k \in 1..Len(rows) : rows[k].item = i) \/ i \in messages \/ i \in dropped

NoneOvertaken == overtaken = {}

RowsOK == RowsAreItems /\ OneClaim /\ AcceptedIsTried /\ IngressIsPast

IInv ==
  /\ Types /\ LockIsHeld /\ RowsOK /\ LanesOK /\ ClaimsApart
  /\ StartsOK /\ Accounted /\ NoneOvertaken

-----------------------------------------------------------------------------
(* The constants and the initial values.                                   *)

LEMMA Constants ==
  /\ Direct \notin Items /\ Nobody \notin Runtimes /\ MaxClaims \in Nat /\ MaxFaults \in Nat
  /\ NoTurn \in TurnIds /\ NoTurn[1] = Direct
  /\ \A t \in TurnIds : t = NoTurn \/ t[1] \in Items
  /\ NoLock \in TurnIds \X (Runtimes \cup {Nobody}) /\ NoLock[2] = Nobody
BY QueueAssumption DEF QueueAssumption, NoTurn, TurnIds, NoLock

LEMMA Records ==
  /\ Idle \in Lane /\ Idle.at = "idle" /\ Idle.claim = 0
  /\ NoEntry \in Entry /\ NoEntry.at = "none" /\ NoEntry.turn = NoTurn
BY Constants DEF Idle, Lane, LaneStates, NoEntry, Entry

LEMMA InitInv == Init => IInv
<1> SUFFICES ASSUME Init PROVE IInv
  OBVIOUS
<1>1. /\ lanes \in [Runtimes -> [LaneNames -> Lane]] /\ entry \in [Runtimes -> Entry]
      /\ \A p \in Runtimes, l \in LaneNames : lanes[p][l].at = "idle" /\ lanes[p][l].claim = 0
      /\ \A p \in Runtimes : entry[p].at = "none"
  BY Records DEF Init
<1>2. Len(rows) = 0 /\ rows \in Seq(Row)
  BY DEF Init
<1>3. Types
  <2>1. /\ claims \in 0..MaxClaims /\ faults \in 0..MaxFaults /\ startedAt \in [Runtimes -> 0..MaxClaims]
        /\ lapsed \subseteq TurnIds \X Runtimes
    BY Constants DEF Init
  <2>2. /\ paused \in BOOLEAN /\ up \in [Runtimes -> BOOLEAN] /\ requested \in [Runtimes -> BOOLEAN]
        /\ recover \in [Runtimes -> BOOLEAN]
    BY DEF Init
  <2>3. /\ ingress \subseteq TurnIds \X Claims /\ messages \subseteq submitted
        /\ submitted \subseteq Items /\ dropped \subseteq submitted
        /\ yielded \in [Runtimes -> SUBSET (Items \ Foreground)]
        /\ pending \in [Runtimes -> SUBSET Items] /\ cancelling \in [Runtimes -> SUBSET Items]
        /\ \A p \in Runtimes : cancelling[p] \subseteq pending[p]
    BY DEF Init
  <2>4. /\ lock \in TurnIds \X (Runtimes \cup {Nobody}) /\ failing \in [Runtimes -> TurnIds]
        /\ starts \in [Items -> Nat]
    BY Constants DEF Init
  <2> QED BY <1>1, <1>2, <2>1, <2>2, <2>3, <2>4 DEF Types
<1>4. LockIsHeld
  BY <1>1 DEF Init, LockIsHeld, Occupied
<1>5. RowsOK
  BY <1>2 DEF Init, RowsOK, RowsAreItems, OneClaim, AcceptedIsTried, IngressIsPast
<1>6. LanesOK /\ ClaimsApart
  BY <1>1 DEF LanesOK, LaneOK, Early, ClaimsApart
<1>7. StartsOK /\ Accounted /\ NoneOvertaken
  BY <1>1, <1>2 DEF Init, StartsOK, Accounted, NoneOvertaken
<1> QED BY <1>3, <1>4, <1>5, <1>6, <1>7 DEF IInv

-----------------------------------------------------------------------------
(* Rows that stay or go: the writes of the repository keep the order of    *)
(* what they keep, give up claims, and record the attempt of a claim.      *)

Shrinks(new) ==
  \E f \in [1..Len(new) -> 1..Len(rows)] :
    /\ \A j, k \in 1..Len(new) : j < k => f[j] < f[k]
    /\ \A k \in 1..Len(new) :
         /\ new[k].item = rows[f[k]].item
         /\ new[k].claim = 0 \/ new[k].claim = rows[f[k]].claim
         /\ new[k].tried = rows[f[k]].tried \/ new[k].tried = rows[f[k]].claim

\* The same, with no row gone.
Keeps(new) ==
  /\ new \in Seq(Row) /\ Len(new) = Len(rows)
  /\ \A k \in 1..Len(rows) :
       /\ new[k].item = rows[k].item
       /\ new[k].claim = 0 \/ new[k].claim = rows[k].claim
       /\ new[k].tried = rows[k].tried \/ new[k].tried = rows[k].claim

\* One row gone.
Loses(new, i) ==
  /\ new \in Seq(Row) /\ Shrinks(new)
  /\ \A k \in 1..Len(new) : new[k].item # i
  /\ \A k \in 1..Len(rows) : rows[k].item = i \/ \E j \in 1..Len(new) : new[j].item = rows[k].item

\* A function on 1..n is a sequence of length n.
LEMMA FunctionIsSeq ==
  ASSUME NEW S, NEW n \in Nat, NEW f \in [1..n -> S]
  PROVE  f \in Seq(S) /\ Len(f) = n
OBVIOUS

LEMMA RowTypes ==
  ASSUME IInv
  PROVE  /\ rows \in Seq(Row) /\ Len(rows) \in Nat /\ DOMAIN rows = 1..Len(rows)
         /\ \A k \in 1..Len(rows) :
              /\ rows[k] \in Row /\ rows[k].item \in Items
              /\ rows[k].claim \in Nat /\ rows[k].claim \in 0..MaxClaims
<1>1. rows \in Seq(Row) /\ Len(rows) \in Nat /\ DOMAIN rows = 1..Len(rows)
  BY DEF IInv, Types
<1>2. \A k \in 1..Len(rows) : rows[k] \in Row
  BY <1>1
<1> QED BY <1>1, <1>2, Constants DEF Row

LEMMA KeepsShrinks ==
  ASSUME IInv, NEW new, Keeps(new)
  PROVE  Shrinks(new)
<1> DEFINE f == [k \in 1..Len(rows) |-> k]
<1>1. f \in [1..Len(new) -> 1..Len(rows)] /\ \A k \in 1..Len(new) : f[k] = k
  BY DEF Keeps
<1>2. \A j, k \in 1..Len(new) : j < k => f[j] < f[k]
  BY <1>1
<1>3. \A k \in 1..Len(new) :
         /\ new[k].item = rows[f[k]].item
         /\ new[k].claim = 0 \/ new[k].claim = rows[f[k]].claim
         /\ new[k].tried = rows[f[k]].tried \/ new[k].tried = rows[f[k]].claim
  BY <1>1 DEF Keeps
<1> HIDE DEF f
<1> QED BY <1>1, <1>2, <1>3 DEF Shrinks

LEMMA SameKeeps ==
  ASSUME IInv
  PROVE  Keeps(rows)
BY RowTypes DEF Keeps

\* withoutClaim, and the record of a delivery attempt.
LEMMA ReleasedKeeps ==
  ASSUME IInv, NEW c
  PROVE  Keeps(Released(c)) /\ \A k \in 1..Len(rows) : c # 0 => Released(c)[k].claim # c
<1> DEFINE settled(k) == IF rows[k].claim = c THEN [rows[k] EXCEPT !.claim = 0, !.by = Nobody] ELSE rows[k]
<1>1. \A k \in 1..Len(rows) :
        /\ settled(k) \in Row /\ settled(k).item = rows[k].item
        /\ settled(k).claim = 0 \/ settled(k).claim = rows[k].claim
        /\ settled(k).tried = rows[k].tried /\ (c # 0 => settled(k).claim # c)
  <2> SUFFICES ASSUME NEW k \in 1..Len(rows)
               PROVE  /\ settled(k) \in Row /\ settled(k).item = rows[k].item
                      /\ settled(k).claim = 0 \/ settled(k).claim = rows[k].claim
                      /\ settled(k).tried = rows[k].tried /\ (c # 0 => settled(k).claim # c)
    OBVIOUS
  <2>1. rows[k] \in Row
    BY RowTypes
  <2>2. CASE rows[k].claim = c
    <3> DEFINE free == [rows[k] EXCEPT !.claim = 0, !.by = Nobody]
    <3>1. 0 \in 0..MaxClaims
      BY Constants
    <3>2. /\ free \in Row /\ free.item = rows[k].item /\ free.claim = 0
          /\ free.tried = rows[k].tried
      BY <2>1, <3>1 DEF Row
    <3> QED BY <2>2, <3>2
  <2>3. CASE rows[k].claim # c
    BY <2>1, <2>3
  <2> QED BY <2>2, <2>3
<1>2. Released(c) = [k \in 1..Len(rows) |-> settled(k)]
  BY RowTypes DEF Released
<1> HIDE DEF settled
<1>3. Released(c) \in [1..Len(rows) -> Row] /\ \A k \in 1..Len(rows) : Released(c)[k] = settled(k)
  BY <1>1, <1>2
<1>4. Released(c) \in Seq(Row) /\ Len(Released(c)) = Len(rows)
  BY <1>3, RowTypes, FunctionIsSeq
<1> QED BY <1>1, <1>3, <1>4 DEF Keeps

Tried(c) ==
  [k \in DOMAIN rows |-> IF rows[k].claim = c THEN [rows[k] EXCEPT !.tried = c] ELSE rows[k]]

LEMMA TriedKeeps ==
  ASSUME IInv, NEW c \in 0..MaxClaims
  PROVE  Keeps(Tried(c)) /\ \A k \in 1..Len(rows) : Tried(c)[k].claim = c => Tried(c)[k].tried = c
<1> DEFINE marked(k) == IF rows[k].claim = c THEN [rows[k] EXCEPT !.tried = c] ELSE rows[k]
<1>1. \A k \in 1..Len(rows) :
        /\ marked(k) \in Row /\ marked(k).item = rows[k].item /\ marked(k).claim = rows[k].claim
        /\ marked(k).tried = rows[k].tried \/ marked(k).tried = rows[k].claim
        /\ marked(k).claim = c => marked(k).tried = c
  <2> SUFFICES ASSUME NEW k \in 1..Len(rows)
               PROVE  /\ marked(k) \in Row /\ marked(k).item = rows[k].item
                      /\ marked(k).claim = rows[k].claim
                      /\ marked(k).tried = rows[k].tried \/ marked(k).tried = rows[k].claim
                      /\ marked(k).claim = c => marked(k).tried = c
    OBVIOUS
  <2>1. rows[k] \in Row
    BY RowTypes
  <2> QED BY <2>1 DEF Row
<1>2. Tried(c) = [k \in 1..Len(rows) |-> marked(k)]
  BY RowTypes DEF Tried
<1> HIDE DEF marked
<1>3. Tried(c) \in [1..Len(rows) -> Row] /\ \A k \in 1..Len(rows) : Tried(c)[k] = marked(k)
  BY <1>1, <1>2
<1>4. Tried(c) \in Seq(Row) /\ Len(Tried(c)) = Len(rows)
  BY <1>3, RowTypes, FunctionIsSeq
<1> QED BY <1>1, <1>3, <1>4 DEF Keeps

\* deleteItem: the rows after the deleted one move up.
LEMMA RemoveAtFacts ==
  ASSUME IInv, NEW n \in 1..Len(rows)
  PROVE  LET new == RemoveAt(rows, n)
         IN  /\ new \in Seq(Row) /\ Len(new) = Len(rows) - 1
             /\ \A k \in 1..Len(new) : /\ k < n => new[k] = rows[k]
                                       /\ k >= n => new[k] = rows[k + 1]
<1> DEFINE a == SubSeq(rows, 1, n - 1)
           b == SubSeq(rows, n + 1, Len(rows))
<1>1. rows \in Seq(Row) /\ Len(rows) \in Nat
  BY RowTypes
<1>2. /\ a \in Seq(Row) /\ Len(a) = n - 1
      /\ \A k \in 1..(n - 1) : a[k] = rows[k]
  BY <1>1
<1>3. /\ b \in Seq(Row) /\ Len(b) = Len(rows) - n
      /\ \A k \in 1..(Len(rows) - n) : b[k] = rows[n + k]
  BY <1>1
<1> HIDE DEF a, b
<1>4. /\ a \o b \in Seq(Row) /\ Len(a \o b) = Len(a) + Len(b)
      /\ \A k \in 1..(Len(a) + Len(b)) :
           (a \o b)[k] = IF k <= Len(a) THEN a[k] ELSE b[k - Len(a)]
  BY <1>2, <1>3, ConcatProperties
<1>5. RemoveAt(rows, n) = a \o b
  BY DEF RemoveAt, a, b
<1>6. Len(a) + Len(b) = Len(rows) - 1
  BY <1>1, <1>2, <1>3
<1>7. ASSUME NEW k \in 1..(Len(rows) - 1), k < n
      PROVE  (a \o b)[k] = rows[k]
  BY <1>1, <1>2, <1>4, <1>6, <1>7
<1>8. ASSUME NEW k \in 1..(Len(rows) - 1), k >= n
      PROVE  (a \o b)[k] = rows[k + 1]
  <2>1. k - (n - 1) \in 1..(Len(rows) - n) /\ n + (k - (n - 1)) = k + 1 /\ ~(k <= n - 1)
    BY <1>1, <1>8
  <2>2. (a \o b)[k] = b[k - (n - 1)]
    BY <1>1, <1>2, <1>4, <1>6, <2>1
  <2> QED BY <1>3, <2>1, <2>2
<1> QED BY <1>4, <1>5, <1>6, <1>7, <1>8

LEMMA RemoveAtLoses ==
  ASSUME IInv, NEW n \in 1..Len(rows)
  PROVE  Loses(RemoveAt(rows, n), rows[n].item)
<1> DEFINE new == RemoveAt(rows, n)
           f == [k \in 1..Len(new) |-> IF k < n THEN k ELSE k + 1]
<1>1. Len(rows) \in Nat /\ rows \in Seq(Row)
  BY RowTypes
<1>2. /\ new \in Seq(Row) /\ Len(new) = Len(rows) - 1
      /\ \A k \in 1..Len(new) : /\ k < n => new[k] = rows[k]
                                /\ k >= n => new[k] = rows[k + 1]
  BY RemoveAtFacts
<1> HIDE DEF new
<1>3. /\ f \in [1..Len(new) -> 1..Len(rows)]
      /\ \A k \in 1..Len(new) : f[k] = IF k < n THEN k ELSE k + 1
  BY <1>1, <1>2
<1> HIDE DEF f
<1>4. \A k \in 1..Len(new) : new[k] = rows[f[k]] /\ f[k] # n /\ f[k] \in 1..Len(rows)
  <2> SUFFICES ASSUME NEW k \in 1..Len(new)
               PROVE  new[k] = rows[f[k]] /\ f[k] # n /\ f[k] \in 1..Len(rows)
    OBVIOUS
  <2>1. CASE k < n
    BY <1>1, <1>2, <1>3, <2>1
  <2>2. CASE k >= n
    BY <1>1, <1>2, <1>3, <2>2
  <2> QED BY <1>1, <1>2, <2>1, <2>2
<1>5. \A j, k \in 1..Len(new) : j < k => f[j] < f[k]
  BY <1>1, <1>2, <1>3
<1>6. Shrinks(new)
  BY <1>3, <1>4, <1>5 DEF Shrinks
<1>7. \A k \in 1..Len(new) : new[k].item # rows[n].item
  BY <1>4 DEF IInv, RowsOK, RowsAreItems
<1>8. ASSUME NEW k \in 1..Len(rows), k # n
      PROVE  \E j \in 1..Len(new) : new[j].item = rows[k].item
  <2>1. CASE k < n
    <3>1. k \in 1..Len(new) /\ new[k] = rows[k]
      BY <1>1, <1>2, <2>1
    <3> QED BY <3>1
  <2>2. CASE k > n
    <3>1. k - 1 \in 1..Len(new) /\ k - 1 >= n /\ (k - 1) + 1 = k
      BY <1>1, <1>2, <2>2
    <3>2. new[k - 1] = rows[k]
      BY <1>2, <3>1
    <3> QED BY <3>1, <3>2
  <2> QED BY <1>1, <1>8, <2>1, <2>2
<1>9. \A k \in 1..Len(rows) :
        rows[k].item = rows[n].item \/ \E j \in 1..Len(new) : new[j].item = rows[k].item
  BY <1>8
<1>10. Loses(new, rows[n].item)
  BY <1>2, <1>6, <1>7, <1>9 DEF Loses
<1> QED BY <1>10 DEF new

\* The row of a claim that is held, deleted.
LEMMA RemovedLoses ==
  ASSUME IInv, NEW c, Holds(c)
  PROVE  \E n \in 1..Len(rows) : rows[n].claim = c /\ Loses(Removed(c), rows[n].item)
<1>1. DOMAIN rows = 1..Len(rows)
  BY RowTypes
<1> DEFINE n == CHOOSE k \in DOMAIN rows : rows[k].claim = c
<1>2. n \in 1..Len(rows) /\ rows[n].claim = c
  BY <1>1 DEF Holds
<1>3. Removed(c) = RemoveAt(rows, n)
  BY DEF Removed
<1> HIDE DEF n
<1> QED BY <1>2, <1>3, RemoveAtLoses

\* recoverClaims: a claim whose Turn was admitted has its attempt recorded, so
\* no row is deleted; it only gives up claims.
LEMMA RecoveredKeeps ==
  ASSUME IInv, NEW scope, NEW expired \in BOOLEAN
  PROVE  Keeps(Recovered(scope, expired))
<1> DEFINE inactive(r) == r.claim # 0 /\ ~ActiveClaim(r, scope, expired)
           kept == {k \in DOMAIN rows : inactive(rows[k]) /\ Accepted(rows[k].claim)
                                          => PendingDelivery(rows[k])}
           nth(n) == CHOOSE k \in kept : Cardinality({j \in kept : j <= k}) = n
           settled(r) == IF inactive(r) THEN [r EXCEPT !.claim = 0, !.by = Nobody] ELSE r
<1>1. Len(rows) \in Nat /\ DOMAIN rows = 1..Len(rows)
  BY RowTypes
<1>2. kept = 1..Len(rows)
  BY <1>1 DEF IInv, RowsOK, AcceptedIsTried, PendingDelivery
<1>3. Recovered(scope, expired) = [n \in 1..Cardinality(kept) |-> settled(rows[nth(n)])]
  BY DEF Recovered
<1>4. Cardinality(kept) = Len(rows)
  <2>1. Cardinality(1..Len(rows)) = Len(rows)
    BY <1>1, FS_Interval, SMTT(30)
  <2> QED BY <1>2, <2>1
<1>5. \A k \in 1..Len(rows) : Cardinality({j \in kept : j <= k}) = k
  <2> SUFFICES ASSUME NEW k \in 1..Len(rows)
               PROVE  Cardinality({j \in kept : j <= k}) = k
    OBVIOUS
  <2>1. {j \in kept : j <= k} = 1..k
    BY <1>1, <1>2
  <2>2. Cardinality(1..k) = k
    BY <1>1, FS_Interval
  <2> QED BY <2>1, <2>2
<1>6. \A n \in 1..Len(rows) : nth(n) = n
  BY <1>2, <1>5
<1> HIDE DEF nth, kept
<1>7. \A k \in 1..Len(rows) :
        /\ settled(rows[k]) \in Row /\ settled(rows[k]).item = rows[k].item
        /\ settled(rows[k]).claim = 0 \/ settled(rows[k]).claim = rows[k].claim
        /\ settled(rows[k]).tried = rows[k].tried
  <2> SUFFICES ASSUME NEW k \in 1..Len(rows)
               PROVE  /\ settled(rows[k]) \in Row /\ settled(rows[k]).item = rows[k].item
                      /\ settled(rows[k]).claim = 0 \/ settled(rows[k]).claim = rows[k].claim
                      /\ settled(rows[k]).tried = rows[k].tried
    OBVIOUS
  <2>1. rows[k] \in Row /\ 0 \in 0..MaxClaims
    BY RowTypes, Constants
  <2> DEFINE free == [rows[k] EXCEPT !.claim = 0, !.by = Nobody]
  <2>2. free \in Row /\ free.item = rows[k].item /\ free.claim = 0 /\ free.tried = rows[k].tried
    BY <2>1 DEF Row
  <2>3. settled(rows[k]) = rows[k] \/ settled(rows[k]) = free
    OBVIOUS
  <2> HIDE DEF free, settled
  <2> QED BY <2>1, <2>2, <2>3
<1> HIDE DEF settled, inactive
<1>8. /\ Recovered(scope, expired) \in [1..Len(rows) -> Row]
      /\ \A k \in 1..Len(rows) : Recovered(scope, expired)[k] = settled(rows[k])
  BY <1>3, <1>4, <1>6, <1>7
<1>9. Recovered(scope, expired) \in Seq(Row) /\ Len(Recovered(scope, expired)) = Len(rows)
  BY <1>1, <1>8, FunctionIsSeq
<1> QED BY <1>7, <1>8, <1>9 DEF Keeps

-----------------------------------------------------------------------------
(* What such a write leaves true.                                          *)

LEMMA ShrinkRows ==
  ASSUME IInv, rows' \in Seq(Row), Shrinks(rows'), UNCHANGED <<claims, ingress, submitted>>
  PROVE  RowsOK'
<1>1. PICK f \in [1..Len(rows') -> 1..Len(rows)] :
        /\ \A j, k \in 1..Len(rows') : j < k => f[j] < f[k]
        /\ \A k \in 1..Len(rows') :
             /\ rows'[k].item = rows[f[k]].item
             /\ rows'[k].claim = 0 \/ rows'[k].claim = rows[f[k]].claim
             /\ rows'[k].tried = rows[f[k]].tried \/ rows'[k].tried = rows[f[k]].claim
  BY DEF Shrinks
<1>2. \A j, k \in 1..Len(rows') : f[j] = f[k] => j = k
  <2>1. Len(rows') \in Nat /\ Len(rows) \in Nat
    BY RowTypes
  <2> QED BY <1>1, <2>1
<1>3. \A k \in 1..Len(rows') : f[k] \in 1..Len(rows)
  OBVIOUS
<1>4. 0 <= claims /\ claims' = claims
  BY Constants DEF IInv, Types
<1>5. RowsAreItems'
  <2>1. \A k \in 1..Len(rows') : rows'[k].item \in submitted' /\ rows'[k].claim <= claims'
    <3> SUFFICES ASSUME NEW k \in 1..Len(rows')
                 PROVE  rows'[k].item \in submitted' /\ rows'[k].claim <= claims'
      OBVIOUS
    <3>1. rows[f[k]].item \in submitted /\ rows[f[k]].claim <= claims
      BY <1>3 DEF IInv, RowsOK, RowsAreItems
    <3> QED BY <1>1, <1>4, <3>1
  <2>2. \A j, k \in 1..Len(rows') : rows'[j].item = rows'[k].item => j = k
    BY <1>1, <1>2, <1>3 DEF IInv, RowsOK, RowsAreItems
  <2> QED BY <2>1, <2>2 DEF RowsAreItems
<1>6. OneClaim'
  BY <1>1, <1>2, <1>3 DEF IInv, RowsOK, OneClaim
<1>7. AcceptedIsTried' /\ IngressIsPast'
  BY <1>1, <1>3, <1>4 DEF IInv, RowsOK, AcceptedIsTried, IngressIsPast, Accepted
<1> QED BY <1>5, <1>6, <1>7 DEF RowsOK

AdmittedIn(table, c) == \E g \in table : g[2] = c

\* A lane that goes on with its claim where it was: nothing admitted under it
\* meanwhile, nothing put before it, no yield forgotten.
LEMMA LaneKept ==
  ASSUME IInv, NEW p \in Runtimes, NEW l \in LaneNames,
         lanes'[p][l].at = lanes[p][l].at, lanes'[p][l].claim = lanes[p][l].claim,
         lanes'[p][l].turn = lanes[p][l].turn, lanes[p][l].claim # 0 => up'[p],
         Shrinks(rows'), claims <= claims',
         lanes[p][l].at \in Early =>
           (AdmittedIn(ingress', lanes[p][l].claim) => AdmittedIn(ingress, lanes[p][l].claim)),
         messages \subseteq messages', submitted \subseteq submitted',
         l = "drain" /\ lanes[p][l].at \in {"accepted", "committed"} => yielded[p] \subseteq yielded'[p],
         claims' \in Nat
  PROVE  LaneOK(p, l)'
<1> DEFINE x == lanes[p][l]
           y == lanes'[p][l]
<1>1. LaneOK(p, l) /\ x.claim \in Nat /\ claims \in Nat
  BY Constants DEF IInv, LanesOK, Types, Lane
<1>2. PICK f \in [1..Len(rows') -> 1..Len(rows)] :
        /\ \A j, k \in 1..Len(rows') : j < k => f[j] < f[k]
        /\ \A k \in 1..Len(rows') :
             /\ rows'[k].item = rows[f[k]].item
             /\ rows'[k].claim = 0 \/ rows'[k].claim = rows[f[k]].claim
             /\ rows'[k].tried = rows[f[k]].tried \/ rows'[k].tried = rows[f[k]].claim
  BY DEF Shrinks
<1>3. \A k \in 1..Len(rows') : f[k] \in 1..Len(rows)
  OBVIOUS
<1>4. /\ y.at \notin {"idle", "top"} => y.claim # 0
      /\ y.claim # 0 => up'[p] /\ y.claim <= claims' /\ y.turn[1] \in submitted' /\ y.at # "duplicate"
      /\ y.at = "committed" => y.turn[1] \in messages'
  BY <1>1 DEF LaneOK
<1>5. y.claim # 0 => \A k \in 1..Len(rows') : rows'[k].claim = y.claim => rows'[k].item = y.turn[1]
  BY <1>1, <1>2, <1>3, SMTT(30) DEF LaneOK
<1>6. y.at \in Early => ~AdmittedIn(ingress', y.claim)
  BY <1>1 DEF LaneOK, Accepted, AdmittedIn
<1>7. y.at = "prepared" => \A k \in 1..Len(rows') : rows'[k].claim = y.claim => rows'[k].tried = y.claim
  BY <1>1, <1>2, <1>3 DEF LaneOK
<1>8. y.at \in {"accepted", "committed"} =>
        \A j, k \in 1..Len(rows') : rows'[k].claim = y.claim /\ j < k =>
          l = "drain" /\ rows'[j].item \in yielded'[p]
  BY <1>1, <1>2, <1>3, SMTT(30) DEF LaneOK
<1> QED BY <1>4, <1>5, <1>6, <1>7, <1>8 DEF LaneOK, Accepted, AdmittedIn

\* A lane without a claim has nothing to keep.
LEMMA LaneFree ==
  ASSUME NEW p \in Runtimes, NEW l \in LaneNames,
         lanes'[p][l].at \in {"idle", "top"}, lanes'[p][l].claim = 0
  PROVE  LaneOK(p, l)'
BY DEF LaneOK, Early

\* The step of one lane, which keeps its claim or gives it up.
LEMMA LaneTypes ==
  ASSUME IInv, NEW p \in Runtimes, NEW l \in LaneNames, NEW x \in Lane,
         lanes' = [lanes EXCEPT ![p][l] = x]
  PROVE  /\ lanes' \in [Runtimes -> [LaneNames -> Lane]] /\ lanes'[p][l] = x
         /\ \A q \in Runtimes, m \in LaneNames :
              q # p \/ m # l => lanes'[q][m] = lanes[q][m]
BY DEF IInv, Types

LEMMA LanesStep ==
  ASSUME IInv, NEW p \in Runtimes, NEW l \in LaneNames, NEW x \in Lane,
         lanes' = [lanes EXCEPT ![p][l] = x],
         x.claim = 0 \/ x.claim = lanes[p][l].claim,
         LaneOK(p, l)', up' = up, Shrinks(rows'), claims' = claims, submitted' = submitted,
         \A q \in Runtimes, m \in LaneNames : (q # p \/ m # l) /\ lanes[q][m].at \in Early =>
           (AdmittedIn(ingress', lanes[q][m].claim) => AdmittedIn(ingress, lanes[q][m].claim)),
         messages \subseteq messages',
         \A q \in Runtimes : lanes[q]["drain"].at \in {"accepted", "committed"} =>
           yielded[q] \subseteq yielded'[q]
  PROVE  lanes' \in [Runtimes -> [LaneNames -> Lane]] /\ LanesOK' /\ ClaimsApart'
<1>1. /\ lanes' \in [Runtimes -> [LaneNames -> Lane]] /\ lanes'[p][l] = x
      /\ \A q \in Runtimes, m \in LaneNames : q # p \/ m # l => lanes'[q][m] = lanes[q][m]
  <2>1. lanes \in [Runtimes -> [LaneNames -> Lane]]
    BY DEF IInv, Types
  <2> QED BY <2>1
<1>2. claims \in Nat /\ claims <= claims
  BY Constants DEF IInv, Types
<1>3. LanesOK'
  <2> SUFFICES ASSUME NEW q \in Runtimes, NEW m \in LaneNames
               PROVE  LaneOK(q, m)'
    BY DEF LanesOK
  <2>1. CASE q = p /\ m = l
    BY <2>1
  <2>2. CASE q # p \/ m # l
    <3>1. lanes'[q][m] = lanes[q][m]
      BY <1>1, <2>2
    <3>2. lanes[q][m].claim # 0 => up'[q]
      BY DEF IInv, LanesOK, LaneOK
    <3> QED BY <1>2, <2>2, <3>1, <3>2, LaneKept
  <2> QED BY <2>1, <2>2
<1>4. ClaimsApart'
  BY <1>1 DEF IInv, ClaimsApart
<1> QED BY <1>1, <1>3, <1>4

LEMMA LaneFacts ==
  ASSUME IInv, NEW p \in Runtimes, NEW l \in LaneNames
  PROVE  /\ lanes[p][l] \in Lane /\ LaneOK(p, l) /\ lanes[p][l].claim \in 0..MaxClaims
         /\ lanes[p][l].turn \in TurnIds /\ lanes[p][l].claim \in Nat /\ claims \in Nat
<1>1. lanes[p][l] \in Lane /\ LaneOK(p, l) /\ claims \in Nat
  BY Constants DEF IInv, Types, LanesOK
<1> QED BY <1>1, Constants DEF Lane

\* A lane goes to its next stage, with what that stage is to know.
LEMMA LaneMoves ==
  ASSUME IInv, NEW p \in Runtimes, NEW l \in LaneNames, NEW at \in LaneStates,
         at \notin {"idle", "top", "duplicate"}, lanes[p][l].claim # 0, Goto(p, l, at),
         up' = up, Shrinks(rows'), claims' = claims, submitted' = submitted,
         messages \subseteq messages', yielded' = yielded,
         at \in Early => ~AdmittedIn(ingress', lanes[p][l].claim),
         at = "prepared" => \A k \in 1..Len(rows') :
           rows'[k].claim = lanes[p][l].claim => rows'[k].tried = lanes[p][l].claim,
         at = "committed" => lanes[p][l].turn[1] \in messages',
         at \in {"accepted", "committed"} =>
           \A j, k \in 1..Len(rows') : rows'[k].claim = lanes[p][l].claim /\ j < k =>
             l = "drain" /\ rows'[j].item \in yielded[p],
         \A q \in Runtimes, m \in LaneNames : (q # p \/ m # l) /\ lanes[q][m].at \in Early =>
           (AdmittedIn(ingress', lanes[q][m].claim) => AdmittedIn(ingress, lanes[q][m].claim))
  PROVE  lanes' \in [Runtimes -> [LaneNames -> Lane]] /\ LanesOK' /\ ClaimsApart'
<1> DEFINE x == [lanes[p][l] EXCEPT !.at = at]
<1>1. lanes[p][l] \in Lane /\ LaneOK(p, l)
  BY LaneFacts
<1>2. x \in Lane /\ x.at = at /\ x.claim = lanes[p][l].claim /\ x.turn = lanes[p][l].turn
  BY <1>1 DEF Lane
<1>3. lanes' = [lanes EXCEPT ![p][l] = x]
  BY DEF Goto
<1> HIDE DEF x
<1>4. lanes'[p][l] = x
  BY <1>2, <1>3, LaneTypes
<1>5. LaneOK(p, l)'
  <2>1. PICK f \in [1..Len(rows') -> 1..Len(rows)] :
          \A k \in 1..Len(rows') :
             /\ rows'[k].item = rows[f[k]].item
             /\ rows'[k].claim = 0 \/ rows'[k].claim = rows[f[k]].claim
    BY DEF Shrinks
  <2>2. \A k \in 1..Len(rows') : rows'[k].claim = x.claim => rows'[k].item = x.turn[1]
    <3>1. \A k \in 1..Len(rows') : f[k] \in 1..Len(rows)
      OBVIOUS
    <3> QED BY <1>1, <1>2, <2>1, <3>1 DEF LaneOK
  <2>3. up[p] /\ x.claim <= claims /\ x.turn[1] \in submitted
    BY <1>1, <1>2 DEF LaneOK
  <2> QED BY <1>2, <1>4, <2>2, <2>3 DEF LaneOK, Accepted, AdmittedIn
<1> QED BY <1>2, <1>3, <1>5, LanesStep

\* A lane is done with its claim.
LEMMA LaneDone ==
  ASSUME IInv, NEW p \in Runtimes, NEW l \in LaneNames, NEW again \in BOOLEAN, Finish(p, l, again),
         rows' \in Seq(Row), Shrinks(rows'), UNCHANGED <<up, claims, submitted, ingress, messages>>,
         \A q \in Runtimes : lanes[q]["drain"].at \in {"accepted", "committed"} =>
           yielded[q] \subseteq yielded'[q]
  PROVE  /\ lanes' \in [Runtimes -> [LaneNames -> Lane]] /\ LanesOK' /\ ClaimsApart' /\ RowsOK'
         /\ lanes'[p][l].at \in {"idle", "top"}
<1> DEFINE x == [Idle EXCEPT !.at = IF again /\ l = "drain" THEN "top" ELSE "idle"]
<1>1. x \in Lane /\ x.at \in {"idle", "top"} /\ x.claim = 0
  <2>1. Idle \in Lane /\ Idle.claim = 0
    BY Records
  <2> QED BY <2>1 DEF Lane, LaneStates
<1>2. lanes' = [lanes EXCEPT ![p][l] = x]
  BY DEF Finish
<1> HIDE DEF x
<1>3. lanes'[p][l] = x
  BY <1>1, <1>2, LaneTypes
<1>4. LaneOK(p, l)'
  BY <1>1, <1>3, LaneFree
<1> QED BY <1>1, <1>2, <1>3, <1>4, LanesStep, ShrinkRows

\* The host's side: nothing new is queued, nothing is released, and what is
\* dropped comes out of the queue.
LEMMA StartsKept ==
  ASSUME IInv, starts' = starts, messages \subseteq messages',
         \A k \in 1..Len(rows') : \E j \in 1..Len(rows) : rows'[k].item = rows[j].item,
         \A i \in dropped' : i \in dropped \/ \E j \in 1..Len(rows) : rows[j].item = i,
         \A p \in Runtimes :
           /\ entry'[p].at \in {"held", "failed", "released"} => entry'[p].turn[1] \in Items
           /\ entry'[p].at = "released" => entry[p].at = "released" /\ entry'[p].turn = entry[p].turn
  PROVE  StartsOK'
<1>1. \A i : Left(i) => Left(i)'
  BY DEF Left
<1>2. StartsOK
  BY DEF IInv
<1> QED BY <1>1, <1>2 DEF StartsOK

\* ... in particular if the entries are the same.
LEMMA StartsSame ==
  ASSUME IInv, starts' = starts, messages \subseteq messages', entry' = entry,
         \A k \in 1..Len(rows') : \E j \in 1..Len(rows) : rows'[k].item = rows[j].item,
         \A i \in dropped' : i \in dropped \/ \E j \in 1..Len(rows) : rows[j].item = i
  PROVE  StartsOK'
<1>1. \A p \in Runtimes :
        entry[p].at \in {"held", "failed", "released"} => entry[p].turn[1] \in Items
  BY DEF IInv, StartsOK
<1> QED BY <1>1, StartsKept

LEMMA KeepsAccounts ==
  ASSUME IInv, Keeps(rows'), messages \subseteq messages', UNCHANGED <<dropped, submitted>>
  PROVE  /\ Accounted'
         /\ \A k \in 1..Len(rows') : \E j \in 1..Len(rows) : rows'[k].item = rows[j].item
         /\ \A i \in dropped' : i \in dropped \/ \E j \in 1..Len(rows) : rows[j].item = i
<1>1. Accounted'
  BY DEF IInv, Accounted, Keeps
<1> QED BY <1>1 DEF Keeps

LEMMA LosesAccounts ==
  ASSUME IInv, NEW n \in 1..Len(rows), Loses(rows', rows[n].item), messages \subseteq messages',
         submitted' = submitted,
         \/ dropped' = dropped \cup {rows[n].item}
         \/ dropped' = dropped /\ rows[n].item \in messages'
  PROVE  /\ Accounted'
         /\ \A k \in 1..Len(rows') : \E j \in 1..Len(rows) : rows'[k].item = rows[j].item
         /\ \A i \in dropped' : i \in dropped \/ \E j \in 1..Len(rows) : rows[j].item = i
<1>1. \A k \in 1..Len(rows') : \E j \in 1..Len(rows) : rows'[k].item = rows[j].item
  BY DEF Loses, Shrinks
<1>2. \A k \in 1..Len(rows') : rows'[k].item \notin dropped'
  BY <1>1 DEF IInv, Accounted, Loses
<1>3. \A i \in submitted :
        (\E k \in 1..Len(rows') : rows'[k].item = i) \/ i \in messages' \/ i \in dropped'
  BY DEF IInv, Accounted, Loses
<1> QED BY <1>1, <1>2, <1>3 DEF Accounted

LEMMA ForgetFacts ==
  ASSUME IInv, NEW p \in Runtimes, NEW i, Forget(p, i)
  PROVE  /\ pending' \in [Runtimes -> SUBSET Items] /\ cancelling' \in [Runtimes -> SUBSET Items]
         /\ \A q \in Runtimes : cancelling'[q] \subseteq pending'[q]
<1>1. /\ pending \in [Runtimes -> SUBSET Items] /\ cancelling \in [Runtimes -> SUBSET Items]
      /\ \A q \in Runtimes : cancelling[q] \subseteq pending[q]
  BY DEF IInv, Types
<1>2. /\ pending' \in [Runtimes -> SUBSET Items] /\ cancelling' \in [Runtimes -> SUBSET Items]
      /\ \A q \in Runtimes : pending'[q] = IF q = p THEN pending[q] \ {i} ELSE pending[q]
      /\ \A q \in Runtimes : cancelling'[q] = IF q = p THEN cancelling[q] \ {i} ELSE cancelling[q]
  BY <1>1 DEF Forget
<1> QED BY <1>1, <1>2

-----------------------------------------------------------------------------
(* The settlement of a claim.                                              *)

\* What a step of a lane leaves of the queue's side of the invariant.
QueueSide ==
  /\ rows' \in Seq(Row) /\ lanes' \in [Runtimes -> [LaneNames -> Lane]]
  /\ LanesOK' /\ ClaimsApart' /\ RowsOK' /\ Accounted'
  /\ dropped' \subseteq submitted
  /\ pending' \in [Runtimes -> SUBSET Items] /\ cancelling' \in [Runtimes -> SUBSET Items]
  /\ \A q \in Runtimes : cancelling'[q] \subseteq pending'[q]
  /\ \A k \in 1..Len(rows') : \E j \in 1..Len(rows) : rows'[k].item = rows[j].item
  /\ \A i \in dropped' : i \in dropped \/ \E j \in 1..Len(rows) : rows[j].item = i

LEMMA RegistrySame ==
  ASSUME IInv, UNCHANGED registry
  PROVE  /\ pending' \in [Runtimes -> SUBSET Items] /\ cancelling' \in [Runtimes -> SUBSET Items]
         /\ \A q \in Runtimes : cancelling'[q] \subseteq pending'[q]
BY DEF IInv, Types, registry

LEMMA RemoveClaimFacts ==
  ASSUME IInv, NEW p \in Runtimes, NEW l \in LaneNames, NEW again \in BOOLEAN,
         RemoveClaim(p, l, again), lanes[p][l].claim # 0,
         UNCHANGED <<up, claims, submitted, ingress, messages, yielded>>
  PROVE  QueueSide
<1> DEFINE c == lanes[p][l].claim
           i == lanes[p][l].turn[1]
<1>1. LaneOK(p, l) /\ dropped \subseteq submitted
  BY LaneFacts DEF IInv, Types
<1>2. CASE Holds(c)
  <2>1. rows' = Removed(c) /\ dropped' = dropped \cup {i} /\ Forget(p, i) /\ Finish(p, l, again)
    BY <1>2 DEF RemoveClaim
  <2>2. PICK n \in 1..Len(rows) : rows[n].claim = c /\ Loses(Removed(c), rows[n].item)
    BY <1>2, RemovedLoses
  <2>3. rows[n].item = i /\ i \in submitted
    BY <1>1, <2>2 DEF LaneOK
  <2>4. rows' \in Seq(Row) /\ Shrinks(rows') /\ Loses(rows', rows[n].item)
    BY <2>1, <2>2 DEF Loses
  <2> HIDE DEF c, i
  <2>5. lanes' \in [Runtimes -> [LaneNames -> Lane]] /\ LanesOK' /\ ClaimsApart' /\ RowsOK'
    BY <2>1, <2>4, LaneDone
  <2>6. /\ Accounted'
        /\ \A k \in 1..Len(rows') : \E j \in 1..Len(rows) : rows'[k].item = rows[j].item
        /\ \A o \in dropped' : o \in dropped \/ \E j \in 1..Len(rows) : rows[j].item = o
    BY <2>1, <2>3, <2>4, LosesAccounts
  <2>7. dropped' \subseteq submitted
    BY <1>1, <2>1, <2>3
  <2> QED BY <2>1, <2>4, <2>5, <2>6, <2>7, ForgetFacts DEF QueueSide
<1>3. CASE ~Holds(c)
  <2>1. Finish(p, l, FALSE) /\ UNCHANGED <<rows, dropped, registry>>
    BY <1>3 DEF RemoveClaim
  <2>2. Keeps(rows') /\ rows' \in Seq(Row) /\ Shrinks(rows')
    BY <2>1, SameKeeps, KeepsShrinks DEF Keeps
  <2>3. lanes' \in [Runtimes -> [LaneNames -> Lane]] /\ LanesOK' /\ ClaimsApart' /\ RowsOK'
    BY <2>1, <2>2, LaneDone
  <2> QED BY <1>1, <2>1, <2>2, <2>3, KeepsAccounts, RegistrySame DEF QueueSide
<1> QED BY <1>2, <1>3

LEMMA ReleaseClaimFacts ==
  ASSUME IInv, NEW p \in Runtimes, NEW l \in LaneNames, NEW again \in BOOLEAN,
         ReleaseClaim(p, l, again), UNCHANGED <<up, claims, submitted, ingress, messages>>,
         \A q \in Runtimes : lanes[q]["drain"].at \in {"accepted", "committed"} =>
           yielded[q] \subseteq yielded'[q]
  PROVE  QueueSide
<1>1. /\ rows' = Released(lanes[p][l].claim) /\ Finish(p, l, again)
      /\ UNCHANGED <<dropped, registry>>
  BY DEF ReleaseClaim
<1>2. Keeps(rows') /\ rows' \in Seq(Row) /\ Shrinks(rows')
  BY <1>1, ReleasedKeeps, KeepsShrinks DEF Keeps
<1>3. lanes' \in [Runtimes -> [LaneNames -> Lane]] /\ LanesOK' /\ ClaimsApart' /\ RowsOK'
  BY <1>1, <1>2, LaneDone
<1>4. dropped \subseteq submitted
  BY DEF IInv, Types
<1> QED BY <1>1, <1>2, <1>3, <1>4, KeepsAccounts, RegistrySame DEF QueueSide

\* A lane that goes on, while the rows keep their items.
LEMMA GotoSide ==
  ASSUME IInv, Keeps(rows'), lanes' \in [Runtimes -> [LaneNames -> Lane]], LanesOK', ClaimsApart',
         UNCHANGED <<claims, submitted, ingress, messages, dropped, registry>>
  PROVE  QueueSide
<1>1. rows' \in Seq(Row) /\ Shrinks(rows')
  BY KeepsShrinks DEF Keeps
<1>2. dropped \subseteq submitted
  BY DEF IInv, Types
<1> QED BY <1>1, <1>2, KeepsAccounts, RegistrySame, ShrinkRows DEF QueueSide

\* A lock that nobody has, or whose owner is dead or has let its lease lapse.
Abandoned == lock[2] \notin Runtimes \/ ~up[lock[2]] \/ lock \in lapsed

\* Whatever Turn occupies a controller meanwhile has lost its lease.
LEMMA AllLapsed ==
  ASSUME IInv, Abandoned, NEW q \in Runtimes, Occupied(entry[q])
  PROVE  <<entry[q].turn, q>> \in lapsed
<1>1. up[q] /\ (lock = <<entry[q].turn, q>> \/ <<entry[q].turn, q>> \in lapsed)
  BY DEF IInv, LockIsHeld
<1>2. CASE lock = <<entry[q].turn, q>>
  <2>1. lock[2] = q
    BY <1>2
  <2> QED BY <1>1, <1>2, <2>1 DEF Abandoned
<1> QED BY <1>1, <1>2

\* An admission finds the lock free or releases an abandoned one.
LEMMA AdmissionFrees ==
  ASSUME IInv
  PROVE  /\ AdmissionLock = NoLock => Abandoned
         /\ AdmissionLock = lock \/ (Abandoned /\ AdmissionLock = NoLock)
BY Constants DEF AdmissionLock, Abandoned

\* The lock is given up by nobody who needs it, and the Turns stay.
LEMMA LockGoes ==
  ASSUME IInv, Abandoned, \A q \in Runtimes : up[q] => up'[q],
         UNCHANGED <<entry, failing, ingress, lapsed>>
  PROVE  LockIsHeld'
<1>1. LockIsHeld /\ \A q \in Runtimes : Occupied(entry[q]) => <<entry[q].turn, q>> \in lapsed
  BY AllLapsed DEF IInv
<1> QED BY <1>1 DEF LockIsHeld

\* A Turn goes on, or is over, under the lock it has.
LEMMA LockFollows ==
  ASSUME IInv, UNCHANGED <<lock, lapsed, ingress, failing, up>>,
         \A q \in Runtimes :
           Occupied(entry'[q]) => Occupied(entry[q]) /\ entry'[q].turn = entry[q].turn
  PROVE  LockIsHeld'
<1> SUFFICES ASSUME NEW q \in Runtimes
             PROVE  /\ Occupied(entry'[q]) =>
                         /\ up'[q] /\ TurnIn(ingress', entry'[q].turn)
                         /\ lock' = <<entry'[q].turn, q>> \/ <<entry'[q].turn, q>> \in lapsed'
                    /\ failing'[q] # NoTurn =>
                         TurnIn(ingress', failing'[q]) /\ (Occupied(entry'[q]) => failing'[q] # entry'[q].turn)
  BY DEF LockIsHeld
<1>1. PICK u, v : u = entry[q].turn /\ v = entry'[q].turn
  OBVIOUS
<1>2. /\ Occupied(entry[q]) => up[q] /\ TurnIn(ingress, u) /\ (lock = <<u, q>> \/ <<u, q>> \in lapsed)
      /\ failing[q] # NoTurn => TurnIn(ingress, failing[q]) /\ (Occupied(entry[q]) => failing[q] # u)
  BY <1>1 DEF IInv, LockIsHeld
<1>3. Occupied(entry'[q]) => Occupied(entry[q]) /\ v = u
  BY <1>1
<1> QED BY <1>1, <1>2, <1>3

\* ... or has lost its lease.
LEMMA LockLost ==
  ASSUME IInv, UNCHANGED <<lapsed, ingress, failing, up>>,
         \A q \in Runtimes : Occupied(entry'[q]) =>
           /\ Occupied(entry[q]) /\ entry'[q].turn = entry[q].turn
           /\ up[q] /\ TurnIn(ingress, entry[q].turn) /\ <<entry[q].turn, q>> \in lapsed
  PROVE  LockIsHeld'
<1> SUFFICES ASSUME NEW q \in Runtimes
             PROVE  /\ Occupied(entry'[q]) =>
                         /\ up'[q] /\ TurnIn(ingress', entry'[q].turn)
                         /\ lock' = <<entry'[q].turn, q>> \/ <<entry'[q].turn, q>> \in lapsed'
                    /\ failing'[q] # NoTurn =>
                         TurnIn(ingress', failing'[q]) /\ (Occupied(entry'[q]) => failing'[q] # entry'[q].turn)
  BY DEF LockIsHeld
<1>1. PICK u, v : u = entry[q].turn /\ v = entry'[q].turn
  OBVIOUS
<1>2. failing[q] # NoTurn => TurnIn(ingress, failing[q]) /\ (Occupied(entry[q]) => failing[q] # u)
  BY <1>1 DEF IInv, LockIsHeld
<1>3. Occupied(entry'[q]) =>
        Occupied(entry[q]) /\ v = u /\ up[q] /\ TurnIn(ingress, u) /\ <<u, q>> \in lapsed
  BY <1>1
<1> QED BY <1>1, <1>2, <1>3

\* The Turns and the lock stay as they are.
LEMMA LockStays ==
  ASSUME IInv, \A q \in Runtimes : up[q] => up'[q], lapsed \subseteq lapsed',
         UNCHANGED <<entry, failing, ingress, lock>>
  PROVE  LockIsHeld'
BY DEF IInv, LockIsHeld

\* A step on the queue's side, and perhaps the release of an abandoned lock.
LEMMA QueueStep ==
  ASSUME IInv, QueueSide, faults' \in 0..MaxFaults, paused' \in BOOLEAN,
         requested' \in [Runtimes -> BOOLEAN], recover' \in [Runtimes -> BOOLEAN],
         yielded' \in [Runtimes -> SUBSET (Items \ Foreground)],
         lock' = lock \/ (Abandoned /\ lock' = NoLock),
         UNCHANGED <<claims, ingress, messages, lapsed, up, startedAt, entry, failing, submitted,
                     starts, overtaken>>
  PROVE  IInv'
<1>1. Types'
  BY Constants DEF IInv, Types, QueueSide
<1>2. LockIsHeld' /\ NoneOvertaken'
  BY LockGoes, LockStays DEF IInv, NoneOvertaken
<1>3. StartsOK'
  BY StartsSame DEF QueueSide
<1> QED BY <1>1, <1>2, <1>3 DEF IInv, QueueSide

LEMMA FlagTypes ==
  ASSUME IInv
  PROVE  /\ requested \in [Runtimes -> BOOLEAN] /\ recover \in [Runtimes -> BOOLEAN]
         /\ yielded \in [Runtimes -> SUBSET (Items \ Foreground)]
         /\ faults \in 0..MaxFaults /\ paused \in BOOLEAN
         /\ Fails => faults' \in 0..MaxFaults
         /\ ReconcilePause => paused' \in BOOLEAN
         /\ \A p \in Runtimes : Wake(p) => requested' \in [Runtimes -> BOOLEAN]
<1>1. /\ requested \in [Runtimes -> BOOLEAN] /\ recover \in [Runtimes -> BOOLEAN]
      /\ yielded \in [Runtimes -> SUBSET (Items \ Foreground)]
      /\ faults \in 0..MaxFaults /\ paused \in BOOLEAN
  BY DEF IInv, Types
<1>2. Fails => faults' \in 0..MaxFaults
  BY <1>1, Constants DEF Fails
<1>3. ReconcilePause => paused' \in BOOLEAN
  BY DEF ReconcilePause
<1>4. \A p \in Runtimes : Wake(p) => requested' \in [Runtimes -> BOOLEAN]
  BY <1>1 DEF Wake
<1> QED BY <1>1, <1>2, <1>3, <1>4

\* A deferred claim is released; what yields is never a user's.
LEMMA DeferFacts ==
  ASSUME IInv, NEW p \in Runtimes, NEW l \in LaneNames, Defer(p, l), lanes[p][l].claim # 0,
         UNCHANGED <<up, claims, submitted, ingress, messages>>
  PROVE  QueueSide /\ yielded' \in [Runtimes -> SUBSET (Items \ Foreground)]
<1> DEFINE i == lanes[p][l].turn[1]
<1>1. PICK yields \in BOOLEAN :
        /\ yields => i \notin Foreground
        /\ ReleaseClaim(p, l, yields)
        /\ yielded' = IF yields THEN [yielded EXCEPT ![p] = @ \cup {i}] ELSE yielded
  BY DEF Defer, YieldsFifoPosition
<1>2. i \in Items
  BY LaneFacts DEF LaneOK, IInv, Types
<1>3. yielded \in [Runtimes -> SUBSET (Items \ Foreground)]
  BY FlagTypes
<1> HIDE DEF i
<1>4. /\ yielded' \in [Runtimes -> SUBSET (Items \ Foreground)]
      /\ \A q \in Runtimes : yielded[q] \subseteq yielded'[q]
  BY <1>1, <1>2, <1>3
<1> QED BY <1>1, <1>4, ReleaseClaimFacts

\* A lane goes to a stage that knows nothing more, with the rows as they are.
LEMMA PlainMove ==
  ASSUME IInv, NEW p \in Runtimes, NEW l \in LaneNames, NEW at \in {"ready", "thrown"},
         lanes[p][l].claim # 0, Goto(p, l, at), at = "ready" => lanes[p][l].at = "claimed",
         UNCHANGED <<rows, up, claims, submitted, ingress, messages, yielded, dropped, registry>>
  PROVE  QueueSide
<1>1. Keeps(rows') /\ Shrinks(rows')
  BY SameKeeps, KeepsShrinks
<1>2. at \in LaneStates /\ at \notin {"idle", "top", "duplicate"}
  BY DEF LaneStates
<1>3. at \in Early => ~AdmittedIn(ingress', lanes[p][l].claim)
  BY LaneFacts DEF LaneOK, Early, Accepted, AdmittedIn
<1>4. lanes' \in [Runtimes -> [LaneNames -> Lane]] /\ LanesOK' /\ ClaimsApart'
  BY <1>1, <1>2, <1>3, LaneMoves
<1> QED BY <1>1, <1>4, GotoSide

LEMMA ClassifyStep ==
  ASSUME IInv, NEW p \in Runtimes, NEW l \in LaneNames, Classify(p, l)
  PROVE  IInv'
<1>1. /\ lanes[p][l].at = "claimed" /\ ReconcilePause
      /\ UNCHANGED <<claims, ingress, lock, messages, lapsed, up, startedAt, requested, recover, entry,
                     failing, submitted, starts, overtaken>>
  BY DEF Classify, process, turns
<1>2. lanes[p][l].claim # 0
  BY <1>1, LaneFacts DEF LaneOK
<1>3. /\ QueueSide
      /\ faults' = faults \/ Fails
      /\ yielded' \in [Runtimes -> SUBSET (Items \ Foreground)]
  <2>1. CASE RemoveClaim(p, l, TRUE) /\ UNCHANGED <<yielded, faults>>
    BY <1>1, <1>2, <2>1, RemoveClaimFacts, FlagTypes
  <2>2. CASE Goto(p, l, "ready") /\ UNCHANGED <<rows, dropped, registry, yielded, faults>>
    BY <1>1, <1>2, <2>2, PlainMove, FlagTypes
  <2>3. CASE Fails /\ Goto(p, l, "thrown") /\ UNCHANGED <<rows, dropped, registry, yielded>>
    BY <1>1, <1>2, <2>3, PlainMove, FlagTypes
  <2>4. CASE Defer(p, l) /\ UNCHANGED faults
    BY <1>1, <1>2, <2>4, DeferFacts
  <2>5. CASE ReleaseClaim(p, l, FALSE) /\ UNCHANGED <<yielded, faults>>
    BY <1>1, <2>5, ReleaseClaimFacts, FlagTypes
  <2> QED BY <2>1, <2>2, <2>3, <2>4, <2>5 DEF Classify
<1> QED BY <1>1, <1>3, FlagTypes, QueueStep

LEMMA PrepareStep ==
  ASSUME IInv, NEW p \in Runtimes, NEW l \in LaneNames, PrepareDelivery(p, l)
  PROVE  IInv'
<1> DEFINE c == lanes[p][l].claim
<1>1. /\ lanes[p][l].at = "ready"
      /\ UNCHANGED <<claims, paused, ingress, lock, messages, lapsed, up, startedAt, requested, yielded,
                     recover, entry, failing, registry, faults, submitted, dropped, starts, overtaken>>
  BY DEF PrepareDelivery, process, turns
<1>2. /\ c # 0 /\ c \in 0..MaxClaims /\ ~AdmittedIn(ingress, c)
  BY <1>1, LaneFacts DEF LaneOK, Early, Accepted, AdmittedIn
<1>3. QueueSide
  <2>1. CASE rows' = Tried(c) /\ Goto(p, l, "prepared")
    <3>1. Keeps(rows') /\ Shrinks(rows') /\ Len(rows') = Len(rows)
          /\ \A k \in 1..Len(rows') : rows'[k].claim = c => rows'[k].tried = c
      BY <1>2, <2>1, TriedKeeps, KeepsShrinks DEF Keeps
    <3>2. "prepared" \in LaneStates
      BY DEF LaneStates
    <3>3. lanes' \in [Runtimes -> [LaneNames -> Lane]] /\ LanesOK' /\ ClaimsApart'
      BY <1>1, <1>2, <2>1, <3>1, <3>2, LaneMoves
    <3> QED BY <1>1, <3>1, <3>3, GotoSide
  <2>2. CASE Goto(p, l, "thrown") /\ UNCHANGED rows
    BY <1>1, <1>2, <2>2, PlainMove
  <2> QED BY <2>1, <2>2 DEF PrepareDelivery, Tried
<1> QED BY <1>1, <1>3, FlagTypes, QueueStep

LEMMA DeferAdmissionStep ==
  ASSUME IInv, NEW p \in Runtimes, NEW l \in LaneNames, DeferAdmission(p, l)
  PROVE  IInv'
<1>1. /\ lanes[p][l].at = "prepared" /\ ReconcilePause /\ Defer(p, l)
      /\ UNCHANGED <<claims, ingress, lock, messages, lapsed, up, startedAt, requested, recover, entry,
                     failing, faults, submitted, starts, overtaken>>
  BY DEF DeferAdmission, process, turns
<1>2. lanes[p][l].claim # 0
  BY <1>1, LaneFacts DEF LaneOK
<1> QED BY <1>1, <1>2, DeferFacts, FlagTypes, QueueStep

LEMMA SettleRejectedStep ==
  ASSUME IInv, NEW p \in Runtimes, NEW l \in LaneNames, SettleRejected(p, l)
  PROVE  IInv'
<1>1. /\ lanes[p][l].at \in {"stopped", "rejected", "conflict"} /\ ReconcilePause
      /\ UNCHANGED <<claims, ingress, lock, messages, lapsed, up, startedAt, requested, yielded, recover,
                     entry, failing, faults, submitted, starts, overtaken>>
      /\ \/ \E again \in BOOLEAN : RemoveClaim(p, l, again)
         \/ ReleaseClaim(p, l, FALSE)
  BY DEF SettleRejected, process, turns
<1>2. lanes[p][l].claim # 0
  BY <1>1, LaneFacts DEF LaneOK
<1>3. QueueSide
  BY <1>1, <1>2, RemoveClaimFacts, ReleaseClaimFacts
<1> QED BY <1>1, <1>3, FlagTypes, QueueStep

LEMMA SettleThrownStep ==
  ASSUME IInv, NEW p \in Runtimes, NEW l \in LaneNames, SettleThrown(p, l)
  PROVE  IInv'
<1>1. /\ lanes[p][l].at = "thrown" /\ ReconcilePause
      /\ UNCHANGED <<claims, ingress, lock, messages, lapsed, up, startedAt, requested, yielded, recover,
                     entry, failing, faults, submitted, starts, overtaken>>
      /\ RemoveClaim(p, l, TRUE) \/ ReleaseClaim(p, l, FALSE)
  BY DEF SettleThrown, process, turns
<1>2. lanes[p][l].claim # 0
  BY <1>1, LaneFacts DEF LaneOK
<1>3. QueueSide
  BY <1>1, <1>2, RemoveClaimFacts, ReleaseClaimFacts
<1> QED BY <1>1, <1>3, FlagTypes, QueueStep

\* The recoveries of claims.
LEMMA RecoverRows ==
  ASSUME IInv, NEW scope, NEW expired \in BOOLEAN, rows' = Recovered(scope, expired),
         LeaseExpired(expired), ReconcilePause,
         recover' \in [Runtimes -> BOOLEAN],
         UNCHANGED <<claims, ingress, lock, messages, lapsed, up, startedAt, requested, yielded, lanes,
                     entry, failing, registry, submitted, dropped, starts, overtaken>>
  PROVE  IInv'
<1>1. Keeps(rows') /\ Shrinks(rows')
  BY RecoveredKeeps, KeepsShrinks
<1>2. LanesOK'
  <2> SUFFICES ASSUME NEW p \in Runtimes, NEW l \in LaneNames
               PROVE  LaneOK(p, l)'
    BY DEF LanesOK
  <2>1. claims \in Nat /\ claims <= claims /\ (lanes[p][l].claim # 0 => up[p])
    BY LaneFacts DEF LaneOK
  <2> QED BY <1>1, <2>1, LaneKept
<1>3. ClaimsApart' /\ lanes' \in [Runtimes -> [LaneNames -> Lane]]
  BY DEF IInv, ClaimsApart, Types
<1>4. QueueSide
  BY <1>1, <1>2, <1>3, GotoSide
<1>5. faults' \in 0..MaxFaults
  BY FlagTypes DEF LeaseExpired
<1> QED BY <1>4, <1>5, FlagTypes, QueueStep

LEMMA RecoverBeforeStep ==
  ASSUME IInv, NEW p \in Runtimes, RecoverBefore(p)
  PROVE  IInv'
<1>1. PICK expired \in BOOLEAN : LeaseExpired(expired) /\ rows' = Recovered(0, expired)
  BY DEF RecoverBefore
<1>2. /\ ReconcilePause /\ recover' = [recover EXCEPT ![p] = FALSE]
      /\ UNCHANGED <<claims, ingress, lock, messages, lapsed, up, startedAt, requested, yielded, lanes,
                     entry, failing, registry, submitted, dropped, starts, overtaken>>
  BY DEF RecoverBefore, process, turns
<1>3. recover' \in [Runtimes -> BOOLEAN]
  BY <1>2, FlagTypes
<1> QED BY <1>1, <1>2, <1>3, RecoverRows

LEMMA RecoverPendingStep ==
  ASSUME IInv, NEW p \in Runtimes, RecoverPending(p)
  PROVE  IInv'
<1>1. PICK expired \in BOOLEAN : LeaseExpired(expired) /\ rows' = Recovered(startedAt[p], expired)
  BY DEF RecoverPending
<1>2. /\ ReconcilePause /\ recover' = recover
      /\ UNCHANGED <<claims, ingress, lock, messages, lapsed, up, startedAt, requested, yielded, lanes,
                     entry, failing, registry, submitted, dropped, starts, overtaken>>
  BY DEF RecoverPending, process, turns, dispatcher
<1>3. recover' \in [Runtimes -> BOOLEAN]
  BY <1>2, FlagTypes
<1> QED BY <1>1, <1>2, <1>3, RecoverRows

-----------------------------------------------------------------------------
(* The Turn's side.                                                        *)

LEMMA EntryTypes ==
  ASSUME IInv
  PROVE  /\ entry \in [Runtimes -> Entry] /\ failing \in [Runtimes -> TurnIds]
         /\ lock \in TurnIds \X (Runtimes \cup {Nobody}) /\ starts \in [Items -> Nat]
         /\ up \in [Runtimes -> BOOLEAN] /\ startedAt \in [Runtimes -> 0..MaxClaims]
         /\ claims \in 0..MaxClaims /\ lanes \in [Runtimes -> [LaneNames -> Lane]]
         /\ dropped \subseteq submitted /\ submitted \subseteq Items /\ messages \subseteq submitted
         /\ lapsed \subseteq TurnIds \X Runtimes
BY DEF IInv, Types

\* A lane that is the same up to the stop of its submission, while every row
\* that has its claim, and what is before that row, stays where it is.
LEMMA LaneHeld ==
  ASSUME IInv, NEW p \in Runtimes, NEW l \in LaneNames,
         lanes'[p][l].at = lanes[p][l].at, lanes'[p][l].claim = lanes[p][l].claim,
         lanes'[p][l].turn = lanes[p][l].turn, lanes[p][l].claim # 0 => up'[p],
         claims <= claims', claims' \in Nat,
         \A k \in 1..Len(rows') : rows'[k].claim = lanes[p][l].claim /\ rows'[k].claim # 0 =>
           /\ k \in 1..Len(rows) /\ rows'[k] = rows[k]
           /\ \A j \in 1..Len(rows') : j < k => rows'[j].item = rows[j].item /\ j \in 1..Len(rows),
         ingress' = ingress, messages \subseteq messages', submitted \subseteq submitted',
         l = "drain" /\ lanes[p][l].at \in {"accepted", "committed"} => yielded[p] \subseteq yielded'[p]
  PROVE  LaneOK(p, l)'
<1> DEFINE x == lanes[p][l]
           y == lanes'[p][l]
<1>1. LaneOK(p, l) /\ x.claim \in Nat /\ claims \in Nat
  BY LaneFacts
<1>2. /\ y.at \notin {"idle", "top"} => y.claim # 0
      /\ y.claim # 0 => up'[p] /\ y.claim <= claims' /\ y.turn[1] \in submitted' /\ y.at # "duplicate"
      /\ y.at = "committed" => y.turn[1] \in messages'
  BY <1>1 DEF LaneOK
<1>3. y.claim # 0 => \A k \in 1..Len(rows') : rows'[k].claim = y.claim => rows'[k].item = y.turn[1]
  BY <1>1 DEF LaneOK
<1>4. y.at \in Early => ~AdmittedIn(ingress', y.claim)
  BY <1>1 DEF LaneOK, Accepted, AdmittedIn
<1>5. y.at = "prepared" => \A k \in 1..Len(rows') : rows'[k].claim = y.claim => rows'[k].tried = y.claim
  BY <1>1 DEF LaneOK
<1>6. y.at \in {"accepted", "committed"} =>
        \A j, k \in 1..Len(rows') : rows'[k].claim = y.claim /\ j < k =>
          l = "drain" /\ rows'[j].item \in yielded'[p]
  BY <1>1 DEF LaneOK
<1> QED BY <1>2, <1>3, <1>4, <1>5, <1>6 DEF LaneOK, Accepted, AdmittedIn

LEMMA ApartStays ==
  ASSUME ClaimsApart, \A q \in Runtimes, m \in LaneNames : lanes'[q][m].claim = lanes[q][m].claim
  PROVE  ClaimsApart'
<1> SUFFICES ASSUME NEW p \in Runtimes, NEW q \in Runtimes, NEW l \in LaneNames, NEW m \in LaneNames,
                    lanes'[p][l].claim # 0, lanes'[p][l].claim = lanes'[q][m].claim
             PROVE  p = q /\ l = m
  BY DEF ClaimsApart
<1>1. lanes[p][l].claim # 0 /\ lanes[p][l].claim = lanes[q][m].claim
  <2>1. lanes'[p][l].claim = lanes[p][l].claim
    OBVIOUS
  <2>2. lanes'[q][m].claim = lanes[q][m].claim
    OBVIOUS
  <2> QED BY <2>1, <2>2
<1> QED BY <1>1, Zenon DEF ClaimsApart

\* A step of the Turn or of a caller that leaves the queue alone.
LEMMA TurnSide ==
  ASSUME IInv,
         UNCHANGED <<rows, claims, ingress, messages, yielded, submitted, dropped, overtaken,
                     recover, startedAt, up>>,
         faults' \in 0..MaxFaults, lapsed' \subseteq TurnIds \X Runtimes,
         lanes' \in [Runtimes -> [LaneNames -> Lane]],
         \A q \in Runtimes, m \in LaneNames :
           /\ lanes'[q][m].at = lanes[q][m].at /\ lanes'[q][m].claim = lanes[q][m].claim
           /\ lanes'[q][m].turn = lanes[q][m].turn,
         lock' \in TurnIds \X (Runtimes \cup {Nobody}), paused' \in BOOLEAN,
         requested' \in [Runtimes -> BOOLEAN], entry' \in [Runtimes -> Entry],
         failing' \in [Runtimes -> TurnIds], starts' \in [Items -> Nat],
         pending' \in [Runtimes -> SUBSET Items], cancelling' \in [Runtimes -> SUBSET Items],
         \A q \in Runtimes : cancelling'[q] \subseteq pending'[q],
         LockIsHeld', StartsOK'
  PROVE  IInv'
<1>1. Types'
  BY DEF IInv, Types
<1>2. RowsOK' /\ Accounted' /\ NoneOvertaken'
  BY DEF IInv, RowsOK, RowsAreItems, OneClaim, AcceptedIsTried, IngressIsPast, Accepted, Accounted,
         NoneOvertaken
<1>3. LanesOK'
  <2> SUFFICES ASSUME NEW q \in Runtimes, NEW m \in LaneNames
               PROVE  LaneOK(q, m)'
    BY DEF LanesOK
  <2>1. claims \in Nat /\ claims <= claims /\ (lanes[q][m].claim # 0 => up[q]) /\ Len(rows) \in Nat
    BY LaneFacts, RowTypes DEF LaneOK
  <2> QED BY <2>1, LaneHeld
<1>4. ClaimsApart'
  BY ApartStays DEF IInv
<1> QED BY <1>1, <1>2, <1>3, <1>4 DEF IInv

LEMMA SameLanes ==
  ASSUME IInv, lanes' = lanes
  PROVE  /\ lanes' \in [Runtimes -> [LaneNames -> Lane]]
         /\ \A q \in Runtimes, m \in LaneNames :
              /\ lanes'[q][m].at = lanes[q][m].at /\ lanes'[q][m].claim = lanes[q][m].claim
              /\ lanes'[q][m].turn = lanes[q][m].turn
BY EntryTypes

\* An entry that changes its stage.
LEMMA EntryMoves ==
  ASSUME IInv, NEW p \in Runtimes, NEW x \in Entry, entry' = [entry EXCEPT ![p] = x]
  PROVE  /\ entry' \in [Runtimes -> Entry] /\ entry'[p] = x
         /\ \A q \in Runtimes : q # p => entry'[q] = entry[q]
BY EntryTypes

\* What the host's side asks when the rows stay as they are.
LEMMA StartsStay ==
  ASSUME IInv, UNCHANGED <<starts, messages, rows, dropped>>, NEW p \in Runtimes,
         \A q \in Runtimes : q # p => entry'[q] = entry[q],
         entry'[p].at \in {"held", "failed"} => entry'[p].turn[1] \in Items,
         entry'[p].at = "released" => entry[p].at = "released" /\ entry'[p].turn = entry[p].turn
  PROVE  StartsOK'
<1>1. \A k \in 1..Len(rows') : \E j \in 1..Len(rows) : rows'[k].item = rows[j].item
  OBVIOUS
<1>2. \A i \in dropped' : i \in dropped \/ \E j \in 1..Len(rows) : rows[j].item = i
  OBVIOUS
<1>3. \A q \in Runtimes :
        /\ entry'[q].at \in {"held", "failed", "released"} => entry'[q].turn[1] \in Items
        /\ entry'[q].at = "released" => entry[q].at = "released" /\ entry'[q].turn = entry[q].turn
  BY DEF IInv, StartsOK
<1> QED BY <1>1, <1>2, <1>3, StartsKept

LEMMA DispatchQueueStep ==
  ASSUME IInv, NEW p \in Runtimes, DispatchQueue(p)
  PROVE  IInv'
<1>1. /\ Wake(p)
      /\ UNCHANGED <<rows, claims, paused, ingress, lock, messages, lapsed, up, startedAt, yielded, recover,
                     lanes, entry, failing, registry, faults, submitted, dropped, starts, overtaken>>
  BY DEF DispatchQueue, process, turns
<1>2. LockIsHeld' /\ StartsOK'
  BY <1>1, LockStays DEF IInv, StartsOK, Left
<1>3. lock' = lock /\ lapsed' = lapsed /\ entry' = entry /\ failing' = failing /\ starts' = starts
  BY <1>1
<1> QED BY <1>1, <1>2, <1>3, EntryTypes, SameLanes, RegistrySame, FlagTypes, TurnSide

LEMMA DirectTurnStep ==
  ASSUME IInv, NEW p \in Runtimes, DirectTurn(p)
  PROVE  IInv'
<1> DEFINE x == [NoEntry EXCEPT !.at = "running"]
<1>1. /\ up[p] /\ AdmissionLock = NoLock /\ lock' = <<NoTurn, p>> /\ entry[p] = NoEntry
      /\ entry' = [entry EXCEPT ![p] = x] /\ lapsed' = lapsed \ {<<NoTurn, p>>}
      /\ UNCHANGED <<rows, claims, paused, ingress, messages, up, startedAt, yielded, recover, lanes,
                     requested, failing, registry, faults, submitted, dropped, starts, overtaken>>
  BY DEF DirectTurn, process, dispatcher
<1>2. x \in Entry /\ x.at = "running" /\ x.turn = NoTurn
  BY Records DEF Entry
<1> HIDE DEF x
<1>3. /\ entry' \in [Runtimes -> Entry] /\ entry'[p] = x
      /\ \A q \in Runtimes : q # p => entry'[q] = entry[q]
  BY <1>1, <1>2, EntryMoves
<1>4. \A q \in Runtimes : Occupied(entry[q]) => <<entry[q].turn, q>> \in lapsed
  BY <1>1, AdmissionFrees, AllLapsed
<1>5. LockIsHeld'
  <2> SUFFICES ASSUME NEW q \in Runtimes
               PROVE  /\ Occupied(entry'[q]) =>
                           /\ up'[q] /\ TurnIn(ingress', entry'[q].turn)
                           /\ lock' = <<entry'[q].turn, q>> \/ <<entry'[q].turn, q>> \in lapsed'
                      /\ failing'[q] # NoTurn => TurnIn(ingress', failing'[q])
                           /\ (Occupied(entry'[q]) => failing'[q] # entry'[q].turn)
    BY <1>1 DEF LockIsHeld
  <2>1. /\ failing[q] # NoTurn => TurnIn(ingress, failing[q]) /\ (Occupied(entry[q]) => failing[q] # entry[q].turn)
        /\ Occupied(entry[q]) => up[q] /\ TurnIn(ingress, entry[q].turn)
    BY DEF IInv, LockIsHeld
  <2>2. CASE q = p
    BY <1>1, <1>2, <1>3, <2>1, <2>2 DEF TurnIn
  <2>3. CASE q # p
    <3>1. entry'[q] = entry[q] /\ <<entry[q].turn, q>> # <<NoTurn, p>>
      BY <1>3, <2>3
    <3> QED BY <1>1, <1>4, <2>1, <3>1 DEF TurnIn
  <2> QED BY <2>2, <2>3
<1>6. StartsOK'
  BY <1>1, <1>2, <1>3, StartsStay
<1>7. /\ lock' \in TurnIds \X (Runtimes \cup {Nobody}) /\ failing' = failing /\ starts' = starts
      /\ lapsed' \subseteq TurnIds \X Runtimes
  BY <1>1, Constants, EntryTypes
<1> QED BY <1>1, <1>3, <1>5, <1>6, <1>7, EntryTypes, SameLanes, RegistrySame, FlagTypes, TurnSide

\* A stop reaches what is being submitted and leaves it where it is.
LEMMA StopLanesFacts ==
  ASSUME IInv, NEW p \in Runtimes, NEW which, StopLanes(p, which)
  PROVE  /\ lanes' \in [Runtimes -> [LaneNames -> Lane]]
         /\ \A q \in Runtimes, m \in LaneNames :
              /\ lanes'[q][m].at = lanes[q][m].at /\ lanes'[q][m].claim = lanes[q][m].claim
              /\ lanes'[q][m].turn = lanes[q][m].turn
<1> DEFINE new(l) == IF lanes[p][l].at = "prepared" /\ lanes[p][l].turn[1] \in which
                     THEN [lanes[p][l] EXCEPT !.stopped = TRUE] ELSE lanes[p][l]
<1>1. lanes \in [Runtimes -> [LaneNames -> Lane]]
  BY EntryTypes
<1>2. lanes' = [lanes EXCEPT ![p] = [l \in LaneNames |-> new(l)]]
  BY <1>1 DEF StopLanes
<1>3. \A m \in LaneNames :
        /\ new(m) \in Lane /\ new(m).at = lanes[p][m].at /\ new(m).claim = lanes[p][m].claim
        /\ new(m).turn = lanes[p][m].turn
  <2> SUFFICES ASSUME NEW m \in LaneNames
               PROVE  /\ new(m) \in Lane /\ new(m).at = lanes[p][m].at
                      /\ new(m).claim = lanes[p][m].claim /\ new(m).turn = lanes[p][m].turn
    OBVIOUS
  <2>1. lanes[p][m] \in Lane
    BY <1>1
  <2> DEFINE off == [lanes[p][m] EXCEPT !.stopped = TRUE]
  <2>2. /\ off \in Lane /\ off.at = lanes[p][m].at /\ off.claim = lanes[p][m].claim
        /\ off.turn = lanes[p][m].turn
    BY <2>1 DEF Lane
  <2>3. new(m) = off \/ new(m) = lanes[p][m]
    OBVIOUS
  <2> HIDE DEF off, new
  <2> QED BY <2>1, <2>2, <2>3
<1> HIDE DEF new
<1>4. /\ lanes' \in [Runtimes -> [LaneNames -> Lane]]
      /\ \A m \in LaneNames : lanes'[p][m] = new(m)
      /\ \A q \in Runtimes : q # p => lanes'[q] = lanes[q]
  BY <1>1, <1>2, <1>3
<1> QED BY <1>3, <1>4

LEMMA RequestCancellationStep ==
  ASSUME IInv, NEW p \in Runtimes, NEW i \in Items, RequestCancellation(p, i)
  PROVE  IInv'
<1>1. /\ i \in pending[p] /\ cancelling' = [cancelling EXCEPT ![p] = @ \cup {i}] /\ Wake(p)
      /\ StopLanes(p, {i}) \/ lanes' = lanes
      /\ UNCHANGED <<rows, claims, paused, ingress, lock, messages, lapsed, up, startedAt, yielded, recover,
                     entry, failing, pending, faults, submitted, dropped, starts, overtaken>>
  BY DEF RequestCancellation, process, turns
<1>2. LockIsHeld' /\ StartsOK'
  BY <1>1, LockStays DEF IInv, StartsOK, Left
<1>3. lock' = lock /\ lapsed' = lapsed /\ entry' = entry /\ failing' = failing /\ starts' = starts
  BY <1>1
<1>4. /\ pending' \in [Runtimes -> SUBSET Items] /\ cancelling' \in [Runtimes -> SUBSET Items]
      /\ \A q \in Runtimes : cancelling'[q] \subseteq pending'[q]
  <2>1. /\ pending \in [Runtimes -> SUBSET Items] /\ cancelling \in [Runtimes -> SUBSET Items]
        /\ \A q \in Runtimes : cancelling[q] \subseteq pending[q]
    BY DEF IInv, Types
  <2> QED BY <1>1, <2>1
<1>5. /\ lanes' \in [Runtimes -> [LaneNames -> Lane]]
      /\ \A q \in Runtimes, m \in LaneNames :
           /\ lanes'[q][m].at = lanes[q][m].at /\ lanes'[q][m].claim = lanes[q][m].claim
           /\ lanes'[q][m].turn = lanes[q][m].turn
  BY <1>1, StopLanesFacts, SameLanes
<1> QED BY <1>1, <1>2, <1>3, <1>4, <1>5, EntryTypes, FlagTypes, TurnSide

LEMMA StopStep ==
  ASSUME IInv, NEW p \in Runtimes, Stop(p)
  PROVE  IInv'
<1>1. /\ StopLanes(p, Items)
      /\ UNCHANGED <<rows, claims, paused, ingress, lock, messages, lapsed, up, startedAt, requested, yielded,
                     recover, failing, registry, faults, submitted, dropped, starts, overtaken>>
  BY DEF Stop, process
<1>2. /\ entry' \in [Runtimes -> Entry]
      /\ \A q \in Runtimes : entry'[q].at = entry[q].at /\ entry'[q].turn = entry[q].turn
  <2>1. entry \in [Runtimes -> Entry]
    BY EntryTypes
  <2>2. CASE entry' = entry
    BY <2>1, <2>2
  <2>3. CASE entry' = [entry EXCEPT ![p].aborted = TRUE]
    <3> DEFINE x == [entry[p] EXCEPT !.aborted = TRUE]
    <3>1. x \in Entry /\ x.at = entry[p].at /\ x.turn = entry[p].turn
      BY <2>1 DEF Entry
    <3>2. entry' = [entry EXCEPT ![p] = x]
      BY <2>3
    <3> HIDE DEF x
    <3> QED BY <3>1, <3>2, EntryMoves
  <2> QED BY <2>2, <2>3 DEF Stop
<1>3. LockIsHeld'
  BY <1>1, <1>2, LockFollows DEF Occupied
<1>4. StartsOK'
  BY <1>1, <1>2 DEF IInv, StartsOK, Left
<1>5. lock' = lock /\ lapsed' = lapsed /\ failing' = failing /\ starts' = starts
  BY <1>1
<1> QED BY <1>1, <1>2, <1>3, <1>4, <1>5, EntryTypes, StopLanesFacts, RegistrySame, FlagTypes, TurnSide

\* The host is entered by no item twice: no two controllers have released it.
LEMMA EnterHostStep ==
  ASSUME IInv, NEW p \in Runtimes, EnterHost(p)
  PROVE  IInv'
<1> DEFINE t == entry[p].turn
           i == entry[p].turn[1]
<1>1. /\ entry[p].at = "released"
      /\ UNCHANGED <<rows, claims, paused, ingress, lock, messages, lapsed, up, startedAt, requested, yielded,
                     recover, lanes, failing, registry, faults, submitted, dropped, overtaken>>
  BY DEF EnterHost, process, dispatcher
<1>2. entry[p] \in Entry /\ Occupied(entry[p]) /\ i \in Items /\ starts[i] = 0 /\ Left(i)
  BY <1>1, EntryTypes DEF Occupied, IInv, StartsOK
<1>3. \A q \in Runtimes : q # p /\ entry[q].at = "released" => entry[q].turn[1] # i
  BY <1>1 DEF IInv, StartsOK
<1>4. starts \in [Items -> Nat]
  BY EntryTypes
<1>5. PICK x \in Entry : /\ entry' = [entry EXCEPT ![p] = x] /\ x.turn = t
                         /\ \/ x.at = "ended" /\ starts' = starts
                            \/ x.at = "running" /\ starts' = [starts EXCEPT ![i] = @ + 1]
  <2>1. CASE entry[p].aborted
    <3> DEFINE x == [entry[p] EXCEPT !.at = "ended", !.outcome = "aborted"]
    <3>1. x \in Entry /\ x.turn = t /\ x.at = "ended"
      BY <1>2 DEF Entry
    <3>2. entry' = [entry EXCEPT ![p] = x] /\ starts' = starts
      BY <2>1 DEF EnterHost
    <3> HIDE DEF x
    <3> QED BY <3>1, <3>2
  <2>2. CASE ~entry[p].aborted
    <3> DEFINE x == [entry[p] EXCEPT !.at = "running"]
    <3>1. x \in Entry /\ x.turn = t /\ x.at = "running"
      BY <1>2 DEF Entry
    <3>2. entry' = [entry EXCEPT ![p] = x] /\ starts' = [starts EXCEPT ![i] = @ + 1]
      BY <2>2 DEF EnterHost
    <3> HIDE DEF x
    <3> QED BY <3>1, <3>2
  <2> QED BY <2>1, <2>2
<1>6. /\ entry' \in [Runtimes -> Entry] /\ entry'[p] = x
      /\ \A q \in Runtimes : q # p => entry'[q] = entry[q]
  BY <1>5, EntryMoves
<1>7. LockIsHeld'
  BY <1>1, <1>2, <1>5, <1>6, LockFollows
<1>8. /\ starts' \in [Items -> Nat]
      /\ \A o \in Items : starts'[o] = starts[o] \/ (o = i /\ starts'[o] = 1)
  BY <1>2, <1>4, <1>5
<1>9. StartsOK'
  <2>1. \A o : Left(o)' = Left(o)
    BY <1>1 DEF Left
  <2>2. \A o \in Items : starts'[o] <= 1 /\ (starts'[o] > 0 => Left(o)')
    BY <1>2, <1>8, <2>1 DEF IInv, StartsOK
  <2>3. \A q \in Runtimes :
          /\ entry'[q].at \in {"held", "failed", "released"} => q # p /\ entry'[q] = entry[q]
    BY <1>5, <1>6
  <2>4. ASSUME NEW q \in Runtimes, entry'[q].at \in {"held", "failed", "released"}
        PROVE  /\ entry'[q].turn[1] \in Items
               /\ entry'[q].at = "released" =>
                    starts'[entry'[q].turn[1]] = 0 /\ Left(entry[q].turn[1])'
    <3>1. PICK o : o = entry[q].turn[1]
      OBVIOUS
    <3>2. /\ o \in Items /\ (entry[q].at = "released" => starts[o] = 0 /\ Left(o) /\ o # i)
      BY <1>3, <2>3, <2>4, <3>1 DEF IInv, StartsOK
    <3>3. entry[q].at = "released" => starts'[o] = 0 /\ Left(o)'
      BY <1>8, <2>1, <3>2
    <3>4. entry'[q] = entry[q] /\ entry'[q].turn[1] = o
      BY <2>3, <2>4, <3>1
    <3>5. entry[q].at = "released" => Left(entry[q].turn[1])'
      BY <3>3, <3>4 DEF Left
    <3> QED BY <3>2, <3>3, <3>4, <3>5
  <2>5. \A q, o \in Runtimes :
          entry'[q].at = "released" /\ entry'[o].at = "released" /\ q # o =>
            entry'[q].turn[1] # entry'[o].turn[1]
    BY <2>3 DEF IInv, StartsOK
  <2> QED BY <2>2, <2>4, <2>5 DEF StartsOK, Left
<1>10. lock' = lock /\ lapsed' = lapsed /\ failing' = failing
  BY <1>1
<1> QED BY <1>1, <1>6, <1>7, <1>8, <1>9, <1>10, EntryTypes, SameLanes, RegistrySame, FlagTypes, TurnSide

LEMMA HostEndsStep ==
  ASSUME IInv, NEW p \in Runtimes, HostEnds(p)
  PROVE  IInv'
<1>1. /\ entry[p].at \in {"running", "failed"}
      /\ UNCHANGED <<rows, claims, paused, ingress, lock, messages, lapsed, up, startedAt, requested, yielded,
                     recover, lanes, failing, registry, faults, submitted, dropped, starts, overtaken>>
  BY DEF HostEnds, process, dispatcher
<1>2. entry[p] \in Entry /\ Occupied(entry[p])
  BY <1>1, EntryTypes DEF Occupied
<1>3. PICK o \in {"completed", "failed", "aborted", "unstarted"} :
        entry' = [entry EXCEPT ![p].at = "ended", ![p].outcome = o]
  BY DEF HostEnds
<1> DEFINE x == [entry[p] EXCEPT !.at = "ended", !.outcome = o]
<1>4. x \in Entry /\ x.at = "ended" /\ x.turn = entry[p].turn
  BY <1>2 DEF Entry
<1>5. entry' = [entry EXCEPT ![p] = x]
  BY <1>3
<1> HIDE DEF x
<1>6. /\ entry' \in [Runtimes -> Entry] /\ entry'[p] = x
      /\ \A q \in Runtimes : q # p => entry'[q] = entry[q]
  BY <1>4, <1>5, EntryMoves
<1>7. LockIsHeld'
  BY <1>1, <1>2, <1>4, <1>6, LockFollows
<1>8. StartsOK'
  BY <1>1, <1>4, <1>6, StartsStay
<1>9. lock' = lock /\ lapsed' = lapsed /\ failing' = failing /\ starts' = starts
  BY <1>1
<1> QED BY <1>1, <1>6, <1>7, <1>8, <1>9, EntryTypes, SameLanes, RegistrySame, FlagTypes, TurnSide

\* A settlement by the owner frees the lock under no other Turn, and a late one
\* leaves it alone.
LEMMA SettleStep ==
  ASSUME IInv, NEW p \in Runtimes, Settle(p)
  PROVE  IInv'
<1>1. /\ entry[p].at = "ended"
      /\ (lock = <<entry[p].turn, p>> /\ lock' = NoLock) \/ lock' = lock
      /\ UNCHANGED <<rows, claims, ingress, messages, lapsed, up, startedAt, requested, yielded,
                     recover, lanes, failing, registry, faults, submitted, dropped, starts, overtaken>>
  BY DEF Settle, OwnsLease, process, dispatcher
<1>2. paused' \in BOOLEAN
  BY FlagTypes DEF Settle
<1>3. entry[p] \in Entry /\ Occupied(entry[p])
  BY <1>1, EntryTypes DEF Occupied
<1>4. PICK x \in Entry : x.at = "settled" /\ entry' = [entry EXCEPT ![p] = x]
  <2> DEFINE y == [entry[p] EXCEPT !.at = "settled"]
             z == [entry[p] EXCEPT !.at = "settled", !.outcome = "stale"]
  <2>1. y \in Entry /\ y.at = "settled" /\ z \in Entry /\ z.at = "settled"
    BY <1>3 DEF Entry
  <2>2. entry' = [entry EXCEPT ![p] = y] \/ entry' = [entry EXCEPT ![p] = z]
    BY DEF Settle
  <2> HIDE DEF y, z
  <2> QED BY <2>1, <2>2
<1>5. /\ entry' \in [Runtimes -> Entry] /\ entry'[p] = x
      /\ \A q \in Runtimes : q # p => entry'[q] = entry[q]
  BY <1>4, EntryMoves
<1>6. \A q \in Runtimes : Occupied(entry'[q]) => q # p /\ entry'[q] = entry[q]
  BY <1>4, <1>5 DEF Occupied
<1>7. LockIsHeld'
  <2>1. CASE lock' = lock
    BY <1>1, <1>6, <2>1, LockFollows
  <2>2. CASE lock = <<entry[p].turn, p>>
    <3>1. \A q \in Runtimes : Occupied(entry'[q]) => <<entry[q].turn, q>> # lock
      BY <1>6, <2>2
    <3>2. \A q \in Runtimes : Occupied(entry'[q]) =>
            /\ Occupied(entry[q]) /\ entry'[q].turn = entry[q].turn
            /\ up[q] /\ TurnIn(ingress, entry[q].turn) /\ <<entry[q].turn, q>> \in lapsed
      BY <1>6, <3>1 DEF IInv, LockIsHeld
    <3> QED BY <1>1, <3>2, LockLost
  <2> QED BY <1>1, <2>1, <2>2
<1>8. StartsOK'
  BY <1>1, <1>4, <1>5, StartsStay
<1>9. /\ lock' \in TurnIds \X (Runtimes \cup {Nobody}) /\ failing' = failing /\ starts' = starts
      /\ lapsed' = lapsed
  BY <1>1, Constants, EntryTypes
<1> QED BY <1>1, <1>2, <1>5, <1>7, <1>8, <1>9, EntryTypes, SameLanes, RegistrySame, FlagTypes, TurnSide

LEMMA CompleteStep ==
  ASSUME IInv, NEW p \in Runtimes, Complete(p)
  PROVE  IInv'
<1>1. /\ entry[p].at = "settled" /\ entry' = [entry EXCEPT ![p] = NoEntry]
      /\ Wake(p) \/ requested' = requested
      /\ UNCHANGED <<rows, claims, paused, ingress, lock, messages, lapsed, up, startedAt, yielded,
                     recover, lanes, failing, registry, faults, submitted, dropped, starts, overtaken>>
  BY DEF Complete, process
<1>2. /\ entry' \in [Runtimes -> Entry] /\ entry'[p] = NoEntry
      /\ \A q \in Runtimes : q # p => entry'[q] = entry[q]
  BY <1>1, Records, EntryMoves
<1>3. LockIsHeld'
  <2>1. \A q \in Runtimes : Occupied(entry'[q]) => entry'[q] = entry[q]
    BY <1>2, Records DEF Occupied
  <2> QED BY <1>1, <2>1, LockFollows
<1>4. StartsOK'
  BY <1>1, <1>2, Records, StartsStay
<1>5. lock' = lock /\ lapsed' = lapsed /\ failing' = failing /\ starts' = starts
  BY <1>1
<1> QED BY <1>1, <1>2, <1>3, <1>4, <1>5, EntryTypes, SameLanes, RegistrySame, FlagTypes, TurnSide

LEMMA SettleFailingStep ==
  ASSUME IInv, NEW p \in Runtimes, SettleFailing(p)
  PROVE  IInv'
<1>1. /\ failing[p] # NoTurn /\ failing' = [failing EXCEPT ![p] = NoTurn]
      /\ (lock = <<failing[p], p>> /\ lock' = NoLock) \/ lock' = lock
      /\ Wake(p) \/ requested' = requested
      /\ UNCHANGED <<rows, claims, ingress, messages, lapsed, up, startedAt, yielded, entry,
                     recover, lanes, registry, faults, submitted, dropped, starts, overtaken>>
  BY DEF SettleFailing, OwnsLease, process
<1>2. paused' \in BOOLEAN
  BY FlagTypes DEF SettleFailing
<1>3. /\ failing' \in [Runtimes -> TurnIds] /\ failing'[p] = NoTurn
      /\ \A q \in Runtimes : q # p => failing'[q] = failing[q]
  BY <1>1, EntryTypes, Constants
<1>4. \A q \in Runtimes : Occupied(entry[q]) => lock' = lock \/ lock # <<entry[q].turn, q>>
  BY <1>1 DEF IInv, LockIsHeld
<1>5. LockIsHeld' /\ StartsOK'
  <2>1. LockIsHeld'
    BY <1>1, <1>3, <1>4 DEF LockIsHeld, IInv
  <2> QED BY <1>1, <2>1 DEF IInv, StartsOK, Left
<1>6. /\ lock' \in TurnIds \X (Runtimes \cup {Nobody}) /\ entry' = entry /\ starts' = starts
      /\ lapsed' = lapsed
  BY <1>1, Constants, EntryTypes
<1> QED BY <1>1, <1>2, <1>3, <1>5, <1>6, EntryTypes, SameLanes, RegistrySame, FlagTypes, TurnSide

LEMMA RecoverTurnStep ==
  ASSUME IInv, NEW p \in Runtimes, RecoverTurn(p)
  PROVE  IInv'
<1>1. /\ Abandoned /\ lock' = NoLock
      /\ UNCHANGED <<rows, claims, paused, ingress, messages, lapsed, up, startedAt, requested, yielded,
                     entry, failing, recover, lanes, registry, faults, submitted, dropped, starts,
                     overtaken>>
  BY DEF RecoverTurn, Abandoned, process, dispatcher, turns
<1>2. LockIsHeld' /\ StartsOK'
  BY <1>1, LockGoes DEF IInv, StartsOK, Left
<1>3. /\ lock' \in TurnIds \X (Runtimes \cup {Nobody}) /\ entry' = entry /\ starts' = starts
      /\ failing' = failing /\ lapsed' = lapsed
  BY <1>1, Constants
<1> QED BY <1>1, <1>2, <1>3, EntryTypes, SameLanes, RegistrySame, FlagTypes, TurnSide

LEMMA LeaseLapsesStep ==
  ASSUME IInv, NEW p \in Runtimes, LeaseLapses(p)
  PROVE  IInv'
<1>1. /\ Fails /\ lock[2] = p /\ lapsed' = lapsed \cup {lock}
      /\ UNCHANGED <<rows, claims, paused, ingress, lock, messages, up, startedAt, requested, yielded,
                     entry, failing, recover, lanes, registry, submitted, dropped, starts, overtaken>>
  BY DEF LeaseLapses, process, dispatcher, turns
<1>2. lock \in TurnIds \X Runtimes
  BY <1>1, EntryTypes
<1>3. LockIsHeld' /\ StartsOK'
  BY <1>1, LockStays DEF IInv, StartsOK, Left
<1>4. /\ lock' = lock /\ entry' = entry /\ starts' = starts /\ failing' = failing
      /\ lapsed' \subseteq TurnIds \X Runtimes
  BY <1>1, <1>2, EntryTypes
<1> QED BY <1>1, <1>3, <1>4, EntryTypes, SameLanes, RegistrySame, FlagTypes, TurnSide

LEMMA LeaseLostStep ==
  ASSUME IInv, NEW p \in Runtimes, LeaseLost(p)
  PROVE  IInv'
<1> DEFINE x == [entry[p] EXCEPT !.aborted = TRUE]
<1>1. /\ entry' = [entry EXCEPT ![p] = x]
      /\ UNCHANGED <<rows, claims, paused, ingress, lock, messages, lapsed, up, startedAt, requested,
                     yielded, failing, recover, lanes, registry, faults, submitted, dropped, starts,
                     overtaken>>
  BY DEF LeaseLost, process, dispatcher
<1>2. x \in Entry /\ x.at = entry[p].at /\ x.turn = entry[p].turn
  BY EntryTypes DEF Entry
<1> HIDE DEF x
<1>3. /\ entry' \in [Runtimes -> Entry]
      /\ \A q \in Runtimes : entry'[q].at = entry[q].at /\ entry'[q].turn = entry[q].turn
  BY <1>1, <1>2, EntryMoves
<1>4. LockIsHeld'
  BY <1>1, <1>3, LockFollows DEF Occupied
<1>5. StartsOK'
  BY <1>1, <1>3 DEF IInv, StartsOK, Left
<1>6. lock' = lock /\ lapsed' = lapsed /\ failing' = failing /\ starts' = starts
  BY <1>1
<1> QED BY <1>1, <1>3, <1>4, <1>5, <1>6, EntryTypes, SameLanes, RegistrySame, FlagTypes, TurnSide

-----------------------------------------------------------------------------
(* Restarts.                                                               *)

\* A crash takes the lanes, the entry and the yields of its runtime with it;
\* the rows and the lock stay.
LEMMA CrashStep ==
  ASSUME IInv, NEW p \in Runtimes, Crash(p)
  PROVE  IInv'
<1>1. /\ Fails /\ up' = [up EXCEPT ![p] = FALSE]
      /\ lanes' = [lanes EXCEPT ![p] = [l \in LaneNames |-> Idle]]
      /\ entry' = [entry EXCEPT ![p] = NoEntry] /\ failing' = [failing EXCEPT ![p] = NoTurn]
      /\ UNCHANGED <<rows, claims, paused, ingress, lock, messages, lapsed, startedAt, submitted, dropped,
                     starts, overtaken>>
  BY DEF Crash
<1>2. /\ entry' \in [Runtimes -> Entry] /\ entry'[p] = NoEntry
      /\ \A q \in Runtimes : q # p => entry'[q] = entry[q]
  BY <1>1, Records, EntryMoves
<1>3. /\ failing' \in [Runtimes -> TurnIds] /\ failing'[p] = NoTurn
      /\ \A q \in Runtimes : q # p => failing'[q] = failing[q]
  BY <1>1, EntryTypes, Constants
<1>4. /\ up' \in [Runtimes -> BOOLEAN] /\ \A q \in Runtimes : q # p => up'[q] = up[q]
  BY <1>1, EntryTypes
<1>5. /\ lanes' \in [Runtimes -> [LaneNames -> Lane]] /\ \A l \in LaneNames : lanes'[p][l] = Idle
      /\ \A q \in Runtimes : q # p => lanes'[q] = lanes[q]
  BY <1>1, EntryTypes, Records
<1>6. /\ yielded' \in [Runtimes -> SUBSET (Items \ Foreground)]
      /\ \A q \in Runtimes : q # p => yielded'[q] = yielded[q]
  BY FlagTypes DEF Crash
<1>7. /\ requested' \in [Runtimes -> BOOLEAN] /\ recover' \in [Runtimes -> BOOLEAN]
      /\ faults' \in 0..MaxFaults
  BY <1>1, FlagTypes DEF Crash
<1>8. /\ pending' \in [Runtimes -> SUBSET Items] /\ cancelling' \in [Runtimes -> SUBSET Items]
      /\ \A q \in Runtimes : cancelling'[q] \subseteq pending'[q]
  <2>1. /\ pending \in [Runtimes -> SUBSET Items] /\ cancelling \in [Runtimes -> SUBSET Items]
        /\ \A q \in Runtimes : cancelling[q] \subseteq pending[q]
    BY DEF IInv, Types
  <2>2. pending' = [pending EXCEPT ![p] = {}] /\ cancelling' = [cancelling EXCEPT ![p] = {}]
    BY DEF Crash
  <2> QED BY <2>1, <2>2
<1>9. Types'
  BY <1>1, <1>2, <1>3, <1>4, <1>5, <1>6, <1>7, <1>8 DEF IInv, Types
<1>10. LockIsHeld'
  <2>1. ~Occupied(entry'[p])
    BY <1>2, Records DEF Occupied
  <2> QED BY <1>1, <1>2, <1>3, <1>4, <2>1 DEF IInv, LockIsHeld
<1>11. RowsOK' /\ Accounted' /\ NoneOvertaken'
  BY <1>1 DEF IInv, RowsOK, RowsAreItems, OneClaim, AcceptedIsTried, IngressIsPast, Accepted, Accounted,
              NoneOvertaken
<1>12. LanesOK'
  <2> SUFFICES ASSUME NEW q \in Runtimes, NEW m \in LaneNames
               PROVE  LaneOK(q, m)'
    BY DEF LanesOK
  <2>1. CASE q = p
    BY <1>5, <2>1, Records, LaneFree
  <2>2. CASE q # p
    <3>1. claims \in Nat /\ claims <= claims /\ (lanes[q][m].claim # 0 => up[q]) /\ Len(rows) \in Nat
      BY LaneFacts, RowTypes DEF LaneOK
    <3>2. lanes'[q] = lanes[q] /\ up'[q] = up[q] /\ yielded'[q] = yielded[q]
      BY <1>4, <1>5, <1>6, <2>2
    <3> QED BY <1>1, <3>1, <3>2, LaneHeld
  <2> QED BY <2>1, <2>2
<1>13. ClaimsApart'
  BY <1>5, Records DEF IInv, ClaimsApart
<1>14. StartsOK'
  BY <1>1, <1>2, Records, StartsStay
<1> QED BY <1>9, <1>10, <1>11, <1>12, <1>13, <1>14 DEF IInv

LEMMA StartStep ==
  ASSUME IInv, NEW p \in Runtimes, Start(p)
  PROVE  IInv'
<1>1. /\ ~up[p] /\ up' = [up EXCEPT ![p] = TRUE] /\ startedAt' = [startedAt EXCEPT ![p] = claims]
      /\ (lock' = NoLock /\ lock[2] = p) \/ lock' = lock
      /\ UNCHANGED <<rows, claims, paused, ingress, messages, lapsed, requested, yielded, recover,
                     lanes, entry, failing, registry, faults, submitted, dropped, starts, overtaken>>
  BY DEF Start, dispatcher, turns
<1>2. /\ up' \in [Runtimes -> BOOLEAN] /\ startedAt' \in [Runtimes -> 0..MaxClaims]
      /\ lock' \in TurnIds \X (Runtimes \cup {Nobody})
      /\ \A q \in Runtimes : up[q] => up'[q]
  BY <1>1, EntryTypes, Constants
<1>3. Types'
  BY <1>1, <1>2, RegistrySame DEF IInv, Types
<1>4. LockIsHeld'
  <2>1. CASE lock' = lock
    BY <1>1, <1>2, <2>1, LockStays
  <2>2. CASE lock[2] = p
    <3>1. Abandoned
      BY <1>1, <2>2 DEF Abandoned
    <3> QED BY <1>1, <1>2, <3>1, LockGoes
  <2> QED BY <1>1, <2>1, <2>2
<1>5. RowsOK' /\ Accounted' /\ NoneOvertaken' /\ ClaimsApart' /\ StartsOK'
  BY <1>1 DEF IInv, RowsOK, RowsAreItems, OneClaim, AcceptedIsTried, IngressIsPast, Accepted, Accounted,
              NoneOvertaken, ClaimsApart, StartsOK, Left
<1>6. LanesOK'
  <2> SUFFICES ASSUME NEW q \in Runtimes, NEW m \in LaneNames
               PROVE  LaneOK(q, m)'
    BY DEF LanesOK
  <2>1. claims \in Nat /\ claims <= claims /\ (lanes[q][m].claim # 0 => up'[q]) /\ Len(rows) \in Nat
    BY <1>2, LaneFacts, RowTypes DEF LaneOK
  <2> QED BY <1>1, <2>1, LaneHeld
<1> QED BY <1>3, <1>4, <1>5, <1>6 DEF IInv

-----------------------------------------------------------------------------
(* The rows that callers add, remove or reorder, and the claims.           *)

\* A step that adds or claims a row, or finds no claimed row: what it leaves
\* of the invariant when the lanes, but for one, go on.
LEMMA RowStep ==
  ASSUME IInv, rows' \in Seq(Row), RowsOK', Accounted', LanesOK', ClaimsApart',
         lanes' \in [Runtimes -> [LaneNames -> Lane]], claims' \in 0..MaxClaims,
         submitted \subseteq submitted', submitted' \subseteq Items,
         \A k \in 1..Len(rows') :
           rows'[k].item \notin submitted \/ \E j \in 1..Len(rows) : rows'[k].item = rows[j].item,
         requested' \in [Runtimes -> BOOLEAN],
         yielded' \in [Runtimes -> SUBSET (Items \ Foreground)],
         pending' \in [Runtimes -> SUBSET Items], cancelling' \in [Runtimes -> SUBSET Items],
         \A q \in Runtimes : cancelling'[q] \subseteq pending'[q],
         UNCHANGED <<paused, ingress, lock, messages, lapsed, up, startedAt, recover, entry, failing, faults,
                     dropped, starts, overtaken>>
  PROVE  IInv'
<1>1. Types'
  BY DEF IInv, Types
<1>2. LockIsHeld' /\ NoneOvertaken'
  BY LockStays DEF IInv, NoneOvertaken
<1>3. StartsOK'
  <2>1. \A i : Left(i) => Left(i)'
    BY EntryTypes DEF Left
  <2>2. StartsOK
    BY DEF IInv
  <2> QED BY <2>1, <2>2 DEF StartsOK
<1> QED BY <1>1, <1>2, <1>3 DEF IInv

LEMMA SubmitStep ==
  ASSUME IInv, NEW p \in Runtimes, NEW i \in Items, Submit(p, i)
  PROVE  IInv'
<1> DEFINE r == [item |-> i, claim |-> 0, by |-> Nobody, tried |-> 0]
<1>1. /\ i \notin submitted /\ submitted' = submitted \cup {i} /\ rows' = Append(rows, r) /\ Wake(p)
      /\ pending' = [pending EXCEPT ![p] = @ \cup {i}]
      /\ UNCHANGED <<claims, paused, ingress, lock, messages, lapsed, up, startedAt, yielded, recover, lanes,
                     entry, failing, cancelling, faults, dropped, starts, overtaken>>
  BY DEF Submit, process, turns
<1>2. r \in Row /\ r.item = i /\ r.claim = 0
  BY Constants DEF Row
<1> HIDE DEF r
<1>3. /\ rows' \in Seq(Row) /\ Len(rows') = Len(rows) + 1 /\ Len(rows) \in Nat
      /\ \A k \in 1..Len(rows) : rows'[k] = rows[k]
      /\ rows'[Len(rows) + 1] = r
  BY <1>1, <1>2, RowTypes
<1>4. \A k \in 1..Len(rows') : (k \in 1..Len(rows) /\ rows'[k] = rows[k]) \/ (k = Len(rows) + 1 /\ rows'[k] = r)
  BY <1>3
<1>5. RowsOK'
  <2>1. RowsAreItems /\ OneClaim /\ AcceptedIsTried /\ IngressIsPast /\ 0 <= claims
    BY LaneFacts, EntryTypes, Constants DEF IInv, RowsOK
  <2>2. RowsAreItems'
    <3>1. \A k \in 1..Len(rows) : rows[k].item # i
      BY <1>1, <2>1 DEF RowsAreItems
    <3>2. \A k \in 1..Len(rows') : rows'[k].item \in submitted' /\ rows'[k].claim <= claims'
      BY <1>1, <1>2, <1>4, <2>1 DEF RowsAreItems
    <3>3. \A j, k \in 1..Len(rows') : rows'[j].item = rows'[k].item => j = k
      BY <1>2, <1>4, <2>1, <3>1 DEF RowsAreItems
    <3> QED BY <3>2, <3>3 DEF RowsAreItems
  <2>3. OneClaim'
    BY <1>2, <1>4, <2>1 DEF OneClaim
  <2>4. AcceptedIsTried' /\ IngressIsPast'
    BY <1>1, <1>2, <1>4, <2>1 DEF AcceptedIsTried, IngressIsPast, Accepted
  <2> QED BY <2>2, <2>3, <2>4 DEF RowsOK
<1>6. Accounted'
  <2>1. Accounted /\ dropped \subseteq submitted
    BY DEF IInv, Types
  <2>2. \A k \in 1..Len(rows') : rows'[k].item \notin dropped'
    BY <1>1, <1>2, <1>4, <2>1 DEF Accounted
  <2>3. \E k \in 1..Len(rows') : rows'[k].item = i
    BY <1>2, <1>3
  <2>4. \A o \in submitted : (\E k \in 1..Len(rows') : rows'[k].item = o) \/ o \in messages' \/ o \in dropped'
    <3>1. \A k \in 1..Len(rows) : k \in 1..Len(rows') /\ rows'[k].item = rows[k].item
      BY <1>3
    <3> QED BY <1>1, <2>1, <3>1 DEF Accounted
  <2> QED BY <1>1, <2>2, <2>3, <2>4 DEF Accounted
<1>7. LanesOK'
  <2> SUFFICES ASSUME NEW q \in Runtimes, NEW m \in LaneNames
               PROVE  LaneOK(q, m)'
    BY DEF LanesOK
  <2>1. claims \in Nat /\ claims <= claims /\ (lanes[q][m].claim # 0 => up[q])
    BY LaneFacts DEF LaneOK
  <2>2. \A k \in 1..Len(rows') : rows'[k].claim # 0 =>
          /\ k \in 1..Len(rows) /\ rows'[k] = rows[k]
          /\ \A j \in 1..Len(rows') : j < k => rows'[j].item = rows[j].item /\ j \in 1..Len(rows)
    BY <1>2, <1>3, <1>4
  <2> QED BY <1>1, <2>1, <2>2, LaneHeld
<1>8. ClaimsApart'
  BY <1>1 DEF IInv, ClaimsApart
<1>9. /\ pending' \in [Runtimes -> SUBSET Items] /\ cancelling' \in [Runtimes -> SUBSET Items]
      /\ \A q \in Runtimes : cancelling'[q] \subseteq pending'[q]
  <2>1. /\ pending \in [Runtimes -> SUBSET Items] /\ cancelling \in [Runtimes -> SUBSET Items]
        /\ \A q \in Runtimes : cancelling[q] \subseteq pending[q]
    BY DEF IInv, Types
  <2> QED BY <1>1, <2>1
<1>10. \A k \in 1..Len(rows') :
         rows'[k].item \notin submitted \/ \E j \in 1..Len(rows) : rows'[k].item = rows[j].item
  BY <1>1, <1>2, <1>4
<1>11. submitted \subseteq submitted' /\ submitted' \subseteq Items
  BY <1>1, EntryTypes
<1>12. claims' \in 0..MaxClaims /\ lanes' \in [Runtimes -> [LaneNames -> Lane]]
  BY <1>1, EntryTypes
<1> QED BY <1>1, <1>3, <1>5, <1>6, <1>7, <1>8, <1>9, <1>10, <1>11, <1>12, FlagTypes, RowStep

LEMMA CancelQueuedStep ==
  ASSUME IInv, NEW p \in Runtimes, NEW i \in Items, CancelQueued(p, i)
  PROVE  IInv'
<1>1. /\ ReconcilePause /\ dropped' = dropped \cup {i} /\ Forget(p, i)
      /\ UNCHANGED <<claims, ingress, lock, messages, lapsed, up, startedAt, requested, yielded, recover, lanes,
                     entry, failing, faults, submitted, starts, overtaken>>
  BY DEF CancelQueued, process, dispatcher, turns
<1>2. PICK n \in 1..Len(rows) : rows[n].item = i /\ rows' = RemoveAt(rows, n)
  BY RowTypes DEF CancelQueued
<1>3. Loses(rows', rows[n].item) /\ rows' \in Seq(Row) /\ Shrinks(rows')
  BY <1>2, RemoveAtLoses DEF Loses
<1>4. i \in submitted
  BY <1>2 DEF IInv, RowsOK, RowsAreItems
<1>5. LanesOK'
  <2> SUFFICES ASSUME NEW q \in Runtimes, NEW m \in LaneNames
               PROVE  LaneOK(q, m)'
    BY DEF LanesOK
  <2>1. claims \in Nat /\ claims <= claims /\ (lanes[q][m].claim # 0 => up[q])
    BY LaneFacts DEF LaneOK
  <2> QED BY <1>1, <1>3, <2>1, LaneKept
<1>6. ClaimsApart' /\ lanes' \in [Runtimes -> [LaneNames -> Lane]]
  BY <1>1 DEF IInv, ClaimsApart, Types
<1>7. RowsOK'
  BY <1>1, <1>3, ShrinkRows
<1>8. /\ Accounted'
      /\ \A k \in 1..Len(rows') : \E j \in 1..Len(rows) : rows'[k].item = rows[j].item
      /\ \A o \in dropped' : o \in dropped \/ \E j \in 1..Len(rows) : rows[j].item = o
  BY <1>1, <1>2, <1>3, LosesAccounts
<1>9. dropped' \subseteq submitted
  BY <1>1, <1>4, EntryTypes
<1>10. QueueSide
  BY <1>1, <1>3, <1>5, <1>6, <1>7, <1>8, <1>9, ForgetFacts DEF QueueSide
<1> QED BY <1>1, <1>10, FlagTypes, QueueStep

LEMMA ReorderStep ==
  ASSUME IInv, NEW p \in Runtimes, Reorder(p)
  PROVE  IInv'
<1>1. /\ Claimed = {}
      /\ UNCHANGED <<claims, paused, ingress, lock, messages, lapsed, up, startedAt, requested, yielded, recover,
                     lanes, entry, failing, registry, faults, submitted, dropped, starts, overtaken>>
  BY DEF Reorder, process, dispatcher, turns
<1>2. PICK order \in Bijection(1..Len(rows), 1..Len(rows)) :
        rows' = [k \in 1..Len(rows) |-> rows[order[k]]]
  BY RowTypes DEF Reorder
<1>3. /\ order \in [1..Len(rows) -> 1..Len(rows)]
      /\ \A j, k \in 1..Len(rows) : order[j] = order[k] => j = k
      /\ \A n \in 1..Len(rows) : \E k \in 1..Len(rows) : order[k] = n
  BY <1>2 DEF Bijection, Injection, Surjection, IsInjective
<1>4. /\ rows' \in Seq(Row) /\ Len(rows') = Len(rows)
      /\ \A k \in 1..Len(rows) : rows'[k] = rows[order[k]] /\ order[k] \in 1..Len(rows)
  <2>1. rows' \in [1..Len(rows) -> Row] /\ Len(rows) \in Nat
    BY <1>2, <1>3, RowTypes
  <2>2. rows' \in Seq(Row) /\ Len(rows') = Len(rows)
    BY <2>1, FunctionIsSeq
  <2> QED BY <1>2, <1>3, <2>2
<1>5. \A k \in 1..Len(rows') : rows'[k].claim = 0
  BY <1>1, <1>4, RowTypes DEF Claimed
<1>6. RowsOK'
  <2>1. RowsAreItems
    BY DEF IInv, RowsOK
  <2>2. RowsAreItems'
    <3>1. \A k \in 1..Len(rows') : rows'[k].item \in submitted' /\ rows'[k].claim <= claims'
      BY <1>1, <1>4, <2>1 DEF RowsAreItems
    <3>2. ASSUME NEW j \in 1..Len(rows'), NEW k \in 1..Len(rows'), rows'[j].item = rows'[k].item
          PROVE  j = k
      <4>1. rows[order[j]].item = rows[order[k]].item /\ order[j] \in 1..Len(rows) /\ order[k] \in 1..Len(rows)
        BY <1>4, <3>2
      <4>2. order[j] = order[k]
        BY <2>1, <4>1 DEF RowsAreItems
      <4> QED BY <1>3, <1>4, <4>2
    <3> QED BY <3>1, <3>2 DEF RowsAreItems
  <2>3. OneClaim' /\ AcceptedIsTried'
    BY <1>5 DEF OneClaim, AcceptedIsTried
  <2>4. IngressIsPast'
    BY <1>1 DEF IInv, RowsOK, IngressIsPast
  <2> QED BY <2>2, <2>3, <2>4 DEF RowsOK
<1>7. Accounted'
  <2>1. Accounted
    BY DEF IInv
  <2>2. \A k \in 1..Len(rows') : rows'[k].item \notin dropped'
    BY <1>1, <1>4, <2>1 DEF Accounted
  <2>3. ASSUME NEW o, NEW n \in 1..Len(rows), rows[n].item = o
        PROVE  \E k \in 1..Len(rows') : rows'[k].item = o
    <3>1. PICK k \in 1..Len(rows) : order[k] = n
      BY <1>3
    <3>2. k \in 1..Len(rows') /\ rows'[k].item = o
      BY <1>4, <2>3, <3>1
    <3> QED BY <3>2
  <2> QED BY <1>1, <2>1, <2>2, <2>3 DEF Accounted
<1>8. LanesOK'
  <2> SUFFICES ASSUME NEW q \in Runtimes, NEW m \in LaneNames
               PROVE  LaneOK(q, m)'
    BY DEF LanesOK
  <2>1. claims \in Nat /\ claims <= claims /\ (lanes[q][m].claim # 0 => up[q])
    BY LaneFacts DEF LaneOK
  <2> QED BY <1>1, <1>5, <2>1, LaneHeld
<1>9. ClaimsApart' /\ lanes' \in [Runtimes -> [LaneNames -> Lane]]
  BY <1>1 DEF IInv, ClaimsApart, Types
<1>10. \A k \in 1..Len(rows') :
         rows'[k].item \notin submitted \/ \E j \in 1..Len(rows) : rows'[k].item = rows[j].item
  BY <1>4
<1>11. submitted \subseteq submitted' /\ submitted' \subseteq Items /\ claims' \in 0..MaxClaims
  BY <1>1, EntryTypes
<1>12. requested' \in [Runtimes -> BOOLEAN] /\ yielded' \in [Runtimes -> SUBSET (Items \ Foreground)]
  BY <1>1, FlagTypes
<1> QED BY <1>1, <1>4, <1>6, <1>7, <1>8, <1>9, <1>10, <1>11, <1>12, RegistrySame, RowStep

\* A claim is made while no row has one, so its number is new to every lane
\* and to every admission.
LEMMA ClaimFacts ==
  ASSUME IInv, NEW p \in Runtimes, NEW l \in LaneNames, NEW n \in 1..Len(rows), Claim(p, l, n),
         Claimed = {}, up[p], UNCHANGED <<ingress, messages, up, submitted, dropped>>,
         \A q \in Runtimes : (q # p \/ l # "drain") => yielded'[q] = yielded[q]
  PROVE  /\ rows' \in Seq(Row) /\ lanes' \in [Runtimes -> [LaneNames -> Lane]]
         /\ claims' \in 0..MaxClaims
         /\ RowsOK' /\ LanesOK' /\ ClaimsApart' /\ Accounted'
         /\ \A k \in 1..Len(rows') : \E j \in 1..Len(rows) : rows'[k].item = rows[j].item
<1> DEFINE c == claims + 1
           r == [rows[n] EXCEPT !.claim = c, !.by = p]
           x == [at |-> "claimed", claim |-> c, stopped |-> FALSE, turn |-> DeliveryTurn(rows[n], c)]
<1>1. /\ claims' = c /\ rows' = [rows EXCEPT ![n] = r] /\ lanes' = [lanes EXCEPT ![p][l] = x]
  BY DEF Claim
<1>2. claims \in Nat /\ c \in Nat /\ c \in 0..MaxClaims /\ c # 0 /\ claims < c
  BY Constants, EntryTypes DEF Claim
<1>3. rows[n] \in Row /\ rows[n].item \in Items /\ rows[n].item \in submitted
  BY RowTypes DEF IInv, RowsOK, RowsAreItems
<1> HIDE DEF c
<1>4. r \in Row /\ r.item = rows[n].item /\ r.claim = c
  BY <1>2, <1>3 DEF Row
<1>5. DeliveryTurn(rows[n], c) \in TurnIds /\ DeliveryTurn(rows[n], c)[1] = rows[n].item
  <2>1. 0 \in 0..MaxClaims
    BY Constants
  <2>2. <<rows[n].item, 0>> \in TurnIds /\ <<rows[n].item, c>> \in TurnIds
    BY <1>2, <1>3, <2>1 DEF TurnIds
  <2> QED BY <2>2 DEF DeliveryTurn
<1>6. x \in Lane /\ x.at = "claimed" /\ x.claim = c /\ x.turn[1] = rows[n].item
  BY <1>2, <1>5 DEF Lane, LaneStates
<1> HIDE DEF r, x
<1>7. /\ rows' \in Seq(Row) /\ Len(rows') = Len(rows) /\ rows'[n] = r
      /\ \A k \in 1..Len(rows) : k # n => rows'[k] = rows[k]
  BY <1>1, <1>4, RowTypes
<1>8. \A k \in 1..Len(rows) : rows[k].claim = 0
  BY RowTypes DEF Claimed
<1>9. \A k \in 1..Len(rows) :
        /\ rows'[k].item = rows[k].item
        /\ (k = n /\ rows'[k].claim = c) \/ (k # n /\ rows'[k].claim = 0)
  BY <1>4, <1>7, <1>8
<1>10. ~AdmittedIn(ingress', c)
  BY <1>2 DEF IInv, RowsOK, IngressIsPast, AdmittedIn, Types, Claims
<1>11. RowsOK'
  <2>1. RowsAreItems /\ IngressIsPast
    BY DEF IInv, RowsOK
  <2>2. RowsAreItems'
    BY <1>1, <1>2, <1>7, <1>9, <2>1 DEF RowsAreItems
  <2>3. OneClaim'
    BY <1>7, <1>9 DEF OneClaim
  <2>4. AcceptedIsTried'
    BY <1>7, <1>9, <1>10 DEF AcceptedIsTried, Accepted, AdmittedIn
  <2>5. IngressIsPast'
    <3>1. \A g \in ingress : g[2] \in Nat
      BY Constants DEF IInv, Types, Claims
    <3> QED BY <1>1, <1>2, <2>1, <3>1 DEF IngressIsPast
  <2> QED BY <2>2, <2>3, <2>4, <2>5 DEF RowsOK
<1>12. Accounted'
  BY <1>7, <1>9 DEF IInv, Accounted
<1>13. /\ lanes' \in [Runtimes -> [LaneNames -> Lane]] /\ lanes'[p][l] = x
       /\ \A q \in Runtimes, m \in LaneNames : q # p \/ m # l => lanes'[q][m] = lanes[q][m]
  <2>1. lanes \in [Runtimes -> [LaneNames -> Lane]]
    BY DEF IInv, Types
  <2> QED BY <1>1, <1>6, <2>1
<1>14. \A q \in Runtimes, m \in LaneNames : lanes[q][m].claim # c
  BY <1>2, LaneFacts DEF LaneOK
<1>15. LanesOK'
  <2> SUFFICES ASSUME NEW q \in Runtimes, NEW m \in LaneNames
               PROVE  LaneOK(q, m)'
    BY DEF LanesOK
  <2>1. CASE q = p /\ m = l
    <3>1. \A k \in 1..Len(rows') : rows'[k].claim = c => rows'[k].item = x.turn[1]
      BY <1>2, <1>6, <1>7, <1>9
    <3> QED BY <1>1, <1>2, <1>3, <1>6, <1>10, <1>13, <2>1, <3>1 DEF LaneOK, Accepted, AdmittedIn, Early
  <2>2. CASE q # p \/ m # l
    <3>1. lanes'[q][m] = lanes[q][m] /\ lanes[q][m].claim # c
      BY <1>13, <1>14, <2>2
    <3>2. claims \in Nat /\ claims <= claims' /\ claims' \in Nat /\ (lanes[q][m].claim # 0 => up[q])
      BY <1>1, <1>2, LaneFacts DEF LaneOK
    <3>3. \A k \in 1..Len(rows') : ~(rows'[k].claim = lanes[q][m].claim /\ rows'[k].claim # 0)
      BY <1>7, <1>9, <3>1
    <3>4. m = "drain" => yielded[q] \subseteq yielded'[q]
      BY <2>2
    <3> QED BY <3>1, <3>2, <3>3, <3>4, LaneHeld
  <2> QED BY <2>1, <2>2
<1>16. ClaimsApart'
  BY <1>6, <1>13, <1>14 DEF IInv, ClaimsApart
<1> QED BY <1>1, <1>2, <1>7, <1>9, <1>11, <1>12, <1>13, <1>15, <1>16

LEMMA ClaimNextStep ==
  ASSUME IInv, NEW p \in Runtimes, ClaimNext(p)
  PROVE  IInv'
<1> DEFINE skip == IF requested[p] THEN {} ELSE yielded[p]
<1>1. /\ AtTop(p) /\ yielded' = [yielded EXCEPT ![p] = skip]
      /\ requested' = [requested EXCEPT ![p] = FALSE]
      /\ UNCHANGED <<paused, ingress, lock, messages, lapsed, up, startedAt, recover, entry, failing, registry,
                     faults, submitted, dropped, starts, overtaken>>
  BY DEF ClaimNext, process, turns
<1>2. /\ yielded' \in [Runtimes -> SUBSET (Items \ Foreground)]
      /\ \A q \in Runtimes : q # p => yielded'[q] = yielded[q]
      /\ requested' \in [Runtimes -> BOOLEAN] /\ recover' \in [Runtimes -> BOOLEAN]
      /\ faults' \in 0..MaxFaults /\ paused' \in BOOLEAN
  <2>1. skip \in SUBSET (Items \ Foreground)
    BY FlagTypes
  <2> HIDE DEF skip
  <2> QED BY <1>1, <2>1, FlagTypes
<1>3. up[p] /\ lanes[p]["drain"].at \in {"idle", "top"} /\ "drain" \in LaneNames
  BY <1>1 DEF AtTop, LaneNames
<1>4. CASE Finish(p, "drain", FALSE) /\ UNCHANGED <<rows, claims>>
  <2>1. Keeps(rows') /\ Shrinks(rows') /\ rows' \in Seq(Row)
    BY <1>4, SameKeeps, KeepsShrinks DEF Keeps
  <2>2. lanes' \in [Runtimes -> [LaneNames -> Lane]] /\ LanesOK' /\ ClaimsApart'
    BY <1>1, <1>2, <1>3, <1>4, <2>1, LaneDone
  <2>3. QueueSide
    BY <1>1, <1>4, <2>1, <2>2, GotoSide
  <2> QED BY <1>1, <1>2, <1>4, <2>3, QueueStep
<1>5. CASE \E k \in Candidates(skip) : Claimed = {} /\ Claim(p, "drain", k)
  <2>1. PICK n \in 1..Len(rows) : Claimed = {} /\ Claim(p, "drain", n)
    BY <1>5, RowTypes DEF Candidates
  <2>2. /\ rows' \in Seq(Row) /\ lanes' \in [Runtimes -> [LaneNames -> Lane]]
        /\ claims' \in 0..MaxClaims
        /\ RowsOK' /\ LanesOK' /\ ClaimsApart' /\ Accounted'
        /\ \A k \in 1..Len(rows') : \E j \in 1..Len(rows) : rows'[k].item = rows[j].item
    BY <1>1, <1>2, <1>3, <2>1, ClaimFacts
  <2>3. submitted \subseteq submitted' /\ submitted' \subseteq Items
    BY <1>1, EntryTypes
  <2> QED BY <1>1, <1>2, <2>2, <2>3, RegistrySame, RowStep
<1> QED BY <1>4, <1>5 DEF ClaimNext

LEMMA ContinuePausedStep ==
  ASSUME IInv, NEW p \in Runtimes, ContinuePaused(p)
  PROVE  IInv'
<1>1. /\ up[p] /\ Claimed = {} /\ "continue" \in LaneNames
      /\ UNCHANGED <<paused, ingress, lock, messages, lapsed, up, startedAt, requested, yielded, recover, entry,
                     failing, registry, faults, submitted, dropped, starts, overtaken>>
  BY DEF ContinuePaused, process, turns, LaneNames
<1>2. PICK n \in 1..Len(rows) : Claim(p, "continue", n)
  BY RowTypes DEF ContinuePaused, Candidates
<1>3. /\ rows' \in Seq(Row) /\ lanes' \in [Runtimes -> [LaneNames -> Lane]]
      /\ claims' \in 0..MaxClaims
      /\ RowsOK' /\ LanesOK' /\ ClaimsApart' /\ Accounted'
      /\ \A k \in 1..Len(rows') : \E j \in 1..Len(rows) : rows'[k].item = rows[j].item
  BY <1>1, <1>2, ClaimFacts
<1>4. submitted \subseteq submitted' /\ submitted' \subseteq Items
  BY <1>1, EntryTypes
<1>5. requested' \in [Runtimes -> BOOLEAN] /\ yielded' \in [Runtimes -> SUBSET (Items \ Foreground)]
  BY <1>1, FlagTypes
<1> QED BY <1>1, <1>3, <1>4, <1>5, RegistrySame, RowStep

-----------------------------------------------------------------------------
(* The admission and the start fence.                                      *)

\* An admission takes the lock from nobody whose lease has not lapsed, and finds
\* nothing before its row that did not yield; the attempt was recorded.
LEMMA AdmitStep ==
  ASSUME IInv, NEW p \in Runtimes, NEW l \in LaneNames, Admit(p, l)
  PROVE  IInv'
<1> DEFINE t == lanes[p][l].turn
           c == lanes[p][l].claim
           result == AdmitResult(p, l)
<1>1. /\ up[p] /\ lanes[p][l].at = "prepared" /\ Goto(p, l, result)
      /\ UNCHANGED <<rows, claims, messages, lapsed, up, startedAt, requested, yielded, recover,
                     submitted, dropped, starts, overtaken>>
  BY DEF Admit, process
<1>2. /\ LaneOK(p, l) /\ c \in Nat /\ c \in 0..MaxClaims /\ c # 0 /\ t \in TurnIds
      /\ ~Accepted(c) /\ c <= claims /\ t[1] \in submitted /\ t[1] \in Items
      /\ \A k \in 1..Len(rows) : rows[k].claim = c => rows[k].tried = c
  <2>1. /\ LaneOK(p, l) /\ c \in Nat /\ c \in 0..MaxClaims /\ t \in TurnIds
    BY LaneFacts
  <2> QED BY <1>1, <2>1, EntryTypes DEF LaneOK, Early
<1>3. Keeps(rows') /\ Shrinks(rows') /\ rows' \in Seq(Row)
  BY <1>1, SameKeeps, KeepsShrinks DEF Keeps
<1>4. result \in {"stopped", "conflict", "rejected", "accepted"}
  BY <1>2 DEF AdmitResult, Accepted
<1>5. CASE result # "accepted"
  <2>1. /\ UNCHANGED <<ingress, paused, entry, failing, registry, faults>>
        /\ lock' = lock \/ lock' = AdmissionLock
    BY <1>5 DEF Admit, turns
  <2>2. /\ result \in LaneStates /\ result \notin {"idle", "top", "duplicate"} /\ result \notin Early
        /\ result \notin {"prepared", "committed", "accepted"}
    BY <1>4, <1>5 DEF LaneStates, Early
  <2> HIDE DEF result
  <2>3. lanes' \in [Runtimes -> [LaneNames -> Lane]] /\ LanesOK' /\ ClaimsApart'
    BY <1>1, <1>2, <1>3, <2>1, <2>2, LaneMoves
  <2>4. QueueSide
    BY <1>1, <1>3, <2>1, <2>3, GotoSide
  <2>5. lock' = lock \/ (Abandoned /\ lock' = NoLock)
    BY <2>1, AdmissionFrees
  <2> QED BY <1>1, <2>1, <2>4, <2>5, FlagTypes, QueueStep
<1>6. CASE result = "accepted"
  <2>1. AdmissionLock = NoLock /\ Holds(c) /\ BlockedBy(p, l, c) = {} /\ ~\E g \in ingress : g[1] = t
    BY <1>6 DEF AdmitResult, PriorityBlocked
  <2>2. /\ lock' = <<t, p>> /\ ingress' = ingress \cup {<<t, c>>} /\ paused' = (paused /\ l = "drain")
        /\ Forget(p, t[1]) /\ (faults' = faults \/ Fails)
        /\ \/ /\ entry[p].at = "none" /\ failing' = failing
              /\ entry' = [entry EXCEPT ![p] = [turn |-> t, aborted |-> CancellationAtRegister(p, t[1]),
                                                at |-> "held", outcome |-> "none"]]
           \/ entry' = entry /\ failing' = [failing EXCEPT ![p] = t]
    BY <1>6 DEF Admit
  <2>3. \A j, k \in 1..Len(rows) : rows[k].claim = c /\ j < k => l = "drain" /\ rows[j].item \in yielded[p]
    BY <2>1, RowTypes DEF BlockedBy
  <2>4. \A d : AdmittedIn(ingress', d) => AdmittedIn(ingress, d) \/ d = c
    BY <2>2 DEF AdmittedIn
  <2>5. \A q \in Runtimes, m \in LaneNames : (q # p \/ m # l) => lanes[q][m].claim # c
    BY <1>2 DEF IInv, ClaimsApart
  <2>6. "accepted" \in LaneStates /\ "accepted" \notin Early
    BY DEF LaneStates, Early
  <2> HIDE DEF c, t, result
  <2>7. lanes' \in [Runtimes -> [LaneNames -> Lane]] /\ LanesOK' /\ ClaimsApart'
    <3>1. Goto(p, l, "accepted")
      BY <1>1, <1>6
    <3>2. \A j, k \in 1..Len(rows') : rows'[k].claim = lanes[p][l].claim /\ j < k =>
            l = "drain" /\ rows'[j].item \in yielded[p]
      BY <1>1, <2>3 DEF c
    <3>3. \A q \in Runtimes, m \in LaneNames : (q # p \/ m # l) /\ lanes[q][m].at \in Early =>
            (AdmittedIn(ingress', lanes[q][m].claim) => AdmittedIn(ingress, lanes[q][m].claim))
      BY <2>4, <2>5
    <3>4. lanes[p][l].claim # 0
      BY <1>2 DEF c
    <3> QED BY <1>1, <1>3, <2>6, <3>1, <3>2, <3>3, <3>4, LaneMoves
  <2>8. RowsOK'
    <3>1. RowsAreItems /\ OneClaim /\ AcceptedIsTried /\ IngressIsPast
      BY DEF IInv, RowsOK
    <3>2. RowsAreItems' /\ OneClaim'
      BY <1>1, <3>1 DEF RowsAreItems, OneClaim
    <3>3. AcceptedIsTried'
      BY <1>1, <1>2, <2>4, <3>1 DEF AcceptedIsTried, Accepted, AdmittedIn
    <3>4. IngressIsPast'
      BY <1>1, <1>2, <2>2, <3>1 DEF IngressIsPast
    <3> QED BY <3>2, <3>3, <3>4 DEF RowsOK
  <2>9. Accounted' /\ NoneOvertaken'
    BY <1>1 DEF IInv, Accounted, NoneOvertaken
  <2>10. /\ \A q \in Runtimes :
              /\ Occupied(entry[q]) =>
                   /\ up[q] /\ TurnIn(ingress', entry[q].turn) /\ entry[q].turn # t
                   /\ <<entry[q].turn, q>> \in lapsed
              /\ failing[q] # NoTurn =>
                   TurnIn(ingress', failing[q]) /\ (Occupied(entry[q]) => failing[q] # entry[q].turn)
              /\ failing[q] # NoTurn => failing[q] # t
         /\ TurnIn(ingress', t) /\ t # NoTurn
    <3>1. t # NoTurn
      BY <1>2, Constants
    <3>2. ~TurnIn(ingress, t) /\ \A u : TurnIn(ingress, u) => TurnIn(ingress', u)
      BY <2>1, <2>2, <3>1 DEF TurnIn
    <3>3. TurnIn(ingress', t)
      <4>1. <<t, c>> \in ingress' /\ <<t, c>>[1] = t
        BY <2>2
      <4> QED BY <4>1 DEF TurnIn
    <3>4. \A q \in Runtimes : Occupied(entry[q]) => <<entry[q].turn, q>> \in lapsed
      BY <2>1, AdmissionFrees, AllLapsed
    <3> QED BY <3>1, <3>2, <3>3, <3>4 DEF IInv, LockIsHeld
  <2>11. /\ entry' \in [Runtimes -> Entry] /\ failing' \in [Runtimes -> TurnIds]
         /\ LockIsHeld' /\ StartsOK'
    <3>1. CASE failing' = failing /\
               entry' = [entry EXCEPT ![p] = [turn |-> t, aborted |-> CancellationAtRegister(p, t[1]),
                                              at |-> "held", outcome |-> "none"]]
      <4> DEFINE x == [turn |-> t, aborted |-> CancellationAtRegister(p, t[1]),
                       at |-> "held", outcome |-> "none"]
      <4>1. CancellationAtRegister(p, t[1]) \in BOOLEAN
        BY DEF CancellationAtRegister
      <4>2. x \in Entry /\ x.at = "held" /\ x.turn = t
        BY <1>2, <4>1 DEF Entry
      <4> HIDE DEF x
      <4>3. /\ entry' \in [Runtimes -> Entry] /\ entry'[p] = x
            /\ \A q \in Runtimes : q # p => entry'[q] = entry[q]
        BY <3>1, <4>2, EntryMoves DEF x
      <4>4. LockIsHeld'
        <5>1. /\ up'[p] /\ TurnIn(ingress', entry'[p].turn) /\ lock' = <<entry'[p].turn, p>>
              /\ failing'[p] # NoTurn => TurnIn(ingress', failing'[p]) /\ failing'[p] # entry'[p].turn
          BY <1>1, <2>2, <2>10, <3>1, <4>2, <4>3
        <5>2. \A q \in Runtimes : q # p =>
                /\ Occupied(entry'[q]) =>
                     up'[q] /\ TurnIn(ingress', entry'[q].turn) /\ <<entry'[q].turn, q>> \in lapsed'
                /\ failing'[q] # NoTurn => TurnIn(ingress', failing'[q])
                     /\ (Occupied(entry'[q]) => failing'[q] # entry'[q].turn)
          BY <1>1, <2>10, <3>1, <4>3
        <5> QED BY <5>1, <5>2 DEF LockIsHeld
      <4>5. StartsOK'
        BY <1>1, <1>2, <4>2, <4>3, StartsStay
      <4> QED BY <3>1, <4>3, <4>4, <4>5, EntryTypes
    <3>2. CASE entry' = entry /\ failing' = [failing EXCEPT ![p] = t]
      <4>1. /\ failing' \in [Runtimes -> TurnIds] /\ failing'[p] = t
            /\ \A q \in Runtimes : q # p => failing'[q] = failing[q]
        BY <1>2, <3>2, EntryTypes
      <4>2. LockIsHeld'
        <5>1. \A q \in Runtimes : Occupied(entry'[q]) =>
                up'[q] /\ TurnIn(ingress', entry'[q].turn) /\ <<entry'[q].turn, q>> \in lapsed'
          BY <1>1, <2>10, <3>2
        <5>2. \A q \in Runtimes : failing'[q] # NoTurn =>
                TurnIn(ingress', failing'[q]) /\ (Occupied(entry'[q]) => failing'[q] # entry'[q].turn)
          BY <2>10, <3>2, <4>1
        <5> QED BY <5>1, <5>2 DEF LockIsHeld
      <4>3. StartsOK'
        BY <1>1, <3>2 DEF IInv, StartsOK, Left
      <4> QED BY <3>2, <4>1, <4>2, <4>3, EntryTypes
    <3> QED BY <2>2, <3>1, <3>2
  <2>12. ingress' \subseteq TurnIds \X Claims
    <3>1. <<t, c>> \in TurnIds \X Claims
      BY <1>2, Constants DEF Claims
    <3> QED BY <2>2, <3>1 DEF IInv, Types
  <2>13. lock' \in TurnIds \X (Runtimes \cup {Nobody}) /\ paused' \in BOOLEAN
    BY <1>2, <2>2
  <2>14. Types'
    BY <1>1, <1>3, <2>2, <2>7, <2>11, <2>12, <2>13, ForgetFacts, FlagTypes DEF IInv, Types
  <2> QED BY <2>7, <2>8, <2>9, <2>11, <2>14 DEF IInv
<1> QED BY <1>5, <1>6

\* start.fail and start.release reach the Turn that waits for this delivery.
Fenced(p, t, at) ==
  entry' = IF entry[p].at = "held" /\ entry[p].turn = t
           THEN [entry EXCEPT ![p].at = at] ELSE entry

LEMMA StartFence ==
  ASSUME IInv, NEW p \in Runtimes, NEW t, NEW at \in {"failed", "released"}, Fenced(p, t, at)
  PROVE  /\ entry' \in [Runtimes -> Entry]
         /\ \A q \in Runtimes :
              /\ entry'[q].turn = entry[q].turn
              /\ \/ entry'[q].at = entry[q].at
                 \/ /\ q = p /\ entry[q].at = "held" /\ entry[q].turn = t /\ entry'[q].at = at
<1>1. CASE entry[p].at = "held" /\ entry[p].turn = t
  <2> DEFINE x == [entry[p] EXCEPT !.at = at]
  <2>1. x \in Entry /\ x.at = at /\ x.turn = entry[p].turn
    BY EntryTypes DEF Entry
  <2>2. entry' = [entry EXCEPT ![p] = x]
    BY <1>1 DEF Fenced
  <2> HIDE DEF x
  <2> QED BY <1>1, <2>1, <2>2, EntryMoves
<1>2. CASE ~(entry[p].at = "held" /\ entry[p].turn = t)
  BY <1>2, EntryTypes DEF Fenced
<1> QED BY <1>1, <1>2

\* A delivery that fails after its admission: the Turn will not start.
LEMMA DeliveryFails ==
  ASSUME IInv, NEW p \in Runtimes, NEW l \in LaneNames, NEW t, FailStart(p, t), Goto(p, l, "thrown"),
         lanes[p][l].claim # 0, faults' \in 0..MaxFaults, paused' \in BOOLEAN,
         recover' \in [Runtimes -> BOOLEAN],
         UNCHANGED <<rows, claims, ingress, lock, messages, lapsed, up, startedAt, requested, yielded, failing,
                     registry, submitted, dropped, starts, overtaken>>
  PROVE  IInv'
<1>1. QueueSide
  BY PlainMove
<1>2. /\ entry' \in [Runtimes -> Entry]
      /\ \A q \in Runtimes :
           /\ entry'[q].turn = entry[q].turn
           /\ entry'[q].at = entry[q].at \/ (entry[q].at = "held" /\ entry'[q].at = "failed")
  <2>1. Fenced(p, t, "failed")
    BY DEF FailStart, Fenced
  <2> QED BY <2>1, StartFence
<1>3. LockIsHeld'
  BY <1>2, LockFollows DEF Occupied
<1>4. StartsOK'
  BY <1>2 DEF IInv, StartsOK, Left
<1>5. NoneOvertaken' /\ requested' \in [Runtimes -> BOOLEAN]
      /\ yielded' \in [Runtimes -> SUBSET (Items \ Foreground)]
  BY FlagTypes DEF IInv, NoneOvertaken
<1>6. Types'
  BY <1>1, <1>2, <1>5 DEF IInv, Types, QueueSide
<1> QED BY <1>1, <1>3, <1>4, <1>5, <1>6 DEF IInv, QueueSide

LEMMA CommitMessagesStep ==
  ASSUME IInv, NEW p \in Runtimes, NEW l \in LaneNames, CommitMessages(p, l)
  PROVE  IInv'
<1> DEFINE i == lanes[p][l].turn[1]
<1>1. /\ lanes[p][l].at = "accepted"
      /\ UNCHANGED <<rows, claims, paused, ingress, lock, lapsed, up, startedAt, requested, yielded, recover,
                     failing, registry, submitted, dropped, starts, overtaken>>
  BY DEF CommitMessages, process
<1>2. lanes[p][l].claim # 0 /\ LaneOK(p, l) /\ i \in submitted
  BY <1>1, LaneFacts DEF LaneOK
<1>3. CASE messages' = messages \cup {i} /\ Goto(p, l, "committed") /\ UNCHANGED <<entry, faults>>
  <2>1. Keeps(rows') /\ Shrinks(rows') /\ rows' \in Seq(Row)
    BY <1>1, SameKeeps, KeepsShrinks DEF Keeps
  <2>2. "committed" \in LaneStates /\ "committed" \notin Early
    BY DEF LaneStates, Early
  <2>3. \A j, k \in 1..Len(rows') : rows'[k].claim = lanes[p][l].claim /\ j < k =>
          l = "drain" /\ rows'[j].item \in yielded[p]
    BY <1>1, <1>2 DEF LaneOK
  <2>4. messages \subseteq messages' /\ i \in messages' /\ messages' \subseteq submitted'
    BY <1>1, <1>2, <1>3, EntryTypes
  <2>5. lanes' \in [Runtimes -> [LaneNames -> Lane]] /\ LanesOK' /\ ClaimsApart'
    BY <1>1, <1>2, <1>3, <2>1, <2>2, <2>3, <2>4, LaneMoves
  <2>6. RowsOK'
    BY <1>1, <2>1, ShrinkRows
  <2>7. /\ Accounted'
        /\ \A k \in 1..Len(rows') : \E j \in 1..Len(rows) : rows'[k].item = rows[j].item
        /\ \A o \in dropped' : o \in dropped \/ \E j \in 1..Len(rows) : rows[j].item = o
    BY <1>1, <2>1, <2>4, KeepsAccounts
  <2>8. StartsOK'
    BY <1>1, <1>3, <2>4, <2>7, StartsSame
  <2>9. LockIsHeld' /\ NoneOvertaken'
    BY <1>1, <1>3, LockStays DEF IInv, NoneOvertaken
  <2>10. Types'
    BY <1>1, <1>3, <2>1, <2>4, <2>5, RegistrySame DEF IInv, Types
  <2> QED BY <2>5, <2>6, <2>7, <2>8, <2>9, <2>10 DEF IInv
<1>4. CASE /\ Fails /\ FailStart(p, lanes[p][l].turn) /\ Goto(p, l, "thrown") /\ UNCHANGED messages
  BY <1>1, <1>2, <1>4, FlagTypes, DeliveryFails
<1> QED BY <1>3, <1>4 DEF CommitMessages

\* The acknowledgement deletes the row before it lets the host start.
LEMMA AcknowledgeStep ==
  ASSUME IInv, NEW p \in Runtimes, NEW l \in LaneNames, Acknowledge(p, l)
  PROVE  IInv'
<1> DEFINE t == lanes[p][l].turn
           c == lanes[p][l].claim
<1>i. PICK i : i = lanes[p][l].turn[1]
  OBVIOUS
<1>1. /\ lanes[p][l].at \in {"committed", "duplicate"} /\ ReconcilePause
      /\ UNCHANGED <<claims, ingress, lock, messages, lapsed, up, startedAt, requested, yielded, failing,
                     registry, submitted, dropped, starts>>
  BY DEF Acknowledge, process
<1>2. c # 0 /\ LaneOK(p, l) /\ lanes[p][l].at = "committed" /\ i \in messages
  <2>1. c # 0 /\ LaneOK(p, l)
    BY <1>1, LaneFacts DEF LaneOK
  <2> QED BY <1>i, <1>1, <2>1 DEF LaneOK
<1>3. CASE /\ Holds(c) /\ rows' = Removed(c)
           /\ overtaken' = IF Overtakes(p, c) THEN overtaken \cup {t[1]} ELSE overtaken
           /\ ReleaseStart(p, t) /\ Finish(p, l, lanes[p][l].at = "duplicate")
           /\ UNCHANGED <<recover, faults>>
  <2>1. PICK n \in 1..Len(rows) : rows[n].claim = c /\ Loses(Removed(c), rows[n].item)
    BY <1>3, RemovedLoses
  <2>2. rows[n].item = i /\ i \in Items
    BY <1>i, <1>2, <2>1, RowTypes DEF LaneOK
  <2>3. rows' \in Seq(Row) /\ Shrinks(rows') /\ Loses(rows', rows[n].item)
    BY <1>3, <2>1 DEF Loses
  <2>4. ~Overtakes(p, c)
    <3>1. \A j, k \in 1..Len(rows) : rows[k].claim = c /\ j < k => rows[j].item \in yielded[p]
      BY <1>2 DEF LaneOK
    <3>2. yielded[p] \subseteq Items \ Foreground
      BY FlagTypes
    <3>3. \A j \in 1..Len(rows) : \A k \in 1..(j - 1) : k \in 1..Len(rows) /\ k < j
      BY RowTypes
    <3> QED BY <3>1, <3>2, <3>3, RowTypes DEF Overtakes
  <2>5. NoneOvertaken'
    BY <1>3, <2>4 DEF IInv, NoneOvertaken
  <2>6. /\ lanes' \in [Runtimes -> [LaneNames -> Lane]] /\ LanesOK' /\ ClaimsApart' /\ RowsOK'
    <3>1. Finish(p, l, FALSE)
      BY <1>2, <1>3
    <3> QED BY <1>1, <2>3, <3>1, LaneDone
  <2>7. /\ Accounted'
        /\ \A k \in 1..Len(rows') : \E j \in 1..Len(rows) : rows'[k].item = rows[j].item
    BY <1>1, <1>2, <2>2, <2>3, LosesAccounts
  <2>8. /\ entry' \in [Runtimes -> Entry]
        /\ \A q \in Runtimes :
             /\ entry'[q].turn = entry[q].turn
             /\ \/ entry'[q].at = entry[q].at
                \/ q = p /\ entry[q].at = "held" /\ entry[q].turn = t /\ entry'[q].at = "released"
    <3>1. Fenced(p, t, "released")
      BY <1>3 DEF ReleaseStart, Fenced
    <3> HIDE DEF t
    <3> QED BY <3>1, StartFence
  <2>9. LockIsHeld'
    BY <1>1, <2>8, LockFollows DEF Occupied
  <2>10. StartsOK'
    <3>1. StartsOK
      BY DEF IInv
    <3>2. \A o : Left(o) => Left(o)'
      BY <1>1, <2>7 DEF Left
    <3>3. Left(i)'
      BY <1>1, <1>2, <2>1, <2>2, <2>3 DEF Left, Loses, IInv, Accounted
    <3>4. starts[i] = 0
      <4>1. ~Left(i)
        BY <2>1, <2>2 DEF Left
      <4>2. starts[i] \in Nat /\ ~(starts[i] > 0)
        BY <2>2, <3>1, <4>1, EntryTypes DEF StartsOK
      <4> QED BY <4>2
    <3>5. ASSUME NEW q \in Runtimes
          PROVE  /\ entry'[q].at \in {"held", "failed", "released"} => entry'[q].turn[1] \in Items
                 /\ entry'[q].at = "released" =>
                      starts'[entry'[q].turn[1]] = 0 /\ Left(entry[q].turn[1])'
      <4>1. PICK o : o = entry[q].turn[1]
        OBVIOUS
      <4>2. entry'[q].turn[1] = o
        BY <2>8, <4>1
      <4>3. entry'[q].at \in {"held", "failed", "released"} => o \in Items
        BY <2>8, <3>1, <4>1 DEF StartsOK
      <4>4. entry'[q].at = "released" => starts'[o] = 0 /\ Left(o)'
        <5>1. CASE entry[q].at = "released"
          BY <1>1, <3>1, <3>2, <4>1, <5>1 DEF StartsOK
        <5>2. CASE entry[q].turn = t
          BY <1>i, <1>1, <3>3, <3>4, <4>1, <5>2
        <5> QED BY <2>8, <5>1, <5>2
      <4>5. entry'[q].at = "released" => Left(entry[q].turn[1])'
        BY <4>2, <4>4 DEF Left
      <4> QED BY <4>2, <4>3, <4>4, <4>5
    <3>6. \A o \in Items : starts'[o] <= 1 /\ (starts'[o] > 0 => Left(o)')
      BY <1>1, <3>1, <3>2 DEF StartsOK
    <3>7. ASSUME NEW q \in Runtimes, NEW o \in Runtimes, q # o, entry'[q].at = "released",
                 entry'[o].at = "released"
          PROVE  entry'[q].turn[1] # entry'[o].turn[1]
      <4>1. /\ entry'[q].turn = entry[q].turn /\ entry'[o].turn = entry[o].turn
            /\ entry[q].at = "released" \/ (q = p /\ entry[q].turn[1] = i)
            /\ entry[o].at = "released" \/ (o = p /\ entry[o].turn[1] = i)
        BY <1>i, <2>8, <3>7
      <4>2. \A r \in Runtimes : entry[r].at = "released" => entry[r].turn[1] # i
        BY <2>1, <2>2, <3>1 DEF StartsOK, Left
      <4> QED BY <3>1, <3>7, <4>1, <4>2 DEF StartsOK
    <3> QED BY <2>8, <3>5, <3>6, <3>7 DEF StartsOK, Left
  <2>11. Types'
    BY <1>1, <1>3, <2>3, <2>6, <2>8, FlagTypes, RegistrySame DEF IInv, Types
  <2> QED BY <2>5, <2>6, <2>7, <2>9, <2>10, <2>11 DEF IInv
<1>4. CASE /\ Fails \/ UNCHANGED faults
           /\ recover' = [recover EXCEPT ![p] = @ \/ l = "drain"]
           /\ FailStart(p, t) /\ Goto(p, l, "thrown") /\ UNCHANGED <<rows, overtaken>>
  <2>1. faults' \in 0..MaxFaults /\ paused' \in BOOLEAN /\ recover' \in [Runtimes -> BOOLEAN]
    BY <1>1, <1>4, FlagTypes
  <2> QED BY <1>1, <1>2, <1>4, <2>1, DeliveryFails
<1> QED BY <1>3, <1>4 DEF Acknowledge

-----------------------------------------------------------------------------
(* The step, and the theorems.                                             *)

LEMMA StutterStep ==
  ASSUME IInv, UNCHANGED vars
  PROVE  IInv'
<1>1. UNCHANGED <<rows, claims, paused, ingress, lock, messages, lapsed, up, startedAt, requested, yielded,
                  recover, lanes, entry, failing, registry, faults, submitted, dropped, starts, overtaken>>
  BY DEF vars, process, dispatcher, turns
<1>2. Keeps(rows')
  BY <1>1, SameKeeps
<1>3. LanesOK' /\ ClaimsApart' /\ lanes' \in [Runtimes -> [LaneNames -> Lane]]
  BY <1>1 DEF IInv, LanesOK, LaneOK, Accepted, ClaimsApart, Types
<1>4. QueueSide
  BY <1>1, <1>2, <1>3, GotoSide
<1> QED BY <1>1, <1>4, FlagTypes, QueueStep

LEMMA InvStep ==
  ASSUME IInv, [Next]_vars
  PROVE  IInv'
<1>1. ASSUME NEW p \in Runtimes, Callers(p)
      PROVE  IInv'
  BY <1>1, SubmitStep, CancelQueuedStep, RequestCancellationStep, DispatchQueueStep, DirectTurnStep,
     ReorderStep, StopStep, ContinuePausedStep DEF Callers
<1>2. ASSUME NEW p \in Runtimes, NEW l \in LaneNames, LaneStep(p, l)
      PROVE  IInv'
  BY <1>2, ClassifyStep, PrepareStep, DeferAdmissionStep, AdmitStep, SettleRejectedStep,
     CommitMessagesStep, AcknowledgeStep, SettleThrownStep DEF LaneStep
<1>3. ASSUME NEW p \in Runtimes, TurnStep(p) \/ DrainStep(p)
      PROVE  IInv'
  BY <1>3, EnterHostStep, HostEndsStep, SettleStep, CompleteStep, SettleFailingStep, ClaimNextStep,
     RecoverBeforeStep DEF TurnStep, DrainStep
<1>4. ASSUME NEW p \in Runtimes, \/ RecoverPending(p) \/ Crash(p) \/ RecoverTurn(p) \/ Start(p)
                                 \/ LeaseLapses(p) \/ LeaseLost(p)
      PROVE  IInv'
  BY <1>4, RecoverPendingStep, CrashStep, RecoverTurnStep, StartStep, LeaseLapsesStep, LeaseLostStep
<1> QED BY <1>1, <1>2, <1>3, <1>4, StutterStep DEF Next

\* The inductive invariant holds of every run of the dispatchers.
THEOREM Invariance == Spec => []IInv
<1>1. IInv /\ [Next]_vars => IInv'
  BY InvStep
<1> QED BY <1>1, InitInv, PTL DEF Spec

\* Every variable has its type and at most one row is claimed (hasClaimed,
\* asked in the transaction that claims).
THEOREM TypeCorrect == Spec => []TypeOK
<1>1. ASSUME IInv PROVE TypeOK
  <2> DEFINE S == {k \in DOMAIN rows : rows[k].claim # 0}
  <2>1. DOMAIN rows = 1..Len(rows) /\ \A k \in DOMAIN rows : rows[k] \in Row
    BY <1>1, RowTypes
  <2>2. \A j, k \in S : j = k
    BY <1>1, <2>1 DEF IInv, RowsOK, OneClaim
  <2>3. Cardinality(S) <= 1
    <3>1. CASE S = {}
      BY <3>1, FS_EmptySet
    <3>2. CASE S # {}
      <4>1. PICK k : S = {k}
        BY <2>2, <3>2
      <4> QED BY <4>1, FS_Singleton
    <3> QED BY <3>1, <3>2
  <2>4. yielded \in [Runtimes -> SUBSET Items]
    BY <1>1, FlagTypes
  <2>5. messages \subseteq Items
    BY <1>1, EntryTypes
  <2>6. \A p \in Runtimes, l \in LaneNames : lanes[p][l] \in Lane
    BY <1>1, LaneFacts
  <2> HIDE DEF S
  <2> QED BY <1>1, <2>1, <2>3, <2>4, <2>5, <2>6 DEF IInv, Types, TypeOK, S
<1> QED BY <1>1, Invariance, PTL

\* No crash, lost claim or redelivery brings a queued message into the host a
\* second time.
THEOREM OneStart == Spec => []StartedAtMostOnce
<1>1. IInv => StartedAtMostOnce
  BY DEF IInv, StartsOK, StartedAtMostOnce
<1> QED BY <1>1, Invariance, PTL

\* What the host took has left the queue, is in the conversation, and was not
\* reported as removed.
THEOREM StartDelivers == Spec => []StartedIsDelivered
<1>1. ASSUME IInv PROVE StartedIsDelivered
  <2>1. DOMAIN rows = 1..Len(rows)
    BY <1>1, RowTypes
  <2> QED BY <1>1, <2>1 DEF IInv, StartsOK, Left, StartedIsDelivered, Queued
<1> QED BY <1>1, Invariance, PTL

\* A submitted message is queued, in the conversation, or reported as removed,
\* whatever crashes, recovers or fails to be written.
THEOREM NothingLost == Spec => []NeverLost
<1>1. ASSUME IInv PROVE NeverLost
  <2>1. DOMAIN rows = 1..Len(rows)
    BY <1>1, RowTypes
  <2> QED BY <1>1, <2>1 DEF IInv, Accounted, NeverLost, Queued
<1> QED BY <1>1, Invariance, PTL

\* The admission's fence keeps the order of the queue: nothing is acknowledged
\* past a user's message or past one that did not yield to this drain.
THEOREM OrderKept == Spec => []FifoKept
<1>1. IInv => FifoKept
  BY DEF IInv, NoneOvertaken, FifoKept
<1> QED BY <1>1, Invariance, PTL

\* A Turn is in the host only under the Session's lock, unless its own lease has
\* lapsed: an admission, a recovery or a late settlement frees the lock of no
\* Turn that keeps its lease.
THEOREM HostIsLocked == Spec => []HostHoldsLock
<1>1. IInv => HostHoldsLock
  BY DEF IInv, LockIsHeld, Occupied, HostHoldsLock
<1> QED BY <1>1, Invariance, PTL

-----------------------------------------------------------------------------
(* Cancellation before any fault: no crash, no failed write, no lapsed claim *)
(* lease.  A claim then stays with its lane until the lane is done with    *)
(* it, so an item whose completion a runtime has forgotten is gone from    *)
(* the queue, or about to go with the delivery that registered it.         *)

Faultless == faults = 0 /\ \A p \in Runtimes : up[p] /\ startedAt[p] = 0

ClaimsHaveOwners == \A k \in 1..Len(rows) : rows[k].claim # 0 => rows[k].by \in Runtimes

Delivering == {"accepted", "committed"}
Over(p, i) ==
  \A k \in 1..Len(rows) : rows[k].item = i =>
    /\ rows[k].claim # 0
    /\ \E l \in LaneNames : lanes[p][l].claim = rows[k].claim /\ lanes[p][l].at \in Delivering

\* A runtime that answered 'aborted' still has the reason, or the item is over.
AnswersKept ==
  /\ told \in [Runtimes -> SUBSET Items]
  /\ \A p \in Runtimes :
       /\ told[p] \subseteq submitted /\ pending[p] \subseteq submitted
       /\ \A i \in told[p] : i \in cancelling[p] \/ Over(p, i)

\* A Turn before the host is no longer pending, and knows of the answer.
BeforeHost == {"held", "failed", "released"}
EntryHeeds ==
  \A p \in Runtimes : entry[p].at \in BeforeHost =>
    /\ entry[p].turn[1] \in submitted \ pending[p]
    /\ entry[p].turn[1] \in told[p] => entry[p].aborted

NoneDefied == defied = {}

CInv == Faultless /\ ClaimsHaveOwners /\ AnswersKept /\ EntryHeeds /\ NoneDefied

\* What a step may do to the rows, the lanes, the registry and the entry.
GivenUp(c) ==
  \E p \in Runtimes, l \in LaneNames :
    c # 0 /\ lanes[p][l].claim = c /\ lanes[p][l].at \notin Delivering
RowsFrom ==
  \A k \in 1..Len(rows') :
    \/ rows'[k].item \notin submitted /\ rows'[k].claim = 0
    \/ \E j \in 1..Len(rows) :
         /\ rows'[k].item = rows[j].item
         /\ \/ rows'[k].claim = rows[j].claim /\ rows'[k].by = rows[j].by
            \/ rows[j].claim = 0 /\ rows'[k].by \in Runtimes
            \/ rows'[k].claim = 0 /\ GivenUp(rows[j].claim)
LanesFrom ==
  \A p \in Runtimes, l \in LaneNames : lanes[p][l].at \in Delivering =>
    \/ lanes'[p][l].at \in Delivering /\ lanes'[p][l].claim = lanes[p][l].claim
    \/ \A k \in 1..Len(rows') : rows'[k].claim # lanes[p][l].claim
AnswersFrom ==
  /\ told' \in [Runtimes -> SUBSET Items] /\ submitted \subseteq submitted'
  /\ \A p \in Runtimes :
       /\ told'[p] \subseteq told[p] \cup pending[p]
       /\ pending'[p] \subseteq pending[p] \cup (submitted' \ submitted)
       /\ \A i \in told'[p] :
            i \in cancelling'[p] \/ (i \in told[p] /\ i \notin cancelling[p]) \/ Over(p, i)'
EntryFrom ==
  \A p \in Runtimes : entry'[p].at \in BeforeHost =>
    \/ /\ entry[p].at \in BeforeHost /\ entry'[p].turn = entry[p].turn
       /\ entry[p].aborted => entry'[p].aborted
    \/ /\ entry'[p].turn[1] \in submitted' \ pending'[p]
       /\ entry'[p].turn[1] \in told'[p] => entry'[p].aborted

LEMMA OverStays ==
  ASSUME IInv, CInv, RowsFrom, LanesFrom, NEW p \in Runtimes, NEW i \in submitted, Over(p, i)
  PROVE  Over(p, i)'
<1> SUFFICES ASSUME NEW k \in 1..Len(rows'), rows'[k].item = i
             PROVE  /\ rows'[k].claim # 0
                    /\ \E l \in LaneNames :
                         lanes'[p][l].claim = rows'[k].claim /\ lanes'[p][l].at \in Delivering
  BY DEF Over
<1>1. PICK j \in 1..Len(rows) :
         /\ rows'[k].item = rows[j].item
         /\ \/ rows'[k].claim = rows[j].claim /\ rows'[k].by = rows[j].by
            \/ rows[j].claim = 0 /\ rows'[k].by \in Runtimes
            \/ rows'[k].claim = 0 /\ GivenUp(rows[j].claim)
  BY DEF RowsFrom
<1>2. rows[j].claim # 0 /\ rows[j].item = i
  BY <1>1 DEF Over
<1>3. PICK l \in LaneNames : lanes[p][l].claim = rows[j].claim /\ lanes[p][l].at \in Delivering
  BY <1>1, <1>2 DEF Over
<1>4. ~GivenUp(rows[j].claim)
  BY <1>2, <1>3 DEF GivenUp, IInv, ClaimsApart
<1>5. rows'[k].claim = lanes[p][l].claim
  BY <1>1, <1>2, <1>3, <1>4
<1>6. lanes'[p][l].at \in Delivering /\ lanes'[p][l].claim = lanes[p][l].claim
  BY <1>3, <1>5 DEF LanesFrom
<1> QED BY <1>2, <1>3, <1>5, <1>6

LEMMA HeedingStep ==
  ASSUME IInv, CInv, RowsFrom, LanesFrom, AnswersFrom, EntryFrom,
         UNCHANGED <<up, startedAt, faults>>, defied' = {}
  PROVE  CInv'
<1>1. Faultless' /\ NoneDefied'
  BY DEF CInv, Faultless, NoneDefied
<1>2. ClaimsHaveOwners'
  <2> SUFFICES ASSUME NEW k \in 1..Len(rows'), rows'[k].claim # 0
               PROVE  rows'[k].by \in Runtimes
    BY DEF ClaimsHaveOwners
  <2>1. \E j \in 1..Len(rows) :
          \/ rows'[k].claim = rows[j].claim /\ rows'[k].by = rows[j].by
          \/ rows'[k].by \in Runtimes
    BY DEF RowsFrom
  <2> QED BY <2>1 DEF CInv, ClaimsHaveOwners
<1>3. AnswersKept'
  <2>1. told' \in [Runtimes -> SUBSET Items] /\ submitted \subseteq submitted'
    BY DEF AnswersFrom
  <2>2. ASSUME NEW p \in Runtimes
        PROVE  told'[p] \subseteq submitted' /\ pending'[p] \subseteq submitted'
    BY DEF AnswersFrom, CInv, AnswersKept
  <2>3. ASSUME NEW p \in Runtimes, NEW i \in told'[p]
        PROVE  i \in cancelling'[p] \/ Over(p, i)'
    <3>1. CASE i \in told[p] /\ i \notin cancelling[p]
      <4>1. Over(p, i) /\ i \in submitted
        BY <3>1 DEF CInv, AnswersKept
      <4> QED BY <4>1, OverStays
    <3> QED BY <3>1 DEF AnswersFrom
  <2> QED BY <2>1, <2>2, <2>3 DEF AnswersKept
<1>4. EntryHeeds'
  <2> SUFFICES ASSUME NEW p \in Runtimes, entry'[p].at \in BeforeHost
               PROVE  /\ entry'[p].turn[1] \in submitted' \ pending'[p]
                      /\ entry'[p].turn[1] \in told'[p] => entry'[p].aborted
    BY DEF EntryHeeds
  <2>1. CASE /\ entry[p].at \in BeforeHost /\ entry'[p].turn = entry[p].turn
             /\ entry[p].aborted => entry'[p].aborted
    <3>1. /\ entry[p].turn[1] \in submitted \ pending[p]
          /\ entry[p].turn[1] \in told[p] => entry[p].aborted
      BY <2>1 DEF CInv, EntryHeeds
    <3> QED BY <2>1, <3>1 DEF AnswersFrom
  <2> QED BY <2>1 DEF EntryFrom
<1> QED BY <1>1, <1>2, <1>3, <1>4 DEF CInv


LEMMA NoFault ==
  ASSUME IInv, faults' = 0
  PROVE  ~Fails
<1>1. faults \in Nat
  BY Constants DEF IInv, Types
<1> QED BY <1>1 DEF Fails

LEMMA QuietRows ==
  ASSUME IInv, rows' = rows
  PROVE  RowsFrom
BY DEF RowsFrom

LEMMA QuietLanes ==
  ASSUME \A p \in Runtimes, l \in LaneNames :
           lanes'[p][l].at = lanes[p][l].at /\ lanes'[p][l].claim = lanes[p][l].claim
  PROVE  LanesFrom
BY DEF LanesFrom

LEMMA QuietAnswers ==
  ASSUME CInv, UNCHANGED <<told, registry, submitted>>
  PROVE  AnswersFrom
BY DEF CInv, AnswersKept, AnswersFrom, registry

LEMMA QuietEntry ==
  ASSUME entry' = entry
  PROVE  EntryFrom
BY DEF EntryFrom

\* A lane that is not delivering moves, or one that is goes on delivering.
LEMMA LaneLeaves ==
  ASSUME IInv, NEW p \in Runtimes, NEW l \in LaneNames, NEW x \in Lane,
         lanes' = [lanes EXCEPT ![p][l] = x],
         \/ lanes[p][l].at \notin Delivering
         \/ x.at \in Delivering /\ x.claim = lanes[p][l].claim
         \/ \A k \in 1..Len(rows') : rows'[k].claim # lanes[p][l].claim
  PROVE  LanesFrom
<1>1. lanes \in [Runtimes -> [LaneNames -> Lane]]
  BY DEF IInv, Types
<1>2. /\ lanes'[p][l] = x
      /\ \A q \in Runtimes, m \in LaneNames : q # p \/ m # l => lanes'[q][m] = lanes[q][m]
  BY <1>1
<1> QED BY <1>2 DEF LanesFrom

LEMMA FinishLeaves ==
  ASSUME IInv, NEW p \in Runtimes, NEW l \in LaneNames, NEW again \in BOOLEAN, Finish(p, l, again),
         \/ lanes[p][l].at \notin Delivering
         \/ \A k \in 1..Len(rows') : rows'[k].claim # lanes[p][l].claim
  PROVE  LanesFrom
<1> DEFINE x == [Idle EXCEPT !.at = IF again /\ l = "drain" THEN "top" ELSE "idle"]
<1>1. x \in Lane
  <2>1. Idle \in Lane
    BY Records
  <2> QED BY <2>1 DEF Lane, LaneStates
<1>2. lanes' = [lanes EXCEPT ![p][l] = x]
  BY DEF Finish
<1> HIDE DEF x
<1> QED BY <1>1, <1>2, LaneLeaves

LEMMA GotoLeaves ==
  ASSUME IInv, NEW p \in Runtimes, NEW l \in LaneNames, NEW at \in LaneStates, Goto(p, l, at),
         \/ lanes[p][l].at \notin Delivering \/ at \in Delivering
         \/ \A k \in 1..Len(rows') : rows'[k].claim # lanes[p][l].claim
  PROVE  LanesFrom /\ lanes'[p][l].at = at /\ lanes'[p][l].claim = lanes[p][l].claim
<1> DEFINE x == [lanes[p][l] EXCEPT !.at = at]
<1>1. lanes[p][l] \in Lane
  BY LaneFacts
<1>2. x \in Lane /\ x.at = at /\ x.claim = lanes[p][l].claim
  BY <1>1 DEF Lane
<1>3. lanes' = [lanes EXCEPT ![p][l] = x]
  BY DEF Goto
<1> HIDE DEF x
<1>4. lanes'[p][l] = x
  BY <1>2, <1>3, LaneTypes
<1> QED BY <1>2, <1>3, <1>4, LaneLeaves

LEMMA RemovalRows ==
  ASSUME IInv, NEW n \in 1..Len(rows), rows' = RemoveAt(rows, n)
  PROVE  RowsFrom /\ \A k \in 1..Len(rows') : rows'[k].item # rows[n].item
<1>1. /\ Len(rows') = Len(rows) - 1 /\ Len(rows) \in Nat
      /\ \A k \in 1..Len(rows') : /\ k < n => rows'[k] = rows[k]
                                  /\ k >= n => rows'[k] = rows[k + 1]
  BY RemoveAtFacts, RowTypes
<1>2. \A k \in 1..Len(rows') : \E j \in 1..Len(rows) : rows'[k] = rows[j]
  <2> SUFFICES ASSUME NEW k \in 1..Len(rows')
               PROVE  \E j \in 1..Len(rows) : rows'[k] = rows[j]
    OBVIOUS
  <2>1. k \in 1..Len(rows) /\ k + 1 \in 1..Len(rows) /\ (k < n \/ k >= n)
    BY <1>1
  <2> QED BY <1>1, <2>1
<1>3. RowsFrom
  BY <1>2 DEF RowsFrom
<1>4. \A k \in 1..Len(rows') : rows'[k].item # rows[n].item
  BY RemoveAtLoses DEF Loses
<1> QED BY <1>3, <1>4

LEMMA RemovedRows ==
  ASSUME IInv, NEW c, Holds(c), rows' = Removed(c)
  PROVE  RowsFrom /\ \E n \in 1..Len(rows) :
           rows[n].claim = c /\ \A k \in 1..Len(rows') : rows'[k].item # rows[n].item
<1>1. DOMAIN rows = 1..Len(rows)
  BY RowTypes
<1> DEFINE n == CHOOSE k \in DOMAIN rows : rows[k].claim = c
<1>2. n \in 1..Len(rows) /\ rows[n].claim = c
  BY <1>1 DEF Holds
<1>3. rows' = RemoveAt(rows, n)
  BY DEF Removed
<1> HIDE DEF n
<1> QED BY <1>2, <1>3, RemovalRows

LEMMA ReleasedRows ==
  ASSUME IInv, NEW p \in Runtimes, NEW l \in LaneNames, rows' = Released(lanes[p][l].claim),
         lanes[p][l].claim # 0, lanes[p][l].at \notin Delivering
  PROVE  RowsFrom
<1> DEFINE c == lanes[p][l].claim
<1>1. DOMAIN rows = 1..Len(rows) /\ Len(rows') = Len(rows)
  BY RowTypes, ReleasedKeeps DEF Keeps
<1>2. GivenUp(c)
  BY DEF GivenUp
<1>3. ASSUME NEW k \in 1..Len(rows)
      PROVE  /\ rows'[k].item = rows[k].item
             /\ \/ rows'[k].claim = rows[k].claim /\ rows'[k].by = rows[k].by
                \/ rows'[k].claim = 0 /\ rows[k].claim = c
  <2>1. rows[k] \in Row
    BY RowTypes
  <2>2. rows'[k] = IF rows[k].claim = c THEN [rows[k] EXCEPT !.claim = 0, !.by = Nobody] ELSE rows[k]
    BY <1>1 DEF Released
  <2>3. CASE rows[k].claim = c
    BY <2>1, <2>2, <2>3 DEF Row
  <2>4. CASE rows[k].claim # c
    BY <2>2, <2>4
  <2> QED BY <2>3, <2>4
<1> HIDE DEF c
<1> QED BY <1>1, <1>2, <1>3 DEF RowsFrom

\* The registry drops what leaves the queue, or is being delivered.
LEMMA ForgottenAnswers ==
  ASSUME IInv, CInv, NEW p \in Runtimes, NEW i, Forget(p, i), Over(p, i)',
         UNCHANGED <<told, submitted>>
  PROVE  AnswersFrom
<1>1. /\ pending \in [Runtimes -> SUBSET Items] /\ cancelling \in [Runtimes -> SUBSET Items]
  BY DEF IInv, Types
<1>2. /\ \A q \in Runtimes : pending'[q] = IF q = p THEN pending[q] \ {i} ELSE pending[q]
      /\ \A q \in Runtimes : cancelling'[q] = IF q = p THEN cancelling[q] \ {i} ELSE cancelling[q]
  BY <1>1 DEF Forget
<1>3. told' = told /\ told \in [Runtimes -> SUBSET Items] /\ submitted' = submitted
  BY DEF CInv, AnswersKept
<1>4. ASSUME NEW q \in Runtimes, NEW o \in told'[q]
      PROVE  o \in cancelling'[q] \/ (o \in told[q] /\ o \notin cancelling[q]) \/ Over(q, o)'
  <2>1. CASE q = p /\ o = i
    BY <2>1
  <2>2. CASE ~(q = p /\ o = i)
    BY <1>2, <1>3, <2>2
  <2> QED BY <2>1, <2>2
<1>5. \A q \in Runtimes : pending'[q] \subseteq pending[q] /\ told'[q] \subseteq told[q]
  BY <1>2, <1>3
<1> QED BY <1>3, <1>4, <1>5 DEF AnswersFrom

\* cancelClaim and rejectClaim
LEMMA RemoveClaimFrom ==
  ASSUME IInv, CInv, NEW p \in Runtimes, NEW l \in LaneNames, NEW again \in BOOLEAN,
         RemoveClaim(p, l, again), lanes[p][l].claim # 0, lanes[p][l].at \notin Delivering,
         UNCHANGED <<told, submitted>>
  PROVE  RowsFrom /\ LanesFrom /\ AnswersFrom
<1> DEFINE c == lanes[p][l].claim
           i == lanes[p][l].turn[1]
<1>1. CASE Holds(c)
  <2>1. rows' = Removed(c) /\ Forget(p, i) /\ Finish(p, l, again)
    BY <1>1 DEF RemoveClaim
  <2>2. PICK n \in 1..Len(rows) :
          rows[n].claim = c /\ \A k \in 1..Len(rows') : rows'[k].item # rows[n].item
    BY <1>1, <2>1, RemovedRows
  <2>3. rows[n].item = i
    BY <2>2, LaneFacts DEF LaneOK
  <2>4. AnswersFrom
    <3>1. PICK o : o = i
      OBVIOUS
    <3>2. Forget(p, o)
      BY <2>1, <3>1
    <3>3. Over(p, o)'
      <4> HIDE DEF i
      <4> SUFFICES \A k \in 1..Len(rows') : rows'[k].item # o
        BY DEF Over
      <4> QED BY <2>2, <2>3, <3>1
    <3> QED BY <3>2, <3>3, ForgottenAnswers
  <2> QED BY <1>1, <2>1, <2>4, RemovedRows, FinishLeaves
<1>2. CASE ~Holds(c)
  <2>1. Finish(p, l, FALSE) /\ UNCHANGED <<rows, dropped, registry>>
    BY <1>2 DEF RemoveClaim
  <2> QED BY <2>1, QuietRows, QuietAnswers, FinishLeaves
<1> QED BY <1>1, <1>2

LEMMA ReleaseClaimFrom ==
  ASSUME IInv, CInv, NEW p \in Runtimes, NEW l \in LaneNames, NEW again \in BOOLEAN,
         ReleaseClaim(p, l, again), lanes[p][l].claim # 0, lanes[p][l].at \notin Delivering,
         UNCHANGED <<told, submitted>>
  PROVE  RowsFrom /\ LanesFrom /\ AnswersFrom
<1>1. rows' = Released(lanes[p][l].claim) /\ Finish(p, l, again) /\ UNCHANGED registry
  BY DEF ReleaseClaim
<1> QED BY <1>1, ReleasedRows, FinishLeaves, QuietAnswers


\* Without faults every claim is active, so a recovery changes no row.
LEMMA RecoveredRows ==
  ASSUME IInv, CInv, NEW scope, scope = 0, NEW expired \in BOOLEAN, ~expired
  PROVE  /\ Len(Recovered(scope, expired)) = Len(rows)
         /\ \A k \in 1..Len(rows) : Recovered(scope, expired)[k] = rows[k]
<1> DEFINE inactive(r) == r.claim # 0 /\ ~ActiveClaim(r, scope, expired)
           kept == {k \in DOMAIN rows : inactive(rows[k]) /\ Accepted(rows[k].claim)
                                          => PendingDelivery(rows[k])}
           nth(n) == CHOOSE k \in kept : Cardinality({j \in kept : j <= k}) = n
           settled(r) == IF inactive(r) THEN [r EXCEPT !.claim = 0, !.by = Nobody] ELSE r
<1>1. Len(rows) \in Nat /\ DOMAIN rows = 1..Len(rows)
  BY RowTypes
<1>2. \A k \in 1..Len(rows) : ~inactive(rows[k])
  <2> SUFFICES ASSUME NEW k \in 1..Len(rows), rows[k].claim # 0
               PROVE  ActiveClaim(rows[k], scope, expired)
    OBVIOUS
  <2>1. rows[k].claim > 0
    BY RowTypes
  <2>2. rows[k].by \in Runtimes
    BY DEF CInv, ClaimsHaveOwners
  <2>3. up[rows[k].by] /\ startedAt[rows[k].by] = 0
    BY <2>2 DEF CInv, Faultless
  <2> QED BY <2>1, <2>3 DEF ActiveClaim, OwnerAlive
<1>3. kept = 1..Len(rows)
  BY <1>1, <1>2
<1>4. Recovered(scope, expired) = [n \in 1..Cardinality(kept) |-> settled(rows[nth(n)])]
  BY DEF Recovered
<1>5. Cardinality(kept) = Len(rows)
  <2>1. Cardinality(1..Len(rows)) = Len(rows)
    BY <1>1, FS_Interval
  <2> QED BY <1>3, <2>1
<1>6. \A k \in 1..Len(rows) : Cardinality({j \in kept : j <= k}) = k
  <2> SUFFICES ASSUME NEW k \in 1..Len(rows)
               PROVE  Cardinality({j \in kept : j <= k}) = k
    OBVIOUS
  <2>1. {j \in kept : j <= k} = 1..k
    BY <1>1, <1>3
  <2>2. Cardinality(1..k) = k
    BY <1>1, FS_Interval
  <2> QED BY <2>1, <2>2
<1>7. \A n \in 1..Len(rows) : nth(n) = n
  BY <1>3, <1>6
<1>8. \A k \in 1..Len(rows) : settled(rows[k]) = rows[k]
  BY <1>2
<1> HIDE DEF nth, kept, settled, inactive
<1>9. \A k \in 1..Len(rows) : Recovered(scope, expired)[k] = rows[k]
  BY <1>4, <1>5, <1>7, <1>8
<1> QED BY <1>9, RecoveredKeeps DEF Keeps

LEMMA RecoveryFrom ==
  ASSUME IInv, CInv, faults' = 0, NEW scope, scope = 0, NEW expired \in BOOLEAN,
         LeaseExpired(expired), rows' = Recovered(scope, expired)
  PROVE  RowsFrom /\ faults' = faults
<1>1. ~expired /\ faults' = faults
  BY NoFault DEF LeaseExpired
<1>2. Len(rows') = Len(rows) /\ \A k \in 1..Len(rows) : rows'[k] = rows[k]
  BY <1>1, RecoveredRows
<1> QED BY <1>1, <1>2 DEF RowsFrom

LEMMA ClaimFrom ==
  ASSUME IInv, NEW p \in Runtimes, NEW l \in LaneNames, NEW n \in 1..Len(rows), Claim(p, l, n),
         Claimed = {}, lanes[p][l].at \notin Delivering
  PROVE  RowsFrom /\ LanesFrom
<1> DEFINE c == claims + 1
           r == [rows[n] EXCEPT !.claim = c, !.by = p]
           x == [at |-> "claimed", claim |-> c, stopped |-> FALSE, turn |-> DeliveryTurn(rows[n], c)]
<1>1. /\ claims' = c /\ rows' = [rows EXCEPT ![n] = r] /\ lanes' = [lanes EXCEPT ![p][l] = x]
  BY DEF Claim
<1>2. claims \in Nat /\ c \in Nat /\ c \in 0..MaxClaims
  BY Constants, EntryTypes DEF Claim
<1>3. rows[n] \in Row /\ rows[n].item \in Items
  BY RowTypes
<1> HIDE DEF c
<1>4. r \in Row /\ r.item = rows[n].item /\ r.by = p
  BY <1>2, <1>3 DEF Row
<1>5. DeliveryTurn(rows[n], c) \in TurnIds
  <2>1. 0 \in 0..MaxClaims
    BY Constants
  <2>2. <<rows[n].item, 0>> \in TurnIds /\ <<rows[n].item, c>> \in TurnIds
    BY <1>2, <1>3, <2>1 DEF TurnIds
  <2> QED BY <2>2 DEF DeliveryTurn
<1>6. x \in Lane
  BY <1>2, <1>5 DEF Lane, LaneStates
<1> HIDE DEF r, x
<1>7. /\ Len(rows') = Len(rows) /\ rows'[n] = r /\ rows[n].claim = 0
      /\ \A k \in 1..Len(rows) : k # n => rows'[k] = rows[k]
  BY <1>1, <1>4, RowTypes DEF Claimed
<1>8. RowsFrom
  <2> SUFFICES ASSUME NEW k \in 1..Len(rows)
               PROVE  /\ rows'[k].item = rows[k].item
                      /\ \/ rows'[k].claim = rows[k].claim /\ rows'[k].by = rows[k].by
                         \/ rows[k].claim = 0 /\ rows'[k].by \in Runtimes
    BY <1>7 DEF RowsFrom
  <2> QED BY <1>4, <1>7
<1> QED BY <1>1, <1>6, <1>8, LaneLeaves

-----------------------------------------------------------------------------
(* Every step up to the first fault.                                       *)

\* The steps of a lane that has not been admitted.
LEMMA ClassifyHeeds ==
  ASSUME IInv, CInv, faults' = 0, NEW p \in Runtimes, NEW l \in LaneNames, Classify(p, l)
  PROVE  CInv'
<1>1. /\ lanes[p][l].at = "claimed"
      /\ UNCHANGED <<up, startedAt, entry, submitted, told, defied>>
  BY DEF Classify, process, turns
<1>2. lanes[p][l].claim # 0 /\ lanes[p][l].at \notin Delivering
  BY <1>1, LaneFacts DEF LaneOK, Delivering
<1>3. RowsFrom /\ LanesFrom /\ AnswersFrom /\ faults' = faults
  <2>1. CASE RemoveClaim(p, l, TRUE) /\ UNCHANGED faults
    BY <1>1, <1>2, <2>1, RemoveClaimFrom
  <2>2. CASE Goto(p, l, "ready") /\ UNCHANGED <<rows, registry, faults>>
    <3>1. "ready" \in LaneStates
      BY DEF LaneStates
    <3> QED BY <1>1, <1>2, <2>2, <3>1, QuietRows, QuietAnswers, GotoLeaves
  <2>3. CASE Defer(p, l) /\ UNCHANGED faults
    <3>1. PICK yields \in BOOLEAN : ReleaseClaim(p, l, yields)
      BY <2>3 DEF Defer
    <3> QED BY <1>1, <1>2, <2>3, <3>1, ReleaseClaimFrom
  <2>4. CASE ReleaseClaim(p, l, FALSE) /\ UNCHANGED faults
    BY <1>1, <1>2, <2>4, ReleaseClaimFrom
  <2>5. ~Fails
    BY NoFault
  <2> QED BY <2>1, <2>2, <2>3, <2>4, <2>5 DEF Classify
<1>4. EntryFrom /\ defied' = {}
  BY <1>1, QuietEntry DEF CInv, NoneDefied
<1> QED BY <1>1, <1>3, <1>4, HeedingStep

LEMMA PrepareHeeds ==
  ASSUME IInv, CInv, NEW p \in Runtimes, NEW l \in LaneNames, PrepareDelivery(p, l)
  PROVE  CInv'
<1> DEFINE c == lanes[p][l].claim
<1>1. /\ lanes[p][l].at = "ready"
      /\ UNCHANGED <<up, startedAt, entry, submitted, told, defied, registry, faults>>
  BY DEF PrepareDelivery, process, turns
<1>2. c # 0 /\ c \in 0..MaxClaims /\ lanes[p][l].at \notin Delivering
  BY <1>1, LaneFacts DEF LaneOK, Delivering
<1>3. "prepared" \in LaneStates /\ "thrown" \in LaneStates
  BY DEF LaneStates
<1>4. RowsFrom /\ LanesFrom
  <2>1. CASE rows' = Tried(c) /\ Goto(p, l, "prepared")
    <3>1. Len(rows') = Len(rows) /\ DOMAIN rows = 1..Len(rows)
      BY <1>2, <2>1, TriedKeeps, RowTypes DEF Keeps
    <3>2. ASSUME NEW k \in 1..Len(rows)
          PROVE  /\ rows'[k].item = rows[k].item /\ rows'[k].claim = rows[k].claim
                 /\ rows'[k].by = rows[k].by
      <4>1. rows[k] \in Row
        BY RowTypes
      <4>2. rows'[k] = [rows[k] EXCEPT !.tried = c] \/ rows'[k] = rows[k]
        BY <2>1, <3>1 DEF Tried
      <4> QED BY <4>1, <4>2 DEF Row
    <3>3. RowsFrom
      BY <3>1, <3>2 DEF RowsFrom
    <3> QED BY <1>2, <1>3, <2>1, <3>3, GotoLeaves
  <2>2. CASE Goto(p, l, "thrown") /\ UNCHANGED rows
    BY <1>2, <1>3, <2>2, QuietRows, GotoLeaves
  <2> QED BY <2>1, <2>2 DEF PrepareDelivery, Tried
<1>5. AnswersFrom /\ EntryFrom /\ defied' = {}
  BY <1>1, QuietAnswers, QuietEntry DEF CInv, NoneDefied
<1> QED BY <1>1, <1>4, <1>5, HeedingStep

LEMMA SettlementHeeds ==
  ASSUME IInv, CInv, NEW p \in Runtimes, NEW l \in LaneNames,
         DeferAdmission(p, l) \/ SettleRejected(p, l) \/ SettleThrown(p, l)
  PROVE  CInv'
<1>1. /\ lanes[p][l].at \in {"prepared", "stopped", "rejected", "conflict", "thrown"}
      /\ UNCHANGED <<up, startedAt, entry, submitted, told, defied, faults>>
      /\ \E again \in BOOLEAN : RemoveClaim(p, l, again) \/ ReleaseClaim(p, l, again)
  BY DEF DeferAdmission, SettleRejected, SettleThrown, Defer, process, turns
<1>2. lanes[p][l].claim # 0 /\ lanes[p][l].at \notin Delivering
  BY <1>1, LaneFacts DEF LaneOK, Delivering
<1>3. RowsFrom /\ LanesFrom /\ AnswersFrom
  BY <1>1, <1>2, RemoveClaimFrom, ReleaseClaimFrom
<1>4. EntryFrom /\ defied' = {}
  BY <1>1, QuietEntry DEF CInv, NoneDefied
<1> QED BY <1>1, <1>3, <1>4, HeedingStep

LEMMA RecoveryHeeds ==
  ASSUME IInv, CInv, faults' = 0, NEW p \in Runtimes, RecoverBefore(p) \/ RecoverPending(p)
  PROVE  CInv'
<1>1. /\ UNCHANGED <<up, startedAt, lanes, entry, registry, submitted, told, defied>>
      /\ \E expired \in BOOLEAN, scope \in {0, startedAt[p]} :
           LeaseExpired(expired) /\ rows' = Recovered(scope, expired)
  BY DEF RecoverBefore, RecoverPending, process, turns, dispatcher
<1>2. startedAt[p] = 0
  BY DEF CInv, Faultless
<1>3. RowsFrom /\ faults' = faults
  BY <1>1, <1>2, RecoveryFrom
<1>4. LanesFrom /\ AnswersFrom /\ EntryFrom /\ defied' = {}
  BY <1>1, QuietLanes, QuietAnswers, QuietEntry DEF CInv, NoneDefied
<1> QED BY <1>1, <1>3, <1>4, HeedingStep

LEMMA ClaimHeeds ==
  ASSUME IInv, CInv, NEW p \in Runtimes, ClaimNext(p) \/ ContinuePaused(p)
  PROVE  CInv'
<1>1. UNCHANGED <<up, startedAt, entry, registry, submitted, told, defied, faults>>
  BY DEF ClaimNext, ContinuePaused, process, turns
<1>2. \E l \in LaneNames :
        /\ lanes[p][l].at \notin Delivering
        /\ \/ Finish(p, l, FALSE) /\ rows' = rows
           \/ Claimed = {} /\ \E n \in 1..Len(rows) : Claim(p, l, n)
  <2>1. CASE ClaimNext(p)
    <3>1. "drain" \in LaneNames /\ lanes[p]["drain"].at \notin Delivering
      BY <2>1 DEF ClaimNext, AtTop, Delivering, LaneNames
    <3> QED BY <2>1, <3>1, RowTypes DEF ClaimNext, Candidates
  <2>2. CASE ContinuePaused(p)
    <3>1. "continue" \in LaneNames /\ lanes[p]["continue"].at \notin Delivering
      BY <2>2 DEF ContinuePaused, Delivering, LaneNames
    <3> QED BY <2>2, <3>1, RowTypes DEF ContinuePaused, Candidates
  <2> QED BY <2>1, <2>2
<1>3. RowsFrom /\ LanesFrom
  BY <1>2, QuietRows, FinishLeaves, ClaimFrom
<1>4. AnswersFrom /\ EntryFrom /\ defied' = {}
  BY <1>1, QuietAnswers, QuietEntry DEF CInv, NoneDefied
<1> QED BY <1>1, <1>3, <1>4, HeedingStep


\* The admission: the registration takes over the reason, and what was told
\* before and is no longer being cancelled has no row this lane could claim.
LEMMA AdmitHeeds ==
  ASSUME IInv, CInv, faults' = 0, NEW p \in Runtimes, NEW l \in LaneNames, Admit(p, l)
  PROVE  CInv'
<1> DEFINE t == lanes[p][l].turn
           c == lanes[p][l].claim
           i == lanes[p][l].turn[1]
           result == AdmitResult(p, l)
<1>1. /\ lanes[p][l].at = "prepared" /\ Goto(p, l, result)
      /\ UNCHANGED <<rows, up, startedAt, faults, submitted, told, defied>>
  BY NoFault DEF Admit, process
<1>2. LaneOK(p, l) /\ c # 0 /\ i \in submitted /\ i \in Items /\ lanes[p][l].at \notin Delivering
  <2>1. LaneOK(p, l)
    BY LaneFacts
  <2> QED BY <1>1, <2>1, EntryTypes DEF LaneOK, Delivering
<1>3. result \in LaneStates
  BY DEF AdmitResult, LaneStates
<1>4. LanesFrom /\ lanes'[p][l].at = result /\ lanes'[p][l].claim = c
  <2> HIDE DEF result
  <2> QED BY <1>1, <1>2, <1>3, GotoLeaves
<1>5. RowsFrom /\ defied' = {}
  BY <1>1, QuietRows DEF CInv, NoneDefied
<1>6. CASE result # "accepted"
  <2>1. UNCHANGED <<entry, registry>>
    BY <1>6 DEF Admit, turns
  <2> QED BY <1>1, <1>4, <1>5, <2>1, QuietAnswers, QuietEntry, HeedingStep
<1>7. CASE result = "accepted"
  <2>1. Holds(c)
    BY <1>7 DEF AdmitResult, PriorityBlocked
  <2>2. /\ Forget(p, i)
        /\ \/ entry' = [entry EXCEPT ![p] = [turn |-> t, aborted |-> CancellationAtRegister(p, i),
                                             at |-> "held", outcome |-> "none"]]
           \/ entry' = entry
    BY <1>7 DEF Admit
  <2>3. PICK n \in 1..Len(rows) : rows[n].claim = c
    BY <2>1, RowTypes DEF Holds
  <2>4. rows[n].item = i /\ \A k \in 1..Len(rows) : rows[k].item = i => k = n
    BY <1>2, <2>3 DEF LaneOK, IInv, RowsOK, RowsAreItems
  <2>5. AnswersFrom
    <3>1. PICK o : o = i
      OBVIOUS
    <3>2. \A k \in 1..Len(rows') : rows'[k].item = o =>
            rows'[k].claim = lanes'[p][l].claim /\ rows'[k].claim # 0
      BY <1>1, <1>2, <1>4, <2>3, <2>4, <3>1
    <3>3. lanes'[p][l].at \in Delivering
      BY <1>4, <1>7 DEF Delivering
    <3>4. Over(p, o)'
      BY <3>2, <3>3 DEF Over
    <3> HIDE DEF i
    <3> QED BY <1>1, <2>2, <3>1, <3>4, ForgottenAnswers
  <2>6. i \in told[p] => i \in cancelling[p]
    <3> SUFFICES ASSUME i \in told[p], i \notin cancelling[p]
                 PROVE  FALSE
      OBVIOUS
    <3>1. Over(p, i)
      BY DEF CInv, AnswersKept
    <3>2. PICK m \in LaneNames : lanes[p][m].claim = c /\ lanes[p][m].at \in Delivering
      BY <2>3, <2>4, <3>1 DEF Over
    <3>3. m = l
      BY <1>2, <3>2 DEF IInv, ClaimsApart
    <3> QED BY <1>2, <3>2, <3>3
  <2>7. EntryFrom
    <3>1. CASE entry' = entry
      BY <3>1, QuietEntry
    <3>2. CASE entry' = [entry EXCEPT ![p] = [turn |-> t, aborted |-> CancellationAtRegister(p, i),
                                              at |-> "held", outcome |-> "none"]]
      <4>1. entry'[p].turn[1] = i /\ entry'[p].aborted = (i \in cancelling[p])
        BY <3>2, EntryTypes DEF CancellationAtRegister
      <4>2. \A q \in Runtimes : q # p => entry'[q] = entry[q]
        BY <3>2, EntryTypes
      <4>3. i \in submitted' /\ i \notin pending'[p]
        BY <1>1, <1>2, <2>2 DEF Forget, IInv, Types
      <4> HIDE DEF i
      <4>4. entry'[p].turn[1] \in told'[p] => entry'[p].aborted
        BY <1>1, <2>6, <4>1
      <4>5. entry'[p].turn[1] \in submitted' \ pending'[p]
        BY <4>1, <4>3
      <4> QED BY <4>2, <4>4, <4>5 DEF EntryFrom
    <3> QED BY <2>2, <3>1, <3>2
  <2> QED BY <1>1, <1>4, <1>5, <2>5, <2>7, HeedingStep
<1> QED BY <1>6, <1>7

LEMMA CommitHeeds ==
  ASSUME IInv, CInv, faults' = 0, NEW p \in Runtimes, NEW l \in LaneNames, CommitMessages(p, l)
  PROVE  CInv'
<1>1. /\ UNCHANGED <<rows, up, startedAt, registry, submitted, told, defied, faults, entry>>
      /\ Goto(p, l, "committed")
  BY NoFault DEF CommitMessages, process
<1>2. "committed" \in LaneStates /\ "committed" \in Delivering
  BY DEF LaneStates, Delivering
<1>3. LanesFrom
  BY <1>1, <1>2, GotoLeaves
<1>4. RowsFrom /\ AnswersFrom /\ EntryFrom /\ defied' = {}
  BY <1>1, QuietRows, QuietAnswers, QuietEntry DEF CInv, NoneDefied
<1> QED BY <1>1, <1>3, <1>4, HeedingStep

\* The start fence opens or fails; the Turn behind it stays the same.
LEMMA FenceEntry ==
  ASSUME IInv, NEW p \in Runtimes, NEW t, ReleaseStart(p, t) \/ FailStart(p, t)
  PROVE  EntryFrom
<1>1. entry \in [Runtimes -> Entry]
  BY EntryTypes
<1>2. CASE entry' = entry
  BY <1>2, QuietEntry
<1>3. ASSUME NEW at \in {"released", "failed"}, entry[p].at = "held",
             entry' = [entry EXCEPT ![p].at = at]
      PROVE  EntryFrom
  <2>1. entry'[p].turn = entry[p].turn /\ entry'[p].aborted = entry[p].aborted
    BY <1>1, <1>3 DEF Entry
  <2>2. \A q \in Runtimes : q # p => entry'[q] = entry[q]
    BY <1>1, <1>3
  <2>3. entry[p].at \in BeforeHost
    BY <1>3 DEF BeforeHost
  <2> QED BY <2>1, <2>2, <2>3 DEF EntryFrom
<1> QED BY <1>2, <1>3 DEF ReleaseStart, FailStart

LEMMA AcknowledgeHeeds ==
  ASSUME IInv, CInv, faults' = 0, NEW p \in Runtimes, NEW l \in LaneNames, Acknowledge(p, l)
  PROVE  CInv'
<1> DEFINE c == lanes[p][l].claim
<1>1. UNCHANGED <<up, startedAt, registry, submitted, told, defied>> /\ faults' = faults
  BY NoFault DEF Acknowledge, process
<1>2. \/ Holds(c) /\ rows' = Removed(c) /\ \E again \in BOOLEAN : Finish(p, l, again)
      \/ ~Holds(c) /\ rows' = rows /\ Goto(p, l, "thrown")
  BY NoFault DEF Acknowledge
<1>3. lanes[p][l].claim # 0
  BY LaneFacts DEF Acknowledge, LaneOK
<1>4. RowsFrom /\ LanesFrom
  <2>1. CASE Holds(c) /\ rows' = Removed(c) /\ \E again \in BOOLEAN : Finish(p, l, again)
    <3>1. PICK n \in 1..Len(rows) :
            rows[n].claim = c /\ \A k \in 1..Len(rows') : rows'[k].item # rows[n].item
      BY <2>1, RemovedRows
    <3>2. RowsFrom
      BY <2>1, RemovedRows
    <3>3. \A k \in 1..Len(rows') : rows'[k].claim # c
      <4> SUFFICES ASSUME NEW k \in 1..Len(rows'), rows'[k].claim = c
                   PROVE  FALSE
        OBVIOUS
      <4>1. \E j \in 1..Len(rows) : rows'[k].item = rows[j].item /\ rows[j].claim = c
        <5>1. PICK f \in [1..Len(rows') -> 1..Len(rows)] : \A o \in 1..Len(rows') :
                /\ rows'[o].item = rows[f[o]].item
                /\ rows'[o].claim = 0 \/ rows'[o].claim = rows[f[o]].claim
          BY <2>1, RemovedLoses DEF Loses, Shrinks
        <5>2. f[k] \in 1..Len(rows)
          OBVIOUS
        <5> QED BY <1>3, <5>1, <5>2
      <4> QED BY <1>3, <3>1, <4>1 DEF IInv, RowsOK, OneClaim
    <3> HIDE DEF c
    <3> QED BY <2>1, <3>2, <3>3, FinishLeaves DEF c
  <2>2. CASE ~Holds(c) /\ rows' = rows /\ Goto(p, l, "thrown")
    <3>1. "thrown" \in LaneStates
      BY DEF LaneStates
    <3>2. \A k \in 1..Len(rows') : rows'[k].claim # lanes[p][l].claim
      BY <2>2, RowTypes DEF Holds
    <3> QED BY <2>2, <3>1, <3>2, QuietRows, GotoLeaves
  <2> QED BY <1>2, <2>1, <2>2
<1>5. EntryFrom
  BY FenceEntry DEF Acknowledge
<1>6. AnswersFrom /\ defied' = {}
  BY <1>1, QuietAnswers DEF CInv, NoneDefied
<1> QED BY <1>1, <1>4, <1>5, <1>6, HeedingStep

\* The host is entered without an abort only by what nobody cancelled.
LEMMA EnterHeeds ==
  ASSUME IInv, CInv, NEW p \in Runtimes, EnterHost(p)
  PROVE  CInv'
<1>1. /\ entry[p].at = "released"
      /\ UNCHANGED <<rows, up, startedAt, lanes, registry, faults, submitted, told>>
  BY DEF EnterHost, process, dispatcher
<1>2. entry[p].turn[1] \in told[p] => entry[p].aborted
  BY <1>1 DEF CInv, EntryHeeds, BeforeHost
<1>3. defied' = {}
  BY <1>2 DEF EnterHost, CInv, NoneDefied
<1>4. EntryFrom
  <2>1. entry'[p].at \in {"ended", "running"} /\ \A q \in Runtimes : q # p => entry'[q] = entry[q]
    BY EntryTypes DEF EnterHost, Entry
  <2> QED BY <2>1 DEF EntryFrom, BeforeHost
<1> QED BY <1>1, <1>3, <1>4, QuietRows, QuietLanes, QuietAnswers, HeedingStep

LEMMA TurnHeeds ==
  ASSUME IInv, CInv, NEW p \in Runtimes,
         HostEnds(p) \/ Settle(p) \/ Complete(p) \/ SettleFailing(p) \/ DirectTurn(p)
  PROVE  CInv'
<1>1. UNCHANGED <<rows, up, startedAt, lanes, registry, faults, submitted, told, defied>>
  BY DEF HostEnds, Settle, Complete, SettleFailing, DirectTurn, process, dispatcher
<1>2. EntryFrom
  <2>1. entry \in [Runtimes -> Entry] /\ entry[p] \in Entry
    BY EntryTypes
  <2>2. CASE \E x : entry' = [entry EXCEPT ![p] = x] /\ x.at \notin BeforeHost
    BY <2>1, <2>2 DEF EntryFrom
  <2>3. \A o : [entry[p] EXCEPT !.at = "ended", !.outcome = o].at \notin BeforeHost
    BY <2>1 DEF Entry, BeforeHost
  <2>4. /\ [entry[p] EXCEPT !.at = "settled"].at \notin BeforeHost
        /\ [entry[p] EXCEPT !.at = "settled", !.outcome = "stale"].at \notin BeforeHost
    BY <2>1 DEF Entry, BeforeHost
  <2>5. NoEntry.at \notin BeforeHost /\ [NoEntry EXCEPT !.at = "running"].at \notin BeforeHost
    BY DEF NoEntry, BeforeHost
  <2>6. CASE HostEnds(p)
    <3>1. PICK o : entry' = [entry EXCEPT ![p].at = "ended", ![p].outcome = o]
      BY <2>6 DEF HostEnds
    <3>2. entry' = [entry EXCEPT ![p] = [entry[p] EXCEPT !.at = "ended", !.outcome = o]]
      BY <2>1, <3>1
    <3> QED BY <2>2, <2>3, <3>2
  <2>7. CASE Settle(p)
    BY <2>2, <2>4, <2>7 DEF Settle
  <2>8. CASE Complete(p) \/ DirectTurn(p)
    BY <2>2, <2>5, <2>8 DEF Complete, DirectTurn
  <2>9. CASE SettleFailing(p)
    BY <2>9, QuietEntry DEF SettleFailing
  <2> QED BY <2>6, <2>7, <2>8, <2>9
<1>3. defied' = {}
  BY <1>1 DEF CInv, NoneDefied
<1> QED BY <1>1, <1>2, <1>3, QuietRows, QuietLanes, QuietAnswers, HeedingStep


\* The callers.
LEMMA SubmitHeeds ==
  ASSUME IInv, CInv, NEW p \in Runtimes, NEW i \in Items, Submit(p, i)
  PROVE  CInv'
<1> DEFINE r == [item |-> i, claim |-> 0, by |-> Nobody, tried |-> 0]
<1>1. /\ i \notin submitted /\ submitted' = submitted \cup {i} /\ rows' = Append(rows, r)
      /\ pending' = [pending EXCEPT ![p] = @ \cup {i}]
      /\ UNCHANGED <<up, startedAt, lanes, entry, cancelling, faults, told, defied>>
  BY DEF Submit, process, turns
<1>2. r \in Row /\ r.item = i /\ r.claim = 0
  BY Constants DEF Row
<1> HIDE DEF r
<1>3. \A k \in 1..Len(rows') : (k \in 1..Len(rows) /\ rows'[k] = rows[k]) \/ rows'[k] = r
  BY <1>1, <1>2, RowTypes
<1>4. RowsFrom
  BY <1>1, <1>2, <1>3 DEF RowsFrom
<1>5. AnswersFrom
  <2>1. /\ pending \in [Runtimes -> SUBSET Items] /\ told' = told
        /\ told \in [Runtimes -> SUBSET Items]
    BY <1>1 DEF IInv, Types, CInv, AnswersKept
  <2>2. \A q \in Runtimes : pending'[q] \subseteq pending[q] \cup (submitted' \ submitted)
    BY <1>1, <2>1
  <2> QED BY <1>1, <2>1, <2>2 DEF AnswersFrom
<1>6. LanesFrom /\ EntryFrom /\ defied' = {}
  BY <1>1, QuietLanes, QuietEntry DEF CInv, NoneDefied
<1> QED BY <1>1, <1>4, <1>5, <1>6, HeedingStep

LEMMA CancelHeeds ==
  ASSUME IInv, CInv, NEW p \in Runtimes, NEW i \in Items, CancelQueued(p, i)
  PROVE  CInv'
<1>1. /\ Forget(p, i)
      /\ UNCHANGED <<up, startedAt, lanes, entry, submitted, faults, told, defied>>
  BY DEF CancelQueued, process, dispatcher, turns
<1>2. PICK n \in 1..Len(rows) : rows[n].item = i /\ rows' = RemoveAt(rows, n)
  BY RowTypes DEF CancelQueued
<1>3. RowsFrom /\ \A k \in 1..Len(rows') : rows'[k].item # i
  BY <1>2, RemovalRows
<1>4. Over(p, i)'
  BY <1>3 DEF Over
<1>5. AnswersFrom
  BY <1>1, <1>4, ForgottenAnswers
<1>6. LanesFrom /\ EntryFrom /\ defied' = {}
  BY <1>1, QuietLanes, QuietEntry DEF CInv, NoneDefied
<1> QED BY <1>1, <1>3, <1>5, <1>6, HeedingStep

LEMMA RequestHeeds ==
  ASSUME IInv, CInv, NEW p \in Runtimes, NEW i \in Items, RequestCancellation(p, i)
  PROVE  CInv'
<1>1. /\ i \in pending[p] /\ cancelling' = [cancelling EXCEPT ![p] = @ \cup {i}]
      /\ told' = [told EXCEPT ![p] = @ \cup {i}]
      /\ StopLanes(p, {i}) \/ lanes' = lanes
      /\ UNCHANGED <<rows, up, startedAt, entry, pending, submitted, faults, defied>>
  BY DEF RequestCancellation, process, turns
<1>2. LanesFrom
  BY <1>1, StopLanesFacts, QuietLanes
<1>3. AnswersFrom
  <2>1. /\ cancelling \in [Runtimes -> SUBSET Items] /\ told \in [Runtimes -> SUBSET Items]
    BY DEF IInv, Types, CInv, AnswersKept
  <2>2. /\ told' \in [Runtimes -> SUBSET Items]
        /\ \A q \in Runtimes : told'[q] = IF q = p THEN told[q] \cup {i} ELSE told[q]
        /\ \A q \in Runtimes : cancelling'[q] = IF q = p THEN cancelling[q] \cup {i} ELSE cancelling[q]
    BY <1>1, <2>1
  <2> QED BY <1>1, <2>2 DEF AnswersFrom
<1>4. RowsFrom /\ EntryFrom /\ defied' = {}
  BY <1>1, QuietRows, QuietEntry DEF CInv, NoneDefied
<1> QED BY <1>1, <1>2, <1>3, <1>4, HeedingStep

LEMMA StopHeeds ==
  ASSUME IInv, CInv, NEW p \in Runtimes, Stop(p)
  PROVE  CInv'
<1>1. /\ StopLanes(p, Items)
      /\ UNCHANGED <<rows, up, startedAt, registry, submitted, faults, told, defied>>
  BY DEF Stop, process
<1>2. LanesFrom
  BY <1>1, StopLanesFacts, QuietLanes
<1>3. EntryFrom
  <2>1. entry \in [Runtimes -> Entry]
    BY EntryTypes
  <2>2. CASE entry' = [entry EXCEPT ![p].aborted = TRUE]
    <3>1. entry'[p].at = entry[p].at /\ entry'[p].turn = entry[p].turn /\ entry'[p].aborted
      BY <2>1, <2>2 DEF Entry
    <3>2. \A q \in Runtimes : q # p => entry'[q] = entry[q]
      BY <2>1, <2>2
    <3> QED BY <3>1, <3>2 DEF EntryFrom
  <2> QED BY <2>2, QuietEntry DEF Stop
<1>4. RowsFrom /\ AnswersFrom /\ defied' = {}
  BY <1>1, QuietRows, QuietAnswers DEF CInv, NoneDefied
<1> QED BY <1>1, <1>2, <1>3, <1>4, HeedingStep

\* An entry that is aborted stays the Turn it was.
LEMMA AbortHeeds ==
  ASSUME IInv, NEW p \in Runtimes, entry' = [entry EXCEPT ![p].aborted = TRUE]
  PROVE  EntryFrom
<1>1. entry \in [Runtimes -> Entry]
  BY EntryTypes
<1>2. entry'[p].at = entry[p].at /\ entry'[p].turn = entry[p].turn /\ entry'[p].aborted
  BY <1>1 DEF Entry
<1>3. \A q \in Runtimes : q # p => entry'[q] = entry[q]
  BY <1>1
<1> QED BY <1>2, <1>3 DEF EntryFrom

LEMMA LostHeeds ==
  ASSUME IInv, CInv, NEW p \in Runtimes, LeaseLost(p)
  PROVE  CInv'
<1>1. /\ entry' = [entry EXCEPT ![p].aborted = TRUE]
      /\ UNCHANGED <<rows, up, startedAt, lanes, registry, faults, submitted, told, defied>>
  BY DEF LeaseLost, process, dispatcher
<1>2. defied' = {} /\ EntryFrom
  BY <1>1, AbortHeeds DEF CInv, NoneDefied
<1> QED BY <1>1, <1>2, QuietRows, QuietLanes, QuietAnswers, HeedingStep

LEMMA ReorderHeeds ==
  ASSUME IInv, CInv, NEW p \in Runtimes, Reorder(p)
  PROVE  CInv'
<1>1. UNCHANGED <<up, startedAt, lanes, entry, registry, submitted, faults, told, defied>>
  BY DEF Reorder, process, dispatcher, turns
<1>2. PICK order \in Bijection(1..Len(rows), 1..Len(rows)) :
        rows' = [k \in 1..Len(rows) |-> rows[order[k]]]
  BY RowTypes DEF Reorder
<1>3. order \in [1..Len(rows) -> 1..Len(rows)]
  BY <1>2 DEF Bijection, Injection
<1>4. Len(rows') = Len(rows) /\ \A k \in 1..Len(rows) : rows'[k] = rows[order[k]]
  <2>1. rows' \in [1..Len(rows) -> Row] /\ Len(rows) \in Nat
    BY <1>2, <1>3, RowTypes
  <2> QED BY <1>2, <2>1, FunctionIsSeq
<1>5. RowsFrom
  BY <1>3, <1>4 DEF RowsFrom
<1>6. LanesFrom /\ AnswersFrom /\ EntryFrom /\ defied' = {}
  BY <1>1, QuietLanes, QuietAnswers, QuietEntry DEF CInv, NoneDefied
<1> QED BY <1>1, <1>5, <1>6, HeedingStep

LEMMA QuietHeeds ==
  ASSUME IInv, CInv,
         UNCHANGED <<rows, up, startedAt, lanes, entry, registry, submitted, faults, told, defied>>
  PROVE  CInv'
<1>1. defied' = {}
  BY DEF CInv, NoneDefied
<1> QED BY <1>1, QuietRows, QuietLanes, QuietAnswers, QuietEntry, HeedingStep

LEMMA CancellationStep ==
  ASSUME IInv, CInv, faults' = 0, [Next]_vars
  PROVE  CInv'
<1>1. CASE UNCHANGED vars
  BY <1>1, QuietHeeds DEF vars, process, dispatcher, turns
<1>2. ASSUME NEW p \in Runtimes, Callers(p)
      PROVE  CInv'
  <2>1. CASE DispatchQueue(p)
    BY <2>1, QuietHeeds DEF DispatchQueue, process, turns
  <2> QED BY <1>2, <2>1, SubmitHeeds, CancelHeeds, RequestHeeds, TurnHeeds, ReorderHeeds, StopHeeds,
             ClaimHeeds DEF Callers
<1>3. ASSUME NEW p \in Runtimes, NEW l \in LaneNames, LaneStep(p, l)
      PROVE  CInv'
  BY <1>3, ClassifyHeeds, PrepareHeeds, SettlementHeeds, AdmitHeeds, CommitHeeds, AcknowledgeHeeds
     DEF LaneStep
<1>4. ASSUME NEW p \in Runtimes, DrainStep(p) \/ TurnStep(p) \/ RecoverPending(p)
      PROVE  CInv'
  BY <1>4, ClaimHeeds, RecoveryHeeds, EnterHeeds, TurnHeeds DEF DrainStep, TurnStep
<1>5. ASSUME NEW p \in Runtimes, RecoverTurn(p) \/ LeaseLost(p)
      PROVE  CInv'
  BY <1>5, QuietHeeds, LostHeeds DEF RecoverTurn, process, dispatcher, turns
<1>6. ASSUME NEW p \in Runtimes
      PROVE  ~Crash(p) /\ ~Start(p) /\ ~LeaseLapses(p)
  BY NoFault DEF Crash, Start, LeaseLapses, CInv, Faultless
<1> QED BY <1>1, <1>2, <1>3, <1>4, <1>5, <1>6 DEF Next

LEMMA InitAnswers == Init => CInv
<1> SUFFICES ASSUME Init PROVE CInv
  OBVIOUS
<1>1. Len(rows) = 0 /\ \A p \in Runtimes : entry[p].at = "none"
  BY Records DEF Init
<1>2. Faultless /\ NoneDefied
  BY DEF Init, Faultless, NoneDefied
<1>3. ClaimsHaveOwners /\ EntryHeeds
  BY <1>1 DEF ClaimsHaveOwners, EntryHeeds, BeforeHost
<1>4. AnswersKept
  BY DEF Init, AnswersKept
<1> QED BY <1>2, <1>3, <1>4 DEF CInv

\* Faults are counted and never forgotten.
LEMMA FaultsStay ==
  ASSUME IInv, [Next]_vars, faults' = 0
  PROVE  faults = 0
<1>1. ~Fails
  BY NoFault
<1> SUFFICES faults' = faults
  OBVIOUS
<1>2. CASE UNCHANGED vars
  BY <1>2 DEF vars
<1>3. ASSUME NEW p \in Runtimes, Callers(p)
      PROVE  faults' = faults
  BY <1>3 DEF Callers, Submit, CancelQueued, RequestCancellation, DispatchQueue, DirectTurn, Reorder,
              Stop, ContinuePaused
<1>4. ASSUME NEW p \in Runtimes, NEW l \in LaneNames, LaneStep(p, l)
      PROVE  faults' = faults
  BY <1>1, <1>4 DEF LaneStep, Classify, PrepareDelivery, DeferAdmission, Admit, SettleRejected,
                    CommitMessages, Acknowledge, SettleThrown
<1>5. ASSUME NEW p \in Runtimes, DrainStep(p) \/ TurnStep(p)
      PROVE  faults' = faults
  BY <1>1, <1>5 DEF DrainStep, ClaimNext, RecoverBefore, LeaseExpired, TurnStep, EnterHost, HostEnds,
                    Settle, Complete, SettleFailing
<1>6. ASSUME NEW p \in Runtimes, \/ RecoverPending(p) \/ Crash(p) \/ RecoverTurn(p) \/ Start(p)
                                 \/ LeaseLapses(p) \/ LeaseLost(p)
      PROVE  faults' = faults
  BY <1>1, <1>6 DEF RecoverPending, LeaseExpired, Crash, RecoverTurn, Start, LeaseLapses, LeaseLost
<1> QED BY <1>2, <1>3, <1>4, <1>5, <1>6 DEF Next

\* Until the first crash, failed write or lapsed lease, a runtime that answered
\* 'aborted' for a queued Turn never starts it: the reason stays with the
\* registry until the claim is removed or the Turn registers aborted, and the
\* item is delivered by no other claim after that.
THEOREM CancellationHeeded == Spec => []CancelledNeverStarts
<1>1. Init => IInv /\ (faults = 0 => CInv)
  BY InitInv, InitAnswers
<1>2. IInv /\ (faults = 0 => CInv) /\ [Next]_vars => (IInv /\ (faults = 0 => CInv))'
  <2>1. IInv /\ [Next]_vars => IInv'
    BY InvStep
  <2>2. IInv /\ (faults = 0 => CInv) /\ [Next]_vars /\ faults' = 0 => CInv'
    BY FaultsStay, CancellationStep
  <2> QED BY <2>1, <2>2
<1>3. (faults = 0 => CInv) => CancelledNeverStarts
  BY DEF CInv, NoneDefied, CancelledNeverStarts
<1> QED BY <1>1, <1>2, <1>3, PTL DEF Spec
=============================================================================

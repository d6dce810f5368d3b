------------------------ MODULE SessionStreamProofs ------------------------
(***************************************************************************)
(* Proofs about SessionStream and SessionRing, for any finite set of       *)
(* messages, any limits of the ring and of a subscription and any policy   *)
(* bound: the type invariant, with the limits it states, and the order of  *)
(* what a stream has for its reader.                                       *)
(***************************************************************************)
EXTENDS SessionStream, TLAPS, FiniteSetTheorems, NaturalsInduction, WellFoundedInduction

-----------------------------------------------------------------------------
(* The inductive invariant.                                                *)

FrameType ==
  [kind: {"none", "chunk", "message", "committed", "rewound", "terminal"},
   msgs: SUBSET Messages, group: Group, turn: Nat, size: Nat]

\* A frame with a cursor, or one the iterator made up: it names the message
\* it was made for.
EntryType ==
  {e \in [cursor: Nat,
          kind: {"none", "chunk", "message", "committed", "rewound", "terminal",
                 "durable", "resync"},
          msgs: SUBSET Messages, turn: Nat, size: Nat, group: Group] :
     e.kind = "durable" => e.msgs # {}}

RingType ==
  [entries: Seq(EntryType), next: Nat, dropped: Nat, completed: SUBSET Messages,
   active: [id: Group, turn: Nat]]

IterType ==
  [phase: {"off", "held", "init", "open"}, mode: {"live", "send", "cursor", "durable"},
   object: Nat, only: Nat, replay: Seq(EntryType), queue: Seq(EntryType),
   handed: Seq(EntryType), reading: BOOLEAN, live: BOOLEAN, failed: BOOLEAN,
   closing: BOOLEAN, wait: BOOLEAN, initial: Seq(EntryType), durable: Seq(Group),
   mark: Nat, since: Nat]

ClientType ==
  [known: SUBSET Messages, cursor: [object: Nat, n: Nat], anchor: Group,
   complete: SUBSET (0..MaxTurns), stale: BOOLEAN]

\* A message has one row, and a row the Turn it was saved for.
RowsOK ==
  /\ rows \in Seq(Messages) /\ born \in [Messages -> 0..MaxTurns]
  /\ \A j, k \in 1..Len(rows) : rows[j] = rows[k] => j = k
  /\ \A k \in 1..Len(rows) : born[rows[k]] # 0

TurnsOK ==
  /\ turn \in 0..MaxTurns /\ status \in {"idle", "accepted", "running"}
  /\ status # "idle" => turn # 0
  /\ lane \in [Lanes -> FrameType]
  /\ ended \in Nat

\* The entries of a ring have the cursors after the last that was dropped,
\* without a gap, and are within the bounds.
RingOK(r) ==
  /\ r \in RingType
  /\ r.next = r.dropped + Len(r.entries) + 1
  /\ \A k \in 1..Len(r.entries) : r.entries[k].cursor = r.dropped + k
  /\ ~OverBounds(r.entries)

\* The objects are within their bound, and none is older than its readers.
ObjectsOK ==
  /\ present \in BOOLEAN /\ epoch \in 0..MaxObjects
  /\ present => epoch > 0
  /\ ~present => epoch < MaxObjects
  /\ reservation \in [owner: {"nobody", "client", "other"}, object: Nat, turn: Nat]
  /\ reservation.owner # "nobody" => reservation.object < MaxObjects
  /\ it.object <= epoch

IterOK(i) ==
  /\ i \in IterType
  /\ i.phase = "off" => i = Off
  /\ Len(i.queue) <= MaxQueue /\ Len(i.handed) <= 1
  /\ i.reading => i.live /\ i.handed = <<>> /\ i.replay = <<>> /\ i.queue = <<>>
  /\ i.phase \in {"held", "init"} => i.handed = <<>> /\ i.replay = <<>> /\ ~i.reading
  /\ i.phase = "held" => i.mode = "send"
  /\ i.phase = "init" => i.mode = "durable"
  /\ i.mode = "cursor" => i.only = 0
  /\ i.durable = <<NoMessage>> \/ i.durable \in Seq(Messages)

\* Pending, of any iterator.
PendingOf(i) == i.handed \o i.replay \o i.queue

\* Where two frames have a cursor, the later has the greater.
Growing(s) ==
  \A j, k \in 1..Len(s) :
    (j < k /\ s[j].cursor # 0 /\ s[k].cursor # 0) => s[j].cursor < s[k].cursor

\* The frames of an iterator and the ring they come from, when the cursor of
\* the client is n.  In the middle of initializeDurable the snapshot ends and
\* the queue begins at the mark.
OrderOK(r, i, n) ==
  /\ Growing(PendingOf(i))
  /\ \A j \in 1..Len(PendingOf(i)) : PendingOf(i)[j].cursor < r.next
  /\ i.phase = "init" =>
       /\ i.mark < r.next /\ Growing(i.initial)
       /\ \A j \in 1..Len(i.initial) : i.initial[j].cursor \in 1..i.mark
       /\ \A j \in 1..Len(i.queue) : i.queue[j].cursor > i.mark
  /\ (i.mode = "cursor" /\ i.live) =>
       /\ r.next = n + Len(PendingOf(i)) + 1
       /\ \A j \in 1..Len(PendingOf(i)) : PendingOf(i)[j].cursor = n + j

InOrder == Attached => OrderOK(ring, it, client.cursor.n)

StreamOK == RingOK(ring) /\ ObjectsOK /\ IterOK(it) /\ client \in ClientType /\ InOrder

IInv == RowsOK /\ TurnsOK /\ StreamOK

-----------------------------------------------------------------------------
(* Numbers and sequences.                                                  *)

\* A set of numbers has a least one, and a bounded one has a greatest.
LEMMA NatLeast ==
  ASSUME NEW T \in SUBSET Nat, T # {}
  PROVE  \E x \in T : \A y \in T : x <= y
<1>1. \E x \in T : \A y \in T : ~ (<<y, x>> \in OpToRel(<, Nat))
  BY NatLessThanWellFounded, WFMin
<1>2. \A x, y \in Nat : y < x => <<y, x>> \in OpToRel(<, Nat)
  BY Zenon DEF OpToRel
<1>3. PICK x \in T : \A y \in T : ~ (y < x)
  BY <1>1, <1>2, Zenon
<1> QED
  BY <1>3

LEMMA NatGreatest ==
  ASSUME NEW n \in Nat, NEW T \in SUBSET (0..n), T # {}
  PROVE  \E x \in T : \A y \in T : y <= x
<1> DEFINE D == {n - x : x \in T}
<1>1. D \in SUBSET Nat /\ D # {}
  <2>1. \A x \in T : n - x \in Nat
    OBVIOUS
  <2>2. PICK x \in T : TRUE
    OBVIOUS
  <2>3. n - x \in D
    OBVIOUS
  <2> QED
    BY <2>1, <2>3
<1>2. PICK d \in D : \A y \in D : d <= y
  BY <1>1, NatLeast
<1>3. PICK x \in T : d = n - x
  OBVIOUS
<1>4. ASSUME NEW y \in T PROVE y <= x
  <2>1. n - y \in D /\ x \in Nat /\ y \in Nat
    OBVIOUS
  <2>2. n - x <= n - y
    BY <1>2, <1>3, <2>1
  <2> QED
    BY <2>1, <2>2
<1> QED
  BY <1>4

LEMMA MinIsLeast ==
  ASSUME NEW T \in SUBSET Nat, T # {}
  PROVE  Min(T) \in T /\ \A y \in T : Min(T) <= y
<1>1. \E x \in T : \A y \in T : x =< y
  BY NatLeast
<1> QED
  BY <1>1 DEF Min

LEMMA MaxIsGreatest ==
  ASSUME NEW n \in Nat, NEW T \in SUBSET (0..n), T # {}
  PROVE  Max(T) \in T /\ \A y \in T : y <= Max(T)
<1>1. PICK x \in T : \A y \in T : y <= x
  BY NatGreatest
<1>2. \A y \in T : x >= y
  BY <1>1
<1>3. Max(T) \in T /\ \A y \in T : Max(T) >= y
  BY <1>2 DEF Max
<1> QED
  BY <1>3

\* How many of S are not after k.
LEMMA RankFacts ==
  ASSUME NEW n \in Nat, NEW S \in SUBSET (1..n)
  PROVE  /\ IsFiniteSet(S) /\ Cardinality(S) \in 0..n
         /\ \A k \in S : Cardinality({j \in S : j <= k}) \in 1..Cardinality(S)
         /\ \A k, l \in S : k < l =>
              Cardinality({j \in S : j <= k}) < Cardinality({j \in S : j <= l})
<1>1. IsFiniteSet(1..n) /\ Cardinality(1..n) = n
  BY FS_Interval
<1>2. IsFiniteSet(S) /\ Cardinality(S) <= n
  BY <1>1, FS_Subset
<1>3. Cardinality(S) \in Nat
  BY <1>2, FS_CardinalityType
<1>4. ASSUME NEW k \in S
      PROVE  /\ IsFiniteSet({j \in S : j <= k})
             /\ Cardinality({j \in S : j <= k}) \in 1..Cardinality(S)
  <2>1. {j \in S : j <= k} \in SUBSET S
    OBVIOUS
  <2>2. IsFiniteSet({j \in S : j <= k}) /\ Cardinality({j \in S : j <= k}) <= Cardinality(S)
    BY <1>2, <2>1, FS_Subset
  <2>3. Cardinality({j \in S : j <= k}) \in Nat
    BY <2>2, FS_CardinalityType
  <2>4. k \in {j \in S : j <= k}
    OBVIOUS
  <2>5. Cardinality({j \in S : j <= k}) # 0
    BY <2>2, <2>4, FS_EmptySet
  <2> QED
    BY <1>3, <2>2, <2>3, <2>5
<1>5. ASSUME NEW k \in S, NEW l \in S, k < l
      PROVE  Cardinality({j \in S : j <= k}) < Cardinality({j \in S : j <= l})
  <2>0. \A j \in S : j \in Nat
    OBVIOUS
  <2>1. {j \in S : j <= k} \in SUBSET {j \in S : j <= l}
    <3>1. \A j \in S : j <= k => j <= l
      BY <1>5, <2>0
    <3> QED
      BY <3>1
  <2>2. /\ Cardinality({j \in S : j <= k}) <= Cardinality({j \in S : j <= l})
        /\ (Cardinality({j \in S : j <= l}) = Cardinality({j \in S : j <= k})) =>
             ({j \in S : j <= l} = {j \in S : j <= k})
    BY <1>4, <2>1, FS_Subset
  <2>3. l \in {j \in S : j <= l} /\ l \notin {j \in S : j <= k}
    BY <1>5
  <2>4. Cardinality({j \in S : j <= k}) \in Nat /\ Cardinality({j \in S : j <= l}) \in Nat
    BY <1>3, <1>4
  <2> QED
    BY <2>2, <2>3, <2>4
<1> QED
  BY <1>2, <1>3, <1>4, <1>5

\* A filter lists the chosen positions, each once, in their order.
Lists(f, s, S) ==
  /\ f \in [1..Cardinality(S) -> S]
  /\ \A m, n \in 1..Cardinality(S) : m < n => f[m] < f[n]
  /\ \A k \in S : \E n \in 1..Cardinality(S) : f[n] = k
  /\ \A n \in 1..Cardinality(S) : AtPositions(s, S)[n] = s[f[n]]

LEMMA AtPositionsLists ==
  ASSUME NEW X, NEW s \in Seq(X), NEW S \in SUBSET (1..Len(s))
  PROVE  /\ AtPositions(s, S) \in Seq(X) /\ Cardinality(S) \in 0..Len(s)
         /\ Len(AtPositions(s, S)) = Cardinality(S)
         /\ \E f : Lists(f, s, S)
<1>1. Len(s) \in Nat
  OBVIOUS
<1>2. PICK c : c = Cardinality(S)
  OBVIOUS
<1>3. PICK g : g = [k \in S |-> Cardinality({j \in S : j <= k})]
  OBVIOUS
<1>4. PICK f : f = [n \in 1..c |-> CHOOSE k \in S : g[k] = n]
  OBVIOUS
<1>5. IsFiniteSet(S) /\ c \in 0..Len(s) /\ c \in Nat
  BY <1>1, <1>2, RankFacts
<1>6. g \in [S -> 1..c] /\ \A k, l \in S : k < l => g[k] < g[l]
  BY <1>1, <1>2, <1>3, RankFacts
<1>7. AtPositions(s, S) = [n \in 1..c |-> s[f[n]]]
  <2>1. ASSUME NEW n \in 1..c
        PROVE  (CHOOSE k \in S : Cardinality({j \in S : j <= k}) = n) = f[n]
    <3>1. \A k \in S : (Cardinality({j \in S : j <= k}) = n) <=> (g[k] = n)
      BY <1>3
    <3>2. f[n] = CHOOSE k \in S : g[k] = n
      BY <1>4
    <3> QED
      BY <3>1, <3>2
  <2>2. AtPositions(s, S) =
          [n \in 1..c |-> s[CHOOSE k \in S : Cardinality({j \in S : j <= k}) = n]]
    BY <1>2 DEF AtPositions
  <2> QED
    BY <2>1, <2>2
<1>8. \A k \in S : k \in Nat /\ g[k] \in Nat
  BY <1>1, <1>6
<1>9. \A k, l \in S : g[k] = g[l] => k = l
  <2> SUFFICES ASSUME NEW k \in S, NEW l \in S, g[k] = g[l] PROVE k = l
    OBVIOUS
  <2>1. ~(k < l) /\ ~(l < k)
    BY <1>6, <1>8
  <2> QED
    BY <1>8, <2>1
<1>10. g \in Surjection(S, 1..c)
  <2>1. IsFiniteSet(1..c) /\ Cardinality(1..c) = c
    BY <1>5, FS_Interval
  <2>2. g \in Injection(S, 1..c)
    BY <1>6, <1>9 DEF Injection, IsInjective
  <2> QED
    BY <1>2, <2>1, <2>2, FS_Injection
<1>11. \A n \in 1..c : f[n] \in S /\ g[f[n]] = n
  <2> SUFFICES ASSUME NEW n \in 1..c PROVE f[n] \in S /\ g[f[n]] = n
    OBVIOUS
  <2>1. \E k \in S : g[k] = n
    BY <1>10 DEF Surjection
  <2> QED
    BY <1>4, <2>1
<1>12. f \in [1..c -> S]
  BY <1>4, <1>11
<1>13. \A m, n \in 1..c : m < n => f[m] < f[n]
  <2> SUFFICES ASSUME NEW m \in 1..c, NEW n \in 1..c, m < n PROVE f[m] < f[n]
    OBVIOUS
  <2>1. f[m] \in S /\ f[n] \in S /\ g[f[m]] = m /\ g[f[n]] = n
    BY <1>11
  <2>2. f[m] \in Nat /\ f[n] \in Nat /\ ~(f[n] < f[m]) /\ f[n] # f[m]
    BY <1>5, <1>6, <1>8, <2>1, SMTT(30)
  <2> QED
    BY <2>2
<1>14. \A k \in S : \E n \in 1..c : f[n] = k
  <2> SUFFICES ASSUME NEW k \in S PROVE f[g[k]] = k
    BY <1>6
  <2>1. g[k] \in 1..c /\ f[g[k]] \in S /\ g[f[g[k]]] = g[k]
    BY <1>6, <1>11
  <2> QED
    BY <1>9, <2>1
<1>15. Lists(f, s, S)
  <2>1. \A n \in 1..c : AtPositions(s, S)[n] = s[f[n]]
    BY <1>7
  <2> QED
    BY <1>2, <1>12, <1>13, <1>14, <2>1, Zenon DEF Lists
<1>16. AtPositions(s, S) \in Seq(X) /\ Len(AtPositions(s, S)) = c
  <2>1. \A k \in 1..Len(s) : s[k] \in X
    OBVIOUS
  <2>2. \A n \in 1..c : f[n] \in 1..Len(s)
    BY <1>11, Zenon
  <2>3. \A n \in 1..c : s[f[n]] \in X
    BY <2>1, <2>2, Zenon
  <2> QED
    BY <1>5, <1>7, <2>3
<1> QED
  BY <1>2, <1>5, <1>15, <1>16

\* The filter that takes nothing, and the one that takes a suffix.
LEMMA AtNoPosition ==
  ASSUME NEW s
  PROVE  AtPositions(s, {}) = <<>>
<1>1. Cardinality({}) = 0
  BY FS_EmptySet
<1>2. DOMAIN AtPositions(s, {}) = 1..0
  BY <1>1 DEF AtPositions
<1>3. AtPositions(s, {}) = [n \in 1..0 |-> 0]
  BY <1>1 DEF AtPositions
<1> QED
  BY <1>3

LEMMA AtSuffix ==
  ASSUME NEW X, NEW s \in Seq(X), NEW a \in 0..Len(s)
  PROVE  /\ Len(AtPositions(s, (a + 1)..Len(s))) = Len(s) - a
         /\ \A n \in 1..(Len(s) - a) : AtPositions(s, (a + 1)..Len(s))[n] = s[a + n]
<1> DEFINE L == Len(s)
           S == (a + 1)..L
           rank(k) == Cardinality({j \in S : j <= k})
<1>1. L \in Nat /\ a \in Nat /\ S \in SUBSET (1..L)
  OBVIOUS
<1>2. Cardinality(S) = L - a
  <2>1. a + 1 \in Int /\ L \in Int
    BY <1>1
  <2>2. Cardinality(S) = IF a + 1 > L THEN 0 ELSE L - (a + 1) + 1
    BY <2>1, FS_Interval
  <2> QED
    BY <1>1, <2>2
<1>3. ASSUME NEW k \in S PROVE rank(k) = k - a
  <2>0. k \in Int /\ a + 1 \in Int /\ a + 1 <= k /\ k <= L
    BY <1>1
  <2>1. {j \in S : j <= k} = (a + 1)..k
    BY <1>1, <2>0
  <2>2. Cardinality((a + 1)..k) = IF a + 1 > k THEN 0 ELSE k - (a + 1) + 1
    BY <2>0, FS_Interval
  <2>3. Cardinality((a + 1)..k) = k - a
    BY <1>1, <2>0, <2>2
  <2> QED
    BY <2>1, <2>3
<1>4. AtPositions(s, S) = [n \in 1..(L - a) |-> s[CHOOSE k \in S : rank(k) = n]]
  BY <1>2 DEF AtPositions
<1> HIDE DEF rank
<1>5. ASSUME NEW n \in 1..(L - a) PROVE (CHOOSE k \in S : rank(k) = n) = a + n
  <2>1. a + n \in S /\ rank(a + n) = n
    BY <1>1, <1>3
  <2>2. \A k \in S : rank(k) = n => k = a + n
    BY <1>1, <1>3
  <2> QED
    BY <2>1, <2>2
<1>6. L - a \in Nat
  BY <1>1
<1>7. \A n \in 1..(L - a) : AtPositions(s, S)[n] = s[a + n]
  BY <1>4, <1>5
<1>8. Len(AtPositions(s, S)) = L - a
  <2>1. AtPositions(s, S) \in Seq(X) /\ Len(AtPositions(s, S)) = Cardinality(S)
    BY <1>1, AtPositionsLists
  <2> QED
    BY <1>2, <2>1
<1> QED
  BY <1>7, <1>8

\* A function that hands over to a greater argument until one stops it.
HandsOver(g, n, stop, J) == \A k \in 0..n : g[k] = IF k \in stop THEN k ELSE g[J[k]]

LEMMA HandedOver ==
  ASSUME NEW n \in Nat, NEW stop \in SUBSET (0..n), NEW J \in [0..n -> 0..n],
         \A k \in 0..n : k \in stop \/ k < J[k]
  PROVE  \E g \in [0..n -> stop] : HandsOver(g, n, stop, J)
<1> DEFINE Good(a, g) == \A k \in a..n : g[k] = IF k \in stop THEN k ELSE g[J[k]]
           Bad == {a \in 0..n : ~\E g \in [a..n -> stop] : Good(a, g)}
<1> SUFFICES ASSUME Bad # {} PROVE FALSE
  <2>1. 0 \in 0..n
    OBVIOUS
  <2> QED
    BY <2>1 DEF HandsOver
<1>1. Bad \in SUBSET (0..n)
  OBVIOUS
<1>2. PICK a \in Bad : \A y \in Bad : y <= a
  BY <1>1, NatGreatest
<1>0. ~\E g \in [a..n -> stop] : Good(a, g)
  OBVIOUS
<1>3. a \in 0..n /\ a \in Nat
  OBVIOUS
<1>4. \A k \in 0..n : k \in Nat /\ J[k] \in Nat /\ J[k] <= n
  OBVIOUS
<1>5. CASE a = n
  <2>1. n \in stop /\ n..n = {n}
    BY <1>4
  <2>2. [k \in n..n |-> n] \in [n..n -> stop] /\ Good(n, [k \in n..n |-> n])
    BY <2>1
  <2> QED
    BY <1>0, <1>5, <2>2
<1>6. CASE a # n
  <2>1. a + 1 \in 0..n /\ ~(a + 1 <= a)
    BY <1>3, <1>6
  <2>a. a + 1 \notin Bad
    <3> HIDE DEF Bad
    <3> QED
      BY <1>2, <2>1
  <2>2. a..n = {a} \cup ((a + 1)..n) /\ a \notin (a + 1)..n
    <3> HIDE DEF Bad
    <3>1. \A k \in a..n : k = a \/ k \in (a + 1)..n
      BY <1>3, <2>1
    <3>2. \A k \in (a + 1)..n : k \in a..n /\ k # a
      BY <1>3, <2>1
    <3>3. a \in a..n
      BY <1>3, <2>1
    <3> QED
      BY <3>1, <3>2, <3>3
  <2>3. PICK g \in [(a + 1)..n -> stop] : Good(a + 1, g)
    BY <2>1, <2>a
  <2>4. PICK h : h = [k \in a..n |-> IF k # a THEN g[k] ELSE IF a \in stop THEN a ELSE g[J[a]]]
    OBVIOUS
  <2>5. \A k \in (a + 1)..n : k \in 0..n /\ (k \in stop \/ J[k] \in (a + 1)..n)
    BY <1>3, <1>4
  <2>6. a \in stop \/ J[a] \in (a + 1)..n
    BY <1>3, <1>4
  <2>7. \A k \in (a + 1)..n : h[k] = g[k]
    BY <2>2, <2>4
  <2>8. h[a] = IF a \in stop THEN a ELSE g[J[a]]
    BY <2>2, <2>4
  <2>9. \A k \in (a + 1)..n : h[k] = IF k \in stop THEN k ELSE h[J[k]]
    BY <2>3, <2>5, <2>7
  <2>10. h[a] = IF a \in stop THEN a ELSE h[J[a]]
    BY <2>6, <2>7, <2>8
  <2>11. h[a] \in stop /\ \A k \in (a + 1)..n : h[k] \in stop
    <3>1. \A k \in (a + 1)..n : g[k] \in stop
      OBVIOUS
    <3> QED
      BY <2>6, <2>7, <2>8, <3>1
  <2>12. h \in [a..n -> stop]
    BY <2>2, <2>4, <2>11
  <2>13. Good(a, h)
    BY <2>2, <2>9, <2>10
  <2> QED
    BY <1>0, <2>12, <2>13
<1> QED
  BY <1>5, <1>6

LEMMA HandedOverStops ==
  ASSUME NEW n \in Nat, NEW stop \in SUBSET (0..n), NEW J \in [0..n -> 0..n],
         \A k \in 0..n : k \in stop \/ k < J[k],
         NEW h, \A k \in 0..n : h[k] = IF k \in stop THEN k ELSE h[J[k]]
  PROVE  \A k \in 0..n : h[k] \in stop
<1> DEFINE Bad == {k \in 0..n : h[k] \notin stop}
<1> SUFFICES ASSUME Bad # {} PROVE FALSE
  OBVIOUS
<1>1. Bad \in SUBSET (0..n)
  OBVIOUS
<1>2. PICK k \in Bad : \A y \in Bad : y <= k
  BY <1>1, NatGreatest
<1>3. k \in 0..n /\ h[k] \notin stop
  OBVIOUS
<1>4. k \notin stop
  BY <1>3
<1>5. k < J[k] /\ J[k] \in 0..n /\ h[k] = h[J[k]]
  BY <1>3, <1>4
<1>6. J[k] \in Bad
  BY <1>3, <1>5
<1>7. J[k] <= k /\ k \in Nat /\ J[k] \in Nat
  BY <1>2, <1>3, <1>5, <1>6
<1> QED
  BY <1>5, <1>7

\* A function of the numbers up to n, each value from the one before.
Steps(g, n, F, first) == g[0] = first /\ \A k \in 1..n : g[k] = F[k][g[k - 1]]

LEMMA StepByStep ==
  ASSUME NEW X, NEW n \in Nat, NEW F \in [1..n -> [X -> X]], NEW first \in X
  PROVE  \E g \in [0..n -> X] : Steps(g, n, F, first)
<1> DEFINE Good(m, g) == g[0] = first /\ \A k \in 1..m : g[k] = F[k][g[k - 1]]
           Bad == {m \in 0..n : ~\E g \in [0..m -> X] : Good(m, g)}
<1> SUFFICES ASSUME Bad # {} PROVE FALSE
  <2>1. n \in 0..n
    OBVIOUS
  <2> QED
    BY <2>1 DEF Steps
<1>1. Bad \in SUBSET Nat
  OBVIOUS
<1>2. PICK m \in Bad : \A y \in Bad : m <= y
  BY <1>1, NatLeast
<1>3. m \in 0..n /\ m \in Nat
  OBVIOUS
<1>4. CASE m = 0
  <2>1. [k \in 0..0 |-> first] \in [0..0 -> X] /\ Good(0, [k \in 0..0 |-> first])
    OBVIOUS
  <2> QED
    BY <1>4, <2>1
<1>5. CASE m # 0
  <2>0. m - 1 \in 0..n /\ ~(m <= m - 1) /\ m \in 1..n
    BY <1>3, <1>5
  <2>a. m - 1 \notin Bad
    <3> HIDE DEF Bad
    <3> QED
      BY <1>2, <2>0
  <2>1. 0..m = (0..(m - 1)) \cup {m} /\ m \notin 0..(m - 1) /\ m - 1 \in 0..(m - 1)
    BY <1>3, <2>0
  <2>2. PICK g \in [0..(m - 1) -> X] : Good(m - 1, g)
    BY <2>0, <2>a
  <2>3. PICK h : h = [k \in 0..m |-> IF k = m THEN F[m][g[m - 1]] ELSE g[k]]
    OBVIOUS
  <2>4. \A k \in 0..(m - 1) : h[k] = g[k] /\ h[k] \in X
    BY <2>1, <2>2, <2>3
  <2>5. h[m] = F[m][g[m - 1]] /\ h[m] \in X
    <3>1. F[m] \in [X -> X] /\ g[m - 1] \in X
      BY <2>0, <2>1, <2>2
    <3> QED
      BY <2>1, <2>3, <3>1
  <2>6. h \in [0..m -> X]
    BY <2>1, <2>3, <2>4, <2>5
  <2>7. h[0] = first
    BY <1>3, <1>5, <2>2, <2>4
  <2>8. ASSUME NEW k \in 1..m PROVE h[k] = F[k][h[k - 1]]
    <3>1. CASE k = m
      BY <2>1, <2>4, <2>5, <3>1
    <3>2. CASE k # m
      <4>1. k \in 1..(m - 1) /\ k \in 0..(m - 1) /\ k - 1 \in 0..(m - 1)
        BY <1>3, <3>2
      <4> QED
        BY <2>2, <2>4, <4>1
    <3> QED
      BY <3>1, <3>2
  <2> QED
    BY <2>6, <2>7, <2>8
<1> QED
  BY <1>4, <1>5

-----------------------------------------------------------------------------
(* The ring.                                                               *)

LEMMA EmptyIsWithinBounds == ~OverBounds(<<>>)
<1>1. UNION {{k} \X (1..<<>>[k].size) : k \in DOMAIN <<>>} = {}
  OBVIOUS
<1>2. Bytes(<<>>) = 0
  BY <1>1, FS_EmptySet DEF Bytes
<1>3. MaxItems \in Nat /\ MaxBytes \in Nat
  BY RingAssumption
<1> QED
  BY <1>2, <1>3 DEF OverBounds

\* What the policy asks for is in the ring, and it asks for something as long
\* as the ring is over its bounds.
LEMMA EvictionCount ==
  ASSUME NEW s \in Seq(EntryType), NEW completed \in SUBSET Messages
  PROVE  /\ SelectEvictionCount(s, completed) \in 0..Len(s)
         /\ SelectEvictionCount(s, completed) = 0 => ~OverBounds(s)
<1> DEFINE At(g) == {i \in DOMAIN s : s[i].group = g}
<1>1. PICK done : done = Groups(s) \cap completed
  OBVIOUS
<1>2. PICK oldest : oldest = CHOOSE g \in done : \A h \in done : FirstIndex(s, g) <= FirstIndex(s, h)
  OBVIOUS
<1>3. Cardinality(done) \in Nat /\ Retained \in Nat /\ Len(s) \in Nat
  <2>1. IsFiniteSet(done)
    BY <1>1, FS_Subset, StreamAssumption
  <2> QED
    BY <2>1, FS_CardinalityType, RingAssumption
<1>4. ASSUME NEW g \in done
      PROVE At(g) \in SUBSET (0..Len(s)) /\ At(g) # {} /\ FirstIndex(s, g) \in Nat
                /\ LastIndex(s, g) \in 1..Len(s)
  <2>1. At(g) \in SUBSET (1..Len(s)) /\ At(g) # {}
    BY <1>1 DEF Groups
  <2>2. At(g) \in SUBSET (0..Len(s)) /\ At(g) \in SUBSET Nat
    BY <1>3, <2>1
  <2>3. FirstIndex(s, g) \in At(g)
    BY <2>1, <2>2, MinIsLeast DEF FirstIndex
  <2>4. LastIndex(s, g) \in At(g)
    BY <1>3, <2>1, <2>2, MaxIsGreatest DEF LastIndex
  <2> QED
    BY <1>3, <2>1, <2>2, <2>3, <2>4
<1>5. ASSUME done # {} PROVE oldest \in done
  <2>1. PICK T : T = {FirstIndex(s, g) : g \in done}
    OBVIOUS
  <2>2. T \in SUBSET Nat /\ T # {}
    BY <1>4, <1>5, <2>1
  <2>3. PICK x \in T : \A y \in T : x <= y
    BY <2>2, NatLeast
  <2>4. \E g \in done : \A h \in done : FirstIndex(s, g) <= FirstIndex(s, h)
    BY <2>1, <2>3
  <2> QED
    BY <1>2, <2>4
<1>6. (Cardinality(done) > Retained) => done # {}
  <2>1. done = {} => Cardinality(done) = 0
    BY FS_EmptySet
  <2> QED
    BY <1>3, <2>1
<1>7. OverBounds(s) => 1 \in 1..Len(s)
  <2>1. CASE Len(s) = 0
    <3>1. s = <<>>
      BY <2>1
    <3> QED
      BY <3>1, EmptyIsWithinBounds
  <2> QED
    BY <1>3, <2>1
<1>8. done # {} => LastIndex(s, oldest) \in 1..Len(s)
  BY <1>4, <1>5
<1>9. SelectEvictionCount(s, completed) =
        CASE Cardinality(done) > Retained -> LastIndex(s, oldest)
          [] Cardinality(done) <= Retained /\ ~OverBounds(s) -> 0
          [] OTHER -> IF done # {} THEN LastIndex(s, oldest) ELSE 1
  BY <1>1, <1>2 DEF SelectEvictionCount
<1>10. CASE Cardinality(done) > Retained
  BY <1>3, <1>6, <1>8, <1>9, <1>10
<1>11. CASE ~(Cardinality(done) > Retained) /\ ~OverBounds(s)
  BY <1>3, <1>9, <1>11
<1>12. CASE ~(Cardinality(done) > Retained) /\ OverBounds(s)
  <2>1. SelectEvictionCount(s, completed) = IF done # {} THEN LastIndex(s, oldest) ELSE 1
    BY <1>3, <1>9, <1>12
  <2> QED
    BY <1>3, <1>7, <1>8, <1>12, <2>1
<1> QED
  BY <1>10, <1>11, <1>12

LEMMA FromFacts ==
  ASSUME NEW X, NEW s \in Seq(X), NEW k \in 0..Len(s)
  PROVE  /\ From(s, k) \in Seq(X) /\ Len(From(s, k)) = Len(s) - k
         /\ \A j \in 1..(Len(s) - k) : From(s, k)[j] = s[k + j]
         /\ k = Len(s) => From(s, k) = <<>>
<1>1. Len(s) \in Nat /\ k \in Nat /\ k <= Len(s)
  OBVIOUS
<1>2. From(s, k) \in Seq(X) /\ Len(From(s, k)) = Len(s) - k
  BY <1>1 DEF From
<1>3. \A j \in 1..(Len(s) - k) : From(s, k)[j] = s[k + j]
  BY <1>1 DEF From
<1>4. ASSUME k = Len(s) PROVE From(s, k) = <<>>
  BY <1>1, <1>2, <1>4
<1> QED
  BY <1>2, <1>3, <1>4

\* enforceRetention comes to an end: the policy is content, or takes the rest.
LEMMA LastLookStops ==
  ASSUME NEW r \in RingType
  PROVE  /\ LastLook(r) \in 0..Len(r.entries)
         /\ Evicts(r, LastLook(r)) \in 0..(Len(r.entries) - LastLook(r))
         /\ \/ Evicts(r, LastLook(r)) = 0 /\ ~OverBounds(From(r.entries, LastLook(r)))
            \/ LastLook(r) + Evicts(r, LastLook(r)) = Len(r.entries)
<1>1. PICK n : n = Len(r.entries)
  OBVIOUS
<1>2. n \in Nat /\ r.entries \in Seq(EntryType) /\ r.completed \in SUBSET Messages
  BY <1>1 DEF RingType
<1>3. \A k \in 0..n : /\ Evicts(r, k) \in 0..(n - k)
                      /\ Evicts(r, k) = 0 => ~OverBounds(From(r.entries, k))
  <2> SUFFICES ASSUME NEW k \in 0..n
               PROVE  /\ Evicts(r, k) \in 0..(n - k)
                      /\ Evicts(r, k) = 0 => ~OverBounds(From(r.entries, k))
    OBVIOUS
  <2>1. From(r.entries, k) \in Seq(EntryType) /\ Len(From(r.entries, k)) = n - k
    BY <1>1, <1>2, FromFacts
  <2> QED
    BY <1>2, <2>1, EvictionCount DEF Evicts
<1>4. PICK E : E = [k \in 0..n |-> Evicts(r, k)]
  OBVIOUS
<1>5. \A k \in 0..n : E[k] = Evicts(r, k) /\ E[k] \in Nat /\ k + E[k] <= n
  BY <1>2, <1>3, <1>4
<1>6. PICK stop : stop = {k \in 0..n : E[k] = 0 \/ k + E[k] >= n}
  OBVIOUS
<1>7. PICK J : J = [k \in 0..n |-> IF k \in stop THEN k ELSE k + E[k]]
  OBVIOUS
<1>8. stop \in SUBSET (0..n) /\ J \in [0..n -> 0..n] /\ \A k \in 0..n : k \in stop \/ k < J[k]
  BY <1>2, <1>5, <1>6, <1>7
<1>9. PICK g \in [0..n -> stop] : \A k \in 0..n : g[k] = IF k \in stop THEN k ELSE g[J[k]]
  <2>1. \A k \in 0..n : k \in stop \/ k < J[k]
    BY <1>8
  <2>2. n \in Nat
    BY <1>2
  <2>3. stop \in SUBSET (0..n) /\ J \in [0..n -> 0..n]
    BY <1>8
  <2>4. \E g \in [0..n -> stop] : HandsOver(g, n, stop, J)
    BY <2>1, <2>2, <2>3, HandedOver
  <2> QED
    BY <2>4 DEF HandsOver
<1>10. \A k \in 0..n : (k \in stop) <=> (Evicts(r, k) = 0 \/ k + Evicts(r, k) >= n)
  BY <1>5, <1>6
<1>11. \A k \in 0..n : k \notin stop => J[k] = k + Evicts(r, k)
  BY <1>5, <1>7
<1>12. PICK h : h = CHOOSE f : f = [k \in 0..n |-> IF Evicts(r, k) = 0 \/ k + Evicts(r, k) >= n
                                             THEN k ELSE f[k + Evicts(r, k)]]
  OBVIOUS
<1>13. LastLook(r) = h[0]
  BY <1>1, <1>12 DEF LastLook
<1>14. g = [k \in 0..n |-> IF Evicts(r, k) = 0 \/ k + Evicts(r, k) >= n
                           THEN k ELSE g[k + Evicts(r, k)]]
  BY <1>9, <1>10, <1>11
<1>15. h = [k \in 0..n |-> IF Evicts(r, k) = 0 \/ k + Evicts(r, k) >= n
                           THEN k ELSE h[k + Evicts(r, k)]]
  BY <1>12, <1>14
<1>16. \A k \in 0..n : h[k] = IF k \in stop THEN k ELSE h[J[k]]
  BY <1>10, <1>11, <1>15
<1>17. \A k \in 0..n : h[k] \in stop
  BY <1>2, <1>8, <1>16, HandedOverStops
<1>18. LastLook(r) \in stop
  BY <1>2, <1>13, <1>17
<1>19. LastLook(r) \in 0..n
  BY <1>8, <1>18
<1>20. Evicts(r, LastLook(r)) = 0 \/ LastLook(r) + Evicts(r, LastLook(r)) >= n
  BY <1>10, <1>18, <1>19
<1>21. Evicts(r, LastLook(r)) \in 0..(n - LastLook(r))
  BY <1>3, <1>19
<1> QED
  BY <1>1, <1>2, <1>3, <1>19, <1>20, <1>21

\* What enforceRetention leaves is a suffix, and within the bounds.
LEMMA RetentionKeeps ==
  ASSUME NEW r \in RingType, r.next = r.dropped + Len(r.entries) + 1,
         \A k \in 1..Len(r.entries) : r.entries[k].cursor = r.dropped + k
  PROVE  RingOK(EnforceRetention(r)) /\ EnforceRetention(r).next = r.next
<1>1. PICK n : n = Len(r.entries)
  OBVIOUS
<1>2. PICK gone : gone = LastLook(r) + Evicts(r, LastLook(r))
  OBVIOUS
<1>3. PICK kept : kept = Groups(From(r.entries, LastLook(r))) \cup {r.active.id}
  OBVIOUS
<1>4. /\ n \in Nat /\ r.entries \in Seq(EntryType) /\ r.dropped \in Nat /\ r.next \in Nat
      /\ r.completed \in SUBSET Messages /\ r.active \in [id: Group, turn: Nat]
  BY <1>1 DEF RingType
<1>5. gone \in 0..n /\ ~OverBounds(From(r.entries, gone))
  <2>1. /\ LastLook(r) \in 0..n /\ Evicts(r, LastLook(r)) \in 0..(n - LastLook(r))
        /\ \/ Evicts(r, LastLook(r)) = 0 /\ ~OverBounds(From(r.entries, LastLook(r)))
           \/ LastLook(r) + Evicts(r, LastLook(r)) = n
    BY <1>1, LastLookStops
  <2>2. gone \in 0..n
    BY <1>2, <1>4, <2>1
  <2>3. CASE Evicts(r, LastLook(r)) = 0 /\ ~OverBounds(From(r.entries, LastLook(r)))
    <3>1. gone = LastLook(r)
      BY <1>2, <1>4, <2>1, <2>3
    <3> QED
      BY <2>2, <2>3, <3>1
  <2>4. CASE gone = n
    <3>1. From(r.entries, gone) = <<>>
      BY <1>1, <1>4, <2>2, <2>4, FromFacts
    <3> QED
      BY <2>2, <3>1, EmptyIsWithinBounds
  <2> QED
    BY <1>2, <2>1, <2>3, <2>4
<1>6. PICK q : q = EnforceRetention(r)
  OBVIOUS
<1>7. q = [r EXCEPT !.entries = From(r.entries, gone),
                    !.dropped = IF gone = 0 THEN r.dropped ELSE r.entries[gone].cursor,
                    !.completed = r.completed \cap kept]
  BY <1>2, <1>3, <1>6 DEF EnforceRetention
<1>8. /\ q.entries = From(r.entries, gone) /\ q.next = r.next /\ q.active = r.active
      /\ q.dropped = IF gone = 0 THEN r.dropped ELSE r.entries[gone].cursor
      /\ q.completed = r.completed \cap kept
      /\ q = [entries |-> q.entries, next |-> q.next, dropped |-> q.dropped,
              completed |-> q.completed, active |-> q.active]
  BY <1>7 DEF RingType
<1>9. q.dropped = r.dropped + gone
  <2>1. CASE gone = 0
    BY <1>4, <1>8, <2>1
  <2>2. CASE gone # 0
    <3>1. gone \in 1..Len(r.entries)
      BY <1>1, <1>4, <1>5, <2>2
    <3> QED
      BY <1>8, <2>2, <3>1
  <2> QED
    BY <2>1, <2>2
<1>10. /\ From(r.entries, gone) \in Seq(EntryType) /\ Len(From(r.entries, gone)) = n - gone
       /\ \A j \in 1..(n - gone) : From(r.entries, gone)[j] = r.entries[gone + j]
  BY <1>1, <1>4, <1>5, FromFacts
<1>11. q \in RingType
  <2>1. q.dropped \in Nat /\ q.completed \in SUBSET Messages
    BY <1>4, <1>5, <1>8, <1>9, SMTT(30)
  <2> QED
    BY <1>4, <1>8, <1>10, <2>1 DEF RingType
<1>12. q.next = q.dropped + Len(q.entries) + 1
  <2>1. q.next = r.dropped + n + 1 /\ Len(q.entries) = n - gone
    BY <1>1, <1>8, <1>10
  <2> QED
    BY <1>4, <1>5, <1>9, <2>1
<1>13. ASSUME NEW k \in 1..Len(q.entries) PROVE q.entries[k].cursor = q.dropped + k
  <2>1. k \in 1..(n - gone) /\ gone + k \in 1..n /\ k \in Nat /\ gone \in Nat
    BY <1>4, <1>5, <1>8, <1>10
  <2>2. q.entries[k] = r.entries[gone + k]
    BY <1>8, <1>10, <2>1
  <2>3. r.entries[gone + k].cursor = r.dropped + (gone + k)
    BY <1>1, <2>1
  <2> QED
    BY <1>4, <1>9, <2>1, <2>2, <2>3
<1> QED
  BY <1>5, <1>6, <1>8, <1>11, <1>12, <1>13 DEF RingOK

LEMMA EmptyRingOK == RingOK(EmptyRing) /\ EmptyRing.next = 1
<1>1. NoMessage \in Group /\ 0 \in Nat /\ 1 \in Nat /\ <<>> \in Seq(EntryType) /\ Len(<<>>) = 0
  BY DEF Group
<1>2. EmptyRing \in RingType
  BY <1>1 DEF EmptyRing, RingType
<1>3. EmptyRing.entries = <<>> /\ EmptyRing.next = 1 /\ EmptyRing.dropped = 0
  BY DEF EmptyRing
<1> QED
  BY <1>1, <1>2, <1>3, EmptyIsWithinBounds DEF RingOK

LEMMA ClassifyKeeps ==
  ASSUME NEW r \in RingType, NEW f \in FrameType
  PROVE  /\ Classify(r, f) \in RingType /\ Classify(r, f).entries = r.entries
         /\ Classify(r, f).next = r.next /\ Classify(r, f).dropped = r.dropped
         /\ MessageGroup(Classify(r, f), f) \in Group
<1>1. /\ r.entries \in Seq(EntryType) /\ r.next \in Nat /\ r.dropped \in Nat
      /\ r.completed \in SUBSET Messages /\ r.active.id \in Group /\ r.active.turn \in Nat
      /\ r.active \in [id: Group, turn: Nat]
  BY DEF RingType
<1>2. f.group \in Group /\ f.msgs \in SUBSET Messages /\ f.turn \in Nat
  BY DEF FrameType
<1>3. PICK a : a = Activate(r, f)
  OBVIOUS
<1>4. /\ a \in RingType /\ a.entries = r.entries /\ a.next = r.next /\ a.dropped = r.dropped
  <2>1. CASE f.group = NoMessage
    BY <1>3, <2>1 DEF Activate
  <2>2. CASE f.group # NoMessage
    <3>1. a = [r EXCEPT !.completed = @ \cup ({r.active.id} \ {f.group, NoMessage}),
                        !.active = [id |-> f.group, turn |-> f.turn]]
      BY <1>3, <2>2 DEF Activate
    <3>2. r.completed \cup ({r.active.id} \ {f.group, NoMessage}) \in SUBSET Messages
      BY <1>1 DEF Group
    <3>3. [id |-> f.group, turn |-> f.turn] \in [id: Group, turn: Nat]
      BY <1>2
    <3> QED
      BY <1>1, <3>1, <3>2, <3>3 DEF RingType
  <2> QED
    BY <2>1, <2>2
<1>5. a.active.id \in Group /\ a.completed \in SUBSET Messages
  BY <1>4 DEF RingType
<1>6. MessageGroup(a, f) \in Group
  BY <1>2, <1>5 DEF MessageGroup, Group
<1>7. PICK more : more = a.completed \cup CompletedIds(f) \cup
                    (IF f.kind = "terminal" \/ IsDurableBoundary(f)
                     THEN {MessageGroup(a, f)} \ {NoMessage} ELSE {})
  OBVIOUS
<1>8. more \in SUBSET Messages
  <2>1. {MessageGroup(a, f)} \ {NoMessage} \in SUBSET Messages
    BY <1>6 DEF Group
  <2>2. CompletedIds(f) \in SUBSET Messages
    BY <1>2 DEF CompletedIds
  <2> QED
    BY <1>5, <1>7, <2>1, <2>2
<1>9. PICK c : c = Classify(r, f)
  OBVIOUS
<1>10. c = [a EXCEPT !.completed = more]
  BY <1>3, <1>7, <1>9 DEF Classify
<1>11. c \in RingType /\ c.entries = a.entries /\ c.next = a.next /\ c.dropped = a.dropped
       /\ c.active = a.active
  BY <1>4, <1>8, <1>10 DEF RingType
<1>12. MessageGroup(c, f) \in Group
  BY <1>2, <1>5, <1>11 DEF MessageGroup, Group
<1> QED
  BY <1>4, <1>9, <1>11, <1>12

\* A write keeps the ring in order and uses at most one cursor.
LEMMA AppendedKeeps ==
  ASSUME NEW r, RingOK(r), NEW f \in FrameType
  PROVE  RingOK(Appended(r, f)) /\ Appended(r, f).next \in {r.next, r.next + 1}
<1>1. PICK c : c = Classify(r, f)
  OBVIOUS
<1>2. /\ c \in RingType /\ c.entries = r.entries /\ c.next = r.next /\ c.dropped = r.dropped
      /\ MessageGroup(c, f) \in Group
  BY <1>1, ClassifyKeeps DEF RingOK
<1>3. /\ r.next = r.dropped + Len(r.entries) + 1 /\ ~OverBounds(r.entries)
      /\ \A k \in 1..Len(r.entries) : r.entries[k].cursor = r.dropped + k
  BY DEF RingOK
<1>4. CASE Duplicates(r, f) # {}
  <2>1. Appended(r, f) = c
    BY <1>1, <1>4 DEF Appended
  <2> QED
    BY <1>2, <1>3, <2>1 DEF RingOK
<1>5. CASE Duplicates(r, f) = {}
  <2>1. PICK e : e = [cursor |-> r.next, kind |-> f.kind, msgs |-> f.msgs, turn |-> f.turn,
                      size |-> f.size, group |-> MessageGroup(c, f)]
    OBVIOUS
  <2>2. PICK q : q = [c EXCEPT !.entries = Append(@, e), !.next = @ + 1]
    OBVIOUS
  <2>3. Appended(r, f) = EnforceRetention(q)
    BY <1>1, <1>5, <2>1, <2>2 DEF Appended
  <2>4. r.next \in Nat /\ r.dropped \in Nat /\ r.entries \in Seq(EntryType) /\ Len(r.entries) \in Nat
    BY DEF RingOK, RingType
  <2>5. e \in EntryType /\ e.cursor = r.next
    BY <1>2, <2>1, <2>4 DEF EntryType, FrameType
  <2>6. q.entries = Append(r.entries, e) /\ q.next = r.next + 1 /\ q.dropped = r.dropped
    BY <1>2, <2>2 DEF RingType
  <2>7. /\ Append(r.entries, e) \in Seq(EntryType)
        /\ Len(Append(r.entries, e)) = Len(r.entries) + 1
        /\ \A k \in 1..Len(r.entries) : Append(r.entries, e)[k] = r.entries[k]
        /\ Append(r.entries, e)[Len(r.entries) + 1] = e
    BY <2>4, <2>5
  <2>8. q \in RingType
    <3>1. r.next + 1 \in Nat
      BY <2>4
    <3> QED
      BY <1>2, <2>2, <2>7, <3>1 DEF RingType
  <2>9. q.next = q.dropped + Len(q.entries) + 1
    BY <1>3, <2>4, <2>6, <2>7
  <2>10. ASSUME NEW k \in 1..Len(q.entries) PROVE q.entries[k].cursor = q.dropped + k
    <3>1. k \in 1..Len(r.entries) \/ k = Len(r.entries) + 1
      BY <2>4, <2>6, <2>7
    <3>2. CASE k \in 1..Len(r.entries)
      BY <1>3, <2>6, <2>7, <3>2
    <3>3. CASE k = Len(r.entries) + 1
      <4>1. q.entries[k] = e
        BY <2>6, <2>7, <3>3
      <4>2. r.next = r.dropped + k
        BY <1>3, <2>4, <3>3
      <4> QED
        BY <2>5, <2>6, <4>1, <4>2
    <3> QED
      BY <3>1, <3>2, <3>3
  <2>11. RingOK(EnforceRetention(q)) /\ EnforceRetention(q).next = q.next
    BY <2>8, <2>9, <2>10, RetentionKeeps
  <2> QED
    BY <2>3, <2>6, <2>11
<1> QED
  BY <1>4, <1>5

\* replay gives every frame after the cursor it accepts.
LEMMA ReplayedAll ==
  ASSUME NEW r, RingOK(r), NEW c \in Nat
  PROVE  /\ Replayed(r, c) \in Seq(EntryType)
         /\ ReplayStatus(r, c) = "ok" =>
              /\ c < r.next /\ Len(Replayed(r, c)) = r.next - 1 - c
              /\ \A j \in 1..Len(Replayed(r, c)) : Replayed(r, c)[j].cursor = c + j
<1>1. PICK S : S = {k \in DOMAIN r.entries : r.entries[k].cursor > c}
  OBVIOUS
<1>2. Replayed(r, c) = AtPositions(r.entries, S)
  BY <1>1 DEF Replayed
<1>3. /\ r.next \in Nat /\ r.dropped \in Nat /\ r.entries \in Seq(EntryType) /\ Len(r.entries) \in Nat
      /\ DOMAIN r.entries = 1..Len(r.entries)
  BY DEF RingOK, RingType
<1>4. /\ r.next = r.dropped + Len(r.entries) + 1
      /\ \A k \in 1..Len(r.entries) : r.entries[k].cursor = r.dropped + k
  BY DEF RingOK
<1>5. S \in SUBSET (1..Len(r.entries))
  BY <1>1, <1>3
<1>6. Replayed(r, c) \in Seq(EntryType)
  BY <1>2, <1>3, <1>5, AtPositionsLists
<1>7. ASSUME ReplayStatus(r, c) = "ok"
      PROVE  /\ c < r.next /\ Len(Replayed(r, c)) = r.next - 1 - c
             /\ \A j \in 1..Len(Replayed(r, c)) : Replayed(r, c)[j].cursor = c + j
  <2>1. c < r.next /\ r.dropped <= c
    BY <1>3, <1>7 DEF ReplayStatus
  <2>2. PICK a : a = c - r.dropped
    OBVIOUS
  <2>3. a \in 0..Len(r.entries) /\ Len(r.entries) - a = r.next - 1 - c /\ r.dropped + a = c
    BY <1>3, <1>4, <2>1, <2>2
  <2>4. S = (a + 1)..Len(r.entries)
    <3>1. \A k \in 1..Len(r.entries) : (k \in S) <=> (r.dropped + k > c)
      BY <1>1, <1>3, <1>4
    <3>2. \A k \in 1..Len(r.entries) : (r.dropped + k > c) <=> (k >= a + 1)
      BY <1>3, <2>1, <2>2
    <3>3. \A k : k \in (a + 1)..Len(r.entries) <=> k \in 1..Len(r.entries) /\ k >= a + 1
      BY <1>3, <2>3
    <3> QED
      BY <1>5, <3>1, <3>2, <3>3
  <2>5. /\ Len(Replayed(r, c)) = Len(r.entries) - a
        /\ \A j \in 1..(Len(r.entries) - a) : Replayed(r, c)[j] = r.entries[a + j]
    BY <1>2, <1>3, <2>3, <2>4, AtSuffix
  <2>6. ASSUME NEW j \in 1..(Len(r.entries) - a) PROVE Replayed(r, c)[j].cursor = c + j
    <3>1. a + j \in 1..Len(r.entries) /\ j \in Nat
      BY <1>3, <2>3
    <3>2. Replayed(r, c)[j].cursor = r.dropped + (a + j)
      BY <1>4, <2>5, <3>1
    <3> QED
      BY <1>3, <2>3, <3>1, <3>2
  <2> QED
    BY <2>1, <2>3, <2>5, <2>6
<1> QED
  BY <1>6, <1>7

-----------------------------------------------------------------------------
(* The iterator.                                                           *)

\* p is a, then b, then c.
Joined(p, a, b, c) ==
  /\ Len(p) = Len(a) + Len(b) + Len(c)
  /\ \A k \in 1..Len(p) :
       p[k] = IF k <= Len(a) THEN a[k]
              ELSE IF k <= Len(a) + Len(b) THEN b[k - Len(a)] ELSE c[k - (Len(a) + Len(b))]

LEMMA ThreeParts ==
  ASSUME NEW X, NEW a \in Seq(X), NEW b \in Seq(X), NEW c \in Seq(X)
  PROVE  a \o b \o c \in Seq(X) /\ Joined(a \o b \o c, a, b, c)
<1>1. Len(a) \in Nat /\ Len(b) \in Nat /\ Len(c) \in Nat
  OBVIOUS
<1>2. PICK d : d = a \o b
  OBVIOUS
<1>3. d \in Seq(X) /\ Len(d) = Len(a) + Len(b)
  BY <1>2
<1>4. \A k \in 1..(Len(a) + Len(b)) : d[k] = IF k <= Len(a) THEN a[k] ELSE b[k - Len(a)]
  BY <1>2
<1>5. PICK e : e = d \o c
  OBVIOUS
<1>6. /\ e \in Seq(X) /\ Len(e) = Len(d) + Len(c)
      /\ \A k \in 1..(Len(d) + Len(c)) : e[k] = IF k <= Len(d) THEN d[k] ELSE c[k - Len(d)]
  <2>1. d \in Seq(X)
    BY <1>3
  <2>2. e \in Seq(X) /\ Len(e) = Len(d) + Len(c)
    BY <1>5, <2>1
  <2>3. \A k \in 1..(Len(d) + Len(c)) : e[k] = IF k <= Len(d) THEN d[k] ELSE c[k - Len(d)]
    BY <1>5, <2>1
  <2> QED
    BY <2>2, <2>3
<1>7. ASSUME NEW k \in 1..Len(e)
      PROVE  e[k] = IF k <= Len(a) THEN a[k]
                    ELSE IF k <= Len(a) + Len(b) THEN b[k - Len(a)] ELSE c[k - (Len(a) + Len(b))]
  <2>1. CASE k <= Len(a) + Len(b)
    <3>1. k \in 1..(Len(a) + Len(b)) /\ e[k] = d[k]
      BY <1>1, <1>3, <1>6, <2>1
    <3>2. d[k] = IF k <= Len(a) THEN a[k] ELSE b[k - Len(a)]
      BY <1>4, <3>1
    <3> QED
      BY <2>1, <3>1, <3>2
  <2>2. CASE ~(k <= Len(a) + Len(b))
    <3>1. e[k] = c[k - (Len(a) + Len(b))] /\ ~(k <= Len(a))
      BY <1>1, <1>3, <1>6, <2>2
    <3> QED
      BY <2>2, <3>1
  <2> QED
    BY <2>1, <2>2
<1> QED
  BY <1>2, <1>3, <1>5, <1>6, <1>7 DEF Joined

\* The sequences of an iterator.
LEMMA IterSeqs ==
  ASSUME NEW i \in IterType
  PROVE  /\ i.handed \in Seq(EntryType) /\ i.replay \in Seq(EntryType) /\ i.queue \in Seq(EntryType)
         /\ PendingOf(i) \in Seq(EntryType) /\ Len(PendingOf(i)) \in Nat
         /\ Len(i.handed) \in Nat /\ Len(i.replay) \in Nat /\ Len(i.queue) \in Nat
         /\ Joined(PendingOf(i), i.handed, i.replay, i.queue)
<1>1. i.handed \in Seq(EntryType) /\ i.replay \in Seq(EntryType) /\ i.queue \in Seq(EntryType)
  BY DEF IterType
<1>2. Len(i.handed) \in Nat /\ Len(i.replay) \in Nat /\ Len(i.queue) \in Nat
  BY <1>1
<1>3. PendingOf(i) \in Seq(EntryType) /\ Joined(PendingOf(i), i.handed, i.replay, i.queue)
  BY <1>1, ThreeParts DEF PendingOf
<1> QED
  BY <1>1, <1>2, <1>3

LEMMA EntryCursor ==
  ASSUME NEW s \in Seq(EntryType), NEW k \in 1..Len(s)
  PROVE  s[k] \in EntryType /\ s[k].cursor \in Nat
<1>1. s[k] \in EntryType
  OBVIOUS
<1> QED
  BY <1>1 DEF EntryType

\* What the next lemmas say of an iterator with nothing to read.
LEMMA NothingPending ==
  ASSUME NEW i, i.handed = <<>>, i.replay = <<>>, i.queue = <<>>
  PROVE  PendingOf(i) = <<>> /\ Len(PendingOf(i)) = 0 /\ Growing(PendingOf(i))
<1>1. PendingOf(i) = <<>>
  BY DEF PendingOf
<1> QED
  BY <1>1 DEF Growing

LEMMA OffOK == IterOK(Off) /\ \A r, n : OrderOK(r, Off, n)
<1>1. <<>> \in Seq(EntryType) /\ <<>> \in Seq(Group) /\ <<>> \in Seq(Messages) /\ Len(<<>>) = 0
  OBVIOUS
<1>2. Off \in IterType
  BY <1>1 DEF Off, IterType
<1>3. /\ Off.phase = "off" /\ Off.mode = "live" /\ Off.handed = <<>> /\ Off.replay = <<>>
      /\ Off.queue = <<>> /\ Off.durable = <<>> /\ Off.reading = FALSE /\ Off.live = FALSE
  BY DEF Off
<1>4. MaxQueue \in Nat
  BY StreamAssumption
<1>5. IterOK(Off)
  BY <1>1, <1>2, <1>3, <1>4 DEF IterOK
<1>6. Len(PendingOf(Off)) = 0 /\ Growing(PendingOf(Off))
  BY <1>3, NothingPending
<1> QED
  BY <1>3, <1>5, <1>6 DEF OrderOK

\* closeLive ends the subscription and forgets what is queued.
LEMMA CloseLiveKeeps ==
  ASSUME NEW i, IterOK(i), i.phase # "off"
  PROVE  /\ IterOK(CloseLive(i)) /\ CloseLive(i).object = i.object
         /\ CloseLive(i).phase = i.phase
         /\ \A r, n : OrderOK(r, i, n) => OrderOK(r, CloseLive(i), n)
<1>1. PICK j : j = CloseLive(i)
  OBVIOUS
<1>2. i \in IterType
  BY DEF IterOK
<1>3. /\ j.live = FALSE /\ j.queue = <<>> /\ j.reading = FALSE /\ j.phase = i.phase
      /\ j.handed = i.handed /\ j.replay = i.replay /\ j.mode = i.mode /\ j.only = i.only
      /\ j.initial = i.initial /\ j.durable = i.durable /\ j.mark = i.mark /\ j.object = i.object
  BY <1>1, <1>2 DEF CloseLive, IterType
<1>4. j \in IterType
  <2>1. <<>> \in Seq(EntryType)
    OBVIOUS
  <2> QED
    BY <1>1, <1>2, <2>1 DEF CloseLive, IterType
<1>5. IterOK(j)
  <2>1. MaxQueue \in Nat /\ Len(<<>>) = 0
    BY StreamAssumption
  <2> QED
    BY <1>3, <1>4, <2>1 DEF IterOK
<1>6. ASSUME NEW r, NEW n, OrderOK(r, i, n) PROVE OrderOK(r, j, n)
  <2>1. /\ Joined(PendingOf(i), i.handed, i.replay, i.queue)
        /\ Joined(PendingOf(j), i.handed, i.replay, <<>>)
    BY <1>2, <1>3, <1>4, IterSeqs
  <2>a. Len(i.handed) \in Nat /\ Len(i.replay) \in Nat /\ Len(i.queue) \in Nat
    BY <1>2, IterSeqs
  <2>2. \A k \in 1..Len(PendingOf(j)) : k \in 1..Len(PendingOf(i)) /\ PendingOf(j)[k] = PendingOf(i)[k]
    <3> SUFFICES ASSUME NEW k \in 1..Len(PendingOf(j))
                 PROVE  k \in 1..Len(PendingOf(i)) /\ PendingOf(j)[k] = PendingOf(i)[k]
      OBVIOUS
    <3>1. /\ Len(PendingOf(j)) = Len(i.handed) + Len(i.replay)
          /\ Len(PendingOf(i)) = Len(i.handed) + Len(i.replay) + Len(i.queue)
      BY <2>1, <2>a DEF Joined
    <3>a. PICK x, y, z : x = Len(i.handed) /\ y = Len(i.replay) /\ z = Len(i.queue)
      OBVIOUS
    <3>b. x \in Nat /\ y \in Nat /\ z \in Nat
      BY <2>a, <3>a
    <3>c. k \in 1..(x + y)
      BY <3>1, <3>a
    <3>d. k \in Nat /\ 1 <= k /\ k <= x + y
      BY <3>b, <3>c
    <3>e. k \in 1..(x + y + z)
      BY <3>b, <3>d
    <3>2. k \in Nat /\ 1 <= k /\ k <= Len(i.handed) + Len(i.replay)
      BY <3>a, <3>d, Zenon
    <3>3. k \in 1..Len(PendingOf(i))
      BY <3>1, <3>a, <3>e, Zenon
    <3> QED
      BY <2>1, <3>2, <3>3 DEF Joined
  <2>3. Growing(PendingOf(j))
    BY <1>6, <2>2 DEF OrderOK, Growing
  <2>4. \A k \in 1..Len(PendingOf(j)) : PendingOf(j)[k].cursor < r.next
    BY <1>6, <2>2 DEF OrderOK
  <2>5. j.phase = "init" =>
          /\ j.mark < r.next /\ Growing(j.initial)
          /\ \A k \in 1..Len(j.initial) : j.initial[k].cursor \in 1..j.mark
          /\ \A k \in 1..Len(j.queue) : j.queue[k].cursor > j.mark
    BY <1>3, <1>6 DEF OrderOK
  <2> QED
    BY <1>3, <2>3, <2>4, <2>5 DEF OrderOK
<1> QED
  BY <1>1, <1>3, <1>5, <1>6

\* The effect of a push on what is pending: the frame comes last.
Added(p, q, e) ==
  /\ Len(p) = Len(q) + 1 /\ p[Len(q) + 1] = e
  /\ \A k \in 1..Len(q) : p[k] = q[k]

LEMMA AddedInOrder ==
  ASSUME NEW q \in Seq(EntryType), NEW p, NEW e, Added(p, q, e), Growing(q),
         e.cursor \in Nat, \A k \in 1..Len(q) : q[k].cursor < e.cursor
  PROVE  Growing(p) /\ \A k \in 1..Len(p) : p[k].cursor < e.cursor + 1
<1>1. PICK n : n = Len(q)
  OBVIOUS
<1>2. n \in Nat
  BY <1>1
<1>3. Len(p) = n + 1 /\ p[n + 1] = e /\ \A k \in 1..n : p[k] = q[k]
  BY <1>1 DEF Added
<1>4. \A k \in 1..n : q[k].cursor \in Nat /\ q[k].cursor < e.cursor
  BY <1>1, EntryCursor
<1>5. \A j, k \in 1..n : (j < k /\ q[j].cursor # 0 /\ q[k].cursor # 0) => q[j].cursor < q[k].cursor
  BY <1>1 DEF Growing
<1>6. \A k \in 1..(n + 1) : k \in 1..n \/ k = n + 1
  BY <1>2
<1>7. \A k \in 1..(n + 1) : p[k].cursor < e.cursor + 1
  <2>1. \A k \in 1..n : p[k].cursor < e.cursor + 1
    BY <1>3, <1>4
  <2>2. p[n + 1].cursor < e.cursor + 1
    BY <1>3
  <2> QED
    BY <1>6, <2>1, <2>2
<1>8. ASSUME NEW j \in 1..(n + 1), NEW k \in 1..(n + 1), j < k,
             p[j].cursor # 0, p[k].cursor # 0
      PROVE  p[j].cursor < p[k].cursor
  <2>1. j \in 1..n
    BY <1>2, <1>8
  <2>2. CASE k \in 1..n
    BY <1>3, <1>5, <1>8, <2>1, <2>2
  <2>3. CASE k = n + 1
    BY <1>3, <1>4, <2>1, <2>3
  <2> QED
    BY <1>6, <2>2, <2>3
<1> QED
  BY <1>3, <1>7, <1>8 DEF Growing

LEMMA JoinedAdded ==
  ASSUME NEW a, NEW b, NEW q, NEW q2, NEW p, NEW p2, NEW e,
         Len(a) \in Nat, Len(b) \in Nat, Len(q) \in Nat,
         Joined(p, a, b, q), Joined(p2, a, b, q2), Added(q2, q, e)
  PROVE  Added(p2, p, e)
<1>1. PICK x, y, z : x = Len(a) /\ y = Len(b) /\ z = Len(q)
  OBVIOUS
<1>2. x \in Nat /\ y \in Nat /\ z \in Nat
  BY <1>1
<1>3. /\ Len(p) = x + y + z
      /\ \A k \in 1..(x + y + z) :
           p[k] = IF k <= x THEN a[k] ELSE IF k <= x + y THEN b[k - x] ELSE q[k - (x + y)]
  BY <1>1 DEF Joined
<1>4. Len(q2) = z + 1 /\ q2[z + 1] = e /\ \A k \in 1..z : q2[k] = q[k]
  BY <1>1 DEF Added
<1>5. /\ Len(p2) = x + y + (z + 1)
      /\ \A k \in 1..(x + y + (z + 1)) :
           p2[k] = IF k <= x THEN a[k] ELSE IF k <= x + y THEN b[k - x] ELSE q2[k - (x + y)]
  BY <1>1, <1>4 DEF Joined
<1>6. p2[x + y + z + 1] = e
  <2>1. /\ x + y + z + 1 \in 1..(x + y + (z + 1)) /\ ~(x + y + z + 1 <= x)
        /\ ~(x + y + z + 1 <= x + y) /\ (x + y + z + 1) - (x + y) = z + 1
    BY <1>2
  <2> QED
    BY <1>4, <1>5, <2>1
<1>7. ASSUME NEW k \in 1..(x + y + z) PROVE p2[k] = p[k]
  <2>1. k \in 1..(x + y + (z + 1))
    BY <1>2
  <2>2. CASE k <= x + y
    BY <1>3, <1>5, <2>1, <2>2
  <2>3. CASE ~(k <= x + y)
    <3>1. k - (x + y) \in 1..z /\ ~(k <= x)
      BY <1>2, <2>3
    <3> QED
      BY <1>3, <1>4, <1>5, <2>1, <2>3, <3>1
  <2> QED
    BY <2>2, <2>3
<1>8. Len(p2) = Len(p) + 1 /\ p2[Len(p) + 1] = e
  <2>1. x + y + (z + 1) = x + y + z + 1
    BY <1>2
  <2> QED
    BY <1>3, <1>5, <1>6, <2>1
<1> QED
  BY <1>3, <1>7, <1>8 DEF Added

\* A push, whether the frame is filtered out, handed to a waiting read,
\* queued, or the one that does not fit.
LEMMA PushKeeps ==
  ASSUME NEW i, IterOK(i), NEW e \in EntryType
  PROVE  IterOK(Push(i, e)) /\ Push(i, e).object = i.object
<1>1. PICK j : j = Push(i, e)
  OBVIOUS
<1>2. i \in IterType /\ (i.phase = "off" => i = Off) /\ i.reading \in BOOLEAN /\ i.live \in BOOLEAN
  BY DEF IterOK, IterType
<1>3. CASE ~i.live \/ (i.only # 0 /\ e.turn # i.only)
  BY <1>1, <1>3 DEF Push
<1>4. CASE ~(~i.live \/ (i.only # 0 /\ e.turn # i.only))
  <2>1. i.live /\ i.phase # "off"
    BY <1>2, <1>4 DEF Off
  <2>2. CASE i.reading
    <3>1. j = [i EXCEPT !.handed = <<e>>, !.reading = FALSE]
      BY <1>1, <1>4, <2>2 DEF Push
    <3>2. <<e>> \in Seq(EntryType) /\ Len(<<e>>) = 1
      OBVIOUS
    <3>3. j \in IterType
      BY <1>2, <3>1, <3>2 DEF IterType
    <3>4. /\ j.handed = <<e>> /\ j.reading = FALSE /\ j.phase = i.phase /\ j.replay = i.replay
          /\ j.queue = i.queue /\ j.mode = i.mode /\ j.only = i.only /\ j.durable = i.durable
          /\ j.object = i.object /\ j.live = i.live
      BY <1>2, <3>1 DEF IterType
    <3>5. i.phase \notin {"held", "init"}
      BY <2>2 DEF IterOK
    <3> QED
      BY <1>1, <2>1, <3>2, <3>3, <3>4, <3>5 DEF IterOK
  <2>3. CASE ~i.reading /\ (Len(i.queue) + 1 > MaxQueue \/ Bytes(i.queue) + e.size > MaxQueueBytes)
    <3>1. j = [CloseLive(i) EXCEPT !.failed = TRUE]
      BY <1>1, <1>4, <2>3 DEF Push
    <3>2. IterOK(CloseLive(i)) /\ CloseLive(i).object = i.object /\ CloseLive(i).phase = i.phase
      BY <2>1, CloseLiveKeeps
    <3>3. PICK c : c = CloseLive(i)
      OBVIOUS
    <3>4. c \in IterType /\ IterOK(c) /\ c.object = i.object /\ c.phase # "off"
      BY <2>1, <3>2, <3>3 DEF IterOK
    <3>5. /\ j.handed = c.handed /\ j.reading = c.reading /\ j.phase = c.phase /\ j.replay = c.replay
          /\ j.queue = c.queue /\ j.mode = c.mode /\ j.only = c.only /\ j.durable = c.durable
          /\ j.object = c.object /\ j.live = c.live
      BY <3>1, <3>3, <3>4 DEF IterType
    <3>6. j \in IterType
      BY <3>1, <3>3, <3>4 DEF IterType
    <3> QED
      BY <1>1, <3>4, <3>5, <3>6 DEF IterOK
  <2>4. CASE ~i.reading /\ ~(Len(i.queue) + 1 > MaxQueue \/ Bytes(i.queue) + e.size > MaxQueueBytes)
    <3>1. j = [i EXCEPT !.queue = Append(@, e)]
      BY <1>1, <1>4, <2>4 DEF Push
    <3>2. i.queue \in Seq(EntryType)
      BY <1>2 DEF IterType
    <3>3. Append(i.queue, e) \in Seq(EntryType) /\ Len(Append(i.queue, e)) = Len(i.queue) + 1
      BY <3>2
    <3>4. j \in IterType
      BY <1>2, <3>1, <3>3 DEF IterType
    <3>5. /\ j.handed = i.handed /\ j.reading = i.reading /\ j.phase = i.phase /\ j.replay = i.replay
          /\ j.queue = Append(i.queue, e) /\ j.mode = i.mode /\ j.only = i.only
          /\ j.durable = i.durable /\ j.object = i.object /\ j.live = i.live
      BY <1>2, <3>1 DEF IterType
    <3>6. Len(j.queue) <= MaxQueue
      <4>1. Len(i.queue) \in Nat /\ MaxQueue \in Nat
        BY <3>2, StreamAssumption
      <4>2. ~(Len(i.queue) + 1 > MaxQueue)
        BY <2>4
      <4> QED
        BY <3>3, <3>5, <4>1, <4>2
    <3> QED
      BY <1>1, <2>1, <2>4, <3>4, <3>5, <3>6 DEF IterOK
  <2> QED
    BY <2>2, <2>3, <2>4
<1> QED
  BY <1>3, <1>4

LEMMA PushInOrder ==
  ASSUME NEW i, IterOK(i), NEW e \in EntryType, NEW R, NEW r, NEW n \in Nat,
         R.next \in Nat, r.next = R.next + 1, e.cursor = R.next, OrderOK(R, i, n)
  PROVE  OrderOK(r, Push(i, e), n)
<1>1. PICK j : j = Push(i, e)
  OBVIOUS
<1>2. /\ i \in IterType /\ i.reading \in BOOLEAN /\ i.live \in BOOLEAN
      /\ (i.phase # "off") \/ (i = Off)
      /\ PendingOf(i) \in Seq(EntryType)
  BY IterSeqs DEF IterOK, IterType
<1>3. /\ Growing(PendingOf(i))
      /\ \A k \in 1..Len(PendingOf(i)) : PendingOf(i)[k].cursor < R.next
  BY DEF OrderOK
<1>4. \A k \in 1..Len(PendingOf(i)) : PendingOf(i)[k].cursor < r.next
  <2>1. \A k \in 1..Len(PendingOf(i)) : PendingOf(i)[k].cursor \in Nat
    BY <1>2, EntryCursor
  <2> QED
    BY <1>3, <2>1
<1>5. i.mark \in Nat /\ i.queue \in Seq(EntryType)
  BY <1>2 DEF IterType
<1>6. i.phase = "init" =>
        /\ i.mark < r.next /\ i.mark < R.next /\ Growing(i.initial)
        /\ \A k \in 1..Len(i.initial) : i.initial[k].cursor \in 1..i.mark
        /\ \A k \in 1..Len(i.queue) : i.queue[k].cursor > i.mark
  BY <1>5 DEF OrderOK
<1>7. i.mode = "cursor" => i.only = 0
  BY DEF IterOK
<1>8. CASE ~i.live \/ (i.only # 0 /\ e.turn # i.only)
  <2>1. j = i
    BY <1>1, <1>8 DEF Push
  <2>2. ~(i.mode = "cursor" /\ i.live)
    BY <1>7, <1>8
  <2>3. OrderOK(r, i, n)
    BY <1>3, <1>4, <1>6, <2>2 DEF OrderOK
  <2> QED
    BY <1>1, <2>1, <2>3
<1>9. CASE ~(~i.live \/ (i.only # 0 /\ e.turn # i.only))
  <2>1. i.live /\ i.phase # "off"
    BY <1>2, <1>9 DEF Off
  <2>2. CASE ~i.reading /\ (Len(i.queue) + 1 > MaxQueue \/ Bytes(i.queue) + e.size > MaxQueueBytes)
    <3>1. j = [CloseLive(i) EXCEPT !.failed = TRUE]
      BY <1>1, <1>9, <2>2 DEF Push
    <3>2. PICK c : c = CloseLive(i)
      OBVIOUS
    <3>3. IterOK(c) /\ OrderOK(R, c, n) /\ c.live = FALSE /\ c.phase = i.phase /\ c.mark = i.mark
          /\ c.initial = i.initial /\ c.queue = <<>>
      <4>1. c.live = FALSE /\ c.mark = i.mark /\ c.initial = i.initial /\ c.queue = <<>>
        BY <1>2, <3>2 DEF CloseLive, IterType
      <4> QED
        BY <2>1, <3>2, <4>1, CloseLiveKeeps
    <3>4. /\ j.handed = c.handed /\ j.phase = c.phase /\ j.replay = c.replay
          /\ j.queue = c.queue /\ j.mode = c.mode /\ j.initial = c.initial /\ j.mark = c.mark
          /\ j.live = c.live
      BY <3>1, <3>2, <3>3 DEF IterOK, IterType
    <3>5. PendingOf(j) = PendingOf(c) /\ PendingOf(c) \in Seq(EntryType)
      BY <3>3, <3>4, IterSeqs DEF PendingOf, IterOK
    <3>6. \A k \in 1..Len(PendingOf(c)) : PendingOf(c)[k].cursor < r.next
      <4>1. \A k \in 1..Len(PendingOf(c)) : PendingOf(c)[k].cursor \in Nat
        BY <3>5, EntryCursor
      <4>2. \A k \in 1..Len(PendingOf(c)) : PendingOf(c)[k].cursor < R.next
        BY <3>3 DEF OrderOK
      <4> QED
        BY <4>1, <4>2
    <3>7. Growing(PendingOf(c))
      BY <3>3 DEF OrderOK
    <3>8. j.phase = "init" =>
            /\ j.mark < r.next /\ Growing(j.initial)
            /\ \A k \in 1..Len(j.initial) : j.initial[k].cursor \in 1..j.mark
            /\ \A k \in 1..Len(j.queue) : j.queue[k].cursor > j.mark
      BY <1>6, <3>3, <3>4
    <3> QED
      BY <1>1, <3>3, <3>4, <3>5, <3>6, <3>7, <3>8 DEF OrderOK
  <2>3. ASSUME Added(PendingOf(j), PendingOf(i), e), j.mode = i.mode, j.live = i.live,
               j.phase = i.phase, j.mark = i.mark, j.initial = i.initial,
               \/ j.phase # "init"
               \/ Added(j.queue, i.queue, e)
        PROVE  OrderOK(r, j, n)
    <3>1. Growing(PendingOf(j)) /\ \A k \in 1..Len(PendingOf(j)) : PendingOf(j)[k].cursor < r.next
      BY <1>2, <1>3, <2>3, AddedInOrder
    <3>2. j.phase = "init" =>
            /\ j.mark < r.next /\ Growing(j.initial)
            /\ \A k \in 1..Len(j.initial) : j.initial[k].cursor \in 1..j.mark
            /\ \A k \in 1..Len(j.queue) : j.queue[k].cursor > j.mark
      <4> SUFFICES ASSUME j.phase = "init"
                   PROVE  \A k \in 1..Len(j.queue) : j.queue[k].cursor > j.mark
        BY <1>6, <2>3
      <4>1. PICK l : l = Len(i.queue)
        OBVIOUS
      <4>2. l \in Nat /\ \A k \in 1..l : i.queue[k].cursor > i.mark
        BY <1>5, <1>6, <2>3, <4>1
      <4>3. Len(j.queue) = l + 1 /\ j.queue[l + 1] = e /\ \A k \in 1..l : j.queue[k] = i.queue[k]
        BY <2>3, <4>1 DEF Added
      <4>4. \A k \in 1..(l + 1) : k \in 1..l \/ k = l + 1
        BY <4>2
      <4>5. e.cursor > i.mark
        BY <1>5, <1>6, <2>3
      <4> QED
        BY <2>3, <4>2, <4>3, <4>4, <4>5
    <3>3. (j.mode = "cursor" /\ j.live) =>
            /\ r.next = n + Len(PendingOf(j)) + 1
            /\ \A k \in 1..Len(PendingOf(j)) : PendingOf(j)[k].cursor = n + k
      <4> SUFFICES ASSUME j.mode = "cursor", j.live
                   PROVE  /\ r.next = n + Len(PendingOf(j)) + 1
                          /\ \A k \in 1..Len(PendingOf(j)) : PendingOf(j)[k].cursor = n + k
        OBVIOUS
      <4>1. PICK l : l = Len(PendingOf(i))
        OBVIOUS
      <4>2. l \in Nat /\ R.next = n + l + 1 /\ \A k \in 1..l : PendingOf(i)[k].cursor = n + k
        BY <1>2, <2>3, <4>1 DEF OrderOK
      <4>3. /\ Len(PendingOf(j)) = l + 1 /\ PendingOf(j)[l + 1] = e
            /\ \A k \in 1..l : PendingOf(j)[k] = PendingOf(i)[k]
        BY <2>3, <4>1 DEF Added
      <4>4. \A k \in 1..(l + 1) : k \in 1..l \/ k = l + 1
        BY <4>2
      <4>5. r.next = n + (l + 1) + 1 /\ e.cursor = n + (l + 1)
        BY <4>2
      <4> QED
        BY <4>2, <4>3, <4>4, <4>5
    <3> QED
      BY <3>1, <3>2, <3>3 DEF OrderOK
  <2>4. CASE i.reading
    <3>1. j = [i EXCEPT !.handed = <<e>>, !.reading = FALSE]
      BY <1>1, <1>9, <2>4 DEF Push
    <3>2. /\ j.handed = <<e>> /\ j.phase = i.phase /\ j.replay = i.replay /\ j.queue = i.queue
          /\ j.mode = i.mode /\ j.live = i.live /\ j.mark = i.mark /\ j.initial = i.initial
      BY <1>2, <3>1 DEF IterType
    <3>3. i.handed = <<>> /\ i.replay = <<>> /\ i.queue = <<>> /\ i.phase # "init"
      BY <2>4 DEF IterOK
    <3>4. PendingOf(i) = <<>> /\ PendingOf(j) = <<e>>
      BY <3>2, <3>3 DEF PendingOf
    <3>5. Added(PendingOf(j), PendingOf(i), e)
      BY <3>4 DEF Added
    <3> QED
      BY <1>1, <2>3, <3>2, <3>3, <3>5
  <2>5. CASE ~i.reading /\ ~(Len(i.queue) + 1 > MaxQueue \/ Bytes(i.queue) + e.size > MaxQueueBytes)
    <3>1. j = [i EXCEPT !.queue = Append(@, e)]
      BY <1>1, <1>9, <2>5 DEF Push
    <3>2. /\ j.handed = i.handed /\ j.phase = i.phase /\ j.replay = i.replay
          /\ j.queue = Append(i.queue, e)
          /\ j.mode = i.mode /\ j.live = i.live /\ j.mark = i.mark /\ j.initial = i.initial
      BY <1>2, <3>1 DEF IterType
    <3>3. Added(j.queue, i.queue, e)
      BY <1>5, <3>2 DEF Added
    <3>4. /\ Joined(PendingOf(i), i.handed, i.replay, i.queue)
          /\ Joined(PendingOf(j), i.handed, i.replay, j.queue)
          /\ Len(i.handed) \in Nat /\ Len(i.replay) \in Nat /\ Len(i.queue) \in Nat
      <4>1. IterOK(j)
        BY <1>1, PushKeeps
      <4> QED
        BY <1>2, <3>2, <4>1, IterSeqs DEF IterOK
    <3>5. Added(PendingOf(j), PendingOf(i), e)
      BY <3>3, <3>4, JoinedAdded
    <3> QED
      BY <1>1, <2>3, <3>2, <3>3, <3>5
  <2> QED
    BY <1>1, <2>2, <2>4, <2>5
<1> QED
  BY <1>1, <1>8, <1>9

\* A filter keeps the order and every bound.
LEMMA FilteredInOrder ==
  ASSUME NEW s \in Seq(EntryType), NEW S \in SUBSET (1..Len(s))
  PROVE  /\ AtPositions(s, S) \in Seq(EntryType) /\ Len(AtPositions(s, S)) <= Len(s)
         /\ Growing(s) => Growing(AtPositions(s, S))
         /\ \A b : (\A k \in 1..Len(s) : s[k].cursor < b)
                     => \A k \in 1..Len(AtPositions(s, S)) : AtPositions(s, S)[k].cursor < b
<1>1. PICK t : t = AtPositions(s, S)
  OBVIOUS
<1>2. /\ t \in Seq(EntryType) /\ Cardinality(S) \in 0..Len(s) /\ Len(t) = Cardinality(S)
      /\ \E f : Lists(f, s, S)
  BY <1>1, AtPositionsLists
<1>3. PICK f : Lists(f, s, S)
  BY <1>2
<1>4. PICK c : c = Len(t)
  OBVIOUS
<1>5. /\ f \in [1..c -> S] /\ \A m, n \in 1..c : m < n => f[m] < f[n]
      /\ \A n \in 1..c : t[n] = s[f[n]]
  BY <1>1, <1>2, <1>3, <1>4 DEF Lists
<1>6. \A n \in 1..c : f[n] \in 1..Len(s)
  BY <1>5, Zenon
<1>7. Len(t) <= Len(s)
  BY <1>2
<1>8. ASSUME Growing(s) PROVE Growing(t)
  <2> SUFFICES ASSUME NEW j \in 1..c, NEW k \in 1..c, j < k, t[j].cursor # 0, t[k].cursor # 0
               PROVE  t[j].cursor < t[k].cursor
    BY <1>4 DEF Growing
  <2>1. f[j] \in 1..Len(s) /\ f[k] \in 1..Len(s) /\ f[j] < f[k] /\ t[j] = s[f[j]] /\ t[k] = s[f[k]]
    BY <1>5, <1>6
  <2> QED
    BY <1>8, <2>1 DEF Growing
<1>9. ASSUME NEW b, \A k \in 1..Len(s) : s[k].cursor < b, NEW k \in 1..c PROVE t[k].cursor < b
  <2>1. f[k] \in 1..Len(s) /\ t[k] = s[f[k]]
    BY <1>5, <1>6
  <2> QED
    BY <1>9, <2>1
<1> QED
  BY <1>1, <1>2, <1>4, <1>7, <1>8, <1>9

\* What the end of a resume without waiting changes.
LEMMA IdleReplayKeeps ==
  ASSUME NEW i, IterOK(i), i.phase = "open"
  PROVE  /\ IterOK(FinishIdleReplay(i)) /\ FinishIdleReplay(i).object = i.object
         /\ \A r, n : OrderOK(r, i, n) => OrderOK(r, FinishIdleReplay(i), n)
<1>1. PICK j : j = FinishIdleReplay(i)
  OBVIOUS
<1>2. CASE i.wait
  BY <1>2 DEF FinishIdleReplay
<1>3. CASE ~i.wait
  <2>1. PICK c : c = CloseLive(i)
    OBVIOUS
  <2>2. IterOK(c) /\ c.object = i.object /\ c.phase = "open"
    BY <2>1, CloseLiveKeeps
  <2>3. \A r, n : OrderOK(r, i, n) => OrderOK(r, c, n)
    BY <2>1, CloseLiveKeeps
  <2>4. j = [c EXCEPT !.closing = TRUE]
    BY <1>1, <1>3, <2>1 DEF FinishIdleReplay
  <2>5. c \in IterType
    BY <2>2 DEF IterOK
  <2>6. /\ j.handed = c.handed /\ j.reading = c.reading /\ j.phase = c.phase /\ j.replay = c.replay
        /\ j.queue = c.queue /\ j.mode = c.mode /\ j.only = c.only /\ j.durable = c.durable
        /\ j.object = c.object /\ j.live = c.live
    BY <2>4, <2>5 DEF IterType
  <2>7. j \in IterType
    BY <2>4, <2>5 DEF IterType
  <2>8. IterOK(j)
    BY <2>2, <2>6, <2>7 DEF IterOK
  <2>9. PendingOf(j) = PendingOf(c)
    BY <2>6 DEF PendingOf
  <2>10. \A r, n : OrderOK(r, c, n) => OrderOK(r, j, n)
    BY <2>2, <2>6, <2>9 DEF OrderOK
  <2> QED
    BY <1>1, <2>2, <2>3, <2>6, <2>8, <2>10
<1> QED
  BY <1>2, <1>3

\* A stream that cannot be resumed has one frame left.
LEMMA ResyncKeeps ==
  ASSUME NEW i, IterOK(i), i.phase = "open", i.handed = <<>>, NEW r, RingOK(r), NEW n
  PROVE  /\ IterOK(FinishWithResync(i, r)) /\ FinishWithResync(i, r).object = i.object
         /\ OrderOK(r, FinishWithResync(i, r), n)
<1>1. PICK j : j = FinishWithResync(i, r)
  OBVIOUS
<1>2. PICK c : c = CloseLive(i)
  OBVIOUS
<1>3. PICK e : e = Made("resync", {}, LatestCursor(r))
  OBVIOUS
<1>4. r.next \in Nat /\ r.next - 1 \in Nat
  <2>1. r.next \in Nat /\ r.dropped \in Nat /\ Len(r.entries) \in Nat
    BY DEF RingOK, RingType
  <2>2. r.next = r.dropped + Len(r.entries) + 1
    BY DEF RingOK
  <2> QED
    BY <2>1, <2>2
<1>5. e \in EntryType /\ e.cursor = r.next - 1
  BY <1>3, <1>4 DEF Made, LatestCursor, EntryType, Group
<1>6. IterOK(c) /\ c.object = i.object /\ c.phase = "open"
  BY <1>2, CloseLiveKeeps
<1>7. c \in IterType
  BY <1>6 DEF IterOK
<1>8. c.handed = <<>> /\ c.live = FALSE /\ c.queue = <<>> /\ c.reading = FALSE
  <2>1. i \in IterType
    BY DEF IterOK
  <2> QED
    BY <1>2, <2>1 DEF CloseLive, IterType
<1>9. j = [c EXCEPT !.replay = <<e>>, !.closing = TRUE]
  BY <1>1, <1>2, <1>3 DEF FinishWithResync
<1>10. /\ j.handed = <<>> /\ j.reading = FALSE /\ j.phase = "open" /\ j.replay = <<e>>
       /\ j.queue = <<>> /\ j.mode = c.mode /\ j.only = c.only /\ j.durable = c.durable
       /\ j.object = i.object /\ j.live = FALSE
  BY <1>6, <1>7, <1>8, <1>9 DEF IterType
<1>11. <<e>> \in Seq(EntryType) /\ Len(<<e>>) = 1 /\ <<e>>[1] = e
  BY <1>5
<1>12. j \in IterType
  BY <1>7, <1>9, <1>11 DEF IterType
<1>13. IterOK(j)
  <2>1. MaxQueue \in Nat /\ Len(<<>>) = 0
    BY StreamAssumption
  <2> QED
    BY <1>6, <1>10, <1>12, <2>1 DEF IterOK
<1>14. PendingOf(j) = <<e>>
  BY <1>10 DEF PendingOf
<1>15. Growing(PendingOf(j))
  BY <1>11, <1>14 DEF Growing
<1>16. \A k \in 1..Len(PendingOf(j)) : PendingOf(j)[k].cursor < r.next
  BY <1>4, <1>5, <1>11, <1>14
<1>17. OrderOK(r, j, n)
  BY <1>10, <1>15, <1>16 DEF OrderOK
<1> QED
  BY <1>1, <1>10, <1>13, <1>17

-----------------------------------------------------------------------------
(* The frames of a durable resume.                                         *)

LEMMA SetToSeqType ==
  ASSUME NEW T \in SUBSET Messages
  PROVE  SetToSeq(T) \in Seq(Messages)
<1>1. IsFiniteSet(T)
  BY FS_Subset, StreamAssumption
<1>2. Cardinality(T) \in Nat /\ ExistsBijection(1..Cardinality(T), T)
  BY <1>1, FS_CardinalityType
<1>3. \E f \in [1..Cardinality(T) -> T] : IsInjective(f)
  BY <1>2 DEF ExistsBijection, Bijection, Injection
<1>4. SetToSeq(T) \in [1..Cardinality(T) -> T]
  BY <1>3 DEF SetToSeq
<1> QED
  BY <1>2, <1>4

LEMMA MergeType ==
  ASSUME NEW s \in Seq(Messages), NEW e \in EntryType
  PROVE  Merge(s, e) \in Seq(Messages)
<1>1. e.msgs \in SUBSET Messages
  BY DEF EntryType
<1>2. CASE e.kind = "rewound"
  <2>1. PICK S : S = {k \in DOMAIN s : s[k] \notin e.msgs}
    OBVIOUS
  <2>2. S \in SUBSET (1..Len(s))
    BY <2>1
  <2>3. AtPositions(s, S) \in Seq(Messages)
    BY <2>2, AtPositionsLists
  <2> QED
    BY <1>2, <2>1, <2>3 DEF Merge
<1>3. CASE e.kind = "committed"
  <2>1. SetToSeq(e.msgs \ Range(s)) \in Seq(Messages)
    BY <1>1, SetToSeqType
  <2>2. s \o SetToSeq(e.msgs \ Range(s)) \in Seq(Messages)
    BY <2>1
  <2> QED
    BY <1>3, <2>2 DEF Merge
<1>4. CASE e.kind \notin {"rewound", "committed"}
  BY <1>4 DEF Merge
<1> QED
  BY <1>2, <1>3, <1>4

LEMMA FoldCatchupType ==
  ASSUME NEW catchup \in Seq(EntryType), NEW durable \in Seq(Messages)
  PROVE  FoldCatchup(catchup, durable) \in Seq(Messages)
<1>1. PICK n : n = Len(catchup)
  OBVIOUS
<1>2. n \in Nat /\ \A k \in 1..n : catchup[k] \in EntryType
  BY <1>1
<1>3. PICK F : F = [k \in 1..n |-> [s \in Seq(Messages) |-> Merge(s, catchup[k])]]
  OBVIOUS
<1>4. \A k \in 1..n : \A s \in Seq(Messages) : F[k][s] = Merge(s, catchup[k])
  BY <1>3
<1>5. F \in [1..n -> [Seq(Messages) -> Seq(Messages)]]
  <2>1. \A k \in 1..n : \A s \in Seq(Messages) : Merge(s, catchup[k]) \in Seq(Messages)
    BY <1>2, MergeType
  <2> QED
    BY <1>3, <2>1
<1>6. PICK g \in [0..n -> Seq(Messages)] :
        g[0] = durable /\ \A k \in 1..n : g[k] = F[k][g[k - 1]]
  <2>1. \E g \in [0..n -> Seq(Messages)] : Steps(g, n, F, durable)
    <3>1. n \in Nat
      BY <1>2
    <3> QED
      BY <1>5, <3>1, StepByStep
  <2> QED
    BY <2>1 DEF Steps
<1>7. \A k \in 1..n : k - 1 \in 0..n /\ k # 0
  BY <1>2
<1>8. g = [k \in 0..n |-> IF k = 0 THEN durable ELSE Merge(g[k - 1], catchup[k])]
  <2>1. \A k \in 0..n : k = 0 \/ k \in 1..n
    BY <1>2
  <2>2. \A k \in 1..n : g[k] = Merge(g[k - 1], catchup[k])
    BY <1>4, <1>6, <1>7
  <2>3. \A k \in 0..n : g[k] = IF k = 0 THEN durable ELSE Merge(g[k - 1], catchup[k])
    BY <1>6, <2>1, <2>2
  <2> QED
    BY <2>3
<1>9. PICK h : h = CHOOSE f : f = [k \in 0..n |-> IF k = 0 THEN durable ELSE Merge(f[k - 1], catchup[k])]
  OBVIOUS
<1>10. h = [k \in 0..n |-> IF k = 0 THEN durable ELSE Merge(h[k - 1], catchup[k])]
  BY <1>8, <1>9
<1>11. FoldCatchup(catchup, durable) = h[n]
  BY <1>1, <1>9 DEF FoldCatchup
<1>12. h[0] = durable /\ \A k \in 1..n : h[k] = Merge(h[k - 1], catchup[k])
  <2>1. 0 \in 0..n /\ \A k \in 1..n : k \in 0..n
    BY <1>2
  <2> QED
    BY <1>7, <1>10, <2>1
<1>13. PICK Bad : Bad = {k \in 0..n : h[k] \notin Seq(Messages)}
  OBVIOUS
<1>14. ASSUME Bad # {} PROVE FALSE
  <2>1. Bad \in SUBSET Nat
    BY <1>2, <1>13
  <2>2. PICK m \in Bad : \A y \in Bad : m <= y
    BY <1>14, <2>1, NatLeast
  <2>3. m \in 0..n /\ h[m] \notin Seq(Messages)
    BY <1>13
  <2>4. m # 0
    BY <1>12, <2>3
  <2>5. m \in 1..n /\ m - 1 \in 0..n /\ ~(m <= m - 1)
    BY <1>2, <2>3, <2>4
  <2>6. m - 1 \notin Bad
    BY <2>2, <2>5
  <2>7. h[m - 1] \in Seq(Messages)
    BY <1>13, <2>5, <2>6
  <2>8. h[m] = Merge(h[m - 1], catchup[m]) /\ catchup[m] \in EntryType
    BY <1>2, <1>12, <2>5
  <2>9. h[m] \in Seq(Messages)
    BY <2>7, <2>8, MergeType
  <2> QED
    BY <2>3, <2>9
<1> QED
  <2>1. n \in 0..n
    BY <1>2
  <2> QED
    BY <1>11, <1>13, <1>14, <2>1

\* Two sequences in one.
Paired(p, a, b) ==
  /\ Len(p) = Len(a) + Len(b)
  /\ \A k \in 1..Len(p) : p[k] = IF k <= Len(a) THEN a[k] ELSE b[k - Len(a)]

LEMMA TwoParts ==
  ASSUME NEW X, NEW a \in Seq(X), NEW b \in Seq(X)
  PROVE  a \o b \in Seq(X) /\ Paired(a \o b, a, b)
<1>1. PICK p : p = a \o b
  OBVIOUS
<1>2. p \in Seq(X) /\ Len(p) = Len(a) + Len(b)
  BY <1>1
<1>3. \A k \in 1..(Len(a) + Len(b)) : p[k] = IF k <= Len(a) THEN a[k] ELSE b[k - Len(a)]
  BY <1>1
<1> QED
  BY <1>1, <1>2, <1>3 DEF Paired

\* The parts of a growing sequence grow when all of the second comes after
\* every frame of the first that has a cursor.
LEMMA PairedInOrder ==
  ASSUME NEW a \in Seq(EntryType), NEW b \in Seq(EntryType), NEW p, Paired(p, a, b),
         Growing(a), Growing(b), NEW bound,
         \A j \in 1..Len(a), k \in 1..Len(b) :
           (a[j].cursor # 0 /\ b[k].cursor # 0) => a[j].cursor < b[k].cursor,
         \A j \in 1..Len(a) : a[j].cursor < bound,
         \A k \in 1..Len(b) : b[k].cursor < bound
  PROVE  Growing(p) /\ \A k \in 1..Len(p) : p[k].cursor < bound
<1>1. PICK x, y : x = Len(a) /\ y = Len(b)
  OBVIOUS
<1>2. x \in Nat /\ y \in Nat
  BY <1>1
<1>3. Len(p) = x + y /\ \A k \in 1..(x + y) : p[k] = IF k <= x THEN a[k] ELSE b[k - x]
  BY <1>1 DEF Paired
<1>4. \A k \in 1..(x + y) : \/ k <= x /\ k \in 1..x /\ p[k] = a[k]
                            \/ ~(k <= x) /\ k - x \in 1..y /\ p[k] = b[k - x]
  <2> SUFFICES ASSUME NEW k \in 1..(x + y)
               PROVE  \/ k <= x /\ k \in 1..x /\ p[k] = a[k]
                      \/ ~(k <= x) /\ k - x \in 1..y /\ p[k] = b[k - x]
    OBVIOUS
  <2>1. p[k] = IF k <= x THEN a[k] ELSE b[k - x]
    BY <1>3
  <2>2. (k <= x /\ k \in 1..x) \/ (~(k <= x) /\ k - x \in 1..y)
    BY <1>2
  <2> QED
    BY <2>1, <2>2
<1>5. \A k \in 1..(x + y) : p[k].cursor < bound
  <2>1. /\ \A k \in 1..x : a[k].cursor < bound
        /\ \A k \in 1..y : b[k].cursor < bound
    BY <1>1
  <2> QED
    BY <1>4, <2>1
<1>6. ASSUME NEW j \in 1..(x + y), NEW k \in 1..(x + y), j < k,
             p[j].cursor # 0, p[k].cursor # 0
      PROVE  p[j].cursor < p[k].cursor
  <2>1. CASE k <= x
    <3>1. j <= x /\ j \in 1..x /\ k \in 1..x
      BY <1>2, <1>6, <2>1
    <3>2. p[j] = a[j] /\ p[k] = a[k]
      BY <1>4, <2>1, <3>1
    <3> QED
      BY <1>1, <1>6, <3>1, <3>2 DEF Growing
  <2>2. CASE j <= x /\ ~(k <= x)
    <3>1. j \in 1..x /\ p[j] = a[j] /\ k - x \in 1..y /\ p[k] = b[k - x]
      BY <1>4, <2>2
    <3> QED
      BY <1>1, <1>6, <3>1
  <2>3. CASE ~(j <= x) /\ ~(k <= x)
    <3>1. j - x \in 1..y /\ p[j] = b[j - x] /\ k - x \in 1..y /\ p[k] = b[k - x]
      BY <1>4, <2>3
    <3>2. j - x < k - x
      BY <1>2, <1>6
    <3> QED
      BY <1>1, <1>6, <3>1, <3>2 DEF Growing
  <2> QED
    BY <1>2, <1>6, <2>1, <2>2, <2>3
<1> QED
  BY <1>3, <1>5, <1>6 DEF Growing

LEMMA StitchInOrder ==
  ASSUME NEW initial \in Seq(EntryType), NEW catchup \in Seq(EntryType),
         NEW durable \in Seq(Messages), NEW bound \in Nat \ {0}
  PROVE  /\ Stitch(initial, catchup, durable) \in Seq(EntryType)
         /\ (/\ Growing(initial \o catchup)
             /\ \A k \in 1..Len(initial \o catchup) : (initial \o catchup)[k].cursor < bound)
            => /\ Growing(Stitch(initial, catchup, durable))
               /\ \A k \in 1..Len(Stitch(initial, catchup, durable)) :
                    Stitch(initial, catchup, durable)[k].cursor < bound
<1>1. PICK captured : captured = initial \o catchup
  OBVIOUS
<1>2. captured \in Seq(EntryType)
  BY <1>1
<1>3. PICK bounds : bounds = {j \in DOMAIN captured : IsDurableBoundary(captured[j])}
  OBVIOUS
<1>4. PICK last : last = IF bounds = {} THEN 0 ELSE Max(bounds)
  OBVIOUS
<1>5. PICK messages : messages = FoldCatchup(catchup, durable)
  OBVIOUS
<1>6. PICK c : c = [j \in 1..Len(messages) |->
                      IF j = Len(messages) /\ last # 0 THEN captured[last].cursor ELSE 0]
  OBVIOUS
<1>7. PICK p : p = [j \in 1..Len(messages) |-> Made("durable", {messages[j]}, c[j])]
  OBVIOUS
<1>8. PICK q : q = From(captured, last)
  OBVIOUS
<1>9. Stitch(initial, catchup, durable) = p \o q
  <2>1. p = [j \in 1..Len(messages) |->
               Made("durable", {messages[j]},
                    IF j = Len(messages) /\ last # 0 THEN captured[last].cursor ELSE 0)]
    BY <1>6, <1>7
  <2>2. q = SubSeq(captured, last + 1, Len(captured))
    BY <1>8 DEF From
  <2> QED
    BY <1>1, <1>3, <1>4, <1>5, <2>1, <2>2, Zenon DEF Stitch
<1>10. messages \in Seq(Messages) /\ Len(messages) \in Nat
  BY <1>5, FoldCatchupType
<1>11. last \in 0..Len(captured) /\ Len(captured) \in Nat
  <2>1. Len(captured) \in Nat /\ bounds \in SUBSET (1..Len(captured))
    BY <1>2, <1>3
  <2>2. bounds \in SUBSET (0..Len(captured))
    BY <2>1
  <2>3. CASE bounds = {}
    BY <1>4, <2>1, <2>3
  <2>4. CASE bounds # {}
    <3>1. Max(bounds) \in bounds
      BY <2>1, <2>2, <2>4, MaxIsGreatest
    <3> QED
      BY <1>4, <2>1, <2>2, <2>4, <3>1
  <2> QED
    BY <2>3, <2>4
<1>12. last # 0 => last \in 1..Len(captured) /\ captured[last].cursor \in Nat
  <2>1. last # 0 => last \in 1..Len(captured)
    BY <1>11
  <2> QED
    BY <1>2, <2>1, EntryCursor
<1>13. \A j \in 1..Len(messages) : c[j] \in Nat /\ (j # Len(messages) => c[j] = 0)
                                   /\ (c[j] # 0 => last # 0 /\ c[j] = captured[last].cursor)
  BY <1>6, <1>12
<1>14. p \in Seq(EntryType) /\ Len(p) = Len(messages) /\ \A j \in 1..Len(messages) : p[j].cursor = c[j]
  <2>1. \A j \in 1..Len(messages) : Made("durable", {messages[j]}, c[j]) \in EntryType
    <3> SUFFICES ASSUME NEW j \in 1..Len(messages)
                 PROVE  Made("durable", {messages[j]}, c[j]) \in EntryType
      OBVIOUS
    <3>1. messages[j] \in Messages /\ c[j] \in Nat
      BY <1>10, <1>13
    <3> QED
      BY <3>1 DEF Made, EntryType, Group
  <2>2. \A j \in 1..Len(messages) : p[j].cursor = c[j]
    BY <1>7 DEF Made
  <2>3. p \in Seq(EntryType) /\ Len(p) = Len(messages)
    <3>1. PICK l : l = Len(messages)
      OBVIOUS
    <3>2. l \in Nat
      BY <1>10, <3>1
    <3>3. p \in [1..l -> EntryType]
      BY <1>7, <2>1, <3>1
    <3> QED
      BY <3>1, <3>2, <3>3, SMTT(30)
  <2> QED
    BY <2>2, <2>3
<1>15. /\ q \in Seq(EntryType) /\ Len(q) = Len(captured) - last
       /\ \A j \in 1..(Len(captured) - last) : q[j] = captured[last + j]
  BY <1>2, <1>8, <1>11, FromFacts
<1>16. p \o q \in Seq(EntryType) /\ Paired(p \o q, p, q)
  BY <1>14, <1>15, TwoParts
<1>17. ASSUME Growing(initial \o catchup),
              \A k \in 1..Len(initial \o catchup) : (initial \o catchup)[k].cursor < bound
       PROVE  Growing(p \o q) /\ \A k \in 1..Len(p \o q) : (p \o q)[k].cursor < bound
  <2>1. Growing(captured) /\ \A k \in 1..Len(captured) : captured[k].cursor < bound
    BY <1>1, <1>17
  <2>2. \A k \in 1..Len(q) : k \in Nat /\ last + k \in 1..Len(captured) /\ q[k] = captured[last + k]
    BY <1>11, <1>15
  <2>3. Growing(q)
    <3> SUFFICES ASSUME NEW j \in 1..Len(q), NEW k \in 1..Len(q), j < k,
                        q[j].cursor # 0, q[k].cursor # 0
                 PROVE  q[j].cursor < q[k].cursor
      BY DEF Growing
    <3>1. last + j < last + k
      BY <1>11, <2>2
    <3> QED
      BY <2>1, <2>2, <3>1 DEF Growing
  <2>4. Growing(p)
    <3> SUFFICES ASSUME NEW j \in 1..Len(p), NEW k \in 1..Len(p), j < k, p[j].cursor # 0
                 PROVE  FALSE
      BY DEF Growing
    <3>1. j # Len(messages)
      BY <1>10, <1>14
    <3> QED
      BY <1>13, <1>14, <3>1
  <2>5. \A j \in 1..Len(p), k \in 1..Len(q) :
          (p[j].cursor # 0 /\ q[k].cursor # 0) => p[j].cursor < q[k].cursor
    <3> SUFFICES ASSUME NEW j \in 1..Len(p), NEW k \in 1..Len(q), p[j].cursor # 0, q[k].cursor # 0
                 PROVE  p[j].cursor < q[k].cursor
      OBVIOUS
    <3>1. last # 0 /\ p[j].cursor = captured[last].cursor
      BY <1>13, <1>14
    <3>2. last \in 1..Len(captured) /\ last < last + k
      BY <1>11, <1>12, <2>2, <3>1
    <3> QED
      BY <2>1, <2>2, <3>1, <3>2 DEF Growing
  <2>6. \A j \in 1..Len(p) : p[j].cursor < bound
    <3> SUFFICES ASSUME NEW j \in 1..Len(p) PROVE p[j].cursor < bound
      OBVIOUS
    <3>1. CASE p[j].cursor = 0
      BY <3>1
    <3>2. CASE p[j].cursor # 0
      BY <1>12, <1>13, <1>14, <2>1, <3>2
    <3> QED
      BY <3>1, <3>2
  <2>7. \A k \in 1..Len(q) : q[k].cursor < bound
    BY <2>1, <2>2
  <2> QED
    <3>1. PICK o : o = p \o q
      OBVIOUS
    <3>2. p \in Seq(EntryType) /\ q \in Seq(EntryType) /\ Paired(o, p, q)
      BY <1>14, <1>15, <1>16, <3>1
    <3>3. Growing(o) /\ \A k \in 1..Len(o) : o[k].cursor < bound
      BY <2>3, <2>4, <2>5, <2>6, <2>7, <3>2, PairedInOrder
    <3> QED
      BY <3>1, <3>3
<1> QED
  BY <1>9, <1>16, <1>17

\* throughFirstTerminal gives a prefix.
LEMMA ThroughTerminal ==
  ASSUME NEW s \in Seq(EntryType)
  PROVE  /\ ThroughFirstTerminal(s) \in Seq(EntryType)
         /\ Len(ThroughFirstTerminal(s)) <= Len(s)
         /\ \A k \in 1..Len(ThroughFirstTerminal(s)) :
              k \in 1..Len(s) /\ ThroughFirstTerminal(s)[k] = s[k]
<1>1. PICK ends : ends = {j \in DOMAIN s : s[j].kind = "terminal"}
  OBVIOUS
<1>2. PICK t : t = ThroughFirstTerminal(s)
  OBVIOUS
<1>3. Len(s) \in Nat /\ ends \in SUBSET (1..Len(s)) /\ ends \in SUBSET Nat
  BY <1>1
<1>4. CASE ends = {}
  <2>1. t = s
    BY <1>1, <1>2, <1>4 DEF ThroughFirstTerminal
  <2> QED
    BY <1>2, <1>3, <2>1
<1>5. CASE ends # {}
  <2>1. PICK m : m = Min(ends)
    OBVIOUS
  <2>2. m \in 1..Len(s)
    BY <1>3, <1>5, <2>1, MinIsLeast
  <2>3. t = SubSeq(s, 1, m)
    BY <1>1, <1>2, <1>5, <2>1 DEF ThroughFirstTerminal
  <2>4. t \in Seq(EntryType) /\ Len(t) = m
    BY <1>3, <2>2, <2>3
  <2>5. \A k \in 1..m : k \in 1..Len(s) /\ t[k] = s[k]
    BY <1>3, <2>2, <2>3
  <2>6. m <= Len(s)
    BY <1>3, <2>2
  <2> QED
    BY <1>2, <2>4, <2>5, <2>6
<1> QED
  BY <1>4, <1>5

\* The intermediate values of FinishDurable.
DurableParts(i, r, opened, catchup, kept, stitched, replay, x) ==
  /\ opened = [i EXCEPT !.phase = "open", !.initial = <<>>, !.durable = <<>>, !.mark = 0]
  /\ catchup = Replayed(r, i.mark)
  /\ kept = AtPositions(i.durable, {k \in DOMAIN i.durable :
                                      i.durable[k] \notin CommittedAfterTerminal(catchup)})
  /\ stitched = Stitch(i.initial, ThroughFirstTerminal(catchup), kept)
  /\ replay = AtPositions(stitched, {k \in DOMAIN stitched : ~OldTerminal(stitched[k], i.mark)})
  /\ x = [FilterLiveAfterReplay(opened, i.initial \o catchup) EXCEPT !.replay = replay]

\* finishDurableReplay over the ring r: a frame is either replayed or still
\* queued, never both.
LEMMA DurableOpens ==
  ASSUME NEW i, IterOK(i), i.phase = "init", i.durable # <<NoMessage>>,
         NEW r, RingOK(r), ReplayStatus(r, i.mark) = "ok", NEW n, NEW attached \in BOOLEAN,
         attached => OrderOK(r, i, n),
         NEW opened, NEW catchup, NEW kept, NEW stitched, NEW replay, NEW x,
         DurableParts(i, r, opened, catchup, kept, stitched, replay, x)
  PROVE  IterOK(x) /\ x.phase = "open" /\ x.object = i.object /\ (attached => OrderOK(r, x, n))
<1> USE DEF DurableParts
<1>1. /\ i \in IterType /\ i.handed = <<>> /\ i.replay = <<>> /\ i.mode = "durable"
      /\ i.reading = FALSE /\ i.queue \in Seq(EntryType) /\ i.initial \in Seq(EntryType)
      /\ i.mark \in Nat /\ i.durable \in Seq(Messages) /\ Len(i.queue) <= MaxQueue
  BY DEF IterOK, IterType
<1>2. /\ catchup \in Seq(EntryType) /\ i.mark < r.next /\ Len(catchup) = r.next - 1 - i.mark
      /\ \A j \in 1..Len(catchup) : catchup[j].cursor = i.mark + j
  BY <1>1, ReplayedAll
<1>3. r.next \in Nat \ {0}
  <2>1. r.next \in Nat
    BY DEF RingOK, RingType
  <2> QED
    BY <1>1, <1>2, <2>1
<1>4. PICK t : t = ThroughFirstTerminal(catchup)
  OBVIOUS
<1>5. t \in Seq(EntryType) /\ \A k \in 1..Len(t) : k \in 1..Len(catchup) /\ t[k] = catchup[k]
  BY <1>2, <1>4, ThroughTerminal
<1>6. kept \in Seq(Messages)
  <2>1. PICK S : S = {k \in DOMAIN i.durable : i.durable[k] \notin CommittedAfterTerminal(catchup)}
    OBVIOUS
  <2>2. S \in SUBSET (1..Len(i.durable))
    BY <1>1, <2>1
  <2>3. AtPositions(i.durable, S) \in Seq(Messages)
    BY <1>1, <2>2, AtPositionsLists
  <2> QED
    BY <2>1, <2>3
<1>7. /\ stitched \in Seq(EntryType)
      /\ (/\ Growing(i.initial \o t)
          /\ \A k \in 1..Len(i.initial \o t) : (i.initial \o t)[k].cursor < r.next)
         => Growing(stitched) /\ \A k \in 1..Len(stitched) : stitched[k].cursor < r.next
  BY <1>1, <1>3, <1>4, <1>5, <1>6, StitchInOrder
<1>8. /\ replay \in Seq(EntryType) /\ (Growing(stitched) => Growing(replay))
      /\ (\A k \in 1..Len(stitched) : stitched[k].cursor < r.next)
           => \A k \in 1..Len(replay) : replay[k].cursor < r.next
  <2>1. PICK S : S = {k \in DOMAIN stitched : ~OldTerminal(stitched[k], i.mark)}
    OBVIOUS
  <2>2. S \in SUBSET (1..Len(stitched)) /\ replay = AtPositions(stitched, S)
    BY <1>7, <2>1
  <2> QED
    BY <1>7, <2>2, FilteredInOrder, ZenonT(60)
<1>9. PICK entries : entries = i.initial \o catchup
  OBVIOUS
<1>10. PICK P : P = {k \in DOMAIN i.queue : \A j \in DOMAIN entries : entries[j].cursor # i.queue[k].cursor}
  OBVIOUS
<1>11. P \in SUBSET (1..Len(i.queue))
  BY <1>1, <1>10
<1>12. AtPositions(i.queue, P) \in Seq(EntryType) /\ Len(AtPositions(i.queue, P)) <= Len(i.queue)
  BY <1>1, <1>11, FilteredInOrder
<1>13. opened \in IterType /\ opened.queue = i.queue
  <2>1. <<>> \in Seq(EntryType) /\ <<>> \in Seq(Group)
    OBVIOUS
  <2> QED
    BY <1>1, <2>1 DEF IterType
<1>a. /\ opened.phase = "open" /\ opened.handed = <<>> /\ opened.reading = FALSE
      /\ opened.mode = "durable" /\ opened.durable = <<>> /\ opened.object = i.object
  BY <1>1 DEF IterType
<1>b. PICK f : f = [opened EXCEPT !.queue = AtPositions(i.queue, P)]
  OBVIOUS
<1>14. x = [f EXCEPT !.replay = replay]
  <2>1. FilterLiveAfterReplay(opened, entries) =
          [opened EXCEPT !.queue = AtPositions(@, {k \in DOMAIN opened.queue :
             \A j \in DOMAIN entries : entries[j].cursor # opened.queue[k].cursor})]
    BY DEF FilterLiveAfterReplay, SetFilter
  <2>2. FilterLiveAfterReplay(opened, entries) = f
    BY <1>10, <1>13, <1>b, <2>1
  <2> QED
    BY <1>9, <2>2
<1>c. /\ f \in IterType /\ f.phase = "open" /\ f.handed = <<>> /\ f.reading = FALSE
      /\ f.queue = AtPositions(i.queue, P)
      /\ f.mode = "durable" /\ f.durable = <<>> /\ f.object = i.object
  <2>1. opened \in IterType /\ AtPositions(i.queue, P) \in Seq(EntryType)
    BY <1>12, <1>13
  <2> QED
    BY <1>a, <1>b, <2>1 DEF IterType
<1>d. replay \in Seq(EntryType)
  BY <1>8
<1>15. /\ x.phase = "open" /\ x.handed = <<>> /\ x.replay = replay /\ x.reading = FALSE
       /\ x.queue = AtPositions(i.queue, P) /\ x.mode = "durable" /\ x.durable = <<>>
       /\ x.object = i.object
  BY <1>14, <1>c DEF IterType
<1>16. x \in IterType
  BY <1>14, <1>c, <1>d DEF IterType
<1>17. IterOK(x)
  <2>1. MaxQueue \in Nat /\ Len(<<>>) = 0 /\ <<>> \in Seq(Messages)
    BY StreamAssumption
  <2>2. Len(x.queue) <= MaxQueue
    <3>1. Len(x.queue) \in Nat /\ Len(i.queue) \in Nat
      BY <1>1, <1>12, <1>15
    <3> QED
      BY <1>1, <1>12, <1>15, <2>1, <3>1
  <2> QED
    BY <1>15, <1>16, <2>1, <2>2 DEF IterOK
<1>18. ASSUME attached PROVE OrderOK(r, x, n)
  <2>1. /\ Growing(i.initial) /\ \A j \in 1..Len(i.initial) : i.initial[j].cursor \in 1..i.mark
        /\ \A j \in 1..Len(i.queue) : i.queue[j].cursor > i.mark
        /\ \A j \in 1..Len(PendingOf(i)) : PendingOf(i)[j].cursor < r.next
    BY <1>18 DEF OrderOK
  <2>2. PendingOf(i) = i.queue
    BY <1>1 DEF PendingOf
  <2>3. \A j \in 1..Len(t) : t[j].cursor = i.mark + j /\ j \in Nat
    BY <1>2, <1>5
  <2>4. Growing(i.initial \o t) /\ \A k \in 1..Len(i.initial \o t) : (i.initial \o t)[k].cursor < r.next
    <3>1. Growing(t)
      BY <1>1, <2>3 DEF Growing
    <3>2. \A j \in 1..Len(i.initial), k \in 1..Len(t) : i.initial[j].cursor < t[k].cursor
      <4> SUFFICES ASSUME NEW j \in 1..Len(i.initial), NEW k \in 1..Len(t)
                   PROVE  i.initial[j].cursor < t[k].cursor
        OBVIOUS
      <4>1. i.initial[j].cursor \in 1..i.mark /\ t[k].cursor = i.mark + k /\ k \in 1..Len(t)
        BY <2>1, <2>3
      <4>2. Len(t) \in Nat
        BY <1>5
      <4> QED
        BY <1>1, <4>1, <4>2
    <3>3. \A j \in 1..Len(i.initial) : i.initial[j].cursor < r.next
      BY <1>1, <1>2, <1>3, <2>1
    <3>4. \A k \in 1..Len(t) : t[k].cursor < r.next
      <4> SUFFICES ASSUME NEW k \in 1..Len(t) PROVE t[k].cursor < r.next
        OBVIOUS
      <4>1. PICK l : l = Len(catchup)
        OBVIOUS
      <4>2. k \in 1..l /\ l = r.next - 1 - i.mark /\ t[k].cursor = i.mark + k
        BY <1>2, <1>5, <2>3, <4>1
      <4> QED
        BY <1>1, <1>3, <4>2
    <3>5. i.initial \o t \in Seq(EntryType) /\ Paired(i.initial \o t, i.initial, t)
      BY <1>1, <1>5, TwoParts
    <3>6. PICK o : o = i.initial \o t
      OBVIOUS
    <3>7. Growing(o) /\ \A k \in 1..Len(o) : o[k].cursor < r.next
      <4>1. i.initial \in Seq(EntryType) /\ t \in Seq(EntryType) /\ Paired(o, i.initial, t)
            /\ Growing(i.initial)
        BY <1>1, <1>5, <2>1, <3>5, <3>6
      <4>2. \A j \in 1..Len(i.initial), k \in 1..Len(t) :
              (i.initial[j].cursor # 0 /\ t[k].cursor # 0) => i.initial[j].cursor < t[k].cursor
        BY <3>2
      <4> QED
        BY <3>1, <3>3, <3>4, <4>1, <4>2, PairedInOrder
    <3> QED
      BY <3>6, <3>7
  <2>5. Growing(replay) /\ \A k \in 1..Len(replay) : replay[k].cursor < r.next
    BY <1>7, <1>8, <2>4
  <2>6. P = {}
    <3> SUFFICES ASSUME NEW k \in P PROVE FALSE
      OBVIOUS
    <3>1. k \in 1..Len(i.queue) /\ i.queue[k].cursor \in Nat
      BY <1>1, <1>11, EntryCursor
    <3>2. PICK c : c = i.queue[k].cursor
      OBVIOUS
    <3>3. c \in Nat /\ c > i.mark /\ c < r.next
      BY <2>1, <2>2, <3>1, <3>2
    <3>4. PICK l, m : l = Len(catchup) /\ m = Len(i.initial)
      OBVIOUS
    <3>5. l \in Nat /\ m \in Nat /\ l = r.next - 1 - i.mark
      BY <1>1, <1>2, <3>4
    <3>6. c - i.mark \in 1..l
      BY <1>1, <1>3, <3>3, <3>5
    <3>7. catchup[c - i.mark].cursor = c
      <4>1. catchup[c - i.mark].cursor = i.mark + (c - i.mark)
        BY <1>2, <3>4, <3>6
      <4> QED
        BY <1>1, <3>3, <4>1
    <3>8. PICK j : j = m + (c - i.mark)
      OBVIOUS
    <3>9. j \in 1..(m + l) /\ ~(j <= m) /\ j - m = c - i.mark
      BY <1>1, <3>3, <3>5, <3>6, <3>8
    <3>10. entries \in Seq(EntryType) /\ Paired(entries, i.initial, catchup)
      BY <1>1, <1>2, <1>9, TwoParts
    <3>11. Len(entries) = m + l /\ \A a \in 1..(m + l) :
             entries[a] = IF a <= m THEN i.initial[a] ELSE catchup[a - m]
      BY <3>4, <3>10 DEF Paired
    <3>12. j \in DOMAIN entries /\ entries[j].cursor = c
      <4>1. DOMAIN entries = 1..(m + l)
        BY <3>10, <3>11
      <4> QED
        BY <3>7, <3>9, <3>11, <4>1
    <3> QED
      BY <1>10, <3>2, <3>12
  <2>7. x.queue = <<>>
    BY <1>15, <2>6, AtNoPosition
  <2>8. PendingOf(x) = replay
    <3>1. x.handed = <<>> /\ x.replay = replay
      BY <1>15
    <3>2. <<>> \o replay \o <<>> = replay
      BY <1>d
    <3> QED
      BY <2>7, <3>1, <3>2 DEF PendingOf
  <2>9. x.phase = "open" /\ x.mode = "durable"
    BY <1>15
  <2> QED
    BY <2>5, <2>8, <2>9, ZenonT(60) DEF OrderOK
<1> QED
  BY <1>15, <1>17, <1>18

-----------------------------------------------------------------------------
(* The reader takes a frame.                                               *)

\* p is q without its first frame e.
Rest(p, q, e) ==
  /\ Len(q) = Len(p) + 1 /\ q[1] = e
  /\ \A k \in 1..Len(p) : p[k] = q[k + 1]

LEMMA TailIsRest ==
  ASSUME NEW X, NEW s \in Seq(X), s # <<>>
  PROVE  Head(s) \in X /\ Tail(s) \in Seq(X) /\ Rest(Tail(s), s, Head(s))
<1>1. Head(s) \in X /\ Tail(s) \in Seq(X) /\ Head(s) = s[1]
  OBVIOUS
<1>2. PICK t, l : t = Tail(s) /\ l = Len(s)
  OBVIOUS
<1>3. l \in Nat /\ l # 0
  BY <1>2
<1>4. Len(t) = l - 1 /\ \A k \in 1..(l - 1) : t[k] = s[k + 1]
  BY <1>2
<1>5. Len(s) = Len(t) + 1
  BY <1>2, <1>3, <1>4
<1> QED
  BY <1>1, <1>2, <1>4, <1>5 DEF Rest

\* The first frame of three sequences is the first of the first that has one.
LEMMA JoinedRest ==
  ASSUME NEW a, NEW b, NEW c, NEW a2, NEW b2, NEW c2, NEW p, NEW p2, NEW e,
         Len(a) \in Nat, Len(b) \in Nat, Len(c) \in Nat,
         Len(a2) \in Nat, Len(b2) \in Nat, Len(c2) \in Nat,
         Joined(p, a, b, c), Joined(p2, a2, b2, c2),
         \/ Rest(a2, a, e) /\ b2 = b /\ c2 = c
         \/ Len(a) = 0 /\ a2 = a /\ Rest(b2, b, e) /\ c2 = c
         \/ Len(a) = 0 /\ Len(b) = 0 /\ a2 = a /\ b2 = b /\ Rest(c2, c, e)
  PROVE  Rest(p2, p, e)
<1>1. PICK x, y, z, x2, y2, z2 : x = Len(a) /\ y = Len(b) /\ z = Len(c)
                                 /\ x2 = Len(a2) /\ y2 = Len(b2) /\ z2 = Len(c2)
  OBVIOUS
<1>2. x \in Nat /\ y \in Nat /\ z \in Nat /\ x2 \in Nat /\ y2 \in Nat /\ z2 \in Nat
  BY <1>1
<1>3. /\ Len(p) = x + y + z
      /\ \A k \in 1..(x + y + z) :
           p[k] = IF k <= x THEN a[k] ELSE IF k <= x + y THEN b[k - x] ELSE c[k - (x + y)]
  BY <1>1 DEF Joined
<1>4. /\ Len(p2) = x2 + y2 + z2
      /\ \A k \in 1..(x2 + y2 + z2) :
           p2[k] = IF k <= x2 THEN a2[k] ELSE IF k <= x2 + y2 THEN b2[k - x2] ELSE c2[k - (x2 + y2)]
  BY <1>1 DEF Joined
<1>5. ASSUME x + y + z = x2 + y2 + z2 + 1, p[1] = e,
             \A k \in 1..(x2 + y2 + z2) : p2[k] = p[k + 1]
      PROVE  Rest(p2, p, e)
  BY <1>3, <1>4, <1>5 DEF Rest
<1>6. CASE Rest(a2, a, e) /\ b2 = b /\ c2 = c
  <2>1. x = x2 + 1 /\ a[1] = e /\ (\A k \in 1..x2 : a2[k] = a[k + 1]) /\ y2 = y /\ z2 = z
    BY <1>1, <1>6 DEF Rest
  <2>2. p[1] = e
    <3>1. 1 \in 1..(x + y + z) /\ 1 <= x
      BY <1>2, <2>1
    <3> QED
      BY <1>3, <2>1, <3>1
  <2>3. ASSUME NEW k \in 1..(x2 + y2 + z2) PROVE p2[k] = p[k + 1]
    <3>1. k + 1 \in 1..(x + y + z) /\ k \in Nat /\ 1 <= k
      BY <1>2, <2>1
    <3>2. CASE k <= x2
      <4>1. k + 1 <= x /\ k \in 1..x2
        BY <1>2, <2>1, <3>1, <3>2
      <4> QED
        BY <1>3, <1>4, <2>1, <3>1, <3>2, <4>1
    <3>3. CASE ~(k <= x2)
      <4>1. /\ ~(k + 1 <= x) /\ (k + 1) - x = k - x2 /\ (k + 1) - (x + y) = k - (x2 + y2)
            /\ (k + 1 <= x + y) <=> (k <= x2 + y2)
        BY <1>2, <2>1, <3>1, <3>3
      <4>2. p[k + 1] = IF k <= x2 + y2 THEN b[k - x2] ELSE c[k - (x2 + y2)]
        BY <1>3, <3>1, <4>1
      <4>3. p2[k] = IF k <= x2 + y2 THEN b[k - x2] ELSE c[k - (x2 + y2)]
        BY <1>4, <1>6, <3>3
      <4> QED
        BY <4>2, <4>3
    <3> QED
      BY <3>2, <3>3
  <2> QED
    BY <1>2, <1>5, <2>1, <2>2, <2>3
<1>7. CASE Len(a) = 0 /\ a2 = a /\ Rest(b2, b, e) /\ c2 = c
  <2>1. x = 0 /\ x2 = 0 /\ y = y2 + 1 /\ b[1] = e /\ (\A k \in 1..y2 : b2[k] = b[k + 1]) /\ z2 = z
    BY <1>1, <1>7 DEF Rest
  <2>2. p[1] = e
    <3>1. 1 \in 1..(x + y + z) /\ ~(1 <= x) /\ 1 <= x + y /\ 1 - x = 1
      BY <1>2, <2>1
    <3> QED
      BY <1>3, <2>1, <3>1
  <2>3. ASSUME NEW k \in 1..(x2 + y2 + z2) PROVE p2[k] = p[k + 1]
    <3>1. /\ k + 1 \in 1..(x + y + z) /\ k \in Nat /\ 1 <= k /\ ~(k <= x2) /\ ~(k + 1 <= x)
          /\ k - x2 = k /\ (k + 1) - x = k + 1 /\ (k + 1) - (x + y) = k - (x2 + y2)
          /\ (k + 1 <= x + y) <=> (k <= x2 + y2)
      BY <1>2, <2>1
    <3>2. p[k + 1] = IF k <= x2 + y2 THEN b[k + 1] ELSE c[k - (x2 + y2)]
      BY <1>3, <3>1
    <3>3. p2[k] = IF k <= x2 + y2 THEN b2[k] ELSE c[k - (x2 + y2)]
      BY <1>4, <1>7, <3>1
    <3>4. k <= x2 + y2 => k \in 1..y2
      BY <1>2, <2>1, <3>1
    <3> QED
      BY <2>1, <3>2, <3>3, <3>4
  <2> QED
    BY <1>2, <1>5, <2>1, <2>2, <2>3
<1>8. CASE Len(a) = 0 /\ Len(b) = 0 /\ a2 = a /\ b2 = b /\ Rest(c2, c, e)
  <2>1. /\ x = 0 /\ x2 = 0 /\ y = 0 /\ y2 = 0 /\ z = z2 + 1 /\ c[1] = e
        /\ \A k \in 1..z2 : c2[k] = c[k + 1]
    BY <1>1, <1>8 DEF Rest
  <2>2. p[1] = e
    <3>1. 1 \in 1..(x + y + z) /\ ~(1 <= x) /\ ~(1 <= x + y) /\ 1 - (x + y) = 1
      BY <1>2, <2>1
    <3> QED
      BY <1>3, <2>1, <3>1
  <2>3. ASSUME NEW k \in 1..(x2 + y2 + z2) PROVE p2[k] = p[k + 1]
    <3>1. /\ k + 1 \in 1..(x + y + z) /\ k \in 1..z2 /\ ~(k <= x2) /\ ~(k + 1 <= x)
          /\ k - (x2 + y2) = k /\ (k + 1) - (x + y) = k + 1
          /\ ~(k + 1 <= x + y) /\ ~(k <= x2 + y2)
      BY <1>2, <2>1
    <3>2. p[k + 1] = c[k + 1]
      BY <1>3, <3>1
    <3>3. p2[k] = c2[k]
      BY <1>4, <3>1
    <3> QED
      BY <2>1, <3>1, <3>2, <3>3
  <2> QED
    BY <1>2, <1>5, <2>1, <2>2, <2>3
<1> QED
  BY <1>6, <1>7, <1>8

\* next() without the frame e it gives, from any of its three sources.
Takes(j, i, e) ==
  \/ i.handed # <<>> /\ e = Head(i.handed) /\ j = [i EXCEPT !.handed = <<>>]
  \/ i.handed = <<>> /\ i.replay # <<>> /\ e = Head(i.replay) /\ j = [i EXCEPT !.replay = Tail(@)]
  \/ i.handed = <<>> /\ i.replay = <<>> /\ i.queue # <<>> /\ e = Head(i.queue)
     /\ j = [i EXCEPT !.queue = Tail(@)]

LEMMA TakenKeeps ==
  ASSUME NEW i, IterOK(i), i.phase = "open", ~i.reading, NEW e, NEW j, Takes(j, i, e)
  PROVE  /\ IterOK(j) /\ e \in EntryType /\ Rest(PendingOf(j), PendingOf(i), e)
         /\ j.phase = "open" /\ j.object = i.object /\ j.mode = i.mode /\ j.live = i.live
<1>1. i \in IterType
  BY DEF IterOK
<1>2. /\ i.handed \in Seq(EntryType) /\ i.replay \in Seq(EntryType) /\ i.queue \in Seq(EntryType)
      /\ Len(i.handed) \in Nat /\ Len(i.replay) \in Nat /\ Len(i.queue) \in Nat
      /\ Joined(PendingOf(i), i.handed, i.replay, i.queue)
  BY <1>1, IterSeqs
<1>3. ASSUME NEW a \in Seq(EntryType), NEW b \in Seq(EntryType), NEW c \in Seq(EntryType),
             j = [i EXCEPT !.handed = a, !.replay = b, !.queue = c], e \in EntryType,
             Len(a) <= 1, Len(c) <= MaxQueue,
             \/ Rest(a, i.handed, e) /\ b = i.replay /\ c = i.queue
             \/ Len(i.handed) = 0 /\ a = i.handed /\ Rest(b, i.replay, e) /\ c = i.queue
             \/ Len(i.handed) = 0 /\ Len(i.replay) = 0 /\ a = i.handed /\ b = i.replay
                /\ Rest(c, i.queue, e)
      PROVE  /\ IterOK(j) /\ e \in EntryType /\ Rest(PendingOf(j), PendingOf(i), e)
             /\ j.phase = "open" /\ j.object = i.object /\ j.mode = i.mode /\ j.live = i.live
  <2>1. j \in IterType
    BY <1>1, <1>3 DEF IterType
  <2>2. /\ j.handed = a /\ j.replay = b /\ j.queue = c /\ j.phase = i.phase /\ j.mode = i.mode
        /\ j.only = i.only /\ j.durable = i.durable /\ j.reading = i.reading /\ j.live = i.live
        /\ j.object = i.object
    BY <1>1, <1>3 DEF IterType
  <2>3. IterOK(j)
    BY <1>3, <2>1, <2>2 DEF IterOK
  <2>4. Joined(PendingOf(j), a, b, c) /\ Len(a) \in Nat /\ Len(b) \in Nat /\ Len(c) \in Nat
    BY <2>1, <2>2, IterSeqs
  <2>5. Rest(PendingOf(j), PendingOf(i), e)
    BY <1>2, <1>3, <2>4, JoinedRest
  <2> QED
    BY <1>3, <2>2, <2>3, <2>5
<1>4. MaxQueue \in Nat /\ Len(i.queue) <= MaxQueue /\ Len(i.handed) <= 1
  BY StreamAssumption DEF IterOK
<1>5. CASE i.handed # <<>> /\ e = Head(i.handed) /\ j = [i EXCEPT !.handed = <<>>]
  <2>1. Len(i.handed) = 1
    <3>1. PICK h, l : h = i.handed /\ l = Len(h)
      OBVIOUS
    <3>2. h \in Seq(EntryType) /\ h # <<>>
      BY <1>2, <1>5, <3>1
    <3>3. l \in Nat /\ l # 0
      BY <3>1, <3>2
    <3>4. l <= 1
      BY <1>4, <3>1
    <3>5. l = 1
      BY <3>3, <3>4
    <3> QED
      BY <3>1, <3>5
  <2>2. e \in EntryType /\ <<>> \in Seq(EntryType) /\ Len(<<>>) = 0 /\ i.handed[1] = e
    BY <1>2, <1>5
  <2>3. Rest(<<>>, i.handed, e)
    BY <2>1, <2>2 DEF Rest
  <2>4. j = [i EXCEPT !.handed = <<>>, !.replay = i.replay, !.queue = i.queue]
    BY <1>1, <1>5 DEF IterType
  <2>5. Len(<<>>) <= 1
    BY <2>2
  <2> QED
    BY <1>2, <1>3, <1>4, <2>2, <2>3, <2>4, <2>5
<1>6. CASE i.handed = <<>> /\ i.replay # <<>> /\ e = Head(i.replay) /\ j = [i EXCEPT !.replay = Tail(@)]
  <2>1. e \in EntryType /\ Tail(i.replay) \in Seq(EntryType) /\ Rest(Tail(i.replay), i.replay, e)
    BY <1>2, <1>6, TailIsRest
  <2>2. j = [i EXCEPT !.handed = i.handed, !.replay = Tail(i.replay), !.queue = i.queue]
    BY <1>1, <1>6 DEF IterType
  <2>3. Len(i.handed) = 0
    BY <1>6
  <2> QED
    BY <1>2, <1>3, <1>4, <2>1, <2>2, <2>3
<1>7. CASE i.handed = <<>> /\ i.replay = <<>> /\ i.queue # <<>> /\ e = Head(i.queue)
           /\ j = [i EXCEPT !.queue = Tail(@)]
  <2>1. e \in EntryType /\ Tail(i.queue) \in Seq(EntryType) /\ Rest(Tail(i.queue), i.queue, e)
    BY <1>2, <1>7, TailIsRest
  <2>2. j = [i EXCEPT !.handed = i.handed, !.replay = i.replay, !.queue = Tail(i.queue)]
    BY <1>1, <1>7 DEF IterType
  <2>3. Len(i.handed) = 0 /\ Len(i.replay) = 0
    BY <1>7
  <2>4. Len(Tail(i.queue)) <= MaxQueue
    <3>1. Len(Tail(i.queue)) \in Nat
      BY <2>1
    <3>2. Len(i.queue) = Len(Tail(i.queue)) + 1
      BY <2>1 DEF Rest
    <3> QED
      BY <1>4, <3>1, <3>2
  <2> QED
    BY <1>2, <1>3, <1>4, <2>1, <2>2, <2>3, <2>4
<1> QED
  BY <1>5, <1>6, <1>7 DEF Takes

LEMMA TakenInOrder ==
  ASSUME NEW i, IterOK(i), i.phase = "open", ~i.reading, NEW e, NEW j, Takes(j, i, e),
         NEW r, NEW n \in Nat, OrderOK(r, i, n), NEW m,
         (e.cursor # 0 /\ i.mode = "cursor" /\ i.live) => m = e.cursor
  PROVE  OrderOK(r, j, m)
<1>1. /\ IterOK(j) /\ e \in EntryType /\ Rest(PendingOf(j), PendingOf(i), e)
      /\ j.phase = "open" /\ j.mode = i.mode /\ j.live = i.live
  BY TakenKeeps
<1>2. PICK p, q, l : p = PendingOf(j) /\ q = PendingOf(i) /\ l = Len(p)
  OBVIOUS
<1>3. l \in Nat
  BY <1>1, <1>2, IterSeqs DEF IterOK
<1>4. Len(q) = l + 1 /\ q[1] = e /\ \A k \in 1..l : p[k] = q[k + 1]
  BY <1>1, <1>2 DEF Rest
<1>5. \A k \in 1..l : k \in Nat /\ k + 1 \in 1..(l + 1)
  BY <1>3
<1>6. Growing(p)
  <2> SUFFICES ASSUME NEW j1 \in 1..l, NEW k1 \in 1..l, j1 < k1, p[j1].cursor # 0, p[k1].cursor # 0
               PROVE  p[j1].cursor < p[k1].cursor
    BY <1>2 DEF Growing
  <2>1. j1 + 1 \in 1..Len(q) /\ k1 + 1 \in 1..Len(q) /\ j1 + 1 < k1 + 1
    BY <1>4, <1>5
  <2>2. Growing(q)
    BY <1>2 DEF OrderOK
  <2> QED
    BY <1>4, <2>1, <2>2 DEF Growing
<1>7. \A k \in 1..l : p[k].cursor < r.next
  BY <1>2, <1>4, <1>5 DEF OrderOK
<1>8. ASSUME i.mode = "cursor", i.live
      PROVE  r.next = m + l + 1 /\ \A k \in 1..l : p[k].cursor = m + k
  <2>1. r.next = n + (l + 1) + 1 /\ \A k \in 1..(l + 1) : q[k].cursor = n + k
    BY <1>2, <1>4, <1>8 DEF OrderOK
  <2>2. 1 \in 1..(l + 1)
    BY <1>3
  <2>3. e.cursor = n + 1
    BY <1>4, <2>1, <2>2
  <2>4. m = n + 1
    BY <1>8, <2>3
  <2>5. \A k \in 1..l : p[k].cursor = n + (k + 1)
    BY <1>4, <1>5, <2>1
  <2> QED
    BY <1>3, <1>5, <2>1, <2>4, <2>5
<1> QED
  BY <1>1, <1>2, <1>6, <1>7, <1>8 DEF OrderOK

-----------------------------------------------------------------------------
(* Steps: the producers.                                                   *)

LEMMA Limits ==
  /\ MaxTurns \in Nat /\ MaxQueue \in Nat /\ MaxObjects \in Nat /\ MaxObjects > 0
  /\ Sizes \subseteq Nat /\ Users \subseteq Messages /\ Assistants \subseteq Messages
BY StreamAssumption

LEMMA StreamStill ==
  ASSUME StreamOK, UNCHANGED <<object, reservation, it, client>>
  PROVE  StreamOK'
BY DEF StreamOK, ObjectsOK, InOrder, Attached, object

LEMMA FrameTyped ==
  ASSUME NEW kind \in {"none", "chunk", "message", "committed", "rewound", "terminal"},
         NEW msgs \in SUBSET Messages, NEW group \in Group, NEW t \in Nat, NEW size \in Nat
  PROVE  Frame(kind, msgs, group, t, size) \in FrameType
BY DEF Frame, FrameType

LEMMA NoFrameTyped == NoFrame \in FrameType
BY FrameTyped DEF NoFrame, Group

LEMMA SaveKeeps ==
  ASSUME IInv, NEW l \in Lanes, NEW m \in Messages, NEW f \in FrameType, status # "idle",
         Save(l, m, f)
  PROVE  IInv'
<1>1. /\ rows' = Append(rows, m) /\ born' = [born EXCEPT ![m] = turn] /\ born[m] = 0
      /\ lane' = [lane EXCEPT ![l] = f]
      /\ UNCHANGED <<object, reservation, it, client>>
      /\ turn' = turn /\ status' = status /\ ended' = ended
  BY DEF Save, turns, history
<1>2. RowsOK /\ TurnsOK /\ StreamOK
  BY DEF IInv
<1>3. turn \in 0..MaxTurns /\ turn # 0 /\ lane \in [Lanes -> FrameType]
  BY <1>2 DEF TurnsOK
<1>4. /\ rows \in Seq(Messages) /\ born \in [Messages -> 0..MaxTurns]
      /\ \A j, k \in 1..Len(rows) : rows[j] = rows[k] => j = k
      /\ \A k \in 1..Len(rows) : born[rows[k]] # 0
  BY <1>2 DEF RowsOK
<1>5. PICK n : n = Len(rows)
  OBVIOUS
<1>6. n \in Nat /\ \A k \in 1..n : rows[k] \in Messages /\ rows[k] # m
  BY <1>1, <1>4, <1>5
<1>7. /\ rows' \in Seq(Messages) /\ Len(rows') = n + 1 /\ rows'[n + 1] = m
      /\ \A k \in 1..n : rows'[k] = rows[k]
  BY <1>1, <1>4, <1>5
<1>8. \A k \in 1..(n + 1) : k \in 1..n \/ k = n + 1
  BY <1>6
<1>9. born' \in [Messages -> 0..MaxTurns]
  BY <1>1, <1>3, <1>4
<1>10. \A j, k \in 1..(n + 1) : rows'[j] = rows'[k] => j = k
  BY <1>4, <1>5, <1>6, <1>7, <1>8
<1>11. \A k \in 1..(n + 1) : born'[rows'[k]] # 0
  <2>1. born'[m] = turn /\ \A o \in Messages : o # m => born'[o] = born[o]
    BY <1>1, <1>4
  <2> QED
    BY <1>3, <1>4, <1>5, <1>6, <1>7, <1>8, <2>1
<1>12. RowsOK'
  BY <1>7, <1>9, <1>10, <1>11 DEF RowsOK
<1>13. TurnsOK'
  <2>1. lane' \in [Lanes -> FrameType]
    BY <1>1, <1>3
  <2> QED
    BY <1>1, <1>2, <2>1 DEF TurnsOK
<1> QED
  BY <1>1, <1>2, <1>12, <1>13, StreamStill DEF IInv

LEMMA SavesKeep ==
  ASSUME IInv, NEW m \in Messages,
         (m \in Assistants /\ SaveAssistant(m)) \/ (m \in Users /\ CommitUser(m))
  PROVE  IInv'
<1>1. turn \in Nat /\ m \in Group /\ {m} \in SUBSET Messages /\ 1 \in Nat
  BY Limits DEF IInv, TurnsOK, Group
<1>2. CASE m \in Assistants /\ SaveAssistant(m)
  <2>1. PICK size \in Sizes : Save("agent", m, Frame("message", {m}, m, turn, size))
    BY <1>2 DEF SaveAssistant
  <2>2. size \in Nat
    BY Limits
  <2>3. Frame("message", {m}, m, turn, size) \in FrameType
    BY <1>1, <2>2, FrameTyped
  <2>4. status # "idle" /\ "agent" \in Lanes
    BY <1>2 DEF SaveAssistant, Lanes
  <2> QED
    BY <2>1, <2>3, <2>4, SaveKeeps
<1>3. CASE m \in Users /\ CommitUser(m)
  <2>1. Save("user", m, Frame("committed", {m}, m, turn, 1)) /\ status # "idle"
    BY <1>3 DEF CommitUser
  <2>2. Frame("committed", {m}, m, turn, 1) \in FrameType /\ "user" \in Lanes
    BY <1>1, FrameTyped DEF Lanes
  <2> QED
    BY <2>1, <2>2, SaveKeeps
<1> QED
  BY <1>2, <1>3

LEMMA RepeatKeeps ==
  ASSUME IInv, NEW m \in Users, RepeatUser(m)
  PROVE  IInv'
<1>1. /\ lane' = [lane EXCEPT !["user"] = Frame("committed", {m}, m, turn, 1)]
      /\ UNCHANGED <<object, reservation, it, client>>
      /\ rows' = rows /\ born' = born /\ turn' = turn /\ status' = status /\ ended' = ended
  BY DEF RepeatUser, turns, history, database
<1>2. RowsOK /\ TurnsOK /\ StreamOK
  BY DEF IInv
<1>3. turn \in Nat /\ m \in Group /\ {m} \in SUBSET Messages /\ 1 \in Nat
  BY <1>2, Limits DEF TurnsOK, Group
<1>4. Frame("committed", {m}, m, turn, 1) \in FrameType
  BY <1>3, FrameTyped
<1>5. lane' \in [Lanes -> FrameType]
  BY <1>1, <1>2, <1>4 DEF TurnsOK
<1>6. TurnsOK' /\ RowsOK'
  BY <1>1, <1>2, <1>5 DEF TurnsOK, RowsOK
<1> QED
  BY <1>1, <1>2, <1>6, StreamStill DEF IInv

LEMMA RecallKeeps ==
  ASSUME IInv, NEW whole \in BOOLEAN, Recall(whole)
  PROVE  IInv'
<1>1. PICK gone : gone = {m \in Stored : born[m] = turn /\ (whole \/ m \in Assistants)}
  OBVIOUS
<1>2. PICK last : last = CHOOSE m \in gone : \A o \in gone : RowOf(o) <= RowOf(m)
  OBVIOUS
<1>3. PICK S : S = {k \in DOMAIN rows : rows[k] \notin gone}
  OBVIOUS
<1>4. /\ gone # {} /\ rows' = AtPositions(rows, S)
      /\ lane' = [lane EXCEPT !["agent"] = Frame("rewound", gone, last, turn, 1)]
      /\ UNCHANGED <<object, reservation, it, client>>
      /\ born' = born /\ turn' = turn /\ status' = status /\ ended' = ended
  BY <1>1, <1>2, <1>3 DEF Recall, turns, history
<1>5. RowsOK /\ TurnsOK /\ StreamOK
  BY DEF IInv
<1>6. /\ rows \in Seq(Messages) /\ born \in [Messages -> 0..MaxTurns]
      /\ \A j, k \in 1..Len(rows) : rows[j] = rows[k] => j = k
      /\ \A k \in 1..Len(rows) : born[rows[k]] # 0
  BY <1>5 DEF RowsOK
<1>7. S \in SUBSET (1..Len(rows)) /\ DOMAIN rows = 1..Len(rows) /\ Len(rows) \in Nat
  BY <1>3, <1>6
<1>8. Stored = {rows[k] : k \in 1..Len(rows)}
  BY <1>7 DEF Stored, Range
<1>9. gone \in SUBSET Messages /\ \A m \in gone : \E k \in 1..Len(rows) : rows[k] = m
  BY <1>1, <1>6, <1>8
<1>10. \A m \in gone : RowOf(m) \in 1..Len(rows)
  <2> SUFFICES ASSUME NEW m \in gone PROVE RowOf(m) \in 1..Len(rows)
    OBVIOUS
  <2>1. \E k \in DOMAIN rows : rows[k] = m
    BY <1>7, <1>9
  <2> QED
    BY <1>7, <2>1 DEF RowOf
<1>11. last \in gone
  <2>1. PICK T : T = {RowOf(m) : m \in gone}
    OBVIOUS
  <2>2. T \in SUBSET (0..Len(rows)) /\ T # {}
    BY <1>4, <1>7, <1>10, <2>1
  <2>3. PICK x \in T : \A y \in T : y <= x
    BY <1>7, <2>2, NatGreatest
  <2>4. \E m \in gone : \A o \in gone : RowOf(o) <= RowOf(m)
    BY <2>1, <2>3
  <2> QED
    BY <1>2, <2>4
<1>12. lane' \in [Lanes -> FrameType]
  <2>1. turn \in Nat /\ last \in Group /\ 1 \in Nat
    BY <1>5, <1>9, <1>11, Limits DEF TurnsOK, Group
  <2>2. Frame("rewound", gone, last, turn, 1) \in FrameType
    BY <1>9, <2>1, FrameTyped
  <2> QED
    BY <1>4, <1>5, <2>2 DEF TurnsOK
<1>13. TurnsOK'
  BY <1>4, <1>5, <1>12 DEF TurnsOK
<1>14. RowsOK'
  <2>1. /\ rows' \in Seq(Messages) /\ Len(rows') = Cardinality(S) /\ \E f : Lists(f, rows, S)
    BY <1>4, <1>6, <1>7, AtPositionsLists
  <2>2. PICK f : Lists(f, rows, S)
    BY <2>1
  <2>3. PICK c : c = Len(rows')
    OBVIOUS
  <2>4. /\ f \in [1..c -> S] /\ \A m, n \in 1..c : m < n => f[m] < f[n]
        /\ \A n \in 1..c : rows'[n] = rows[f[n]]
    BY <1>4, <2>1, <2>2, <2>3 DEF Lists
  <2>5. \A n \in 1..c : f[n] \in 1..Len(rows) /\ n \in Nat /\ f[n] \in Nat
    <3>1. \A n \in 1..c : f[n] \in 1..Len(rows)
      BY <1>7, <2>4, Zenon
    <3>2. c \in Nat
      BY <2>1, <2>3
    <3> QED
      BY <1>7, <3>1, <3>2
  <2>6. \A n \in 1..c : born'[rows'[n]] # 0
    BY <1>4, <1>6, <2>4, <2>5, SMTT(30)
  <2>7. \A m, n \in 1..c : rows'[m] = rows'[n] => m = n
    <3> SUFFICES ASSUME NEW m \in 1..c, NEW n \in 1..c, rows'[m] = rows'[n] PROVE m = n
      OBVIOUS
    <3>1. rows[f[m]] = rows[f[n]] /\ f[m] \in 1..Len(rows) /\ f[n] \in 1..Len(rows)
      BY <2>4, <2>5, Zenon
    <3>2. f[m] = f[n]
      BY <1>6, <3>1, Zenon
    <3>3. ~(m < n) /\ ~(n < m)
      BY <2>4, <2>5, <3>2
    <3> QED
      BY <2>5, <3>3
  <2> QED
    BY <1>4, <1>6, <2>1, <2>3, <2>6, <2>7 DEF RowsOK
<1> QED
  BY <1>4, <1>5, <1>13, <1>14, StreamStill DEF IInv

LEMMA StartsKeep ==
  ASSUME IInv, StartHost \/ StartQueued
  PROVE  IInv'
<1>1. /\ UNCHANGED <<object, reservation, it, client>>
      /\ rows' = rows /\ born' = born /\ ended' = ended /\ lane' = lane
      /\ \/ status = "accepted" /\ status' = "running" /\ turn' = turn
         \/ turn < MaxTurns /\ turn' = turn + 1 /\ status' = "accepted"
  BY DEF StartHost, StartQueued, Activated, history, database
<1>2. RowsOK /\ TurnsOK /\ StreamOK
  BY DEF IInv
<1>3. turn \in 0..MaxTurns /\ lane \in [Lanes -> FrameType] /\ ended \in Nat
      /\ (status # "idle" => turn # 0)
  BY <1>2 DEF TurnsOK
<1>4. turn' \in 0..MaxTurns /\ turn' # 0 /\ status' \in {"idle", "accepted", "running"}
  BY <1>1, <1>3, Limits
<1>5. TurnsOK' /\ RowsOK'
  BY <1>1, <1>2, <1>3, <1>4 DEF TurnsOK, RowsOK
<1> QED
  BY <1>1, <1>2, <1>5, StreamStill DEF IInv


\* The object a write or a reader goes to, and the iterator that is on it.
LEMMA ObjectFacts ==
  ASSUME StreamOK
  PROVE  /\ RingOK(ObjectRing) /\ ObjectRing.next \in Nat /\ ObjectRing.next > 0
         /\ Object \in Nat /\ Object > 0 /\ Object <= MaxObjects /\ Object >= epoch
         /\ it.object = Object => Attached /\ ObjectRing = ring
<1>1. RingOK(ObjectRing)
  BY EmptyRingOK DEF StreamOK, ObjectRing
<1>2. ObjectRing \in RingType /\ ObjectRing.next = ObjectRing.dropped + Len(ObjectRing.entries) + 1
  BY <1>1 DEF RingOK
<1>3. ObjectRing.dropped \in Nat /\ ObjectRing.entries \in Seq(EntryType)
  BY <1>2 DEF RingType
<1>4. ObjectRing.next \in Nat /\ ObjectRing.next > 0
  <2>1. PICK l : l = Len(ObjectRing.entries)
    OBVIOUS
  <2>2. l \in Nat
    BY <1>3, <2>1
  <2> QED
    BY <1>2, <1>3, <2>1, <2>2
<1>5. /\ present \in BOOLEAN /\ epoch \in 0..MaxObjects /\ (present => epoch > 0)
      /\ (~present => epoch < MaxObjects) /\ it.object <= epoch
  BY DEF StreamOK, ObjectsOK
<1>6. it.object \in Nat
  BY DEF StreamOK, IterOK, IterType
<1>7. Object \in Nat /\ Object > 0 /\ Object <= MaxObjects /\ Object >= epoch
  BY <1>5, Limits DEF Object
<1>8. it.object = Object => Attached /\ ObjectRing = ring
  BY <1>5, <1>6 DEF Object, Attached, ObjectRing
<1> QED
  BY <1>1, <1>4, <1>7, <1>8

LEMMA WriteKeeps ==
  ASSUME StreamOK, NEW f \in FrameType, Write(f), UNCHANGED <<reservation, client>>
  PROVE  StreamOK'
<1>1. PICK e : e = [cursor |-> ObjectRing.next, kind |-> f.kind, msgs |-> f.msgs,
                    turn |-> f.turn, size |-> f.size, group |-> NoMessage]
  OBVIOUS
<1>2. /\ present' = TRUE /\ epoch' = Object /\ ring' = Appended(ObjectRing, f)
      /\ it' = IF ring'.next = ObjectRing.next \/ it.object # Object THEN it ELSE Push(it, e)
      /\ reservation' = reservation /\ client' = client
  BY <1>1 DEF Write, Created
<1>3. /\ RingOK(ObjectRing) /\ ObjectRing.next \in Nat /\ ObjectRing.next > 0
      /\ Object \in Nat /\ Object > 0 /\ Object <= MaxObjects /\ Object >= epoch
      /\ it.object = Object => Attached /\ ObjectRing = ring
  BY ObjectFacts
<1>4. RingOK(ring') /\ ring'.next \in {ObjectRing.next, ObjectRing.next + 1}
  BY <1>2, <1>3, AppendedKeeps
<1>5. /\ present \in BOOLEAN /\ epoch \in 0..MaxObjects /\ it.object <= epoch
      /\ reservation \in [owner: {"nobody", "client", "other"}, object: Nat, turn: Nat]
      /\ reservation.owner # "nobody" => reservation.object < MaxObjects
  BY DEF StreamOK, ObjectsOK
<1>6. IterOK(it) /\ client \in ClientType /\ (Attached => OrderOK(ring, it, client.cursor.n))
  BY DEF StreamOK, InOrder
<1>7. it.object \in Nat /\ client.cursor.n \in Nat
  BY <1>6 DEF IterOK, IterType, ClientType
<1>8. e \in EntryType /\ e.cursor = ObjectRing.next
  BY <1>1, <1>3 DEF FrameType, EntryType, Group
<1>9. IterOK(it') /\ it'.object = it.object
  BY <1>2, <1>6, <1>8, PushKeeps
<1>10. ObjectsOK'
  <2>1. epoch' \in 0..MaxObjects /\ epoch' > 0 /\ it'.object <= epoch'
    BY <1>2, <1>3, <1>5, <1>7, <1>9, Limits
  <2> QED
    BY <1>2, <1>5, <2>1 DEF ObjectsOK
<1>11. ASSUME it'.object = epoch' PROVE OrderOK(ring', it', client'.cursor.n)
  <2>1. it.object = Object /\ ObjectRing = ring /\ OrderOK(ring, it, client.cursor.n)
    BY <1>2, <1>3, <1>6, <1>9, <1>11
  <2>2. CASE ring'.next = ObjectRing.next
    BY <1>2, <2>1, <2>2 DEF OrderOK
  <2>3. CASE ring'.next # ObjectRing.next
    <3>1. it' = Push(it, e) /\ ring'.next = ObjectRing.next + 1
      BY <1>2, <1>4, <2>1, <2>3
    <3>2. OrderOK(ring', Push(it, e), client.cursor.n)
      BY <1>3, <1>6, <1>7, <1>8, <2>1, <3>1, PushInOrder
    <3> QED
      BY <1>2, <3>1, <3>2
  <2> QED
    BY <2>2, <2>3
<1>12. InOrder'
  BY <1>11 DEF InOrder, Attached
<1> QED
  BY <1>2, <1>4, <1>6, <1>9, <1>10, <1>12 DEF StreamOK

LEMMA PublishKeeps ==
  ASSUME IInv, NEW l \in Lanes, Publish(l)
  PROVE  IInv'
<1>1. /\ Write(lane[l]) /\ lane' = [lane EXCEPT ![l] = NoFrame]
      /\ rows' = rows /\ born' = born /\ turn' = turn /\ status' = status /\ ended' = ended
      /\ UNCHANGED <<reservation, client>>
  BY DEF Publish, database, turns, history
<1>2. RowsOK /\ TurnsOK /\ StreamOK
  BY DEF IInv
<1>3. lane \in [Lanes -> FrameType]
  BY <1>2 DEF TurnsOK
<1>4. lane[l] \in FrameType /\ lane' \in [Lanes -> FrameType]
  BY <1>1, <1>3, NoFrameTyped
<1>5. TurnsOK' /\ RowsOK'
  BY <1>1, <1>2, <1>4 DEF TurnsOK, RowsOK
<1>6. StreamOK'
  BY <1>1, <1>2, <1>4, WriteKeeps
<1> QED
  BY <1>5, <1>6 DEF IInv

LEMMA ChunkKeeps ==
  ASSUME IInv, NEW m \in Assistants, Chunk(m)
  PROVE  IInv'
<1>1. /\ Write(Frame("chunk", {}, m, turn, 1)) /\ UNCHANGED <<reservation, client>>
      /\ rows' = rows /\ born' = born /\ turn' = turn /\ status' = status /\ ended' = ended
      /\ lane' = lane
  BY DEF Chunk, database, turns, history
<1>2. RowsOK /\ TurnsOK /\ StreamOK
  BY DEF IInv
<1>3. turn \in Nat /\ m \in Group /\ {} \in SUBSET Messages /\ 1 \in Nat
  BY <1>2, Limits DEF TurnsOK, Group
<1>4. Frame("chunk", {}, m, turn, 1) \in FrameType
  BY <1>3, FrameTyped
<1>5. TurnsOK' /\ RowsOK'
  BY <1>1, <1>2 DEF TurnsOK, RowsOK
<1>6. StreamOK'
  BY <1>1, <1>2, <1>4, WriteKeeps
<1> QED
  BY <1>5, <1>6 DEF IInv

LEMMA TerminalKeeps ==
  ASSUME IInv, Terminal
  PROVE  IInv'
<1>1. /\ Write(Frame("terminal", {}, NoMessage, turn, 1)) /\ UNCHANGED <<reservation, client>>
      /\ rows' = rows /\ born' = born /\ turn' = turn /\ status' = "idle"
      /\ ended' = ended + 1 /\ lane' = lane
  BY DEF Terminal, database
<1>2. RowsOK /\ TurnsOK /\ StreamOK
  BY DEF IInv
<1>3. turn \in Nat /\ NoMessage \in Group /\ {} \in SUBSET Messages /\ 1 \in Nat
  BY <1>2, Limits DEF TurnsOK, Group
<1>4. Frame("terminal", {}, NoMessage, turn, 1) \in FrameType
  BY <1>3, FrameTyped
<1>5. TurnsOK' /\ RowsOK'
  BY <1>1, <1>2 DEF TurnsOK, RowsOK
<1>6. StreamOK'
  BY <1>1, <1>2, <1>4, WriteKeeps
<1> QED
  BY <1>5, <1>6 DEF IInv


-----------------------------------------------------------------------------
(* Senders.                                                                *)

ReservationType == [owner: {"nobody", "client", "other"}, object: Nat, turn: Nat]

\* An iterator with nothing to hand out.
LEMMA BlankOK ==
  ASSUME NEW i \in IterType, i.handed = <<>>, i.replay = <<>>, i.queue = <<>>, ~i.reading,
         i.durable = <<>>, i.phase \in {"held", "open"}, i.phase = "held" => i.mode = "send",
         i.mode = "cursor" => i.only = 0
  PROVE  /\ IterOK(i)
         /\ (i.mode # "cursor" \/ ~i.live) => \A r, n : OrderOK(r, i, n)
<1>1. PendingOf(i) = <<>> /\ Len(PendingOf(i)) = 0 /\ Growing(PendingOf(i))
  BY NothingPending
<1>2. MaxQueue \in Nat /\ Len(<<>>) = 0 /\ <<>> \in Seq(Messages)
  BY Limits
<1>3. IterOK(i)
  BY <1>2 DEF IterOK
<1>4. \A k : k \notin 1..Len(PendingOf(i))
  BY <1>1
<1>5. ASSUME i.mode # "cursor" \/ ~i.live, NEW r, NEW n PROVE OrderOK(r, i, n)
  BY <1>1, <1>4, <1>5 DEF OrderOK
<1> QED
  BY <1>3, <1>5

\* The service makes the object or finds it, and the iterator may be a new one.
LEMMA CreatedKeeps ==
  ASSUME StreamOK, Created, ring' = ObjectRing, IterOK(it'), client' \in ClientType,
         reservation' \in ReservationType,
         reservation'.owner # "nobody" => reservation'.object < MaxObjects,
         it'.object <= Object, it'.object = Object => OrderOK(ObjectRing, it', client'.cursor.n)
  PROVE  StreamOK'
<1>1. present' = TRUE /\ epoch' = Object
  BY DEF Created
<1>2. /\ RingOK(ObjectRing) /\ Object \in Nat /\ Object > 0 /\ Object <= MaxObjects
  BY ObjectFacts
<1>3. ObjectsOK'
  <2>1. epoch' \in 0..MaxObjects /\ epoch' > 0 /\ it'.object <= epoch'
    BY <1>1, <1>2, Limits
  <2> QED
    BY <1>1, <2>1 DEF ObjectsOK, ReservationType
<1>4. InOrder'
  BY <1>1 DEF InOrder, Attached
<1> QED
  BY <1>2, <1>3, <1>4 DEF StreamOK

\* The object stays, and the iterator may be a new one.
LEMMA KeptKeeps ==
  ASSUME StreamOK, UNCHANGED object, IterOK(it'), client' \in ClientType,
         reservation' \in ReservationType,
         reservation'.owner # "nobody" => reservation'.object < MaxObjects,
         it'.object <= epoch,
         (present /\ it'.object = epoch) => OrderOK(ring, it', client'.cursor.n)
  PROVE  StreamOK'
<1>1. present' = present /\ epoch' = epoch /\ ring' = ring
  BY DEF object
<1>2. ObjectsOK'
  BY <1>1 DEF StreamOK, ObjectsOK, ReservationType
<1>3. InOrder'
  BY <1>1 DEF InOrder, Attached
<1> QED
  BY <1>1, <1>2, <1>3 DEF StreamOK

\* What every step may use of the state.
LEMMA StreamFacts ==
  ASSUME StreamOK
  PROVE  /\ IterOK(it) /\ it \in IterType /\ it.object \in Nat /\ it.object <= epoch /\ epoch \in Nat
         /\ client \in ClientType /\ client.cursor \in [object: Nat, n: Nat] /\ client.cursor.n \in Nat
         /\ reservation \in ReservationType
         /\ reservation.owner # "nobody" => reservation.object < MaxObjects
         /\ (present /\ it.object = epoch) => OrderOK(ring, it, client.cursor.n)
<1>1. IterOK(it) /\ it \in IterType /\ it.object \in Nat
  BY DEF StreamOK, IterOK, IterType
<1>2. it.object <= epoch /\ epoch \in Nat /\ reservation \in ReservationType
      /\ (reservation.owner # "nobody" => reservation.object < MaxObjects)
  BY Limits DEF StreamOK, ObjectsOK, ReservationType
<1>3. client \in ClientType /\ client.cursor \in [object: Nat, n: Nat]
  BY DEF StreamOK, ClientType
<1>4. client.cursor.n \in Nat
  BY <1>3
<1>5. (present /\ it.object = epoch) => OrderOK(ring, it, client.cursor.n)
  BY DEF StreamOK, InOrder, Attached
<1> QED
  BY <1>1, <1>2, <1>3, <1>4, <1>5

\* Where the iterator starts from, or goes to, when it has no object.
LEMMA OffFacts == IterOK(Off) /\ Off \in IterType /\ Off.object = 0
BY OffOK DEF IterOK, Off

LEMMA ReserveKeeps ==
  ASSUME IInv, NEW owner \in {"client", "other"}, Reserve(owner)
  PROVE  IInv'
<1>1. PICK y : y = [Off EXCEPT !.phase = "held", !.mode = "send", !.object = Object, !.live = TRUE]
  OBVIOUS
<1>2. /\ Object < MaxObjects /\ Created /\ ring' = ObjectRing
      /\ reservation' = [owner |-> owner, object |-> Object, turn |-> 0]
      /\ it' = it \/ it' = y
      /\ rows' = rows /\ born' = born /\ turn' = turn /\ status' = status /\ lane' = lane
      /\ client' = client /\ ended' = ended
  BY <1>1 DEF Reserve, database, turns, history
<1>3. RowsOK /\ TurnsOK /\ StreamOK
  BY DEF IInv
<1>4. RowsOK' /\ TurnsOK'
  BY <1>2, <1>3 DEF RowsOK, TurnsOK
<1>5. /\ Object \in Nat /\ Object >= epoch /\ (it.object = Object => Attached /\ ObjectRing = ring)
  BY <1>3, ObjectFacts
<1>6. reservation' \in ReservationType /\ reservation'.object < MaxObjects
  BY <1>2, <1>5 DEF ReservationType
<1>7. CASE it' = it
  <2>1. it.object <= Object
    BY <1>3, <1>5, StreamFacts
  <2>2. it.object = Object => OrderOK(ObjectRing, it, client.cursor.n)
    BY <1>3, <1>5, StreamFacts DEF Attached
  <2>3. IterOK(it) /\ client \in ClientType
    BY <1>3, StreamFacts
  <2>4. StreamOK'
    BY <1>2, <1>3, <1>6, <1>7, <2>1, <2>2, <2>3, CreatedKeeps
  <2> QED
    BY <1>4, <2>4 DEF IInv
<1>8. CASE it' = y
  <2>1. /\ y.handed = <<>> /\ y.replay = <<>> /\ y.queue = <<>> /\ ~y.reading /\ y.durable = <<>>
        /\ y.phase = "held" /\ y.mode = "send" /\ y.object = Object
    BY <1>1 DEF Off
  <2>2. y \in IterType
    BY <1>1, <1>5, OffFacts DEF IterType
  <2>3. IterOK(y) /\ \A r, n : OrderOK(r, y, n)
    BY <2>1, <2>2, BlankOK
  <2>4. client \in ClientType /\ y.object <= Object
    BY <1>3, <1>5, <2>1, StreamFacts
  <2>5. StreamOK'
    BY <1>2, <1>3, <1>6, <1>8, <2>1, <2>3, <2>4, CreatedKeeps
  <2> QED
    BY <1>4, <2>5 DEF IInv
<1> QED
  BY <1>2, <1>7, <1>8

LEMMA AcceptKeeps ==
  ASSUME IInv, Accept
  PROVE  IInv'
<1>1. /\ reservation.owner # "nobody" /\ turn < MaxTurns /\ turn' = turn + 1
      /\ status' = "accepted" /\ reservation' = [reservation EXCEPT !.turn = turn + 1]
      /\ rows' = rows /\ born' = born /\ lane' = lane /\ ended' = ended /\ UNCHANGED object
  BY DEF Accept, Activated, database, history
<1>2. RowsOK /\ TurnsOK /\ StreamOK
  BY DEF IInv
<1>3. turn \in 0..MaxTurns /\ lane \in [Lanes -> FrameType] /\ ended \in Nat
  BY <1>2 DEF TurnsOK
<1>4. turn' \in 0..MaxTurns /\ turn' # 0 /\ turn + 1 \in Nat /\ turn + 1 \in 0..MaxTurns /\ turn + 1 # 0
  BY <1>1, <1>3, Limits
<1>5. RowsOK' /\ TurnsOK'
  BY <1>1, <1>2, <1>3, <1>4 DEF RowsOK, TurnsOK
<1>6. /\ IterOK(it) /\ it \in IterType /\ it.object <= epoch
      /\ client \in ClientType /\ reservation \in ReservationType
      /\ reservation.object < MaxObjects
      /\ (present /\ it.object = epoch) => OrderOK(ring, it, client.cursor.n)
  BY <1>1, <1>2, StreamFacts
<1>7. reservation' \in ReservationType /\ reservation'.object < MaxObjects
  BY <1>1, <1>4, <1>6 DEF ReservationType
<1>8. CASE it' = it /\ client' = client
  <2>1. StreamOK'
    BY <1>1, <1>2, <1>6, <1>7, <1>8, KeptKeeps
  <2> QED
    BY <1>5, <2>1 DEF IInv
<1>9. CASE ~(it' = it /\ client' = client)
  <2>1. PICK S : S = {k \in DOMAIN it.queue : it.queue[k].turn = turn + 1}
    OBVIOUS
  <2>2. PICK q : q = AtPositions(it.queue, S)
    OBVIOUS
  <2>3. /\ it.phase = "held" /\ it' = [SetFilter(it, S) EXCEPT !.phase = "open", !.only = turn + 1]
        /\ client' = [known |-> {}, cursor |-> NoCursor, anchor |-> NoMessage,
                      complete |-> {turn + 1}, stale |-> FALSE]
    BY <1>9, <2>1 DEF Accept
  <2>4. PICK y : y = it'
    OBVIOUS
  <2>5. it.queue \in Seq(EntryType) /\ it.queue \in Seq(EntryType)
    BY <1>6 DEF IterType
  <2>6. S \in SUBSET (1..Len(it.queue))
    BY <2>1, <2>5
  <2>7. /\ q \in Seq(EntryType) /\ Len(q) <= Len(it.queue)
        /\ Growing(it.queue) => Growing(q)
        /\ \A b : (\A k \in 1..Len(it.queue) : it.queue[k].cursor < b)
                     => \A k \in 1..Len(q) : q[k].cursor < b
    BY <2>2, <2>5, <2>6, FilteredInOrder
  <2>8. /\ it.handed = <<>> /\ it.replay = <<>> /\ ~it.reading /\ it.mode = "send"
        /\ Len(it.queue) <= MaxQueue
        /\ it.durable = <<NoMessage>> \/ it.durable \in Seq(Messages)
    BY <1>6, <2>3 DEF IterOK
  <2>9. PICK z : z = SetFilter(it, S)
    OBVIOUS
  <2>10. z = [it EXCEPT !.queue = q] /\ y = [z EXCEPT !.phase = "open", !.only = turn + 1]
    BY <2>2, <2>3, <2>4, <2>9 DEF SetFilter
  <2>11. /\ z \in IterType /\ z.handed = <<>> /\ z.replay = <<>> /\ z.queue = q /\ ~z.reading
         /\ z.mode = "send" /\ z.durable = it.durable /\ z.object = it.object
    BY <1>6, <2>7, <2>8, <2>10 DEF IterType
  <2>12. /\ y \in IterType /\ y.handed = <<>> /\ y.replay = <<>> /\ y.queue = q /\ ~y.reading
         /\ y.mode = "send" /\ y.durable = it.durable /\ y.object = it.object /\ y.phase = "open"
    BY <1>4, <2>10, <2>11 DEF IterType
  <2>13. Len(q) <= MaxQueue /\ Len(<<>>) <= 1
    <3>1. Len(q) \in Nat /\ Len(it.queue) \in Nat
      BY <2>5, <2>7
    <3> QED
      BY <2>7, <2>8, <3>1, Limits
  <2>14. IterOK(y)
    BY <2>8, <2>12, <2>13 DEF IterOK
  <2>15. ASSUME OrderOK(ring, it, client.cursor.n) PROVE \A n : OrderOK(ring, y, n)
    <3>1. PendingOf(it) = it.queue /\ PendingOf(y) = q
      BY <2>5, <2>7, <2>8, <2>12 DEF PendingOf
    <3>2. Growing(it.queue) /\ \A k \in 1..Len(it.queue) : it.queue[k].cursor < ring.next
      BY <2>15, <3>1 DEF OrderOK
    <3>3. Growing(q) /\ \A k \in 1..Len(q) : q[k].cursor < ring.next
      BY <2>7, <3>2
    <3> QED
      BY <2>12, <3>1, <3>3 DEF OrderOK
  <2>16. client' \in ClientType
    BY <1>4, <2>3 DEF ClientType, NoCursor, Group
  <2>17. StreamOK'
    BY <1>1, <1>2, <1>6, <1>7, <2>4, <2>12, <2>14, <2>15, <2>16, KeptKeeps
  <2> QED
    BY <1>5, <2>17 DEF IInv
<1> QED
  BY <1>8, <1>9

LEMMA NoReservationOK == NoReservation \in ReservationType /\ NoReservation.owner = "nobody"
BY DEF NoReservation, ReservationType

LEMMA RefuseKeeps ==
  ASSUME IInv, Refuse
  PROVE  IInv'
<1>1. /\ reservation.owner # "nobody" /\ reservation' = NoReservation
      /\ present' = (present /\ ~(reservation.object = epoch /\ ring.next = 1))
      /\ it' = Off \/ it' = it
      /\ epoch' = epoch /\ ring' = ring /\ client' = client
      /\ rows' = rows /\ born' = born /\ lane' = lane /\ ended' = ended
      /\ turn' = turn /\ status' = status
  BY DEF Refuse, database, history, turns
<1>2. RowsOK /\ TurnsOK /\ StreamOK
  BY DEF IInv
<1>3. RowsOK' /\ TurnsOK'
  BY <1>1, <1>2 DEF RowsOK, TurnsOK
<1>4. /\ IterOK(it) /\ it.object \in Nat /\ it.object <= epoch /\ epoch \in Nat
      /\ client \in ClientType /\ reservation.object < MaxObjects
      /\ (present /\ it.object = epoch) => OrderOK(ring, it, client.cursor.n)
  BY <1>1, <1>2, StreamFacts
<1>5. /\ RingOK(ring) /\ present \in BOOLEAN /\ epoch \in 0..MaxObjects
      /\ (present => epoch > 0) /\ (~present => epoch < MaxObjects)
  BY <1>2 DEF StreamOK, ObjectsOK
<1>6. IterOK(it') /\ it'.object <= epoch
  BY <1>1, <1>4, OffFacts
<1>7. present' \in BOOLEAN /\ (present' => present) /\ (~present' => epoch < MaxObjects)
  BY <1>1, <1>4, <1>5
<1>8. ObjectsOK'
  BY <1>1, <1>5, <1>6, <1>7, NoReservationOK DEF ObjectsOK, ReservationType
<1>9. InOrder'
  BY <1>1, <1>4, <1>7, OffOK DEF InOrder, Attached
<1>10. StreamOK'
  BY <1>1, <1>4, <1>5, <1>6, <1>8, <1>9 DEF StreamOK
<1> QED
  BY <1>3, <1>10 DEF IInv

LEMMA CompleteKeeps ==
  ASSUME IInv, Complete
  PROVE  IInv'
<1>1. /\ reservation' = NoReservation /\ UNCHANGED object /\ client' = client
      /\ it' = IF it.mode = "send" THEN [it EXCEPT !.live = FALSE, !.reading = FALSE] ELSE it
      /\ rows' = rows /\ born' = born /\ lane' = lane /\ ended' = ended
      /\ turn' = turn /\ status' = status
  BY DEF Complete, database, history, turns
<1>2. RowsOK /\ TurnsOK /\ StreamOK
  BY DEF IInv
<1>3. RowsOK' /\ TurnsOK'
  BY <1>1, <1>2 DEF RowsOK, TurnsOK
<1>4. /\ IterOK(it) /\ it \in IterType /\ it.object <= epoch /\ client \in ClientType
      /\ (present /\ it.object = epoch) => OrderOK(ring, it, client.cursor.n)
  BY <1>2, StreamFacts
<1>5. CASE it' = it
  <2>1. StreamOK'
    BY <1>1, <1>2, <1>4, <1>5, NoReservationOK, KeptKeeps
  <2> QED
    BY <1>3, <2>1 DEF IInv
<1>6. CASE it' # it
  <2>1. PICK y : y = it'
    OBVIOUS
  <2>2. it.mode = "send" /\ y = [it EXCEPT !.live = FALSE, !.reading = FALSE]
    BY <1>1, <1>6, <2>1
  <2>3. it.phase # "off"
    BY <1>4, <2>2 DEF IterOK, Off
  <2>4. /\ y \in IterType /\ y.handed = it.handed /\ y.replay = it.replay /\ y.queue = it.queue
        /\ ~y.reading /\ ~y.live /\ y.phase = it.phase /\ y.mode = it.mode /\ y.only = it.only
        /\ y.durable = it.durable /\ y.object = it.object /\ y.mark = it.mark
        /\ y.initial = it.initial
    BY <1>4, <2>2 DEF IterType
  <2>5. IterOK(y)
    BY <1>4, <2>3, <2>4 DEF IterOK
  <2>6. OrderOK(ring, it, client.cursor.n) => OrderOK(ring, y, client.cursor.n)
    <3>1. PendingOf(y) = PendingOf(it)
      BY <2>4 DEF PendingOf
    <3> QED
      BY <2>4, <3>1 DEF OrderOK
  <2>7. StreamOK'
    BY <1>1, <1>2, <1>4, <2>1, <2>4, <2>5, <2>6, NoReservationOK, KeptKeeps
  <2> QED
    BY <1>3, <2>7 DEF IInv
<1> QED
  BY <1>5, <1>6


-----------------------------------------------------------------------------
(* Readers.                                                                *)

\* The iterator resume makes, before it has looked for frames.
Fresh(wait) ==
  [Off EXCEPT !.phase = "open", !.object = Object, !.live = TRUE, !.wait = wait, !.since = ended]

LEMMA FreshFacts ==
  ASSUME StreamOK, ended \in Nat, NEW wait \in BOOLEAN, NEW mode \in {"live", "cursor"},
         NEW i, i = [Fresh(wait) EXCEPT !.mode = mode]
  PROVE  /\ i \in IterType /\ IterOK(i) /\ i.handed = <<>> /\ i.replay = <<>> /\ i.queue = <<>>
         /\ ~i.reading /\ i.live /\ i.phase = "open" /\ i.mode = mode /\ i.object = Object
         /\ i.only = 0 /\ i.durable = <<>> /\ i.initial = <<>>
         /\ mode = "live" => (i = Fresh(wait) /\ \A r, n : OrderOK(r, i, n))
<1>1. Object \in Nat
  BY ObjectFacts
<1>2. i = [phase |-> "open", mode |-> mode, object |-> Object, only |-> 0,
           replay |-> <<>>, queue |-> <<>>, handed |-> <<>>, reading |-> FALSE,
           live |-> TRUE, failed |-> FALSE, closing |-> FALSE, wait |-> wait,
           initial |-> <<>>, durable |-> <<>>, mark |-> 0, since |-> ended]
  BY DEF Fresh, Off
<1>3. i \in IterType
  <2>1. PICK f : f = Fresh(wait)
    OBVIOUS
  <2>2. f \in IterType
    BY <1>1, <2>1, OffFacts DEF Fresh, IterType
  <2>3. i = [f EXCEPT !.mode = mode]
    BY <2>1
  <2> QED
    BY <2>2, <2>3 DEF IterType
<1>4. /\ i.handed = <<>> /\ i.replay = <<>> /\ i.queue = <<>> /\ ~i.reading /\ i.live
      /\ i.phase = "open" /\ i.mode = mode /\ i.object = Object /\ i.only = 0
      /\ i.durable = <<>> /\ i.initial = <<>>
  BY <1>2
<1>5. IterOK(i) /\ (mode = "live" => \A r, n : OrderOK(r, i, n))
  BY <1>3, <1>4, BlankOK
<1>6. ASSUME mode = "live" PROVE i = Fresh(wait)
  <2>1. PICK f : f = Fresh(wait)
    OBVIOUS
  <2>2. f \in IterType /\ f.mode = "live"
    BY <1>1, <2>1, OffFacts DEF Fresh, IterType, Off
  <2>3. [f EXCEPT !.mode = "live"] = f
    BY <2>2 DEF IterType
  <2> QED
    BY <1>6, <2>1, <2>3
<1> QED
  BY <1>3, <1>4, <1>5, <1>6

\* An iterator that has only frames to replay.
LEMMA ReplayOnly ==
  ASSUME NEW x \in IterType, x.handed = <<>>, x.queue = <<>>, ~x.reading, x.only = 0,
         x.phase = "open", x.durable = <<>>
  PROVE  IterOK(x) /\ PendingOf(x) = x.replay
<1>1. MaxQueue \in Nat /\ Len(<<>>) = 0 /\ <<>> \in Seq(Messages)
  BY Limits
<1>2. IterOK(x)
  BY <1>1 DEF IterOK
<1>3. PICK s : s = x.replay
  OBVIOUS
<1>4. s \in Seq(EntryType)
  BY <1>3 DEF IterType
<1>5. <<>> \o s \o <<>> = s
  BY <1>4
<1>6. PendingOf(x) = s
  BY <1>3, <1>5 DEF PendingOf
<1> QED
  BY <1>2, <1>3, <1>6

\* resume with a cursor the ring can serve.
LEMMA CursorOpens ==
  ASSUME StreamOK, ended \in Nat, NEW wait \in BOOLEAN, NEW n \in Nat,
         NEW entries, entries = Replayed(ObjectRing, n), ReplayStatus(ObjectRing, n) = "ok",
         NEW x, x = [FilterLiveAfterReplay(Fresh(wait), entries)
                       EXCEPT !.mode = "cursor", !.replay = entries]
  PROVE  IterOK(x) /\ x.phase = "open" /\ x.object = Object /\ OrderOK(ObjectRing, x, n)
<1>1. PICK f : f = Fresh(wait)
  OBVIOUS
<1>2. PICK i : i = [Fresh(wait) EXCEPT !.mode = "live"]
  OBVIOUS
<1>3. /\ f \in IterType /\ f.handed = <<>> /\ f.queue = <<>> /\ ~f.reading /\ f.live
      /\ f.phase = "open" /\ f.object = Object /\ f.only = 0 /\ f.durable = <<>>
  BY <1>1, <1>2, FreshFacts
<1>4. PICK S : S = {k \in DOMAIN f.queue :
                      \A j \in DOMAIN entries : entries[j].cursor # f.queue[k].cursor}
  OBVIOUS
<1>5. S = {} /\ AtPositions(f.queue, S) = <<>>
  BY <1>3, <1>4, AtNoPosition
<1>6. FilterLiveAfterReplay(f, entries) = [f EXCEPT !.queue = <<>>]
  BY <1>4, <1>5 DEF FilterLiveAfterReplay, SetFilter
<1>7. [f EXCEPT !.queue = <<>>] = f
  BY <1>3 DEF IterType
<1>8. x = [f EXCEPT !.mode = "cursor", !.replay = entries]
  BY <1>1, <1>6, <1>7
<1>9. RingOK(ObjectRing) /\ ObjectRing.next \in Nat
  BY ObjectFacts
<1>10. /\ entries \in Seq(EntryType) /\ n < ObjectRing.next
       /\ Len(entries) = ObjectRing.next - 1 - n
       /\ \A j \in 1..Len(entries) : entries[j].cursor = n + j
  BY <1>9, ReplayedAll
<1>11. /\ x \in IterType /\ x.handed = <<>> /\ x.queue = <<>> /\ ~x.reading /\ x.live
       /\ x.phase = "open" /\ x.object = Object /\ x.only = 0 /\ x.durable = <<>>
       /\ x.mode = "cursor" /\ x.replay = entries
  BY <1>3, <1>8, <1>10 DEF IterType
<1>12. IterOK(x)
  BY <1>11, ReplayOnly
<1>13. PendingOf(x) = entries
  BY <1>11, ReplayOnly
<1>14. PICK l : l = Len(entries)
  OBVIOUS
<1>15. l \in Nat /\ ObjectRing.next = n + l + 1 /\ \A j \in 1..l : entries[j].cursor = n + j
  BY <1>9, <1>10, <1>14
<1>16. Growing(entries)
  BY <1>14, <1>15 DEF Growing
<1>17. \A j \in 1..l : entries[j].cursor < ObjectRing.next
  BY <1>9, <1>15
<1>18. OrderOK(ObjectRing, x, n)
  BY <1>11, <1>13, <1>14, <1>15, <1>16, <1>17 DEF OrderOK
<1> QED
  BY <1>11, <1>12, <1>18

\* resume with a message: the snapshot of the ring up to the first await.
LEMMA SnapshotKeeps ==
  ASSUME StreamOK, ended \in Nat, NEW wait \in BOOLEAN, NEW n, NEW durable,
         durable = <<NoMessage>> \/ durable \in Seq(Messages),
         NEW y, y = [Fresh(wait) EXCEPT !.phase = "init", !.mode = "durable",
                       !.initial = ObjectRing.entries, !.mark = LatestCursor(ObjectRing),
                       !.durable = durable]
  PROVE  IterOK(y) /\ y.object = Object /\ OrderOK(ObjectRing, y, n)
<1>1. PICK r : r = ObjectRing
  OBVIOUS
<1>2. RingOK(r) /\ r.next \in Nat /\ r.next > 0
  BY <1>1, ObjectFacts
<1>3. /\ r.entries \in Seq(EntryType) /\ r.dropped \in Nat
      /\ r.next = r.dropped + Len(r.entries) + 1
      /\ \A k \in 1..Len(r.entries) : r.entries[k].cursor = r.dropped + k
  BY <1>2 DEF RingOK, RingType
<1>4. PICK l : l = Len(r.entries)
  OBVIOUS
<1>5. l \in Nat /\ r.next = r.dropped + l + 1 /\ \A k \in 1..l : r.entries[k].cursor = r.dropped + k
  BY <1>3, <1>4
<1>6. PICK k : k = LatestCursor(r)
  OBVIOUS
<1>7. k \in Nat /\ k < r.next /\ k = r.dropped + l
  BY <1>2, <1>3, <1>5, <1>6 DEF LatestCursor
<1>8. PICK f : f = Fresh(wait)
  OBVIOUS
<1>9. PICK i : i = [Fresh(wait) EXCEPT !.mode = "live"]
  OBVIOUS
<1>10. /\ f \in IterType /\ f.handed = <<>> /\ f.replay = <<>> /\ f.queue = <<>> /\ ~f.reading
       /\ f.live /\ f.object = Object /\ f.only = 0
  BY <1>8, <1>9, FreshFacts
<1>11. durable \in Seq(Group)
  <2>1. NoMessage \in Group /\ Messages \subseteq Group
    BY DEF Group
  <2>2. <<NoMessage>> \in Seq(Group)
    BY <2>1
  <2>3. \A s \in Seq(Messages) : s \in Seq(Group)
    BY <2>1
  <2> QED
    BY <2>2, <2>3, Zenon
<1>12. y = [f EXCEPT !.phase = "init", !.mode = "durable", !.initial = r.entries, !.mark = k,
                     !.durable = durable]
  BY <1>1, <1>6, <1>8
<1>13. /\ y \in IterType /\ y.handed = <<>> /\ y.replay = <<>> /\ y.queue = <<>> /\ ~y.reading
       /\ y.object = Object /\ y.phase = "init" /\ y.mode = "durable"
       /\ y.initial = r.entries /\ y.mark = k /\ y.durable = durable
  <2>1. PICK g : g = [f EXCEPT !.phase = "init", !.mode = "durable"]
    OBVIOUS
  <2>2. /\ g \in IterType /\ g.handed = <<>> /\ g.replay = <<>> /\ g.queue = <<>> /\ ~g.reading
        /\ g.object = Object /\ g.phase = "init" /\ g.mode = "durable"
    BY <1>10, <2>1 DEF IterType
  <2>3. PICK s : s = r.entries
    OBVIOUS
  <2>4. s \in Seq(EntryType)
    BY <1>3, <2>3
  <2>5. y = [g EXCEPT !.initial = s, !.mark = k, !.durable = durable]
    BY <1>12, <2>1, <2>3
  <2>6. y \in IterType
    BY <1>7, <1>11, <2>2, <2>4, <2>5, ZenonT(60) DEF IterType
  <2>7. /\ y.handed = <<>> /\ y.replay = <<>> /\ y.queue = <<>> /\ ~y.reading
        /\ y.object = Object /\ y.phase = "init" /\ y.mode = "durable"
        /\ y.initial = s /\ y.mark = k /\ y.durable = durable
    BY <2>2, <2>5 DEF IterType
  <2> QED
    BY <2>3, <2>6, <2>7
<1>14. MaxQueue \in Nat /\ Len(<<>>) = 0
  BY Limits
<1>15. IterOK(y)
  BY <1>13, <1>14 DEF IterOK
<1>16. PendingOf(y) = <<>> /\ Len(PendingOf(y)) = 0 /\ Growing(PendingOf(y))
  BY <1>13, NothingPending
<1>17. Growing(r.entries)
  BY <1>3, <1>4, <1>5 DEF Growing
<1>18. \A j \in 1..l : r.entries[j].cursor \in 1..k
  <2>1. PICK d : d = r.dropped
    OBVIOUS
  <2>2. d \in Nat /\ k = d + l
    BY <1>3, <1>7, <2>1
  <2>3. \A j \in 1..l : d + j \in 1..k
    BY <1>5, <2>2
  <2> QED
    BY <1>5, <2>1, <2>3
<1>19. \A j : j \notin 1..Len(PendingOf(y)) /\ j \notin 1..Len(y.queue)
  BY <1>13, <1>14, <1>16
<1>20. OrderOK(r, y, n)
  BY <1>4, <1>7, <1>13, <1>16, <1>17, <1>18, <1>19 DEF OrderOK
<1> QED
  BY <1>1, <1>13, <1>15, <1>20

LEMMA ResumeKeeps ==
  ASSUME IInv, NEW wait \in BOOLEAN, Resume(wait)
  PROVE  IInv'
<1>1. PICK f : f = Fresh(wait)
  OBVIOUS
<1>2. PICK c : c = client.cursor
  OBVIOUS
<1>3. PICK entries : entries = Replayed(ObjectRing, c.n)
  OBVIOUS
<1>4. PICK durable : durable = IF client.anchor \in Stored THEN RowsAfter(client.anchor) ELSE <<NoMessage>>
  OBVIOUS
<1>5. /\ Created /\ ring' = ObjectRing
      /\ rows' = rows /\ born' = born /\ lane' = lane /\ ended' = ended
      /\ turn' = turn /\ status' = status /\ reservation' = reservation
  BY DEF Resume, database, history, turns
<1>6. \/ it' = FinishIdleReplay(f) /\ client' = [client EXCEPT !.complete = {}, !.known = {}]
      \/ it' = FinishWithResync([f EXCEPT !.mode = "cursor"], ObjectRing) /\ client' = client
      \/ /\ ReplayStatus(ObjectRing, c.n) = "ok" /\ client' = client
         /\ it' = FinishIdleReplay([FilterLiveAfterReplay(f, entries)
                                      EXCEPT !.mode = "cursor", !.replay = entries])
      \/ /\ client' = client
         /\ it' = [f EXCEPT !.phase = "init", !.mode = "durable",
                     !.initial = ObjectRing.entries, !.mark = LatestCursor(ObjectRing),
                     !.durable = durable]
  BY <1>1, <1>2, <1>3, <1>4 DEF Resume, Fresh
<1>7. RowsOK /\ TurnsOK /\ StreamOK
  BY DEF IInv
<1>8. RowsOK' /\ TurnsOK'
  BY <1>5, <1>7 DEF RowsOK, TurnsOK
<1>9. /\ client \in ClientType /\ c.n \in Nat /\ reservation \in ReservationType
      /\ reservation.owner # "nobody" => reservation.object < MaxObjects
  BY <1>2, <1>7, StreamFacts
<1>10. RingOK(ObjectRing) /\ Object \in Nat
  BY <1>7, ObjectFacts
<1>11. ended \in Nat
  BY <1>7 DEF TurnsOK
<1>12. IterOK(it') /\ it'.object = Object /\ client' \in ClientType /\ client'.cursor.n = c.n
       /\ OrderOK(ObjectRing, it', c.n)
  <2>1. CASE it' = FinishIdleReplay(f) /\ client' = [client EXCEPT !.complete = {}, !.known = {}]
    <3>1. PICK i : i = [Fresh(wait) EXCEPT !.mode = "live"]
      OBVIOUS
    <3>2. /\ i = f /\ IterOK(f) /\ f.phase = "open" /\ f.object = Object
          /\ OrderOK(ObjectRing, f, c.n)
      BY <1>1, <1>7, <1>11, <3>1, FreshFacts
    <3>3. IterOK(it') /\ it'.object = Object /\ OrderOK(ObjectRing, it', c.n)
      BY <2>1, <3>2, IdleReplayKeeps
    <3>4. client' \in ClientType /\ client'.cursor = client.cursor
      BY <1>9, <2>1 DEF ClientType
    <3> QED
      BY <1>2, <3>3, <3>4
  <2>2. CASE it' = FinishWithResync([f EXCEPT !.mode = "cursor"], ObjectRing) /\ client' = client
    <3>1. PICK i : i = [Fresh(wait) EXCEPT !.mode = "cursor"]
      OBVIOUS
    <3>2. IterOK(i) /\ i.phase = "open" /\ i.object = Object /\ i.handed = <<>>
      BY <1>1, <1>7, <1>11, <3>1, FreshFacts
    <3>3. it' = FinishWithResync(i, ObjectRing)
      BY <1>1, <2>2, <3>1
    <3>4. IterOK(it') /\ it'.object = Object /\ OrderOK(ObjectRing, it', c.n)
      BY <1>10, <3>2, <3>3, ResyncKeeps
    <3> QED
      BY <1>2, <1>9, <2>2, <3>4
  <2>3. CASE /\ ReplayStatus(ObjectRing, c.n) = "ok" /\ client' = client
             /\ it' = FinishIdleReplay([FilterLiveAfterReplay(f, entries)
                                          EXCEPT !.mode = "cursor", !.replay = entries])
    <3>1. PICK x : x = [FilterLiveAfterReplay(Fresh(wait), entries)
                          EXCEPT !.mode = "cursor", !.replay = entries]
      OBVIOUS
    <3>2. IterOK(x) /\ x.phase = "open" /\ x.object = Object /\ OrderOK(ObjectRing, x, c.n)
      BY <1>3, <1>7, <1>9, <1>11, <2>3, <3>1, CursorOpens, ZenonT(60)
    <3>3. it' = FinishIdleReplay(x)
      BY <1>1, <2>3, <3>1
    <3>4. IterOK(it') /\ it'.object = Object /\ OrderOK(ObjectRing, it', c.n)
      BY <3>2, <3>3, IdleReplayKeeps
    <3> QED
      BY <1>2, <1>9, <2>3, <3>4
  <2>4. CASE /\ client' = client
             /\ it' = [f EXCEPT !.phase = "init", !.mode = "durable",
                         !.initial = ObjectRing.entries, !.mark = LatestCursor(ObjectRing),
                         !.durable = durable]
    <3>1. durable = <<NoMessage>> \/ durable \in Seq(Messages)
      <4>1. CASE client.anchor \notin Stored
        BY <1>4, <4>1
      <4>2. CASE client.anchor \in Stored
        <5>1. rows \in Seq(Messages)
          BY <1>7 DEF RowsOK
        <5>2. \E k \in DOMAIN rows : rows[k] = client.anchor
          BY <4>2, <5>1 DEF Stored, Range
        <5>3. RowOf(client.anchor) \in 1..Len(rows)
          BY <5>1, <5>2 DEF RowOf
        <5>4. PICK a : a = RowOf(client.anchor)
          OBVIOUS
        <5>5. SubSeq(rows, a + 1, Len(rows)) \in Seq(Messages)
          BY <5>1, <5>3, <5>4
        <5> QED
          BY <1>4, <4>2, <5>4, <5>5 DEF RowsAfter
      <4> QED
        BY <4>1, <4>2
    <3>2. IterOK(it') /\ it'.object = Object /\ OrderOK(ObjectRing, it', c.n)
      BY <1>1, <1>7, <1>11, <2>4, <3>1, SnapshotKeeps
    <3> QED
      BY <1>2, <1>9, <2>4, <3>2
  <2> QED
    BY <1>6, <2>1, <2>2, <2>3, <2>4
<1>13. it'.object <= Object
  BY <1>10, <1>12
<1>14. StreamOK'
  BY <1>5, <1>7, <1>9, <1>12, <1>13, CreatedKeeps
<1> QED
  BY <1>8, <1>14 DEF IInv


\* The end of the initialization, before the replay is known.
LEMMA OpenedKeeps ==
  ASSUME NEW i, IterOK(i), i.phase = "init"
  PROVE  LET o == [i EXCEPT !.phase = "open", !.initial = <<>>, !.durable = <<>>, !.mark = 0]
         IN  IterOK(o) /\ o.phase = "open" /\ o.handed = <<>> /\ o.object = i.object
<1>1. PICK g : g = [i EXCEPT !.phase = "open", !.initial = <<>>]
  OBVIOUS
<1>2. PICK o : o = [i EXCEPT !.phase = "open", !.initial = <<>>, !.durable = <<>>, !.mark = 0]
  OBVIOUS
<1>3. i \in IterType
  BY DEF IterOK
<1>4. /\ i.handed = <<>> /\ i.replay = <<>> /\ ~i.reading /\ Len(i.queue) <= MaxQueue
      /\ i.mode = "durable"
  BY DEF IterOK
<1>5. <<>> \in Seq(EntryType) /\ <<>> \in Seq(Group) /\ <<>> \in Seq(Messages) /\ Len(<<>>) = 0
  OBVIOUS
<1>6. /\ g \in IterType /\ g.handed = <<>> /\ g.replay = <<>> /\ g.reading = i.reading
      /\ g.queue = i.queue /\ g.mode = i.mode /\ g.phase = "open" /\ g.object = i.object
  BY <1>1, <1>3, <1>4, <1>5 DEF IterType
<1>7. o = [g EXCEPT !.durable = <<>>, !.mark = 0]
  BY <1>1, <1>2
<1>8. /\ o \in IterType /\ o.handed = <<>> /\ o.replay = <<>> /\ o.reading = i.reading
      /\ o.queue = i.queue /\ o.mode = i.mode /\ o.phase = "open" /\ o.object = i.object
      /\ o.durable = <<>>
  BY <1>5, <1>6, <1>7 DEF IterType
<1>9. IterOK(o)
  BY <1>4, <1>5, <1>8 DEF IterOK
<1> QED
  BY <1>2, <1>8, <1>9

LEMMA FinishDurableKeeps ==
  ASSUME IInv, FinishDurable
  PROVE  IInv'
<1>1. PICK r : r = HeldRing
  OBVIOUS
<1>2. PICK catchup : catchup = Replayed(r, it.mark)
  OBVIOUS
<1>3. PICK kept : kept = AtPositions(it.durable, {k \in DOMAIN it.durable :
                                       it.durable[k] \notin CommittedAfterTerminal(catchup)})
  OBVIOUS
<1>4. PICK stitched : stitched = Stitch(it.initial, ThroughFirstTerminal(catchup), kept)
  OBVIOUS
<1>5. PICK replay : replay = AtPositions(stitched, {k \in DOMAIN stitched :
                                                      ~OldTerminal(stitched[k], it.mark)})
  OBVIOUS
<1>6. PICK opened : opened = [it EXCEPT !.phase = "open", !.initial = <<>>, !.durable = <<>>,
                                        !.mark = 0]
  OBVIOUS
<1>7. PICK x : x = [FilterLiveAfterReplay(opened, it.initial \o catchup) EXCEPT !.replay = replay]
  OBVIOUS
<1>8. /\ it.phase = "init" /\ UNCHANGED object /\ reservation' = reservation /\ client' = client
      /\ rows' = rows /\ born' = born /\ lane' = lane /\ ended' = ended
      /\ turn' = turn /\ status' = status
  BY DEF FinishDurable, database, history, turns
<1>9. it' = IF it.durable = <<NoMessage>> \/ ReplayStatus(r, it.mark) # "ok"
            THEN FinishWithResync(opened, r) ELSE FinishIdleReplay(x)
  BY <1>1, <1>2, <1>3, <1>4, <1>5, <1>6, <1>7 DEF FinishDurable
<1>10. RowsOK /\ TurnsOK /\ StreamOK
  BY DEF IInv
<1>11. RowsOK' /\ TurnsOK'
  BY <1>8, <1>10 DEF RowsOK, TurnsOK
<1>12. /\ IterOK(it) /\ it.object <= epoch /\ client \in ClientType
       /\ reservation \in ReservationType
       /\ reservation.owner # "nobody" => reservation.object < MaxObjects
       /\ (present /\ it.object = epoch) => OrderOK(ring, it, client.cursor.n)
  BY <1>10, StreamFacts
<1>13. PICK n : n = client.cursor.n
  OBVIOUS
<1>14. PICK attached : attached = (present /\ it.object = epoch)
  OBVIOUS
<1>15. attached \in BOOLEAN
  BY <1>14
<1>16. RingOK(r) /\ (attached => r = ring)
  <2>1. RingOK(ring)
    BY <1>10 DEF StreamOK
  <2> QED
    BY <1>1, <1>14, <2>1, EmptyRingOK DEF HeldRing
<1>17. attached => OrderOK(r, it, n)
  BY <1>12, <1>13, <1>14, <1>16
<1>18. IterOK(it') /\ it'.object = it.object /\ (attached => OrderOK(r, it', n))
  <2>1. CASE it.durable = <<NoMessage>> \/ ReplayStatus(r, it.mark) # "ok"
    <3>1. IterOK(opened) /\ opened.phase = "open" /\ opened.handed = <<>>
          /\ opened.object = it.object
      BY <1>6, <1>8, <1>12, OpenedKeeps
    <3>2. it' = FinishWithResync(opened, r)
      BY <1>9, <2>1
    <3> QED
      BY <1>16, <3>1, <3>2, ResyncKeeps
  <2>2. CASE ~(it.durable = <<NoMessage>> \/ ReplayStatus(r, it.mark) # "ok")
    <3>1. /\ IterOK(it) /\ it.phase = "init" /\ it.durable # <<NoMessage>> /\ RingOK(r)
          /\ ReplayStatus(r, it.mark) = "ok"
      BY <1>8, <1>12, <1>16, <2>2
    <3>2. DurableParts(it, r, opened, catchup, kept, stitched, replay, x)
      BY <1>2, <1>3, <1>4, <1>5, <1>6, <1>7, Zenon DEF DurableParts
    <3>3. IterOK(x) /\ x.phase = "open" /\ x.object = it.object /\ (attached => OrderOK(r, x, n))
      BY <1>15, <1>17, <3>1, <3>2, DurableOpens
    <3>4. it' = FinishIdleReplay(x)
      BY <1>9, <2>2
    <3> QED
      BY <3>3, <3>4, IdleReplayKeeps
  <2> QED
    BY <2>1, <2>2
<1>19. StreamOK'
  BY <1>8, <1>10, <1>12, <1>13, <1>14, <1>16, <1>18, KeptKeeps
<1> QED
  BY <1>11, <1>19 DEF IInv

\* What a reader holds after one event, and where it goes on.
LEMMA ReceiveKeeps ==
  ASSUME StreamOK, born \in [Messages -> 0..MaxTurns], it.phase = "open", ~it.reading,
         NEW e, NEW j, Takes(j, it, e), Receive(e, j), UNCHANGED <<object, reservation>>
  PROVE  StreamOK'
<1>1. /\ IterOK(it) /\ it.object \in Nat /\ it.object <= epoch /\ epoch \in Nat
      /\ client \in ClientType /\ client.cursor \in [object: Nat, n: Nat] /\ client.cursor.n \in Nat
      /\ reservation \in ReservationType
      /\ reservation.owner # "nobody" => reservation.object < MaxObjects
      /\ (present /\ it.object = epoch) => OrderOK(ring, it, client.cursor.n)
  BY StreamFacts
<1>2. /\ IterOK(j) /\ e \in EntryType /\ j.object = it.object
  BY <1>1, TakenKeeps
<1>3. /\ e.cursor \in Nat /\ e.msgs \in SUBSET Messages
      /\ e.kind = "durable" => e.msgs # {}
  BY <1>2 DEF EntryType
<1>4. PICK known : known = {m \in Apply(client.known, e) : born[m] \in client.complete}
  OBVIOUS
<1>5. PICK anchor : anchor = CASE e.cursor # 0 -> NoMessage
                              [] e.cursor = 0 /\ e.kind = "durable" -> CHOOSE m \in e.msgs : TRUE
                              [] OTHER -> client.anchor
  OBVIOUS
<1>6. PICK cursor : cursor = CASE e.kind = "resync" -> NoCursor
                              [] e.kind # "resync" /\ e.cursor # 0 ->
                                   [object |-> it.object, n |-> e.cursor]
                              [] OTHER -> client.cursor
  OBVIOUS
<1>7. /\ client' = [client EXCEPT !.known = known, !.anchor = anchor, !.cursor = cursor,
                                  !.stale = (e.kind = "resync")]
      /\ it' = IF e.kind = "resync" \/ (e.kind = "terminal" /\ it.mode # "send") THEN Off ELSE j
  BY <1>4, <1>5, <1>6 DEF Receive
<1>8. known \in SUBSET Messages
  <2>1. client.known \in SUBSET Messages
    BY <1>1 DEF ClientType
  <2> QED
    BY <1>3, <1>4, <2>1 DEF Apply
<1>9. anchor \in Group
  <2>1. CASE e.cursor # 0
    BY <1>5, <2>1 DEF Group
  <2>2. CASE e.cursor = 0 /\ e.kind = "durable"
    <3>1. anchor = CHOOSE m \in e.msgs : TRUE
      BY <1>5, <2>2
    <3>2. anchor \in e.msgs
      BY <1>3, <2>2, <3>1
    <3> QED
      BY <1>3, <3>2 DEF Group
  <2>3. CASE e.cursor = 0 /\ e.kind # "durable"
    <3>1. anchor = client.anchor
      BY <1>5, <2>3
    <3> QED
      BY <1>1, <3>1 DEF ClientType
  <2> QED
    BY <2>1, <2>2, <2>3
<1>10. cursor \in [object: Nat, n: Nat]
  BY <1>1, <1>3, <1>6 DEF NoCursor
<1>11. client' \in ClientType /\ client'.cursor = cursor
  <2>1. (e.kind = "resync") \in BOOLEAN
    OBVIOUS
  <2> QED
    BY <1>1, <1>7, <1>8, <1>9, <1>10, <2>1 DEF ClientType
<1>12. IterOK(it') /\ it'.object <= epoch
  BY <1>1, <1>2, <1>7, OffFacts
<1>13. ASSUME present, it'.object = epoch PROVE OrderOK(ring, it', client'.cursor.n)
  <2>1. CASE it' = Off
    BY <2>1, OffOK
  <2>2. CASE it' # Off
    <3>1. it' = j /\ e.kind # "resync"
      BY <1>7, <2>2
    <3>2. OrderOK(ring, it, client.cursor.n)
      BY <1>1, <1>2, <1>13, <3>1
    <3>3. e.cursor # 0 => cursor.n = e.cursor
      BY <1>6, <3>1
    <3>4. OrderOK(ring, j, cursor.n)
      BY <1>1, <3>2, <3>3, TakenInOrder
    <3> QED
      BY <1>11, <3>1, <3>4
  <2> QED
    BY <2>1, <2>2
<1> QED
  BY <1>1, <1>11, <1>12, <1>13, KeptKeeps

LEMMA ReadKeeps ==
  ASSUME IInv, Read
  PROVE  IInv'
<1>1. /\ it.phase = "open" /\ ~it.reading /\ UNCHANGED <<object, reservation>>
      /\ rows' = rows /\ born' = born /\ lane' = lane /\ ended' = ended
      /\ turn' = turn /\ status' = status
  BY DEF Read, database, history, turns
<1>2. RowsOK /\ TurnsOK /\ StreamOK
  BY DEF IInv
<1>3. RowsOK' /\ TurnsOK'
  BY <1>1, <1>2 DEF RowsOK, TurnsOK
<1>4. born \in [Messages -> 0..MaxTurns]
  BY <1>2 DEF RowsOK
<1>5. /\ IterOK(it) /\ it \in IterType /\ it.object <= epoch /\ epoch \in Nat /\ client \in ClientType
      /\ reservation \in ReservationType
      /\ reservation.owner # "nobody" => reservation.object < MaxObjects
      /\ (present /\ it.object = epoch) => OrderOK(ring, it, client.cursor.n)
  BY <1>2, StreamFacts
<1>6. \/ \E e, j : Takes(j, it, e) /\ Receive(e, j)
      \/ it' = Off /\ client' = client
      \/ /\ it.handed = <<>> /\ it.replay = <<>> /\ it.queue = <<>> /\ it.live
         /\ it' = [it EXCEPT !.reading = TRUE] /\ client' = client
  <2>1. CASE /\ it.handed # <<>>
             /\ Receive(Head(it.handed), [it EXCEPT !.handed = <<>>])
    <3>1. Takes([it EXCEPT !.handed = <<>>], it, Head(it.handed))
      BY <2>1 DEF Takes
    <3> QED
      BY <2>1, <3>1, Zenon
  <2>2. CASE /\ it.handed = <<>> /\ it.replay # <<>>
             /\ Receive(Head(it.replay), [it EXCEPT !.replay = Tail(@)])
    <3>1. Takes([it EXCEPT !.replay = Tail(@)], it, Head(it.replay))
      BY <2>2 DEF Takes
    <3> QED
      BY <2>2, <3>1, Zenon
  <2>3. CASE /\ it.handed = <<>> /\ it.replay = <<>> /\ it.queue # <<>>
             /\ Receive(Head(it.queue), [it EXCEPT !.queue = Tail(@)])
    <3>1. Takes([it EXCEPT !.queue = Tail(@)], it, Head(it.queue))
      BY <2>3 DEF Takes
    <3> QED
      BY <2>3, <3>1, Zenon
  <2>4. CASE it' = Off /\ client' = client
    BY <2>4
  <2>5. CASE /\ it.handed = <<>> /\ it.replay = <<>> /\ it.queue = <<>> /\ it.live
             /\ it' = [it EXCEPT !.reading = TRUE] /\ client' = client
    BY <2>5
  <2> QED
    BY <2>1, <2>2, <2>3, <2>4, <2>5, Zenon DEF Read
<1>7. CASE \E e, j : Takes(j, it, e) /\ Receive(e, j)
  <2>1. PICK e, j : Takes(j, it, e) /\ Receive(e, j)
    BY <1>7
  <2>2. StreamOK'
    BY <1>1, <1>2, <1>4, <2>1, ReceiveKeeps
  <2> QED
    BY <1>3, <2>2 DEF IInv
<1>8. CASE it' = Off /\ client' = client
  <2>1. IterOK(it') /\ it'.object <= epoch /\ \A r, n : OrderOK(r, it', n)
    BY <1>5, <1>8, OffOK, OffFacts
  <2>2. StreamOK'
    BY <1>1, <1>2, <1>5, <1>8, <2>1, KeptKeeps
  <2> QED
    BY <1>3, <2>2 DEF IInv
<1>9. CASE /\ it.handed = <<>> /\ it.replay = <<>> /\ it.queue = <<>> /\ it.live
           /\ it' = [it EXCEPT !.reading = TRUE] /\ client' = client
  <2>1. PICK y : y = it'
    OBVIOUS
  <2>2. /\ y \in IterType /\ y.handed = it.handed /\ y.replay = it.replay /\ y.queue = it.queue
        /\ y.live = it.live /\ y.phase = it.phase /\ y.mode = it.mode /\ y.only = it.only
        /\ y.durable = it.durable /\ y.object = it.object
    BY <1>5, <1>9, <2>1 DEF IterType
  <2>3. IterOK(y)
    BY <1>1, <1>5, <1>9, <2>2 DEF IterOK
  <2>4. OrderOK(ring, it, client.cursor.n) => OrderOK(ring, y, client.cursor.n)
    <3>1. PendingOf(y) = PendingOf(it)
      BY <2>2 DEF PendingOf
    <3> QED
      BY <1>1, <2>2, <3>1 DEF OrderOK
  <2>5. StreamOK'
    BY <1>1, <1>2, <1>5, <1>9, <2>1, <2>2, <2>3, <2>4, KeptKeeps
  <2> QED
    BY <1>3, <2>5 DEF IInv
<1> QED
  BY <1>6, <1>7, <1>8, <1>9

LEMMA LeaveKeeps ==
  ASSUME IInv, Disconnect \/ ReadHistory
  PROVE  IInv'
<1>1. /\ UNCHANGED <<object, reservation>>
      /\ rows' = rows /\ born' = born /\ lane' = lane /\ ended' = ended
      /\ turn' = turn /\ status' = status
  BY DEF Disconnect, ReadHistory, database, history, turns
<1>2. RowsOK /\ TurnsOK /\ StreamOK
  BY DEF IInv
<1>3. RowsOK' /\ TurnsOK'
  BY <1>1, <1>2 DEF RowsOK, TurnsOK
<1>4. /\ IterOK(it) /\ epoch \in Nat /\ client \in ClientType
      /\ reservation \in ReservationType
      /\ reservation.owner # "nobody" => reservation.object < MaxObjects
  BY <1>2, StreamFacts
<1>5. it' = Off
  BY <1>4 DEF Disconnect, ReadHistory, IterOK
<1>6. client' \in ClientType
  <2>1. CASE Disconnect
    BY <1>4, <2>1 DEF Disconnect
  <2>2. CASE ReadHistory
    <3>1. PICK last : last = IF rows = <<>> THEN NoMessage ELSE Last(rows)
      OBVIOUS
    <3>2. client' = [known |-> Stored, cursor |-> NoCursor, anchor |-> last,
                     complete |-> 0..MaxTurns, stale |-> FALSE]
      BY <2>2, <3>1 DEF ReadHistory
    <3>3. rows \in Seq(Messages)
      BY <1>2 DEF RowsOK
    <3>4. Stored \in SUBSET Messages
      BY <3>3 DEF Stored, Range
    <3>5. last \in Group
      <4>1. rows # <<>> => Len(rows) \in 1..Len(rows)
        BY <3>3
      <4> QED
        BY <3>1, <3>3, <4>1 DEF Last, Group
    <3> QED
      BY <3>2, <3>4, <3>5 DEF ClientType, NoCursor
  <2> QED
    BY <2>1, <2>2
<1>7. IterOK(it') /\ it'.object <= epoch /\ \A r, n : OrderOK(r, it', n)
  BY <1>4, <1>5, OffOK, OffFacts
<1>8. StreamOK'
  BY <1>1, <1>2, <1>4, <1>6, <1>7, KeptKeeps
<1> QED
  BY <1>3, <1>8 DEF IInv

LEMMA RestartKeeps ==
  ASSUME IInv, Restart
  PROVE  IInv'
<1>1. /\ epoch < MaxObjects /\ present' = FALSE /\ ring' = EmptyRing /\ epoch' = epoch
      /\ lane' = [l \in Lanes |-> NoFrame] /\ status' = "idle" /\ turn' = turn
      /\ reservation' = NoReservation /\ it' = Off /\ client' = client
      /\ rows' = rows /\ born' = born /\ ended' = ended
  BY DEF Restart, database, history
<1>2. RowsOK /\ TurnsOK /\ StreamOK
  BY DEF IInv
<1>3. RowsOK' /\ TurnsOK'
  BY <1>1, <1>2, NoFrameTyped DEF RowsOK, TurnsOK
<1>4. epoch \in 0..MaxObjects /\ client \in ClientType
  BY <1>2 DEF StreamOK, ObjectsOK
<1>5. ObjectsOK'
  <2>1. it'.object <= epoch' /\ epoch' \in 0..MaxObjects /\ epoch' < MaxObjects
    BY <1>1, <1>4, OffFacts
  <2>2. reservation' \in ReservationType /\ reservation'.owner = "nobody"
    BY <1>1, NoReservationOK
  <2> QED
    BY <1>1, <2>1, <2>2 DEF ObjectsOK, ReservationType
<1>6. InOrder'
  BY <1>1 DEF InOrder, Attached
<1>7. StreamOK'
  BY <1>1, <1>4, <1>5, <1>6, EmptyRingOK, OffOK DEF StreamOK
<1> QED
  BY <1>3, <1>7 DEF IInv

-----------------------------------------------------------------------------
(* The theorems.                                                           *)

LEMMA InitOK == Init => IInv
<1> SUFFICES ASSUME Init PROVE IInv
  OBVIOUS
<1>1. RowsOK
  <2>1. rows = <<>> /\ born = [m \in Messages |-> 0] /\ 0 \in 0..MaxTurns
    BY Limits DEF Init
  <2> QED
    BY <2>1 DEF RowsOK
<1>2. TurnsOK
  BY NoFrameTyped, Limits DEF Init, TurnsOK
<1>3. ObjectsOK
  <2>1. it.object <= epoch /\ epoch \in 0..MaxObjects /\ epoch < MaxObjects /\ present = FALSE
    BY OffFacts, Limits DEF Init
  <2>2. reservation \in ReservationType /\ reservation.owner = "nobody"
    BY NoReservationOK DEF Init
  <2> QED
    BY <2>1, <2>2 DEF ObjectsOK, ReservationType
<1>4. client \in ClientType
  BY DEF Init, ClientType, NoCursor, Group
<1>5. RingOK(ring) /\ IterOK(it) /\ InOrder
  BY EmptyRingOK, OffOK DEF Init, InOrder, Attached
<1> QED
  BY <1>1, <1>2, <1>3, <1>4, <1>5 DEF IInv, StreamOK

LEMMA NextKeeps == IInv /\ [Next]_vars => IInv'
<1> SUFFICES ASSUME IInv, [Next]_vars PROVE IInv'
  OBVIOUS
<1>1. CASE UNCHANGED vars
  BY <1>1 DEF vars, IInv, RowsOK, TurnsOK, StreamOK, ObjectsOK, InOrder, Attached
<1>2. CASE Producer
  <2>1. ASSUME NEW m \in Assistants, SaveAssistant(m) \/ Chunk(m) PROVE IInv'
    <3>1. m \in Messages
      BY Limits
    <3> QED
      BY <2>1, <3>1, SavesKeep, ChunkKeeps
  <2>2. ASSUME NEW m \in Users, CommitUser(m) \/ RepeatUser(m) PROVE IInv'
    <3>1. m \in Messages
      BY Limits
    <3> QED
      BY <2>2, <3>1, SavesKeep, RepeatKeeps
  <2>3. ASSUME NEW l \in {"agent", "user"}, Publish(l) PROVE IInv'
    <3>1. l \in Lanes
      BY DEF Lanes
    <3> QED
      BY <2>3, <3>1, PublishKeeps
  <2> QED
    BY <1>2, <2>1, <2>2, <2>3, RecallKeeps, TerminalKeeps, StartsKeep DEF Producer
<1>3. CASE Sender
  BY <1>3, StartsKeep, AcceptKeeps, RefuseKeeps, CompleteKeeps, ReserveKeeps DEF Sender
<1>4. CASE Reader
  BY <1>4, ResumeKeeps, FinishDurableKeeps, ReadKeeps, LeaveKeeps DEF Reader
<1>5. CASE Restart
  BY <1>5, RestartKeeps
<1> QED
  BY <1>1, <1>2, <1>3, <1>4, <1>5 DEF Next

LEMMA IInvImpliesTypeOK == IInv => TypeOK
<1> SUFFICES ASSUME IInv PROVE TypeOK
  OBVIOUS
<1>1. RowsOK /\ TurnsOK /\ RingOK(ring) /\ ObjectsOK /\ IterOK(it) /\ client \in ClientType
  BY DEF IInv, StreamOK
<1>2. rows \in Seq(Messages) /\ IsInjective(rows) /\ born \in [Messages -> 0..MaxTurns]
  BY <1>1 DEF RowsOK, IsInjective
<1>3. /\ ring.next \in Nat \ {0} /\ ring.dropped \in 0..(ring.next - 1)
      /\ ring.completed \subseteq Messages /\ ~OverBounds(ring.entries)
  <2>1. /\ ring.next \in Nat /\ ring.dropped \in Nat /\ ring.completed \subseteq Messages
        /\ ring.entries \in Seq(EntryType)
        /\ ring.next = ring.dropped + Len(ring.entries) + 1 /\ ~OverBounds(ring.entries)
    BY <1>1 DEF RingOK, RingType
  <2>2. PICK l : l = Len(ring.entries)
    OBVIOUS
  <2>3. l \in Nat /\ ring.next = ring.dropped + l + 1
    BY <2>1, <2>2
  <2>4. ring.next # 0 /\ ring.dropped \in 0..(ring.next - 1)
    BY <2>1, <2>3
  <2> QED
    BY <2>1, <2>4
<1>4. /\ present \in BOOLEAN /\ epoch \in 0..MaxObjects
      /\ turn \in 0..MaxTurns /\ status \in {"idle", "accepted", "running"} /\ DOMAIN lane = Lanes
  BY <1>1 DEF ObjectsOK, TurnsOK
<1>5. it.phase \in {"off", "held", "init", "open"} /\ Len(it.queue) <= MaxQueue
      /\ Len(it.handed) <= 1
  BY <1>1 DEF IterOK, IterType
<1>6. client.known \subseteq Messages /\ client.complete \subseteq 0..MaxTurns
  BY <1>1 DEF ClientType
<1> QED
  BY <1>2, <1>3, <1>4, <1>5, <1>6 DEF TypeOK

LEMMA IInvImpliesInOrder == IInv => PendingInOrder
<1> SUFFICES ASSUME IInv, it.phase = "open", Attached
             PROVE  /\ \A j, k \in DOMAIN Pending :
                         (j < k /\ Pending[j].cursor # 0 /\ Pending[k].cursor # 0)
                           => Pending[j].cursor < Pending[k].cursor
                    /\ (it.mode = "cursor" /\ it.live) =>
                         /\ Len(Pending) = LatestCursor(ring) - client.cursor.n
                         /\ \A j \in DOMAIN Pending : Pending[j].cursor = client.cursor.n + j
  BY DEF PendingInOrder
<1>1. PICK p : p = PendingOf(it)
  OBVIOUS
<1>2. Pending = p
  BY <1>1 DEF Pending, PendingOf
<1>3. OrderOK(ring, it, client.cursor.n) /\ IterOK(it) /\ RingOK(ring) /\ client \in ClientType
  BY DEF IInv, StreamOK, InOrder
<1>4. p \in Seq(EntryType) /\ DOMAIN p = 1..Len(p) /\ Len(p) \in Nat
  <2>1. it \in IterType
    BY <1>3 DEF IterOK
  <2>2. p \in Seq(EntryType)
    BY <1>1, <2>1, IterSeqs
  <2> QED
    BY <2>2
<1>5. Growing(p)
  BY <1>1, <1>3 DEF OrderOK
<1>6. ASSUME it.mode = "cursor", it.live
      PROVE  /\ Len(p) = LatestCursor(ring) - client.cursor.n
             /\ \A j \in DOMAIN p : p[j].cursor = client.cursor.n + j
  <2>1. PICK l : l = Len(p)
    OBVIOUS
  <2>2. PICK n : n = client.cursor.n
    OBVIOUS
  <2>3. ring.next = n + l + 1 /\ \A j \in 1..l : p[j].cursor = n + j
    BY <1>1, <1>3, <1>6, <2>1, <2>2 DEF OrderOK
  <2>4. n \in Nat /\ l \in Nat
    BY <1>3, <1>4, <2>1, <2>2 DEF ClientType
  <2>5. l = ring.next - 1 - n
    BY <2>3, <2>4
  <2> QED
    BY <1>4, <2>1, <2>2, <2>3, <2>5 DEF LatestCursor
<1> QED
  BY <1>2, <1>4, <1>5, <1>6 DEF Growing

LEMMA Invariance == Spec => []IInv
BY InitOK, NextKeeps, PTL DEF Spec

\* The bounds hold whatever the producers, senders and readers do: the ring
\* of a Session is within its items and bytes after every write
\* (enforceRetention ends, and ends there), the queue of a subscription within
\* its limit, and a message has one row.
THEOREM TypeCorrect == Spec => []TypeOK
BY Invariance, IInvImpliesTypeOK, PTL

\* What a stream has for its reader has growing cursors, whether it is
\* replayed or live, and a client that came back with a cursor has exactly the
\* frames after it (replay, filterLiveAfterReplay, push).
THEOREM FramesInOrder == Spec => []PendingInOrder
BY Invariance, IInvImpliesInOrder, PTL
====

------------------------- MODULE TurnSteeringProofs -------------------------
(***************************************************************************)
(* Proofs about TurnSteering, for any finite set of messages and any bound *)
(* on the failures: its type invariant, and its six safety invariants.     *)
(***************************************************************************)
EXTENDS TurnSteering, TLAPS, FiniteSetTheorems, NaturalsInduction, WellFoundedInduction

-----------------------------------------------------------------------------
(* The inductive invariant.                                                *)

\* Discard, with sequences of any length.
Record == [batch: Seq(Users), left: Seq(Users),
           cause: {"abort", "abnormal-seal", "exit-close"},
           stopped: BOOLEAN,
           route: {"teardown", "requeue"},
           pending: BOOLEAN,
           task: {"none", "merged", "teardown", "enqueue", "pause"},
           lane: 0..3,
           waiting: BOOLEAN,
           wake: {"none", "due", "published"}]

ITypes ==
  /\ phase \in {"running", "closing", "aborted"}
  /\ reason \in {"none", "user_stop", "other"}
  /\ released \in BOOLEAN
  /\ admitted \in Seq(Messages) /\ IsInjective(admitted)
  /\ steering \in Seq(Messages) /\ IsInjective(steering)
  /\ consumed \subseteq Messages
  /\ host \in {"starting", "running", "polling", "failing", "closed",
               "ended", "committing", "settling", "stuck", "done"}
  /\ outcome \in {"none", "unstarted", "completed", "failed", "aborted"}
  /\ poll \in [batch: Seq(Messages), exit: BOOLEAN] /\ IsInjective(poll.batch)
  /\ discards \in Seq(Record)
  /\ \A i \in DOMAIN discards : IsInjective(discards[i].batch) /\ IsInjective(discards[i].left)
  /\ awaiting \subseteq DOMAIN discards
  /\ conversation \in Seq(Users) /\ IsInjective(conversation)
  /\ queue \subseteq Seq(Users)
  /\ paused \in BOOLEAN
  /\ process \in {"up", "first", "each", "last", "down"}
  /\ drain \in [wait: SUBSET DOMAIN discards, list: Seq(DOMAIN discards), tried: BOOLEAN]
  /\ failures \in 0..MaxFailures

\* An accepted message is in one place: consumed, waiting, being polled, or
\* in the batch of one discard.
IPlaces ==
  /\ claims = Range(poll.batch)
  /\ Range(steering) \cup Range(poll.batch) \cup consumed \subseteq Range(admitted)
  /\ Range(steering) \cap Range(poll.batch) = {}
  /\ consumed \cap Range(steering) = {} /\ consumed \cap Range(poll.batch) = {}
  /\ \A i \in DOMAIN discards :
       /\ Range(discards[i].left) \subseteq Range(discards[i].batch)
       /\ Range(discards[i].batch) \subseteq Range(admitted)
       /\ Range(discards[i].batch) \cap Range(steering) = {}
       /\ Range(discards[i].batch) \cap Range(poll.batch) = {}
       /\ Range(discards[i].batch) \cap consumed = {}
       /\ Range(discards[i].left) \cap Range(conversation) = {}
       /\ \A j \in DOMAIN discards :
            i # j => Range(discards[i].batch) \cap Range(discards[j].batch) = {}
  /\ \A m \in Range(conversation) : \E i \in DOMAIN discards : m \in Range(discards[i].batch)

Writing(d) == d.task \in {"teardown", "merged"}

\* A batch in the queue is what one discard has left, for good; a discard that
\* is no longer pending has nothing left or is queued, and parked if it must be.
ISaved ==
  /\ \A b \in queue : \E i \in DOMAIN discards :
       discards[i].left = b /\ discards[i].route = "requeue" /\ ~Writing(discards[i])
  /\ \A i \in DOMAIN discards :
       /\ discards[i].task \in {"enqueue", "pause"} => discards[i].route = "requeue"
       /\ discards[i].task = "pause" => discards[i].left \in queue
       /\ ~discards[i].pending /\ discards[i].left # <<>> =>
            /\ discards[i].left \in queue /\ discards[i].route = "requeue"
            /\ ~Writing(discards[i])
            /\ discards[i].stopped => paused

BeforeEnd == {"starting", "running", "polling", "failing", "closed"}

\* Phase, host and process.
IControl ==
  /\ host # "polling" => poll = NoPoll
  /\ phase = "aborted" => steering = <<>>
  /\ phase = "closing" => steering = <<>> /\ host \notin {"starting", "polling", "failing"}
  /\ host = "closed" => phase # "running"
  /\ outcome = "none" <=> host \in BeforeEnd
  /\ outcome \notin {"none", "unstarted"} => phase # "running"
  /\ released => host = "done"
  /\ host = "stuck" => failures > 0
  /\ awaiting # {} => host = "committing"
  /\ process # "up" => phase = "aborted" \/ released
  /\ process = "first" => drain.tried = FALSE
  /\ process = "down" /\ failures = 0 => released
  /\ host = "starting" \/ outcome = "unstarted" =>
       /\ phase # "closing" /\ Len(discards) <= 1
       /\ phase = "running" => discards = <<>>

IMachines ==
  /\ phase = "running" /\ host \in BeforeEnd =>
       Machines \cap Range(admitted) \subseteq consumed \cup Range(steering) \cup Range(poll.batch)
  /\ host = "closed" \/ (phase = "closing" /\ host = "running") \/ outcome = "completed" =>
       Machines \cap Range(admitted) \subseteq consumed

\* Where an accepted user message is.
Kept(u) ==
  \/ u \in consumed \/ u \in Range(conversation)
  \/ \E b \in queue : u \in Range(b)
  \/ u \in Range(steering) \/ u \in Range(poll.batch)
  \/ \E i \in DOMAIN discards : discards[i].pending /\ u \in Range(discards[i].left)

IKept == outcome # "unstarted" => \A u \in Users \cap Range(admitted) : Kept(u)

\* While nothing has failed, a pending batch is on its way: it waits for the
\* commit before the release, is in it, or is in its first enqueue.
OnItsWay(i) ==
  \/ /\ discards[i].route = "teardown" /\ host \in BeforeEnd \cup {"ended"}
     /\ discards[i].task \in {"none", "teardown"}
  \/ /\ discards[i].route = "teardown" /\ host = "committing"
     /\ discards[i].task \in {"teardown", "merged"} /\ i \in awaiting
  \/ /\ discards[i].task = "enqueue" /\ discards[i].waiting /\ ~discards[i].stopped
     /\ process \in {"up", "first"} /\ (process = "first" => i \in drain.wait)

IQuiet ==
  /\ failures = 0 /\ outcome # "unstarted" =>
       \A i \in DOMAIN discards : discards[i].pending => OnItsWay(i)
  /\ process = "each" /\ drain.tried =>
       /\ drain.list # <<>> /\ drain.wait \subseteq {Head(drain.list)}
       /\ failures = 0 /\ drain.wait = {} => ~discards[Head(drain.list)].pending

\* The rows of the conversation come before all that may still be written,
\* and what may be written is written by one task.
Rows(d) == d.route = "teardown" \/ Writing(d)

IOrder ==
  /\ process = "up" /\ (conversation # <<>> \/ \E i \in DOMAIN discards : Writing(discards[i])) =>
       host \in {"committing", "settling", "stuck", "done"}
  /\ process = "up" /\ failures = 0 =>
       /\ InSendOrder
       /\ \A i \in DOMAIN discards :
            /\ discards[i].task = "teardown" => released
            /\ discards[i].task = "merged" => i \in awaiting
            /\ Rows(discards[i]) =>
                 \A m \in Range(discards[i].left), c \in Range(conversation) :
                   CreatedAt(c) < CreatedAt(m)
            /\ \A j \in DOMAIN discards :
                 i # j /\ Writing(discards[i]) /\ Rows(discards[j]) /\ discards[j].left # <<>> =>
                   discards[i].task = "merged" /\ discards[j].task = "merged"

IInv == ITypes /\ IPlaces /\ ISaved /\ IControl /\ IMachines /\ IKept /\ IQuiet /\ IOrder

-----------------------------------------------------------------------------
(* Numbers and sequences.                                                  *)

LEMMA NatMin ==
  ASSUME NEW T \in SUBSET Nat, T # {}
  PROVE  \E x \in T : \A y \in T : x <= y
<1>1. \E x \in T : \A y \in T : ~ (<<y, x>> \in OpToRel(<, Nat))
  BY NatLessThanWellFounded, WFMin
<1>2. \A x, y \in Nat : y < x => <<y, x>> \in OpToRel(<, Nat)
  BY Zenon DEF OpToRel
<1>3. PICK x \in T : \A y \in T : ~ (y < x)
  BY <1>1, <1>2, Zenon
<1> QED
  BY <1>3

LEMMA RangeEmpty == Range(<<>>) = {} /\ IsInjective(<<>>)
BY DEF Range, IsInjective

LEMMA RangeIn ==
  ASSUME NEW X, NEW s \in Seq(X)
  PROVE  /\ Range(s) = {s[k] : k \in 1..Len(s)} /\ Range(s) \subseteq X
         /\ (s = <<>>) <=> (Range(s) = {})
<1>1. Range(s) = {s[k] : k \in 1..Len(s)} /\ Range(s) \subseteq X
  BY DEF Range
<1>2. ASSUME s # <<>> PROVE Range(s) # {}
  <2>1. 1 \in 1..Len(s)
    BY <1>2
  <2>2. s[1] \in Range(s)
    BY <1>1, <2>1
  <2> QED
    BY <2>2
<1>3. ASSUME s = <<>> PROVE Range(s) = {}
  BY <1>3, RangeEmpty
<1> QED
  BY <1>1, <1>2, <1>3

LEMMA AppendFacts ==
  ASSUME NEW X, NEW s \in Seq(X), NEW e \in X
  PROVE  /\ Append(s, e) \in Seq(X) /\ Range(Append(s, e)) = Range(s) \cup {e}
         /\ IsInjective(s) /\ e \notin Range(s) => IsInjective(Append(s, e))
<1>1. /\ Append(s, e) \in Seq(X) /\ Len(Append(s, e)) = Len(s) + 1
      /\ \A k \in 1..Len(s) : Append(s, e)[k] = s[k]
      /\ Append(s, e)[Len(s) + 1] = e
  OBVIOUS
<1>2. DOMAIN Append(s, e) = 1..(Len(s) + 1) /\ DOMAIN s = 1..Len(s) /\ Len(s) \in Nat
  BY <1>1
<1>3. Range(Append(s, e)) = Range(s) \cup {e}
  <2>1. \A k \in 1..(Len(s) + 1) : k \in 1..Len(s) \/ k = Len(s) + 1
    BY <1>2
  <2>2. 1..Len(s) \subseteq 1..(Len(s) + 1) /\ Len(s) + 1 \in 1..(Len(s) + 1)
    BY <1>2
  <2> QED
    BY <1>1, <1>2, <2>1, <2>2, Zenon DEF Range
<1>4. ASSUME IsInjective(s), e \notin Range(s) PROVE IsInjective(Append(s, e))
  <2>1. \A k \in 1..Len(s) : s[k] # e
    BY <1>2, <1>4 DEF Range
  <2> QED
    BY <1>1, <1>2, <1>4, <2>1 DEF IsInjective
<1> QED
  BY <1>1, <1>3, <1>4

LEMMA ConcatFacts ==
  ASSUME NEW X, NEW s \in Seq(X), NEW t \in Seq(X)
  PROVE  /\ s \o t \in Seq(X) /\ Range(s \o t) = Range(s) \cup Range(t)
         /\ IsInjective(s) /\ IsInjective(t) /\ Range(s) \cap Range(t) = {} => IsInjective(s \o t)
<1>1. /\ s \o t \in Seq(X) /\ Len(s \o t) = Len(s) + Len(t)
      /\ \A k \in 1..(Len(s) + Len(t)) : (s \o t)[k] = IF k <= Len(s) THEN s[k] ELSE t[k - Len(s)]
  OBVIOUS
<1>2. /\ DOMAIN (s \o t) = 1..(Len(s) + Len(t)) /\ DOMAIN s = 1..Len(s) /\ DOMAIN t = 1..Len(t)
      /\ Len(s) \in Nat /\ Len(t) \in Nat
  BY <1>1
<1>3. Range(s \o t) = Range(s) \cup Range(t)
  <2>1. ASSUME NEW k \in 1..(Len(s) + Len(t)) PROVE (s \o t)[k] \in Range(s) \cup Range(t)
    BY <1>1, <1>2 DEF Range
  <2>2. ASSUME NEW k \in 1..Len(s) PROVE \E j \in 1..(Len(s) + Len(t)) : (s \o t)[j] = s[k]
    BY <1>1, <1>2
  <2>3. ASSUME NEW k \in 1..Len(t) PROVE \E j \in 1..(Len(s) + Len(t)) : (s \o t)[j] = t[k]
    <3>1. k + Len(s) \in 1..(Len(s) + Len(t)) /\ ~(k + Len(s) <= Len(s)) /\ (k + Len(s)) - Len(s) = k
      BY <1>2
    <3> QED
      BY <1>1, <3>1
  <2>4. Range(s \o t) = {(s \o t)[k] : k \in 1..(Len(s) + Len(t))}
    BY <1>2 DEF Range
  <2>5. Range(s) = {s[k] : k \in 1..Len(s)} /\ Range(t) = {t[k] : k \in 1..Len(t)}
    BY <1>2 DEF Range
  <2>6. Range(s \o t) \subseteq Range(s) \cup Range(t)
    BY <2>1, <2>4
  <2>7. Range(s) \subseteq Range(s \o t) /\ Range(t) \subseteq Range(s \o t)
    BY <2>2, <2>3, <2>4, <2>5
  <2> QED
    BY <2>6, <2>7
<1>4. ASSUME IsInjective(s), IsInjective(t), Range(s) \cap Range(t) = {} PROVE IsInjective(s \o t)
  <2>1. \A j \in 1..Len(s), k \in 1..Len(t) : s[j] # t[k]
    BY <1>2, <1>4 DEF Range
  <2> SUFFICES ASSUME NEW a \in 1..(Len(s) + Len(t)), NEW b \in 1..(Len(s) + Len(t)),
                      (s \o t)[a] = (s \o t)[b]
               PROVE  a = b
    BY <1>2 DEF IsInjective
  <2>2. CASE a <= Len(s) /\ b <= Len(s)
    BY <1>1, <1>2, <1>4, <2>2 DEF IsInjective
  <2>3. CASE a <= Len(s) /\ ~(b <= Len(s))
    <3>1. a \in 1..Len(s) /\ b - Len(s) \in 1..Len(t)
      BY <1>2, <2>3
    <3> QED
      BY <1>1, <2>1, <2>3, <3>1
  <2>4. CASE ~(a <= Len(s)) /\ b <= Len(s)
    <3>1. b \in 1..Len(s) /\ a - Len(s) \in 1..Len(t)
      BY <1>2, <2>4
    <3> QED
      BY <1>1, <2>1, <2>4, <3>1
  <2>5. CASE ~(a <= Len(s)) /\ ~(b <= Len(s))
    <3>1. a - Len(s) \in 1..Len(t) /\ b - Len(s) \in 1..Len(t)
      BY <1>2, <2>5
    <3>2. t[a - Len(s)] = t[b - Len(s)]
      BY <1>1, <2>5
    <3>3. a - Len(s) = b - Len(s)
      BY <1>2, <1>4, <3>1, <3>2 DEF IsInjective
    <3> QED
      BY <1>2, <3>3
  <2> QED
    BY <2>2, <2>3, <2>4, <2>5
<1> QED
  BY <1>1, <1>3, <1>4

\* A sequence without repetition is no longer than the set it is over.
LEMMA InjectiveIsBounded ==
  ASSUME NEW S, IsFiniteSet(S), NEW s \in Seq(S), IsInjective(s)
  PROVE  s \in Sequence(S) /\ Len(s) <= Cardinality(S)
<1>1. Len(s) \in Nat /\ s \in [1..Len(s) -> S]
  OBVIOUS
<1>2. s \in Injection(1..Len(s), S)
  BY <1>1 DEF Injection, IsInjective
<1>3. Cardinality(1..Len(s)) <= Cardinality(S)
  BY <1>2, FS_Injection
<1>4. Cardinality(1..Len(s)) = Len(s)
  BY <1>1, FS_Interval
<1>5. Cardinality(S) \in Nat
  BY FS_CardinalityType
<1> QED
  BY <1>1, <1>3, <1>4, <1>5 DEF Sequence

\* The prefixes of a sequence have their filtered sequences, by induction.
Prefix(s, k, S) == {s[p] : p \in 1..k} \cap S
Filters(t, n, s, k, S) ==
  /\ t \in [1..n -> Prefix(s, k, S)]
  /\ \A m \in Prefix(s, k, S) : \E j \in 1..n : t[j] = m
  /\ \A i, j \in 1..n : i < j =>
       \E p, q \in 1..k : p < q /\ s[p] = t[i] /\ s[q] = t[j]

LEMMA PrefixFiltered ==
  ASSUME NEW X, NEW s \in Seq(X), NEW S, NEW k \in 0..Len(s)
  PROVE  \E n \in Nat : \E t : Filters(t, n, s, k, S)
<1> DEFINE Bad == {l \in Nat : l <= Len(s) /\ ~\E n \in Nat : \E t : Filters(t, n, s, l, S)}
<1> SUFFICES Bad = {}
  OBVIOUS
<1> SUFFICES ASSUME Bad # {} PROVE FALSE
  OBVIOUS
<1>1. PICK l \in Bad : \A y \in Bad : l <= y
  BY NatMin
<1>2. l \in Nat /\ l <= Len(s) /\ Len(s) \in Nat
  OBVIOUS
<1>3. CASE l = 0
  <2>1. Prefix(s, 0, S) = {} /\ 1..0 = {}
    BY DEF Prefix
  <2>2. Filters([j \in 1..0 |-> 0], 0, s, 0, S)
    BY <2>1 DEF Filters
  <2> QED
    BY <1>3, <2>2
<1>4. CASE l # 0
  <2>1. l - 1 \in Nat /\ l - 1 <= Len(s) /\ ~(l <= l - 1) /\ l \in 1..l
    BY <1>2, <1>4
  <2>a. PICK n \in Nat : \E t : Filters(t, n, s, l - 1, S)
    BY <1>1, <2>1
  <2>2. PICK t : Filters(t, n, s, l - 1, S)
    BY <2>a
  <2>3. 1..l = (1..(l - 1)) \cup {l}
    BY <1>2, <1>4
  <2>4. CASE s[l] \notin S
    <3>1. Prefix(s, l, S) = Prefix(s, l - 1, S)
      BY <2>3, <2>4 DEF Prefix
    <3>2. \A p \in 1..(l - 1) : p \in 1..l
      BY <2>3
    <3>3. ASSUME NEW i \in 1..n, NEW j \in 1..n, i < j
          PROVE  \E p, q \in 1..l : p < q /\ s[p] = t[i] /\ s[q] = t[j]
      <4>1. PICK p, q \in 1..(l - 1) : p < q /\ s[p] = t[i] /\ s[q] = t[j]
        BY <2>2, <3>3, Zenon DEF Filters
      <4> QED
        BY <3>2, <4>1
    <3>4. Filters(t, n, s, l, S)
      BY <2>2, <3>1, <3>3 DEF Filters
    <3> QED
      BY <3>4
  <2>5. CASE s[l] \in S
    <3> DEFINE u == [j \in 1..(n + 1) |-> IF j = n + 1 THEN s[l] ELSE t[j]]
    <3>1. Prefix(s, l, S) = Prefix(s, l - 1, S) \cup {s[l]}
      BY <2>3, <2>5 DEF Prefix
    <3>2. \A j \in 1..(n + 1) : j = n + 1 \/ j \in 1..n
      OBVIOUS
    <3>3. \A j \in 1..n : j \in 1..(n + 1) /\ j # n + 1
      OBVIOUS
    <3>4. (\A j \in 1..n : u[j] = t[j]) /\ u[n + 1] = s[l] /\ n + 1 \in 1..(n + 1)
      BY <3>3
    <3>5. u \in [1..(n + 1) -> Prefix(s, l, S)]
      BY <2>2, <3>1, <3>2 DEF Filters
    <3>6. \A m \in Prefix(s, l, S) : \E j \in 1..(n + 1) : u[j] = m
      BY <2>2, <3>1, <3>3, <3>4 DEF Filters
    <3>7. ASSUME NEW i \in 1..(n + 1), NEW j \in 1..(n + 1), i < j
          PROVE  \E p, q \in 1..l : p < q /\ s[p] = u[i] /\ s[q] = u[j]
      <4>1. i \in 1..n
        BY <3>7
      <4>2. CASE j \in 1..n
        <5>1. PICK p, q \in 1..(l - 1) : p < q /\ s[p] = t[i] /\ s[q] = t[j]
          BY <2>2, <3>7, <4>1, <4>2, Zenon DEF Filters
        <5>2. p \in 1..l /\ q \in 1..l
          BY <2>3
        <5> QED
          BY <3>4, <4>1, <4>2, <5>1, <5>2
      <4>3. CASE j = n + 1
        <5>1. t[i] \in Prefix(s, l - 1, S)
          BY <2>2, <4>1 DEF Filters
        <5>2. PICK p \in 1..(l - 1) : s[p] = t[i]
          BY <5>1 DEF Prefix
        <5>3. p \in 1..l /\ p < l
          BY <2>1, <2>3
        <5> QED
          BY <2>1, <3>4, <4>1, <4>3, <5>2, <5>3
      <4> QED
        BY <3>2, <4>2, <4>3
    <3>8. Filters(u, n + 1, s, l, S)
      BY <3>5, <3>6, <3>7 DEF Filters
    <3> QED
      BY <3>8
  <2> QED
    BY <2>4, <2>5
<1> QED
  BY <1>3, <1>4

\* What Among returns: the members of the set, each once.
LEMMA AmongFacts ==
  ASSUME NEW X, IsFiniteSet(X), NEW s \in Seq(X), IsInjective(s), NEW S
  PROVE  /\ Among(s, S) \in Seq(X) /\ IsInjective(Among(s, S))
         /\ Range(Among(s, S)) = Range(s) \cap S
<1> DEFINE members == Range(s) \cap S
           Ordered(t) == \A j, k \in DOMAIN t : j < k =>
                           \E p, q \in DOMAIN s : p < q /\ s[p] = t[j] /\ s[q] = t[k]
<1>1. /\ Len(s) \in Nat /\ DOMAIN s = 1..Len(s) /\ members = Prefix(s, Len(s), S)
      /\ members \subseteq X
  BY RangeIn DEF Prefix, Range
<1>2. IsFiniteSet(members) /\ Cardinality(members) \in Nat
  BY <1>1, FS_Subset, FS_CardinalityType
<1>3. ASSUME NEW t, DOMAIN t \subseteq Nat, Ordered(t) PROVE IsInjective(t)
  <2> SUFFICES ASSUME NEW a \in DOMAIN t, NEW b \in DOMAIN t, t[a] = t[b] PROVE a = b
    BY DEF IsInjective
  <2>1. \A j, k \in DOMAIN t : j < k => t[j] # t[k]
    <3> SUFFICES ASSUME NEW j \in DOMAIN t, NEW k \in DOMAIN t, j < k PROVE t[j] # t[k]
      OBVIOUS
    <3>1. PICK p, q \in DOMAIN s : p < q /\ s[p] = t[j] /\ s[q] = t[k]
      BY <1>3
    <3>2. p \in Nat /\ q \in Nat /\ p # q
      BY <1>1, <3>1
    <3> QED
      BY <3>1, <3>2 DEF IsInjective
  <2> QED
    BY <1>3, <2>1
<1>a. PICK n \in Nat : \E u : Filters(u, n, s, Len(s), S)
  <2>1. Len(s) \in 0..Len(s)
    BY <1>1
  <2> QED
    BY <2>1, PrefixFiltered
<1>4. PICK u : Filters(u, n, s, Len(s), S)
  BY <1>a
<1>5. u \in [1..n -> members] /\ Ordered(u) /\ (\A m \in members : \E j \in 1..n : u[j] = m)
  <2>1. u \in [1..n -> members] /\ (\A m \in members : \E j \in 1..n : u[j] = m)
    BY <1>1, <1>4, Zenon DEF Filters
  <2>2. DOMAIN u = 1..n
    BY <2>1
  <2>3. ASSUME NEW j \in 1..n, NEW k \in 1..n, j < k
        PROVE  \E p, q \in 1..Len(s) : p < q /\ s[p] = u[j] /\ s[q] = u[k]
    BY <1>4, <2>3, Zenon DEF Filters
  <2>4. Ordered(u)
    <3>1. ASSUME NEW j \in DOMAIN u, NEW k \in DOMAIN u, j < k
          PROVE  \E p, q \in DOMAIN s : p < q /\ s[p] = u[j] /\ s[q] = u[k]
      <4>1. j \in 1..n /\ k \in 1..n
        BY <2>2
      <4>2. PICK p, q \in 1..Len(s) : p < q /\ s[p] = u[j] /\ s[q] = u[k]
        BY <2>3, <3>1, <4>1
      <4> QED
        BY <1>1, <4>2
    <3> QED
      BY <3>1
  <2> QED
    BY <2>1, <2>4
<1>6. IsInjective(u)
  BY <1>3, <1>5
<1>7. u \in Injection(1..n, members) /\ u \in Surjection(1..n, members)
  BY <1>5, <1>6 DEF Injection, Surjection, IsInjective
<1>8. n = Cardinality(members)
  <2>1. Cardinality(1..n) = Cardinality(members)
    BY <1>2, <1>7, FS_Injection
  <2>2. Cardinality(1..n) = n
    BY FS_Interval
  <2> QED
    BY <2>1, <2>2
<1> DEFINE t == Among(s, S)
<1>9. t \in [1..Cardinality(members) -> members] /\ Ordered(t)
  <2>1. \E v \in [1..Cardinality(members) -> members] : Ordered(v)
    BY <1>5, <1>8
  <2>2. t = CHOOSE v \in [1..Cardinality(members) -> members] : Ordered(v)
    BY DEF Among
  <2> HIDE DEF Ordered, members, t
  <2> QED
    BY <2>1, <2>2
<1>10. IsInjective(t)
  <2>1. DOMAIN t \subseteq Nat
    BY <1>2, <1>9
  <2> HIDE DEF Ordered, t
  <2> QED
    BY <1>3, <1>9, <2>1
<1>11. t \in Injection(1..Cardinality(members), members)
  BY <1>9, <1>10 DEF Injection, IsInjective
<1>12. Cardinality(1..Cardinality(members)) = Cardinality(members)
  BY <1>2, FS_Interval
<1>13. t \in Surjection(1..Cardinality(members), members)
  BY <1>2, <1>11, <1>12, FS_Injection
<1>14. Range(t) = members
  BY <1>9, <1>13 DEF Range, Surjection
<1>15. t \in Seq(X)
  <2> HIDE DEF members, t
  <2>1. PICK c \in Nat : c = Cardinality(members)
    BY <1>2
  <2>2. t \in [1..c -> X]
    BY <1>1, <1>9, <2>1
  <2> QED
    BY <2>2
<1> QED
  BY <1>10, <1>14, <1>15

-----------------------------------------------------------------------------
(* The initial state.                                                      *)

LEMMA Constants ==
  /\ Users \subseteq Messages /\ Machines \subseteq Messages /\ Users \cap Machines = {}
  /\ IsFiniteSet(Messages) /\ IsFiniteSet(Users) /\ MaxFailures \in Nat
<1>1. Users \subseteq Messages /\ Machines \subseteq Messages /\ IsFiniteSet(Messages)
  BY SteeringAssumption DEF Messages, SteeringAssumption
<1> QED
  BY <1>1, SteeringAssumption, FS_Subset DEF SteeringAssumption

LEMMA InitInv == Init => IInv
<1> SUFFICES ASSUME Init PROVE IInv
  OBVIOUS
<1>1. /\ Range(<<>>) = {} /\ IsInjective(<<>>) /\ DOMAIN <<>> = {}
      /\ \A X : <<>> \in Seq(X)
  BY RangeEmpty
<1>2. /\ admitted = <<>> /\ steering = <<>> /\ poll = NoPoll /\ poll.batch = <<>> /\ discards = <<>>
      /\ conversation = <<>> /\ queue = {} /\ consumed = {} /\ claims = {} /\ awaiting = {}
      /\ drain.wait = {} /\ drain.list = <<>> /\ drain.tried = FALSE
  BY DEF Init, NoPoll, NoDrain
<1>3. /\ phase = "running" /\ host = "starting" /\ outcome = "none" /\ process = "up"
      /\ released = FALSE /\ failures = 0 /\ reason = "none" /\ paused = FALSE
  BY DEF Init
<1>4. ITypes
  <2>1. poll \in [batch: Seq(Messages), exit: BOOLEAN]
    BY DEF Init, NoPoll
  <2>2. drain \in [wait: SUBSET DOMAIN discards, list: Seq(DOMAIN discards), tried: BOOLEAN]
    BY <1>1, <1>2 DEF Init, NoDrain
  <2>3. /\ admitted \in Seq(Messages) /\ steering \in Seq(Messages) /\ discards \in Seq(Record)
        /\ conversation \in Seq(Users) /\ failures \in 0..MaxFailures
    BY <1>1, <1>2, <1>3, Constants
  <2>4. /\ IsInjective(admitted) /\ IsInjective(steering) /\ IsInjective(poll.batch)
        /\ IsInjective(conversation) /\ queue \subseteq Seq(Users)
        /\ consumed \subseteq Messages /\ awaiting \subseteq DOMAIN discards
        /\ \A i \in DOMAIN discards : IsInjective(discards[i].batch) /\ IsInjective(discards[i].left)
    BY <1>1, <1>2
  <2> QED
    BY <1>3, <2>1, <2>2, <2>3, <2>4 DEF ITypes
<1>5. IPlaces /\ ISaved /\ IMachines /\ IKept
  BY <1>1, <1>2 DEF IPlaces, ISaved, IMachines, IKept
<1>6. IControl
  BY <1>1, <1>2, <1>3 DEF IControl, BeforeEnd
<1>7. IQuiet /\ IOrder
  BY <1>1, <1>2, <1>3 DEF IQuiet, IOrder, InSendOrder
<1> QED
  BY <1>4, <1>5, <1>6, <1>7 DEF IInv

-----------------------------------------------------------------------------
(* Messages that move from one place to another.                           *)

\* A discard that was just made of the messages in moved.
Fresh(d, moved) ==
  /\ d \in Record /\ IsInjective(d.batch) /\ d.left = d.batch /\ Range(d.batch) = moved
  /\ d.pending = TRUE
  /\ \/ d.route = "teardown" /\ d.task = "none" /\ d.cause # "exit-close"
     \/ /\ d.route = "requeue" /\ d.task = "enqueue" /\ d.cause = "exit-close"
        /\ d.waiting = TRUE /\ d.stopped = FALSE

\* The user messages in moved are handed over, if there are any.
HandsOver(moved) ==
  \/ moved = {} /\ discards' = discards
  \/ moved # {} /\ \E d : Fresh(d, moved) /\ discards' = Append(discards, d)

LEMMA HandsOverFacts ==
  ASSUME ITypes, NEW moved, HandsOver(moved)
  PROVE  /\ discards' \in Seq(Record)
         /\ DOMAIN discards \subseteq DOMAIN discards'
         /\ \A i \in DOMAIN discards : discards'[i] = discards[i]
         /\ \A i \in DOMAIN discards' \ DOMAIN discards : Fresh(discards'[i], moved)
         /\ \A i, j \in DOMAIN discards' \ DOMAIN discards : i = j
         /\ moved = {} \/ \E i \in DOMAIN discards' \ DOMAIN discards : TRUE
         /\ discards # discards' => Len(discards') = Len(discards) + 1
<1>1. discards \in Seq(Record)
  BY DEF ITypes
<1>2. CASE moved = {} /\ discards' = discards
  BY <1>1, <1>2
<1>3. ASSUME NEW d, Fresh(d, moved), discards' = Append(discards, d)
      PROVE  /\ discards' \in Seq(Record) /\ Len(discards') = Len(discards) + 1
             /\ DOMAIN discards = 1..Len(discards) /\ DOMAIN discards' = 1..(Len(discards) + 1)
             /\ \A i \in DOMAIN discards : discards'[i] = discards[i]
             /\ discards'[Len(discards) + 1] = d /\ Len(discards) \in Nat
  <2>1. d \in Record
    BY <1>3 DEF Fresh
  <2> QED
    BY <1>1, <1>3, <2>1
<1>4. CASE \E d : Fresh(d, moved) /\ discards' = Append(discards, d)
  <2>1. PICK d : Fresh(d, moved) /\ discards' = Append(discards, d)
    BY <1>4
  <2>2. \A i \in DOMAIN discards' \ DOMAIN discards : i = Len(discards) + 1
    BY <1>3, <2>1
  <2>3. Len(discards) + 1 \in DOMAIN discards' \ DOMAIN discards
    BY <1>3, <2>1
  <2>4. DOMAIN discards \subseteq DOMAIN discards'
    BY <1>3, <2>1
  <2>5. \A i \in DOMAIN discards' \ DOMAIN discards : Fresh(discards'[i], moved)
    BY <1>3, <2>1, <2>2
  <2> QED
    BY <1>3, <2>1, <2>2, <2>3, <2>4, <2>5
<1> QED
  BY <1>2, <1>4 DEF HandsOver

InMemory == Range(steering) \cup Range(poll.batch)

Moves(moved) ==
  /\ HandsOver(moved)
  /\ UNCHANGED <<admitted, conversation, queue, paused>>
  /\ claims' = Range(poll'.batch)
  /\ moved \subseteq Users \cap InMemory /\ InMemory' \subseteq InMemory
  /\ consumed \subseteq consumed' /\ consumed' \subseteq consumed \cup InMemory
  /\ Range(steering') \cap Range(poll'.batch) = {}
  /\ consumed' \cap InMemory' = {} /\ moved \cap InMemory' = {} /\ moved \cap consumed' = {}
  /\ outcome' # "unstarted" =>
       outcome # "unstarted" /\ Users \cap InMemory \subseteq moved \cup consumed' \cup InMemory'

LEMMA MovesKeepPlaces ==
  ASSUME IInv, NEW moved, Moves(moved)
  PROVE  IPlaces'
<1>1. ITypes /\ IPlaces /\ HandsOver(moved)
  BY DEF IInv, Moves
<1>2. /\ \A i \in DOMAIN discards : i \in DOMAIN discards' /\ discards'[i] = discards[i]
      /\ \A i \in DOMAIN discards' : i \in DOMAIN discards \/ Fresh(discards'[i], moved)
      /\ \A i, j \in DOMAIN discards' : i = j \/ i \in DOMAIN discards \/ j \in DOMAIN discards
  BY <1>1, HandsOverFacts
<1>3. /\ admitted' = admitted /\ conversation' = conversation /\ claims' = Range(poll'.batch)
      /\ moved \subseteq InMemory /\ InMemory' \subseteq InMemory
      /\ consumed' \subseteq consumed \cup InMemory
      /\ Range(steering') \cap Range(poll'.batch) = {}
      /\ consumed' \cap InMemory' = {} /\ moved \cap InMemory' = {} /\ moved \cap consumed' = {}
  BY DEF Moves
<1>4. /\ InMemory \subseteq Range(admitted) /\ consumed \subseteq Range(admitted)
      /\ consumed \cap InMemory = {}
      /\ \A m \in Range(conversation) : \E i \in DOMAIN discards : m \in Range(discards[i].batch)
      /\ \A i \in DOMAIN discards :
           /\ Range(discards[i].left) \subseteq Range(discards[i].batch)
           /\ Range(discards[i].batch) \subseteq Range(admitted)
           /\ Range(discards[i].batch) \cap InMemory = {}
           /\ Range(discards[i].batch) \cap consumed = {}
           /\ Range(discards[i].left) \cap Range(conversation) = {}
           /\ \A j \in DOMAIN discards :
                i # j => Range(discards[i].batch) \cap Range(discards[j].batch) = {}
  BY <1>1 DEF IPlaces, InMemory
<1>5. ASSUME NEW i \in DOMAIN discards'
      PROVE  /\ Range(discards'[i].left) \subseteq Range(discards'[i].batch)
             /\ Range(discards'[i].batch) \subseteq Range(admitted)
             /\ Range(discards'[i].batch) \cap InMemory' = {}
             /\ Range(discards'[i].batch) \cap consumed' = {}
             /\ Range(discards'[i].left) \cap Range(conversation) = {}
  <2>1. CASE i \in DOMAIN discards
    BY <1>2, <1>3, <1>4, <2>1
  <2>2. CASE Fresh(discards'[i], moved)
    <3>1. Range(discards'[i].batch) = moved /\ discards'[i].left = discards'[i].batch
      BY <2>2 DEF Fresh
    <3>2. moved \cap Range(conversation) = {}
      BY <1>3, <1>4
    <3> QED
      BY <1>3, <1>4, <3>1, <3>2
  <2> QED
    BY <1>2, <2>1, <2>2
<1>6. ASSUME NEW i \in DOMAIN discards', NEW j \in DOMAIN discards', i # j
      PROVE  Range(discards'[i].batch) \cap Range(discards'[j].batch) = {}
  <2>1. CASE i \in DOMAIN discards /\ j \in DOMAIN discards
    BY <1>2, <1>4, <1>6, <2>1
  <2>2. CASE i \in DOMAIN discards /\ Fresh(discards'[j], moved)
    <3>1. Range(discards'[j].batch) = moved
      BY <2>2 DEF Fresh
    <3> QED
      BY <1>2, <1>3, <1>4, <2>2, <3>1
  <2>3. CASE j \in DOMAIN discards /\ Fresh(discards'[i], moved)
    <3>1. Range(discards'[i].batch) = moved
      BY <2>3 DEF Fresh
    <3> QED
      BY <1>2, <1>3, <1>4, <2>3, <3>1
  <2> QED
    BY <1>2, <1>6, <2>1, <2>2, <2>3
<1>7. \A m \in Range(conversation) : \E i \in DOMAIN discards' : m \in Range(discards'[i].batch)
  BY <1>2, <1>4
<1>8. InMemory' = Range(steering') \cup Range(poll'.batch)
  BY DEF InMemory
<1>9. InMemory' \cup consumed' \subseteq Range(admitted)
  BY <1>3, <1>4
<1> QED
  BY <1>3, <1>5, <1>6, <1>7, <1>8, <1>9 DEF IPlaces

LEMMA MovesKeepSaved ==
  ASSUME IInv, NEW moved, Moves(moved)
  PROVE  ISaved'
<1>1. ITypes /\ ISaved /\ HandsOver(moved) /\ queue' = queue /\ paused' = paused
  BY DEF IInv, Moves
<1>2. /\ \A i \in DOMAIN discards : i \in DOMAIN discards' /\ discards'[i] = discards[i]
      /\ \A i \in DOMAIN discards' : i \in DOMAIN discards \/ Fresh(discards'[i], moved)
  BY <1>1, HandsOverFacts
<1>3. ASSUME NEW b \in queue
      PROVE  \E i \in DOMAIN discards' :
               discards'[i].left = b /\ discards'[i].route = "requeue" /\ ~Writing(discards'[i])
  BY <1>1, <1>2 DEF ISaved
<1>4. ASSUME NEW i \in DOMAIN discards'
      PROVE  /\ discards'[i].task \in {"enqueue", "pause"} => discards'[i].route = "requeue"
             /\ discards'[i].task = "pause" => discards'[i].left \in queue
             /\ ~discards'[i].pending /\ discards'[i].left # <<>> =>
                  /\ discards'[i].left \in queue /\ discards'[i].route = "requeue"
                  /\ ~Writing(discards'[i])
                  /\ discards'[i].stopped => paused
  <2>1. CASE i \in DOMAIN discards
    BY <1>1, <1>2, <2>1 DEF ISaved
  <2>2. CASE Fresh(discards'[i], moved)
    BY <2>2 DEF Fresh
  <2> QED
    BY <1>2, <2>1, <2>2
<1> QED
  BY <1>1, <1>3, <1>4 DEF ISaved, Writing

LEMMA MovesKeepKept ==
  ASSUME IInv, NEW moved, Moves(moved)
  PROVE  IKept'
<1>1. ITypes /\ IKept /\ HandsOver(moved)
  BY DEF IInv, Moves
<1>2. /\ \A i \in DOMAIN discards : i \in DOMAIN discards' /\ discards'[i] = discards[i]
      /\ moved # {} => \E i \in DOMAIN discards' : Fresh(discards'[i], moved)
  BY <1>1, HandsOverFacts
<1> SUFFICES ASSUME outcome' # "unstarted", NEW u \in Users \cap Range(admitted)
             PROVE  Kept(u)'
  BY DEF IKept, Moves
<1>3. /\ consumed \subseteq consumed' /\ conversation' = conversation /\ queue' = queue
      /\ outcome # "unstarted" /\ Users \cap InMemory \subseteq moved \cup consumed' \cup InMemory'
  BY DEF Moves
<1>4. Kept(u)
  BY <1>1, <1>3 DEF IKept
<1>5. CASE u \in moved
  <2>1. PICK i \in DOMAIN discards' : Fresh(discards'[i], moved)
    BY <1>2, <1>5
  <2>2. discards'[i].pending /\ u \in Range(discards'[i].left)
    BY <1>5, <2>1 DEF Fresh
  <2> QED
    BY <2>2 DEF Kept
<1>6. CASE u \in InMemory /\ u \notin moved
  BY <1>3, <1>6 DEF Kept, InMemory
<1>7. CASE u \notin InMemory
  <2>1. CASE \E i \in DOMAIN discards : discards[i].pending /\ u \in Range(discards[i].left)
    BY <1>2, <2>1 DEF Kept
  <2>2. CASE u \in consumed \/ u \in Range(conversation) \/ \E b \in queue : u \in Range(b)
    BY <1>3, <2>2 DEF Kept
  <2> QED
    BY <1>4, <1>7, <2>1, <2>2 DEF Kept, InMemory
<1> QED
  BY <1>5, <1>6, <1>7

LEMMA SeqOver ==
  ASSUME NEW X, NEW s \in Seq(X), NEW Y, Range(s) \subseteq Y
  PROVE  s \in Seq(Y)
<1>1. \A k \in 1..Len(s) : s[k] \in Y
  BY RangeIn
<1> QED
  BY <1>1

LEMMA DiscardedHandsOver ==
  ASSUME ITypes, IPlaces, NEW messages \in Seq(Messages), IsInjective(messages),
         Range(messages) \subseteq InMemory,
         NEW cause \in {"abort", "abnormal-seal", "exit-close"},
         NEW why \in {"none", "user_stop", "other"}, cause = "exit-close" => why = "none",
         discards' = Discarded(messages, cause, why)
  PROVE  /\ HandsOver(Range(messages) \cap Users)
         /\ \A i \in DOMAIN discards' \ DOMAIN discards : discards'[i].cause = cause
<1> DEFINE batch == UsersIn(messages)
           new == NewDiscard(batch, cause, why)
<1>1. /\ batch \in Seq(Messages) /\ IsInjective(batch)
      /\ Range(batch) = Range(messages) \cap Users
  BY Constants, AmongFacts DEF UsersIn
<1>2. batch \in Seq(Users)
  BY <1>1, SeqOver
<1> HIDE DEF batch
<1>3. Fresh(new, Range(messages) \cap Users) /\ new.cause = cause
  <2>1. CASE cause = "exit-close"
    <3>1. new = [batch |-> batch, left |-> batch, cause |-> cause, stopped |-> FALSE,
                 route |-> "requeue", pending |-> TRUE, task |-> "enqueue", lane |-> 1,
                 waiting |-> TRUE, wake |-> "none"]
      BY <2>1 DEF NewDiscard
    <3> HIDE DEF new
    <3> QED
      BY <1>1, <1>2, <2>1, <3>1 DEF Fresh, Record
  <2>2. CASE cause # "exit-close"
    <3>1. new = [batch |-> batch, left |-> batch, cause |-> cause, stopped |-> (why = "user_stop"),
                 route |-> "teardown", pending |-> TRUE, task |-> "none", lane |-> 3,
                 waiting |-> FALSE, wake |-> "none"]
      BY <2>2 DEF NewDiscard
    <3> HIDE DEF new
    <3> QED
      BY <1>1, <1>2, <2>2, <3>1 DEF Fresh, Record
  <2> QED
    BY <2>1, <2>2
<1>4. CASE batch = <<>>
  <2>1. discards' = discards
    BY <1>4 DEF Discarded, batch
  <2>2. Range(messages) \cap Users = {}
    BY <1>1, <1>4, RangeEmpty
  <2> QED
    BY <2>1, <2>2 DEF HandsOver
<1>5. CASE batch # <<>>
  <2>1. \A i \in DOMAIN discards : discards[i].batch # batch
    <3> SUFFICES ASSUME NEW i \in DOMAIN discards, discards[i].batch = batch PROVE FALSE
      OBVIOUS
    <3>1. Range(batch) # {}
      BY <1>2, <1>5, RangeIn
    <3>2. Range(batch) \subseteq InMemory
      BY <1>1
    <3>3. Range(discards[i].batch) \cap InMemory = {}
      BY DEF IPlaces, InMemory
    <3> QED
      BY <3>1, <3>2, <3>3
  <2>2. discards' = Append(discards, new)
    BY <1>5, <2>1 DEF Discarded, batch
  <2>3. HandsOver(Range(messages) \cap Users)
    <3>1. Range(messages) \cap Users # {}
      BY <1>1, <1>2, <1>5, RangeIn
    <3> QED
      BY <1>3, <2>2, <3>1 DEF HandsOver
  <2>4. \A i \in DOMAIN discards' \ DOMAIN discards : discards'[i] = new
    <3>1. discards \in Seq(Record) /\ new \in Record
      BY <1>3 DEF ITypes, Fresh
    <3> HIDE DEF new
    <3> QED
      BY <2>2, <3>1
  <2> QED
    BY <1>3, <2>3, <2>4
<1> QED
  BY <1>4, <1>5

\* Until the host has ended, what is handed over waits for the commit before
\* the release; the exit-close batch is handed over before shutdown.
Open == BeforeEnd \cup {"ended"}

Calm(moved) ==
  /\ UNCHANGED <<process, drain, failures, awaiting>>
  /\ released => released'
  /\ host' = host \/ (host \in Open /\ host' \in Open)
  /\ moved # {} => host \in Open \/ (discards = <<>> /\ outcome' = "unstarted")
  /\ \A i \in DOMAIN discards' \ DOMAIN discards :
       discards'[i].cause = "exit-close" => process = "up"

ScalarTypes ==
  /\ phase \in {"running", "closing", "aborted"}
  /\ reason \in {"none", "user_stop", "other"}
  /\ released \in BOOLEAN
  /\ steering \in Seq(Messages) /\ IsInjective(steering)
  /\ host \in {"starting", "running", "polling", "failing", "closed",
               "ended", "committing", "settling", "stuck", "done"}
  /\ outcome \in {"none", "unstarted", "completed", "failed", "aborted"}
  /\ poll \in [batch: Seq(Messages), exit: BOOLEAN] /\ IsInjective(poll.batch)

LEMMA MovesKeepTypes ==
  ASSUME IInv, NEW moved, Moves(moved), ScalarTypes',
         awaiting' \subseteq DOMAIN discards, failures' \in 0..MaxFailures,
         process' \in {"up", "first", "each", "last", "down"},
         drain' \in [wait: SUBSET DOMAIN discards, list: Seq(DOMAIN discards), tried: BOOLEAN]
  PROVE  ITypes'
<1>1. ITypes /\ IPlaces /\ HandsOver(moved)
  BY DEF IInv, Moves
<1>2. /\ discards' \in Seq(Record) /\ DOMAIN discards \subseteq DOMAIN discards'
      /\ \A i \in DOMAIN discards : discards'[i] = discards[i]
      /\ \A i \in DOMAIN discards' : i \in DOMAIN discards \/ Fresh(discards'[i], moved)
  BY <1>1, HandsOverFacts
<1>3. ASSUME NEW i \in DOMAIN discards'
      PROVE  IsInjective(discards'[i].batch) /\ IsInjective(discards'[i].left)
  <2>1. CASE i \in DOMAIN discards
    BY <1>1, <1>2, <2>1 DEF ITypes
  <2>2. CASE Fresh(discards'[i], moved)
    BY <2>2 DEF Fresh
  <2> QED
    BY <1>2, <2>1, <2>2
<1>4. drain' \in [wait: SUBSET DOMAIN discards', list: Seq(DOMAIN discards'), tried: BOOLEAN]
  <2>1. drain'.list \in Seq(DOMAIN discards') /\ drain'.wait \subseteq DOMAIN discards'
    <3>1. Range(drain'.list) \subseteq DOMAIN discards'
      BY <1>2, RangeIn
    <3> QED
      BY <1>2, <3>1, SeqOver
  <2> QED
    BY <2>1
<1>5. consumed' \subseteq Messages
  <2>1. InMemory \subseteq Messages
    BY <1>1, RangeIn DEF ITypes, InMemory
  <2> QED
    BY <1>1, <2>1 DEF Moves, ITypes
<1>6. /\ admitted' \in Seq(Messages) /\ IsInjective(admitted')
      /\ conversation' \in Seq(Users) /\ IsInjective(conversation') /\ queue' \subseteq Seq(Users)
      /\ paused' \in BOOLEAN
  BY <1>1 DEF Moves, ITypes
<1> QED
  BY <1>2, <1>3, <1>4, <1>5, <1>6 DEF ITypes, ScalarTypes

LEMMA CalmKeepsQuiet ==
  ASSUME IInv, NEW moved, Moves(moved), Calm(moved)
  PROVE  IQuiet'
<1>1. ITypes /\ IControl /\ IQuiet /\ HandsOver(moved)
  BY DEF IInv, Moves
<1>2. /\ \A i \in DOMAIN discards : i \in DOMAIN discards' /\ discards'[i] = discards[i]
      /\ \A i \in DOMAIN discards' : i \in DOMAIN discards \/ Fresh(discards'[i], moved)
  BY <1>1, HandsOverFacts
<1>3. /\ process' = process /\ drain' = drain /\ failures' = failures /\ awaiting' = awaiting
      /\ host' = host \/ (host \in Open /\ host' \in Open)
      /\ outcome' # "unstarted" => outcome # "unstarted"
      /\ \A i \in DOMAIN discards' \ DOMAIN discards :
           discards'[i].cause = "exit-close" => process = "up"
  BY DEF Calm, Moves
<1>4. ASSUME failures = 0, outcome' # "unstarted", NEW i \in DOMAIN discards', discards'[i].pending
      PROVE  OnItsWay(i)'
  <2>1. CASE i \in DOMAIN discards
    <3>1. OnItsWay(i) /\ discards'[i] = discards[i]
      BY <1>1, <1>2, <1>3, <1>4, <2>1 DEF IQuiet
    <3>2. host' \in Open <=> host \in Open
      BY <1>3
    <3>3. host' = "committing" <=> host = "committing"
      BY <1>3 DEF Open, BeforeEnd
    <3> QED
      BY <1>3, <3>1, <3>2, <3>3 DEF OnItsWay, Open
  <2>2. CASE i \notin DOMAIN discards
    <3>1. Fresh(discards'[i], moved)
      BY <1>2, <2>2
    <3>2. CASE discards'[i].cause = "exit-close"
      <4>1. discards'[i].task = "enqueue" /\ discards'[i].waiting /\ ~discards'[i].stopped
        BY <3>1, <3>2 DEF Fresh
      <4>2. process' = "up"
        BY <1>3, <2>2, <3>2
      <4> QED
        BY <4>1, <4>2 DEF OnItsWay
    <3>3. CASE discards'[i].cause # "exit-close"
      <4>1. discards'[i].task = "none" /\ discards'[i].route = "teardown"
        BY <3>1, <3>3 DEF Fresh
      <4>2. moved # {}
        BY <1>1, <2>2 DEF HandsOver
      <4>3. host' \in Open
        BY <1>3, <1>4, <4>2 DEF Calm
      <4> QED
        BY <4>1, <4>3 DEF OnItsWay, Open
    <3> QED
      BY <3>2, <3>3
  <2> QED
    BY <2>1, <2>2
<1>5. ASSUME process = "each", drain.tried
      PROVE  /\ drain.list # <<>> /\ drain.wait \subseteq {Head(drain.list)}
             /\ failures = 0 /\ drain.wait = {} => ~discards'[Head(drain.list)].pending
  <2>1. /\ drain.list # <<>> /\ drain.wait \subseteq {Head(drain.list)}
        /\ failures = 0 /\ drain.wait = {} => ~discards[Head(drain.list)].pending
    BY <1>1, <1>5 DEF IQuiet
  <2>2. Head(drain.list) \in DOMAIN discards
    <3>1. drain.list \in Seq(DOMAIN discards)
      BY <1>1 DEF ITypes
    <3> QED
      BY <2>1, <3>1
  <2> QED
    BY <1>2, <2>1, <2>2
<1> QED
  BY <1>3, <1>4, <1>5 DEF IQuiet

Late == {"committing", "settling", "stuck", "done"}

LEMMA CalmKeepsOrder ==
  ASSUME IInv, NEW moved, Moves(moved), Calm(moved)
  PROVE  IOrder'
<1>1. ITypes /\ IPlaces /\ IOrder /\ HandsOver(moved)
  BY DEF IInv, Moves
<1>2. /\ \A i \in DOMAIN discards : i \in DOMAIN discards' /\ discards'[i] = discards[i]
      /\ \A i \in DOMAIN discards' : i \in DOMAIN discards \/ Fresh(discards'[i], moved)
      /\ \A i, j \in DOMAIN discards' : i = j \/ i \in DOMAIN discards \/ j \in DOMAIN discards
  BY <1>1, HandsOverFacts
<1>3. /\ process' = process /\ failures' = failures /\ awaiting' = awaiting
      /\ released => released'
      /\ host' = host \/ (host \in Open /\ host' \in Open)
      /\ conversation' = conversation /\ admitted' = admitted
      /\ moved # {} => host \in Open \/ discards = <<>>
  BY DEF Calm, Moves
<1>4. \A i \in DOMAIN discards' : Fresh(discards'[i], moved) => ~Writing(discards'[i])
  BY DEF Fresh, Writing
<1>5. ASSUME process = "up", conversation # <<>> \/ \E i \in DOMAIN discards' : Writing(discards'[i])
      PROVE  host' \in Late
  <2>1. conversation # <<>> \/ \E i \in DOMAIN discards : Writing(discards[i])
    BY <1>2, <1>4, <1>5
  <2>2. host \in Late
    BY <1>1, <1>5, <2>1 DEF IOrder, Late
  <2> QED
    BY <1>3, <2>2 DEF Late, Open, BeforeEnd
<1>6. ASSUME process = "up", moved # {}
      PROVE  conversation = <<>> /\ \A i \in DOMAIN discards : ~Writing(discards[i])
  <2>1. CASE host \in Open
    BY <1>1, <1>6, <2>1 DEF IOrder, Open, BeforeEnd
  <2>2. CASE discards = <<>>
    <3>1. Range(conversation) = {}
      BY <1>1, <2>2 DEF IPlaces
    <3>2. conversation = <<>>
      BY <1>1, <3>1, RangeIn DEF ITypes
    <3> QED
      BY <2>2, <3>2
  <2> QED
    BY <1>3, <1>6, <2>1, <2>2
<1>7. \A i \in DOMAIN discards' : i \notin DOMAIN discards => moved # {}
  BY <1>1 DEF HandsOver
<1>8. \A m : CreatedAt(m)' = CreatedAt(m)
  BY <1>3 DEF CreatedAt
<1>9. ASSUME process = "up", failures = 0
      PROVE  /\ InSendOrder'
             /\ \A i \in DOMAIN discards' :
                  /\ discards'[i].task = "teardown" => released'
                  /\ discards'[i].task = "merged" => i \in awaiting
                  /\ Rows(discards'[i]) =>
                       \A m \in Range(discards'[i].left), c \in Range(conversation) :
                         CreatedAt(c) < CreatedAt(m)
                  /\ \A j \in DOMAIN discards' :
                       i # j /\ Writing(discards'[i]) /\ Rows(discards'[j]) /\ discards'[j].left # <<>> =>
                         discards'[i].task = "merged" /\ discards'[j].task = "merged"
  <2>1. /\ InSendOrder
        /\ \A i \in DOMAIN discards :
             /\ discards[i].task = "teardown" => released
             /\ discards[i].task = "merged" => i \in awaiting
             /\ Rows(discards[i]) =>
                  \A m \in Range(discards[i].left), c \in Range(conversation) :
                    CreatedAt(c) < CreatedAt(m)
             /\ \A j \in DOMAIN discards :
                  i # j /\ Writing(discards[i]) /\ Rows(discards[j]) /\ discards[j].left # <<>> =>
                    discards[i].task = "merged" /\ discards[j].task = "merged"
    BY <1>1, <1>9 DEF IOrder
  <2>2. InSendOrder'
    BY <1>3, <1>8, <2>1 DEF InSendOrder
  <2> SUFFICES ASSUME NEW i \in DOMAIN discards'
               PROVE  /\ discards'[i].task = "teardown" => released'
                      /\ discards'[i].task = "merged" => i \in awaiting
                      /\ Rows(discards'[i]) =>
                           \A m \in Range(discards'[i].left), c \in Range(conversation) :
                             CreatedAt(c) < CreatedAt(m)
                      /\ \A j \in DOMAIN discards' :
                           i # j /\ Writing(discards'[i]) /\ Rows(discards'[j]) /\ discards'[j].left # <<>> =>
                             discards'[i].task = "merged" /\ discards'[j].task = "merged"
    BY <2>2
  <2>3. CASE i \notin DOMAIN discards
    <3>1. Fresh(discards'[i], moved) /\ ~Writing(discards'[i]) /\ conversation = <<>>
      BY <1>2, <1>4, <1>6, <1>7, <1>9, <2>3
    <3>2. Range(conversation) = {}
      BY <3>1, RangeEmpty
    <3> QED
      BY <3>1, <3>2 DEF Writing
  <2>4. CASE i \in DOMAIN discards
    <3>1. discards'[i] = discards[i]
      BY <1>2, <2>4
    <3>2. ASSUME NEW j \in DOMAIN discards', i # j, Writing(discards'[i]), Rows(discards'[j]),
                 discards'[j].left # <<>>
          PROVE  discards'[i].task = "merged" /\ discards'[j].task = "merged"
      <4>1. j \in DOMAIN discards
        BY <1>6, <1>7, <1>9, <2>4, <3>1, <3>2
      <4> QED
        BY <1>2, <2>1, <2>4, <3>1, <3>2, <4>1
    <3> QED
      BY <1>3, <2>1, <2>4, <3>1, <3>2
  <2> QED
    BY <2>3, <2>4
<1> QED
  BY <1>3, <1>5, <1>8, <1>9 DEF IOrder, Late, Writing, Rows

LEMMA MovesInv ==
  ASSUME IInv, NEW moved, Moves(moved), Calm(moved), ScalarTypes', IControl', IMachines'
  PROVE  IInv'
<1>1. /\ awaiting' \subseteq DOMAIN discards /\ failures' \in 0..MaxFailures
      /\ process' \in {"up", "first", "each", "last", "down"}
      /\ drain' \in [wait: SUBSET DOMAIN discards, list: Seq(DOMAIN discards), tried: BOOLEAN]
  BY DEF IInv, ITypes, Calm
<1> QED
  BY <1>1, MovesKeepTypes, MovesKeepPlaces, MovesKeepSaved, MovesKeepKept, CalmKeepsQuiet,
     CalmKeepsOrder DEF IInv

\* The messages stay where they are.
Still == UNCHANGED <<discards, admitted, conversation, queue, paused, claims, steering, poll, consumed>>

LEMMA StillMoves ==
  ASSUME IInv, Still, outcome' # "unstarted" => outcome # "unstarted"
  PROVE  Moves({})
<1>1. IPlaces
  BY DEF IInv
<1>2. InMemory' = InMemory
  BY DEF Still, InMemory
<1>3. HandsOver({})
  BY DEF Still, HandsOver
<1> QED
  BY <1>1, <1>2, <1>3 DEF Moves, Still, IPlaces, InMemory

\* All that waits is handed over.
LEMMA SteeringMoves ==
  ASSUME IInv, NEW cause \in {"abort", "abnormal-seal", "exit-close"},
         NEW why \in {"none", "user_stop", "other"}, cause = "exit-close" => why = "none",
         discards' = Discarded(steering, cause, why), steering' = <<>>, claims' = claims,
         UNCHANGED <<poll, consumed, admitted, conversation, queue, paused>>,
         outcome' # "unstarted" => outcome # "unstarted"
  PROVE  /\ Moves(Range(steering) \cap Users)
         /\ \A i \in DOMAIN discards' \ DOMAIN discards : discards'[i].cause = cause
<1>1. ITypes /\ IPlaces
  BY DEF IInv
<1>2. steering \in Seq(Messages) /\ IsInjective(steering) /\ Range(steering) \subseteq InMemory
  BY <1>1 DEF ITypes, InMemory
<1>3. /\ HandsOver(Range(steering) \cap Users)
      /\ \A i \in DOMAIN discards' \ DOMAIN discards : discards'[i].cause = cause
  BY <1>1, <1>2, DiscardedHandsOver
<1>4. Range(steering') = {} /\ InMemory' = Range(poll.batch)
  BY RangeEmpty DEF InMemory
<1>5. Moves(Range(steering) \cap Users)
  BY <1>1, <1>3, <1>4 DEF Moves, IPlaces, InMemory
<1> QED
  BY <1>3, <1>5

-----------------------------------------------------------------------------
(* The entry and the host.                                                 *)

LEMMA AbortStep ==
  ASSUME IInv, NEW why \in {"user_stop", "other"}, Abort(why)
  PROVE  IInv'
<1>1. /\ phase = "running" /\ phase' = "aborted" /\ reason' = why /\ ~released
      /\ discards' = Discarded(steering, "abort", why) /\ steering' = <<>> /\ claims' = claims
      /\ UNCHANGED <<released, admitted, host, outcome, poll, consumed, awaiting, conversation,
                     queue, paused, process, drain, failures>>
  BY DEF Abort, AbortEntry, work, saved
<1>2. ITypes /\ IControl /\ IMachines
  BY DEF IInv
<1>3. /\ Moves(Range(steering) \cap Users)
      /\ \A i \in DOMAIN discards' \ DOMAIN discards : discards'[i].cause = "abort"
  BY <1>1, SteeringMoves
<1>4. host \in Open \/ (discards = <<>> /\ outcome = "unstarted")
  BY <1>1, <1>2 DEF IControl, Open
<1>5. Calm(Range(steering) \cap Users)
  BY <1>1, <1>3, <1>4 DEF Calm
<1>6. ScalarTypes'
  BY <1>1, <1>2, RangeEmpty DEF ITypes, ScalarTypes
<1>7. IControl'
  <2>1. host = "starting" \/ outcome = "unstarted" => Len(discards') <= 1
    <3>1. ASSUME host = "starting" \/ outcome = "unstarted" PROVE Len(discards) = 0
      BY <1>1, <1>2, <3>1 DEF IControl
    <3>2. Len(discards') \in Nat /\ (discards' = discards \/ Len(discards') = Len(discards) + 1)
      BY <1>2, <1>3, HandsOverFacts DEF Moves
    <3> QED
      BY <3>1, <3>2
  <2> QED
    BY <1>1, <1>2, <2>1 DEF IControl
<1>8. IMachines'
  BY <1>1, <1>2 DEF IMachines, IControl
<1> QED
  BY <1>3, <1>5, <1>6, <1>7, <1>8, MovesInv

\* Steps of the host that leave the messages alone.
LEMMA HostStillStep ==
  ASSUME IInv, StartHost \/ PreHostFailure \/ StopHookContinues \/ HostCompletes
  PROVE  IInv'
<1>1. /\ Still
      /\ UNCHANGED <<phase, reason, released, awaiting, process, drain, failures>>
  BY DEF StartHost, PreHostFailure, StopHookContinues, HostCompletes, Still, entry, saved
<1>2. \/ /\ host = "starting" /\ phase = "aborted" /\ host' = "ended" /\ outcome' \in {"aborted", "failed"}
      \/ host = "starting" /\ phase # "aborted" /\ host' = "running" /\ outcome' = outcome
      \/ host = "starting" /\ host' = "ended" /\ outcome' = "unstarted"
      \/ host = "closed" /\ host' = "running" /\ outcome' = outcome
      \/ host = "closed" /\ host' = "ended" /\ outcome' = "completed"
  BY DEF StartHost, PreHostFailure, StopHookContinues, HostCompletes
<1>3. ITypes /\ IControl /\ IMachines
  BY DEF IInv
<1>4. outcome = "none"
  BY <1>2, <1>3 DEF IControl, BeforeEnd
<1>5. Moves({})
  BY <1>1, <1>4, StillMoves
<1>6. Calm({})
  <2>1. host \in Open /\ host' \in Open
    BY <1>2 DEF Open, BeforeEnd
  <2> QED
    BY <1>1, <2>1 DEF Calm, Still
<1>7. ScalarTypes'
  BY <1>1, <1>2, <1>3 DEF ITypes, ScalarTypes, Still
<1>8. IControl'
  BY <1>1, <1>2, <1>3, <1>4 DEF IControl, BeforeEnd, Still
<1>9. IMachines'
  BY <1>1, <1>2, <1>3, <1>4 DEF IMachines, IControl, BeforeEnd, Still
<1> QED
  BY <1>5, <1>6, <1>7, <1>8, <1>9, MovesInv

LEMMA PollBeginStep ==
  ASSUME IInv, NEW exit \in BOOLEAN, PollBegin(exit)
  PROVE  IInv'
<1>1. /\ host = "running" /\ phase # "aborted" /\ steering # <<>> /\ host' = "polling"
      /\ poll' = [batch |-> steering, exit |-> exit] /\ claims' = claims \cup Range(steering)
      /\ steering' = <<>>
      /\ UNCHANGED <<phase, reason, released, admitted, outcome, consumed, awaiting, discards,
                     conversation, queue, paused, process, drain, failures>>
  BY DEF PollBegin, saved
<1>2. ITypes /\ IPlaces /\ IControl /\ IMachines
  BY DEF IInv
<1>3. /\ poll.batch = <<>> /\ Range(poll.batch) = {} /\ poll'.batch = steering
      /\ Range(steering') = {} /\ phase = "running"
  BY <1>1, <1>2, RangeEmpty DEF IControl, NoPoll, ITypes
<1>4. InMemory = Range(steering) /\ InMemory' = Range(steering)
  BY <1>3 DEF InMemory
<1>5. Moves({})
  <2>1. HandsOver({})
    BY <1>1 DEF HandsOver
  <2> QED
    BY <1>1, <1>2, <1>3, <1>4, <2>1 DEF Moves, IPlaces
<1>6. Calm({})
  BY <1>1 DEF Calm, Open, BeforeEnd
<1>7. ScalarTypes'
  BY <1>1, <1>2, RangeEmpty DEF ITypes, ScalarTypes
<1>8. IControl'
  BY <1>1, <1>2, <1>3 DEF IControl, BeforeEnd
<1>9. IMachines'
  BY <1>1, <1>2, <1>3 DEF IMachines, BeforeEnd, IControl
<1> QED
  BY <1>5, <1>6, <1>7, <1>8, <1>9, MovesInv

LEMMA TryBeginCloseStep ==
  ASSUME IInv, TryBeginClose
  PROVE  IInv'
<1>1. /\ host = "running" /\ phase # "aborted" /\ Range(steering) \subseteq Users
      /\ phase' = "closing" /\ host' = "closed"
      /\ discards' = Discarded(steering, "exit-close", "none") /\ steering' = <<>>
      /\ UNCHANGED <<reason, released, admitted, claims, outcome, poll, consumed, awaiting,
                     conversation, queue, paused, process, drain, failures>>
  BY DEF TryBeginClose, saved
<1>2. ITypes /\ IPlaces /\ IControl /\ IMachines
  BY DEF IInv
<1>3. /\ Moves(Range(steering) \cap Users)
      /\ \A i \in DOMAIN discards' \ DOMAIN discards : discards'[i].cause = "exit-close"
  BY <1>1, SteeringMoves
<1>4. outcome = "none" /\ ~released /\ process = "up" /\ poll.batch = <<>> /\ Range(poll.batch) = {}
  BY <1>1, <1>2, RangeEmpty DEF IControl, BeforeEnd, NoPoll
<1>5. Calm(Range(steering) \cap Users)
  BY <1>1, <1>4 DEF Calm, Open, BeforeEnd
<1>6. ScalarTypes'
  BY <1>1, <1>2, RangeEmpty DEF ITypes, ScalarTypes
<1>7. IControl'
  BY <1>1, <1>2, <1>4 DEF IControl, BeforeEnd
<1>8. IMachines'
  <2>1. Machines \cap Range(admitted) \subseteq consumed
    <3>1. CASE phase = "running"
      BY <1>1, <1>2, <1>4, <3>1, Constants DEF IMachines, BeforeEnd
    <3>2. CASE phase = "closing"
      BY <1>1, <1>2, <3>2 DEF IMachines
    <3> QED
      BY <1>1, <1>2, <3>1, <3>2 DEF ITypes
  <2> QED
    BY <1>1, <2>1 DEF IMachines
<1> QED
  BY <1>3, <1>5, <1>6, <1>7, <1>8, MovesInv

LEMMA HostEndsAbnormallyStep ==
  ASSUME IInv, HostEndsAbnormally
  PROVE  IInv'
<1>1. /\ host \in {"running", "failing", "closed"} /\ host' = "ended"
      /\ outcome' \in {"aborted", "failed"}
      /\ discards' = Discarded(steering, "abnormal-seal", reason) /\ steering' = <<>> /\ claims' = {}
      /\ phase' = IF phase = "aborted" THEN phase ELSE "closing"
      /\ UNCHANGED <<reason, released, admitted, poll, consumed, awaiting, conversation, queue,
                     paused, process, drain, failures>>
  BY DEF HostEndsAbnormally, saved
<1>2. ITypes /\ IPlaces /\ IControl
  BY DEF IInv
<1>3. outcome = "none" /\ poll.batch = <<>> /\ Range(poll.batch) = {} /\ claims' = claims /\ poll = NoPoll
  BY <1>1, <1>2, RangeEmpty DEF IControl, BeforeEnd, NoPoll, IPlaces
<1>4. reason \in {"none", "user_stop", "other"}
  BY <1>2 DEF ITypes
<1>5. /\ Moves(Range(steering) \cap Users)
      /\ \A i \in DOMAIN discards' \ DOMAIN discards : discards'[i].cause = "abnormal-seal"
  BY <1>1, <1>3, <1>4, SteeringMoves
<1>6. Calm(Range(steering) \cap Users)
  BY <1>1, <1>5 DEF Calm, Open, BeforeEnd
<1>7. ScalarTypes'
  BY <1>1, <1>2, RangeEmpty DEF ITypes, ScalarTypes
<1>8. IControl'
  BY <1>1, <1>2, <1>3 DEF IControl, BeforeEnd
<1>9. IMachines'
  BY <1>1, <1>3 DEF IMachines, BeforeEnd
<1> QED
  BY <1>5, <1>6, <1>7, <1>8, <1>9, MovesInv

LEMMA FinishPollStep ==
  ASSUME IInv, host = "polling", host' \in {"running", "failing"},
         NEW accepted \in SUBSET Range(poll.batch), FinishPoll(accepted)
  PROVE  IInv'
<1> DEFINE given == Among(poll.batch, Range(poll.batch) \ accepted)
           restored == Among(given, claims)
<1>1. /\ RestoreSteering(given)
      /\ claims' = claims \ Range(poll.batch) /\ consumed' = consumed \cup accepted /\ poll' = NoPoll
      /\ UNCHANGED <<phase, reason, released, admitted, outcome, awaiting, conversation, queue,
                     paused, process, drain, failures>>
  BY DEF FinishPoll, saved
<1>2. ITypes /\ IPlaces /\ IControl /\ IMachines
  BY DEF IInv
<1>3. /\ claims = Range(poll.batch) /\ claims' = {} /\ poll'.batch = <<>> /\ Range(poll'.batch) = {}
      /\ outcome = "none" /\ phase # "closing"
  BY <1>1, <1>2, RangeEmpty DEF IPlaces, NoPoll, IControl, BeforeEnd
<1>4. /\ given \in Seq(Messages) /\ IsInjective(given)
      /\ Range(given) = Range(poll.batch) \ accepted
  <2>1. poll.batch \in Seq(Messages) /\ IsInjective(poll.batch)
    BY <1>2 DEF ITypes
  <2>2. Range(given) = Range(poll.batch) \cap (Range(poll.batch) \ accepted)
        /\ given \in Seq(Messages) /\ IsInjective(given)
    BY <2>1, Constants, AmongFacts
  <2> QED
    BY <2>2
<1> HIDE DEF given
<1>5. /\ restored \in Seq(Messages) /\ IsInjective(restored)
      /\ Range(restored) = Range(poll.batch) \ accepted
  <2>1. Range(restored) = Range(given) \cap claims /\ restored \in Seq(Messages) /\ IsInjective(restored)
    BY <1>4, Constants, AmongFacts
  <2> QED
    BY <1>3, <1>4, <2>1
<1>6. /\ phase = "aborted" => discards' = Discarded(restored, "abort", reason) /\ steering' = steering
      /\ phase # "aborted" => steering' = restored \o steering /\ discards' = discards
  BY <1>1 DEF RestoreSteering
<1> HIDE DEF restored
<1>7. /\ InMemory = Range(steering) \cup Range(poll.batch) /\ InMemory' = Range(steering')
      /\ Range(steering) \cap Range(poll.batch) = {}
      /\ consumed \cap Range(steering) = {} /\ consumed \cap Range(poll.batch) = {}
  BY <1>2, <1>3 DEF InMemory, IPlaces
<1>8. host \in Open /\ host' \in Open
  BY DEF Open, BeforeEnd
<1>9. CASE phase = "aborted"
  <2> DEFINE moved == Range(restored) \cap Users
  <2>1. reason \in {"none", "user_stop", "other"} /\ steering = <<>> /\ Range(steering) = {}
    BY <1>2, <1>9, RangeEmpty DEF ITypes, IControl
  <2>2. Range(restored) \subseteq InMemory
    BY <1>5, <1>7
  <2>3. /\ HandsOver(moved)
        /\ \A i \in DOMAIN discards' \ DOMAIN discards : discards'[i].cause = "abort"
    BY <1>2, <1>5, <1>6, <1>9, <2>1, <2>2, DiscardedHandsOver
  <2>4. Moves(moved)
    BY <1>1, <1>3, <1>5, <1>6, <1>7, <1>9, <2>1, <2>3 DEF Moves
  <2>5. Calm(moved)
    BY <1>1, <1>8, <2>3 DEF Calm
  <2>6. ScalarTypes'
    BY <1>1, <1>2, <1>3, <1>6, <1>9, RangeEmpty DEF ITypes, ScalarTypes, NoPoll
  <2>7. IControl'
    BY <1>1, <1>2, <1>3, <1>6, <1>9 DEF IControl, BeforeEnd
  <2>8. IMachines'
    BY <1>1, <1>3, <1>9 DEF IMachines
  <2> HIDE DEF moved
  <2> QED
    BY <2>4, <2>5, <2>6, <2>7, <2>8, MovesInv
<1>10. CASE phase # "aborted"
  <2>1. steering \in Seq(Messages) /\ IsInjective(steering)
    BY <1>2 DEF ITypes
  <2>2. /\ steering' \in Seq(Messages) /\ Range(steering') = Range(restored) \cup Range(steering)
        /\ IsInjective(steering')
    <3>1. Range(restored) \cap Range(steering) = {}
      BY <1>5, <1>7
    <3>2. /\ restored \o steering \in Seq(Messages)
          /\ Range(restored \o steering) = Range(restored) \cup Range(steering)
          /\ IsInjective(restored \o steering)
      BY <1>5, <2>1, <3>1, ConcatFacts
    <3> QED
      BY <1>6, <1>10, <3>2, Zenon
  <2>3. Moves({})
    <3>1. HandsOver({})
      BY <1>6, <1>10 DEF HandsOver
    <3>2. /\ InMemory' \subseteq InMemory /\ consumed' \subseteq consumed \cup InMemory
          /\ consumed' \cap InMemory' = {} /\ InMemory \subseteq consumed' \cup InMemory'
      BY <1>1, <1>5, <1>7, <2>2
    <3> QED
      BY <1>1, <1>3, <3>1, <3>2 DEF Moves
  <2>4. Calm({})
    BY <1>1, <1>6, <1>8, <1>10 DEF Calm
  <2>5. ScalarTypes'
    BY <1>1, <1>2, <1>3, <2>2, RangeEmpty DEF ITypes, ScalarTypes, NoPoll
  <2>6. IControl'
    BY <1>1, <1>2, <1>3, <1>6, <1>10 DEF IControl, BeforeEnd
  <2>7. IMachines'
    BY <1>1, <1>2, <1>3, <1>5, <1>8, <1>10, <2>2 DEF IMachines, BeforeEnd, ITypes
  <2> QED
    BY <2>3, <2>4, <2>5, <2>6, <2>7, MovesInv
<1> QED
  BY <1>9, <1>10

LEMMA PollEndsStep ==
  ASSUME IInv, PollConsumes \/ PollGivesBack
  PROVE  IInv'
<1>1. CASE PollConsumes
  <2> DEFINE accepted == Range(poll.batch) \ IF poll.exit THEN Users ELSE {}
  <2>1. /\ host = "polling" /\ host' \in {"running", "failing"}
        /\ accepted \in SUBSET Range(poll.batch) /\ FinishPoll(accepted)
    BY <1>1 DEF PollConsumes
  <2> HIDE DEF accepted
  <2> QED
    BY <2>1, FinishPollStep
<1>2. CASE PollGivesBack
  <2>1. /\ host = "polling" /\ host' \in {"running", "failing"}
        /\ {} \in SUBSET Range(poll.batch) /\ FinishPoll({})
    BY <1>2 DEF PollGivesBack
  <2> QED
    BY <2>1, FinishPollStep
<1> QED
  BY <1>1, <1>2

LEMMA CreatedAtFacts ==
  ASSUME admitted \in Seq(Messages), NEW m \in Range(admitted)
  PROVE  CreatedAt(m) \in 1..Len(admitted) /\ CreatedAt(m) \in Nat /\ admitted[CreatedAt(m)] = m
<1>1. \E k \in DOMAIN admitted : admitted[k] = m
  BY DEF Range
<1>2. CreatedAt(m) \in DOMAIN admitted /\ admitted[CreatedAt(m)] = m
  BY <1>1 DEF CreatedAt
<1> QED
  BY <1>2

LEMMA CreatedAtStays ==
  ASSUME ITypes, ITypes', NEW e \in Messages, admitted' = Append(admitted, e),
         NEW m \in Range(admitted)
  PROVE  CreatedAt(m)' = CreatedAt(m)
<1>1. /\ admitted \in Seq(Messages) /\ admitted' \in Seq(Messages) /\ IsInjective(admitted')
      /\ Range(admitted') = Range(admitted) \cup {e}
  BY AppendFacts DEF ITypes
<1>2. CreatedAt(m) \in 1..Len(admitted) /\ admitted[CreatedAt(m)] = m
  BY <1>1, CreatedAtFacts
<1> DEFINE k == CHOOSE j \in DOMAIN admitted' : admitted'[j] = m
<1>3. k \in DOMAIN admitted' /\ admitted'[k] = m
  <2>1. \E j \in DOMAIN admitted' : admitted'[j] = m
    BY <1>1 DEF Range
  <2> QED
    BY <2>1
<1>4. CreatedAt(m)' = k
  BY DEF CreatedAt
<1>5. CreatedAt(m) \in DOMAIN admitted' /\ admitted'[CreatedAt(m)] = m
  BY <1>1, <1>2
<1> HIDE DEF k
<1>6. k = CreatedAt(m)
  BY <1>1, <1>3, <1>5 DEF IsInjective
<1> QED
  BY <1>4, <1>6

LEMMA SteerStep ==
  ASSUME IInv, NEW m \in Messages, Steer(m)
  PROVE  IInv'
<1>1. /\ ~released /\ phase = "running" /\ m \notin Range(admitted)
      /\ admitted' = Append(admitted, m) /\ steering' = Append(steering, m)
      /\ UNCHANGED <<phase, reason, released, claims, host, outcome, poll, consumed, awaiting, discards,
                     conversation, queue, paused, process, drain, failures>>
  BY DEF Steer, work, saved
<1>2. ITypes /\ IPlaces /\ ISaved /\ IControl /\ IMachines /\ IKept /\ IQuiet /\ IOrder
  BY DEF IInv
<1>3. /\ admitted \in Seq(Messages) /\ IsInjective(admitted)
      /\ steering \in Seq(Messages) /\ IsInjective(steering) /\ m \notin Range(steering)
  BY <1>1, <1>2 DEF ITypes, IPlaces
<1>4. /\ admitted' \in Seq(Messages) /\ IsInjective(admitted') /\ Range(admitted') = Range(admitted) \cup {m}
      /\ steering' \in Seq(Messages) /\ IsInjective(steering') /\ Range(steering') = Range(steering) \cup {m}
  BY <1>1, <1>3, AppendFacts
<1>5. ITypes'
  BY <1>1, <1>2, <1>4 DEF ITypes
<1>6. IPlaces'
  <2>1. /\ m \notin Range(poll.batch) /\ m \notin consumed
        /\ \A i \in DOMAIN discards : m \notin Range(discards[i].batch)
    BY <1>1, <1>2 DEF IPlaces
  <2>2. /\ claims = Range(poll.batch)
        /\ Range(steering) \cup Range(poll.batch) \cup consumed \subseteq Range(admitted)
        /\ Range(steering) \cap Range(poll.batch) = {}
        /\ consumed \cap Range(steering) = {} /\ consumed \cap Range(poll.batch) = {}
    BY <1>2 DEF IPlaces
  <2>3. ASSUME NEW i \in DOMAIN discards
        PROVE  /\ Range(discards[i].batch) \subseteq Range(admitted')
               /\ Range(discards[i].batch) \cap Range(steering') = {}
    <3>1. /\ Range(discards[i].batch) \subseteq Range(admitted)
          /\ Range(discards[i].batch) \cap Range(steering) = {}
      BY <1>2 DEF IPlaces
    <3> QED
      BY <1>4, <2>1, <3>1
  <2>4. /\ Range(steering') \cup Range(poll.batch) \cup consumed \subseteq Range(admitted')
        /\ Range(steering') \cap Range(poll.batch) = {} /\ consumed \cap Range(steering') = {}
    BY <1>4, <2>1, <2>2
  <2>5. /\ \A i \in DOMAIN discards :
             /\ Range(discards[i].left) \subseteq Range(discards[i].batch)
             /\ Range(discards[i].batch) \cap Range(poll.batch) = {}
             /\ Range(discards[i].batch) \cap consumed = {}
             /\ Range(discards[i].left) \cap Range(conversation) = {}
             /\ \A j \in DOMAIN discards :
                  i # j => Range(discards[i].batch) \cap Range(discards[j].batch) = {}
        /\ \A n \in Range(conversation) : \E i \in DOMAIN discards : n \in Range(discards[i].batch)
    BY <1>2 DEF IPlaces
  <2> QED
    BY <1>1, <2>2, <2>3, <2>4, <2>5 DEF IPlaces
<1>7. ISaved'
  BY <1>1, <1>2 DEF ISaved
<1>8. IControl'
  BY <1>1, <1>2 DEF IControl
<1>9. IMachines'
  BY <1>1, <1>2, <1>4 DEF IMachines, IControl
<1>10. IKept'
  <2> SUFFICES ASSUME outcome # "unstarted", NEW u \in Users \cap Range(admitted') PROVE Kept(u)'
    BY <1>1 DEF IKept
  <2>1. CASE u = m
    BY <1>4, <2>1 DEF Kept
  <2>2. CASE u # m
    <3>1. Kept(u)
      BY <1>2, <1>4, <2>2 DEF IKept
    <3> QED
      BY <1>1, <1>4, <3>1 DEF Kept
  <2> QED
    BY <2>1, <2>2
<1>11. IQuiet'
  BY <1>1, <1>2 DEF IQuiet, OnItsWay
<1>12. IOrder'
  <2>1. \A x \in Range(admitted) : CreatedAt(x)' = CreatedAt(x)
    BY <1>1, <1>2, <1>5, CreatedAtStays
  <2>2. /\ \A c \in Range(conversation) : c \in Range(admitted)
        /\ \A i \in DOMAIN discards : \A n \in Range(discards[i].left) : n \in Range(admitted)
    BY <1>2 DEF IPlaces
  <2>3. \A k \in DOMAIN conversation : conversation[k] \in Range(admitted)
    BY <2>2 DEF Range
  <2>4. InSendOrder => InSendOrder'
    BY <1>1, <2>1, <2>3 DEF InSendOrder
  <2>5. ASSUME process = "up", failures = 0, NEW i \in DOMAIN discards, Rows(discards[i]),
               NEW n \in Range(discards[i].left), NEW c \in Range(conversation)
        PROVE  CreatedAt(c)' < CreatedAt(n)'
    <3>1. CreatedAt(c) < CreatedAt(n)
      BY <1>2, <2>5 DEF IOrder
    <3> QED
      BY <2>1, <2>2, <3>1
  <2>6. /\ process = "up" /\ (conversation # <<>> \/ \E i \in DOMAIN discards : Writing(discards[i])) =>
             host \in {"committing", "settling", "stuck", "done"}
        /\ process = "up" /\ failures = 0 =>
             /\ InSendOrder
             /\ \A i \in DOMAIN discards :
                  /\ discards[i].task = "teardown" => released
                  /\ discards[i].task = "merged" => i \in awaiting
                  /\ \A j \in DOMAIN discards :
                       i # j /\ Writing(discards[i]) /\ Rows(discards[j]) /\ discards[j].left # <<>> =>
                         discards[i].task = "merged" /\ discards[j].task = "merged"
    BY <1>2 DEF IOrder
  <2> QED
    BY <1>1, <2>4, <2>5, <2>6 DEF IOrder
<1> QED
  BY <1>5, <1>6, <1>7, <1>8, <1>9, <1>10, <1>11, <1>12 DEF IInv

-----------------------------------------------------------------------------
(* Steps that change the state of discards and not their messages.         *)

Hosts == {"starting", "running", "polling", "failing", "closed",
          "ended", "committing", "settling", "stuck", "done"}

\* Nothing is unsaved by the step from d to e.
Parked(d, saving, stop) ==
  /\ d.task \in {"enqueue", "pause"} => d.route = "requeue"
  /\ d.task = "pause" => d.left \in saving
  /\ ~d.pending /\ d.left # <<>> =>
       d.left \in saving /\ d.route = "requeue" /\ ~Writing(d) /\ (d.stopped => stop)

Parking(d, e) == d.route = "requeue" /\ ~Writing(d) => e.route = "requeue" /\ ~Writing(e)

Updates ==
  /\ discards' \in Seq(Record) /\ DOMAIN discards' = DOMAIN discards
  /\ \A i \in DOMAIN discards :
       discards'[i].batch = discards[i].batch /\ discards'[i].left = discards[i].left
  /\ UNCHANGED <<admitted, steering, poll, claims, consumed, conversation, phase, reason, released, outcome>>
  /\ queue \subseteq queue' /\ (paused => paused')
  /\ \A b \in queue' \ queue : \E i \in DOMAIN discards :
       discards[i].left = b /\ discards'[i].route = "requeue" /\ ~Writing(discards'[i])
  /\ \A i \in DOMAIN discards :
       \/ discards'[i] = discards[i]
       \/ /\ Parked(discards'[i], queue', paused') /\ Parking(discards[i], discards'[i])
          /\ discards[i].pending => discards'[i].pending \/ discards[i].left = <<>> \/ discards[i].left \in queue'
  /\ host' = host \/ (host \notin BeforeEnd /\ host' \notin BeforeEnd)

LEMMA UpdatesKeep ==
  ASSUME IInv, Updates, host' \in Hosts, awaiting' \subseteq DOMAIN discards,
         paused' \in BOOLEAN, failures' \in 0..MaxFailures,
         process' \in {"up", "first", "each", "last", "down"},
         drain' \in [wait: SUBSET DOMAIN discards, list: Seq(DOMAIN discards), tried: BOOLEAN]
  PROVE  ITypes' /\ IPlaces' /\ ISaved' /\ IKept' /\ IMachines'
<1>1. ITypes /\ IPlaces /\ ISaved /\ IKept /\ IMachines
  BY DEF IInv
<1>2. /\ discards' \in Seq(Record) /\ DOMAIN discards' = DOMAIN discards
      /\ \A i \in DOMAIN discards :
           discards'[i].batch = discards[i].batch /\ discards'[i].left = discards[i].left
      /\ UNCHANGED <<admitted, steering, poll, claims, consumed, conversation, phase, reason, released, outcome>>
      /\ queue \subseteq queue' /\ (paused => paused')
  BY DEF Updates
<1>3. \A i \in DOMAIN discards : discards[i] \in Record
  BY <1>1 DEF ITypes
<1>4. ITypes'
  <2>1. queue' \subseteq Seq(Users)
    <3>1. \A i \in DOMAIN discards : discards[i].left \in Seq(Users)
      BY <1>3 DEF Record
    <3>2. \A b \in queue' \ queue : b \in Seq(Users)
      BY <3>1 DEF Updates
    <3>3. \A b \in queue : b \in Seq(Users)
      BY <1>1 DEF ITypes
    <3> QED
      BY <3>2, <3>3
  <2>2. \A i \in DOMAIN discards' : IsInjective(discards'[i].batch) /\ IsInjective(discards'[i].left)
    BY <1>1, <1>2 DEF ITypes
  <2> QED
    BY <1>1, <1>2, <2>1, <2>2 DEF ITypes, Hosts
<1>5. IPlaces'
  BY <1>1, <1>2 DEF IPlaces
<1>6. ISaved'
  <2>1. ASSUME NEW i \in DOMAIN discards PROVE Parked(discards'[i], queue', paused')
    <3>1. CASE discards'[i] = discards[i]
      BY <1>1, <1>2, <3>1 DEF Parked, ISaved
    <3> QED
      BY <3>1 DEF Updates
  <2>2. ASSUME NEW i \in DOMAIN discards PROVE Parking(discards[i], discards'[i])
    BY DEF Updates, Parking
  <2>3. ASSUME NEW b \in queue'
        PROVE  \E i \in DOMAIN discards :
                 discards'[i].left = b /\ discards'[i].route = "requeue" /\ ~Writing(discards'[i])
    <3>1. CASE b \in queue
      <4>1. PICK i \in DOMAIN discards :
              discards[i].left = b /\ discards[i].route = "requeue" /\ ~Writing(discards[i])
        BY <1>1, <3>1 DEF ISaved
      <4>2. discards'[i].route = "requeue" /\ ~Writing(discards'[i])
        BY <2>2, <4>1 DEF Parking
      <4> QED
        BY <1>2, <4>1, <4>2
    <3>2. CASE b \notin queue
      BY <1>2, <3>2 DEF Updates
    <3> QED
      BY <3>1, <3>2
  <2>4. ASSUME NEW i \in DOMAIN discards'
        PROVE  /\ discards'[i].task \in {"enqueue", "pause"} => discards'[i].route = "requeue"
               /\ discards'[i].task = "pause" => discards'[i].left \in queue'
               /\ ~discards'[i].pending /\ discards'[i].left # <<>> =>
                    /\ discards'[i].left \in queue' /\ discards'[i].route = "requeue"
                    /\ ~Writing(discards'[i])
                    /\ discards'[i].stopped => paused'
    BY <1>2, <2>1 DEF Parked
  <2> QED
    BY <1>2, <2>3, <2>4 DEF ISaved, Writing
<1>7. IKept'
  <2> SUFFICES ASSUME outcome # "unstarted", NEW u \in Users \cap Range(admitted) PROVE Kept(u)'
    BY <1>2 DEF IKept
  <2>1. Kept(u)
    BY <1>1 DEF IKept
  <2>2. CASE \E i \in DOMAIN discards : discards[i].pending /\ u \in Range(discards[i].left)
    <3>1. PICK i \in DOMAIN discards : discards[i].pending /\ u \in Range(discards[i].left)
      BY <2>2
    <3>2. discards[i].left # <<>>
      BY <3>1, RangeEmpty
    <3>3. discards'[i].pending \/ discards[i].left \in queue'
      BY <3>1, <3>2 DEF Updates
    <3> QED
      BY <1>2, <3>1, <3>3 DEF Kept
  <2>3. CASE ~\E i \in DOMAIN discards : discards[i].pending /\ u \in Range(discards[i].left)
    BY <1>2, <2>1, <2>3 DEF Kept
  <2> QED
    BY <2>2, <2>3
<1>8. IMachines'
  BY <1>1, <1>2 DEF IMachines, Updates, BeforeEnd
<1> QED
  BY <1>4, <1>5, <1>6, <1>7, <1>8

LEMMA ControlStays ==
  ASSUME IInv, Updates, host' = host, awaiting' \subseteq awaiting, process' = process,
         failures' \in Nat, failures' >= failures, process = "first" => drain'.tried = drain.tried
  PROVE  IControl'
<1>1. IControl /\ ITypes
  BY DEF IInv
<1>2. /\ discards' \in Seq(Record) /\ DOMAIN discards' = DOMAIN discards /\ discards \in Seq(Record)
      /\ UNCHANGED <<steering, poll, phase, released, outcome>> /\ failures \in Nat
  BY <1>1, Constants DEF Updates, ITypes
<1>3. Len(discards') = Len(discards) /\ (discards = <<>> => discards' = <<>>)
  BY <1>2
<1> QED
  BY <1>1, <1>2, <1>3 DEF IControl

LEMMA MappedSeq ==
  ASSUME NEW X, NEW s \in Seq(X), NEW t, DOMAIN t = DOMAIN s, t = [i \in DOMAIN s |-> t[i]],
         \A i \in DOMAIN s : t[i] \in X
  PROVE  t \in Seq(X)
<1>1. t \in [1..Len(s) -> X]
  OBVIOUS
<1> QED
  BY <1>1

\* Nothing that the discards are about changes.
LEMMA UnchangedUpdates ==
  ASSUME IInv, UNCHANGED <<discards, admitted, steering, poll, claims, consumed, conversation, phase, reason,
                           released, outcome, queue, paused>>,
         host' = host \/ (host \notin BeforeEnd /\ host' \notin BeforeEnd)
  PROVE  Updates
BY DEF Updates, IInv, ITypes

-----------------------------------------------------------------------------
(* The settlement.                                                         *)

LEMMA CommitStep ==
  ASSUME IInv, CommitDiscardedBeforeRelease
  PROVE  IInv'
<1>1. /\ host = "ended" /\ host' = "committing"
      /\ discards' = [i \in DOMAIN discards |->
                        IF Mergeable(i) THEN [discards[i] EXCEPT !.task = "merged"] ELSE discards[i]]
      /\ awaiting' = {i \in DOMAIN discards : discards[i].pending /\ discards[i].route = "teardown"}
      /\ UNCHANGED <<phase, reason, released, admitted, steering, claims, outcome, poll, consumed,
                     conversation, queue, paused, process, drain, failures>>
  BY DEF CommitDiscardedBeforeRelease, entry, saved
<1>2. ITypes /\ ISaved /\ IControl /\ IQuiet /\ IOrder
  BY DEF IInv
<1>3. discards \in Seq(Record) /\ \A i \in DOMAIN discards : discards[i] \in Record
  BY <1>2 DEF ITypes
<1>4. DOMAIN discards' = DOMAIN discards
  BY <1>1
<1>5. ASSUME NEW i \in DOMAIN discards
      PROVE  /\ Mergeable(i) => discards'[i] = [discards[i] EXCEPT !.task = "merged"]
             /\ ~Mergeable(i) => discards'[i] = discards[i]
  BY <1>1
<1>6. ASSUME NEW i \in DOMAIN discards, Mergeable(i)
      PROVE  /\ discards'[i] \in Record /\ discards'[i].task = "merged"
             /\ discards'[i].batch = discards[i].batch /\ discards'[i].left = discards[i].left
             /\ discards'[i].pending = discards[i].pending /\ discards'[i].route = discards[i].route
             /\ discards[i].pending /\ discards[i].route = "teardown" /\ discards[i].task = "none"
  <2>1. discards'[i] = [discards[i] EXCEPT !.task = "merged"] /\ discards[i] \in Record
    BY <1>3, <1>5, <1>6
  <2> QED
    BY <1>6, <2>1 DEF Record, Mergeable
<1>7. discards' \in Seq(Record)
  <2>1. \A i \in DOMAIN discards : discards'[i] \in Record
    BY <1>3, <1>5, <1>6
  <2>2. discards' = [i \in DOMAIN discards |-> discards'[i]]
    BY <1>1
  <2> QED
    BY <1>3, <1>4, <2>1, <2>2, MappedSeq
<1>8. Updates
  <2>1. ASSUME NEW i \in DOMAIN discards, Mergeable(i)
        PROVE  /\ Parked(discards'[i], queue', paused') /\ Parking(discards[i], discards'[i])
               /\ discards'[i].pending
    BY <1>6, <2>1 DEF Parked, Parking
  <2>2. \A i \in DOMAIN discards :
          discards'[i].batch = discards[i].batch /\ discards'[i].left = discards[i].left
    BY <1>5, <1>6
  <2> QED
    BY <1>1, <1>4, <1>5, <1>7, <2>1, <2>2 DEF Updates, BeforeEnd
<1>9. awaiting' \subseteq DOMAIN discards
  BY <1>1
<1>10. ITypes' /\ IPlaces' /\ ISaved' /\ IKept' /\ IMachines'
  <2>1. /\ host' \in Hosts /\ paused' \in BOOLEAN /\ failures' \in 0..MaxFailures
        /\ process' \in {"up", "first", "each", "last", "down"}
        /\ drain' \in [wait: SUBSET DOMAIN discards, list: Seq(DOMAIN discards), tried: BOOLEAN]
    BY <1>1, <1>2 DEF ITypes, Hosts
  <2> QED
    BY <1>8, <1>9, <2>1, UpdatesKeep
<1>11. IControl'
  <2>1. Len(discards') = Len(discards) /\ (discards = <<>> => discards' = <<>>)
    BY <1>3, <1>4, <1>7
  <2> QED
    BY <1>1, <1>2, <2>1 DEF IControl, BeforeEnd
<1>12. IQuiet'
  <2>1. ASSUME failures = 0, outcome # "unstarted", NEW i \in DOMAIN discards, discards'[i].pending
        PROVE  OnItsWay(i)'
    <3>1. discards[i].pending /\ discards[i].route = discards'[i].route
      BY <1>5, <1>6, <2>1
    <3>2. OnItsWay(i)
      BY <1>2, <2>1, <3>1 DEF IQuiet
    <3>3. CASE discards[i].route = "teardown" /\ discards[i].task \in {"none", "teardown"}
      <4>1. i \in awaiting'
        BY <1>1, <3>1, <3>3
      <4>2. discards'[i].task \in {"teardown", "merged"}
        <5>1. CASE Mergeable(i)
          BY <1>6, <5>1
        <5>2. CASE ~Mergeable(i)
          BY <1>5, <3>1, <3>3, <5>2 DEF Mergeable
        <5> QED
          BY <5>1, <5>2
      <4> QED
        BY <1>1, <3>1, <3>3, <4>1, <4>2 DEF OnItsWay
    <3>4. CASE ~(discards[i].route = "teardown" /\ discards[i].task \in {"none", "teardown"})
      <4>1. /\ discards[i].task = "enqueue" /\ discards[i].waiting /\ ~discards[i].stopped
            /\ process \in {"up", "first"} /\ (process = "first" => i \in drain.wait)
        BY <1>1, <3>2, <3>4 DEF OnItsWay
      <4>2. discards'[i] = discards[i]
        BY <1>5, <4>1 DEF Mergeable
      <4> QED
        BY <1>1, <4>1, <4>2 DEF OnItsWay
    <3> QED
      BY <3>3, <3>4
  <2>2. ASSUME process = "each", drain.tried
        PROVE  /\ drain.list # <<>> /\ drain.wait \subseteq {Head(drain.list)}
               /\ failures = 0 /\ drain.wait = {} => ~discards'[Head(drain.list)].pending
    <3>1. /\ drain.list # <<>> /\ drain.wait \subseteq {Head(drain.list)}
          /\ failures = 0 /\ drain.wait = {} => ~discards[Head(drain.list)].pending
      BY <1>2, <2>2 DEF IQuiet
    <3>2. drain.list \in Seq(DOMAIN discards)
      BY <1>2 DEF ITypes
    <3>3. Head(drain.list) \in DOMAIN discards
      BY <3>1, <3>2
    <3> QED
      BY <1>5, <1>6, <3>1, <3>3
  <2> QED
    BY <1>1, <1>4, <2>1, <2>2 DEF IQuiet
<1>13. IOrder'
  <2>1. ASSUME process = "up" PROVE conversation = <<>> /\ \A i \in DOMAIN discards : ~Writing(discards[i])
    BY <1>1, <1>2, <2>1 DEF IOrder
  <2>2. ASSUME process = "up", NEW i \in DOMAIN discards, Writing(discards'[i])
        PROVE  Mergeable(i) /\ discards'[i].task = "merged" /\ i \in awaiting'
    <3>1. Mergeable(i)
      BY <1>5, <2>1, <2>2
    <3> QED
      BY <1>1, <1>6, <3>1
  <2>3. ASSUME process = "up", NEW j \in DOMAIN discards, Rows(discards'[j]), discards'[j].left # <<>>
        PROVE  discards'[j].task = "merged"
    <3>1. CASE Mergeable(j)
      BY <1>6, <3>1
    <3>2. CASE ~Mergeable(j)
      <4>1. discards'[j] = discards[j] /\ ~Writing(discards[j]) /\ discards[j] \in Record
        BY <1>3, <1>5, <2>1, <2>3, <3>2
      <4>2. discards[j].route = "teardown"
        BY <2>3, <4>1 DEF Rows
      <4>3. discards[j].pending
        BY <1>2, <2>3, <4>1, <4>2 DEF ISaved
      <4>4. discards[j].task = "none"
        BY <1>2, <4>1, <4>2 DEF ISaved, Writing, Record
      <4> QED
        BY <3>2, <4>2, <4>3, <4>4 DEF Mergeable
    <3> QED
      BY <3>1, <3>2
  <2>4. process = "up" => Range(conversation) = {} /\ conversation = <<>>
    BY <2>1, RangeEmpty
  <2>5. process = "up" => InSendOrder'
    BY <1>1, <2>4 DEF InSendOrder
  <2>6. ASSUME process = "up", NEW i \in DOMAIN discards
        PROVE  discards'[i].task # "teardown" /\ (discards'[i].task = "merged" => i \in awaiting')
    BY <2>2, <2>6 DEF Writing
  <2> QED
    BY <1>1, <1>4, <2>2, <2>3, <2>4, <2>5, <2>6 DEF IOrder, Writing, Rows
<1> QED
  BY <1>10, <1>11, <1>12, <1>13 DEF IInv

LEMMA CommitSettlesStep ==
  ASSUME IInv, CommitSettles \/ SettlementFails
  PROVE  IInv'
<1>1. UNCHANGED <<phase, reason, released, admitted, steering, claims, outcome, poll, consumed, discards,
                  conversation, queue, paused, process, drain>>
  BY DEF CommitSettles, SettlementFails, entry, saved
<1>2. ITypes /\ IControl /\ IQuiet /\ IOrder /\ failures \in Nat
  BY Constants DEF IInv, ITypes
<1>3. /\ awaiting' = {} /\ failures' \in 0..MaxFailures /\ failures' >= failures
      /\ \/ host = "committing" /\ host' = "settling" /\ (failures' = 0 => awaiting = {})
         \/ host = "settling" /\ host' = "stuck" /\ failures' > 0
  <2>1. CASE CommitSettles
    BY <1>2, <2>1, Constants DEF CommitSettles, Fails, ITypes
  <2>2. CASE SettlementFails
    <3>1. awaiting = {}
      BY <1>2, <2>2 DEF SettlementFails, IControl
    <3> QED
      BY <1>2, <2>2, <3>1, Constants DEF SettlementFails, Fails, ITypes
  <2> QED
    BY <2>1, <2>2
<1>4. Updates
  BY <1>1, <1>3, UnchangedUpdates DEF BeforeEnd
<1>5. ITypes' /\ IPlaces' /\ ISaved' /\ IKept' /\ IMachines'
  <2>1. /\ host' \in Hosts /\ paused' \in BOOLEAN /\ awaiting' \subseteq DOMAIN discards
        /\ process' \in {"up", "first", "each", "last", "down"}
        /\ drain' \in [wait: SUBSET DOMAIN discards, list: Seq(DOMAIN discards), tried: BOOLEAN]
    BY <1>1, <1>2, <1>3 DEF ITypes, Hosts
  <2> QED
    BY <1>3, <1>4, <2>1, UpdatesKeep
<1>6. IControl'
  BY <1>1, <1>2, <1>3 DEF IControl, BeforeEnd
<1>7. failures' = 0 => failures = 0 /\ awaiting = {} /\ host = "committing"
  BY <1>2, <1>3
<1>8. IQuiet'
  <2>1. ASSUME failures' = 0, outcome # "unstarted", NEW i \in DOMAIN discards, discards[i].pending
        PROVE  OnItsWay(i)'
    <3>1. OnItsWay(i)
      BY <1>2, <1>7, <2>1 DEF IQuiet
    <3> QED
      BY <1>1, <1>7, <2>1, <3>1 DEF OnItsWay, BeforeEnd
  <2> QED
    BY <1>1, <1>2, <1>7, <2>1 DEF IQuiet
<1>9. IOrder'
  <2>1. \A m : CreatedAt(m)' = CreatedAt(m)
    BY <1>1 DEF CreatedAt
  <2>2. InSendOrder => InSendOrder'
    BY <1>1, <2>1 DEF InSendOrder
  <2>3. failures' = 0 /\ process = "up" => \A i \in DOMAIN discards : discards[i].task # "merged"
    BY <1>2, <1>7 DEF IOrder
  <2>4. host' \in {"settling", "stuck"}
    BY <1>3
  <2> QED
    BY <1>1, <1>2, <1>7, <2>1, <2>2, <2>3, <2>4 DEF IOrder
<1> QED
  BY <1>5, <1>6, <1>8, <1>9 DEF IInv

LEMMA CompleteStep ==
  ASSUME IInv, Complete
  PROVE  IInv'
<1>1. /\ host = "settling" /\ host' = "done" /\ released' = TRUE /\ steering' = <<>> /\ claims' = {}
      /\ UNCHANGED <<phase, reason, admitted, outcome, poll, consumed, awaiting, discards, conversation,
                     queue, paused, process, drain, failures>>
  BY DEF Complete, saved
<1>2. ITypes /\ IPlaces /\ IControl /\ IMachines /\ IQuiet /\ IOrder
  BY DEF IInv
<1>3. /\ poll.batch = <<>> /\ Range(poll.batch) = {} /\ Range(steering') = {}
      /\ outcome # "none"
  BY <1>1, <1>2, RangeEmpty DEF IControl, NoPoll, BeforeEnd
<1>4. outcome # "unstarted" => steering = <<>> /\ Range(steering) = {}
  BY <1>2, <1>3, RangeEmpty DEF IControl, ITypes
<1>5. InMemory' = {} /\ InMemory = Range(steering)
  BY <1>1, <1>3 DEF InMemory
<1>6. Moves({})
  <2>1. HandsOver({})
    BY <1>1 DEF HandsOver
  <2>2. claims' = Range(poll'.batch)
    BY <1>1, <1>3
  <2> QED
    BY <1>1, <1>3, <1>4, <1>5, <2>1, <2>2 DEF Moves
<1>7. IPlaces' /\ ISaved' /\ IKept'
  BY <1>6, MovesKeepPlaces, MovesKeepSaved, MovesKeepKept
<1>8. ITypes'
  <2>1. steering' \in Seq(Messages) /\ IsInjective(steering')
    BY <1>1, RangeEmpty
  <2>2. ScalarTypes'
    BY <1>1, <1>2, <2>1 DEF ITypes, ScalarTypes
  <2>3. /\ awaiting' \subseteq DOMAIN discards /\ failures' \in 0..MaxFailures
        /\ process' \in {"up", "first", "each", "last", "down"}
        /\ drain' \in [wait: SUBSET DOMAIN discards, list: Seq(DOMAIN discards), tried: BOOLEAN]
    BY <1>1, <1>2 DEF ITypes
  <2> QED
    BY <1>6, <2>2, <2>3, MovesKeepTypes
<1>9. IControl'
  BY <1>1, <1>2 DEF IControl, BeforeEnd
<1>10. IMachines'
  BY <1>1, <1>2, <1>3 DEF IMachines, BeforeEnd
<1>11. IQuiet'
  <2>1. ASSUME failures = 0, outcome # "unstarted", NEW i \in DOMAIN discards, discards[i].pending
        PROVE  OnItsWay(i)'
    <3>1. OnItsWay(i)
      BY <1>2, <2>1 DEF IQuiet
    <3> QED
      BY <1>1, <2>1, <3>1 DEF OnItsWay, BeforeEnd
  <2> QED
    BY <1>1, <1>2, <2>1 DEF IQuiet
<1>12. IOrder'
  <2>1. \A m : CreatedAt(m)' = CreatedAt(m)
    BY <1>1 DEF CreatedAt
  <2>2. InSendOrder => InSendOrder'
    BY <1>1, <2>1 DEF InSendOrder
  <2> QED
    BY <1>1, <1>2, <2>1, <2>2 DEF IOrder
<1> QED
  BY <1>7, <1>8, <1>9, <1>10, <1>11, <1>12 DEF IInv

-----------------------------------------------------------------------------
(* Shutdown.                                                               *)

LEMMA ShutdownStep ==
  ASSUME IInv, Shutdown
  PROVE  IInv'
<1> DEFINE moved == IF ~released /\ phase # "aborted" THEN Range(steering) \cap Users ELSE {}
<1>1. /\ process = "up" /\ process' = "first"
      /\ drain' = [wait |-> Inflight, list |-> <<>>, tried |-> FALSE]
      /\ UNCHANGED <<released, admitted, host, outcome, poll, consumed, awaiting, conversation, queue,
                     paused, failures>>
  BY DEF Shutdown, work, saved, NoDrain
<1>2. \/ /\ ~released /\ phase # "aborted" /\ phase' = "aborted" /\ reason' = "other"
         /\ discards' = Discarded(steering, "abort", "other") /\ steering' = <<>> /\ claims' = claims
      \/ /\ released \/ phase = "aborted"
         /\ UNCHANGED <<phase, reason, steering, claims, discards>>
  BY DEF Shutdown, AbortEntry
<1>3. ITypes /\ IControl /\ IMachines /\ IQuiet
  BY DEF IInv
<1>4. /\ Moves(moved)
      /\ \A i \in DOMAIN discards' \ DOMAIN discards : discards'[i].cause = "abort"
  <2>1. CASE ~released /\ phase # "aborted"
    <3>1. /\ Moves(Range(steering) \cap Users)
          /\ \A i \in DOMAIN discards' \ DOMAIN discards : discards'[i].cause = "abort"
      BY <1>1, <1>2, <2>1, SteeringMoves
    <3> QED
      BY <2>1, <3>1
  <2>2. CASE released \/ phase = "aborted"
    <3>1. Still
      BY <1>1, <1>2, <2>2 DEF Still
    <3>2. Moves({})
      BY <1>1, <3>1, StillMoves
    <3> QED
      BY <2>2, <3>1, <3>2 DEF Still
  <2> QED
    BY <2>1, <2>2
<1>5. moved # {} => host \in Open \/ (discards = <<>> /\ outcome = "unstarted")
  <2> SUFFICES ASSUME moved # {} PROVE host \in Open \/ (discards = <<>> /\ outcome = "unstarted")
    OBVIOUS
  <2>1. phase = "running"
    <3>1. steering # <<>>
      BY RangeEmpty
    <3> QED
      BY <1>3, <3>1 DEF IControl, ITypes
  <2> QED
    BY <1>3, <2>1 DEF IControl, Open
<1> HIDE DEF moved
<1>6. ScalarTypes'
  <2>1. steering' \in Seq(Messages) /\ IsInjective(steering')
    <3>1. steering' = <<>> \/ steering' = steering
      BY <1>2
    <3>2. CASE steering' = <<>>
      BY <3>2, RangeEmpty
    <3>3. CASE steering' = steering
      BY <1>3, <3>3 DEF ITypes
    <3> QED
      BY <3>1, <3>2, <3>3
  <2>2. phase' \in {"running", "closing", "aborted"} /\ reason' \in {"none", "user_stop", "other"}
    BY <1>2, <1>3 DEF ITypes
  <2> QED
    BY <1>1, <1>3, <2>1, <2>2 DEF ITypes, ScalarTypes
<1>7. ITypes'
  <2>1. Inflight \subseteq DOMAIN discards
    BY DEF Inflight
  <2>2. drain' \in [wait: SUBSET DOMAIN discards, list: Seq(DOMAIN discards), tried: BOOLEAN]
    BY <1>1, <2>1
  <2>3. awaiting' \subseteq DOMAIN discards /\ failures' \in 0..MaxFailures
    BY <1>1, <1>3 DEF ITypes
  <2> QED
    BY <1>1, <1>4, <1>6, <2>2, <2>3, MovesKeepTypes
<1>8. IPlaces' /\ ISaved' /\ IKept'
  BY <1>4, MovesKeepPlaces, MovesKeepSaved, MovesKeepKept
<1>9. IControl'
  <2>1. host = "starting" \/ outcome = "unstarted" => Len(discards') <= 1
    <3>1. CASE released \/ phase = "aborted"
      BY <1>2, <1>3, <3>1 DEF IControl
    <3>2. CASE ~released /\ phase # "aborted"
      <4>1. ASSUME host = "starting" \/ outcome = "unstarted" PROVE Len(discards) = 0
        BY <1>3, <3>2, <4>1 DEF IControl, ITypes
      <4>2. Len(discards') \in Nat /\ (discards' = discards \/ Len(discards') = Len(discards) + 1)
        BY <1>3, <1>4, HandsOverFacts DEF Moves
      <4> QED
        BY <4>1, <4>2
    <3> QED
      BY <3>1, <3>2
  <2> QED
    BY <1>1, <1>2, <1>3, <2>1 DEF IControl
<1>10. IMachines'
  BY <1>1, <1>2, <1>3 DEF IMachines, IControl
<1>11. IQuiet'
  <2>1. /\ \A i \in DOMAIN discards : i \in DOMAIN discards' /\ discards'[i] = discards[i]
        /\ \A i \in DOMAIN discards' : i \in DOMAIN discards \/ Fresh(discards'[i], moved)
    BY <1>3, <1>4, HandsOverFacts DEF Moves
  <2>2. ASSUME failures = 0, outcome # "unstarted", NEW i \in DOMAIN discards', discards'[i].pending
        PROVE  OnItsWay(i)'
    <3>1. CASE i \in DOMAIN discards
      <4>1. OnItsWay(i) /\ discards'[i] = discards[i]
        BY <1>3, <2>1, <2>2, <3>1 DEF IQuiet
      <4>2. discards[i].task # "none" => i \in drain'.wait
        BY <1>1, <3>1 DEF Inflight
      <4> QED
        BY <1>1, <4>1, <4>2 DEF OnItsWay
    <3>2. CASE i \notin DOMAIN discards
      <4>1. discards'[i].route = "teardown" /\ discards'[i].task = "none" /\ moved # {}
        BY <1>4, <2>1, <2>2, <3>2 DEF Fresh, Moves, HandsOver
      <4>2. host \in Open
        BY <1>5, <2>2, <4>1
      <4> QED
        BY <1>1, <4>1, <4>2 DEF OnItsWay, Open
    <3> QED
      BY <3>1, <3>2
  <2> QED
    BY <1>1, <2>2 DEF IQuiet
<1>12. IOrder'
  BY <1>1 DEF IOrder
<1> QED
  BY <1>7, <1>8, <1>9, <1>10, <1>11, <1>12 DEF IInv

\* The steps of shutdown that leave the discards alone.
LEMMA DrainStagesStep ==
  ASSUME IInv, DrainCollect \/ DrainFlush \/ Exit
  PROVE  IInv'
<1>1. UNCHANGED <<phase, reason, released, admitted, steering, claims, host, outcome, poll, consumed,
                  awaiting, discards, conversation, queue, paused>>
  BY DEF DrainCollect, DrainFlush, Exit, entry, work, saved
<1>2. ITypes /\ IControl /\ IQuiet
  BY DEF IInv
<1>3. /\ discards \in Seq(Record) /\ failures \in 0..MaxFailures /\ released \in BOOLEAN
      /\ drain \in [wait: SUBSET DOMAIN discards, list: Seq(DOMAIN discards), tried: BOOLEAN]
  BY <1>2 DEF ITypes
<1>4. /\ drain.wait = {} /\ failures' \in 0..MaxFailures /\ failures' >= failures
      /\ \/ process = "first" /\ process' = "each" /\ drain.tried = FALSE /\ drain'.tried = FALSE
         \/ process = "each" /\ process' = "last"
         \/ process = "last" /\ process' = "down" /\ (failures' = 0 => released)
      /\ drain' \in [wait: SUBSET DOMAIN discards, list: Seq(DOMAIN discards), tried: BOOLEAN]
  <2>1. CASE DrainCollect
    <3>1. PICK found : found = {i \in DOMAIN discards : discards[i].pending}
      OBVIOUS
    <3>2. /\ process = "first" /\ drain.wait = {} /\ process' = "each" /\ failures' = failures
          /\ \E list \in [1..Cardinality(found) -> found] : drain' = [drain EXCEPT !.list = list]
      BY <2>1, <3>1 DEF DrainCollect
    <3>3. PICK list \in [1..Cardinality(found) -> found] : drain' = [drain EXCEPT !.list = list]
      BY <3>2
    <3>4. Cardinality(found) \in Nat
      <4>1. found \subseteq 1..Len(discards) /\ Len(discards) \in Nat
        BY <1>3, <3>1
      <4>2. IsFiniteSet(1..Len(discards))
        BY <4>1, FS_Interval
      <4> QED
        BY <4>1, <4>2, FS_Subset, FS_CardinalityType
    <3>5. list \in Seq(DOMAIN discards)
      <4>1. list \in [1..Cardinality(found) -> DOMAIN discards]
        BY <3>1
      <4> QED
        BY <3>4, <4>1
    <3>6. drain.tried = FALSE
      BY <1>2, <3>2 DEF IControl
    <3>7. /\ drain' \in [wait: SUBSET DOMAIN discards, list: Seq(DOMAIN discards), tried: BOOLEAN]
          /\ drain'.tried = drain.tried
      BY <1>3, <3>3, <3>5
    <3>8. failures' \in 0..MaxFailures /\ failures' >= failures
      BY <1>3, <3>2, Constants
    <3> QED
      BY <3>2, <3>6, <3>7, <3>8
  <2>2. CASE DrainFlush
    <3>1. Inflight \subseteq DOMAIN discards
      BY DEF Inflight
    <3> QED
      BY <1>3, <2>2, <3>1 DEF DrainFlush
  <2>3. CASE Exit
    <3>1. /\ process = "last" /\ drain.wait = {} /\ process' = "down" /\ drain' = drain
          /\ \/ released /\ failures' = failures
             \/ host = "stuck" /\ failures' = failures
             \/ failures < MaxFailures /\ failures' = failures + 1
      BY <2>3 DEF Exit, Fails
    <3>2. host = "stuck" => failures > 0
      BY <1>2 DEF IControl
    <3> QED
      BY <1>3, <3>1, <3>2, Constants
  <2> QED
    BY <2>1, <2>2, <2>3
<1>5. Updates
  BY <1>1, UnchangedUpdates
<1>6. ITypes' /\ IPlaces' /\ ISaved' /\ IKept' /\ IMachines'
  <2>1. host' \in Hosts /\ paused' \in BOOLEAN /\ awaiting' \subseteq DOMAIN discards
    BY <1>1, <1>2 DEF ITypes, Hosts
  <2>2. process' \in {"up", "first", "each", "last", "down"}
    BY <1>4
  <2> QED
    BY <1>4, <1>5, <2>1, <2>2, UpdatesKeep
<1>7. failures \in Nat /\ failures' \in Nat /\ process # "up" /\ process' # "up"
  BY <1>3, <1>4, Constants
<1>8. IControl'
  BY <1>1, <1>2, <1>4, <1>7 DEF IControl
<1>9. IQuiet'
  <2>1. ASSUME failures' = 0, outcome # "unstarted", NEW i \in DOMAIN discards, discards[i].pending
        PROVE  OnItsWay(i)'
    <3>1. OnItsWay(i)
      BY <1>2, <1>4, <1>7, <2>1 DEF IQuiet
    <3> QED
      BY <1>1, <1>4, <3>1 DEF OnItsWay
  <2>2. process' = "each" => drain'.tried = FALSE
    BY <1>4
  <2> QED
    BY <1>1, <2>1, <2>2 DEF IQuiet
<1>10. IOrder'
  BY <1>7 DEF IOrder
<1> QED
  BY <1>6, <1>8, <1>9, <1>10 DEF IInv

\* start(): one discard, unchanged or routed to the queue, has its task begun.
LEMMA StartedFacts ==
  ASSUME NEW d \in Record
  PROVE  /\ Started(d) \in Record
         /\ Started(d).batch = d.batch /\ Started(d).left = d.left /\ Started(d).pending = d.pending
         /\ Started(d).stopped = d.stopped /\ Started(d).route = d.route
         /\ Started(d).waiting = d.waiting
         /\ d.task # "none" => Started(d) = d
         /\ d.task = "none" /\ d.route = "teardown" => Started(d).task = "teardown"
         /\ d.task = "none" /\ d.route = "requeue" => Started(d).task = "enqueue"
<1>1. CASE d.task # "none"
  BY <1>1 DEF Started
<1>2. CASE d.task = "none" /\ d.route = "teardown"
  <2>1. Started(d) = [d EXCEPT !.task = "teardown"]
    BY <1>2 DEF Started
  <2> QED
    BY <1>2, <2>1 DEF Record
<1>3. CASE d.task = "none" /\ d.route = "requeue"
  <2>1. Started(d) = [d EXCEPT !.task = "enqueue"]
    BY <1>3 DEF Started
  <2> QED
    BY <1>3, <2>1 DEF Record
<1> QED
  BY <1>1, <1>2, <1>3 DEF Record

LEMMA StartUpdates ==
  ASSUME IInv, NEW i \in DOMAIN discards, NEW d \in Record,
         d.batch = discards[i].batch, d.left = discards[i].left, d.pending = discards[i].pending,
         d.task = discards[i].task, d.stopped = discards[i].stopped,
         d.route = discards[i].route \/ d.route = "requeue",
         discards' = [discards EXCEPT ![i] = Started(d)],
         UNCHANGED <<admitted, steering, poll, claims, consumed, conversation, phase, reason, released,
                     outcome, host, queue, paused>>
  PROVE  /\ Updates /\ discards'[i] = Started(d) /\ DOMAIN discards' = DOMAIN discards
         /\ \A j \in DOMAIN discards : j # i => discards'[j] = discards[j]
<1>1. ITypes /\ ISaved
  BY DEF IInv
<1>2. discards \in Seq(Record)
  BY <1>1 DEF ITypes
<1>3. Started(d) \in Record
  BY StartedFacts
<1>4. /\ discards' \in Seq(Record) /\ DOMAIN discards' = DOMAIN discards
      /\ discards'[i] = Started(d)
      /\ \A j \in DOMAIN discards : j # i => discards'[j] = discards[j]
  BY <1>2, <1>3
<1>5. /\ discards[i].task \in {"enqueue", "pause"} => discards[i].route = "requeue"
      /\ discards[i].task = "pause" => discards[i].left \in queue
      /\ ~discards[i].pending /\ discards[i].left # <<>> =>
           /\ discards[i].left \in queue /\ discards[i].route = "requeue"
           /\ ~Writing(discards[i])
           /\ discards[i].stopped => paused
  BY <1>1 DEF ISaved
<1>6. discards[i].route = "requeue" => d.route = "requeue"
  OBVIOUS
<1>7. d.route \in {"teardown", "requeue"}
  BY DEF Record
<1>8. Parked(Started(d), queue, paused)
  <2>1. CASE d.task # "none"
    BY <1>5, <1>6, <2>1, StartedFacts DEF Parked, Writing
  <2>2. CASE d.task = "none"
    BY <1>5, <1>6, <1>7, <2>2, StartedFacts DEF Parked, Writing
  <2> QED
    BY <2>1, <2>2
<1>9. Parking(discards[i], Started(d))
  <2>1. CASE d.task # "none"
    BY <1>6, <2>1, StartedFacts DEF Parking, Writing
  <2>2. CASE d.task = "none"
    BY <1>6, <1>7, <2>2, StartedFacts DEF Parking, Writing
  <2> QED
    BY <2>1, <2>2
<1>10. /\ Started(d).batch = discards[i].batch /\ Started(d).left = discards[i].left
       /\ Started(d).pending = discards[i].pending
  BY StartedFacts
<1>11. \A j \in DOMAIN discards :
         discards'[j].batch = discards[j].batch /\ discards'[j].left = discards[j].left
  BY <1>4, <1>10
<1>12. \A j \in DOMAIN discards :
         \/ discards'[j] = discards[j]
         \/ /\ Parked(discards'[j], queue', paused') /\ Parking(discards[j], discards'[j])
            /\ discards[j].pending => discards'[j].pending
  BY <1>4, <1>8, <1>9, <1>10
<1>13. Updates
  BY <1>4, <1>11, <1>12, Zenon DEF Updates
<1> QED
  BY <1>4, <1>13

LEMMA HeadAndTail ==
  ASSUME NEW X, NEW s \in Seq(X), s # <<>>
  PROVE  Head(s) \in X /\ Tail(s) \in Seq(X)
OBVIOUS

LEMMA DrainStepStep ==
  ASSUME IInv, DrainStep
  PROVE  IInv'
<1>1. ITypes /\ IControl /\ ISaved /\ IQuiet
  BY DEF IInv
<1>2. /\ process = "each" /\ drain.wait = {} /\ drain.list # <<>>
      /\ UNCHANGED <<phase, reason, released, admitted, steering, claims, host, outcome, poll, consumed,
                     awaiting, conversation, queue, paused, process, failures>>
  BY DEF DrainStep, entry, work, saved
<1>3. /\ discards \in Seq(Record) /\ failures \in 0..MaxFailures
      /\ drain \in [wait: SUBSET DOMAIN discards, list: Seq(DOMAIN discards), tried: BOOLEAN]
  BY <1>1 DEF ITypes
<1>4. PICK i : i = Head(drain.list)
  OBVIOUS
<1>5. i \in DOMAIN discards /\ Tail(drain.list) \in Seq(DOMAIN discards)
  <2>1. drain.list \in Seq(DOMAIN discards)
    BY <1>3
  <2>2. drain.list # <<>>
    BY <1>2
  <2>3. Head(drain.list) \in DOMAIN discards
    BY <2>1, <2>2
  <2>4. Tail(drain.list) \in Seq(DOMAIN discards)
    BY <2>1, <2>2, HeadAndTail
  <2> QED
    BY <1>4, <2>3, <2>4
<1>6. discards[i] \in Record
  BY <1>3, <1>5
<1>7. host' \in Hosts /\ paused' \in BOOLEAN /\ awaiting' \subseteq DOMAIN discards
  BY <1>1, <1>2 DEF ITypes, Hosts
<1>8. failures' \in 0..MaxFailures /\ process' \in {"up", "first", "each", "last", "down"}
      /\ failures' \in Nat /\ failures' >= failures
  BY <1>2, <1>3, Constants
<1>9. IOrder'
  BY <1>2 DEF IOrder
<1>10. CASE drain' = [drain EXCEPT !.list = Tail(drain.list), !.tried = FALSE] /\ discards' = discards
  <2>1. Updates
    BY <1>2, <1>10, UnchangedUpdates
  <2>2. /\ drain' \in [wait: SUBSET DOMAIN discards, list: Seq(DOMAIN discards), tried: BOOLEAN]
        /\ drain'.tried = FALSE
    BY <1>3, <1>5, <1>10
  <2>3. ITypes' /\ IPlaces' /\ ISaved' /\ IKept' /\ IMachines'
    BY <1>7, <1>8, <2>1, <2>2, UpdatesKeep
  <2>4. IControl'
    BY <1>2, <1>8, <2>1, ControlStays
  <2>5. IQuiet'
    <3>1. ASSUME failures = 0, outcome # "unstarted", NEW j \in DOMAIN discards, discards[j].pending
          PROVE  OnItsWay(j)'
      <4>1. OnItsWay(j)
        BY <1>1, <3>1 DEF IQuiet
      <4> QED
        BY <1>2, <1>10, <4>1 DEF OnItsWay
    <3> QED
      BY <1>2, <1>10, <2>2, <3>1 DEF IQuiet
  <2> QED
    BY <1>9, <2>3, <2>4, <2>5 DEF IInv
<1>11. ASSUME NEW d \in Record, discards' = [discards EXCEPT ![i] = Started(d)],
              drain' = [drain EXCEPT !.wait = {i}, !.tried = TRUE],
              \/ d = discards[i]
              \/ failures # 0 /\ d = [discards[i] EXCEPT !.route = "requeue"]
       PROVE  IInv'
  <2>1. /\ d.batch = discards[i].batch /\ d.left = discards[i].left /\ d.pending = discards[i].pending
        /\ d.task = discards[i].task /\ d.stopped = discards[i].stopped
        /\ d.route = discards[i].route \/ d.route = "requeue"
    BY <1>6, <1>11 DEF Record
  <2>2. /\ Updates /\ discards'[i] = Started(d) /\ DOMAIN discards' = DOMAIN discards
        /\ \A j \in DOMAIN discards : j # i => discards'[j] = discards[j]
    BY <1>2, <1>5, <1>11, <2>1, StartUpdates
  <2>3. /\ drain' \in [wait: SUBSET DOMAIN discards, list: Seq(DOMAIN discards), tried: BOOLEAN]
        /\ drain'.wait = {i} /\ drain'.list = drain.list
    BY <1>3, <1>5, <1>11
  <2>4. ITypes' /\ IPlaces' /\ ISaved' /\ IKept' /\ IMachines'
    BY <1>7, <1>8, <2>2, <2>3, UpdatesKeep
  <2>5. IControl'
    BY <1>2, <1>8, <2>2, ControlStays
  <2>6. ASSUME failures = 0, outcome # "unstarted", NEW j \in DOMAIN discards, discards'[j].pending
        PROVE  OnItsWay(j)'
    <3>1. CASE j # i
      <4>1. discards'[j] = discards[j] /\ OnItsWay(j)
        BY <1>1, <2>2, <2>6, <3>1 DEF IQuiet
      <4> QED
        BY <1>2, <4>1 DEF OnItsWay
    <3>2. CASE j = i
      <4>1. d = discards[i] /\ discards[i].pending
        BY <1>6, <1>11, <2>2, <2>6, <3>2, StartedFacts
      <4>2. OnItsWay(i)
        BY <1>1, <1>5, <2>6, <4>1 DEF IQuiet
      <4>3. CASE discards[i].task # "none"
        BY <1>2, <1>6, <2>2, <3>2, <4>1, <4>2, <4>3, StartedFacts DEF OnItsWay
      <4>4. CASE discards[i].task = "none"
        <5>1. discards[i].route = "teardown" /\ host \in BeforeEnd \cup {"ended"}
          BY <4>2, <4>4 DEF OnItsWay
        <5>2. discards'[i].route = "teardown" /\ discards'[i].task = "teardown"
          BY <1>6, <2>2, <4>1, <4>4, <5>1, StartedFacts
        <5> QED
          BY <1>2, <3>2, <5>1, <5>2 DEF OnItsWay
      <4> QED
        BY <4>3, <4>4
    <3> QED
      BY <3>1, <3>2
  <2>7. IQuiet'
    BY <1>2, <1>4, <2>2, <2>3, <2>6 DEF IQuiet
  <2> QED
    BY <1>9, <2>4, <2>5, <2>7 DEF IInv
<1>12. CASE drain.tried = FALSE
  <2>1. /\ discards' = [discards EXCEPT ![i] = Started(discards[i])]
        /\ drain' = [drain EXCEPT !.wait = {i}, !.tried = TRUE]
    BY <1>4, <1>12 DEF DrainStep
  <2> QED
    BY <1>6, <1>11, <2>1
<1>13. CASE drain.tried = TRUE /\ discards[i].route = "teardown" /\ discards[i].pending
  <2>1. /\ discards' = [discards EXCEPT ![i] = Started([discards[i] EXCEPT !.route = "requeue"])]
        /\ drain' = [drain EXCEPT !.wait = {i}, !.tried = TRUE]
    BY <1>4, <1>13 DEF DrainStep
  <2>2. failures # 0
    BY <1>1, <1>2, <1>4, <1>13 DEF IQuiet
  <2>3. [discards[i] EXCEPT !.route = "requeue"] \in Record
    BY <1>6 DEF Record
  <2> QED
    BY <1>11, <2>1, <2>2, <2>3
<1>14. CASE drain.tried = TRUE /\ ~(discards[i].route = "teardown" /\ discards[i].pending)
  <2>1. drain' = [drain EXCEPT !.list = Tail(drain.list), !.tried = FALSE] /\ discards' = discards
    BY <1>4, <1>14 DEF DrainStep
  <2> QED
    BY <1>10, <2>1
<1>15. drain.tried \in BOOLEAN
  BY <1>3
<1> QED
  BY <1>12, <1>13, <1>14, <1>15

-----------------------------------------------------------------------------
(* The lanes.                                                              *)

LEMMA LaneAttemptStep ==
  ASSUME IInv, NEW i \in DOMAIN discards, LaneAttempt(i)
  PROVE  IInv'
<1>1. ITypes /\ IControl /\ IQuiet /\ IOrder
  BY DEF IInv
<1>2. PICK d : d = [discards[i] EXCEPT !.route = LaneRoute(discards[i]), !.lane = @ - 1, !.waiting = TRUE]
  OBVIOUS
<1>3. /\ released /\ discards[i].pending /\ ~discards[i].waiting /\ discards[i].lane > 0
      /\ discards' = [discards EXCEPT ![i] = Started(d)]
      /\ UNCHANGED <<phase, reason, released, admitted, steering, claims, host, outcome, poll, consumed,
                     awaiting, conversation, queue, paused, process, drain, failures>>
  BY <1>2 DEF LaneAttempt, entry, work, saved
<1>4. /\ discards \in Seq(Record) /\ discards[i] \in Record /\ failures \in 0..MaxFailures
      /\ drain \in [wait: SUBSET DOMAIN discards, list: Seq(DOMAIN discards), tried: BOOLEAN]
  BY <1>1 DEF ITypes
<1>5. /\ d \in Record /\ d.route = LaneRoute(discards[i])
      /\ d.batch = discards[i].batch /\ d.left = discards[i].left /\ d.pending = discards[i].pending
      /\ d.task = discards[i].task /\ d.stopped = discards[i].stopped
  <2>1. LaneRoute(discards[i]) \in {"teardown", "requeue"}
    BY <1>4 DEF LaneRoute, Record
  <2>2. discards[i].lane - 1 \in 0..3
    <3>1. discards[i].lane \in 0..3
      BY <1>4 DEF Record
    <3> QED
      BY <1>3, <3>1
  <2> QED
    BY <1>2, <1>4, <2>1, <2>2 DEF Record
<1>6. d.route = discards[i].route \/ d.route = "requeue"
  BY <1>5 DEF LaneRoute
<1>7. /\ Updates /\ discards'[i] = Started(d) /\ DOMAIN discards' = DOMAIN discards
      /\ \A j \in DOMAIN discards : j # i => discards'[j] = discards[j]
  BY <1>3, <1>5, <1>6, StartUpdates
<1>8. ITypes' /\ IPlaces' /\ ISaved' /\ IKept' /\ IMachines'
  <2>1. /\ host' \in Hosts /\ paused' \in BOOLEAN /\ awaiting' \subseteq DOMAIN discards
        /\ failures' \in 0..MaxFailures /\ process' \in {"up", "first", "each", "last", "down"}
        /\ drain' \in [wait: SUBSET DOMAIN discards, list: Seq(DOMAIN discards), tried: BOOLEAN]
    BY <1>1, <1>3 DEF ITypes, Hosts
  <2> QED
    BY <1>7, <2>1, UpdatesKeep
<1>9. IControl'
  <2>1. failures' \in Nat /\ failures' >= failures
    BY <1>3, <1>4, Constants
  <2> QED
    BY <1>3, <1>7, <2>1, ControlStays
<1>10. host = "done"
  BY <1>1, <1>3 DEF IControl
<1>11. failures = 0 => outcome = "unstarted"
  <2> SUFFICES ASSUME failures = 0, outcome # "unstarted" PROVE FALSE
    OBVIOUS
  <2>1. OnItsWay(i)
    BY <1>1, <1>3 DEF IQuiet
  <2> QED
    BY <1>3, <1>10, <2>1 DEF OnItsWay, BeforeEnd
<1>12. Started(d).pending = discards[i].pending /\ Started(d).left = discards[i].left
  BY <1>5, StartedFacts
<1>13. IQuiet'
  <2>1. ASSUME process = "each", drain.tried
        PROVE  /\ drain.list # <<>> /\ drain.wait \subseteq {Head(drain.list)}
               /\ failures = 0 /\ drain.wait = {} => ~discards'[Head(drain.list)].pending
    <3>1. /\ drain.list # <<>> /\ drain.wait \subseteq {Head(drain.list)}
          /\ failures = 0 /\ drain.wait = {} => ~discards[Head(drain.list)].pending
      BY <1>1, <2>1 DEF IQuiet
    <3>2. drain.list \in Seq(DOMAIN discards)
      BY <1>4
    <3>3. Head(drain.list) \in DOMAIN discards
      BY <3>1, <3>2
    <3> QED
      BY <1>7, <1>12, <3>1, <3>3
  <2> QED
    BY <1>3, <1>11, <2>1 DEF IQuiet
<1>14. IOrder'
  <2>1. process = "up" /\ failures = 0 => \A j \in DOMAIN discards : j = i
    <3> SUFFICES ASSUME failures = 0, NEW j \in DOMAIN discards PROVE j = i
      OBVIOUS
    <3>1. Len(discards) <= 1
      BY <1>1, <1>11 DEF IControl
    <3> QED
      BY <1>4, <3>1
  <2>2. Rows(Started(d)) => Rows(discards[i])
    <3>1. CASE d.task # "none"
      BY <1>5, <1>6, <3>1, StartedFacts DEF Rows, Writing
    <3>2. CASE d.task = "none"
      <4>1. d.route \in {"teardown", "requeue"}
        BY <1>5 DEF Record
      <4> QED
        BY <1>5, <1>6, <3>2, <4>1, StartedFacts DEF Rows, Writing
    <3> QED
      BY <3>1, <3>2
  <2>3. Started(d).task = "merged" => discards[i].task = "merged"
    <3>1. d.route \in {"teardown", "requeue"}
      BY <1>5 DEF Record
    <3> QED
      BY <1>5, <3>1, StartedFacts
  <2>4. \A m : CreatedAt(m)' = CreatedAt(m)
    BY <1>3 DEF CreatedAt
  <2>5. InSendOrder => InSendOrder'
    BY <1>3, <2>4 DEF InSendOrder
  <2>6. ASSUME process = "up", failures = 0
        PROVE  /\ InSendOrder
               /\ Started(d).task = "merged" => i \in awaiting
               /\ Rows(Started(d)) =>
                    \A m \in Range(Started(d).left), c \in Range(conversation) : CreatedAt(c) < CreatedAt(m)
    BY <1>1, <1>12, <2>2, <2>3, <2>6 DEF IOrder
  <2> QED
    BY <1>3, <1>7, <1>10, <2>1, <2>4, <2>5, <2>6 DEF IOrder
<1> QED
  BY <1>8, <1>9, <1>13, <1>14 DEF IInv

LEMMA WakeQueueStep ==
  ASSUME IInv, NEW i \in DOMAIN discards, WakeQueueAfterRelease(i)
  PROVE  IInv'
<1>1. ITypes /\ ISaved /\ IControl /\ IQuiet /\ IOrder
  BY DEF IInv
<1>2. /\ discards' = [discards EXCEPT ![i].wake = "published"]
      /\ UNCHANGED <<phase, reason, released, admitted, steering, claims, host, outcome, poll, consumed,
                     awaiting, conversation, queue, paused, process, drain, failures>>
  BY DEF WakeQueueAfterRelease, entry, work, saved
<1>3. /\ discards \in Seq(Record) /\ discards[i] \in Record /\ failures \in 0..MaxFailures
      /\ drain \in [wait: SUBSET DOMAIN discards, list: Seq(DOMAIN discards), tried: BOOLEAN]
  BY <1>1 DEF ITypes
<1>4. /\ discards'[i] = [discards[i] EXCEPT !.wake = "published"]
      /\ DOMAIN discards' = DOMAIN discards
      /\ \A j \in DOMAIN discards : j # i => discards'[j] = discards[j]
  BY <1>2, <1>3
<1>5. /\ discards'[i] \in Record
      /\ discards'[i].batch = discards[i].batch /\ discards'[i].left = discards[i].left
      /\ discards'[i].pending = discards[i].pending /\ discards'[i].task = discards[i].task
      /\ discards'[i].route = discards[i].route /\ discards'[i].stopped = discards[i].stopped
      /\ discards'[i].waiting = discards[i].waiting
  BY <1>3, <1>4 DEF Record
<1>6. ASSUME NEW j \in DOMAIN discards
      PROVE  /\ discards'[j].batch = discards[j].batch /\ discards'[j].left = discards[j].left
             /\ discards'[j].pending = discards[j].pending /\ discards'[j].task = discards[j].task
             /\ discards'[j].route = discards[j].route /\ discards'[j].stopped = discards[j].stopped
             /\ discards'[j].waiting = discards[j].waiting
  BY <1>4, <1>5
<1>7. Updates
  <2>1. discards' \in Seq(Record)
    <3>1. PICK e : e = [discards[i] EXCEPT !.wake = "published"]
      OBVIOUS
    <3>2. e \in Record /\ discards' = [discards EXCEPT ![i] = e]
      BY <1>2, <1>4, <1>5, <3>1
    <3> QED
      BY <1>3, <3>2
  <2>2. \A j \in DOMAIN discards :
          Parked(discards'[j], queue', paused') /\ Parking(discards[j], discards'[j])
    BY <1>1, <1>2, <1>6 DEF Parked, Parking, Writing, ISaved
  <2> QED
    BY <1>2, <1>4, <1>6, <2>1, <2>2 DEF Updates
<1>8. ITypes' /\ IPlaces' /\ ISaved' /\ IKept' /\ IMachines'
  <2>1. /\ host' \in Hosts /\ paused' \in BOOLEAN /\ awaiting' \subseteq DOMAIN discards
        /\ failures' \in 0..MaxFailures /\ process' \in {"up", "first", "each", "last", "down"}
        /\ drain' \in [wait: SUBSET DOMAIN discards, list: Seq(DOMAIN discards), tried: BOOLEAN]
    BY <1>1, <1>2 DEF ITypes, Hosts
  <2> QED
    BY <1>7, <2>1, UpdatesKeep
<1>9. IControl'
  <2>1. failures' \in Nat /\ failures' >= failures
    BY <1>2, <1>3, Constants
  <2> QED
    BY <1>2, <1>7, <2>1, ControlStays
<1>10. IQuiet'
  <2>1. \A j \in DOMAIN discards : OnItsWay(j) => OnItsWay(j)'
    BY <1>2, <1>6 DEF OnItsWay
  <2>2. drain.list # <<>> => Head(drain.list) \in DOMAIN discards
    <3>1. drain.list \in Seq(DOMAIN discards)
      BY <1>3
    <3> QED
      BY <3>1, HeadAndTail
  <2>3. drain.list # <<>> =>
          discards'[Head(drain.list)].pending = discards[Head(drain.list)].pending
    BY <1>6, <2>2
  <2>4. \A j \in DOMAIN discards' : j \in DOMAIN discards /\ discards'[j].pending = discards[j].pending
    BY <1>4, <1>6
  <2> QED
    BY <1>1, <1>2, <2>1, <2>3, <2>4 DEF IQuiet
<1>11. IOrder'
  <2>1. \A m : CreatedAt(m)' = CreatedAt(m)
    BY <1>2 DEF CreatedAt
  <2>2. InSendOrder => InSendOrder'
    BY <1>2, <2>1 DEF InSendOrder
  <2>3. \A j \in DOMAIN discards : Writing(discards'[j]) = Writing(discards[j])
    BY <1>6 DEF Writing
  <2>4. \A j \in DOMAIN discards : Rows(discards'[j]) = Rows(discards[j])
    BY <1>6, <2>3 DEF Rows
  <2> QED
    BY <1>1, <1>2, <1>4, <1>6, <2>1, <2>2, <2>3, <2>4 DEF IOrder
<1> QED
  BY <1>8, <1>9, <1>10, <1>11 DEF IInv

-----------------------------------------------------------------------------
(* The ends of tasks.                                                      *)

\* The tasks of the discards in S end; what they leave is as it was, but for
\* pending and wake.
Ends(ended, S) ==
  /\ EndTasks(ended) /\ S = DOMAIN ended /\ S \subseteq DOMAIN discards
  /\ \A i \in S :
       /\ ended[i] \in Record
       /\ ended[i].batch = discards[i].batch /\ ended[i].left = discards[i].left
       /\ ended[i].stopped = discards[i].stopped /\ ended[i].route = discards[i].route

LEMMA EndsFacts ==
  ASSUME ITypes, NEW ended, NEW S, Ends(ended, S)
  PROVE  /\ discards' \in Seq(Record) /\ DOMAIN discards' = DOMAIN discards
         /\ \A i \in DOMAIN discards : i \notin S => discards'[i] = discards[i]
         /\ \A i \in S :
              /\ i \in DOMAIN discards /\ discards'[i].task = "none"
              /\ discards'[i].pending = ended[i].pending
              /\ discards'[i].batch = discards[i].batch /\ discards'[i].left = discards[i].left
              /\ discards'[i].stopped = discards[i].stopped /\ discards'[i].route = discards[i].route
         /\ awaiting' = awaiting \ S
         /\ drain'.wait = drain.wait \ S /\ drain'.list = drain.list /\ drain'.tried = drain.tried
         /\ drain' \in [wait: SUBSET DOMAIN discards, list: Seq(DOMAIN discards), tried: BOOLEAN]
<1>1. /\ discards' = [i \in DOMAIN discards |->
                        IF i \in S THEN [ended[i] EXCEPT !.task = "none", !.waiting = FALSE]
                        ELSE discards[i]]
      /\ awaiting' = awaiting \ S /\ drain' = [drain EXCEPT !.wait = @ \ S]
      /\ S \subseteq DOMAIN discards
  BY DEF Ends, EndTasks
<1>2. /\ discards \in Seq(Record) /\ \A i \in DOMAIN discards : discards[i] \in Record
      /\ drain \in [wait: SUBSET DOMAIN discards, list: Seq(DOMAIN discards), tried: BOOLEAN]
  BY DEF ITypes
<1>3. DOMAIN discards' = DOMAIN discards /\ \A i \in DOMAIN discards : i \notin S => discards'[i] = discards[i]
  BY <1>1
<1>4. ASSUME NEW i \in S
      PROVE  /\ i \in DOMAIN discards /\ discards'[i] \in Record /\ discards'[i].task = "none"
             /\ discards'[i].pending = ended[i].pending
             /\ discards'[i].batch = discards[i].batch /\ discards'[i].left = discards[i].left
             /\ discards'[i].stopped = discards[i].stopped /\ discards'[i].route = discards[i].route
  <2>1. i \in DOMAIN discards
    BY <1>1
  <2>2. discards'[i] = [ended[i] EXCEPT !.task = "none", !.waiting = FALSE]
    BY <1>1, <2>1
  <2>3. /\ ended[i] \in Record
        /\ ended[i].batch = discards[i].batch /\ ended[i].left = discards[i].left
        /\ ended[i].stopped = discards[i].stopped /\ ended[i].route = discards[i].route
    BY DEF Ends
  <2>4. /\ discards'[i] \in Record /\ discards'[i].task = "none" /\ discards'[i].pending = ended[i].pending
        /\ discards'[i].batch = ended[i].batch /\ discards'[i].left = ended[i].left
        /\ discards'[i].stopped = ended[i].stopped /\ discards'[i].route = ended[i].route
    BY <2>2, <2>3 DEF Record
  <2> QED
    BY <2>1, <2>3, <2>4
<1>5. discards' \in Seq(Record)
  <2>1. \A i \in DOMAIN discards : discards'[i] \in Record
    BY <1>2, <1>3, <1>4
  <2>2. discards' = [i \in DOMAIN discards |-> discards'[i]]
    BY <1>1
  <2> QED
    BY <1>2, <1>3, <2>1, <2>2, MappedSeq
<1>6. /\ drain'.wait = drain.wait \ S /\ drain'.list = drain.list /\ drain'.tried = drain.tried
      /\ drain' \in [wait: SUBSET DOMAIN discards, list: Seq(DOMAIN discards), tried: BOOLEAN]
  BY <1>1, <1>2
<1> QED
  BY <1>1, <1>3, <1>4, <1>5, <1>6

LEMMA EndsInv ==
  ASSUME IInv, NEW ended, NEW S, Ends(ended, S),
         UNCHANGED <<phase, reason, released, admitted, steering, claims, host, outcome, poll, consumed,
                     conversation, process>>,
         queue \subseteq queue', paused' \in BOOLEAN, paused => paused',
         \A b \in queue' \ queue : \E i \in S : discards[i].left = b /\ discards[i].route = "requeue",
         failures' \in 0..MaxFailures, failures' >= failures,
         \A i \in S : ended[i].pending => discards[i].pending,
         \A i \in S : discards[i].pending /\ ~ended[i].pending =>
           \/ discards[i].left = <<>>
           \/ /\ discards[i].left \in queue' /\ discards[i].route = "requeue"
              /\ discards[i].stopped => paused',
         failures' = 0 => \A i \in S : ~ended[i].pending,
         \A i \in S, j \in DOMAIN discards :
           discards[i].task = "merged" /\ discards[j].task = "merged" => j \in S
  PROVE  IInv'
<1>1. ITypes /\ ISaved /\ IControl /\ IQuiet /\ IOrder
  BY DEF IInv
<1>2. /\ discards' \in Seq(Record) /\ DOMAIN discards' = DOMAIN discards
      /\ \A i \in DOMAIN discards : i \notin S => discards'[i] = discards[i]
      /\ \A i \in S :
           /\ i \in DOMAIN discards /\ discards'[i].task = "none"
           /\ discards'[i].pending = ended[i].pending
           /\ discards'[i].batch = discards[i].batch /\ discards'[i].left = discards[i].left
           /\ discards'[i].stopped = discards[i].stopped /\ discards'[i].route = discards[i].route
      /\ awaiting' = awaiting \ S
      /\ drain'.wait = drain.wait \ S /\ drain'.list = drain.list /\ drain'.tried = drain.tried
      /\ drain' \in [wait: SUBSET DOMAIN discards, list: Seq(DOMAIN discards), tried: BOOLEAN]
  BY <1>1, EndsFacts
<1>3. /\ failures \in Nat /\ failures' \in Nat /\ awaiting \subseteq DOMAIN discards
      /\ drain \in [wait: SUBSET DOMAIN discards, list: Seq(DOMAIN discards), tried: BOOLEAN]
  BY <1>1, Constants DEF ITypes
<1>4. \A i \in S : ~Writing(discards'[i])
  BY <1>2 DEF Writing
<1>5. Updates
  <2>1. ASSUME NEW i \in S
        PROVE  /\ Parked(discards'[i], queue', paused') /\ Parking(discards[i], discards'[i])
               /\ discards[i].pending =>
                    discards'[i].pending \/ discards[i].left = <<>> \/ discards[i].left \in queue'
    <3>1. ASSUME ~discards'[i].pending, discards'[i].left # <<>>
          PROVE  /\ discards'[i].left \in queue' /\ discards'[i].route = "requeue"
                 /\ discards'[i].stopped => paused'
      <4>1. CASE discards[i].pending
        BY <1>2, <3>1, <4>1
      <4>2. CASE ~discards[i].pending
        <5>1. /\ discards[i].left \in queue /\ discards[i].route = "requeue"
              /\ discards[i].stopped => paused
          BY <1>1, <1>2, <3>1, <4>2 DEF ISaved
        <5> QED
          BY <1>2, <5>1
      <4> QED
        BY <4>1, <4>2
    <3>2. Parked(discards'[i], queue', paused')
      BY <1>2, <1>4, <3>1 DEF Parked
    <3>3. Parking(discards[i], discards'[i])
      BY <1>2, <1>4 DEF Parking
    <3>4. discards[i].pending =>
            discards'[i].pending \/ discards[i].left = <<>> \/ discards[i].left \in queue'
      BY <1>2
    <3> QED
      BY <3>2, <3>3, <3>4
  <2>2. \A i \in DOMAIN discards :
          discards'[i].batch = discards[i].batch /\ discards'[i].left = discards[i].left
    BY <1>2
  <2>3. \A b \in queue' \ queue : \E i \in DOMAIN discards :
          discards[i].left = b /\ discards'[i].route = "requeue" /\ ~Writing(discards'[i])
    BY <1>2, <1>4
  <2>4. \A i \in DOMAIN discards :
          \/ discards'[i] = discards[i]
          \/ /\ Parked(discards'[i], queue', paused') /\ Parking(discards[i], discards'[i])
             /\ discards[i].pending =>
                  discards'[i].pending \/ discards[i].left = <<>> \/ discards[i].left \in queue'
    BY <1>2, <2>1
  <2> QED
    BY <1>2, <2>2, <2>3, <2>4, Zenon DEF Updates
<1>6. ITypes' /\ IPlaces' /\ ISaved' /\ IKept' /\ IMachines'
  <2>1. /\ host' \in Hosts /\ awaiting' \subseteq DOMAIN discards
        /\ process' \in {"up", "first", "each", "last", "down"}
    BY <1>1, <1>2 DEF ITypes, Hosts
  <2> QED
    BY <1>2, <1>5, <2>1, UpdatesKeep
<1>7. IControl'
  BY <1>2, <1>3, <1>5, ControlStays
<1>8. failures' = 0 => failures = 0
  BY <1>3
<1>9. IQuiet'
  <2>1. ASSUME failures' = 0, outcome # "unstarted", NEW i \in DOMAIN discards, discards'[i].pending
        PROVE  OnItsWay(i)'
    <3>1. i \notin S
      BY <1>2, <2>1
    <3>2. discards'[i] = discards[i] /\ OnItsWay(i)
      BY <1>1, <1>2, <1>8, <2>1, <3>1 DEF IQuiet
    <3> QED
      BY <1>2, <3>1, <3>2 DEF OnItsWay
  <2>2. ASSUME process = "each", drain.tried
        PROVE  /\ drain.list # <<>> /\ drain'.wait \subseteq {Head(drain.list)}
               /\ failures' = 0 /\ drain'.wait = {} => ~discards'[Head(drain.list)].pending
    <3>1. /\ drain.list # <<>> /\ drain.wait \subseteq {Head(drain.list)}
          /\ failures = 0 /\ drain.wait = {} => ~discards[Head(drain.list)].pending
      BY <1>1, <2>2 DEF IQuiet
    <3>2. drain.list \in Seq(DOMAIN discards)
      BY <1>3
    <3>3. Head(drain.list) \in DOMAIN discards
      BY <3>1, <3>2
    <3>4. CASE Head(drain.list) \in S
      BY <1>2, <3>1, <3>4
    <3>5. CASE Head(drain.list) \notin S
      BY <1>2, <1>8, <3>1, <3>3, <3>5
    <3> QED
      BY <3>4, <3>5
  <2> QED
    BY <1>2, <2>1, <2>2 DEF IQuiet
<1>10. IOrder'
  <2>1. \A m : CreatedAt(m)' = CreatedAt(m)
    BY DEF CreatedAt
  <2>2. InSendOrder => InSendOrder'
    BY <2>1 DEF InSendOrder
  <2>3. \A i \in DOMAIN discards : Writing(discards'[i]) => i \notin S /\ Writing(discards[i])
    BY <1>2, <1>4
  <2>4. \A i \in DOMAIN discards : Rows(discards'[i]) => Rows(discards[i])
    BY <1>2, <2>3 DEF Rows
  <2>5. ASSUME process = "up", failures' = 0, NEW i \in DOMAIN discards
        PROVE  /\ discards'[i].task = "teardown" => released
               /\ discards'[i].task = "merged" => i \in awaiting'
               /\ Rows(discards'[i]) =>
                    \A m \in Range(discards'[i].left), c \in Range(conversation) :
                      CreatedAt(c) < CreatedAt(m)
               /\ \A j \in DOMAIN discards :
                    i # j /\ Writing(discards'[i]) /\ Rows(discards'[j]) /\ discards'[j].left # <<>> =>
                      discards'[i].task = "merged" /\ discards'[j].task = "merged"
    <3>1. /\ discards[i].task = "teardown" => released
          /\ discards[i].task = "merged" => i \in awaiting
          /\ Rows(discards[i]) =>
               \A m \in Range(discards[i].left), c \in Range(conversation) :
                 CreatedAt(c) < CreatedAt(m)
          /\ \A j \in DOMAIN discards :
               i # j /\ Writing(discards[i]) /\ Rows(discards[j]) /\ discards[j].left # <<>> =>
                 discards[i].task = "merged" /\ discards[j].task = "merged"
      BY <1>1, <1>8, <2>5 DEF IOrder
    <3>2. /\ discards'[i].task = "teardown" => released
          /\ discards'[i].task = "merged" => i \in awaiting'
      <4>1. CASE i \in S
        BY <1>2, <4>1
      <4>2. CASE i \notin S
        BY <1>2, <3>1, <4>2
      <4> QED
        BY <4>1, <4>2
    <3>3. Rows(discards'[i]) =>
            \A m \in Range(discards'[i].left), c \in Range(conversation) : CreatedAt(c) < CreatedAt(m)
      <4>1. discards'[i].left = discards[i].left
        BY <1>2
      <4> QED
        BY <2>4, <3>1, <4>1
    <3>4. ASSUME NEW j \in DOMAIN discards, i # j, Writing(discards'[i]), Rows(discards'[j]),
                 discards'[j].left # <<>>
          PROVE  discards'[i].task = "merged" /\ discards'[j].task = "merged"
      <4>1. i \notin S /\ Writing(discards[i]) /\ Rows(discards[j]) /\ discards[j].left # <<>>
        BY <1>2, <2>3, <2>4, <3>4
      <4>2. discards[i].task = "merged" /\ discards[j].task = "merged"
        BY <3>1, <3>4, <4>1
      <4>3. j \notin S
        BY <4>1, <4>2
      <4> QED
        BY <1>2, <4>1, <4>2, <4>3
    <3> QED
      BY <3>2, <3>3, <3>4
  <2>6. process = "up" /\ failures' = 0 => InSendOrder
    BY <1>1, <1>8 DEF IOrder
  <2>7. process = "up" /\ (conversation # <<>> \/ \E i \in DOMAIN discards : Writing(discards'[i])) =>
          host \in {"committing", "settling", "stuck", "done"}
    BY <1>1, <2>3 DEF IOrder
  <2> QED
    BY <1>2, <2>1, <2>2, <2>5, <2>6, <2>7 DEF IOrder, Writing, Rows
<1> QED
  BY <1>6, <1>7, <1>9, <1>10 DEF IInv

LEMMA GroupFacts ==
  ASSUME NEW S \in TeardownGroups
  PROVE  /\ S \subseteq DOMAIN discards /\ S # {} /\ \A i \in S : Writing(discards[i])
         /\ \A i \in S, j \in DOMAIN discards :
              discards[i].task = "merged" /\ discards[j].task = "merged" => j \in S
         /\ \A i \in S, j \in S : i # j => discards[i].task = "merged"
<1>1. CASE \E i \in {j \in DOMAIN discards : discards[j].task = "teardown"} : S = {i}
  <2>1. PICK i \in DOMAIN discards : discards[i].task = "teardown" /\ S = {i}
    BY <1>1
  <2> QED
    BY <2>1 DEF Writing
<1>2. CASE S = {i \in DOMAIN discards : discards[i].task = "merged"} /\ S # {}
  BY <1>2 DEF Writing
<1> QED
  BY <1>1, <1>2 DEF TeardownGroups

LEMMA FailsFacts ==
  ASSUME ITypes, failures' = failures \/ Fails
  PROVE  failures' \in 0..MaxFailures /\ failures' >= failures /\ (Fails => failures' # 0)
BY Constants DEF ITypes, Fails

LEMMA TeardownEndStep ==
  ASSUME IInv, NEW S, TeardownEnd(S)
  PROVE  IInv'
<1>1. PICK ended : ended = [i \in S |-> [discards[i] EXCEPT !.pending = @ /\ discards[i].left # <<>>]]
  OBVIOUS
<1>2. /\ S \in TeardownGroups /\ ((Left(S) = {} /\ failures' = failures) \/ Fails)
      /\ EndTasks(ended)
      /\ UNCHANGED <<phase, reason, released, admitted, steering, claims, host, outcome, poll, consumed,
                     conversation, queue, paused, process>>
  BY <1>1 DEF TeardownEnd, entry, work, saved
<1>3. ITypes
  BY DEF IInv
<1>4. /\ S \subseteq DOMAIN discards
      /\ \A i \in S, j \in DOMAIN discards :
           discards[i].task = "merged" /\ discards[j].task = "merged" => j \in S
  BY <1>2, GroupFacts
<1>5. ASSUME NEW i \in S
      PROVE  /\ ended[i] \in Record
             /\ ended[i].batch = discards[i].batch /\ ended[i].left = discards[i].left
             /\ ended[i].stopped = discards[i].stopped /\ ended[i].route = discards[i].route
             /\ ended[i].pending => discards[i].pending /\ discards[i].left # <<>>
             /\ discards[i].pending /\ discards[i].left # <<>> => ended[i].pending
  <2>1. discards[i] \in Record
    BY <1>3, <1>4 DEF ITypes
  <2>2. PICK p \in BOOLEAN : p = (discards[i].pending /\ discards[i].left # <<>>)
    OBVIOUS
  <2>3. ended[i] = [discards[i] EXCEPT !.pending = p]
    BY <1>1, <2>1, <2>2 DEF Record
  <2> QED
    BY <2>1, <2>2, <2>3 DEF Record
<1>6. Ends(ended, S)
  BY <1>1, <1>2, <1>4, <1>5 DEF Ends
<1>7. failures' \in 0..MaxFailures /\ failures' >= failures /\ (Fails => failures' # 0)
  BY <1>2, <1>3, FailsFacts
<1>8. failures' = 0 => \A i \in S : ~ended[i].pending
  <2> SUFFICES ASSUME Left(S) = {}, NEW i \in S PROVE ~ended[i].pending
    BY <1>2, <1>7
  <2>a. discards[i] \in Record
    BY <1>3, <1>4 DEF ITypes
  <2>1. discards[i].left \in Seq(Users)
    BY <2>a DEF Record
  <2>2. Range(discards[i].left) = {}
    BY DEF Left
  <2>3. discards[i].left = <<>>
    BY <2>1, <2>2, RangeIn
  <2> QED
    BY <1>5, <2>3
<1>9. paused' \in BOOLEAN
  BY <1>2, <1>3 DEF ITypes
<1> QED
  BY <1>2, <1>4, <1>5, <1>6, <1>7, <1>8, <1>9, EndsInv

LEMMA RequeueFailsStep ==
  ASSUME IInv, NEW i \in DOMAIN discards, RequeueFails(i)
  PROVE  IInv'
<1>1. PICK ended : ended = [j \in {i} |-> discards[j]]
  OBVIOUS
<1>2. /\ discards[i].task \in {"enqueue", "pause"} /\ Fails /\ EndTasks(ended)
      /\ UNCHANGED <<phase, reason, released, admitted, steering, claims, host, outcome, poll, consumed,
                     conversation, queue, paused, process>>
  BY <1>1 DEF RequeueFails, entry, work, saved
<1>3. ITypes /\ discards[i] \in Record
  BY DEF IInv, ITypes
<1>4. ended[i] = discards[i] /\ DOMAIN ended = {i}
  BY <1>1
<1>5. Ends(ended, {i})
  BY <1>2, <1>3, <1>4 DEF Ends
<1>6. failures' \in 0..MaxFailures /\ failures' >= failures /\ failures' # 0
  BY <1>2, <1>3, FailsFacts
<1>7. paused' \in BOOLEAN
  BY <1>2, <1>3 DEF ITypes
<1>8. /\ \A j \in {i} : ended[j].pending => discards[j].pending
      /\ \A j \in {i} : discards[j].pending => ended[j].pending
      /\ \A j \in {i}, k \in DOMAIN discards :
           discards[j].task = "merged" /\ discards[k].task = "merged" => k \in {i}
  BY <1>2, <1>4
<1> QED
  BY <1>2, <1>5, <1>6, <1>7, <1>8, EndsInv

LEMMA SettledFacts ==
  ASSUME NEW d \in Record
  PROVE  /\ Settled(d) \in Record /\ Settled(d).pending = FALSE
         /\ Settled(d).batch = d.batch /\ Settled(d).left = d.left
         /\ Settled(d).stopped = d.stopped /\ Settled(d).route = d.route
<1>1. PICK w \in {"none", "due", "published"} : w = IF d.cause = "exit-close" THEN "due" ELSE d.wake
  BY DEF Record
<1>2. Settled(d) = [d EXCEPT !.pending = FALSE, !.wake = w]
  BY <1>1 DEF Settled, Record
<1> QED
  BY <1>2 DEF Record

\* A batch is settled once it is queued and, after a user stop, parked.
LEMMA SettlesInv ==
  ASSUME IInv, NEW i \in DOMAIN discards, discards[i].task \in {"enqueue", "pause"},
         EndTasks([j \in {i} |-> Settled(discards[j])]),
         UNCHANGED <<phase, reason, released, admitted, steering, claims, host, outcome, poll, consumed,
                     conversation, process, failures>>,
         queue' = queue \cup {discards[i].left}, paused' \in BOOLEAN, paused => paused',
         discards[i].stopped => paused'
  PROVE  IInv'
<1>1. PICK ended : ended = [j \in {i} |-> Settled(discards[j])]
  OBVIOUS
<1>2. ITypes /\ ISaved /\ discards[i] \in Record
  BY DEF IInv, ITypes
<1>3. ended[i] = Settled(discards[i]) /\ DOMAIN ended = {i} /\ EndTasks(ended)
  BY <1>1
<1>4. Ends(ended, {i}) /\ ended[i].pending = FALSE
  <2>1. /\ ended[i] \in Record /\ ended[i].pending = FALSE
        /\ ended[i].batch = discards[i].batch /\ ended[i].left = discards[i].left
        /\ ended[i].stopped = discards[i].stopped /\ ended[i].route = discards[i].route
    BY <1>2, <1>3, SettledFacts
  <2> QED
    BY <1>3, <2>1 DEF Ends
<1>5. discards[i].route = "requeue"
  BY <1>2 DEF ISaved
<1>6. failures' \in 0..MaxFailures /\ failures' >= failures
  BY <1>2, FailsFacts
<1>7. /\ queue \subseteq queue'
      /\ \A b \in queue' \ queue : \E j \in {i} : discards[j].left = b /\ discards[j].route = "requeue"
  BY <1>5
<1>8. /\ \A j \in {i} : ended[j].pending => discards[j].pending
      /\ \A j \in {i} : discards[j].pending /\ ~ended[j].pending =>
           \/ discards[j].left = <<>>
           \/ /\ discards[j].left \in queue' /\ discards[j].route = "requeue"
              /\ discards[j].stopped => paused'
      /\ \A j \in {i} : ~ended[j].pending
      /\ \A j \in {i}, k \in DOMAIN discards :
           discards[j].task = "merged" /\ discards[k].task = "merged" => k \in {i}
  BY <1>4, <1>5
<1> QED
  BY <1>4, <1>6, <1>7, <1>8, EndsInv

LEMMA PauseIfPendingStep ==
  ASSUME IInv, NEW i \in DOMAIN discards, PauseIfPending(i)
  PROVE  IInv'
<1>1. /\ discards[i].task = "pause" /\ paused' = TRUE
      /\ EndTasks([j \in {i} |-> Settled(discards[j])])
      /\ UNCHANGED <<phase, reason, released, admitted, steering, claims, host, outcome, poll, consumed,
                     conversation, queue, process, failures>>
  BY DEF PauseIfPending, entry, work
<1>2. discards[i].left \in queue
  BY <1>1 DEF IInv, ISaved
<1>3. queue' = queue \cup {discards[i].left}
  BY <1>1, <1>2
<1> QED
  BY <1>1, <1>3, SettlesInv

LEMMA EnqueueStep ==
  ASSUME IInv, NEW i \in DOMAIN discards, Enqueue(i)
  PROVE  IInv'
<1>1. /\ discards[i].task = "enqueue" /\ queue' = queue \cup {discards[i].left}
      /\ UNCHANGED <<phase, reason, released, admitted, steering, claims, host, outcome, poll, consumed,
                     conversation, paused, process, failures>>
  BY DEF Enqueue, entry, work
<1>2. ITypes /\ ISaved /\ IControl /\ IQuiet /\ IOrder /\ discards[i] \in Record
  BY DEF IInv, ITypes
<1>3. paused' \in BOOLEAN /\ discards[i].route = "requeue" /\ discards[i].stopped \in BOOLEAN
  BY <1>1, <1>2 DEF ITypes, ISaved, Record
<1>4. CASE ~discards[i].stopped
  <2>1. EndTasks([j \in {i} |-> Settled(discards[j])])
    BY <1>4 DEF Enqueue
  <2> QED
    BY <1>1, <1>3, <1>4, <2>1, SettlesInv
<1>5. CASE discards[i].stopped
  <2>1. discards' = [discards EXCEPT ![i].task = "pause"] /\ awaiting' = awaiting /\ drain' = drain
    BY <1>5 DEF Enqueue
  <2>2. PICK e : e = [discards[i] EXCEPT !.task = "pause"]
    OBVIOUS
  <2>3. /\ discards \in Seq(Record) /\ failures \in 0..MaxFailures
        /\ drain \in [wait: SUBSET DOMAIN discards, list: Seq(DOMAIN discards), tried: BOOLEAN]
    BY <1>2 DEF ITypes
  <2>4. /\ e \in Record /\ e.task = "pause" /\ e.batch = discards[i].batch /\ e.left = discards[i].left
        /\ e.pending = discards[i].pending /\ e.route = discards[i].route
        /\ e.stopped = discards[i].stopped
    BY <1>2, <2>2 DEF Record
  <2>5. /\ discards' \in Seq(Record) /\ DOMAIN discards' = DOMAIN discards /\ discards'[i] = e
        /\ \A j \in DOMAIN discards : j # i => discards'[j] = discards[j]
    <3>1. discards' = [discards EXCEPT ![i] = e]
      BY <2>1, <2>2
    <3> QED
      BY <2>3, <2>4, <3>1
  <2>6. ~Writing(e) /\ ~Writing(discards[i])
    BY <1>1, <2>4 DEF Writing
  <2>7. Updates
    <3>1. Parked(e, queue', paused')
      <4>1. ~discards[i].pending /\ discards[i].left # <<>> => (discards[i].stopped => paused)
        BY <1>2 DEF ISaved
      <4> QED
        BY <1>1, <1>3, <2>4, <2>6, <4>1 DEF Parked
    <3>2. Parking(discards[i], e)
      BY <1>3, <2>4, <2>6 DEF Parking
    <3>3. \A b \in queue' \ queue : \E j \in DOMAIN discards :
            discards[j].left = b /\ discards'[j].route = "requeue" /\ ~Writing(discards'[j])
      BY <1>1, <1>3, <2>4, <2>5, <2>6
    <3>4. \A j \in DOMAIN discards :
            discards'[j].batch = discards[j].batch /\ discards'[j].left = discards[j].left
      BY <2>4, <2>5
    <3>5. queue \subseteq queue'
      BY <1>1
    <3>6. \A j \in DOMAIN discards :
            \/ discards'[j] = discards[j]
            \/ /\ Parked(discards'[j], queue', paused') /\ Parking(discards[j], discards'[j])
               /\ discards[j].pending => discards'[j].pending
      BY <2>4, <2>5, <3>1, <3>2
    <3> QED
      BY <1>1, <2>5, <3>3, <3>4, <3>5, <3>6, Zenon DEF Updates
  <2>8. ITypes' /\ IPlaces' /\ ISaved' /\ IKept' /\ IMachines'
    <3>1. /\ host' \in Hosts /\ awaiting' \subseteq DOMAIN discards
          /\ failures' \in 0..MaxFailures /\ process' \in {"up", "first", "each", "last", "down"}
          /\ drain' \in [wait: SUBSET DOMAIN discards, list: Seq(DOMAIN discards), tried: BOOLEAN]
      BY <1>1, <1>2, <2>1 DEF ITypes, Hosts
    <3> QED
      BY <1>3, <2>7, <3>1, UpdatesKeep
  <2>9. IControl'
    <3>1. failures' \in Nat /\ failures' >= failures
      BY <1>1, <2>3, Constants
    <3> QED
      BY <1>1, <2>1, <2>7, <3>1, ControlStays
  <2>10. IQuiet'
    <3>1. ASSUME failures = 0, outcome # "unstarted", NEW j \in DOMAIN discards, discards'[j].pending
          PROVE  OnItsWay(j)'
      <4>1. OnItsWay(j)
        BY <1>2, <2>4, <2>5, <3>1 DEF IQuiet
      <4>2. j # i
        BY <1>1, <1>5, <4>1 DEF OnItsWay
      <4>3. discards'[j] = discards[j]
        BY <2>5, <4>2
      <4> QED
        BY <1>1, <2>1, <4>1, <4>3 DEF OnItsWay
    <3>2. drain.list # <<>> => Head(drain.list) \in DOMAIN discards
      <4>1. drain.list \in Seq(DOMAIN discards)
        BY <2>3
      <4> QED
        BY <4>1, HeadAndTail
    <3>3. drain.list # <<>> =>
            discards'[Head(drain.list)].pending = discards[Head(drain.list)].pending
      BY <2>4, <2>5, <3>2
    <3> QED
      BY <1>1, <1>2, <2>1, <2>5, <3>1, <3>3 DEF IQuiet
  <2>11. IOrder'
    <3>1. \A m : CreatedAt(m)' = CreatedAt(m)
      BY <1>1 DEF CreatedAt
    <3>2. InSendOrder => InSendOrder'
      BY <1>1, <3>1 DEF InSendOrder
    <3>3. ~Rows(e) /\ ~Rows(discards[i])
      BY <1>3, <2>4, <2>6 DEF Rows
    <3>4. \A j \in DOMAIN discards : Writing(discards'[j]) \/ Rows(discards'[j]) => discards'[j] = discards[j]
      BY <2>5, <2>6, <3>3
    <3>5. \A j \in DOMAIN discards : discards'[j].task \in {"teardown", "merged"} => discards'[j] = discards[j]
      BY <3>4 DEF Writing
    <3>6. ASSUME process = "up", failures = 0, NEW j \in DOMAIN discards
          PROVE  /\ discards'[j].task = "teardown" => released
                 /\ discards'[j].task = "merged" => j \in awaiting
                 /\ Rows(discards'[j]) =>
                      \A m \in Range(discards'[j].left), c \in Range(conversation) :
                        CreatedAt(c) < CreatedAt(m)
                 /\ \A k \in DOMAIN discards :
                      j # k /\ Writing(discards'[j]) /\ Rows(discards'[k]) /\ discards'[k].left # <<>> =>
                        discards'[j].task = "merged" /\ discards'[k].task = "merged"
      BY <1>2, <3>4, <3>5, <3>6 DEF IOrder
    <3>7. process = "up" /\ failures = 0 => InSendOrder
      BY <1>2 DEF IOrder
    <3>8. process = "up" /\ (conversation # <<>> \/ \E j \in DOMAIN discards : Writing(discards'[j])) =>
            host \in {"committing", "settling", "stuck", "done"}
      BY <1>2, <3>4 DEF IOrder
    <3> QED
      BY <1>1, <2>1, <2>5, <3>1, <3>2, <3>6, <3>7, <3>8 DEF IOrder, Writing, Rows
  <2> QED
    BY <2>8, <2>9, <2>10, <2>11 DEF IInv
<1> QED
  BY <1>3, <1>4, <1>5

-----------------------------------------------------------------------------
(* A row is written.                                                       *)

LEMMA NextRowFacts ==
  ASSUME ITypes, IPlaces, NEW S \in TeardownGroups, Left(S) # {}
  PROVE  /\ NextRow(S) \in Left(S)
         /\ \A n \in Left(S) : n # NextRow(S) => CreatedAt(NextRow(S)) < CreatedAt(n)
<1>1. Left(S) \subseteq Range(admitted)
  <2>1. \A i \in S : Range(discards[i].left) \subseteq Range(admitted)
    BY GroupFacts DEF IPlaces
  <2> QED
    BY <2>1 DEF Left
<1>2. \A n \in Left(S) : CreatedAt(n) \in Nat /\ admitted[CreatedAt(n)] = n
  BY <1>1, CreatedAtFacts DEF ITypes
<1>3. PICK T : T = {CreatedAt(n) : n \in Left(S)}
  OBVIOUS
<1>4. T \in SUBSET Nat /\ T # {}
  BY <1>2, <1>3
<1>5. PICK x \in T : \A y \in T : x <= y
  BY <1>4, NatMin
<1>6. \E m \in Left(S) : \A n \in Left(S) : CreatedAt(m) <= CreatedAt(n)
  BY <1>3, <1>5
<1>7. NextRow(S) \in Left(S) /\ \A n \in Left(S) : CreatedAt(NextRow(S)) <= CreatedAt(n)
  BY <1>6 DEF NextRow
<1>8. PICK m : m = NextRow(S)
  OBVIOUS
<1>9. ASSUME NEW n \in Left(S), n # m PROVE CreatedAt(m) < CreatedAt(n)
  <2>1. CreatedAt(m) # CreatedAt(n)
    BY <1>2, <1>7, <1>8, <1>9
  <2>2. CreatedAt(m) <= CreatedAt(n) /\ CreatedAt(m) \in Nat /\ CreatedAt(n) \in Nat
    BY <1>2, <1>7, <1>8
  <2> QED
    BY <2>1, <2>2
<1> QED
  BY <1>7, <1>8, <1>9

\* What is written leaves the batch it is in and no other.
Writes(m, S) ==
  /\ DOMAIN discards' = DOMAIN discards /\ discards' \in Seq(Record)
  /\ \A i \in DOMAIN discards :
       /\ discards'[i].batch = discards[i].batch /\ discards'[i].task = discards[i].task
       /\ discards'[i].route = discards[i].route /\ discards'[i].pending = discards[i].pending
       /\ discards'[i].stopped = discards[i].stopped /\ discards'[i].waiting = discards[i].waiting
       /\ IsInjective(discards'[i].left)
       /\ Range(discards'[i].left) = Range(discards[i].left) \ {m}
       /\ discards[i].left = <<>> => discards'[i].left = <<>>
       /\ i \notin S => discards'[i] = discards[i]

LEMMA TeardownWriteFacts ==
  ASSUME IInv, NEW S, TeardownWrite(S), NEW m, m = NextRow(S)
  PROVE  Writes(m, S)
<1>1. ITypes /\ IPlaces
  BY DEF IInv
<1>2. /\ S \in TeardownGroups /\ Left(S) # {}
      /\ discards' = [i \in DOMAIN discards |->
                        IF i \in S THEN [discards[i] EXCEPT !.left = WithoutCommitted(@, m)]
                        ELSE discards[i]]
  BY DEF TeardownWrite
<1>3. discards \in Seq(Record) /\ \A i \in DOMAIN discards : discards[i] \in Record
  BY <1>1 DEF ITypes
<1>4. PICK k \in S : m \in Range(discards[k].left)
  BY <1>1, <1>2, NextRowFacts DEF Left
<1>5. k \in DOMAIN discards /\ S \subseteq DOMAIN discards
  BY <1>2, GroupFacts
<1>6. DOMAIN discards' = DOMAIN discards /\ \A i \in DOMAIN discards : i \notin S => discards'[i] = discards[i]
  BY <1>2
<1>7. ASSUME NEW i \in DOMAIN discards, i \in S
      PROVE  /\ discards'[i] \in Record
             /\ discards'[i].batch = discards[i].batch /\ discards'[i].task = discards[i].task
             /\ discards'[i].route = discards[i].route /\ discards'[i].pending = discards[i].pending
             /\ discards'[i].stopped = discards[i].stopped /\ discards'[i].waiting = discards[i].waiting
             /\ IsInjective(discards'[i].left)
             /\ Range(discards'[i].left) = Range(discards[i].left) \ {m}
  <2>1. PICK l : l = WithoutCommitted(discards[i].left, m)
    OBVIOUS
  <2>2. discards[i].left \in Seq(Users) /\ IsInjective(discards[i].left)
    <3>1. discards[i] \in Record
      BY <1>3
    <3>2. discards[i].left \in Seq(Users)
      BY <3>1 DEF Record
    <3> QED
      BY <1>1, <3>2 DEF ITypes
  <2>3. l \in Seq(Users) /\ IsInjective(l) /\ Range(l) = Range(discards[i].left) \ {m}
    <3>1. /\ l \in Seq(Users) /\ IsInjective(l)
          /\ Range(l) = Range(discards[i].left) \cap (Range(discards[i].left) \ {m})
      BY <2>1, <2>2, Constants, AmongFacts DEF WithoutCommitted
    <3> QED
      BY <3>1
  <2>4. discards'[i] = [discards[i] EXCEPT !.left = l]
    BY <1>2, <1>7, <2>1
  <2>5. /\ discards'[i] \in Record /\ discards'[i].left = l
        /\ discards'[i].batch = discards[i].batch /\ discards'[i].task = discards[i].task
        /\ discards'[i].route = discards[i].route /\ discards'[i].pending = discards[i].pending
        /\ discards'[i].stopped = discards[i].stopped /\ discards'[i].waiting = discards[i].waiting
    BY <1>3, <2>3, <2>4 DEF Record
  <2> QED
    BY <2>3, <2>5
<1>8. ASSUME NEW i \in DOMAIN discards, i \notin S
      PROVE  /\ IsInjective(discards'[i].left)
             /\ Range(discards'[i].left) = Range(discards[i].left) \ {m}
  <2>1. m \notin Range(discards[i].left)
    <3>1. /\ Range(discards[i].left) \subseteq Range(discards[i].batch)
          /\ Range(discards[k].left) \subseteq Range(discards[k].batch)
          /\ Range(discards[i].batch) \cap Range(discards[k].batch) = {}
      BY <1>1, <1>4, <1>5, <1>8 DEF IPlaces
    <3> QED
      BY <1>4, <3>1
  <2> QED
    BY <1>1, <1>6, <1>8, <2>1 DEF ITypes
<1>9. \A i \in DOMAIN discards : discards'[i] \in Record
  BY <1>3, <1>6, <1>7
<1>10. discards' \in Seq(Record)
  <2>1. discards' = [i \in DOMAIN discards |-> discards'[i]]
    BY <1>2
  <2> QED
    BY <1>3, <1>6, <1>9, <2>1, MappedSeq
<1>11. ASSUME NEW i \in DOMAIN discards, discards[i].left = <<>> PROVE discards'[i].left = <<>>
  <2>1. Range(discards'[i].left) = {}
    BY <1>7, <1>8, <1>11, RangeEmpty
  <2>2. discards'[i].left \in Seq(Users)
    BY <1>9 DEF Record
  <2> QED
    BY <2>1, <2>2, RangeIn
<1> QED
  BY <1>6, <1>7, <1>8, <1>10, <1>11 DEF Writes

LEMMA TeardownWriteOrder ==
  ASSUME IInv, NEW S, TeardownWrite(S)
  PROVE  IOrder'
<1>1. PICK m : m = NextRow(S)
  OBVIOUS
<1>2. /\ S \in TeardownGroups /\ Left(S) # {} /\ conversation' = Append(conversation, m)
      /\ UNCHANGED <<admitted, released, host, awaiting, process, failures>>
  BY <1>1 DEF TeardownWrite, entry, work
<1>3. ITypes /\ IPlaces /\ IOrder
  BY DEF IInv
<1>4. Writes(m, S)
  BY <1>1, TeardownWriteFacts
<1>5. /\ DOMAIN discards' = DOMAIN discards
      /\ \A i \in DOMAIN discards :
           /\ discards'[i].task = discards[i].task /\ discards'[i].route = discards[i].route
           /\ Range(discards'[i].left) = Range(discards[i].left) \ {m}
           /\ discards[i].left = <<>> => discards'[i].left = <<>>
  BY <1>4 DEF Writes
<1>6. m \in Left(S) /\ \A n \in Left(S) : n # m => CreatedAt(m) < CreatedAt(n)
  BY <1>1, <1>2, <1>3, NextRowFacts
<1>7. PICK k \in S : m \in Range(discards[k].left)
  BY <1>6 DEF Left
<1>8. /\ k \in DOMAIN discards /\ S \subseteq DOMAIN discards /\ \A i \in S : Writing(discards[i])
      /\ \A i \in S, j \in DOMAIN discards :
           discards[i].task = "merged" /\ discards[j].task = "merged" => j \in S
  BY <1>2, GroupFacts
<1>9. \A n : CreatedAt(n)' = CreatedAt(n)
  BY <1>2 DEF CreatedAt
<1>10. \A i \in DOMAIN discards :
         Writing(discards'[i]) = Writing(discards[i]) /\ Rows(discards'[i]) = Rows(discards[i])
  BY <1>5 DEF Writing, Rows
<1>11. process = "up" => host \in {"committing", "settling", "stuck", "done"}
  BY <1>3, <1>7, <1>8 DEF IOrder
<1>12. ASSUME process = "up", failures = 0 PROVE
              /\ InSendOrder
              /\ \A i \in DOMAIN discards :
                   /\ discards[i].task = "teardown" => released
                   /\ discards[i].task = "merged" => i \in awaiting
                   /\ Rows(discards[i]) =>
                        \A n \in Range(discards[i].left), c \in Range(conversation) :
                          CreatedAt(c) < CreatedAt(n)
                   /\ \A j \in DOMAIN discards :
                        i # j /\ Writing(discards[i]) /\ Rows(discards[j]) /\ discards[j].left # <<>> =>
                          discards[i].task = "merged" /\ discards[j].task = "merged"
  BY <1>3, <1>12 DEF IOrder
<1>13. conversation \in Seq(Users) /\ m \in Users
  <2>1. discards[k] \in Record
    BY <1>3, <1>8 DEF ITypes
  <2>2. discards[k].left \in Seq(Users)
    BY <2>1 DEF Record
  <2> QED
    BY <1>3, <1>7, <2>2, RangeIn DEF ITypes
<1>14. ASSUME process = "up", failures = 0 PROVE InSendOrder'
  <2>1. /\ Len(conversation) \in Nat /\ Len(conversation') = Len(conversation) + 1
        /\ DOMAIN conversation = 1..Len(conversation)
        /\ DOMAIN conversation' = 1..(Len(conversation) + 1)
        /\ \A j \in 1..Len(conversation) : conversation'[j] = conversation[j]
        /\ conversation'[Len(conversation) + 1] = m
    BY <1>2, <1>13
  <2>2. Rows(discards[k])
    BY <1>8 DEF Rows
  <2>3. \A c \in Range(conversation) : CreatedAt(c) < CreatedAt(m)
    BY <1>7, <1>8, <1>12, <1>14, <2>2
  <2>4. ASSUME NEW a \in 1..(Len(conversation) + 1), NEW b \in 1..(Len(conversation) + 1), a < b
        PROVE  CreatedAt(conversation'[a]) < CreatedAt(conversation'[b])
    <3>1. a \in 1..Len(conversation)
      BY <2>1, <2>4
    <3>2. CASE b \in 1..Len(conversation)
      <4>1. CreatedAt(conversation[a]) < CreatedAt(conversation[b])
        BY <1>12, <1>14, <2>1, <2>4, <3>1, <3>2 DEF InSendOrder
      <4> QED
        BY <2>1, <3>1, <3>2, <4>1
    <3>3. CASE b = Len(conversation) + 1
      <4>1. conversation[a] \in Range(conversation)
        BY <2>1, <3>1 DEF Range
      <4> QED
        BY <2>1, <2>3, <3>1, <3>3, <4>1
    <3> QED
      BY <2>1, <3>2, <3>3
  <2> QED
    BY <1>9, <2>1, <2>4 DEF InSendOrder
<1>15. Range(conversation') = Range(conversation) \cup {m}
  BY <1>2, <1>13, AppendFacts
<1>16. ASSUME process = "up", failures = 0, NEW i \in DOMAIN discards, Rows(discards[i]),
              NEW n \in Range(discards'[i].left), NEW c \in Range(conversation')
       PROVE  CreatedAt(c) < CreatedAt(n)
  <2>1. n \in Range(discards[i].left) /\ n # m
    BY <1>5, <1>16
  <2>2. CASE c \in Range(conversation)
    BY <1>12, <1>16, <2>1, <2>2
  <2>3. CASE c = m
    <3>1. i \in S
      <4> SUFFICES ASSUME i \notin S PROVE FALSE
        OBVIOUS
      <4>1. i # k /\ Writing(discards[k]) /\ discards[i].left # <<>>
        BY <1>8, <2>1, RangeEmpty
      <4>2. discards[k].task = "merged" /\ discards[i].task = "merged"
        BY <1>8, <1>12, <1>16, <4>1
      <4> QED
        BY <1>8, <4>2
    <3>2. n \in Left(S)
      BY <2>1, <3>1 DEF Left
    <3> QED
      BY <1>6, <2>1, <2>3, <3>2
  <2> QED
    BY <1>15, <2>2, <2>3
<1>17. ASSUME process = "up", failures = 0, NEW i \in DOMAIN discards
       PROVE  /\ discards'[i].task = "teardown" => released
              /\ discards'[i].task = "merged" => i \in awaiting
              /\ Rows(discards'[i]) =>
                   \A n \in Range(discards'[i].left), c \in Range(conversation') :
                     CreatedAt(c) < CreatedAt(n)
              /\ \A j \in DOMAIN discards :
                   i # j /\ Writing(discards'[i]) /\ Rows(discards'[j]) /\ discards'[j].left # <<>> =>
                     discards'[i].task = "merged" /\ discards'[j].task = "merged"
  BY <1>5, <1>10, <1>12, <1>16, <1>17
<1> QED
  BY <1>2, <1>5, <1>9, <1>11, <1>14, <1>17 DEF IOrder, Writing, Rows

LEMMA TeardownWriteStep ==
  ASSUME IInv, NEW S, TeardownWrite(S)
  PROVE  IInv'
<1>1. PICK m : m = NextRow(S)
  OBVIOUS
<1>2. /\ S \in TeardownGroups /\ Left(S) # {} /\ conversation' = Append(conversation, m)
      /\ UNCHANGED <<phase, reason, released, admitted, steering, claims, host, outcome, poll, consumed,
                     awaiting, queue, paused, process, drain, failures>>
  BY <1>1 DEF TeardownWrite, entry, work
<1>3. ITypes /\ IPlaces /\ ISaved /\ IControl /\ IMachines /\ IKept /\ IQuiet /\ IOrder
  BY DEF IInv
<1>4. Writes(m, S)
  BY <1>1, TeardownWriteFacts
<1>5. /\ DOMAIN discards' = DOMAIN discards /\ discards' \in Seq(Record)
      /\ \A i \in DOMAIN discards :
           /\ discards'[i].batch = discards[i].batch /\ discards'[i].task = discards[i].task
           /\ discards'[i].route = discards[i].route /\ discards'[i].pending = discards[i].pending
           /\ discards'[i].stopped = discards[i].stopped /\ discards'[i].waiting = discards[i].waiting
           /\ IsInjective(discards'[i].left)
           /\ Range(discards'[i].left) = Range(discards[i].left) \ {m}
           /\ discards[i].left = <<>> => discards'[i].left = <<>>
           /\ i \notin S => discards'[i] = discards[i]
  BY <1>4 DEF Writes
<1>6. m \in Left(S) /\ \A n \in Left(S) : n # m => CreatedAt(m) < CreatedAt(n)
  BY <1>1, <1>2, <1>3, NextRowFacts
<1>7. PICK k \in S : m \in Range(discards[k].left)
  BY <1>6 DEF Left
<1>8. /\ k \in DOMAIN discards /\ S \subseteq DOMAIN discards /\ \A i \in S : Writing(discards[i])
      /\ \A i \in S, j \in DOMAIN discards :
           discards[i].task = "merged" /\ discards[j].task = "merged" => j \in S
  BY <1>2, GroupFacts
<1>9. m \in Users /\ m \notin Range(conversation) /\ m \in Range(discards[k].batch)
  <2>1. discards[k] \in Record
    BY <1>3, <1>8 DEF ITypes
  <2>2. discards[k].left \in Seq(Users)
    BY <2>1 DEF Record
  <2>3. m \in Users
    BY <1>7, <2>2, RangeIn
  <2> QED
    BY <1>3, <1>7, <1>8, <2>3 DEF IPlaces
<1>10. /\ conversation \in Seq(Users) /\ IsInjective(conversation) /\ conversation' \in Seq(Users)
       /\ IsInjective(conversation') /\ Range(conversation') = Range(conversation) \cup {m}
  BY <1>2, <1>3, <1>9, AppendFacts DEF ITypes
<1>11. ITypes'
  <2>1. \A i \in DOMAIN discards' : IsInjective(discards'[i].batch) /\ IsInjective(discards'[i].left)
    BY <1>3, <1>5 DEF ITypes
  <2> QED
    BY <1>2, <1>3, <1>5, <1>10, <2>1 DEF ITypes
<1>12. IPlaces'
  <2>1. ASSUME NEW i \in DOMAIN discards
        PROVE  /\ Range(discards'[i].left) \subseteq Range(discards'[i].batch)
               /\ Range(discards'[i].left) \cap Range(conversation') = {}
    <3>1. /\ Range(discards[i].left) \subseteq Range(discards[i].batch)
          /\ Range(discards[i].left) \cap Range(conversation) = {}
      BY <1>3 DEF IPlaces
    <3> QED
      BY <1>5, <1>10, <3>1
  <2>2. ASSUME NEW n \in Range(conversation')
        PROVE  \E i \in DOMAIN discards : n \in Range(discards'[i].batch)
    <3>1. CASE n = m
      BY <1>5, <1>8, <1>9, <3>1
    <3>2. CASE n \in Range(conversation)
      BY <1>3, <1>5, <3>2 DEF IPlaces
    <3> QED
      BY <1>10, <3>1, <3>2
  <2>3. /\ claims = Range(poll.batch)
        /\ Range(steering) \cup Range(poll.batch) \cup consumed \subseteq Range(admitted)
        /\ Range(steering) \cap Range(poll.batch) = {}
        /\ consumed \cap Range(steering) = {} /\ consumed \cap Range(poll.batch) = {}
        /\ \A i \in DOMAIN discards :
             /\ Range(discards'[i].batch) \subseteq Range(admitted)
             /\ Range(discards'[i].batch) \cap Range(steering) = {}
             /\ Range(discards'[i].batch) \cap Range(poll.batch) = {}
             /\ Range(discards'[i].batch) \cap consumed = {}
             /\ \A j \in DOMAIN discards :
                  i # j => Range(discards'[i].batch) \cap Range(discards'[j].batch) = {}
    BY <1>3, <1>5 DEF IPlaces
  <2> QED
    BY <1>2, <1>5, <2>1, <2>2, <2>3 DEF IPlaces
<1>13. ISaved'
  <2>1. ASSUME NEW b \in queue
        PROVE  \E i \in DOMAIN discards :
                 discards'[i].left = b /\ discards'[i].route = "requeue" /\ ~Writing(discards'[i])
    <3>1. PICK i \in DOMAIN discards :
            discards[i].left = b /\ discards[i].route = "requeue" /\ ~Writing(discards[i])
      BY <1>3 DEF ISaved
    <3>2. discards'[i] = discards[i]
      BY <1>5, <1>8, <3>1
    <3> QED
      BY <3>1, <3>2
  <2>2. ASSUME NEW i \in DOMAIN discards
        PROVE  /\ discards'[i].task \in {"enqueue", "pause"} => discards'[i].route = "requeue"
               /\ discards'[i].task = "pause" => discards'[i].left \in queue
               /\ ~discards'[i].pending /\ discards'[i].left # <<>> =>
                    /\ discards'[i].left \in queue /\ discards'[i].route = "requeue"
                    /\ ~Writing(discards'[i])
                    /\ discards'[i].stopped => paused
    <3>1. CASE i \notin S
      BY <1>3, <1>5, <3>1 DEF ISaved
    <3>2. CASE i \in S
      <4>1. Writing(discards[i])
        BY <1>8, <3>2
      <4>2. ~discards[i].pending => discards[i].left = <<>>
        BY <1>3, <4>1 DEF ISaved
      <4> QED
        BY <1>5, <4>1, <4>2 DEF Writing
    <3> QED
      BY <3>1, <3>2
  <2> QED
    BY <1>2, <1>5, <2>1, <2>2 DEF ISaved, Writing
<1>14. IControl'
  <2>1. Len(discards') = Len(discards) /\ (discards = <<>> => discards' = <<>>)
    BY <1>3, <1>5 DEF ITypes
  <2> QED
    BY <1>2, <1>3, <2>1 DEF IControl
<1>15. IMachines'
  BY <1>2, <1>3 DEF IMachines
<1>16. IKept'
  <2> SUFFICES ASSUME outcome # "unstarted", NEW u \in Users \cap Range(admitted) PROVE Kept(u)'
    BY <1>2 DEF IKept
  <2>1. Kept(u)
    BY <1>3 DEF IKept
  <2>2. CASE u = m
    BY <1>10, <2>2 DEF Kept
  <2>3. CASE u # m
    BY <1>2, <1>5, <1>10, <2>1, <2>3 DEF Kept
  <2> QED
    BY <2>2, <2>3
<1>17. IQuiet'
  <2>1. \A i \in DOMAIN discards : OnItsWay(i) => OnItsWay(i)'
    BY <1>2, <1>5 DEF OnItsWay
  <2>2. drain.list # <<>> => Head(drain.list) \in DOMAIN discards
    <3>1. drain.list \in Seq(DOMAIN discards)
      BY <1>3 DEF ITypes
    <3> QED
      BY <3>1, HeadAndTail
  <2>3. drain.list # <<>> => discards'[Head(drain.list)].pending = discards[Head(drain.list)].pending
    BY <1>5, <2>2
  <2>4. \A i \in DOMAIN discards' : i \in DOMAIN discards /\ discards'[i].pending = discards[i].pending
    BY <1>5
  <2> QED
    BY <1>2, <1>3, <2>1, <2>3, <2>4 DEF IQuiet
<1> QED
  BY <1>11, <1>12, <1>13, <1>14, <1>15, <1>16, <1>17, TeardownWriteOrder DEF IInv

-----------------------------------------------------------------------------
(* The invariant.                                                          *)

LEMMA StutterInv ==
  ASSUME IInv, UNCHANGED vars
  PROVE  IInv'
<1>1. UNCHANGED <<phase, reason, released, admitted, steering, claims, host, outcome, poll, consumed,
                  awaiting, discards, conversation, queue, paused, process, drain, failures>>
  BY DEF vars, entry, work, saved
<1>2. Still
  BY <1>1 DEF Still
<1>3. Moves({})
  BY <1>1, <1>2, StillMoves
<1>4. Calm({})
  BY <1>1 DEF Calm
<1>5. ScalarTypes'
  BY <1>1 DEF IInv, ITypes, ScalarTypes
<1>6. IControl' /\ IMachines'
  BY <1>1 DEF IInv, IControl, IMachines
<1> QED
  BY <1>3, <1>4, <1>5, <1>6, MovesInv

LEMMA NextInv ==
  ASSUME IInv, [Next]_vars
  PROVE  IInv'
<1>1. ASSUME NEW m \in Messages, Steer(m) PROVE IInv'
  BY <1>1, SteerStep
<1>2. ASSUME NEW why \in {"user_stop", "other"}, Abort(why) PROVE IInv'
  BY <1>2, AbortStep
<1>3. CASE Host
  <2>1. CASE StartHost \/ PreHostFailure \/ StopHookContinues \/ HostCompletes
    BY <2>1, HostStillStep
  <2>2. ASSUME NEW exit \in BOOLEAN, PollBegin(exit) PROVE IInv'
    BY <2>2, PollBeginStep
  <2>3. CASE PollConsumes \/ PollGivesBack
    BY <2>3, PollEndsStep
  <2>4. CASE TryBeginClose
    BY <2>4, TryBeginCloseStep
  <2>5. CASE HostEndsAbnormally
    BY <2>5, HostEndsAbnormallyStep
  <2> QED
    BY <1>3, <2>1, <2>2, <2>3, <2>4, <2>5 DEF Host
<1>4. CASE Settlement
  <2>1. CASE CommitDiscardedBeforeRelease
    BY <2>1, CommitStep
  <2>2. CASE CommitSettles \/ SettlementFails
    BY <2>2, CommitSettlesStep
  <2>3. CASE Complete
    BY <2>3, CompleteStep
  <2> QED
    BY <1>4, <2>1, <2>2, <2>3 DEF Settlement
<1>5. CASE Tasks
  <2>1. ASSUME NEW S \in SUBSET DOMAIN discards, TeardownWrite(S) PROVE IInv'
    BY <2>1, TeardownWriteStep
  <2>2. ASSUME NEW S \in SUBSET DOMAIN discards, TeardownEnd(S) PROVE IInv'
    BY <2>2, TeardownEndStep
  <2>3. ASSUME NEW i \in DOMAIN discards, Enqueue(i) PROVE IInv'
    BY <2>3, EnqueueStep
  <2>4. ASSUME NEW i \in DOMAIN discards, PauseIfPending(i) PROVE IInv'
    BY <2>4, PauseIfPendingStep
  <2>5. ASSUME NEW i \in DOMAIN discards, RequeueFails(i) PROVE IInv'
    BY <2>5, RequeueFailsStep
  <2> QED
    BY <1>5, <2>1, <2>2, <2>3, <2>4, <2>5 DEF Tasks
<1>6. CASE Lanes
  <2>1. ASSUME NEW i \in DOMAIN discards, LaneAttempt(i) PROVE IInv'
    BY <2>1, LaneAttemptStep
  <2>2. ASSUME NEW i \in DOMAIN discards, WakeQueueAfterRelease(i) PROVE IInv'
    BY <2>2, WakeQueueStep
  <2> QED
    BY <1>6, <2>1, <2>2 DEF Lanes
<1>7. CASE Shutdown
  BY <1>7, ShutdownStep
<1>8. CASE Drain
  <2>1. CASE DrainStep
    BY <2>1, DrainStepStep
  <2>2. CASE DrainCollect \/ DrainFlush \/ Exit
    BY <2>2, DrainStagesStep
  <2> QED
    BY <1>8, <2>1, <2>2 DEF Drain
<1>9. CASE UNCHANGED vars
  BY <1>9, StutterInv
<1> QED
  BY <1>1, <1>2, <1>3, <1>4, <1>5, <1>6, <1>7, <1>8, <1>9 DEF Next

\* The inductive invariant holds in every state the steering code reaches,
\* however the Turn, its settlement, the lanes and shutdown interleave.
THEOREM Invariance == Spec => []IInv
<1>1. Init => IInv
  BY InitInv
<1>2. IInv /\ [Next]_vars => IInv'
  BY NextInv
<1> QED
  BY <1>1, <1>2, PTL DEF Spec

-----------------------------------------------------------------------------
(* The properties.                                                         *)

LEMMA InvTypeOK == IInv => TypeOK
<1> SUFFICES ASSUME IInv PROVE TypeOK
  OBVIOUS
<1>1. ITypes /\ IPlaces /\ ISaved
  BY DEF IInv
<1>2. IsFiniteSet(Messages) /\ IsFiniteSet(Users)
  BY Constants
<1>3. /\ admitted \in Sequence(Messages) /\ steering \in Sequence(Messages)
      /\ conversation \in Sequence(Users)
  BY <1>1, <1>2, InjectiveIsBounded DEF ITypes
<1>4. poll \in [batch: Sequence(Messages), exit: BOOLEAN]
  <2>1. poll \in [batch: Seq(Messages), exit: BOOLEAN] /\ IsInjective(poll.batch)
    BY <1>1 DEF ITypes
  <2>2. poll.batch \in Sequence(Messages)
    BY <1>2, <2>1, InjectiveIsBounded
  <2> QED
    BY <2>1, <2>2
<1>5. ASSUME NEW i \in DOMAIN discards
      PROVE  discards[i] \in Discard /\ discards[i].left \in Sequence(Users)
  <2>1. /\ discards[i] \in Record
        /\ IsInjective(discards[i].batch) /\ IsInjective(discards[i].left)
    BY <1>1 DEF ITypes
  <2>2. discards[i].batch \in Seq(Users) /\ discards[i].left \in Seq(Users)
    BY <2>1 DEF Record
  <2>3. discards[i].batch \in Sequence(Users) /\ discards[i].left \in Sequence(Users)
    BY <1>2, <2>1, <2>2, InjectiveIsBounded
  <2> QED
    BY <2>1, <2>3 DEF Record, Discard
<1>6. queue \subseteq Sequence(Users)
  BY <1>1, <1>5 DEF ISaved
<1>7. claims \subseteq Messages
  <2>1. poll.batch \in Seq(Messages)
    BY <1>1 DEF ITypes
  <2> QED
    BY <1>1, <2>1, RangeIn DEF IPlaces
<1>8. drain.wait \subseteq DOMAIN discards /\ Range(drain.list) \subseteq DOMAIN discards
  <2>1. drain.wait \subseteq DOMAIN discards /\ drain.list \in Seq(DOMAIN discards)
    BY <1>1 DEF ITypes
  <2> QED
    BY <2>1, RangeIn
<1> QED
  BY <1>1, <1>3, <1>4, <1>5, <1>6, <1>7, <1>8 DEF TypeOK, ITypes

\* Type correctness: the entry, the discards and what they save keep their
\* types, and no list of messages is ever longer than the messages are.
THEOREM TypeCorrect == Spec => []TypeOK
BY Invariance, InvTypeOK, PTL

LEMMA InvKept == IInv => UserSteeringKept
<1> SUFFICES ASSUME IInv, outcome # "unstarted", NEW u \in AdmittedUsers
             PROVE  u \in Durable \cup Held
  BY DEF UserSteeringKept
<1>1. Kept(u)
  BY DEF IInv, IKept, AdmittedUsers
<1>2. (\E b \in queue : u \in Range(b)) => u \in Durable
  BY DEF Durable, Queued
<1>3. (\E i \in DOMAIN discards : discards[i].pending /\ u \in Range(discards[i].left)) => u \in Held
  BY DEF Held
<1>4. u \in consumed \/ u \in Range(conversation) => u \in Durable
  BY DEF Durable
<1>5. u \in Range(steering) \/ u \in Range(poll.batch) => u \in Held
  BY DEF Held
<1> QED
  BY <1>1, <1>2, <1>3, <1>4, <1>5 DEF Kept

\* A user message that steerActiveTurn accepted, in a Turn whose host was
\* reached, is consumed, saved or still held by something that will save it,
\* through every poll, abort, close, failed write and shutdown.
THEOREM NoSteeringIsLost == Spec => []UserSteeringKept
BY Invariance, InvKept, PTL

LEMMA InvEndsOnce == IInv => EndsOnce
<1> SUFFICES ASSUME IInv PROVE EndsOnce
  OBVIOUS
<1>1. ITypes /\ IPlaces /\ ISaved
  BY DEF IInv
<1>2. consumed \cap Range(conversation) = {}
  BY <1>1 DEF IPlaces
<1>3. ASSUME NEW b \in queue
      PROVE  \E i \in DOMAIN discards : b = discards[i].left /\ Range(b) \subseteq Range(discards[i].batch)
  BY <1>1 DEF ISaved, IPlaces
<1>4. ASSUME NEW b \in queue PROVE Range(b) \cap (consumed \cup Range(conversation)) = {}
  <2>1. PICK i \in DOMAIN discards : b = discards[i].left /\ Range(b) \subseteq Range(discards[i].batch)
    BY <1>3
  <2> QED
    BY <1>1, <2>1 DEF IPlaces
<1>5. ASSUME NEW b \in queue, NEW c \in queue, b # c PROVE Range(b) \cap Range(c) = {}
  <2>1. PICK i \in DOMAIN discards : b = discards[i].left /\ Range(b) \subseteq Range(discards[i].batch)
    BY <1>3
  <2>2. PICK j \in DOMAIN discards : c = discards[j].left /\ Range(c) \subseteq Range(discards[j].batch)
    BY <1>3
  <2>3. i # j
    BY <1>5, <2>1, <2>2
  <2>4. Range(discards[i].batch) \cap Range(discards[j].batch) = {}
    BY <1>1, <2>3 DEF IPlaces
  <2> QED
    BY <2>1, <2>2, <2>4
<1>6. (consumed \cup Range(conversation)) \cap Queued = {}
  BY <1>4 DEF Queued
<1> QED
  BY <1>1, <1>2, <1>5, <1>6 DEF EndsOnce, ITypes

\* The lanes never deliver a message twice: what is consumed, written to the
\* conversation or requeued is in that place only, and there once, although
\* retries, the merged commit and drain work on the same batches.
THEOREM DeliveredOnce == Spec => []EndsOnce
BY Invariance, InvEndsOnce, PTL

LEMMA InvMachines == IInv => MachinesConsumed
BY DEF IInv, IMachines, MachinesConsumed

\* tryBeginClose admits a close only with every machine message consumed, so a
\* Turn that completes owes none.
THEOREM CompletedOwesNoMachine == Spec => []MachinesConsumed
BY Invariance, InvMachines, PTL

LEMMA InvSendOrder == IInv => SendOrder
BY DEF IInv, IOrder, SendOrder

\* With the process up and no failure, the teardown rows are written in
\* createdAt order across batches: one merged task writes them all.
THEOREM RowsInSendOrder == Spec => []SendOrder
BY Invariance, InvSendOrder, PTL

LEMMA InvParked == IInv => StoppedStaysParked
BY DEF IInv, ISaved, StoppedStaysParked

\* A batch of a Turn the user stopped counts as saved only when it is written,
\* or queued in a queue that is paused.
THEOREM StoppedIsParked == Spec => []StoppedStaysParked
BY Invariance, InvParked, PTL

LEMMA InvShutdown == IInv => ShutdownSaves
<1> SUFFICES ASSUME IInv, process = "down", failures = 0, outcome # "unstarted", NEW u \in AdmittedUsers
             PROVE  u \in Durable
  BY DEF ShutdownSaves
<1>1. ITypes /\ IControl /\ IQuiet
  BY DEF IInv
<1>2. released /\ host = "done"
  BY <1>1 DEF IControl
<1>3. poll.batch = <<>> /\ steering = <<>>
  <2>1. outcome # "none"
    BY <1>1, <1>2 DEF IControl, BeforeEnd
  <2> QED
    BY <1>1, <1>2, <2>1 DEF IControl, ITypes, NoPoll
<1>4. \A i \in DOMAIN discards : ~discards[i].pending
  <2> SUFFICES ASSUME NEW i \in DOMAIN discards, discards[i].pending PROVE FALSE
    OBVIOUS
  <2>1. OnItsWay(i)
    BY <1>1 DEF IQuiet
  <2> QED
    BY <1>2, <2>1 DEF OnItsWay, BeforeEnd
<1>5. Kept(u)
  BY DEF IInv, IKept, AdmittedUsers
<1>6. u \in consumed \/ u \in Range(conversation) \/ \E b \in queue : u \in Range(b)
  BY <1>3, <1>4, <1>5, RangeEmpty DEF Kept
<1> QED
  BY <1>6 DEF Durable, Queued

\* close() with no failed write and no elapsed bound leaves nothing in memory:
\* every accepted user message is consumed, in the conversation or queued.
THEOREM ShutdownLeavesNothing == Spec => []ShutdownSaves
BY Invariance, InvShutdown, PTL
=============================================================================

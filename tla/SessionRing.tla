---------------------------- MODULE SessionRing ----------------------------
(***************************************************************************)
(* The frames a Session keeps for clients that come back: the BoundedRing  *)
(* of infra/sse/bounded-ring.ts with the eviction policy of                *)
(* session-frame-retention.ts, as operators on one ring record.            *)
(*                                                                         *)
(* A frame belongs to the message it is about (its group).  The policy     *)
(* keeps at most Retained completed groups and gives up the oldest         *)
(* completed group before it cuts into the message being streamed.         *)
(***************************************************************************)
EXTENDS Naturals, Sequences, FiniteSets, SequencesExt, FiniteSetsExt

CONSTANTS Messages,    \* message ids
          NoMessage,   \* a frame that names no message
          MaxItems,    \* entries of a ring
          MaxBytes,    \* their total size
          Retained     \* COMPLETED_MESSAGE_RETENTION

ASSUME RingAssumption ==
  /\ NoMessage \notin Messages
  /\ MaxItems \in Nat \ {0}
  /\ MaxBytes \in Nat \ {0}
  /\ Retained \in Nat

Group == Messages \cup {NoMessage}

\* A frame before it has a cursor.  "chunk" and "message" are runtime events
\* with a part of a message or all of it; "committed" and "rewound" are the
\* history boundaries, "terminal" ends a Turn.
Frame(kind, msgs, group, turn, size) ==
  [kind |-> kind, msgs |-> msgs, group |-> group, turn |-> turn, size |-> size]

\* A filter: what s has at the positions S, in their order.
AtPositions(s, S) ==
  LET nth(n) == CHOOSE k \in S : Cardinality({j \in S : j <= k}) = n
  IN [n \in 1..Cardinality(S) |-> s[nth(n)]]

IsDurableBoundary(f) == f.kind \in {"committed", "rewound"}

EmptyRing ==
  [entries |-> <<>>, next |-> 1, dropped |-> 0, completed |-> {},
   active |-> [id |-> NoMessage, turn |-> 0]]

----------------------------------------------------------------------------
(* SessionFrameRetention                                                   *)

\* activate: a frame of another message completes the one that was active.
Activate(r, f) ==
  IF f.group = NoMessage THEN r
  ELSE [r EXCEPT
         !.completed = @ \cup ({r.active.id} \ {f.group, NoMessage}),
         !.active = [id |-> f.group, turn |-> f.turn]]

\* messageSignal's completedIds: a part of a message completes nothing.
CompletedIds(f) == IF f.kind = "chunk" THEN {} ELSE f.msgs

\* The group classify gives to the frame, after Activate.
MessageGroup(r, f) ==
  IF f.group # NoMessage THEN f.group
  ELSE IF r.active.turn = f.turn THEN r.active.id ELSE NoMessage

\* classify's effect on the completed groups.
Classify(r, f) ==
  LET a == Activate(r, f) IN
  [a EXCEPT !.completed = @ \cup CompletedIds(f) \cup
     (IF f.kind = "terminal" \/ IsDurableBoundary(f)
      THEN {MessageGroup(a, f)} \ {NoMessage} ELSE {})]

Groups(s) == {s[i].group : i \in DOMAIN s} \ {NoMessage}

\* groupSpans
FirstIndex(s, g) == Min({i \in DOMAIN s : s[i].group = g})
LastIndex(s, g) == Max({i \in DOMAIN s : s[i].group = g})

\* retainedBytes: every byte of every entry counts once.
Bytes(s) == Cardinality(UNION {{k} \X (1..s[k].size) : k \in DOMAIN s})

OverBounds(s) == Len(s) > MaxItems \/ Bytes(s) > MaxBytes

SelectEvictionCount(s, completed) ==
  LET done == Groups(s) \cap completed
      oldest == CHOOSE g \in done :
                  \A h \in done : FirstIndex(s, g) <= FirstIndex(s, h)
  IN CASE Cardinality(done) > Retained -> LastIndex(s, oldest)
       [] Cardinality(done) <= Retained /\ ~OverBounds(s) -> 0
       [] OTHER -> IF done # {} THEN LastIndex(s, oldest) ELSE 1

----------------------------------------------------------------------------
(* BoundedRing                                                             *)

From(s, k) == SubSeq(s, k + 1, Len(s))

\* enforceRetention evicts prefixes until the policy is content or nothing
\* is left.  Asked when k entries are gone, the policy gives up Evicts(r, k)
\* more; LastLook(r) entries are gone when it is asked for the last time.
Evicts(r, k) == SelectEvictionCount(From(r.entries, k), r.completed)

LastLook(r) ==
  LET n == Len(r.entries)
      look[k \in 0..n] ==
        IF Evicts(r, k) = 0 \/ k + Evicts(r, k) >= n THEN k ELSE look[k + Evicts(r, k)]
  IN look[0]

EnforceRetention(r) ==
  LET gone == LastLook(r) + Evicts(r, LastLook(r))
      kept == Groups(From(r.entries, LastLook(r))) \cup {r.active.id}
  IN [r EXCEPT
       !.entries = From(@, gone),
       !.dropped = IF gone = 0 THEN @ ELSE r.entries[gone].cursor,
       !.completed = @ \cap kept]

\* A retained entry with the identity of the frame.  Every part of a message
\* is an event of its own.
Duplicates(r, f) ==
  {e \in Range(r.entries) :
     /\ f.kind # "chunk"
     /\ e.kind = f.kind /\ e.msgs = f.msgs /\ e.turn = f.turn}

\* The write of one frame: classify, then append, which ignores a duplicate.
Appended(r, f) ==
  LET c == Classify(r, f)
      entry == [cursor |-> r.next, kind |-> f.kind, msgs |-> f.msgs,
                turn |-> f.turn, size |-> f.size, group |-> MessageGroup(c, f)]
  IN IF Duplicates(r, f) # {} THEN c
     ELSE EnforceRetention([c EXCEPT !.entries = Append(@, entry), !.next = @ + 1])

\* Mutant: a frame that was evicted is taken for one that was not.
ReplayPastEviction(r, cursor) ==
  CASE cursor >= r.next -> "invalid-cursor"
    [] cursor < r.next /\ cursor + 1 < r.dropped -> "evicted"
    [] OTHER -> "ok"

\* replay: "ok" with what Replayed gives, or the reason it cannot be served.
ReplayStatus(r, cursor) ==
  CASE cursor >= r.next -> "invalid-cursor"
    [] cursor < r.next /\ cursor < r.dropped -> "evicted"
    [] OTHER -> "ok"

Replayed(r, cursor) ==
  AtPositions(r.entries, {k \in DOMAIN r.entries : r.entries[k].cursor > cursor})

LatestCursor(r) == r.next - 1
=============================================================================

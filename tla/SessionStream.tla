--------------------------- MODULE SessionStream ---------------------------
(***************************************************************************)
(* The stream of one Session: session-stream-service.ts (write, reserve,   *)
(* resume, dispose) over subscriber-registry.ts and the                    *)
(* ring of SessionRing, the producers of its frames (agent-projection.ts,  *)
(* user-message-turn-delivery.ts) that save a message and publish it in    *)
(* two steps, and one client that reads, is cut off and comes back the way *)
(* headless/supervisor.ts does.                                            *)
(*                                                                         *)
(* The stream lives in memory: `epoch' numbers the state objects of the    *)
(* Session (each has a random cursor prefix), `present' says the service's *)
(* map holds the last one.  An object that left the map while a reader     *)
(* still holds it has no frames, so only the ring of the last is kept.     *)
(***************************************************************************)
EXTENDS SessionRing

CONSTANTS Users,        \* messages of users: published as "committed"
          Assistants,   \* messages of the agent: published as "message"
          Sizes,        \* sizes a frame with a message may have
          MaxQueue,     \* items of a subscription
          MaxQueueBytes,
          MaxTurns, MaxFrames, MaxObjects   \* bounds on the run

ASSUME StreamAssumption ==
  /\ Users \cup Assistants = Messages
  /\ Users \cap Assistants = {}
  /\ IsFiniteSet(Messages)
  /\ {MaxQueue, MaxQueueBytes, MaxTurns, MaxFrames} \subseteq Nat /\ MaxObjects \in Nat \ {0}
  /\ Sizes \subseteq Nat \ {0}

VARIABLES
  rows,      \* the message table of the Session, in row order
  born,      \* the Turn each message was saved for, 0 if it never was
  present, epoch, ring,
  turn, status,   \* the last Turn: "idle" once over, "accepted", "running"
  lane,      \* per producer, the frame of what it has just saved
  reservation,    \* who holds a reservation, on which object, for which Turn
  ready,     \* the producers with a microtask queued (see Segment)
  it,        \* the client's iterator
  client,    \* what the client holds
  ended,     \* terminals written so far
  owedAt     \* per Turn, the messages published before its terminal

vars == <<rows, born, present, epoch, ring, turn, status, lane, reservation,
          ready, it, client, ended, owedAt>>
database == <<rows, born>>
object == <<present, epoch, ring>>
turns == <<turn, status>>
history == <<ended, owedAt>>

Lanes == {"agent", "user", "sender"}
NoFrame == Frame("none", {}, NoMessage, 0, 0)
NoReservation == [owner |-> "nobody", object |-> 0, turn |-> 0]
NoCursor == [object |-> 0, n |-> 0]

Off == [phase |-> "off", mode |-> "live", object |-> 0, only |-> 0,
        replay |-> <<>>, queue |-> <<>>, handed |-> <<>>, reading |-> FALSE,
        live |-> FALSE, failed |-> FALSE, closing |-> FALSE, wait |-> FALSE,
        initial |-> <<>>, durable |-> <<>>, mark |-> 0, since |-> 0]

Init ==
  /\ rows = <<>> /\ born = [m \in Messages |-> 0]
  /\ present = FALSE /\ epoch = 0 /\ ring = EmptyRing
  /\ turn = 0 /\ status = "idle"
  /\ lane = [l \in Lanes |-> NoFrame]
  /\ reservation = NoReservation
  /\ ready = Lanes
  /\ it = Off
  /\ client = [known |-> {}, cursor |-> NoCursor, anchor |-> NoMessage,
               complete |-> 0..MaxTurns, stale |-> FALSE]
  /\ ended = 0 /\ owedAt = [t \in 1..MaxTurns |-> {}]

\* The rows of the table, and the ones whose frame is still to be written.
Stored == Range(rows)
RowOf(m) == CHOOSE i \in DOMAIN rows : rows[i] = m
Unframed == UNION {lane[l].msgs : l \in Lanes}

\* initializeDurable reads the table in the same segment as the ring and then
\* awaits a promise that is already resolved: before it goes on, every
\* producer runs at most to its next await.
CanRun(l) == it.phase = "init" => l \in ready

Segment(l) ==
  /\ CanRun(l)
  /\ ready' = IF it.phase = "init" THEN ready \ {l} ELSE ready

----------------------------------------------------------------------------
(* The state object and its subscription                                   *)

\* state(): the object of the map, or a new one.
Object == IF present THEN epoch ELSE epoch + 1
ObjectRing == IF present THEN ring ELSE EmptyRing
Created == present' = TRUE /\ epoch' = Object

CloseLive(i) == [i EXCEPT !.live = FALSE, !.queue = <<>>, !.reading = FALSE]

\* Mutant: a full queue takes one more frame.
PushPastLimit(i, e) ==
  IF ~i.live \/ (i.only # 0 /\ e.turn # i.only) THEN i
  ELSE IF i.reading THEN [i EXCEPT !.handed = <<e>>, !.reading = FALSE]
  ELSE [i EXCEPT !.queue = Append(@, e)]

\* StreamSubscription.push: a waiting read takes the frame, a full queue
\* closes the subscription with an error.
Push(i, e) ==
  IF ~i.live \/ (i.only # 0 /\ e.turn # i.only) THEN i
  ELSE IF i.reading THEN [i EXCEPT !.handed = <<e>>, !.reading = FALSE]
  ELSE IF Len(i.queue) + 1 > MaxQueue \/ Bytes(i.queue) + e.size > MaxQueueBytes
       THEN [CloseLive(i) EXCEPT !.failed = TRUE]
  ELSE [i EXCEPT !.queue = Append(@, e)]

\* setFilter also applies to what is queued.
SetFilter(i, passed) == [i EXCEPT !.queue = AtPositions(@, passed)]

\* write
Write(f) ==
  LET entry == [cursor |-> ObjectRing.next, kind |-> f.kind, msgs |-> f.msgs,
                turn |-> f.turn, size |-> f.size, group |-> NoMessage]
  IN /\ Created
     /\ \E r \in {Appended(ObjectRing, f)} :
          /\ ring' = r
          /\ it' = IF r.next = ObjectRing.next \/ it.object # Object
                   THEN it ELSE Push(it, entry)

----------------------------------------------------------------------------
(* Producers                                                               *)

\* The bound on frames that could be repeated without end, after n others.
Spare(n) == ObjectRing.next <= MaxFrames + n

\* A message is saved: a row of its own, after the others.
Save(l, m, f) ==
  /\ Segment(l)
  /\ lane[l] = NoFrame
  /\ born[m] = 0
  /\ rows' = Append(rows, m) /\ born' = [born EXCEPT ![m] = turn]
  /\ lane' = [lane EXCEPT ![l] = f]
  /\ UNCHANGED <<object, turns, reservation, it, client, history>>

\* upsert of an assistant message, before its event is streamed.
SaveAssistant(m) ==
  /\ status = "running"
  /\ \E size \in Sizes :
       Save("agent", m, Frame("message", {m}, m, turn, size))

\* commitUserMessage: the delivery of a Turn, or a message it steers in.
CommitUser(m) ==
  /\ status # "idle"
  /\ Save("user", m, Frame("committed", {m}, m, turn, 1))

\* A repeated delivery finds the message committed and publishes it again.
RepeatUser(m) ==
  /\ Segment("user")
  /\ status = "accepted" /\ lane["user"] = NoFrame /\ Spare(1)
  /\ m \in Stored /\ born[m] = turn
  /\ lane' = [lane EXCEPT !["user"] = Frame("committed", {m}, m, turn, 1)]
  /\ UNCHANGED <<database, object, turns, reservation, it, client, history>>

\* recallAssistantAttempt and the output recall of projectCommittedConversation:
\* rows of the Turn are deleted, then the frame that names them is written.
Recall(whole) ==
  LET gone == {m \in Stored : born[m] = turn /\ (whole \/ m \in Assistants)} IN
  /\ Segment("agent")
  /\ status = "running"
  /\ lane["agent"] = NoFrame
  /\ whole => lane["user"] = NoFrame
  /\ gone # {}
  /\ rows' = AtPositions(rows, {k \in DOMAIN rows : rows[k] \notin gone})
  /\ LET last == CHOOSE m \in gone : \A o \in gone : RowOf(o) <= RowOf(m)
     IN lane' = [lane EXCEPT !["agent"] = Frame("rewound", gone, last, turn, 1)]
  /\ UNCHANGED <<born, object, turns, reservation, it, client, history>>

\* What a producer has saved is published.
Publish(l) ==
  /\ Segment(l)
  /\ lane[l] # NoFrame
  /\ Write(lane[l])
  /\ lane' = [lane EXCEPT ![l] = NoFrame]
  /\ UNCHANGED <<database, turns, reservation, client, history>>

\* A part of the message the agent is writing.
Chunk(m) ==
  /\ Segment("agent")
  /\ status = "running" /\ lane["agent"] = NoFrame /\ Spare(0)
  /\ born[m] = 0
  /\ Write(Frame("chunk", {}, m, turn, 1))
  /\ UNCHANGED <<database, turns, lane, reservation, client, history>>

\* The terminal frame of the Turn, from its terminal event or its failure.
Terminal ==
  /\ Segment("agent")
  /\ status # "idle"
  /\ lane["agent"] = NoFrame
  /\ Write(Frame("terminal", {}, NoMessage, turn, 1))
  /\ status' = "idle"
  /\ ended' = ended + 1
  /\ owedAt' = [owedAt EXCEPT ![turn] = Stored \ Unframed]
  /\ UNCHANGED <<database, turn, lane, reservation, client>>

----------------------------------------------------------------------------
(* Senders                                                                 *)

\* A Turn of the queue or of a background service has no reservation.
Activated == status = "idle" /\ turn < MaxTurns /\ turn' = turn + 1 /\ status' = "accepted"

StartQueued ==
  /\ Segment("sender")
  /\ Activated
  /\ UNCHANGED <<database, object, lane, reservation, it, client, history>>

StartHost ==
  /\ Segment("agent")
  /\ status = "accepted"
  /\ status' = "running"
  /\ UNCHANGED <<database, object, turn, lane, reservation, it, client, history>>

\* reserve, by the client or by another sender.
Reserve(owner) ==
  /\ Segment("sender")
  /\ reservation.owner = "nobody"
  /\ Object < MaxObjects
  /\ Created /\ ring' = ObjectRing
  /\ reservation' = [owner |-> owner, object |-> Object, turn |-> 0]
  /\ IF owner = "client"
     THEN /\ it.phase = "off"
          /\ it' = [Off EXCEPT !.phase = "held", !.mode = "send",
                               !.object = Object, !.live = TRUE]
     ELSE UNCHANGED it
  /\ UNCHANGED <<database, turns, lane, client, history>>

\* The Turn is admitted and bindTurn narrows the subscription to it.
Accept ==
  /\ Segment("sender")
  /\ reservation.owner # "nobody" /\ reservation.turn = 0
  /\ Activated
  /\ reservation' = [reservation EXCEPT !.turn = turn + 1]
  /\ IF reservation.owner = "client" /\ it.phase = "held"
     THEN /\ it' = [SetFilter(it, {k \in DOMAIN it.queue : it.queue[k].turn = turn + 1})
                      EXCEPT !.phase = "open", !.only = turn + 1]
          /\ client' = [known |-> {}, cursor |-> NoCursor, anchor |-> NoMessage,
                        complete |-> {turn + 1}, stale |-> FALSE]
     ELSE UNCHANGED <<it, client>>
  /\ UNCHANGED <<database, object, lane, history>>

\* discardIfEmpty, when the Turn is refused or the send fails.
Refuse ==
  /\ Segment("sender")
  /\ reservation.owner # "nobody" /\ reservation.turn = 0
  /\ reservation' = NoReservation
  /\ present' = (present /\ ~(reservation.object = epoch /\ ring.next = 1))
  /\ it' = IF reservation.owner = "client" /\ it.phase = "held" THEN Off ELSE it
  /\ UNCHANGED <<database, epoch, ring, turns, lane, client, history>>

\* complete, once the Turn of the reservation has settled.
Complete ==
  /\ Segment("sender")
  /\ reservation.turn # 0
  /\ status = "idle" \/ turn # reservation.turn
  /\ reservation' = NoReservation
  /\ it' = IF it.mode = "send" THEN [it EXCEPT !.live = FALSE, !.reading = FALSE] ELSE it
  /\ UNCHANGED <<database, object, turns, lane, client, history>>

----------------------------------------------------------------------------
(* SessionResumeIterator                                                   *)

\* A frame the iterator makes up: durable messages, the request to resync.
Made(kind, msgs, cursor) ==
  [cursor |-> cursor, kind |-> kind, msgs |-> msgs, turn |-> 0, size |-> 0,
   group |-> NoMessage]

FinishWithResync(i, r) ==
  [CloseLive(i) EXCEPT !.replay = <<Made("resync", {}, LatestCursor(r))>>,
                       !.closing = TRUE]

FinishIdleReplay(i) == IF i.wait THEN i ELSE [CloseLive(i) EXCEPT !.closing = TRUE]

\* Mutant: the live frames are not filtered.
KeepLiveAfterReplay(i, entries) == i

\* filterLiveAfterReplay: later frames have later cursors.
FilterLiveAfterReplay(i, entries) ==
  SetFilter(i, {k \in DOMAIN i.queue :
                  \A j \in DOMAIN entries : entries[j].cursor # i.queue[k].cursor})

\* throughFirstTerminal
ThroughFirstTerminal(s) ==
  LET ends == {j \in DOMAIN s : s[j].kind = "terminal"} IN
  IF ends = {} THEN s ELSE SubSeq(s, 1, Min(ends))

\* withoutMessagesCommittedAfterFirstTerminal
CommittedAfterTerminal(s) ==
  UNION {e.msgs : e \in {x \in Range(SubSeq(s, Len(ThroughFirstTerminal(s)) + 1, Len(s))) :
                           x.kind = "committed"}}

\* foldCatchupMessages: what a captured frame changes in the saved messages.
Merge(s, e) ==
  CASE e.kind = "rewound" -> AtPositions(s, {k \in DOMAIN s : s[k] \notin e.msgs})
    [] e.kind = "committed" -> s \o SetToSeq(e.msgs \ Range(s))
    [] OTHER -> s

FoldCatchup(catchup, durable) ==
  LET merged[n \in 0..Len(catchup)] ==
        IF n = 0 THEN durable ELSE Merge(merged[n - 1], catchup[n])
  IN merged[Len(catchup)]

\* stitchDurableReplay: the saved messages, the last with the cursor of the
\* last boundary, then the frames after it.
Stitch(initial, catchup, durable) ==
  LET captured == initial \o catchup
      bounds == {j \in DOMAIN captured : IsDurableBoundary(captured[j])}
      last == IF bounds = {} THEN 0 ELSE Max(bounds)
      messages == FoldCatchup(catchup, durable)
      CursorOf(j) == IF j = Len(messages) /\ last # 0 THEN captured[last].cursor ELSE 0
  IN [j \in 1..Len(messages) |-> Made("durable", {messages[j]}, CursorOf(j))]
     \o SubSeq(captured, last + 1, Len(captured))

\* listAfter: the rows after the anchor.
RowsAfter(m) == SubSeq(rows, RowOf(m) + 1, Len(rows))

\* resume: subscribe, then initialize up to its first await.
Resume(wait) ==
  LET fresh == [Off EXCEPT !.phase = "open", !.object = Object, !.live = TRUE,
                           !.wait = wait, !.since = ended]
      c == client.cursor
      entries == Replayed(ObjectRing, c.n)
  IN
  /\ it.phase = "off" /\ ~client.stale
  /\ wait \/ status = "idle"
  /\ Created /\ ring' = ObjectRing
  /\ ready' = Lanes
  /\ \/ /\ c = NoCursor /\ client.anchor = NoMessage
        /\ it' = FinishIdleReplay(fresh)
        /\ client' = [client EXCEPT !.complete = {}, !.known = {}]
     \/ /\ c # NoCursor
        /\ \/ c.object # Object
           \/ c.object = Object /\ ReplayStatus(ObjectRing, c.n) # "ok"
        /\ it' = FinishWithResync([fresh EXCEPT !.mode = "cursor"], ObjectRing)
        /\ UNCHANGED client
     \/ /\ c # NoCursor /\ c.object = Object
        /\ ReplayStatus(ObjectRing, c.n) = "ok"
        /\ it' = FinishIdleReplay(
                   [FilterLiveAfterReplay(fresh, entries)
                      EXCEPT !.mode = "cursor", !.replay = entries])
        /\ UNCHANGED client
     \/ /\ c = NoCursor /\ client.anchor # NoMessage
        /\ it' = [fresh EXCEPT !.phase = "init", !.mode = "durable",
                    !.initial = ObjectRing.entries, !.mark = LatestCursor(ObjectRing),
                    !.durable = IF client.anchor \in Stored
                                THEN RowsAfter(client.anchor) ELSE <<NoMessage>>]
        /\ UNCHANGED client
  /\ UNCHANGED <<database, turns, lane, reservation, history>>

\* The ring of the object the iterator holds.
HeldRing == IF it.object = epoch THEN ring ELSE EmptyRing

Attached == present /\ it.object = epoch

\* Mutant: no terminal is replayed.
AnyTerminal(e, mark) == e.kind = "terminal"

\* A terminal from before the resume boundary.
OldTerminal(e, mark) == e.kind = "terminal" /\ e.cursor <= mark

\* initializeDurable after listAfter: the frames written meanwhile are
\* captured too, and the terminals from before are left out.
FinishDurable ==
  LET catchup == Replayed(HeldRing, it.mark)
      kept == AtPositions(it.durable, {k \in DOMAIN it.durable :
                                         it.durable[k] \notin CommittedAfterTerminal(catchup)})
      stitched == Stitch(it.initial, ThroughFirstTerminal(catchup), kept)
      replay == AtPositions(stitched, {k \in DOMAIN stitched : ~OldTerminal(stitched[k], it.mark)})
      opened == [it EXCEPT !.phase = "open", !.initial = <<>>, !.durable = <<>>,
                           !.mark = 0]
  IN
  /\ it.phase = "init"
  /\ ready' = Lanes
  /\ it' = IF it.durable = <<NoMessage>> \/ ReplayStatus(HeldRing, it.mark) # "ok"
           THEN FinishWithResync(opened, HeldRing)
           ELSE FinishIdleReplay(
                  [FilterLiveAfterReplay(opened, it.initial \o catchup)
                     EXCEPT !.replay = replay])
  /\ UNCHANGED <<database, object, turns, lane, reservation, client, history>>

----------------------------------------------------------------------------
(* The client                                                              *)

\* What an event changes in the messages a client holds.
Apply(known, e) == IF e.kind = "rewound" THEN known \ e.msgs ELSE known \cup e.msgs
ApplyAll(known, s) == FoldLeft(Apply, known, s)

\* One event of the stream: the client keeps the messages of the Turns it
\* follows, its cursor or else the last message (an anchor is not used while
\* there is a cursor), frame() ends a resumed stream with a terminal, and a resync
\* makes the client drop its cursor and read the history.
Receive(e, rest) ==
  /\ client' = [client EXCEPT
       !.known = {m \in Apply(@, e) : born[m] \in client.complete},
       !.anchor = CASE e.cursor # 0 -> NoMessage
                    [] e.cursor = 0 /\ e.kind = "durable" -> CHOOSE m \in e.msgs : TRUE
                    [] OTHER -> @,
       !.cursor = CASE e.kind = "resync" -> NoCursor
                    [] e.kind # "resync" /\ e.cursor # 0 ->
                         [object |-> it.object, n |-> e.cursor]
                    [] OTHER -> @,
       !.stale = (e.kind = "resync")]
  /\ it' = IF e.kind = "resync" \/ (e.kind = "terminal" /\ it.mode # "send")
           THEN Off ELSE rest

\* next(): replayed frames, then the live subscription.
Read ==
  /\ it.phase = "open" /\ ~it.reading
  /\ \/ /\ it.handed # <<>>
        /\ Receive(Head(it.handed), [it EXCEPT !.handed = <<>>])
     \/ /\ it.handed = <<>> /\ it.replay # <<>>
        /\ Receive(Head(it.replay), [it EXCEPT !.replay = Tail(@)])
     \/ /\ it.handed = <<>> /\ it.replay = <<>>
        /\ ~it.closing /\ ~it.failed /\ it.queue # <<>>
        /\ Receive(Head(it.queue), [it EXCEPT !.queue = Tail(@)])
     \/ /\ it.handed = <<>> /\ it.replay = <<>>
        /\ it.closing \/ it.failed \/ (it.queue = <<>> /\ ~it.live)
        /\ it' = Off /\ UNCHANGED client
     \/ /\ it.handed = <<>> /\ it.replay = <<>> /\ it.queue = <<>> /\ it.live
        /\ it' = [it EXCEPT !.reading = TRUE] /\ UNCHANGED client
  /\ UNCHANGED <<database, object, turns, lane, reservation, ready, history>>

\* The connection is lost, or the client goes: return().
Disconnect ==
  /\ it.phase \in {"open", "init"}
  /\ it' = Off
  /\ ready' = Lanes
  /\ UNCHANGED <<database, object, turns, lane, reservation, client, history>>

\* The history is read, at first and after a resync: the last message becomes
\* the anchor.
ReadHistory ==
  /\ it.phase = "off"
  /\ client.cursor = NoCursor /\ (client.stale \/ client.anchor = NoMessage)
  /\ client' = [known |-> Stored, cursor |-> NoCursor,
                anchor |-> IF rows = <<>> THEN NoMessage ELSE Last(rows),
                complete |-> 0..MaxTurns, stale |-> FALSE]
  /\ UNCHANGED <<database, object, turns, lane, reservation, ready, it, history>>

\* dispose at shutdown, or a crash, and a new process: every stream ends, what
\* was saved but not published stays unpublished, the Turn is over.
Restart ==
  /\ epoch > 0 /\ epoch < MaxObjects
  /\ present' = FALSE /\ ring' = EmptyRing /\ UNCHANGED epoch
  /\ lane' = [l \in Lanes |-> NoFrame]
  /\ status' = "idle" /\ UNCHANGED turn
  /\ reservation' = NoReservation
  /\ it' = Off /\ ready' = Lanes
  /\ UNCHANGED <<database, client, history>>

----------------------------------------------------------------------------
Producer ==
  \/ \E m \in Assistants : SaveAssistant(m) \/ Chunk(m)
  \/ \E m \in Users : CommitUser(m) \/ RepeatUser(m)
  \/ \E whole \in BOOLEAN : Recall(whole)
  \/ \E l \in {"agent", "user"} : Publish(l)
  \/ Terminal \/ StartHost

Sender ==
  \/ StartQueued \/ Accept \/ Refuse \/ Complete
  \/ \E owner \in {"client", "other"} : Reserve(owner)

Reader ==
  \/ \E wait \in BOOLEAN : Resume(wait)
  \/ FinishDurable \/ Read \/ Disconnect \/ ReadHistory

Next == Producer \/ Sender \/ Reader \/ Restart

Spec == Init /\ [][Next]_vars

\* A producer that has begun goes on to its end (its promises settle), a
\* reservation is completed when its Turn has settled, and a reader is a loop
\* over its iterator.  The steps that write to the ring are fair by the guards
\* that enable them: TLC is slow to find out that they are enabled.
TerminalDue == status # "idle" /\ lane["agent"] = NoFrame /\ CanRun("agent")
PublishDue(l) == lane[l] # NoFrame /\ CanRun(l)

FairSpec ==
  /\ Spec
  /\ WF_vars(StartHost) /\ WF_vars(Complete) /\ WF_vars(Read)
  /\ []<>~TerminalDue \/ []<><<Terminal>>_vars
  /\ \A l \in {"agent", "user"} : []<>~PublishDue(l) \/ []<><<Publish(l)>>_vars
  /\ []<>(it.phase # "init") \/ []<><<FinishDurable>>_vars

----------------------------------------------------------------------------
TypeOK ==
  /\ rows \in Seq(Messages) /\ IsInjective(rows)
  /\ born \in [Messages -> 0..MaxTurns]
  /\ present \in BOOLEAN /\ epoch \in 0..MaxObjects
  /\ ring.next \in Nat \ {0} /\ ring.dropped \in 0..(ring.next - 1)
  /\ ring.completed \subseteq Messages /\ ~OverBounds(ring.entries)
  /\ turn \in 0..MaxTurns /\ status \in {"idle", "accepted", "running"}
  /\ DOMAIN lane = Lanes
  /\ it.phase \in {"off", "held", "init", "open"}
  /\ Len(it.queue) <= MaxQueue /\ Len(it.handed) <= 1
  /\ client.known \subseteq Messages
  /\ client.complete \subseteq 0..MaxTurns

\* What the iterator still has for its reader, in order.
Pending == it.handed \o it.replay \o it.queue
Terminals(s) == {j \in DOMAIN s : s[j].kind = "terminal"}

\* What a reader is owed: the messages published so far, or before the
\* terminal its stream ends with.
Owed ==
  {m \in Stored : born[m] \in client.complete} \cap
    (IF Terminals(Pending) = {} THEN Stored \ Unframed
     ELSE owedAt[Pending[Min(Terminals(Pending))].turn])

\* No gap: a client that came back with a cursor or a message it holds, and
\* that reads what its stream has for it, holds every message that was
\* published, however saving, publishing, eviction, overflow and its own
\* reconnections interleave (initialize, finishDurableReplay, push).
NothingOwedIsMissing ==
  (/\ it.phase = "open" /\ Attached /\ ~it.failed
   /\ it.live \/ Terminals(Pending) # {})
  => Owed \subseteq ApplyAll(client.known, ThroughFirstTerminal(Pending))

\* No duplicate and no reordering: cursors only grow, and a client that came
\* back with a cursor gets exactly the frames after it (replay, then live).
PendingInOrder ==
  (it.phase = "open" /\ Attached) =>
    /\ \A j, k \in DOMAIN Pending :
         j < k /\ Pending[j].cursor # 0 /\ Pending[k].cursor # 0 => Pending[j].cursor < Pending[k].cursor
    /\ (it.mode = "cursor" /\ it.live) =>
         /\ Len(Pending) = LatestCursor(ring) - client.cursor.n
         /\ \A j \in DOMAIN Pending : Pending[j].cursor = client.cursor.n + j

\* A resumed stream that waits has the terminal written since: the comment of
\* waitForTerminal says "true waits for the first terminal observed after the
\* resume boundary".
ResumeSeesTerminal ==
  (it.phase = "open" /\ it.mode # "send" /\ it.live /\ ended > it.since)
  => Terminals(Pending) # {}

\* A client that watches a Turn is let go when it ends, unless its object
\* left the map.
WatchEnds ==
  (it.phase \in {"init", "open"} /\ it.live /\ status # "idle")
  ~> (it.phase = "off" \/ ~Attached)
=============================================================================

--------------------------- MODULE GatewaySession ---------------------------
(***************************************************************************)
(* The WebSocket session of the QQ adapter (adapter-qqbot/websocket.rs):   *)
(* which dispatches it has received, which of their events the Runtime has *)
(* handled, and from where it resumes after a lost connection.             *)
(*                                                                         *)
(* The gateway is external: it numbers the dispatches of a session from 1  *)
(* (READY), sends them in order, and after a Resume sends again whatever   *)
(* follows the given number.  The Runtime is external as well: it takes an *)
(* event or has no room for it, and calls event_handled only for an event  *)
(* it has committed (see EventLifecycle).  Dispatches without an event and *)
(* malformed ones are both "plain": they are recorded as complete.  Zero   *)
(* stands for None in last_received and last_committed, and for a missing  *)
(* delivery identifier.                                                    *)
(***************************************************************************)
EXTENDS Integers, FiniteSets, Sequences

CONSTANTS
  MaxPending,    \* MAX_PENDING_DISPATCHES
  MaxSessions,   \* bound on the sessions of a behaviour
  MaxSeq,        \* bound on the dispatches of a session
  MaxDeliveries  \* bound on the delivery identifiers drawn

ASSUME SessionAssumption ==
  /\ MaxPending \in Nat \ {0}
  /\ MaxSessions \in Nat
  /\ MaxSeq \in Nat
  /\ MaxDeliveries \in Nat

VARIABLES
  log,              \* the gateway's log of the current session
  session,          \* the number of the current session of the gateway
  connection,       \* the state of the socket
  cursor,           \* the last dispatch sent over this connection
  session_id,       \* SessionState::session_id
  last_received,    \* SessionState::last_received
  last_committed,   \* SessionState::last_committed
  pending,          \* SessionState::pending
  next_delivery_id, \* SessionState::next_delivery_id
  rollback,         \* the dispatch whose admission failed, until it is undone
  origin,           \* history: session and sequence number of each delivery
  taken,            \* history: the deliveries the Runtime has taken
  handled,          \* history: the deliveries event_handled was called for
  failed,           \* history: the deliveries whose handlers failed
  ignored           \* history: failed deliveries whose replay was dropped

gateway  == <<log, session>>
state    == <<session_id, last_received, last_committed, pending,
              next_delivery_id>>
outcomes == <<origin, taken, handled, failed, ignored>>
vars     == <<gateway, connection, cursor, state, rollback, outcomes>>

None == 0

Dispatch(seq, id) == [seq |-> seq, delivery_id |-> id, completed |-> id = None]

Init ==
  /\ log = <<>>
  /\ session = 0
  /\ connection = "down"
  /\ cursor = 0
  /\ session_id = None
  /\ last_received = None
  /\ last_committed = None
  /\ pending = <<>>
  /\ next_delivery_id = 0
  /\ rollback = None
  /\ origin = <<>>
  /\ taken = {}
  /\ handled = {}
  /\ failed = {}
  /\ ignored = {}

----------------------------------------------------------------------------
(* SessionState *)

\* Seeded faults, here and below: what the definition that follows would be
\* if the code were wrong.
Completed_Count(items) == Cardinality({i \in 1..Len(items) : items[i].completed})

\* advance_committed(): how many dispatches at the front are complete.
Completed(items) ==
  CHOOSE n \in 0..Len(items) :
    /\ \A i \in 1..n : items[i].completed
    /\ n = Len(items) \/ ~items[n + 1].completed

Advance(items) ==
  LET n == Completed(items) IN
  /\ pending' = SubSeq(items, n + 1, Len(items))
  /\ last_committed' = IF n = 0 THEN last_committed ELSE items[n].seq

\* record_dispatch(): the dispatch was committed before, or is pending.
IsDuplicate(seq) ==
  \/ seq <= last_committed
  \/ \E i \in 1..Len(pending) : pending[i].seq = seq

Decreases(seq) == seq < last_received

\* Only events count against the limit, but every pending dispatch counts.
AtLimit == Len(pending) >= MaxPending

\* record_dispatch() accepts: the dispatch is pending until it is complete.
Record(seq, id) ==
  /\ last_received' = seq
  /\ Advance(Append(pending, Dispatch(seq, id)))

Clear ==
  /\ session_id' = None
  /\ last_received' = None
  /\ last_committed' = None
  /\ pending' = <<>>
  /\ UNCHANGED next_delivery_id

----------------------------------------------------------------------------
(* The gateway *)

Live == session # 0 /\ log # <<>>

\* Something happens that the gateway has to tell the bot.
Emit ==
  /\ Live
  /\ Len(log) < MaxSeq
  /\ \E kind \in {"event", "plain"} : log' = Append(log, kind)
  /\ UNCHANGED <<session, connection, cursor, state, rollback, outcomes>>

\* The gateway forgets the session; a Resume will be refused.
Expire ==
  /\ Live
  /\ connection = "down"
  /\ log' = <<>>
  /\ UNCHANGED <<session, connection, cursor, state, rollback, outcomes>>

----------------------------------------------------------------------------
(* The connection (run_forever, run_connection, connect_authenticated) *)

\* prepare_connection() has a session and a committed dispatch to resume from.
CanResume == session_id # None /\ last_committed # None

\* The gateway accepts the Resume and replays what follows last_committed.
Resume ==
  /\ connection = "down"
  /\ CanResume
  /\ Live
  /\ session_id = session
  /\ connection' = "up"
  /\ cursor' = last_committed
  /\ UNCHANGED <<gateway, state, rollback, outcomes>>

\* Or it answers INVALID_SESSION: the session is cleared.
ResumeRefused ==
  /\ connection = "down"
  /\ CanResume
  /\ ~Live \/ session_id # session
  /\ Clear
  /\ UNCHANGED <<gateway, connection, cursor, rollback, outcomes>>

\* Without a session to resume, the adapter identifies and gets a new one.
Identify ==
  /\ connection = "down"
  /\ ~CanResume
  /\ session < MaxSessions
  /\ session' = session + 1
  /\ log' = <<"ready">>
  /\ connection' = "up"
  /\ cursor' = 0
  /\ UNCHANGED <<state, rollback, outcomes>>

\* The connection breaks, a heartbeat is not answered, the gateway asks for a
\* reconnect, or sends what cannot be decoded.
Disconnect ==
  /\ connection = "up"
  /\ rollback = None
  /\ connection' = "down"
  /\ UNCHANGED <<gateway, cursor, state, rollback, outcomes>>

\* INVALID_SESSION, or a close with 4006, 4007 or 4009.
Invalidate ==
  /\ connection = "up"
  /\ rollback = None
  /\ connection' = "down"
  /\ Clear
  /\ log' = <<>>
  /\ UNCHANGED <<session, cursor, rollback, outcomes>>

\* A fatal close code, a closed event queue or the shutdown.
Stop ==
  /\ connection # "stopped"
  /\ rollback = None
  /\ connection' = "stopped"
  /\ UNCHANGED <<gateway, cursor, state, rollback, outcomes>>

----------------------------------------------------------------------------
(* handle_dispatch *)

Next1 == cursor + 1

\* The next dispatch of the log arrives, and it is of this kind.
Arrives(kind) ==
  /\ connection = "up"
  /\ rollback = None
  /\ cursor < Len(log)
  /\ log[Next1] = kind
  /\ cursor' = Next1

\* READY brings the session id; then it is recorded like any plain dispatch.
ReceiveReady ==
  /\ Arrives("ready")
  /\ session_id' = session
  /\ IF IsDuplicate(Next1) \/ Decreases(Next1)
     THEN UNCHANGED <<last_received, last_committed, pending>>
     ELSE Record(Next1, None)
  /\ connection' = IF Decreases(Next1) THEN "down" ELSE "up"
  /\ UNCHANGED <<gateway, next_delivery_id, rollback, outcomes>>

\* A dispatch out of sequence is not recorded and ends the connection
\* (InvalidDispatchSequence), unless it is also malformed.
ReceivePlain ==
  /\ Arrives("plain")
  /\ IF IsDuplicate(Next1) \/ Decreases(Next1)
     THEN UNCHANGED <<last_received, last_committed, pending>>
     ELSE Record(Next1, None)
  /\ IF Decreases(Next1) /\ ~IsDuplicate(Next1)
     THEN connection' \in {"up", "down"}
     ELSE UNCHANGED connection
  /\ UNCHANGED <<gateway, session_id, next_delivery_id, rollback, outcomes>>

\* A replay of a dispatch that is pending or committed is dropped.
ReceiveDuplicate ==
  /\ Arrives("event")
  /\ IsDuplicate(Next1)
  /\ ignored' = ignored \cup
       {d \in failed : origin[d] = <<session, Next1>>}
  /\ UNCHANGED <<gateway, connection, state, rollback, origin, taken, handled,
                 failed>>

\* Room for one more dispatch that is not out of sequence.
Recordable(seq) == ~Decreases(seq) /\ ~AtLimit

\* An event is recorded and offered to the Runtime, which may have no room;
\* then the dispatch is undone under another lock of the session.
ReceiveEvent ==
  /\ Arrives("event")
  /\ ~IsDuplicate(Next1)
  /\ Recordable(Next1)
  /\ next_delivery_id < MaxDeliveries
  /\ next_delivery_id' = next_delivery_id + 1
  /\ Record(Next1, next_delivery_id')
  /\ origin' = Append(origin, <<session, Next1>>)
  /\ \/ /\ taken' = taken \cup {next_delivery_id'}
        /\ UNCHANGED rollback
     \/ /\ rollback' = Next1
        /\ UNCHANGED taken
  /\ UNCHANGED <<gateway, connection, session_id, handled, failed, ignored>>

LastOf(items) == IF items = <<>> THEN last_committed ELSE items[Len(items)].seq

RollBack_Forgotten ==
  /\ rollback # None
  /\ rollback' = None
  /\ connection' = "down"
  /\ UNCHANGED <<gateway, cursor, state, outcomes>>

\* What retain() leaves of the items: those of another sequence number, in
\* their order.
Retain(items, seq) ==
  LET kept   == {i \in 1..Len(items) : items[i].seq # seq}
      nth(i) == CHOOSE k \in kept : Cardinality({j \in kept : j <= k}) = i
  IN [i \in 1..Cardinality(kept) |-> items[nth(i)]]

\* rollback_dispatch(); the connection is given up so that the gateway
\* replays the event.
RollBack ==
  /\ rollback # None
  /\ pending' = Retain(pending, rollback)
  /\ last_received' = LastOf(pending')
  /\ rollback' = None
  /\ connection' = "down"
  /\ UNCHANGED <<gateway, cursor, session_id, last_committed,
                 next_delivery_id, outcomes>>

\* UncommittedEventLimit (or InvalidDispatchSequence): the event is not
\* recorded and the connection ends.
ReceiveRejected ==
  /\ Arrives("event")
  /\ ~IsDuplicate(Next1)
  /\ ~Recordable(Next1)
  /\ connection' = "down"
  /\ UNCHANGED <<gateway, state, rollback, outcomes>>

----------------------------------------------------------------------------
(* The Runtime *)

Working(d) == d \in taken /\ d \notin handled \cup failed

\* event_handled() calls mark_handled().
EventHandled(d) ==
  /\ Working(d)
  /\ Advance([i \in 1..Len(pending) |->
                [pending[i] EXCEPT !.completed = @ \/ pending[i].delivery_id = d]])
  /\ handled' = handled \cup {d}
  /\ UNCHANGED <<gateway, connection, cursor, session_id, last_received,
                 next_delivery_id, rollback, origin, taken, failed, ignored>>

\* A handler fails: the claim is released and the adapter hears nothing.
EventFails(d) ==
  /\ Working(d)
  /\ failed' = failed \cup {d}
  /\ UNCHANGED <<gateway, connection, cursor, state, rollback, origin, taken,
                 handled, ignored>>

----------------------------------------------------------------------------
Receive ==
  \/ ReceiveReady
  \/ ReceivePlain
  \/ ReceiveDuplicate
  \/ ReceiveEvent
  \/ ReceiveRejected

Connection ==
  \/ Resume
  \/ ResumeRefused
  \/ Identify
  \/ Disconnect
  \/ Invalidate
  \/ Stop
  \/ Receive
  \/ RollBack

Next ==
  \/ Emit
  \/ Expire
  \/ Connection
  \/ \E d \in taken : EventHandled(d) \/ EventFails(d)

Spec == Init /\ [][Next]_vars

----------------------------------------------------------------------------
(* Fairness: the adapter reconnects for ever and reads what arrives, even    *)
(* over connections that keep breaking; the Runtime finishes what it took.   *)
Fairness ==
  /\ WF_vars(Resume \/ ResumeRefused \/ Identify)
  /\ SF_vars(Receive)
  /\ WF_vars(RollBack)
  /\ \A d \in 1..MaxDeliveries : WF_vars(EventHandled(d) \/ EventFails(d))

FairSpec == Spec /\ Fairness

----------------------------------------------------------------------------
(* Properties *)

Dispatches == [seq : Nat, delivery_id : Nat, completed : BOOLEAN]

\* Every variable keeps its type.
TypeOK ==
  /\ log \in Seq({"ready", "event", "plain"})
  /\ session \in Nat
  /\ connection \in {"down", "up", "stopped"}
  /\ cursor \in Nat
  /\ session_id \in Nat
  /\ last_received \in Nat
  /\ last_committed \in Nat
  /\ pending \in Seq(Dispatches)
  /\ next_delivery_id \in Nat
  /\ rollback \in Nat
  /\ origin \in Seq(Nat \X Nat)
  /\ taken \subseteq 1..next_delivery_id
  /\ handled \subseteq taken
  /\ failed \subseteq taken
  /\ ignored \subseteq failed

Handled(seq) == \E d \in handled : origin[d] = <<session, seq>>

\* A Resume never skips an event: everything up to last_committed was handled
\* or carries no event, although events are handled in any order, and some
\* after a reconnect (advance_committed).
ResumeLosesNothing ==
  session_id = session /\ Live =>
    \A s \in 1..last_committed :
      s <= Len(log) /\ (log[s] = "event" => Handled(s))

\* The pending dispatches are those between last_committed and last_received,
\* in sequence and without a gap, and the first of them is not complete:
\* nothing that was received is forgotten, and what was undone can come again.
\* So a gateway that numbers its dispatches in sequence is never accused of a
\* decreasing one, however often sessions and connections change.
PendingIsContiguous ==
  /\ \A i \in 1..Len(pending) : pending[i].seq = last_committed + i
  /\ last_received = last_committed + Len(pending)
  /\ pending # <<>> => ~pending[1].completed
  /\ connection = "up" /\ rollback = None /\ cursor < Len(log) =>
       IsDuplicate(Next1) \/ ~Decreases(Next1)

\* No event of a session is given to the Runtime twice.
SubmittedOnce ==
  \A c, d \in taken : origin[c] = origin[d] => c = d

\* A pending event is completed only by the acknowledgement of its own
\* delivery: delivery identifiers are never used again, so a late one, from
\* before a replay or of a session that was cleared, completes nothing.
AckCompletesItsOwn ==
  \A i \in 1..Len(pending) :
    LET item == pending[i] IN
    item.delivery_id # None =>
      /\ origin[item.delivery_id] = <<session_id, item.seq>>
      /\ item.completed <=> item.delivery_id \in handled

\* What the adapter believes of the session is what happened in it, so that a
\* Resume neither skips nor repeats an event, however the acknowledgements of
\* earlier connections and sessions come in.
SessionIsExact ==
  /\ ResumeLosesNothing
  /\ PendingIsContiguous
  /\ SubmittedOnce
  /\ AckCompletesItsOwn

\* "Releases this exact claim so a retry can process the event": an event
\* whose handlers failed is not dropped when the gateway sends it again.
FailedEventsCanBeRetried == ignored = {}

\* The session is lost, or the adapter stops, or (a bound) no identifier is
\* left to deliver an event with.
Abandoned(n) ==
  \/ session # n
  \/ ~Live
  \/ connection = "down" /\ ~CanResume
  \/ connection = "stopped"
  \/ next_delivery_id = MaxDeliveries

\* As long as no handler fails, every event of a session that lives on is
\* handled at last, over any number of reconnects and full queues.
EventsAreHandled ==
  \A n \in 1..MaxSessions, s \in 1..MaxSeq :
    session = n /\ s <= Len(log) /\ log[s] = "event"
      ~> Handled(s) \/ Abandoned(n) \/ failed # {}
=============================================================================

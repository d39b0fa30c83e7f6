--------------------------- MODULE WebhookIntake ---------------------------
(***************************************************************************)
(* The HTTP callbacks of the QQ platform: src/crates/adapter-qqbot/src/    *)
(* webhook.rs.  A callback is authenticated against its signed timestamp,  *)
(* looked up in the table of seen events, mapped, reserved in the table    *)
(* and handed to the Runtime; the platform sends it again until it is      *)
(* acknowledged.  The adapter may be run again after its run has ended;    *)
(* the table is kept, and requests of the old server may still be under    *)
(* way.                                                                    *)
(*                                                                         *)
(* From reserve() to accept() or release() the code holds the table's lock *)
(* and does not await, so that is one action and SeenState::Pending is     *)
(* never seen by another request.  EventSender::try_send is the Runtime's  *)
(* queue of EventDispatcher, seen from here as full or not.                *)
(***************************************************************************)
EXTENDS Integers, Sequences, FiniteSets, TLC

CONSTANTS
    Requests,       \* HTTP requests
    Events,         \* event ids, the outer one or the one of the mapped event
    Kind,           \* what map_dispatch makes of it: an event, nothing, or an error
    Window,         \* timestamp_tolerance
    Timeout,        \* request_timeout
    MaxSeen,        \* MAX_SEEN_EVENTS
    Unseen,
    MaxClock,       \* bound of the clock
    MaxRuns         \* bound of the number of runs of the adapter

IntakeAssumption ==
    /\ Kind \in [Events -> {"event", "ignored", "malformed"}]
    /\ Window \in Nat \ {0} /\ Timeout \in Nat \ {0}
    /\ MaxSeen \in Nat \ {0}

VARIABLES
    clock,          \* seconds since the epoch
    running,        \* the generation in lifecycle.active, 0 for none
    generation,     \* lifecycle.next_generation
    seen,           \* expires_at of the accepted events
    request,        \* the requests, with the answer they were given
    taken           \* history: the requests whose event the Runtime took

vars == <<clock, running, generation, seen, request, taken>>

Larger(a, b) == IF a >= b THEN a ELSE b
Recorded == {e \in Events : seen[e] # Unseen}
Forget(es) == [e \in Events |-> IF e \in es THEN Unseen ELSE seen[e]]

Init ==
    /\ clock = 0
    /\ running = 0
    /\ generation = 0
    /\ seen = [e \in Events |-> Unseen]
    /\ request = [r \in Requests |-> [state |-> "none"]]
    /\ taken = <<>>

StartRun ==
    /\ running = 0
    /\ generation < MaxRuns
    /\ generation' = generation + 1
    /\ running' = generation + 1
    /\ UNCHANGED <<clock, seen, request, taken>>

\* WebhookRunGuard::drop.  The connections of the server are tasks of their own and go on.
EndRun ==
    /\ running # 0
    /\ running' = 0
    /\ UNCHANGED <<clock, generation, seen, request, taken>>

Tick ==
    /\ clock < MaxClock
    /\ clock' = clock + 1
    /\ UNCHANGED <<running, generation, seen, request, taken>>

Refuse(r) == request' = [request EXCEPT ![r] = [state |-> "refused"]]
Acknowledge(r) ==
    request' = [request EXCEPT ![r] = [state |-> "acknowledged", event |-> request[r].event]]

(***************************************************************************)
(* authenticate(): the signature is the platform's; what the program       *)
(* decides is whether the timestamp is recent.                             *)
(***************************************************************************)
Callback(r) ==
    /\ request[r].state = "none"
    /\ running # 0
    /\ \E e \in Events, signed \in 0..MaxClock :
          /\ signed <= clock + Window /\ clock <= signed + Window
          /\ request' = [request EXCEPT ![r] =
                [state |-> "authenticated", event |-> e, signed |-> signed, run |-> running]]
    /\ UNCHANGED <<clock, running, generation, seen, taken>>

\* dispatch_response() reads the clock once, before it waits for the table.
ReadClock(r) ==
    /\ request[r].state = "authenticated"
    /\ request' = [request EXCEPT ![r] = [state |-> "lookup", now |-> clock] @@ @]
    /\ UNCHANGED <<clock, running, generation, seen, taken>>

Expired(e, now) == seen[e] < now

Lookup(r) ==
    LET e == request[r].event
        known == e \in Recorded
        stale == known /\ Expired(e, request[r].now)
    IN /\ request[r].state = "lookup"
       /\ seen' = IF stale THEN Forget({e}) ELSE seen
       /\ IF (known /\ ~stale) \/ Kind[e] = "ignored" THEN Acknowledge(r)
          ELSE IF Kind[e] = "malformed" THEN Refuse(r)
          ELSE request' = [request EXCEPT ![r].state = "reserve"]
       /\ UNCHANGED <<clock, running, generation, taken>>

Keeps_WindowOnly(r) == request[r].signed + Window

\* How long the event stays in the table: no callback signed with this timestamp
\* is authenticated longer, and the sender of this request has given up by then.
Keeps(r) == Larger(request[r].signed + Window, request[r].now + Timeout)

\* The table after reserve() has made room, which happens only when it is full.
Room(e, now) ==
    LET others == Recorded \ {e}
    IN IF Cardinality(others) >= MaxSeen THEN Forget({e} \cup {o \in others : Expired(o, now)})
       ELSE Forget({e})

Delivered(e, table, r) == [table EXCEPT ![e] = Keeps(r)]
Undelivered(e, table, r) == table

OwnRun(r) == running # 0 /\ running = request[r].run

ReserveAndSend(r) ==
    LET e == request[r].event
        now == request[r].now
        table == Room(e, now)
        full == Cardinality({o \in Events : table[o] # Unseen}) >= MaxSeen
    IN /\ request[r].state = "reserve"
       /\ \/ /\ e \in Recorded /\ ~Expired(e, now)
             /\ Acknowledge(r)
             /\ UNCHANGED <<seen, taken>>
          \/ /\ e \in Recorded => Expired(e, now)
             /\ full
             /\ seen' = table
             /\ Refuse(r)
             /\ UNCHANGED taken
          \/ /\ e \in Recorded => Expired(e, now)
             /\ ~full
             /\ IF OwnRun(r)
                THEN \/ /\ seen' = Delivered(e, table, r)
                        /\ request' = [request EXCEPT ![r] =
                              [state |-> "acknowledged", at |-> clock, into |-> running] @@ @]
                        /\ taken' = Append(taken, r)
                     \/ /\ seen' = Undelivered(e, table, r)     \* the queue is full or closed
                        /\ Refuse(r)
                        /\ UNCHANGED taken
                ELSE /\ seen' = Undelivered(e, table, r)
                     /\ Refuse(r)
                     /\ UNCHANGED taken
       /\ UNCHANGED <<clock, running, generation>>

\* The request times out or its connection is closed, while it waits for the table.
GiveUp(r) ==
    /\ request[r].state \in {"lookup", "reserve"}
    /\ Refuse(r)
    /\ UNCHANGED <<clock, running, generation, seen, taken>>

Next ==
    \/ StartRun \/ EndRun \/ Tick
    \/ \E r \in Requests : Callback(r) \/ ReadClock(r) \/ Lookup(r) \/ ReserveAndSend(r) \/ GiveUp(r)

Spec == Init /\ [][Next]_vars
----------------------------------------------------------------------------
(***************************************************************************)
(* An event that is acknowledged to the platform, which then stops sending *)
(* it, was handed to the Runtime by this request or an earlier one; and a  *)
(* request hands its event only to the run whose server took it, however   *)
(* long it waited (dispatch_response, lifecycle.active.generation).        *)
(***************************************************************************)
AcknowledgedIsTaken ==
    /\ \A r \in Requests :
          request[r].state = "acknowledged" /\ Kind[request[r].event] = "event" =>
             \E i \in DOMAIN taken : request[taken[i]].event = request[r].event
    /\ \A i \in DOMAIN taken : request[taken[i]].into = request[taken[i]].run

(***************************************************************************)
(* An event is handed over again only when no callback signed with the     *)
(* first timestamp is authenticated any more and the first request must    *)
(* have been answered or dropped: whatever other requests clean up in the  *)
(* table with other readings of the clock, and across runs (SeenEvents,    *)
(* expires_at in dispatch_response).                                       *)
(***************************************************************************)
TakenAgainOnlyAfterExpiry ==
    \A i, j \in DOMAIN taken :
       LET first == request[taken[i]]
           again == request[taken[j]]
       IN i < j /\ first.event = again.event =>
             again.at > Larger(first.signed + Window, first.now + Timeout)
============================================================================

--------------------------- MODULE GatewayHeartbeat ---------------------------
(***************************************************************************)
(* One connection to the QQ gateway while it is up: the loop of            *)
(* run_connection with its heartbeats.  A timer sends a heartbeat in every *)
(* Interval; when it fires and the last heartbeat sent is not acknowledged *)
(* the connection is given up.  The gateway may also ask for a heartbeat,  *)
(* which is sent at once and awaits its acknowledgement in the same way.   *)
(*                                                                         *)
(* The loop does one thing at a time: while a dispatch is handed to the    *)
(* runtime, which may make it wait, neither the timer nor the socket is    *)
(* looked at.  The gateway answers a heartbeat within Delay as long as it  *)
(* lives; a dead one neither sends anything nor closes the connection.     *)
(***************************************************************************)
EXTENDS Integers, Sequences, SequencesExt

CONSTANTS Interval,     \* time between two heartbeats
          Delay,        \* the time within which a live gateway acknowledges
          MaxUnread     \* bounds what is on its way

HeartbeatAssumption == Delay \in Nat /\ Interval \in Nat /\ Delay < Interval

VARIABLES timer,        \* time until the timer fires
          heartbeat_acknowledged,
          loop,         \* "select", "dispatch" (being handed over), or how it has ended
          lastSent,     \* why the last heartbeat was sent: "timer" or "answer"
          unanswered,   \* the ages of the heartbeats that the gateway has not acknowledged
          socket,       \* what the gateway has sent and the loop not yet read
          alive,        \* the gateway lives
          grace         \* heartbeats that the timer may send before a dead gateway is noticed

vars == <<timer, heartbeat_acknowledged, loop, lastSent, unanswered, socket, alive, grace>>

Ended == {"HeartbeatAckMissing", "closed"}

Init ==
    /\ timer = Interval /\ heartbeat_acknowledged = TRUE
    /\ loop = "select" /\ lastSent = "timer"
    /\ unanswered = <<>> /\ socket = <<>>
    /\ alive = TRUE /\ grace = 0

(***************************************************************************)
(* The loop                                                                *)
(***************************************************************************)
SendHeartbeat(reason) ==
    /\ unanswered' = Append(unanswered, 0)
    /\ heartbeat_acknowledged' = FALSE
    /\ lastSent' = reason

\* The next tick is an interval after this one, however late this one is.
NextTick == Interval

TimerFires ==
    /\ loop = "select" /\ timer = 0
    /\ timer' = NextTick
    /\ grace' = IF alive THEN 0 ELSE grace - 1
    /\ IF heartbeat_acknowledged
       THEN SendHeartbeat("timer") /\ UNCHANGED loop
       ELSE loop' = "HeartbeatAckMissing" /\ UNCHANGED <<heartbeat_acknowledged, unanswered, lastSent>>
    /\ UNCHANGED <<socket, alive>>

\* An acknowledgement does not say of which heartbeat it is.
Read ==
    /\ loop = "select" /\ socket # <<>>
    /\ socket' = Tail(socket)
    /\ CASE Head(socket) = "ack" ->
              /\ heartbeat_acknowledged' = TRUE
              /\ UNCHANGED <<loop, unanswered, lastSent>>
         [] Head(socket) = "heartbeat" -> SendHeartbeat("answer") /\ UNCHANGED loop
         [] Head(socket) = "dispatch" ->
              /\ loop' = "dispatch"
              /\ UNCHANGED <<heartbeat_acknowledged, unanswered, lastSent>>
         [] Head(socket) = "close" ->
              /\ loop' = "closed"
              /\ UNCHANGED <<heartbeat_acknowledged, unanswered, lastSent>>
    /\ UNCHANGED <<timer, alive, grace>>

HandedOver ==
    /\ loop = "dispatch" /\ loop' = "select"
    /\ UNCHANGED <<timer, heartbeat_acknowledged, lastSent, unanswered, socket, alive, grace>>

(***************************************************************************)
(* The gateway                                                             *)
(***************************************************************************)
GatewaySends(message) ==
    /\ alive /\ loop \notin Ended /\ Len(socket) + Len(unanswered) < MaxUnread
    /\ "close" \notin ToSet(socket)
    /\ socket' = Append(socket, message)
    /\ UNCHANGED <<timer, heartbeat_acknowledged, loop, lastSent, unanswered, alive, grace>>

GatewayAcknowledges ==
    /\ alive /\ loop \notin Ended /\ unanswered # <<>>
    /\ unanswered' = Tail(unanswered)
    /\ socket' = Append(socket, "ack")
    /\ UNCHANGED <<timer, heartbeat_acknowledged, loop, lastSent, alive, grace>>

\* What it had sent is still read: each acknowledgement is good for one more heartbeat.
GatewayDies ==
    /\ alive /\ loop \notin Ended
    /\ alive' = FALSE
    /\ grace' = 2 + Len(SelectSeq(socket, LAMBDA m : m = "ack"))
    /\ UNCHANGED <<timer, heartbeat_acknowledged, loop, lastSent, unanswered, socket>>

\* The loop takes what it can take at once; a dispatch may keep it.
TimePasses ==
    /\ loop \notin Ended
    /\ loop = "select" => timer > 0 /\ socket = <<>>
    /\ alive => \A k \in DOMAIN unanswered : unanswered[k] < Delay
    /\ timer' = IF timer > 0 THEN timer - 1 ELSE 0
    /\ unanswered' = [k \in DOMAIN unanswered |-> IF unanswered[k] < Delay THEN unanswered[k] + 1 ELSE Delay]
    /\ UNCHANGED <<heartbeat_acknowledged, loop, lastSent, socket, alive, grace>>

Next ==
    \/ TimerFires
    \/ Read
    \/ HandedOver
    \/ \E message \in {"heartbeat", "dispatch", "close"} : GatewaySends(message)
    \/ GatewayAcknowledges
    \/ GatewayDies
    \/ TimePasses

Spec == Init /\ [][Next]_vars
-----------------------------------------------------------------------------
(***************************************************************************)
(* Properties                                                              *)
(***************************************************************************)
\* A gateway that is dead is given up after two intervals, and one more for each acknowledgement
\* that was still unread: the timer does not fire once more.
TheDeadIsNoticed == ~alive => grace >= 0 /\ (grace = 0 => loop \in Ended)

\* A gateway that lives is given up only when the acknowledgement had arrived and waited behind
\* a dispatch, or when the loop had just answered a heartbeat of the gateway.
TheLivingIsKept ==
    loop = "HeartbeatAckMissing" /\ alive => "ack" \in ToSet(socket) \/ lastSent = "answer"
=============================================================================

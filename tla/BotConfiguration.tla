-------------------------- MODULE BotConfiguration --------------------------
(***************************************************************************)
(* What BotConfig::validate accepts: one check after the other, of a       *)
(* configuration with up to three listeners and with limits.  The          *)
(* reference is what the operating system binds and what the bot keeps in  *)
(* memory.                                                                 *)
(*                                                                         *)
(* Of an address it matters whether it is a loopback address, another one, *)
(* or the wildcard of its family; `mapped` are the IPv6 addresses that     *)
(* stand for IPv4 (`::ffff:a.b.c.d`).  Texts, time limits and the limits   *)
(* of the log are left out, and no port is zero.                           *)
(***************************************************************************)
EXTENDS Naturals, Sequences

CONSTANTS Ports, Sizes, Counts,         \* those that a configuration may name
          Word,                         \* an integer of the program is below it
          FrameBytes,                   \* the largest message of a QQ WebSocket
          EventMultiplier, SlotMultiplier, ConnectionEvents, RequestMultiplier,
          MaxBytes, MaxCapacity, MaxConcurrency, QueueBudget, RequestBudget,
          None

VARIABLES config, verdict

vars == <<config, verdict>>

Address == [family : {"IPv4", "IPv6", "mapped"}, host : {"loopback", "other", "any"}, port : Ports]

OneBot == [listen : Address, insecure : BOOLEAN, bytes : Sizes]
Webhook == [transport : {"webhook"}, listen : Address, bytes : Sizes, concurrency : Counts]
WebSocket == [transport : {"websocket"}]

Local(port) == [family |-> "IPv4", host |-> "loopback", port |-> port]

\* All listeners with one size, and all sizes with one combination of listeners.
Listening ==
    [management : Address \cup {None},
     onebot : {o \in OneBot : o.bytes = 1} \cup {None},
     qq : {q \in Webhook : q.bytes = 1 /\ q.concurrency = 1} \cup WebSocket \cup {None},
     capacity : {1}]
Sized ==
    [management : {None},
     onebot : {[listen |-> Local(1), insecure |-> FALSE, bytes |-> n] : n \in Sizes} \cup {None},
     qq : {q \in Webhook : q.listen = Local(2)} \cup WebSocket \cup {None},
     capacity : Counts]

Init == config \in Listening \cup Sized /\ verdict = "unknown"

(***************************************************************************)
(* Addresses                                                               *)
(***************************************************************************)
IsIPv4(address) == address.family = "IPv4"
IsLoopback(address) == address.family # "mapped" /\ address.host = "loopback"
IsUnspecified(address) == address.family # "mapped" /\ address.host = "any"

OverlapsMapped(ipv4, ipv6) ==
    \/ IsUnspecified(ipv6)
    \/ ipv6.family = "mapped" /\ (IsUnspecified(ipv4) \/ ipv6.host = ipv4.host)

Overlap(left, right) ==
    /\ left.port = right.port
    /\ CASE IsIPv4(left) <=> IsIPv4(right) -> left = right \/ IsUnspecified(left) \/ IsUnspecified(right)
         [] IsIPv4(left) /\ ~ IsIPv4(right) -> OverlapsMapped(left, right)
         [] ~ IsIPv4(left) /\ IsIPv4(right) -> OverlapsMapped(right, left)

ServesCallbacks == config.qq # None /\ config.qq.transport = "webhook"

Listeners ==
    (IF config.management = None THEN <<>> ELSE <<config.management>>)
       \o (IF config.onebot = None THEN <<>> ELSE <<config.onebot.listen>>)
       \o (IF ServesCallbacks THEN <<config.qq.listen>> ELSE <<>>)

Pairs == {p \in (1..Len(Listeners)) \X (1..Len(Listeners)) : p[1] < p[2]}

(***************************************************************************)
(* Sizes                                                                   *)
(***************************************************************************)
CheckedMul_Wrapping(m, n) == (m * n) % Word

\* A product that does not fit is None, and so is what is computed from it.
CheckedMul(m, n) == IF m = None \/ n = None THEN None ELSE IF m * n < Word THEN m * n ELSE None
CheckedAdd(m, n) == IF m = None THEN None ELSE IF m + n < Word THEN m + n ELSE None
Exceeds(bytes, limit) == IF bytes = None THEN TRUE ELSE bytes > limit

Larger(m, n) == IF m > n THEN m ELSE n
IsCount(n, limit) == n \in 1..limit

MaxEventBytes ==
    LET qq == IF config.qq = None THEN 0 ELSE IF ServesCallbacks THEN config.qq.bytes ELSE FrameBytes
        maximum == Larger(qq, IF config.onebot = None THEN 0 ELSE config.onebot.bytes)
    IN IF maximum * EventMultiplier < Word THEN maximum * EventMultiplier ELSE Word - 1

AdapterSlots == IF config.onebot = None THEN 0 ELSE ConnectionEvents

QueueBytes == CheckedMul(CheckedAdd(CheckedMul(config.capacity, SlotMultiplier), AdapterSlots), MaxEventBytes)

RequestBytes == CheckedMul(CheckedMul(config.qq.bytes, config.qq.concurrency), RequestMultiplier)

(***************************************************************************)
(* The checks, in their order                                              *)
(***************************************************************************)
Order == <<"adapters", "webhook", "onebot11", "runtime", "management", "listeners">>

AcceptsWebhook ==
    /\ IsCount(config.qq.bytes, MaxBytes)
    /\ IsCount(config.qq.concurrency, MaxConcurrency)
    /\ ~ Exceeds(RequestBytes, RequestBudget)

AcceptsOneBot ==
    /\ IsLoopback(config.onebot.listen) \/ config.onebot.insecure
    /\ IsCount(config.onebot.bytes, MaxBytes)

AcceptsRuntime == IsCount(config.capacity, MaxCapacity) /\ ~ Exceeds(QueueBytes, QueueBudget)

AcceptsListeners == \A p \in Pairs : ~ Overlap(Listeners[p[1]], Listeners[p[2]])

Accepts(check) ==
    CASE check = "adapters" -> config.qq # None \/ config.onebot # None
      [] check = "webhook" -> ServesCallbacks => AcceptsWebhook
      [] check = "onebot11" -> config.onebot # None => AcceptsOneBot
      [] check = "runtime" -> AcceptsRuntime
      [] check = "management" -> config.management # None => IsLoopback(config.management)
      [] check = "listeners" -> AcceptsListeners

\* The first check that fails tells why.
Validate ==
    /\ verdict = "unknown"
    /\ verdict' = IF \A k \in DOMAIN Order : Accepts(Order[k]) THEN "accepted"
                  ELSE LET first == CHOOSE k \in DOMAIN Order :
                                       ~ Accepts(Order[k]) /\ \A l \in 1..(k - 1) : Accepts(Order[l])
                       IN Order[first]
    /\ UNCHANGED config

Next == Validate

Spec == Init /\ [][Next]_vars
-----------------------------------------------------------------------------
(***************************************************************************)
(* What a socket takes, on a system where IPv6 wildcards take IPv4 as well *)
(***************************************************************************)
Hosts == {"loopback", "other"}

Takes(address) ==
    LET hosts == IF address.host = "any" THEN Hosts ELSE {address.host}
        family == IF address.family = "mapped" THEN "IPv4" ELSE address.family
        both == address.family = "IPv6" /\ address.host = "any"
    IN (IF both THEN {"IPv4", "IPv6"} ELSE {family}) \X hosts \X {address.port}

Collide(p) == Takes(Listeners[p[1]]) \cap Takes(Listeners[p[2]]) # {}

IsMappedWildcard(address) == address.family = "mapped" /\ address.host = "any"

\* The listeners of an accepted configuration can all be bound; the wildcard of the mapped addresses,
\* which the code takes for one host, is not claimed for.  None is refused without a reason.
ListenersAreJudged ==
    /\ verdict = "accepted" =>
          \A p \in Pairs : Collide(p) =>
             IsMappedWildcard(Listeners[p[1]]) \/ IsMappedWildcard(Listeners[p[2]])
    /\ verdict = "listeners" => \E p \in Pairs : Collide(p)

\* What is not encrypted is reached from this host only, if the user has not said otherwise.
PlaintextIsLocal ==
    verdict = "accepted" =>
       /\ config.management # None => \A t \in Takes(config.management) : t[2] = "loopback"
       /\ config.onebot # None /\ ~ config.onebot.insecure =>
             \A t \in Takes(config.onebot.listen) : t[2] = "loopback"

\* The events and the requests that an accepted configuration lets the bot keep fit into the budgets,
\* whatever the width of its integers.
MemoryIsBounded ==
    verdict = "accepted" =>
       /\ (SlotMultiplier * config.capacity + AdapterSlots) * EventMultiplier
             * Larger(IF config.onebot = None THEN 0 ELSE config.onebot.bytes,
                      IF config.qq = None THEN 0 ELSE IF ServesCallbacks THEN config.qq.bytes ELSE FrameBytes)
          <= QueueBudget
       /\ ServesCallbacks => config.qq.bytes * config.qq.concurrency * RequestMultiplier <= RequestBudget
=============================================================================

-------------------------- MODULE MemoryDedupStore --------------------------
(***************************************************************************)
(* The bounded in-memory deduplication store of bot-core (dedup.rs).       *)
(*                                                                         *)
(* Every operation of the store runs under one mutex, but a claim may go   *)
(* to sleep between two locked sections, a cancelled claim drops its two   *)
(* guards under two separate acquisitions of the mutex, and a release      *)
(* wakes the waiters after it has given the mutex back.  Each such section *)
(* is one action here.                                                     *)
(*                                                                         *)
(* A `watch` receiver is ready once its channel was signalled after the    *)
(* subscription; that is all a waiter can tell, so the version counters    *)
(* are abstracted to the set `woken` of waiters whose channel has been     *)
(* signalled.  A claim's random token is the number of claims granted.     *)
(***************************************************************************)
EXTENDS Integers, FiniteSets, Sequences

CONSTANTS
  Keys,       \* the deduplication keys
  Oversized,  \* the keys longer than MAX_DEDUP_KEY_BYTES
  Callers,    \* the tasks that use the store
  NoKey,      \* no call in progress
  Capacity,   \* the configured capacity
  MaxTokens   \* bound on the claims granted in a behaviour

ASSUME StoreAssumption ==
  /\ Capacity \in Nat \ {0}
  /\ MaxTokens \in Nat
  /\ IsFiniteSet(Keys)
  /\ IsFiniteSet(Callers)
  /\ Oversized \subseteq Keys
  /\ NoKey \notin Keys

VARIABLES
  entries,         \* the entry of each key, Absent when the map has none
  waiters,         \* how many claims pin each key, 0 when the map has none
  pending_claims,  \* the number of admitted claims that wait
  evictable,       \* committed keys in the order they may be evicted
  issued,          \* the number of tokens handed out
  phase,           \* where each caller is
  key,             \* the key of each caller's call or claim
  token,           \* the token of the claim a caller holds
  channel,         \* the watch channel a waiting caller sleeps on
  guard,           \* the callers holding a PendingClaimGuard
  pin,             \* the callers holding a WaiterPin
  woken,           \* the waiting callers whose channel was signalled
  answer           \* the last answer each caller got, and the key it is about

store   == <<entries, waiters, pending_claims, evictable, issued>>
waiting == <<channel, guard, pin, woken>>
vars    == <<store, phase, key, token, waiting, answer>>

Absent       == [state |-> "absent", token |-> 0]
InFlight(t)  == [state |-> "in_flight", token |-> t]
Committed(t) == [state |-> "committed", token |-> t]

\* Channels are named by tokens: 0 is `capacity_changed`, t > 0 is the
\* `changed` channel of the entry that was put in flight with token t.
CapacityChanged == 0

Present == {k \in Keys : entries[k].state # "absent"}

Phases == {"idle", "waiting", "drop_guard", "drop_pin", "owner", "settled",
           "signal_changed", "signal_capacity"}

Answers == {"none", "duplicate", "saturated", "oversized",
            "ok", "unclaimed", "stale"}

\* Only None says something about a key: that it was committed.
Plain(a)     == [is |-> a, event |-> NoKey]
Duplicate(k) == [is |-> "duplicate", event |-> k]

Init ==
  /\ entries = [k \in Keys |-> Absent]
  /\ waiters = [k \in Keys |-> 0]
  /\ pending_claims = 0
  /\ evictable = <<>>
  /\ issued = 0
  /\ phase = [p \in Callers |-> "idle"]
  /\ key = [p \in Callers |-> NoKey]
  /\ token = [p \in Callers |-> 0]
  /\ channel = [p \in Callers |-> CapacityChanged]
  /\ guard = {}
  /\ pin = {}
  /\ woken = {}
  /\ answer = [p \in Callers |-> Plain("none")]

----------------------------------------------------------------------------
(* Helpers shared by the locked sections *)

\* signal(): every caller asleep on the channel becomes ready.
Listeners(c) == {q \in Callers : phase[q] = "waiting" /\ channel[q] = c}

\* A decrement that saturates at zero.
Decremented(n) == IF n = 0 THEN 0 ELSE n - 1

\* Seeded faults, here and below: what the definition that follows would be
\* if the code were wrong.
LastPin_Early(k) == waiters[k] >= 1

\* unpin_waiter() removes the map entry when the last pin goes.
LastPin(k) == waiters[k] = 1

\* unpin_waiter(): the pinned key becomes evictable with its last waiter if
\* it is committed, and the capacity waiters are woken in either case.
UnpinWaiter(k) ==
  /\ waiters' = [waiters EXCEPT ![k] = Decremented(@)]
  /\ evictable' = IF LastPin(k) /\ entries[k].state = "committed"
                  THEN Append(evictable, <<k, entries[k].token>>)
                  ELSE evictable

WokenByUnpin_Silent(k) == {}

\* The listeners unpin_waiter() wakes.
WokenByUnpin(k) == IF LastPin(k) THEN Listeners(CapacityChanged) ELSE {}

ReturnGuard_Leaks(p) == guard' = guard \ {p} /\ UNCHANGED pending_claims

\* The guard and the pin a claim gives back when it returns an answer.
ReturnGuard(p) ==
  /\ pending_claims' = IF p \in guard THEN Decremented(pending_claims)
                                      ELSE pending_claims
  /\ guard' = guard \ {p}

ReturnPin(p, k) ==
  /\ pin' = pin \ {p}
  /\ IF p \in pin THEN UnpinWaiter(k) ELSE UNCHANGED <<waiters, evictable>>
  /\ woken' = (woken \cup (IF p \in pin THEN WokenByUnpin(k) ELSE {})) \ {p}

\* The keys evict_committed() has removed once it has popped n pairs.
Evicted(n) == {k \in Keys : \E i \in 1..n :
                               /\ evictable[i][1] = k
                               /\ entries[k] = Committed(evictable[i][2])}

\* evict_committed() pops while the map is full and there is a pair to pop.
RoomAfter(n) == Cardinality(Present \ Evicted(n)) < Capacity
StopsAfter(n) ==
  /\ RoomAfter(n) \/ n = Len(evictable)
  /\ \A m \in 0..(n - 1) : ~RoomAfter(m)

Evict(n) ==
  /\ entries' = [k \in Keys |-> IF k \in Evicted(n) THEN Absent
                                                    ELSE entries[k]]
  /\ evictable' = SubSeq(evictable, n + 1, Len(evictable))

\* The caller runs the locked section of claim(k): on the first pass of its
\* loop, or again after its channel woke it.
Polls(p, k) ==
  \/ phase[p] = "idle" /\ k \in Keys \ Oversized
  \/ phase[p] = "waiting" /\ p \in woken /\ key[p] = k

Return(p, a) ==
  /\ phase' = [phase EXCEPT ![p] = "idle"]
  /\ key' = [key EXCEPT ![p] = NoKey]
  /\ channel' = [channel EXCEPT ![p] = CapacityChanged]
  /\ answer' = [answer EXCEPT ![p] = a]

\* admit_pending_claim() has room, or the claim is already admitted.
Admissible(p) == p \in guard \/ pending_claims < Capacity

\* The claim goes to sleep on a channel it has just subscribed to.
Sleep(p, k, c) ==
  /\ guard' = guard \cup {p}
  /\ pending_claims' = IF p \in guard THEN pending_claims
                                      ELSE pending_claims + 1
  /\ phase' = [phase EXCEPT ![p] = "waiting"]
  /\ key' = [key EXCEPT ![p] = k]
  /\ channel' = [channel EXCEPT ![p] = c]
  /\ woken' = woken \ {p}
  /\ answer' = [answer EXCEPT ![p] = Plain("none")]

----------------------------------------------------------------------------
(* claim() *)

\* A key over the size limit is refused before the state is looked at.
ClaimOversized(p, k) ==
  /\ phase[p] = "idle"
  /\ k \in Oversized
  /\ answer' = [answer EXCEPT ![p] = Plain("oversized")]
  /\ UNCHANGED <<store, phase, key, token, waiting>>

ClaimDuplicate_OnWakeup(p, k) ==
  /\ Polls(p, k)
  /\ entries[k].state = "committed" \/ p \in pin
  /\ ReturnGuard(p)
  /\ ReturnPin(p, k)
  /\ Return(p, Duplicate(k))
  /\ UNCHANGED <<entries, issued, token>>

\* The key is committed: the call answers None.
ClaimDuplicate(p, k) ==
  /\ Polls(p, k)
  /\ entries[k].state = "committed"
  /\ ReturnGuard(p)
  /\ ReturnPin(p, k)
  /\ Return(p, Duplicate(k))
  /\ UNCHANGED <<entries, issued, token>>

\* The key is in flight: the call pins it and sleeps on the entry's channel.
ClaimWaitsForOwner(p, k) ==
  /\ Polls(p, k)
  /\ entries[k].state = "in_flight"
  /\ Admissible(p)
  /\ Sleep(p, k, entries[k].token)
  /\ pin' = pin \cup {p}
  /\ waiters' = IF p \in pin THEN waiters ELSE [waiters EXCEPT ![k] = @ + 1]
  /\ UNCHANGED <<entries, evictable, issued, token>>

\* The key is absent and eviction makes room: the call takes ownership.
ClaimGranted(p, k) ==
  /\ Polls(p, k)
  /\ entries[k].state = "absent"
  /\ issued < MaxTokens
  /\ \E n \in 0..Len(evictable) :
       /\ StopsAfter(n)
       /\ RoomAfter(n)
       /\ entries' = [j \in Keys |-> IF j = k THEN InFlight(issued + 1)
                                     ELSE IF j \in Evicted(n) THEN Absent
                                     ELSE entries[j]]
       /\ evictable' = SubSeq(evictable, n + 1, Len(evictable))
  /\ issued' = issued + 1
  /\ ReturnGuard(p)
  /\ pin' = pin \ {p}
  /\ waiters' = IF p \in pin THEN [waiters EXCEPT ![k] = Decremented(@)]
                             ELSE waiters
  /\ woken' = (woken \cup (IF p \in pin THEN WokenByUnpin(k) ELSE {})) \ {p}
  /\ phase' = [phase EXCEPT ![p] = "owner"]
  /\ key' = [key EXCEPT ![p] = k]
  /\ token' = [token EXCEPT ![p] = issued + 1]
  /\ channel' = [channel EXCEPT ![p] = CapacityChanged]
  /\ answer' = [answer EXCEPT ![p] = Plain("none")]

\* The key is absent and nothing can be evicted: the call sleeps until
\* capacity changes.  It does not pin its key.
ClaimWaitsForCapacity(p, k) ==
  /\ Polls(p, k)
  /\ entries[k].state = "absent"
  /\ \E n \in 0..Len(evictable) :
       /\ StopsAfter(n)
       /\ ~RoomAfter(n)
       /\ Evict(n)
  /\ Admissible(p)
  /\ Sleep(p, k, CapacityChanged)
  /\ UNCHANGED <<waiters, issued, token, pin>>

\* A call that would have to wait is refused once `capacity` calls wait.  It
\* has not been admitted before, so it holds neither a guard nor a pin.
ClaimSaturated(p, k) ==
  /\ Polls(p, k)
  /\ ~Admissible(p)
  /\ \/ /\ entries[k].state = "in_flight"
        /\ UNCHANGED <<entries, evictable>>
     \/ /\ entries[k].state = "absent"
        /\ \E n \in 0..Len(evictable) :
             /\ StopsAfter(n)
             /\ ~RoomAfter(n)
             /\ Evict(n)
  /\ answer' = [answer EXCEPT ![p] = Plain("saturated")]
  /\ UNCHANGED <<waiters, pending_claims, issued, phase, key, token, waiting>>

\* The future of a sleeping claim is dropped.  Its locals are dropped in
\* reverse order, each under its own lock: first the guard, then the pin.
Cancel(p) ==
  /\ phase[p] = "waiting"
  /\ phase' = [phase EXCEPT ![p] = "drop_guard"]
  /\ woken' = woken \ {p}
  /\ channel' = [channel EXCEPT ![p] = CapacityChanged]
  /\ UNCHANGED <<store, key, token, guard, pin, answer>>

DropGuard(p) ==
  /\ phase[p] = "drop_guard"
  /\ ReturnGuard(p)
  /\ phase' = [phase EXCEPT ![p] = "drop_pin"]
  /\ UNCHANGED <<entries, waiters, evictable, issued, key, token, channel,
                 pin, woken, answer>>

DropPin(p) ==
  /\ phase[p] = "drop_pin"
  /\ ReturnPin(p, key[p])
  /\ Return(p, Plain("none"))
  /\ UNCHANGED <<entries, pending_claims, issued, token, guard>>

----------------------------------------------------------------------------
(* commit() and release() *)

\* A claim may be finalised again for as long as its holder keeps it.
Holds(p) == phase[p] \in {"owner", "settled"}

Commit(p) ==
  /\ Holds(p)
  /\ entries[key[p]] = InFlight(token[p])
  /\ entries' = [entries EXCEPT ![key[p]] = Committed(token[p])]
  /\ evictable' = IF waiters[key[p]] = 0
                  THEN Append(evictable, <<key[p], token[p]>>)
                  ELSE evictable
  /\ woken' = woken \cup Listeners(token[p]) \cup Listeners(CapacityChanged)
  /\ phase' = [phase EXCEPT ![p] = "settled"]
  /\ answer' = [answer EXCEPT ![p] = Plain("ok")]
  /\ UNCHANGED <<waiters, pending_claims, issued, key, token, channel, guard,
                 pin>>

\* A finalisation that finds the entry already finalised, gone or owned by
\* a later claim leaves the store as it is.
Fenced(p) == /\ entries[key[p]].state # "absent"
             /\ entries[key[p]].token # token[p]

Refinalize(p, a) ==
  /\ phase' = [phase EXCEPT ![p] = "settled"]
  /\ answer' = [answer EXCEPT ![p] = Plain(a)]
  /\ UNCHANGED <<store, key, token, waiting>>

CommitAgain(p) ==
  /\ Holds(p)
  /\ \/ entries[key[p]] = Committed(token[p]) /\ Refinalize(p, "ok")
     \/ entries[key[p]] = Absent /\ Refinalize(p, "unclaimed")
     \/ Fenced(p) /\ Refinalize(p, "stale")

Release_AnyToken(p) ==
  /\ Holds(p)
  /\ entries[key[p]].state = "in_flight"
  /\ entries' = [entries EXCEPT ![key[p]] = Absent]
  /\ phase' = [phase EXCEPT ![p] = "signal_changed"]
  /\ UNCHANGED <<waiters, pending_claims, evictable, issued, key, token,
                 waiting, answer>>

\* release() removes the entry under the lock and signals without it.
Release(p) ==
  /\ Holds(p)
  /\ entries[key[p]] = InFlight(token[p])
  /\ entries' = [entries EXCEPT ![key[p]] = Absent]
  /\ phase' = [phase EXCEPT ![p] = "signal_changed"]
  /\ UNCHANGED <<waiters, pending_claims, evictable, issued, key, token,
                 waiting, answer>>

SignalChanged(p) ==
  /\ phase[p] = "signal_changed"
  /\ woken' = woken \cup Listeners(token[p])
  /\ phase' = [phase EXCEPT ![p] = "signal_capacity"]
  /\ UNCHANGED <<store, key, token, channel, guard, pin, answer>>

SignalCapacity_Forgotten(p) ==
  /\ phase[p] = "signal_capacity"
  /\ phase' = [phase EXCEPT ![p] = "settled"]
  /\ answer' = [answer EXCEPT ![p] = Plain("ok")]
  /\ UNCHANGED <<store, waiting, key, token>>

SignalCapacity(p) ==
  /\ phase[p] = "signal_capacity"
  /\ woken' = woken \cup Listeners(CapacityChanged)
  /\ phase' = [phase EXCEPT ![p] = "settled"]
  /\ answer' = [answer EXCEPT ![p] = Plain("ok")]
  /\ UNCHANGED <<store, key, token, channel, guard, pin>>

ReleaseAgain(p) ==
  /\ Holds(p)
  /\ \/ /\ entries[key[p]] \in {Committed(token[p]), Absent}
        /\ Refinalize(p, "ok")
     \/ Fenced(p) /\ Refinalize(p, "stale")

\* The holder forgets a claim.  The Runtime tracks every claim it was given
\* and finalises it (dedup.rs:133-135), so only a settled claim is forgotten.
Forget(p) ==
  /\ phase[p] = "settled"
  /\ phase' = [phase EXCEPT ![p] = "idle"]
  /\ key' = [key EXCEPT ![p] = NoKey]
  /\ token' = [token EXCEPT ![p] = 0]
  /\ answer' = [answer EXCEPT ![p] = Plain("none")]
  /\ UNCHANGED <<store, waiting>>

----------------------------------------------------------------------------
Claim(p, k) ==
  \/ ClaimOversized(p, k)
  \/ ClaimDuplicate(p, k)
  \/ ClaimWaitsForOwner(p, k)
  \/ ClaimGranted(p, k)
  \/ ClaimWaitsForCapacity(p, k)
  \/ ClaimSaturated(p, k)

Finalize(p) ==
  \/ Commit(p)
  \/ CommitAgain(p)
  \/ Release(p)
  \/ ReleaseAgain(p)
  \/ SignalChanged(p)
  \/ SignalCapacity(p)
  \/ Forget(p)

Next ==
  \E p \in Callers :
    \/ \E k \in Keys : Claim(p, k)
    \/ Cancel(p)
    \/ DropGuard(p)
    \/ DropPin(p)
    \/ Finalize(p)

Spec == Init /\ [][Next]_vars

----------------------------------------------------------------------------
(* Fairness: a woken claim is polled again, a drop or a release that has     *)
(* begun runs to its end, and the holder of a claim finalises it.  Nothing   *)
(* makes an idle caller claim or a sleeping one cancel.                      *)
Repolls(p) == phase[p] = "waiting" /\ \E k \in Keys : Claim(p, k)

Fairness ==
  \A p \in Callers :
    /\ WF_vars(Repolls(p))
    /\ WF_vars(DropGuard(p) \/ DropPin(p))
    /\ WF_vars(SignalChanged(p) \/ SignalCapacity(p))
    /\ WF_vars(phase[p] = "owner" /\ (Commit(p) \/ Release(p)))

FairSpec == Spec /\ Fairness

----------------------------------------------------------------------------
(* Properties *)

\* Every variable keeps its type.
TypeOK ==
  /\ entries \in [Keys -> [state : {"absent", "in_flight", "committed"},
                           token : Nat]]
  /\ waiters \in [Keys -> Nat]
  /\ pending_claims \in Nat
  /\ evictable \in Seq(Keys \X Nat)
  /\ issued \in Nat
  /\ phase \in [Callers -> Phases]
  /\ key \in [Callers -> Keys \cup {NoKey}]
  /\ token \in [Callers -> Nat]
  /\ channel \in [Callers -> Nat]
  /\ guard \subseteq Callers
  /\ pin \subseteq Callers
  /\ woken \subseteq Callers
  /\ answer \in [Callers -> [is : Answers, event : Keys \cup {NoKey}]]

\* The map never outgrows the configured capacity, whatever the order in
\* which waiting claims wake up and evict (claim, evict_committed).
WithinCapacity == Cardinality(Present) <= Capacity

\* The two counters of the store are exactly the guards and pins that calls
\* still hold: neither a cancelled claim, whose two guards are dropped under
\* two locks, nor an answered one leaks an admission or a pin, so waiting is
\* never refused for good and no key is kept for ever.
CountersMatchGuards ==
  /\ pending_claims = Cardinality(guard)
  /\ pending_claims <= Capacity
  /\ \A k \in Keys : waiters[k] = Cardinality({p \in pin : key[p] = k})

\* The eviction queue holds exactly the committed entries that no waiting
\* duplicate pins, once each: a committed entry missing from it would take up
\* capacity for ever, and a pinned one in it could be evicted before the
\* duplicate has observed it (commit, unpin_waiter, evict_committed).
EvictableExact ==
  /\ \A i \in 1..Len(evictable) :
       entries[evictable[i][1]] = Committed(evictable[i][2])
  /\ \A i, j \in 1..Len(evictable) :
       evictable[i][1] = evictable[j][1] => i = j
  /\ \A k \in Keys :
       entries[k].state = "committed" =>
         (waiters[k] = 0 <=> \E i \in 1..Len(evictable) : evictable[i][1] = k)

\* What the store counts is exact.  A bound that drifts by one refuses waiting
\* for good, keeps keys for ever or evicts the key of a waiting duplicate.
AccountingExact == WithinCapacity /\ CountersMatchGuards /\ EvictableExact

\* An entry is in flight exactly while one caller holds an unsettled claim on
\* it: no event is processed by two callers, no claim that was handed out is
\* fenced off before its holder finalises it, and no ownership outlives a
\* cancelled call (DedupStore::claim's contract).
OneOwner ==
  /\ \A p \in Callers : phase[p] = "owner" =>
       entries[key[p]] = InFlight(token[p])
  /\ \A k \in Keys : entries[k].state = "in_flight" =>
       \E p \in Callers : /\ phase[p] = "owner"
                          /\ key[p] = k
                          /\ token[p] = entries[k].token
  /\ \A p, q \in Callers :
       phase[p] = "owner" /\ phase[q] = "owner" /\ key[p] = key[q] => p = q

\* No wakeup is lost: a sleeping claim that nobody has woken would find
\* nothing to do if it looked, unless a release has yet to send its signal.
\* This is what the order "subscribe, then sleep" under the lock and the late
\* signals of release() have to ensure.
NoLostWakeup ==
  \A p \in Callers : phase[p] = "waiting" /\ p \notin woken =>
    \/ \E q \in Callers : phase[q] \in {"signal_changed", "signal_capacity"}
    \/ /\ channel[p] # CapacityChanged
       /\ entries[key[p]] = InFlight(channel[p])
    \/ /\ channel[p] = CapacityChanged
       /\ Cardinality(Present) = Capacity
       /\ evictable = <<>>

\* An entry leaves the in-flight state only by a commit or a release of the
\* claim that put it there; a retained claim of an earlier owner, finalised
\* late or twice, cannot end a later one.
OnlyHolderFinalizes ==
  [][\A k \in Keys :
       entries[k].state = "in_flight" /\ entries'[k] # entries[k] =>
         \E p \in Callers : /\ phase[p] = "owner" /\ phase'[p] # "owner"
                            /\ key[p] = k
                            /\ token[p] = entries[k].token]_vars

\* A committed key that a duplicate waits for stays until that duplicate has
\* returned: the duplicate is told None, never handed the event a second time.
PinnedSurvives ==
  [][\A p \in pin :
       entries[key[p]].state = "committed" =>
         /\ entries'[key[p]] = entries[key[p]]
         /\ phase'[p] # "owner"]_vars

\* A caller's claim waits until it has answered, or all of it is dropped.
Unanswered(p) == phase[p] \in {"waiting", "drop_guard", "drop_pin"}

\* The store keeps the promise of the DedupStore trait: tokens, pins, signals
\* and the eviction queue amount to the simple ownership discipline of
\* DedupContract.  Above all, a claim that is told None, at once or after any
\* number of sleeps, is told so of its own event, and that event is committed.
Contract == INSTANCE DedupContract WITH
  held  <- {<<p, key[p]>> : p \in {q \in Callers : phase[q] = "owner"}},
  done  <- {k \in Keys : entries[k].state = "committed"},
  asked <- [p \in Callers |-> IF Unanswered(p) THEN key[p] ELSE NoKey]

ImplementsContract == Contract!Spec

\* Every claim that goes to sleep gets its answer or is cancelled.
ClaimsReturn ==
  \A p \in Callers :
    phase[p] = "waiting" /\ issued < MaxTokens
      ~> phase[p] # "waiting" \/ issued = MaxTokens
=============================================================================

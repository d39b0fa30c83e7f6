----------------------- MODULE MemoryDedupStore_proofs -----------------------
(***************************************************************************)
(* Proofs about the deduplication store, for any number of keys, callers   *)
(* and slots.                                                              *)
(***************************************************************************)
EXTENDS MemoryDedupStore, FiniteSetTheorems, SequenceTheorems, TLAPS

----------------------------------------------------------------------------
(* Type correctness *)

LEMMA InitType == Init => TypeOK
BY StoreAssumption DEF Init, TypeOK, Phases, Answers, Plain, Absent, CapacityChanged

\* unpin_waiter() keeps the types of the maps it changes.
LEMMA UnpinType ==
  ASSUME TypeOK, NEW k \in Keys, UnpinWaiter(k)
  PROVE  waiters' \in [Keys -> Nat] /\ evictable' \in Seq(Keys \X Nat)
<1>1. waiters' \in [Keys -> Nat]
  BY DEF TypeOK, UnpinWaiter, Decremented
<1>2. <<k, entries[k].token>> \in Keys \X Nat
  BY DEF TypeOK
<1>3. evictable' \in Seq(Keys \X Nat)
  BY <1>2, AppendProperties DEF TypeOK, UnpinWaiter
<1>. QED  BY <1>1, <1>3

\* Popping n pairs keeps the types of the map and of the queue.
LEMMA EvictType ==
  ASSUME TypeOK, NEW n \in 0..Len(evictable)
  PROVE  /\ SubSeq(evictable, n + 1, Len(evictable)) \in Seq(Keys \X Nat)
         /\ [k \in Keys |-> IF k \in Evicted(n) THEN Absent ELSE entries[k]]
              \in [Keys -> [state : {"absent", "in_flight", "committed"},
                            token : Nat]]
<1>1. evictable \in Seq(Keys \X Nat)
  BY DEF TypeOK
<1>2. \A i \in (n + 1)..Len(evictable) : evictable[i] \in Keys \X Nat
  BY <1>1
<1>3. SubSeq(evictable, n + 1, Len(evictable)) \in Seq(Keys \X Nat)
  BY <1>1, <1>2, SubSeqProperties
<1>. QED  BY <1>3 DEF TypeOK, Absent

LEMMA ClaimType ==
  ASSUME TypeOK, NEW p \in Callers, NEW k \in Keys, Claim(p, k)
  PROVE  TypeOK'
<1>. USE DEF TypeOK, Phases, Answers, Plain, Duplicate, CapacityChanged
<1>1. CASE ClaimOversized(p, k)
  BY <1>1 DEF ClaimOversized, store, waiting
<1>2. CASE ClaimDuplicate(p, k)
  <2>1. waiters' \in [Keys -> Nat] /\ evictable' \in Seq(Keys \X Nat)
    BY <1>2, UnpinType DEF ClaimDuplicate, ReturnPin
  <2>2. pending_claims' \in Nat /\ guard' \subseteq Callers
    BY <1>2 DEF ClaimDuplicate, ReturnGuard, Decremented
  <2>3. pin' \subseteq Callers /\ woken' \subseteq Callers
    BY <1>2 DEF ClaimDuplicate, ReturnPin, WokenByUnpin, Listeners
  <2>4. /\ phase' \in [Callers -> Phases]
        /\ key' \in [Callers -> Keys \cup {NoKey}]
        /\ channel' \in [Callers -> Nat]
        /\ answer' \in [Callers -> [is : Answers, event : Keys \cup {NoKey}]]
    BY <1>2 DEF ClaimDuplicate, Return
  <2>. QED  BY <1>2, <2>1, <2>2, <2>3, <2>4 DEF ClaimDuplicate
<1>3. CASE ClaimWaitsForOwner(p, k)
  <2>1. entries[k].token \in Nat
    OBVIOUS
  <2>2. waiters' \in [Keys -> Nat] /\ pending_claims' \in Nat
    BY <1>3 DEF ClaimWaitsForOwner, Sleep
  <2>3. /\ phase' \in [Callers -> Phases]
        /\ key' \in [Callers -> Keys \cup {NoKey}]
        /\ channel' \in [Callers -> Nat]
        /\ answer' \in [Callers -> [is : Answers, event : Keys \cup {NoKey}]]
    BY <1>3, <2>1 DEF ClaimWaitsForOwner, Sleep
  <2>4. guard' \subseteq Callers /\ pin' \subseteq Callers /\ woken' \subseteq Callers
    BY <1>3 DEF ClaimWaitsForOwner, Sleep
  <2>. QED  BY <1>3, <2>2, <2>3, <2>4 DEF ClaimWaitsForOwner
<1>4. CASE ClaimGranted(p, k)
  <2>1. entries' \in [Keys -> [state : {"absent", "in_flight", "committed"},
                               token : Nat]]
    BY <1>4 DEF ClaimGranted, InFlight, Absent
  <2>2. evictable' \in Seq(Keys \X Nat)
    BY <1>4, EvictType DEF ClaimGranted
  <2>3. waiters' \in [Keys -> Nat] /\ pending_claims' \in Nat
    BY <1>4, SMTT(60) DEF ClaimGranted, ReturnGuard, Decremented
  <2>4. guard' \subseteq Callers /\ pin' \subseteq Callers
    BY <1>4 DEF ClaimGranted, ReturnGuard
  <2>5. woken' \subseteq Callers
    BY <1>4 DEF ClaimGranted, WokenByUnpin, Listeners
  <2>. QED  BY <1>4, <2>1, <2>2, <2>3, <2>4, <2>5 DEF ClaimGranted
<1>5. CASE ClaimWaitsForCapacity(p, k)
  <2>1. /\ entries' \in [Keys -> [state : {"absent", "in_flight", "committed"},
                                  token : Nat]]
        /\ evictable' \in Seq(Keys \X Nat)
    BY <1>5, EvictType DEF ClaimWaitsForCapacity, Evict
  <2>. QED  BY <1>5, <2>1 DEF ClaimWaitsForCapacity, Sleep
<1>6. CASE ClaimSaturated(p, k)
  <2>1. /\ entries' \in [Keys -> [state : {"absent", "in_flight", "committed"},
                                  token : Nat]]
        /\ evictable' \in Seq(Keys \X Nat)
    BY <1>6, EvictType DEF ClaimSaturated, Evict
  <2>. QED  BY <1>6, <2>1 DEF ClaimSaturated, waiting
<1>. QED  BY <1>1, <1>2, <1>3, <1>4, <1>5, <1>6 DEF Claim

LEMMA CancelType ==
  ASSUME TypeOK, NEW p \in Callers, phase[p] # "idle" => key[p] \in Keys,
         Cancel(p) \/ DropGuard(p) \/ DropPin(p)
  PROVE  TypeOK'
<1>. USE DEF TypeOK, Phases, Answers, Plain, Duplicate, CapacityChanged
<1>1. CASE Cancel(p)
  BY <1>1 DEF Cancel, store
<1>2. CASE DropGuard(p)
  BY <1>2 DEF DropGuard, ReturnGuard, Decremented
<1>3. CASE DropPin(p)
  <2>1. waiters' \in [Keys -> Nat] /\ evictable' \in Seq(Keys \X Nat)
    BY <1>3, UnpinType DEF DropPin, ReturnPin
  <2>2. pin' \subseteq Callers /\ woken' \subseteq Callers
    BY <1>3 DEF DropPin, ReturnPin, WokenByUnpin, Listeners
  <2>. QED  BY <1>3, <2>1, <2>2 DEF DropPin, Return
<1>. QED  BY <1>1, <1>2, <1>3

LEMMA FinalizeType ==
  ASSUME TypeOK, NEW p \in Callers, phase[p] # "idle" => key[p] \in Keys,
         Finalize(p)
  PROVE  TypeOK'
<1>. USE DEF TypeOK, Phases, Answers, Plain, Duplicate, CapacityChanged
<1>1. CASE Commit(p)
  <2>1. <<key[p], token[p]>> \in Keys \X Nat
    BY <1>1 DEF Commit, Holds
  <2>2. evictable' \in Seq(Keys \X Nat)
    BY <1>1, <2>1, AppendProperties DEF Commit
  <2>. QED  BY <1>1, <2>2 DEF Commit, Committed, Listeners
<1>2. CASE CommitAgain(p) \/ ReleaseAgain(p)
  <2>1. PICK a \in {"ok", "unclaimed", "stale"} : Refinalize(p, a)
    BY <1>2 DEF CommitAgain, ReleaseAgain
  <2>. QED  BY <2>1 DEF Refinalize, store, waiting
<1>3. CASE Release(p)
  BY <1>3 DEF Release, Absent, waiting
<1>4. CASE SignalChanged(p) \/ SignalCapacity(p)
  <2>1. answer' = answer \/ answer' = [answer EXCEPT ![p] = Plain("ok")]
    BY <1>4 DEF SignalChanged, SignalCapacity
  <2>2. CASE answer' = answer
    BY <1>4, <2>2 DEF SignalChanged, SignalCapacity, Listeners, store
  <2>3. CASE answer' = [answer EXCEPT ![p] = Plain("ok")]
    BY <1>4, <2>3 DEF SignalChanged, SignalCapacity, Listeners, store
  <2>. QED  BY <2>1, <2>2, <2>3
<1>5. CASE Forget(p)
  BY <1>5 DEF Forget, store, waiting
<1>. QED  BY <1>1, <1>2, <1>3, <1>4, <1>5 DEF Finalize

----------------------------------------------------------------------------
(* The inductive invariant *)

\* The phases in which a caller keeps a claim.
Holding == {"owner", "settled", "signal_changed", "signal_capacity"}

\* Tokens are fresh: none exceeds the number issued, and two callers that keep
\* a claim, settled or not, keep it under different tokens.
TokensFresh ==
  /\ \A k \in Keys : entries[k].token <= issued
  /\ \A p \in Callers : token[p] <= issued
  /\ \A p, q \in Callers :
       phase[p] \in Holding /\ phase[q] \in Holding /\ token[p] = token[q] => p = q

\* A call has a key until it is over, and its guard and its pin live only
\* while it sleeps or is being dropped.
CallShape ==
  /\ \A p \in Callers : phase[p] # "idle" => key[p] \in Keys
  /\ \A p \in Callers : p \in guard <=> phase[p] \in {"waiting", "drop_guard"}
  /\ \A p \in pin : phase[p] \in {"waiting", "drop_guard", "drop_pin"}

IInv ==
  /\ TypeOK
  /\ TokensFresh
  /\ CallShape
  /\ OneOwner
  /\ CountersMatchGuards
  /\ WithinCapacity
  /\ EvictableExact

LEMMA InitIInv == Init => IInv
<1>1. SUFFICES ASSUME Init PROVE IInv
  OBVIOUS
<1>2. TypeOK
  BY <1>1, InitType
<1>3. TokensFresh /\ CallShape /\ OneOwner
  BY <1>1, StoreAssumption
  DEF Init, TokensFresh, CallShape, OneOwner, Absent, Holding
<1>4. CountersMatchGuards
  <2>1. \A k \in Keys : {p \in pin : key[p] = k} = {}
    BY <1>1 DEF Init
  <2>. QED
    BY <1>1, <2>1, FS_EmptySet, StoreAssumption DEF Init, CountersMatchGuards
<1>5. WithinCapacity
  <2>1. Present = {}
    BY <1>1 DEF Init, Present, Absent
  <2>. QED  BY <2>1, FS_EmptySet, StoreAssumption DEF WithinCapacity
<1>6. EvictableExact
  BY <1>1 DEF Init, EvictableExact, Absent
<1>. QED  BY <1>2, <1>3, <1>4, <1>5, <1>6 DEF IInv

----------------------------------------------------------------------------
(* Eviction *)

\* evict_committed() pops at most one pair, and pops it only if the map is
\* full; when it makes no room it has popped nothing, because nothing is
\* there to pop.
LEMMA EvictsAtMostOne ==
  ASSUME IInv, NEW n \in 0..Len(evictable), StopsAfter(n)
  PROVE  /\ n \in {0, 1}
         /\ n = 0 => Evicted(n) = {}
         /\ n = 1 => /\ Len(evictable) >= 1
                     /\ Evicted(n) = {evictable[1][1]}
                     /\ evictable[1][1] \in Keys
                     /\ entries[evictable[1][1]].state = "committed"
         /\ ~RoomAfter(n) => n = 0 /\ Len(evictable) = 0
<1>. USE DEF IInv
<1>1. evictable \in Seq(Keys \X Nat) /\ Len(evictable) \in Nat
  BY DEF TypeOK
<1>2. IsFiniteSet(Present)
  BY StoreAssumption, FS_Subset DEF Present
<1>3. Evicted(0) = {}
  BY DEF Evicted
<1>4. CASE n = 0
  BY <1>1, <1>3, <1>4 DEF StopsAfter
<1>5. CASE n > 0
  <2>1. ~RoomAfter(0)
    BY <1>5 DEF StopsAfter
  <2>2. Len(evictable) >= 1 /\ 1 \in 1..Len(evictable)
    BY <1>1, <1>5
  <2>3. evictable[1][1] \in Keys /\ evictable[1][2] \in Nat
    BY <1>1, <2>2
  <2>4. entries[evictable[1][1]] = Committed(evictable[1][2])
    BY <2>2 DEF EvictableExact
  <2>5. Evicted(1) = {evictable[1][1]}
    BY <2>3, <2>4 DEF Evicted
  <2>6. evictable[1][1] \in Present
    BY <2>3, <2>4 DEF Present, Committed
  <2>7. Cardinality(Present) = Capacity
    <3>1. Present \ Evicted(0) = Present
      BY <1>3
    <3>2. ~(Cardinality(Present) < Capacity)
      BY <2>1, <3>1 DEF RoomAfter
    <3>3. Cardinality(Present) \in Nat
      BY <1>2, FS_CardinalityType
    <3>. QED  BY <3>2, <3>3, StoreAssumption DEF WithinCapacity
  <2>8. RoomAfter(1)
    <3>1. Cardinality(Present \ {evictable[1][1]}) = Cardinality(Present) - 1
      BY <1>2, <2>6, FS_RemoveElement
    <3>2. Cardinality(Present \ Evicted(1)) = Capacity - 1
      BY <2>5, <2>7, <3>1
    <3>. QED  BY <3>2, StoreAssumption DEF RoomAfter
  <2>9. n = 1
    <3>1. ~(1 \in 0..(n - 1))
      BY <2>8 DEF StopsAfter
    <3>. QED  BY <3>1, <1>5
  <2>10. entries[evictable[1][1]].state = "committed"
    BY <2>4 DEF Committed
  <2>. QED  BY <2>2, <2>3, <2>5, <2>8, <2>9, <2>10
<1>. QED  BY <1>4, <1>5

\* When eviction makes no room, it changes nothing.
LEMMA FutileEviction ==
  ASSUME IInv, NEW n \in 0..Len(evictable), StopsAfter(n), ~RoomAfter(n),
         Evict(n)
  PROVE  entries' = entries /\ evictable' = evictable
<1>1. n = 0 /\ Len(evictable) = 0 /\ Evicted(n) = {}
  BY EvictsAtMostOne
<1>2. entries' = entries
  BY <1>1 DEF Evict, IInv, TypeOK
<1>3. evictable = <<>>
  BY <1>1 DEF IInv, TypeOK
<1>4. evictable' = <<>>
  BY <1>1, SubSeqEmpty DEF Evict
<1>. QED  BY <1>2, <1>3, <1>4

----------------------------------------------------------------------------
(* The counters *)

\* The part of CountersMatchGuards about pins.
PinsCounted == \A k \in Keys : waiters[k] = Cardinality({p \in pin : key[p] = k})

\* A key that somebody pins has a positive count.
LEMMA PinIsCounted ==
  ASSUME IInv, NEW p \in pin
  PROVE  key[p] \in Keys /\ waiters[key[p]] \in Nat \ {0}
<1>. USE DEF IInv
<1>1. p \in Callers /\ key[p] \in Keys
  BY DEF TypeOK, CallShape
<1>2. IsFiniteSet({q \in pin : key[q] = key[p]})
  BY StoreAssumption, FS_Subset DEF TypeOK
<1>3. {q \in pin : key[q] = key[p]} # {}
  OBVIOUS
<1>4. waiters[key[p]] # 0
  BY <1>1, <1>2, <1>3, FS_EmptySet DEF CountersMatchGuards
<1>. QED  BY <1>1, <1>4 DEF TypeOK

\* An answered or cancelled call gives its admission back.
LEMMA GuardReturned ==
  ASSUME IInv, NEW p \in Callers, ReturnGuard(p)
  PROVE  pending_claims' = Cardinality(guard') /\ pending_claims' <= Capacity
<1>. USE DEF IInv
<1>1. IsFiniteSet(guard)
  BY StoreAssumption, FS_Subset DEF TypeOK
<1>2. pending_claims = Cardinality(guard) /\ pending_claims <= Capacity
  BY DEF CountersMatchGuards
<1>3. CASE p \in guard
  <2>1. Cardinality(guard \ {p}) = pending_claims - 1
    BY <1>1, <1>2, <1>3, FS_RemoveElement
  <2>2. pending_claims # 0
    BY <1>1, <1>2, <1>3, FS_EmptySet
  <2>. QED
    BY <1>2, <1>3, <2>1, <2>2, StoreAssumption
    DEF ReturnGuard, Decremented, TypeOK
<1>4. CASE p \notin guard
  <2>1. guard \ {p} = guard
    BY <1>4
  <2>. QED  BY <1>2, <1>4, <2>1 DEF ReturnGuard
<1>. QED  BY <1>3, <1>4

\* A call that goes to sleep is admitted within the bound.
LEMMA GuardTaken ==
  ASSUME IInv, NEW p \in Callers, NEW k, NEW c, Admissible(p), Sleep(p, k, c)
  PROVE  pending_claims' = Cardinality(guard') /\ pending_claims' <= Capacity
<1>. USE DEF IInv
<1>1. IsFiniteSet(guard)
  BY StoreAssumption, FS_Subset DEF TypeOK
<1>2. pending_claims = Cardinality(guard) /\ pending_claims <= Capacity
  BY DEF CountersMatchGuards
<1>3. CASE p \in guard
  <2>1. guard \cup {p} = guard
    BY <1>3
  <2>. QED  BY <1>2, <1>3, <2>1 DEF Sleep
<1>4. CASE p \notin guard
  <2>1. Cardinality(guard \cup {p}) = pending_claims + 1
    BY <1>1, <1>2, <1>4, FS_AddElement
  <2>. QED
    BY <1>4, <2>1, StoreAssumption DEF Sleep, Admissible, TypeOK
<1>. QED  BY <1>3, <1>4

\* Nothing about the pins changes while the pinning calls keep their keys.
LEMMA PinsKept ==
  ASSUME IInv, pin' = pin, waiters' = waiters,
         \A q \in pin : key'[q] = key[q]
  PROVE  PinsCounted'
<1>1. \A k \in Keys : {q \in pin' : key'[q] = k} = {q \in pin : key[q] = k}
  OBVIOUS
<1>. QED  BY <1>1 DEF IInv, CountersMatchGuards, PinsCounted

\* A call that ends takes its pin with it.
LEMMA PinDropped ==
  ASSUME IInv, NEW p \in pin, pin' = pin \ {p},
         waiters' = [waiters EXCEPT ![key[p]] = Decremented(@)],
         \A q \in pin \ {p} : key'[q] = key[q]
  PROVE  PinsCounted'
<1>. USE DEF IInv
<1>1. key[p] \in Keys /\ waiters[key[p]] \in Nat \ {0}
  BY PinIsCounted
<1>2. ASSUME NEW k \in Keys
      PROVE  waiters'[k] = Cardinality({q \in pin' : key'[q] = k})
  <2>1. {q \in pin' : key'[q] = k} = {q \in pin : key[q] = k} \ {p}
    OBVIOUS
  <2>2. IsFiniteSet({q \in pin : key[q] = k})
    BY StoreAssumption, FS_Subset DEF TypeOK
  <2>3. waiters[k] = Cardinality({q \in pin : key[q] = k})
    BY DEF CountersMatchGuards
  <2>4. CASE k = key[p]
    <3>1. Cardinality({q \in pin : key[q] = k} \ {p}) = waiters[k] - 1
      BY <2>2, <2>3, <2>4, FS_RemoveElement
    <3>2. waiters'[k] = waiters[k] - 1
      BY <1>1, <2>4 DEF Decremented, TypeOK
    <3>. QED  BY <2>1, <3>1, <3>2
  <2>5. CASE k # key[p]
    <3>1. {q \in pin : key[q] = k} \ {p} = {q \in pin : key[q] = k}
      BY <2>5
    <3>2. waiters'[k] = waiters[k]
      BY <1>1, <2>5 DEF TypeOK
    <3>. QED  BY <2>1, <2>3, <3>1, <3>2
  <2>. QED  BY <2>4, <2>5
<1>. QED  BY <1>2 DEF PinsCounted

\* A duplicate that starts to wait pins its key.
LEMMA PinTaken ==
  ASSUME IInv, NEW p \in Callers \ pin, NEW k \in Keys, pin' = pin \cup {p},
         waiters' = [waiters EXCEPT ![k] = @ + 1],
         key' = [key EXCEPT ![p] = k]
  PROVE  PinsCounted'
<1>. USE DEF IInv
<1>1. ASSUME NEW j \in Keys
      PROVE  waiters'[j] = Cardinality({q \in pin' : key'[q] = j})
  <2>1. key'[p] = k /\ \A q \in pin : key'[q] = key[q]
    BY DEF TypeOK
  <2>2. IsFiniteSet({q \in pin : key[q] = j})
    BY StoreAssumption, FS_Subset DEF TypeOK
  <2>3. waiters[j] = Cardinality({q \in pin : key[q] = j})
    BY DEF CountersMatchGuards
  <2>4. CASE j = k
    <3>1. {q \in pin' : key'[q] = j} = {q \in pin : key[q] = j} \cup {p}
      BY <2>1, <2>4
    <3>2. Cardinality({q \in pin : key[q] = j} \cup {p}) = waiters[j] + 1
      BY <2>2, <2>3, FS_AddElement
    <3>3. waiters'[j] = waiters[j] + 1
      BY <2>4 DEF TypeOK
    <3>. QED  BY <3>1, <3>2, <3>3
  <2>5. CASE j # k
    <3>1. {q \in pin' : key'[q] = j} = {q \in pin : key[q] = j}
      BY <2>1, <2>5
    <3>2. waiters'[j] = waiters[j]
      BY <2>5 DEF TypeOK
    <3>. QED  BY <2>3, <3>1, <3>2
  <2>. QED  BY <2>4, <2>5
<1>. QED  BY <1>1 DEF PinsCounted

----------------------------------------------------------------------------
(* The eviction queue *)

\* A pair is appended for a key that becomes committed and unpinned.
LEMMA PushKeepsExact ==
  ASSUME IInv, NEW k \in Keys, NEW t \in Nat,
         evictable' = Append(evictable, <<k, t>>),
         entries'[k] = Committed(t),
         \A j \in Keys \ {k} : entries'[j] = entries[j] /\ waiters'[j] = waiters[j],
         waiters'[k] = 0,
         \A i \in 1..Len(evictable) : evictable[i][1] # k
  PROVE  EvictableExact'
<1>. USE DEF IInv
<1>1. evictable \in Seq(Keys \X Nat) /\ Len(evictable) \in Nat
  BY DEF TypeOK
<1>2. /\ Len(evictable') = Len(evictable) + 1
      /\ \A i \in 1..Len(evictable) : evictable'[i] = evictable[i]
      /\ evictable'[Len(evictable) + 1] = <<k, t>>
  BY <1>1, AppendProperties
<1>3. \A i \in 1..Len(evictable) : evictable[i][1] \in Keys \ {k}
  BY <1>1
<1>4. \A i \in 1..Len(evictable') :
        \/ i \in 1..Len(evictable)
        \/ i = Len(evictable) + 1
  BY <1>1, <1>2
<1>5. \A i \in 1..Len(evictable') :
        entries'[evictable'[i][1]] = Committed(evictable'[i][2])
  <2>1. TAKE i \in 1..Len(evictable')
  <2>2. CASE i \in 1..Len(evictable)
    BY <1>2, <1>3, <2>2 DEF EvictableExact
  <2>3. CASE i = Len(evictable) + 1
    BY <1>2, <2>3
  <2>. QED  BY <1>4, <2>2, <2>3
<1>6. \A i, j \in 1..Len(evictable') :
        evictable'[i][1] = evictable'[j][1] => i = j
  BY <1>2, <1>3, <1>4 DEF EvictableExact
<1>7. ASSUME NEW j \in Keys, entries'[j].state = "committed"
      PROVE  waiters'[j] = 0 <=>
               \E i \in 1..Len(evictable') : evictable'[i][1] = j
  <2>1. CASE j = k
    <3>1. Len(evictable) + 1 \in 1..Len(evictable')
      BY <1>1, <1>2
    <3>. QED  BY <1>2, <2>1, <3>1
  <2>2. CASE j # k
    <3>1. (\E i \in 1..Len(evictable') : evictable'[i][1] = j)
            <=> (\E i \in 1..Len(evictable) : evictable[i][1] = j)
      BY <1>1, <1>2, <1>4, <2>2
    <3>. QED  BY <1>7, <2>2, <3>1 DEF EvictableExact
  <2>. QED  BY <2>1, <2>2
<1>. QED  BY <1>5, <1>6, <1>7 DEF EvictableExact

\* The queue stays exact when only keys that are not committed change.
LEMMA QueueUntouched ==
  ASSUME IInv, evictable' = evictable,
         \A j \in Keys : entries'[j].state = "committed" =>
            entries'[j] = entries[j] /\ (waiters'[j] = 0 <=> waiters[j] = 0),
         \A j \in Keys : entries[j].state = "committed" => entries'[j] = entries[j]
  PROVE  EvictableExact'
<1>. USE DEF IInv
<1>1. \A i \in 1..Len(evictable) : evictable[i][1] \in Keys
  BY DEF TypeOK
<1>2. \A i \in 1..Len(evictable) :
        entries'[evictable[i][1]] = Committed(evictable[i][2])
  BY <1>1 DEF EvictableExact, Committed
<1>. QED  BY <1>2 DEF EvictableExact

\* unpin_waiter() makes a committed key evictable exactly with its last pin.
LEMMA UnpinKeepsExact ==
  ASSUME IInv, NEW p \in pin, UnpinWaiter(key[p]), entries' = entries
  PROVE  EvictableExact'
<1>. USE DEF IInv
<1>1. key[p] \in Keys /\ waiters[key[p]] \in Nat \ {0}
  BY PinIsCounted
<1>2. waiters' = [waiters EXCEPT ![key[p]] = waiters[key[p]] - 1]
  BY <1>1 DEF UnpinWaiter, Decremented
<1>3. waiters'[key[p]] = waiters[key[p]] - 1
  BY <1>1, <1>2 DEF TypeOK
<1>4. \A j \in Keys \ {key[p]} : waiters'[j] = waiters[j]
  BY <1>1, <1>2 DEF TypeOK
<1>5. CASE LastPin(key[p]) /\ entries[key[p]].state = "committed"
  <2>1. \A i \in 1..Len(evictable) : evictable[i][1] # key[p]
    BY <1>1, <1>5 DEF EvictableExact
  <2>2. entries[key[p]] = Committed(entries[key[p]].token)
    BY <1>1, <1>5 DEF TypeOK, Committed
  <2>3. entries[key[p]].token \in Nat
    BY <1>1 DEF TypeOK
  <2>4. evictable' = Append(evictable, <<key[p], entries[key[p]].token>>)
    BY <1>5 DEF UnpinWaiter
  <2>5. waiters'[key[p]] = 0
    BY <1>3, <1>5 DEF LastPin
  <2>. QED
    BY <1>1, <1>4, <2>1, <2>2, <2>3, <2>4, <2>5, PushKeepsExact
<1>6. CASE ~LastPin(key[p]) \/ entries[key[p]].state # "committed"
  <2>1. evictable' = evictable
    BY <1>6 DEF UnpinWaiter
  <2>2. LastPin(key[p]) \/ waiters'[key[p]] # 0
    BY <1>1, <1>3 DEF LastPin
  <2>3. \A j \in Keys : entries[j].state = "committed" =>
          (waiters'[j] = 0 <=> waiters[j] = 0)
    BY <1>1, <1>4, <1>6, <2>2
  <2>. QED  BY <2>1, <2>3, QueueUntouched
<1>. QED  BY <1>5, <1>6

\* Popping the head of a sequence shifts the rest.
LEMMA PopShifts ==
  ASSUME NEW S, NEW s \in Seq(S), Len(s) >= 1
  PROVE  /\ Len(SubSeq(s, 2, Len(s))) = Len(s) - 1
         /\ \A i \in 1..(Len(s) - 1) : SubSeq(s, 2, Len(s))[i] = s[i + 1]
<1>1. s # <<>>
  OBVIOUS
<1>2. SubSeq(s, 2, Len(s)) = Tail(s)
  BY <1>1, TailIsSubSeq
<1>3. /\ Len(Tail(s)) = Len(s) - 1
      /\ \A i \in 1..Len(Tail(s)) : Tail(s)[i] = s[i + 1]
  BY <1>1, HeadTailProperties
<1>. QED  BY <1>2, <1>3

\* A queued key is committed.
LEMMA QueuedIsCommitted ==
  ASSUME IInv, NEW i \in 1..Len(evictable)
  PROVE  evictable[i][1] \in Keys /\ entries[evictable[i][1]].state = "committed"
<1>1. evictable[i][1] \in Keys
  BY DEF IInv, TypeOK
<1>2. entries[evictable[i][1]] = Committed(evictable[i][2])
  BY DEF IInv, EvictableExact
<1>. QED  BY <1>1, <1>2 DEF Committed

\* Popping the head of the queue removes exactly the entry it names.
LEMMA PopKeepsExact ==
  ASSUME IInv, Len(evictable) >= 1,
         Len(evictable') = Len(evictable) - 1,
         \A i \in 1..(Len(evictable) - 1) : evictable'[i] = evictable[i + 1],
         NEW k \in Keys, entries[k].state = "absent",
         entries'[k].state # "committed",
         \A j \in Keys \ {k} : entries'[j] = IF j = evictable[1][1] THEN Absent
                                              ELSE entries[j],
         \A j \in Keys \ {k} : waiters'[j] = waiters[j]
  PROVE  EvictableExact'
<1>. USE DEF IInv
<1>1. evictable \in Seq(Keys \X Nat) /\ Len(evictable) \in Nat
  BY DEF TypeOK
<1>2. \A i \in 1..Len(evictable') : evictable'[i] = evictable[i + 1]
  BY <1>1
<1>3. \A i \in 1..Len(evictable') :
        i + 1 \in 2..Len(evictable) /\ i + 1 \in 1..Len(evictable)
  BY <1>1
<1>4. \A i \in 1..Len(evictable) : evictable[i][1] \in Keys \ {k}
  BY QueuedIsCommitted
<1>5. \A i \in 2..Len(evictable) : evictable[i][1] # evictable[1][1]
  BY <1>1 DEF EvictableExact
<1>6. \A i \in 1..Len(evictable') :
        entries'[evictable'[i][1]] = Committed(evictable'[i][2])
  <2>1. TAKE i \in 1..Len(evictable')
  <2>2. i + 1 \in 1..Len(evictable) /\ evictable'[i] = evictable[i + 1]
    BY <1>2, <1>3
  <2>3. evictable[i + 1][1] \in Keys \ {k}
    BY <1>4, <2>2
  <2>4. evictable[i + 1][1] # evictable[1][1]
    BY <1>3, <1>5
  <2>5. entries'[evictable[i + 1][1]] = entries[evictable[i + 1][1]]
    BY <2>3, <2>4
  <2>6. entries[evictable[i + 1][1]] = Committed(evictable[i + 1][2])
    BY <2>2 DEF EvictableExact
  <2>. QED  BY <2>2, <2>5, <2>6
<1>7. \A i, j \in 1..Len(evictable') :
        evictable'[i][1] = evictable'[j][1] => i = j
  <2>1. TAKE i, j \in 1..Len(evictable')
  <2>2. /\ i + 1 \in 1..Len(evictable) /\ evictable'[i] = evictable[i + 1]
        /\ j + 1 \in 1..Len(evictable) /\ evictable'[j] = evictable[j + 1]
    BY <1>2, <1>3
  <2>3. evictable[i + 1][1] = evictable[j + 1][1] => i + 1 = j + 1
    BY <2>2 DEF EvictableExact
  <2>. QED  BY <1>1, <1>2, <2>2, <2>3
<1>8. ASSUME NEW j \in Keys, entries'[j].state = "committed"
      PROVE  waiters'[j] = 0 <=>
               \E i \in 1..Len(evictable') : evictable'[i][1] = j
  <2>1. j # k /\ j # evictable[1][1] /\ entries[j].state = "committed"
    BY <1>8 DEF Absent
  <2>2. waiters[j] = 0 <=> \E i \in 1..Len(evictable) : evictable[i][1] = j
    BY <2>1 DEF EvictableExact
  <2>3. ASSUME NEW i \in 1..Len(evictable), evictable[i][1] = j
        PROVE  \E m \in 1..Len(evictable') : evictable'[m][1] = j
    <3>1. i # 1
      BY <2>1, <2>3
    <3>2. i - 1 \in 1..Len(evictable') /\ (i - 1) + 1 = i
      BY <1>1, <1>2, <3>1
    <3>. QED  BY <1>2, <2>3, <3>2
  <2>4. ASSUME NEW m \in 1..Len(evictable'), evictable'[m][1] = j
        PROVE  \E i \in 1..Len(evictable) : evictable[i][1] = j
    <3>1. m + 1 \in 1..Len(evictable) /\ evictable[m + 1][1] = j
      BY <1>1, <1>2, <1>3, <2>4
    <3>. QED  BY <3>1
  <2>. QED  BY <2>1, <2>2, <2>3, <2>4
<1>. QED  BY <1>6, <1>7, <1>8 DEF EvictableExact

----------------------------------------------------------------------------
(* The steps of a claim *)

\* Ownership is as before when no entry in flight and no owner changes.
LEMMA OwnersUntouched ==
  ASSUME IInv,
         \A q \in Callers : phase'[q] = "owner" <=> phase[q] = "owner",
         \A q \in Callers : phase'[q] \in Holding =>
            phase[q] \in Holding /\ key'[q] = key[q] /\ token'[q] = token[q],
         \A q \in Callers : token'[q] <= issued,
         issued' = issued,
         \A k \in Keys : \/ entries'[k] = entries[k]
                         \/ /\ entries[k].state # "in_flight"
                            /\ entries'[k].state # "in_flight"
                            /\ entries'[k].token <= issued
  PROVE  OneOwner' /\ TokensFresh'
<1>. USE DEF IInv, Holding
<1>1. TokensFresh'
  BY DEF TokensFresh
<1>2. \A p \in Callers : phase'[p] = "owner" =>
        entries'[key'[p]] = InFlight(token'[p])
  <2>1. SUFFICES ASSUME NEW p \in Callers, phase[p] = "owner"
                 PROVE  entries'[key[p]] = InFlight(token[p])
    OBVIOUS
  <2>2. entries[key[p]] = InFlight(token[p]) /\ key[p] \in Keys
    BY <2>1 DEF OneOwner, CallShape
  <2>. QED  BY <2>2 DEF InFlight
<1>3. \A k \in Keys : entries'[k].state = "in_flight" =>
        \E p \in Callers : /\ phase'[p] = "owner"
                           /\ key'[p] = k
                           /\ token'[p] = entries'[k].token
  <2>1. SUFFICES ASSUME NEW k \in Keys, entries'[k].state = "in_flight"
                 PROVE  \E p \in Callers : /\ phase'[p] = "owner"
                                           /\ key'[p] = k
                                           /\ token'[p] = entries'[k].token
    OBVIOUS
  <2>2. entries'[k] = entries[k]
    BY <2>1
  <2>3. PICK p \in Callers : /\ phase[p] = "owner"
                             /\ key[p] = k
                             /\ token[p] = entries[k].token
    BY <2>1, <2>2 DEF OneOwner
  <2>. QED  BY <2>2, <2>3
<1>4. \A p, q \in Callers :
        phase'[p] = "owner" /\ phase'[q] = "owner" /\ key'[p] = key'[q] => p = q
  BY DEF OneOwner
<1>5. OneOwner'
  BY <1>2, <1>3, <1>4 DEF OneOwner
<1>. QED  BY <1>1, <1>5

\* A step that leaves the store alone and moves no guard, pin or owner.
LEMMA QuietStep ==
  ASSUME IInv, TypeOK', UNCHANGED <<store, token, guard, pin>>,
         \A q \in Callers : phase'[q] = "owner" <=> phase[q] = "owner",
         \A q \in Callers : phase'[q] # "idle" =>
            phase[q] # "idle" /\ key'[q] = key[q],
         \A q \in Callers : phase'[q] \in Holding => phase[q] \in Holding,
         \A q \in Callers :
            /\ q \in guard <=> phase'[q] \in {"waiting", "drop_guard"}
            /\ q \in pin => phase'[q] \in {"waiting", "drop_guard", "drop_pin"}
  PROVE  IInv'
<1>. USE DEF IInv, store
<1>1. OneOwner' /\ TokensFresh'
  BY OwnersUntouched DEF TokensFresh, Holding
<1>2. CallShape'
  BY DEF CallShape, TypeOK
<1>3. CountersMatchGuards'
  <2>1. PinsCounted'
    BY PinsKept DEF TypeOK
  <2>. QED  BY <2>1 DEF CountersMatchGuards, PinsCounted
<1>4. WithinCapacity'
  BY DEF WithinCapacity, Present
<1>5. EvictableExact'
  BY QueueUntouched
<1>. QED  BY <1>1, <1>2, <1>3, <1>4, <1>5

LEMMA ClaimDuplicateKeeps ==
  ASSUME IInv, TypeOK', NEW p \in Callers, NEW k \in Keys, ClaimDuplicate(p, k)
  PROVE  IInv'
<1>. USE DEF IInv
<1>1. phase[p] \in {"idle", "waiting"} /\ (p \in pin => key[p] = k)
  BY DEF ClaimDuplicate, Polls, CallShape
<1>2. phase' = [phase EXCEPT ![p] = "idle"] /\ key' = [key EXCEPT ![p] = NoKey]
  BY DEF ClaimDuplicate, Return
<1>3. OneOwner' /\ TokensFresh'
  BY <1>1, <1>2, OwnersUntouched DEF ClaimDuplicate, TypeOK, TokensFresh, Holding
<1>4. CallShape'
  BY <1>2 DEF ClaimDuplicate, ReturnGuard, ReturnPin, CallShape, TypeOK
<1>5. CountersMatchGuards'
  <2>1. pending_claims' = Cardinality(guard') /\ pending_claims' <= Capacity
    BY GuardReturned DEF ClaimDuplicate
  <2>2. \A q \in pin \ {p} : key'[q] = key[q]
    BY <1>2 DEF TypeOK
  <2>3. CASE p \in pin
    BY <1>1, <2>1, <2>2, <2>3, PinDropped
    DEF ClaimDuplicate, ReturnPin, UnpinWaiter, CountersMatchGuards, PinsCounted
  <2>4. CASE p \notin pin
    <3>1. pin' = pin /\ waiters' = waiters /\ \A q \in pin : key'[q] = key[q]
      BY <2>2, <2>4 DEF ClaimDuplicate, ReturnPin
    <3>. QED  BY <2>1, <3>1, PinsKept DEF CountersMatchGuards, PinsCounted
  <2>. QED  BY <2>3, <2>4
<1>6. WithinCapacity'
  BY DEF ClaimDuplicate, WithinCapacity, Present
<1>7. EvictableExact'
  <2>1. CASE p \in pin
    BY <1>1, <2>1, UnpinKeepsExact DEF ClaimDuplicate, ReturnPin
  <2>2. CASE p \notin pin
    BY <2>2, QueueUntouched DEF ClaimDuplicate, ReturnPin
  <2>. QED  BY <2>1, <2>2
<1>. QED  BY <1>3, <1>4, <1>5, <1>6, <1>7

LEMMA ClaimWaitsForOwnerKeeps ==
  ASSUME IInv, TypeOK', NEW p \in Callers, NEW k \in Keys,
         ClaimWaitsForOwner(p, k)
  PROVE  IInv'
<1>. USE DEF IInv
<1>1. phase[p] \in {"idle", "waiting"} /\ (p \in pin => key[p] = k)
  BY DEF ClaimWaitsForOwner, Polls, CallShape
<1>2. phase' = [phase EXCEPT ![p] = "waiting"] /\ key' = [key EXCEPT ![p] = k]
  BY DEF ClaimWaitsForOwner, Sleep
<1>3. OneOwner' /\ TokensFresh'
  BY <1>1, <1>2, OwnersUntouched DEF ClaimWaitsForOwner, TypeOK, TokensFresh, Holding
<1>4. CallShape'
  BY <1>2 DEF ClaimWaitsForOwner, Sleep, CallShape, TypeOK
<1>5. CountersMatchGuards'
  <2>1. pending_claims' = Cardinality(guard') /\ pending_claims' <= Capacity
    BY GuardTaken DEF ClaimWaitsForOwner
  <2>2. CASE p \in pin
    <3>1. pin' = pin /\ waiters' = waiters /\ \A q \in pin : key'[q] = key[q]
      BY <1>1, <1>2, <2>2 DEF ClaimWaitsForOwner, TypeOK
    <3>. QED  BY <2>1, <3>1, PinsKept DEF CountersMatchGuards, PinsCounted
  <2>3. CASE p \notin pin
    BY <1>2, <2>1, <2>3, PinTaken
    DEF ClaimWaitsForOwner, CountersMatchGuards, PinsCounted
  <2>. QED  BY <2>2, <2>3
<1>6. WithinCapacity'
  BY DEF ClaimWaitsForOwner, WithinCapacity, Present
<1>7. EvictableExact'
  <2>1. \A j \in Keys : entries[j].state = "committed" => waiters'[j] = waiters[j]
    BY DEF ClaimWaitsForOwner, TypeOK
  <2>. QED  BY <2>1, QueueUntouched DEF ClaimWaitsForOwner
<1>. QED  BY <1>3, <1>4, <1>5, <1>6, <1>7

LEMMA ClaimWaitsForCapacityKeeps ==
  ASSUME IInv, TypeOK', NEW p \in Callers, NEW k \in Keys,
         ClaimWaitsForCapacity(p, k)
  PROVE  IInv'
<1>. USE DEF IInv
<1>1. phase[p] \in {"idle", "waiting"} /\ (p \in pin => key[p] = k)
  BY DEF ClaimWaitsForCapacity, Polls, CallShape
<1>2. phase' = [phase EXCEPT ![p] = "waiting"] /\ key' = [key EXCEPT ![p] = k]
  BY DEF ClaimWaitsForCapacity, Sleep
<1>3. entries' = entries /\ evictable' = evictable
  BY FutileEviction DEF ClaimWaitsForCapacity
<1>4. OneOwner' /\ TokensFresh'
  BY <1>1, <1>2, <1>3, OwnersUntouched
  DEF ClaimWaitsForCapacity, TypeOK, TokensFresh, Holding
<1>5. CallShape'
  BY <1>2 DEF ClaimWaitsForCapacity, Sleep, CallShape, TypeOK
<1>6. CountersMatchGuards'
  <2>1. pending_claims' = Cardinality(guard') /\ pending_claims' <= Capacity
    BY GuardTaken DEF ClaimWaitsForCapacity
  <2>2. pin' = pin /\ waiters' = waiters /\ \A q \in pin : key'[q] = key[q]
    BY <1>1, <1>2 DEF ClaimWaitsForCapacity, TypeOK
  <2>. QED  BY <2>1, <2>2, PinsKept DEF CountersMatchGuards, PinsCounted
<1>7. WithinCapacity'
  BY <1>3 DEF WithinCapacity, Present
<1>8. EvictableExact'
  BY <1>3, QueueUntouched DEF ClaimWaitsForCapacity
<1>. QED  BY <1>4, <1>5, <1>6, <1>7, <1>8

LEMMA ClaimRefusedKeeps ==
  ASSUME IInv, TypeOK', NEW p \in Callers, NEW k \in Keys,
         ClaimOversized(p, k) \/ ClaimSaturated(p, k)
  PROVE  IInv'
<1>1. UNCHANGED <<store, token, guard, pin, phase, key>>
  <2>1. CASE ClaimOversized(p, k)
    BY <2>1 DEF ClaimOversized, store, waiting
  <2>2. CASE ClaimSaturated(p, k)
    <3>1. entries' = entries /\ evictable' = evictable
      BY <2>2, FutileEviction DEF ClaimSaturated
    <3>. QED  BY <2>2, <3>1 DEF ClaimSaturated, store, waiting
  <2>. QED  BY <2>1, <2>2
<1>. QED  BY <1>1, QuietStep DEF IInv, CallShape

LEMMA ClaimGrantedKeeps ==
  ASSUME IInv, TypeOK', NEW p \in Callers, NEW k \in Keys, ClaimGranted(p, k)
  PROVE  IInv'
<1>. USE DEF IInv
<1>1. phase[p] \in {"idle", "waiting"} /\ (p \in pin => key[p] = k)
  BY DEF ClaimGranted, Polls, CallShape
<1>2. /\ phase' = [phase EXCEPT ![p] = "owner"]
      /\ key' = [key EXCEPT ![p] = k]
      /\ token' = [token EXCEPT ![p] = issued + 1]
      /\ issued' = issued + 1
      /\ entries[k].state = "absent"
  BY DEF ClaimGranted
<1>3. PICK n \in 0..Len(evictable) :
        /\ StopsAfter(n)
        /\ RoomAfter(n)
        /\ entries' = [j \in Keys |-> IF j = k THEN InFlight(issued + 1)
                                      ELSE IF j \in Evicted(n) THEN Absent
                                      ELSE entries[j]]
        /\ evictable' = SubSeq(evictable, n + 1, Len(evictable))
  BY DEF ClaimGranted
<1>4. /\ n \in {0, 1}
      /\ n = 0 => Evicted(n) = {}
      /\ n = 1 => /\ Len(evictable) >= 1
                  /\ Evicted(n) = {evictable[1][1]}
                  /\ evictable[1][1] \in Keys
                  /\ entries[evictable[1][1]].state = "committed"
  BY <1>3, EvictsAtMostOne
<1>5. \A j \in Evicted(n) : entries[j].state = "committed"
  BY <1>4
<1>6. entries'[k] = InFlight(issued + 1)
  BY <1>3
<1>7. \A j \in Keys \ {k} : \/ entries'[j] = entries[j]
                            \/ entries[j].state = "committed" /\ entries'[j] = Absent
  BY <1>3, <1>5
<1>8. TokensFresh'
  <2>1. \A j \in Keys : entries'[j].token <= issued + 1
    <3>1. \A j \in Keys : entries[j].token <= issued /\ entries[j].token \in Nat
      BY DEF TokensFresh, TypeOK
    <3>2. issued \in Nat
      BY DEF TypeOK
    <3>3. entries'[k].token = issued + 1
      BY <1>6 DEF InFlight
    <3>4. \A j \in Keys \ {k} : \/ entries'[j] = entries[j]
                               \/ entries'[j].token = 0
      BY <1>7 DEF Absent
    <3>. QED  BY <3>1, <3>2, <3>3, <3>4
  <2>2. \A q \in Callers : token'[q] <= issued + 1
    BY <1>2 DEF TokensFresh, TypeOK
  <2>3. ASSUME NEW q \in Callers, NEW r \in Callers, phase'[q] \in Holding,
               phase'[r] \in Holding, token'[q] = token'[r]
        PROVE  q = r
    <3>1. CASE q # p /\ r # p
      BY <1>2, <2>3, <3>1 DEF TokensFresh, TypeOK
    <3>2. \A s \in Callers \ {p} : token'[s] <= issued
      BY <1>2 DEF TokensFresh, TypeOK
    <3>3. token'[p] = issued + 1 /\ issued \in Nat /\ ~(issued + 1 <= issued)
      BY <1>2 DEF TypeOK
    <3>. QED  BY <2>3, <3>1, <3>2, <3>3
  <2>. QED  BY <1>2, <2>1, <2>2, <2>3 DEF TokensFresh
<1>9. OneOwner'
  <2>1. \A q \in Callers \ {p} : /\ phase'[q] = phase[q]
                                /\ key'[q] = key[q]
                                /\ token'[q] = token[q]
    BY <1>2 DEF TypeOK
  <2>2. phase'[p] = "owner" /\ key'[p] = k /\ token'[p] = issued + 1
    BY <1>2 DEF TypeOK
  <2>3. \A q \in Callers \ {p} : phase[q] = "owner" =>
          key[q] \in Keys \ {k} /\ entries'[key[q]] = InFlight(token[q])
    <3>1. SUFFICES ASSUME NEW q \in Callers \ {p}, phase[q] = "owner"
                   PROVE  key[q] \in Keys \ {k} /\ entries'[key[q]] = InFlight(token[q])
      OBVIOUS
    <3>2. entries[key[q]] = InFlight(token[q]) /\ key[q] \in Keys
      BY <3>1 DEF OneOwner, CallShape
    <3>3. entries[key[q]].state = "in_flight"
      BY <3>2 DEF InFlight
    <3>4. key[q] # k
      BY <1>2, <3>3
    <3>. QED  BY <1>7, <3>2, <3>3, <3>4
  <2>4. \A q \in Callers : phase'[q] = "owner" =>
          entries'[key'[q]] = InFlight(token'[q])
    BY <1>6, <2>1, <2>2, <2>3
  <2>5. ASSUME NEW j \in Keys, entries'[j].state = "in_flight"
        PROVE  \E q \in Callers : /\ phase'[q] = "owner"
                                  /\ key'[q] = j
                                  /\ token'[q] = entries'[j].token
    <3>1. CASE j = k
      BY <1>6, <2>2, <3>1 DEF InFlight
    <3>2. CASE j # k
      <4>1. entries'[j] = entries[j]
        BY <1>7, <2>5, <3>2 DEF Absent
      <4>2. PICK q \in Callers : /\ phase[q] = "owner"
                                 /\ key[q] = j
                                 /\ token[q] = entries[j].token
        BY <2>5, <4>1 DEF OneOwner
      <4>3. q # p
        BY <1>1, <4>2
      <4>. QED  BY <2>1, <4>1, <4>2, <4>3
    <3>. QED  BY <3>1, <3>2
  <2>6. \A q, r \in Callers :
          phase'[q] = "owner" /\ phase'[r] = "owner" /\ key'[q] = key'[r] => q = r
    BY <2>1, <2>2, <2>3 DEF OneOwner
  <2>. QED  BY <2>4, <2>5, <2>6 DEF OneOwner
<1>10. CallShape'
  BY <1>2 DEF ClaimGranted, ReturnGuard, CallShape, TypeOK
<1>11. CountersMatchGuards'
  <2>1. pending_claims' = Cardinality(guard') /\ pending_claims' <= Capacity
    BY GuardReturned DEF ClaimGranted
  <2>2. \A q \in pin \ {p} : key'[q] = key[q]
    BY <1>2 DEF TypeOK
  <2>3. CASE p \in pin
    BY <1>1, <2>1, <2>2, <2>3, PinDropped
    DEF ClaimGranted, CountersMatchGuards, PinsCounted
  <2>4. CASE p \notin pin
    <3>1. pin' = pin /\ waiters' = waiters /\ \A q \in pin : key'[q] = key[q]
      BY <2>2, <2>4 DEF ClaimGranted
    <3>. QED  BY <2>1, <3>1, PinsKept DEF CountersMatchGuards, PinsCounted
  <2>. QED  BY <2>3, <2>4
<1>12. WithinCapacity'
  <2>1. Present' \subseteq (Present \ Evicted(n)) \cup {k}
    BY <1>3, <1>7 DEF Present, Absent
  <2>2. IsFiniteSet(Present \ Evicted(n))
    BY StoreAssumption, FS_Subset DEF Present
  <2>3. Cardinality(Present \ Evicted(n)) < Capacity
    BY <1>3 DEF RoomAfter
  <2>4. Cardinality(Present \ Evicted(n)) \in Nat
    BY <2>2, FS_CardinalityType
  <2>5. /\ IsFiniteSet((Present \ Evicted(n)) \cup {k})
        /\ Cardinality((Present \ Evicted(n)) \cup {k})
             = Cardinality(Present \ Evicted(n)) + 1
    <3>1. k \notin Present \ Evicted(n)
      BY <1>2 DEF Present
    <3>. QED  BY <2>2, <3>1, FS_AddElement
  <2>6. Cardinality(Present') <= Cardinality((Present \ Evicted(n)) \cup {k})
    BY <2>1, <2>5, FS_Subset
  <2>7. /\ Cardinality(Present') \in Nat
        /\ Cardinality((Present \ Evicted(n)) \cup {k}) \in Nat
    BY <2>1, <2>5, FS_Subset, FS_CardinalityType
  <2>. QED
    BY <2>3, <2>4, <2>5, <2>6, <2>7, StoreAssumption DEF WithinCapacity
<1>13. EvictableExact'
  <2>1. \A j \in Keys \ {k} : waiters'[j] = waiters[j]
    BY DEF ClaimGranted, TypeOK
  <2>2. CASE n = 0
    <3>1. evictable' = evictable
      BY <1>3, <2>2, SubSeqFull DEF TypeOK
    <3>2. \A j \in Keys \ {k} : entries'[j] = entries[j]
      BY <1>3, <1>4, <2>2
    <3>3. entries'[k].state # "committed" /\ entries[k].state # "committed"
      BY <1>2, <1>6 DEF InFlight
    <3>. QED  BY <2>1, <3>1, <3>2, <3>3, QueueUntouched
  <2>3. CASE n = 1
    <3>1. evictable' = SubSeq(evictable, 2, Len(evictable))
      BY <1>3, <2>3
    <3>2. /\ Len(evictable') = Len(evictable) - 1
          /\ \A i \in 1..(Len(evictable) - 1) : evictable'[i] = evictable[i + 1]
      BY <1>4, <2>3, <3>1, PopShifts DEF TypeOK
    <3>3. \A j \in Keys \ {k} : entries'[j] = IF j = evictable[1][1] THEN Absent
                                               ELSE entries[j]
      BY <1>3, <1>4, <2>3
    <3>4. entries'[k].state # "committed"
      BY <1>6 DEF InFlight
    <3>. QED
      BY <1>2, <1>4, <2>1, <2>3, <3>2, <3>3, <3>4, PopKeepsExact
  <2>. QED  BY <1>4, <2>2, <2>3
<1>. QED  BY <1>8, <1>9, <1>10, <1>11, <1>12, <1>13

\* A cancelled claim gives up its guard and then its pin.
LEMMA CancelKeeps ==
  ASSUME IInv, TypeOK', NEW p \in Callers, Cancel(p) \/ DropGuard(p) \/ DropPin(p)
  PROVE  IInv'
<1>. USE DEF IInv
<1>1. CASE Cancel(p)
  BY <1>1, QuietStep DEF Cancel, CallShape, TypeOK, Holding
<1>2. CASE DropGuard(p)
  <2>1. phase[p] = "drop_guard" /\ phase' = [phase EXCEPT ![p] = "drop_pin"]
    BY <1>2 DEF DropGuard
  <2>2. OneOwner' /\ TokensFresh'
    BY <1>2, <2>1, OwnersUntouched DEF DropGuard, TypeOK, TokensFresh, Holding
  <2>3. CallShape'
    BY <1>2, <2>1 DEF DropGuard, ReturnGuard, CallShape, TypeOK
  <2>4. CountersMatchGuards'
    <3>1. pending_claims' = Cardinality(guard') /\ pending_claims' <= Capacity
      BY <1>2, GuardReturned DEF DropGuard
    <3>2. PinsCounted'
      BY <1>2, PinsKept DEF DropGuard
    <3>. QED  BY <3>1, <3>2 DEF CountersMatchGuards, PinsCounted
  <2>5. WithinCapacity'
    BY <1>2 DEF DropGuard, WithinCapacity, Present
  <2>6. EvictableExact'
    BY <1>2, QueueUntouched DEF DropGuard
  <2>. QED  BY <2>2, <2>3, <2>4, <2>5, <2>6
<1>3. CASE DropPin(p)
  <2>1. /\ phase[p] = "drop_pin"
        /\ phase' = [phase EXCEPT ![p] = "idle"]
        /\ key' = [key EXCEPT ![p] = NoKey]
    BY <1>3 DEF DropPin, Return
  <2>2. OneOwner' /\ TokensFresh'
    BY <1>3, <2>1, OwnersUntouched DEF DropPin, TypeOK, TokensFresh, Holding
  <2>3. CallShape'
    BY <1>3, <2>1 DEF DropPin, ReturnPin, CallShape, TypeOK
  <2>4. CountersMatchGuards'
    <3>1. pending_claims' = pending_claims /\ guard' = guard
      BY <1>3 DEF DropPin
    <3>2. \A q \in pin \ {p} : key'[q] = key[q]
      BY <2>1 DEF TypeOK
    <3>3. CASE p \in pin
      BY <1>3, <3>1, <3>2, <3>3, PinDropped
      DEF DropPin, ReturnPin, UnpinWaiter, CountersMatchGuards, PinsCounted
    <3>4. CASE p \notin pin
      <4>1. pin' = pin /\ waiters' = waiters /\ \A q \in pin : key'[q] = key[q]
        BY <1>3, <3>2, <3>4 DEF DropPin, ReturnPin
      <4>. QED  BY <3>1, <4>1, PinsKept DEF CountersMatchGuards, PinsCounted
    <3>. QED  BY <3>3, <3>4
  <2>5. WithinCapacity'
    BY <1>3 DEF DropPin, WithinCapacity, Present
  <2>6. EvictableExact'
    <3>1. CASE p \in pin
      BY <1>3, <3>1, UnpinKeepsExact DEF DropPin, ReturnPin
    <3>2. CASE p \notin pin
      BY <1>3, <3>2, QueueUntouched DEF DropPin, ReturnPin
    <3>. QED  BY <3>1, <3>2
  <2>. QED  BY <2>2, <2>3, <2>4, <2>5, <2>6
<1>. QED  BY <1>1, <1>2, <1>3

----------------------------------------------------------------------------
(* The steps of a finalisation *)

\* Whoever finds its token in flight owns the entry.
LEMMA HolderOwns ==
  ASSUME IInv, NEW p \in Callers, phase[p] \in Holding,
         entries[key[p]] = InFlight(token[p])
  PROVE  phase[p] = "owner" /\ key[p] \in Keys
<1>. USE DEF IInv, Holding
<1>1. key[p] \in Keys
  BY DEF CallShape
<1>2. PICK q \in Callers : /\ phase[q] = "owner"
                           /\ key[q] = key[p]
                           /\ token[q] = token[p]
  BY <1>1 DEF OneOwner, InFlight
<1>3. p = q
  BY <1>2 DEF TokensFresh
<1>. QED  BY <1>1, <1>2, <1>3

\* Settling one entry leaves every other ownership alone.
LEMMA SettlementKeepsOwners ==
  ASSUME IInv, NEW p \in Callers, phase[p] \in Holding,
         entries[key[p]] = InFlight(token[p]),
         \A q \in Callers : phase'[q] = "owner" <=> phase[q] = "owner" /\ q # p,
         entries'[key[p]].state # "in_flight",
         \A j \in Keys \ {key[p]} : entries'[j] = entries[j],
         key' = key, token' = token
  PROVE  OneOwner'
<1>. USE DEF IInv
<1>1. phase[p] = "owner" /\ key[p] \in Keys
  BY HolderOwns
<1>2. \A q \in Callers : phase'[q] = "owner" <=> phase[q] = "owner" /\ q # p
  OBVIOUS
<1>3. \A q \in Callers : phase[q] = "owner" /\ q # p =>
        key[q] \in Keys \ {key[p]}
  BY <1>1 DEF OneOwner, CallShape
<1>4. \A q \in Callers : phase'[q] = "owner" =>
        entries'[key'[q]] = InFlight(token'[q])
  BY <1>2, <1>3 DEF OneOwner
<1>5. ASSUME NEW j \in Keys, entries'[j].state = "in_flight"
      PROVE  \E q \in Callers : /\ phase'[q] = "owner"
                                /\ key'[q] = j
                                /\ token'[q] = entries'[j].token
  <2>1. j # key[p] /\ entries'[j] = entries[j]
    BY <1>5
  <2>2. PICK q \in Callers : /\ phase[q] = "owner"
                             /\ key[q] = j
                             /\ token[q] = entries[j].token
    BY <1>5, <2>1 DEF OneOwner
  <2>. QED  BY <1>2, <2>1, <2>2
<1>6. \A q, r \in Callers :
        phase'[q] = "owner" /\ phase'[r] = "owner" /\ key'[q] = key'[r] => q = r
  BY <1>2 DEF OneOwner
<1>. QED  BY <1>4, <1>5, <1>6 DEF OneOwner

LEMMA CommitKeeps ==
  ASSUME IInv, TypeOK', NEW p \in Callers, Commit(p)
  PROVE  IInv'
<1>. USE DEF IInv
<1>1. /\ phase[p] \in {"owner", "settled"} /\ key[p] \in Keys
      /\ entries[key[p]] = InFlight(token[p])
      /\ phase' = [phase EXCEPT ![p] = "settled"]
      /\ entries' = [entries EXCEPT ![key[p]] = Committed(token[p])]
      /\ UNCHANGED <<waiters, pending_claims, issued, key, token, guard, pin>>
  BY DEF Commit, Holds, CallShape
<1>2. entries'[key[p]] = Committed(token[p])
      /\ \A j \in Keys \ {key[p]} : entries'[j] = entries[j]
  BY <1>1 DEF TypeOK
<1>3. TokensFresh'
  BY <1>1, <1>2 DEF TokensFresh, Committed, TypeOK, Holding
<1>4. OneOwner'
  <2>1. phase[p] \in Holding /\ entries'[key[p]].state # "in_flight"
    BY <1>1, <1>2 DEF Committed, Holding
  <2>2. \A q \in Callers : phase'[q] = "owner" <=> phase[q] = "owner" /\ q # p
    BY <1>1 DEF TypeOK
  <2>. QED  BY <1>1, <1>2, <2>1, <2>2, SettlementKeepsOwners
<1>5. CallShape'
  BY <1>1 DEF CallShape, TypeOK
<1>6. CountersMatchGuards'
  BY <1>1, PinsKept DEF CountersMatchGuards, PinsCounted
<1>7. WithinCapacity'
  <2>1. Present' = Present
    BY <1>1, <1>2 DEF Present, Committed, InFlight
  <2>. QED  BY <2>1 DEF WithinCapacity
<1>8. EvictableExact'
  <2>1. entries[key[p]].state # "committed"
    BY <1>1 DEF InFlight
  <2>2. \A i \in 1..Len(evictable) : evictable[i][1] # key[p]
    BY <2>1, QueuedIsCommitted
  <2>3. CASE waiters[key[p]] = 0
    <3>1. evictable' = Append(evictable, <<key[p], token[p]>>)
      BY <2>3 DEF Commit
    <3>2. token[p] \in Nat
      BY DEF TypeOK
    <3>. QED  BY <1>1, <1>2, <2>2, <2>3, <3>1, <3>2, PushKeepsExact
  <2>4. CASE waiters[key[p]] # 0
    <3>1. evictable' = evictable
      BY <2>4 DEF Commit
    <3>2. \A i \in 1..Len(evictable') :
            entries'[evictable'[i][1]] = Committed(evictable'[i][2])
      BY <1>2, <2>2, <3>1, QueuedIsCommitted DEF EvictableExact
    <3>3. \A j \in Keys : entries'[j].state = "committed" =>
            (waiters'[j] = 0 <=>
               \E i \in 1..Len(evictable') : evictable'[i][1] = j)
      BY <1>1, <1>2, <2>2, <2>4, <3>1 DEF EvictableExact
    <3>. QED  BY <3>1, <3>2, <3>3 DEF EvictableExact
  <2>. QED  BY <2>3, <2>4
<1>. QED  BY <1>3, <1>4, <1>5, <1>6, <1>7, <1>8

LEMMA ReleaseKeeps ==
  ASSUME IInv, TypeOK', NEW p \in Callers, Release(p)
  PROVE  IInv'
<1>. USE DEF IInv
<1>1. /\ phase[p] \in {"owner", "settled"} /\ key[p] \in Keys
      /\ entries[key[p]] = InFlight(token[p])
      /\ phase' = [phase EXCEPT ![p] = "signal_changed"]
      /\ entries' = [entries EXCEPT ![key[p]] = Absent]
      /\ UNCHANGED <<waiters, pending_claims, evictable, issued, key, token,
                     guard, pin>>
  BY DEF Release, Holds, CallShape, waiting
<1>2. entries'[key[p]] = Absent
      /\ \A j \in Keys \ {key[p]} : entries'[j] = entries[j]
  BY <1>1 DEF TypeOK
<1>3. TokensFresh'
  BY <1>1, <1>2 DEF TokensFresh, Absent, TypeOK, Holding
<1>4. OneOwner'
  <2>1. phase[p] \in Holding /\ entries'[key[p]].state # "in_flight"
    BY <1>1, <1>2 DEF Absent, Holding
  <2>2. \A q \in Callers : phase'[q] = "owner" <=> phase[q] = "owner" /\ q # p
    BY <1>1 DEF TypeOK
  <2>. QED  BY <1>1, <1>2, <2>1, <2>2, SettlementKeepsOwners
<1>5. CallShape'
  BY <1>1 DEF CallShape, TypeOK
<1>6. CountersMatchGuards'
  BY <1>1, PinsKept DEF CountersMatchGuards, PinsCounted
<1>7. WithinCapacity'
  <2>1. Present' \subseteq Present /\ IsFiniteSet(Present)
    BY <1>1, <1>2, StoreAssumption, FS_Subset DEF Present, Absent
  <2>2. Cardinality(Present') <= Cardinality(Present)
    BY <2>1, FS_Subset
  <2>3. Cardinality(Present) \in Nat /\ Cardinality(Present') \in Nat
    BY <2>1, FS_Subset, FS_CardinalityType
  <2>. QED  BY <2>2, <2>3, StoreAssumption DEF WithinCapacity
<1>8. EvictableExact'
  <2>1. entries[key[p]].state # "committed" /\ entries'[key[p]].state # "committed"
    BY <1>1, <1>2 DEF InFlight, Absent
  <2>. QED  BY <1>1, <1>2, <2>1, QueueUntouched
<1>. QED  BY <1>3, <1>4, <1>5, <1>6, <1>7, <1>8

LEMMA SettledKeeps ==
  ASSUME IInv, TypeOK', NEW p \in Callers,
         \/ CommitAgain(p) \/ ReleaseAgain(p)
         \/ SignalChanged(p) \/ SignalCapacity(p)
  PROVE  IInv'
<1>. USE DEF IInv
<1>1. CASE CommitAgain(p) \/ ReleaseAgain(p)
  <2>1. /\ phase[p] \in {"owner", "settled"}
        /\ phase' = [phase EXCEPT ![p] = "settled"]
        /\ UNCHANGED <<store, key, token, waiting>>
        /\ entries[key[p]] # InFlight(token[p])
    BY <1>1 DEF CommitAgain, ReleaseAgain, Refinalize, Holds, Fenced, InFlight,
                Committed, Absent
  <2>2. phase[p] = "settled"
    BY <2>1 DEF OneOwner
  <2>. QED  BY <2>1, <2>2, QuietStep DEF CallShape, TypeOK, Holding, waiting
<1>2. CASE SignalChanged(p)
  BY <1>2, QuietStep DEF SignalChanged, CallShape, TypeOK, Holding
<1>3. CASE SignalCapacity(p)
  BY <1>3, QuietStep DEF SignalCapacity, CallShape, TypeOK, Holding
<1>. QED  BY <1>1, <1>2, <1>3

LEMMA ForgetKeeps ==
  ASSUME IInv, TypeOK', NEW p \in Callers, Forget(p)
  PROVE  IInv'
<1>. USE DEF IInv
<1>1. /\ phase[p] = "settled" /\ phase' = [phase EXCEPT ![p] = "idle"]
      /\ key' = [key EXCEPT ![p] = NoKey] /\ token' = [token EXCEPT ![p] = 0]
      /\ UNCHANGED <<store, guard, pin>>
  BY DEF Forget, waiting
<1>2. OneOwner' /\ TokensFresh'
  <2>1. \A q \in Callers : token'[q] <= issued
    BY <1>1 DEF TokensFresh, TypeOK
  <2>. QED  BY <1>1, <2>1, OwnersUntouched DEF TypeOK, Holding, store
<1>3. CallShape'
  BY <1>1 DEF CallShape, TypeOK
<1>4. CountersMatchGuards'
  <2>1. \A q \in pin : key'[q] = key[q]
    BY <1>1 DEF CallShape, TypeOK
  <2>. QED
    BY <1>1, <2>1, PinsKept DEF CountersMatchGuards, PinsCounted, store
<1>5. WithinCapacity'
  BY <1>1 DEF WithinCapacity, Present, store
<1>6. EvictableExact'
  BY <1>1, QueueUntouched DEF store
<1>. QED  BY <1>2, <1>3, <1>4, <1>5, <1>6

----------------------------------------------------------------------------
(* The invariant *)

LEMMA NextKeeps == IInv /\ [Next]_vars => IInv'
<1>1. SUFFICES ASSUME IInv, [Next]_vars PROVE IInv'
  OBVIOUS
<1>2. CASE UNCHANGED vars
  <2>1. TypeOK'
    BY <1>1, <1>2 DEF vars, store, waiting, IInv, TypeOK
  <2>. QED
    BY <1>1, <1>2, <2>1, QuietStep DEF vars, store, waiting, IInv, CallShape
<1>3. CASE Next
  <2>1. PICK p \in Callers : \/ \E k \in Keys : Claim(p, k)
                             \/ Cancel(p) \/ DropGuard(p) \/ DropPin(p)
                             \/ Finalize(p)
    BY <1>3 DEF Next
  <2>2. phase[p] # "idle" => key[p] \in Keys
    BY <1>1 DEF IInv, CallShape
  <2>3. CASE \E k \in Keys : Claim(p, k)
    <3>1. PICK k \in Keys : Claim(p, k)
      BY <2>3
    <3>2. TypeOK'
      BY <1>1, <3>1, ClaimType DEF IInv
    <3>. QED
      BY <1>1, <3>1, <3>2, ClaimDuplicateKeeps, ClaimWaitsForOwnerKeeps,
         ClaimGrantedKeeps, ClaimWaitsForCapacityKeeps, ClaimRefusedKeeps
      DEF Claim
  <2>4. CASE Cancel(p) \/ DropGuard(p) \/ DropPin(p)
    <3>1. TypeOK'
      BY <1>1, <2>2, <2>4, CancelType DEF IInv
    <3>. QED  BY <1>1, <2>4, <3>1, CancelKeeps
  <2>5. CASE Finalize(p)
    <3>1. TypeOK'
      BY <1>1, <2>2, <2>5, FinalizeType DEF IInv
    <3>. QED
      BY <1>1, <2>5, <3>1, CommitKeeps, ReleaseKeeps, SettledKeeps, ForgetKeeps
      DEF Finalize
  <2>. QED  BY <2>1, <2>3, <2>4, <2>5
<1>. QED  BY <1>1, <1>2, <1>3

\* The inductive invariant holds in every reachable state of the store.
THEOREM Inductive == Spec => []IInv
BY InitIInv, NextKeeps, PTL DEF Spec

\* The store's variables keep their types.
THEOREM TypeCorrect == Spec => []TypeOK
<1>1. IInv => TypeOK
  BY DEF IInv
<1>. QED  BY <1>1, Inductive, PTL

\* The map keeps its bound, guards and pins never leak, and the eviction queue
\* is exactly the committed, unpinned entries.
THEOREM AccountingIsExact == Spec => []AccountingExact
<1>1. IInv => AccountingExact
  BY DEF IInv, AccountingExact
<1>. QED  BY <1>1, Inductive, PTL

\* At most one caller owns an event, and an in-flight entry has its owner.
THEOREM ExclusiveOwnership == Spec => []OneOwner
<1>1. IInv => OneOwner
  BY DEF IInv
<1>. QED  BY <1>1, Inductive, PTL

----------------------------------------------------------------------------
(* Action properties *)

Queued(j) == \E i \in 1..Len(evictable) : evictable[i][1] = j

\* A claim changes no entry but the absent one it takes and a queued one.
LEMMA ClaimChanges ==
  ASSUME IInv, NEW p \in Callers, NEW k \in Keys, Claim(p, k), NEW j \in Keys,
         entries'[j] # entries[j]
  PROVE  \/ entries[j].state = "absent"
         \/ entries[j].state = "committed" /\ Queued(j)
<1>1. CASE ClaimGranted(p, k)
  <2>1. PICK n \in 0..Len(evictable) :
          /\ StopsAfter(n)
          /\ entries' = [i \in Keys |-> IF i = k THEN InFlight(issued + 1)
                                        ELSE IF i \in Evicted(n) THEN Absent
                                        ELSE entries[i]]
    BY <1>1 DEF ClaimGranted
  <2>2. entries[k].state = "absent"
    BY <1>1 DEF ClaimGranted
  <2>3. ASSUME j # k
        PROVE  entries[j].state = "committed" /\ Queued(j)
    <3>1. j \in Evicted(n)
      BY <2>1, <2>3
    <3>2. /\ n \in {0, 1}
          /\ n = 0 => Evicted(n) = {}
          /\ n = 1 => /\ Len(evictable) >= 1
                      /\ Evicted(n) = {evictable[1][1]}
                      /\ entries[evictable[1][1]].state = "committed"
      BY <2>1, EvictsAtMostOne
    <3>3. /\ Len(evictable) >= 1
          /\ j = evictable[1][1]
          /\ entries[j].state = "committed"
      BY <3>1, <3>2
    <3>4. Len(evictable) \in Nat
      BY DEF IInv, TypeOK
    <3>5. 1 \in 1..Len(evictable)
      BY <3>3, <3>4
    <3>. QED  BY <3>3, <3>5 DEF Queued
  <2>. QED  BY <2>2, <2>3
<1>2. CASE ~ClaimGranted(p, k)
  <2>1. entries' = entries
    BY <1>2, FutileEviction
    DEF Claim, ClaimOversized, ClaimDuplicate, ClaimWaitsForOwner,
        ClaimWaitsForCapacity, ClaimSaturated, store
  <2>. QED  BY <2>1
<1>. QED  BY <1>1, <1>2

\* A finalisation changes no entry but the one its caller owns.
LEMMA FinalizeChanges ==
  ASSUME IInv, NEW p \in Callers, Finalize(p), NEW j \in Keys,
         entries'[j] # entries[j]
  PROVE  /\ phase[p] = "owner" /\ phase'[p] # "owner"
         /\ key[p] = j
         /\ entries[j] = InFlight(token[p])
<1>1. Commit(p) \/ Release(p)
  BY DEF Finalize, CommitAgain, ReleaseAgain, Refinalize, SignalChanged,
         SignalCapacity, Forget, store
<1>2. entries[key[p]] = InFlight(token[p]) /\ phase[p] \in Holding
  BY <1>1 DEF Commit, Release, Holds, Holding
<1>3. phase[p] = "owner"
  BY <1>2, HolderOwns
<1>4. key[p] = j
  BY <1>1 DEF Commit, Release, IInv, TypeOK
<1>5. phase'[p] # "owner"
  BY <1>1 DEF Commit, Release, IInv, TypeOK
<1>. QED  BY <1>2, <1>3, <1>4, <1>5

\* Dropping a cancelled claim changes no entry.
LEMMA CancelChanges ==
  ASSUME NEW p \in Callers, Cancel(p) \/ DropGuard(p) \/ DropPin(p)
  PROVE  entries' = entries
BY DEF Cancel, DropGuard, DropPin, store

\* Only the current holder of a claim takes its entry out of flight; a
\* finalisation by an earlier holder is fenced off by its token.
THEOREM Fencing == Spec => OnlyHolderFinalizes
<1>1. ASSUME IInv, Next, NEW j \in Keys, entries[j].state = "in_flight",
             entries'[j] # entries[j]
      PROVE  \E p \in Callers : /\ phase[p] = "owner" /\ phase'[p] # "owner"
                                /\ key[p] = j
                                /\ token[p] = entries[j].token
  <2>1. PICK p \in Callers : \/ \E k \in Keys : Claim(p, k)
                             \/ Cancel(p) \/ DropGuard(p) \/ DropPin(p)
                             \/ Finalize(p)
    BY <1>1 DEF Next
  <2>2. ~(\E k \in Keys : Claim(p, k))
    BY <1>1, ClaimChanges
  <2>3. Finalize(p)
    BY <1>1, <2>1, <2>2, CancelChanges
  <2>4. /\ phase[p] = "owner" /\ phase'[p] # "owner" /\ key[p] = j
        /\ entries[j] = InFlight(token[p])
    BY <1>1, <2>3, FinalizeChanges
  <2>. QED  BY <2>4 DEF InFlight
<1>2. IInv /\ [Next]_vars =>
        [\A k \in Keys :
           entries[k].state = "in_flight" /\ entries'[k] # entries[k] =>
             \E p \in Callers : /\ phase[p] = "owner" /\ phase'[p] # "owner"
                                /\ key[p] = k
                                /\ token[p] = entries[k].token]_vars
  BY <1>1
<1>. QED  BY <1>2, Inductive, PTL DEF Spec, OnlyHolderFinalizes

\* A committed key that a duplicate waits for is not evicted before that
\* duplicate has been answered, and is never granted to it again.
THEOREM PinnedIsKept == Spec => PinnedSurvives
<1>1. ASSUME IInv, Next, NEW p \in pin, entries[key[p]].state = "committed"
      PROVE  entries'[key[p]] = entries[key[p]] /\ phase'[p] # "owner"
  <2>1. /\ p \in Callers /\ key[p] \in Keys
        /\ phase[p] \in {"waiting", "drop_guard", "drop_pin"}
    BY <1>1 DEF IInv, TypeOK, CallShape
  <2>2. ~Queued(key[p])
    BY <1>1, <2>1, PinIsCounted DEF IInv, EvictableExact, Queued
  <2>3. PICK q \in Callers : \/ \E k \in Keys : Claim(q, k)
                             \/ Cancel(q) \/ DropGuard(q) \/ DropPin(q)
                             \/ Finalize(q)
    BY <1>1 DEF Next
  <2>4. entries'[key[p]] = entries[key[p]]
    <3>1. CASE \E k \in Keys : Claim(q, k)
      BY <1>1, <2>1, <2>2, <3>1, ClaimChanges
    <3>2. CASE Cancel(q) \/ DropGuard(q) \/ DropPin(q)
      BY <3>2, CancelChanges
    <3>3. CASE Finalize(q)
      <4>1. \A t : entries[key[p]] # InFlight(t)
        BY <1>1 DEF InFlight
      <4>. QED  BY <1>1, <2>1, <3>3, <4>1, FinalizeChanges
    <3>. QED  BY <2>3, <3>1, <3>2, <3>3
  <2>5. phase'[p] # "owner"
    <3>1. ASSUME NEW k \in Keys, Claim(q, k)
          PROVE  phase'[p] # "owner"
      <4>1. CASE ClaimGranted(q, k)
        <5>1. q # p
          BY <1>1, <2>1, <4>1 DEF ClaimGranted, Polls
        <5>2. phase' = [phase EXCEPT ![q] = "owner"]
          BY <4>1 DEF ClaimGranted
        <5>3. phase'[p] = phase[p]
          BY <2>1, <5>1, <5>2 DEF IInv, TypeOK
        <5>. QED  BY <2>1, <5>3
      <4>2. CASE ~ClaimGranted(q, k)
        BY <1>1, <2>1, <3>1, <4>2
        DEF Claim, ClaimOversized, ClaimDuplicate, ClaimWaitsForOwner,
            ClaimWaitsForCapacity, ClaimSaturated, Return, Sleep, IInv, TypeOK
      <4>. QED  BY <4>1, <4>2
    <3>2. CASE Cancel(q) \/ DropGuard(q) \/ DropPin(q)
      BY <1>1, <2>1, <3>2 DEF Cancel, DropGuard, DropPin, Return, IInv, TypeOK
    <3>3. CASE Finalize(q)
      BY <1>1, <2>1, <3>3
      DEF Finalize, Commit, CommitAgain, Release, ReleaseAgain, Refinalize,
          SignalChanged, SignalCapacity, Forget, IInv, TypeOK
    <3>. QED  BY <2>3, <3>1, <3>2, <3>3
  <2>. QED  BY <2>4, <2>5
<1>2. IInv /\ [Next]_vars =>
        [\A p \in pin :
           entries[key[p]].state = "committed" =>
             /\ entries'[key[p]] = entries[key[p]]
             /\ phase'[p] # "owner"]_vars
  BY <1>1
<1>. QED  BY <1>2, Inductive, PTL DEF Spec, PinnedSurvives

----------------------------------------------------------------------------
(* No wakeup is lost. *)

\* A sleeping claim that has not been woken yet.
Asleep(p) == phase[p] = "waiting" /\ p \notin woken

\* release() has removed an entry and not yet sent both of its signals.
Releasing == \E q \in Callers : phase[q] \in {"signal_changed", "signal_capacity"}

Full == Cardinality(Present) = Capacity /\ evictable = <<>>

\* Whoever sleeps on the channel of an owner will be woken: the owner still
\* has the entry, or has released it and is about to signal.
OwnersAwaited ==
  \A p \in Callers : Asleep(p) /\ channel[p] # CapacityChanged =>
    \/ entries[key[p]] = InFlight(channel[p])
    \/ \E q \in Callers : phase[q] = "signal_changed" /\ token[q] = channel[p]

\* Whoever sleeps until capacity changes finds none if it looks, or is about
\* to be woken.
RoomAwaited ==
  \A p \in Callers : Asleep(p) /\ channel[p] = CapacityChanged => Full \/ Releasing

\* The channel of an owner is never taken for that of the capacity.
TokensPositive ==
  \A k \in Keys : entries[k].state = "in_flight" => entries[k].token > 0

WInv == OwnersAwaited /\ RoomAwaited /\ TokensPositive

----------------------------------------------------------------------------
(* What a step has to keep *)

\* A step after which each sleeper on an owner's channel slept there before,
\* or finds its owner, keeps the owners awaited if it ends no claim and no
\* release.
LEMMA OwnersStay ==
  ASSUME IInv, OwnersAwaited,
         \A r \in Callers : (Asleep(r) /\ channel[r] # CapacityChanged)' =>
            \/ entries'[key'[r]] = InFlight(channel'[r])
            \/ Asleep(r) /\ channel'[r] = channel[r] /\ key'[r] = key[r],
         \A k \in Keys : entries[k].state = "in_flight" => entries'[k] = entries[k],
         \A q \in Callers : phase[q] = "signal_changed" =>
            phase'[q] = "signal_changed" /\ token'[q] = token[q]
  PROVE  OwnersAwaited'
<1>1. SUFFICES ASSUME NEW r \in Callers,
                      (Asleep(r) /\ channel[r] # CapacityChanged)',
                      Asleep(r), channel'[r] = channel[r], key'[r] = key[r]
               PROVE  \/ entries'[key[r]] = InFlight(channel[r])
                      \/ \E q \in Callers : phase'[q] = "signal_changed" /\ token'[q] = channel[r]
  BY DEF OwnersAwaited
<1>2. key[r] \in Keys
  BY <1>1 DEF IInv, CallShape, Asleep
<1>3. CASE entries[key[r]] = InFlight(channel[r])
  BY <1>2, <1>3 DEF InFlight
<1>4. CASE \E q \in Callers : phase[q] = "signal_changed" /\ token[q] = channel[r]
  BY <1>4
<1>. QED  BY <1>1, <1>3, <1>4 DEF OwnersAwaited, CapacityChanged

\* A step that changes neither the entries nor the queue, after which each
\* sleeper for capacity slept for it before, ends no release.
LEMMA RoomStays ==
  ASSUME RoomAwaited, entries' = entries, evictable' = evictable,
         \A r \in Callers : (Asleep(r) /\ channel[r] = CapacityChanged)' =>
            (Asleep(r) /\ channel[r] = CapacityChanged) \/ Full,
         Releasing => Releasing'
  PROVE  RoomAwaited'
<1>1. Full => Full'
  BY DEF Full, Present
<1>. QED  BY <1>1 DEF RoomAwaited

\* When the step wakes every sleeper for capacity nothing is left to show.
LEMMA AllWoken ==
  ASSUME \A r \in Callers : ~(Asleep(r) /\ channel[r] = CapacityChanged)'
  PROVE  RoomAwaited'
BY DEF RoomAwaited

----------------------------------------------------------------------------
(* claim() *)

LEMMA DuplicateWakes ==
  ASSUME IInv, WInv, NEW p \in Callers, NEW k \in Keys, ClaimDuplicate(p, k)
  PROVE  WInv'
<1>. USE DEF IInv, TypeOK, WInv
<1>1. /\ \A r \in Callers : Asleep(r)' =>
            Asleep(r) /\ channel'[r] = channel[r] /\ key'[r] = key[r]
      /\ entries' = entries /\ token' = token
      /\ \A q \in Callers : phase[q] \in {"signal_changed", "signal_capacity"} =>
            phase'[q] = phase[q]
  BY DEF ClaimDuplicate, ReturnPin, Return, Polls, Asleep
<1>2. OwnersAwaited'
  BY <1>1, OwnersStay
<1>3. RoomAwaited'
  <2>1. CASE p \in pin /\ LastPin(k)
    <3>1. woken' = (woken \cup Listeners(CapacityChanged)) \ {p}
      BY <2>1 DEF ClaimDuplicate, ReturnPin, WokenByUnpin
    <3>2. phase'[p] = "idle"
      BY DEF ClaimDuplicate, Return
    <3>3. \A r \in Callers : r # p => phase'[r] = phase[r] /\ channel'[r] = channel[r]
      BY DEF ClaimDuplicate, Return
    <3>4. \A r \in Callers : ~(Asleep(r) /\ channel[r] = CapacityChanged)'
      BY <3>1, <3>2, <3>3 DEF Asleep, Listeners
    <3>. QED  BY <3>4, AllWoken
  <2>2. CASE ~(p \in pin /\ LastPin(k))
    <3>1. evictable' = evictable
      BY <2>2 DEF ClaimDuplicate, ReturnPin, UnpinWaiter
    <3>2. Releasing => Releasing'
      BY <1>1 DEF Releasing
    <3>. QED  BY <1>1, <3>1, <3>2, RoomStays
  <2>. QED  BY <2>1, <2>2
<1>4. TokensPositive'
  BY <1>1 DEF TokensPositive
<1>. QED  BY <1>2, <1>3, <1>4

LEMMA OwnerIsAwaited ==
  ASSUME IInv, WInv, NEW p \in Callers, NEW k \in Keys, ClaimWaitsForOwner(p, k)
  PROVE  WInv'
<1>. USE DEF IInv, TypeOK, WInv
<1>1. /\ entries' = entries /\ evictable' = evictable /\ token' = token
      /\ phase' = [phase EXCEPT ![p] = "waiting"]
      /\ key' = [key EXCEPT ![p] = k]
      /\ channel' = [channel EXCEPT ![p] = entries[k].token]
      /\ woken' = woken \ {p}
      /\ phase[p] \in {"idle", "waiting"}
  BY DEF ClaimWaitsForOwner, Sleep, Polls
<1>2. entries[k] = InFlight(entries[k].token) /\ entries[k].token # CapacityChanged
  BY DEF ClaimWaitsForOwner, TokensPositive, InFlight, CapacityChanged
<1>3. \A r \in Callers : r # p =>
        /\ phase'[r] = phase[r] /\ channel'[r] = channel[r] /\ key'[r] = key[r]
        /\ Asleep(r)' => Asleep(r)
  BY <1>1 DEF Asleep
<1>4. channel'[p] = entries[k].token /\ key'[p] = k
  BY <1>1
<1>5. OwnersAwaited'
  BY <1>1, <1>2, <1>3, <1>4, OwnersStay
<1>6. RoomAwaited'
  <2>1. Releasing => Releasing'
    BY <1>1 DEF Releasing
  <2>. QED  BY <1>1, <1>2, <1>3, <1>4, <2>1, RoomStays
<1>7. TokensPositive'
  BY <1>1 DEF TokensPositive
<1>. QED  BY <1>5, <1>6, <1>7

\* Nobody is granted a claim past a sleeper: a full store without a queue has
\* no room.
LEMMA GrantWakes ==
  ASSUME IInv, WInv, NEW p \in Callers, NEW k \in Keys, ClaimGranted(p, k)
  PROVE  WInv'
<1>. USE DEF IInv, TypeOK, WInv
<1>1. PICK n \in 0..Len(evictable) :
        /\ StopsAfter(n) /\ RoomAfter(n)
        /\ entries' = [j \in Keys |-> IF j = k THEN InFlight(issued + 1)
                                      ELSE IF j \in Evicted(n) THEN Absent
                                      ELSE entries[j]]
  BY DEF ClaimGranted
<1>2. /\ phase[p] \in {"idle", "waiting"} /\ entries[k].state = "absent"
      /\ phase' = [phase EXCEPT ![p] = "owner"]
      /\ key' = [key EXCEPT ![p] = k]
      /\ token' = [token EXCEPT ![p] = issued + 1]
      /\ channel' = [channel EXCEPT ![p] = CapacityChanged]
      /\ woken \ {p} \subseteq woken'
  BY DEF ClaimGranted, Polls
<1>3. \A j \in Keys : entries[j].state = "in_flight" => entries'[j] = entries[j]
  <2>1. \A j \in Evicted(n) : entries[j].state = "committed"
    BY DEF Evicted, Committed
  <2>. QED  BY <1>1, <1>2, <2>1
<1>4. \A r \in Callers : Asleep(r)' =>
        Asleep(r) /\ channel'[r] = channel[r] /\ key'[r] = key[r]
  BY <1>2 DEF Asleep
<1>5. \A q \in Callers : phase[q] \in {"signal_changed", "signal_capacity"} =>
        phase'[q] = phase[q] /\ token'[q] = token[q]
  BY <1>2
<1>6. OwnersAwaited'
  BY <1>3, <1>4, <1>5, OwnersStay
<1>7. ~Full
  <2>1. SUFFICES ASSUME Full PROVE FALSE
    OBVIOUS
  <2>2. n = 0
    BY <2>1 DEF Full
  <2>3. Evicted(n) = {}
    BY <2>2 DEF Evicted
  <2>4. Present \ Evicted(n) = Present
    BY <2>3
  <2>5. Cardinality(Present) < Capacity
    BY <1>1, <2>4 DEF RoomAfter
  <2>. QED  BY <2>1, <2>5, StoreAssumption DEF Full
<1>8. RoomAwaited'
  <2>1. Releasing => Releasing'
    BY <1>5 DEF Releasing
  <2>. QED  BY <1>4, <1>7, <2>1 DEF RoomAwaited
<1>9. TokensPositive'
  BY <1>1 DEF TokensPositive, InFlight, Absent
<1>. QED  BY <1>6, <1>8, <1>9

LEMMA RoomIsAwaited ==
  ASSUME IInv, WInv, NEW p \in Callers, NEW k \in Keys, ClaimWaitsForCapacity(p, k)
  PROVE  WInv'
<1>. USE DEF IInv, TypeOK, WInv
<1>1. PICK n \in 0..Len(evictable) : StopsAfter(n) /\ ~RoomAfter(n) /\ Evict(n)
  BY DEF ClaimWaitsForCapacity
<1>2. entries' = entries /\ evictable' = evictable
  BY <1>1, FutileEviction
<1>3. Full
  <2>1. n = 0 /\ Len(evictable) = 0 /\ Evicted(n) = {}
    BY <1>1, EvictsAtMostOne
  <2>2. Present \ Evicted(n) = Present
    BY <2>1
  <2>3. ~(Cardinality(Present) < Capacity)
    BY <1>1, <2>2 DEF RoomAfter
  <2>4. Cardinality(Present) \in Nat
    BY StoreAssumption, FS_Subset, FS_CardinalityType DEF Present
  <2>5. evictable = <<>>
    BY <2>1
  <2>. QED  BY <2>3, <2>4, <2>5, StoreAssumption DEF Full, WithinCapacity
<1>4. /\ token' = token
      /\ phase' = [phase EXCEPT ![p] = "waiting"]
      /\ key' = [key EXCEPT ![p] = k]
      /\ channel' = [channel EXCEPT ![p] = CapacityChanged]
      /\ woken' = woken \ {p}
      /\ phase[p] \in {"idle", "waiting"}
  BY DEF ClaimWaitsForCapacity, Sleep, Polls
<1>5. \A r \in Callers : r # p =>
        /\ phase'[r] = phase[r] /\ channel'[r] = channel[r] /\ key'[r] = key[r]
        /\ Asleep(r)' => Asleep(r)
  BY <1>4 DEF Asleep
<1>6. channel'[p] = CapacityChanged
  BY <1>4 DEF CapacityChanged
<1>7. OwnersAwaited'
  BY <1>2, <1>4, <1>5, <1>6, OwnersStay
<1>8. RoomAwaited'
  <2>1. Releasing => Releasing'
    BY <1>4 DEF Releasing
  <2>. QED  BY <1>2, <1>3, <2>1, RoomStays
<1>9. TokensPositive'
  BY <1>2 DEF TokensPositive
<1>. QED  BY <1>7, <1>8, <1>9

\* A refused call leaves everything as it is.
LEMMA RefusalWakes ==
  ASSUME IInv, WInv, NEW p \in Callers, NEW k \in Keys,
         ClaimOversized(p, k) \/ ClaimSaturated(p, k)
  PROVE  WInv'
<1>. USE DEF IInv, TypeOK, WInv
<1>1. entries' = entries /\ evictable' = evictable
  BY FutileEviction DEF ClaimOversized, ClaimSaturated, store
<1>2. UNCHANGED <<phase, key, token, channel, woken>>
  BY DEF ClaimOversized, ClaimSaturated, waiting
<1>. QED
  BY <1>1, <1>2
  DEF OwnersAwaited, RoomAwaited, TokensPositive, Asleep, Full, Present, Releasing

----------------------------------------------------------------------------
(* The dropped claim *)

LEMMA CancelWakes ==
  ASSUME IInv, WInv, NEW p \in Callers, Cancel(p) \/ DropGuard(p)
  PROVE  WInv'
<1>. USE DEF IInv, TypeOK, WInv
<1>1. entries' = entries /\ evictable' = evictable /\ token' = token
  BY DEF Cancel, DropGuard, store
<1>2. /\ \A r \in Callers : Asleep(r)' =>
            Asleep(r) /\ channel'[r] = channel[r] /\ key'[r] = key[r]
      /\ \A q \in Callers : phase[q] \in {"signal_changed", "signal_capacity"} =>
            phase'[q] = phase[q]
  BY DEF Cancel, DropGuard, Asleep
<1>3. OwnersAwaited'
  BY <1>1, <1>2, OwnersStay
<1>4. RoomAwaited'
  <2>1. Releasing => Releasing'
    BY <1>2 DEF Releasing
  <2>. QED  BY <1>1, <1>2, <2>1, RoomStays
<1>5. TokensPositive'
  BY <1>1 DEF TokensPositive
<1>. QED  BY <1>3, <1>4, <1>5

LEMMA DropPinWakes ==
  ASSUME IInv, WInv, NEW p \in Callers, DropPin(p)
  PROVE  WInv'
<1>. USE DEF IInv, TypeOK, WInv
<1>1. /\ \A r \in Callers : Asleep(r)' =>
            Asleep(r) /\ channel'[r] = channel[r] /\ key'[r] = key[r]
      /\ entries' = entries /\ token' = token
      /\ \A q \in Callers : phase[q] \in {"signal_changed", "signal_capacity"} =>
            phase'[q] = phase[q]
  BY DEF DropPin, ReturnPin, Return, Asleep
<1>2. OwnersAwaited'
  BY <1>1, OwnersStay
<1>3. RoomAwaited'
  <2>1. CASE p \in pin /\ LastPin(key[p])
    <3>1. woken' = (woken \cup Listeners(CapacityChanged)) \ {p}
      BY <2>1 DEF DropPin, ReturnPin, WokenByUnpin
    <3>2. phase'[p] = "idle"
      BY DEF DropPin, Return
    <3>3. \A r \in Callers : r # p => phase'[r] = phase[r] /\ channel'[r] = channel[r]
      BY DEF DropPin, Return
    <3>4. \A r \in Callers : ~(Asleep(r) /\ channel[r] = CapacityChanged)'
      BY <3>1, <3>2, <3>3 DEF Asleep, Listeners
    <3>. QED  BY <3>4, AllWoken
  <2>2. CASE ~(p \in pin /\ LastPin(key[p]))
    <3>1. evictable' = evictable
      BY <2>2 DEF DropPin, ReturnPin, UnpinWaiter
    <3>2. Releasing => Releasing'
      BY <1>1 DEF Releasing
    <3>. QED  BY <1>1, <3>1, <3>2, RoomStays
  <2>. QED  BY <2>1, <2>2
<1>4. TokensPositive'
  BY <1>1 DEF TokensPositive
<1>. QED  BY <1>2, <1>3, <1>4

----------------------------------------------------------------------------
(* commit() and release() *)

\* A commit wakes those that wait for this owner, and everybody that waits
\* for room.
LEMMA CommitWakes ==
  ASSUME IInv, WInv, NEW p \in Callers, Commit(p)
  PROVE  WInv'
<1>. USE DEF IInv, TypeOK, WInv
<1>1. /\ entries[key[p]] = InFlight(token[p]) /\ key[p] \in Keys
      /\ entries' = [entries EXCEPT ![key[p]] = Committed(token[p])]
      /\ woken' = woken \cup Listeners(token[p]) \cup Listeners(CapacityChanged)
      /\ phase' = [phase EXCEPT ![p] = "settled"]
      /\ key' = key /\ token' = token /\ channel' = channel
      /\ phase[p] \in {"owner", "settled"}
  BY DEF Commit, Holds, CallShape
<1>2. OwnersAwaited'
  <2>1. SUFFICES ASSUME NEW r \in Callers, (Asleep(r) /\ channel[r] # CapacityChanged)'
                 PROVE  \/ entries'[key[r]] = InFlight(channel[r])
                        \/ \E q \in Callers : phase'[q] = "signal_changed" /\ token'[q] = channel[r]
    BY <1>1 DEF OwnersAwaited
  <2>2. Asleep(r) /\ channel[r] # CapacityChanged /\ channel[r] # token[p] /\ key[r] \in Keys
    BY <1>1, <2>1 DEF Asleep, Listeners, CallShape, CapacityChanged
  <2>3. CASE entries[key[r]] = InFlight(channel[r])
    <3>1. key[r] # key[p]
      BY <1>1, <2>2, <2>3 DEF InFlight
    <3>. QED  BY <1>1, <2>2, <2>3, <3>1
  <2>4. CASE \E q \in Callers : phase[q] = "signal_changed" /\ token[q] = channel[r]
    BY <1>1, <2>4
  <2>. QED  BY <2>2, <2>3, <2>4 DEF OwnersAwaited
<1>3. RoomAwaited'
  <2>1. \A r \in Callers : ~(Asleep(r) /\ channel[r] = CapacityChanged)'
    BY <1>1 DEF Asleep, Listeners
  <2>. QED  BY <2>1, AllWoken
<1>4. TokensPositive'
  BY <1>1 DEF TokensPositive, Committed
<1>. QED  BY <1>2, <1>3, <1>4

\* A release removes the entry; its signals are still to come.
LEMMA ReleaseWakes ==
  ASSUME IInv, WInv, NEW p \in Callers, Release(p)
  PROVE  WInv'
<1>. USE DEF IInv, TypeOK, WInv
<1>1. /\ entries[key[p]] = InFlight(token[p]) /\ key[p] \in Keys
      /\ entries' = [entries EXCEPT ![key[p]] = Absent]
      /\ phase' = [phase EXCEPT ![p] = "signal_changed"]
      /\ key' = key /\ token' = token /\ channel' = channel /\ woken' = woken
      /\ phase[p] \in {"owner", "settled"}
  BY DEF Release, Holds, CallShape, waiting
<1>2. phase'[p] = "signal_changed"
  BY <1>1
<1>3. OwnersAwaited'
  <2>1. SUFFICES ASSUME NEW r \in Callers, (Asleep(r) /\ channel[r] # CapacityChanged)'
                 PROVE  \/ entries'[key[r]] = InFlight(channel[r])
                        \/ \E q \in Callers : phase'[q] = "signal_changed" /\ token'[q] = channel[r]
    BY <1>1 DEF OwnersAwaited
  <2>2. Asleep(r) /\ channel[r] # CapacityChanged /\ key[r] \in Keys
    BY <1>1, <2>1 DEF Asleep, CallShape, CapacityChanged
  <2>3. CASE entries[key[r]] = InFlight(channel[r])
    <3>1. CASE key[r] = key[p]
      <4>1. token'[p] = channel[r]
        BY <1>1, <2>3, <3>1 DEF InFlight
      <4>. QED  BY <1>2, <4>1
    <3>2. CASE key[r] # key[p]
      BY <1>1, <2>2, <2>3, <3>2
    <3>. QED  BY <3>1, <3>2
  <2>4. CASE \E q \in Callers : phase[q] = "signal_changed" /\ token[q] = channel[r]
    BY <1>1, <2>4
  <2>. QED  BY <2>2, <2>3, <2>4 DEF OwnersAwaited
<1>4. RoomAwaited'
  BY <1>2 DEF RoomAwaited, Releasing
<1>5. TokensPositive'
  BY <1>1 DEF TokensPositive, Absent
<1>. QED  BY <1>3, <1>4, <1>5

\* The first signal reaches those that waited for the owner.
LEMMA SignalChangedWakes ==
  ASSUME IInv, WInv, NEW p \in Callers, SignalChanged(p)
  PROVE  WInv'
<1>. USE DEF IInv, TypeOK, WInv
<1>1. /\ phase[p] = "signal_changed"
      /\ woken' = woken \cup Listeners(token[p])
      /\ phase' = [phase EXCEPT ![p] = "signal_capacity"]
      /\ entries' = entries /\ key' = key /\ token' = token /\ channel' = channel
  BY DEF SignalChanged, store
<1>2. OwnersAwaited'
  <2>1. SUFFICES ASSUME NEW r \in Callers, (Asleep(r) /\ channel[r] # CapacityChanged)'
                 PROVE  \/ entries[key[r]] = InFlight(channel[r])
                        \/ \E q \in Callers : phase'[q] = "signal_changed" /\ token[q] = channel[r]
    BY <1>1 DEF OwnersAwaited
  <2>2. Asleep(r) /\ channel[r] # CapacityChanged /\ channel[r] # token[p]
    BY <1>1, <2>1 DEF Asleep, Listeners, CapacityChanged
  <2>3. CASE \E q \in Callers : phase[q] = "signal_changed" /\ token[q] = channel[r]
    <3>1. PICK q \in Callers : phase[q] = "signal_changed" /\ token[q] = channel[r]
      BY <2>3
    <3>2. q # p
      BY <2>2, <3>1
    <3>. QED  BY <1>1, <3>1, <3>2
  <2>. QED  BY <2>2, <2>3 DEF OwnersAwaited
<1>3. RoomAwaited'
  <2>1. phase'[p] = "signal_capacity"
    BY <1>1
  <2>. QED  BY <2>1 DEF RoomAwaited, Releasing
<1>4. TokensPositive'
  BY <1>1 DEF TokensPositive
<1>. QED  BY <1>2, <1>3, <1>4

\* The second signal reaches those that wait for room.
LEMMA SignalCapacityWakes ==
  ASSUME IInv, WInv, NEW p \in Callers, SignalCapacity(p)
  PROVE  WInv'
<1>. USE DEF IInv, TypeOK, WInv
<1>1. /\ phase[p] = "signal_capacity"
      /\ woken' = woken \cup Listeners(CapacityChanged)
      /\ phase' = [phase EXCEPT ![p] = "settled"]
      /\ entries' = entries /\ key' = key /\ token' = token /\ channel' = channel
  BY DEF SignalCapacity, store
<1>2. OwnersAwaited'
  <2>1. \A r \in Callers : Asleep(r)' => Asleep(r)
    BY <1>1 DEF Asleep
  <2>2. \A q \in Callers : phase[q] = "signal_changed" => phase'[q] = "signal_changed"
    BY <1>1
  <2>. QED  BY <1>1, <2>1, <2>2, OwnersStay
<1>3. RoomAwaited'
  <2>1. \A r \in Callers : ~(Asleep(r) /\ channel[r] = CapacityChanged)'
    BY <1>1 DEF Asleep, Listeners
  <2>. QED  BY <2>1, AllWoken
<1>4. TokensPositive'
  BY <1>1 DEF TokensPositive
<1>. QED  BY <1>2, <1>3, <1>4

\* A repeated finalisation and a forgotten claim wake nobody and change no
\* entry.
LEMMA SettledWakes ==
  ASSUME IInv, WInv, NEW p \in Callers, CommitAgain(p) \/ ReleaseAgain(p) \/ Forget(p)
  PROVE  WInv'
<1>. USE DEF IInv, TypeOK, WInv
<1>1. /\ UNCHANGED <<entries, evictable, channel, woken>>
      /\ phase[p] \in {"owner", "settled"}
      /\ \A r \in Callers : r # p => UNCHANGED <<phase[r], key[r], token[r]>>
      /\ phase'[p] \in {"settled", "idle"}
  BY DEF CommitAgain, ReleaseAgain, Forget, Refinalize, Holds, store, waiting
<1>2. \A r \in Callers : Asleep(r)' => Asleep(r) /\ key'[r] = key[r]
  BY <1>1 DEF Asleep
<1>3. \A q \in Callers : phase[q] \in {"signal_changed", "signal_capacity"} =>
        phase'[q] = phase[q] /\ token'[q] = token[q]
  BY <1>1
<1>4. OwnersAwaited'
  BY <1>1, <1>2, <1>3, OwnersStay
<1>5. RoomAwaited'
  <2>1. Releasing => Releasing'
    BY <1>3 DEF Releasing
  <2>. QED  BY <1>1, <1>2, <2>1, RoomStays
<1>6. TokensPositive'
  BY <1>1 DEF TokensPositive
<1>. QED  BY <1>4, <1>5, <1>6

----------------------------------------------------------------------------
(* The theorem *)

LEMMA InitWakes == Init => WInv
BY DEF Init, WInv, OwnersAwaited, RoomAwaited, TokensPositive, Asleep, Absent

LEMMA NextWakes == IInv /\ WInv /\ [Next]_vars => WInv'
<1>1. SUFFICES ASSUME IInv, WInv, [Next]_vars PROVE WInv'
  OBVIOUS
<1>2. CASE UNCHANGED vars
  BY <1>1, <1>2
  DEF vars, store, waiting, WInv, OwnersAwaited, RoomAwaited, TokensPositive, Asleep, Full, Present,
      Releasing
<1>3. CASE Next
  <2>1. PICK p \in Callers : \/ \E k \in Keys : Claim(p, k)
                             \/ Cancel(p) \/ DropGuard(p) \/ DropPin(p)
                             \/ Finalize(p)
    BY <1>3 DEF Next
  <2>2. CASE \E k \in Keys : Claim(p, k)
    BY <1>1, <2>2, DuplicateWakes, OwnerIsAwaited, GrantWakes, RoomIsAwaited, RefusalWakes DEF Claim
  <2>3. CASE Cancel(p) \/ DropGuard(p) \/ DropPin(p)
    BY <1>1, <2>3, CancelWakes, DropPinWakes
  <2>4. CASE Finalize(p)
    BY <1>1, <2>4, CommitWakes, ReleaseWakes, SignalChangedWakes, SignalCapacityWakes, SettledWakes
    DEF Finalize
  <2>. QED  BY <2>1, <2>2, <2>3, <2>4
<1>. QED  BY <1>1, <1>2, <1>3

\* A claim that sleeps unwoken would find nothing to do if it looked, or a
\* release is about to wake it: subscribing before sleeping, under the lock,
\* and signalling after the release lose no wakeup (claim, release).
THEOREM NoWakeupIsLost == Spec => []NoLostWakeup
<1>1. WInv => NoLostWakeup
  BY DEF WInv, OwnersAwaited, RoomAwaited, Asleep, Full, Releasing, NoLostWakeup
<1>. QED  BY <1>1, Inductive, InitWakes, NextWakes, PTL DEF Spec

----------------------------------------------------------------------------
(* The store implements DedupContract: each step of it is a step of the
   contract, or one that its callers cannot see. *)

Owners == {q \in Callers : phase[q] = "owner"}
Held == {<<p, key[p]>> : p \in Owners}
Done == {k \in Keys : entries[k].state = "committed"}
Asked == [p \in Callers |-> IF Unanswered(p) THEN key[p] ELSE NoKey]

\* What is claimed is in flight, and the contract's store is as full as the map.
LEMMA HeldIsInFlight ==
  ASSUME IInv
  PROVE  /\ {h[2] : h \in Held} = {k \in Keys : entries[k].state = "in_flight"}
         /\ {h[2] : h \in Held} \cup Done = Present
<1>1. ASSUME NEW p \in Owners
      PROVE  key[p] \in Keys /\ entries[key[p]].state = "in_flight"
  <2>1. p \in Callers /\ phase[p] = "owner"
    BY <1>1 DEF Owners
  <2>2. entries[key[p]] = InFlight(token[p]) /\ key[p] \in Keys
    BY <2>1 DEF IInv, OneOwner, CallShape
  <2>. QED  BY <2>2 DEF InFlight
<1>2. ASSUME NEW k \in Keys, entries[k].state = "in_flight"
      PROVE  \E p \in Owners : key[p] = k
  BY <1>2 DEF Owners, IInv, OneOwner
<1>3. {h[2] : h \in Held} = {k \in Keys : entries[k].state = "in_flight"}
  <2>1. ASSUME NEW h \in Held
        PROVE  h[2] \in Keys /\ entries[h[2]].state = "in_flight"
    <3>1. PICK p \in Owners : h = <<p, key[p]>>
      BY DEF Held
    <3>2. h[2] = key[p]
      BY <3>1
    <3>. QED  BY <1>1, <3>2
  <2>2. ASSUME NEW k \in Keys, entries[k].state = "in_flight"
        PROVE  \E h \in Held : h[2] = k
    <3>1. PICK p \in Owners : key[p] = k
      BY <1>2, <2>2
    <3>2. <<p, k>> \in Held /\ <<p, k>>[2] = k
      BY <3>1 DEF Held
    <3>. QED  BY <3>2
  <2>. QED  BY <2>1, <2>2
<1>4. \A k \in Keys : entries[k].state \in {"absent", "in_flight", "committed"}
  BY DEF IInv, TypeOK
<1>. QED  BY <1>3, <1>4 DEF Done, Present

\* The same callers own the same keys.
LEMMA SameHeld ==
  ASSUME \A q \in Callers : phase'[q] = "owner" <=> phase[q] = "owner",
         \A q \in Callers : phase[q] = "owner" => key'[q] = key[q]
  PROVE  Held' = Held
BY DEF Held, Owners

LEMMA SameDone ==
  ASSUME entries' = entries
  PROVE  Done' = Done
BY DEF Done

\* A caller that goes from one phase to another asks for nothing any more.
LEMMA NoLongerAsked ==
  ASSUME NEW p \in Callers, ~Unanswered(p)',
         \A q \in Callers \ {p} : phase'[q] = phase[q] /\ key'[q] = key[q]
  PROVE  Asked' = [Asked EXCEPT ![p] = NoKey]
BY DEF Asked, Unanswered

\* The same claims wait, for the same keys.
LEMMA SameAsked ==
  ASSUME \A q \in Callers : Unanswered(q)' <=> Unanswered(q),
         \A q \in Callers : Unanswered(q) => key'[q] = key[q]
  PROVE  Asked' = Asked
BY DEF Asked

\* The caller of a locked section of claim(k) asks for k, or for nothing yet.
LEMMA PollAsks ==
  ASSUME NEW p \in Callers, NEW k \in Keys, Polls(p, k)
  PROVE  Asked[p] \in {NoKey, k}
BY DEF Asked, Polls, Unanswered

\* A step that only answers, with something else than None.
LEMMA AnswerIsReply ==
  ASSUME NEW p \in Callers, NEW a \in Answers, a # "duplicate",
         Held' = Held, Done' = Done, Asked' = [Asked EXCEPT ![p] = NoKey],
         answer' = [answer EXCEPT ![p] = Plain(a)]
  PROVE  Contract!Next
<1>1. Contract!Reply(p, a)
  BY DEF Contract!Reply, Contract!Answered, Contract!Plain, Plain, Held, Owners, Done, Asked
<1>. QED  BY <1>1 DEF Contract!Next, Answers

----------------------------------------------------------------------------
(* The steps *)

LEMMA DuplicateStep ==
  ASSUME IInv, NEW p \in Callers, NEW k \in Keys, ClaimDuplicate(p, k)
  PROVE  Contract!Next
<1>1. Held' = Held
  BY SameHeld DEF ClaimDuplicate, Polls, Return, IInv, TypeOK
<1>2. Done' = Done /\ k \in Done
  BY SameDone DEF ClaimDuplicate, Done
<1>3. answer' = [answer EXCEPT ![p] = Duplicate(k)]
  BY DEF ClaimDuplicate, Return
<1>4. Asked' = [Asked EXCEPT ![p] = NoKey]
  BY NoLongerAsked DEF ClaimDuplicate, Return, Unanswered, IInv, TypeOK
<1>5. Asked[p] \in {NoKey, k}
  BY PollAsks DEF ClaimDuplicate
<1>6. Contract!Duplicate(p, k)
  BY <1>1, <1>2, <1>3, <1>4, <1>5
  DEF Contract!Duplicate, Contract!AsksFor, Contract!Answered, Duplicate, Held, Owners, Done, Asked
<1>. QED  BY <1>2, <1>6 DEF Contract!Next, Done

LEMMA WaitStep ==
  ASSUME IInv, NEW p \in Callers, NEW k \in Keys,
         ClaimWaitsForOwner(p, k) \/ ClaimWaitsForCapacity(p, k)
  PROVE  Contract!Next
<1>1. Held' = Held
  BY SameHeld DEF ClaimWaitsForOwner, ClaimWaitsForCapacity, Sleep, Polls, IInv, TypeOK
<1>2. entries' = entries
  BY FutileEviction DEF ClaimWaitsForOwner, ClaimWaitsForCapacity
<1>3. answer' = [answer EXCEPT ![p] = Plain("none")]
  BY DEF ClaimWaitsForOwner, ClaimWaitsForCapacity, Sleep
<1>4. Asked' = [Asked EXCEPT ![p] = k]
  BY DEF ClaimWaitsForOwner, ClaimWaitsForCapacity, Sleep, Asked, Unanswered, IInv, TypeOK
<1>5. Asked[p] \in {NoKey, k}
  BY PollAsks DEF ClaimWaitsForOwner, ClaimWaitsForCapacity
<1>6. Contract!Wait(p, k)
  BY <1>1, <1>2, <1>3, <1>4, <1>5, SameDone
  DEF Contract!Wait, Contract!AsksFor, Contract!Plain, Plain, Held, Owners, Done, Asked
<1>. QED  BY <1>6 DEF Contract!Next

LEMMA RefusedStep ==
  ASSUME IInv, NEW p \in Callers, NEW k \in Keys,
         ClaimOversized(p, k) \/ ClaimSaturated(p, k)
  PROVE  Contract!Next
<1>1. Held' = Held
  BY SameHeld DEF ClaimOversized, ClaimSaturated
<1>2. entries' = entries
  BY FutileEviction DEF ClaimOversized, ClaimSaturated, store
<1>3. PICK a \in {"oversized", "saturated"} : answer' = [answer EXCEPT ![p] = Plain(a)]
  BY DEF ClaimOversized, ClaimSaturated
<1>4. phase' = phase /\ key' = key /\ phase[p] = "idle"
  BY DEF ClaimOversized, ClaimSaturated, Polls, Admissible, IInv, CallShape
<1>5. Asked' = [Asked EXCEPT ![p] = NoKey]
  BY <1>4, NoLongerAsked DEF Unanswered
<1>. QED  BY <1>1, <1>2, <1>3, <1>5, SameDone, AnswerIsReply DEF Answers

\* A grant forgets a committed event only if the map was full.
LEMMA GrantStep ==
  ASSUME IInv, NEW p \in Callers, NEW k \in Keys, ClaimGranted(p, k)
  PROVE  Contract!Next
<1>1. PICK n \in 0..Len(evictable) :
        /\ StopsAfter(n) /\ RoomAfter(n)
        /\ entries' = [j \in Keys |-> IF j = k THEN InFlight(issued + 1)
                                      ELSE IF j \in Evicted(n) THEN Absent
                                      ELSE entries[j]]
  BY DEF ClaimGranted
<1>2. /\ phase[p] \in {"idle", "waiting"} /\ entries[k].state = "absent"
      /\ phase' = [phase EXCEPT ![p] = "owner"]
      /\ key' = [key EXCEPT ![p] = k]
      /\ answer' = [answer EXCEPT ![p] = Plain("none")]
  BY DEF ClaimGranted, Polls
<1>3. k \notin {h[2] : h \in Held} \cup Done
  BY <1>2, HeldIsInFlight DEF Present
<1>4. Held' = Held \cup {<<p, k>>}
  <2>1. Owners' = Owners \cup {p} /\ p \notin Owners
    BY <1>2 DEF Owners, IInv, TypeOK
  <2>2. key'[p] = k /\ \A q \in Owners : key'[q] = key[q]
    BY <1>2, <2>1 DEF IInv, TypeOK, Owners
  <2>. QED  BY <2>1, <2>2 DEF Held
<1>5. Done' = Done \ Evicted(n)
  BY <1>1, <1>2 DEF Done, InFlight, Absent
<1>6. IF Cardinality({h[2] : h \in Held} \cup Done) < Capacity
      THEN Done' = Done
      ELSE \E victim \in Done : Done' = Done \ {victim}
  <2>1. {h[2] : h \in Held} \cup Done = Present
    BY HeldIsInFlight
  <2>2. Evicted(0) = {}
    BY DEF Evicted
  <2>3. RoomAfter(0) <=> Cardinality(Present) < Capacity
    BY <2>2 DEF RoomAfter
  <2>4. CASE n = 0
    BY <1>1, <1>5, <2>1, <2>2, <2>3, <2>4
  <2>5. CASE n = 1
    <3>1. /\ Evicted(n) = {evictable[1][1]}
          /\ evictable[1][1] \in Done
      BY <1>1, <2>5, EvictsAtMostOne DEF Done
    <3>2. ~RoomAfter(0)
      BY <1>1, <2>5 DEF StopsAfter
    <3>. QED  BY <1>5, <2>1, <2>3, <3>1, <3>2
  <2>. QED  BY <1>1, <2>4, <2>5, EvictsAtMostOne
<1>7. Contract!Grant(p, k)
  <2>1. Contract!Claimed = {h[2] : h \in Held}
    BY DEF Contract!Claimed, Held, Owners
  <2>2. \A S : Contract!Cardinality(S) = Cardinality(S)
    BY DEF Contract!Cardinality, Cardinality, Contract!IsFiniteSet, IsFiniteSet
  <2>3. Asked' = [Asked EXCEPT ![p] = NoKey]
    BY <1>2, NoLongerAsked DEF Unanswered, IInv, TypeOK
  <2>4. Asked[p] \in {NoKey, k}
    BY PollAsks DEF ClaimGranted
  <2>. QED  BY <1>2, <1>3, <1>4, <1>6, <2>1, <2>2, <2>3, <2>4
       DEF Contract!Grant, Contract!AsksFor, Contract!Answered, Contract!Plain, Plain,
           Held, Owners, Done, Asked
<1>. QED  BY <1>7 DEF Contract!Next

\* The dropped future is seen only when it is gone.
LEMMA CancelStep ==
  ASSUME IInv, NEW p \in Callers, Cancel(p) \/ DropGuard(p) \/ DropPin(p)
  PROVE  Contract!Next \/ UNCHANGED <<Held, Done, Asked, answer>>
<1>1. Held' = Held
  BY SameHeld DEF Cancel, DropGuard, DropPin, Return, IInv, TypeOK
<1>2. Done' = Done
  BY SameDone, CancelChanges
<1>3. CASE Cancel(p) \/ DropGuard(p)
  <2>1. Asked' = Asked
    BY <1>3, SameAsked DEF Cancel, DropGuard, Unanswered, IInv, TypeOK
  <2>. QED  BY <1>1, <1>2, <1>3, <2>1 DEF Cancel, DropGuard
<1>4. CASE DropPin(p)
  <2>1. answer' = [answer EXCEPT ![p] = Plain("none")]
    BY <1>4 DEF DropPin, Return
  <2>2. Asked' = [Asked EXCEPT ![p] = NoKey]
    BY <1>4, NoLongerAsked DEF DropPin, Return, Unanswered, IInv, TypeOK
  <2>. QED  BY <1>1, <1>2, <2>1, <2>2, AnswerIsReply DEF Answers
<1>. QED  BY <1>3, <1>4

\* An owner that settles its claim is the only one of its key.
LEMMA OwnerLeaves ==
  ASSUME IInv, NEW p \in Callers, phase[p] = "owner",
         NEW other, other # "owner", phase' = [phase EXCEPT ![p] = other], key' = key
  PROVE  <<p, key[p]>> \in Held /\ Held' = Held \ {<<p, key[p]>>} /\ key[p] \in Keys
<1>1. Owners' = Owners \ {p} /\ p \in Owners
  BY DEF Owners, IInv, TypeOK
<1>2. key[p] \in Keys
  BY DEF IInv, CallShape
<1>. QED  BY <1>1, <1>2 DEF Held

LEMMA CommitStep ==
  ASSUME IInv, NEW p \in Callers, Commit(p)
  PROVE  Contract!Next
<1>1. phase[p] = "owner"
  BY HolderOwns DEF Commit, Holds, Holding
<1>2. <<p, key[p]>> \in Held /\ Held' = Held \ {<<p, key[p]>>} /\ key[p] \in Keys
  BY <1>1, OwnerLeaves DEF Commit
<1>3. Done' = Done \cup {key[p]}
  BY <1>2 DEF Commit, Committed, Done, IInv, TypeOK
<1>4. PICK k \in Keys : k = key[p]
  BY <1>2
<1>5. Asked' = [Asked EXCEPT ![p] = NoKey]
  BY NoLongerAsked DEF Commit, Unanswered, IInv, TypeOK
<1>6. Contract!Complete(<<p, k>>)
  BY <1>2, <1>3, <1>4, <1>5
  DEF Commit, Contract!Complete, Contract!Answered, Contract!Plain, Plain, Held, Owners, Done, Asked
<1>. QED  BY <1>2, <1>4, <1>6 DEF Contract!Next, Held, Owners

LEMMA ReleaseStep ==
  ASSUME IInv, NEW p \in Callers, Release(p)
  PROVE  Contract!Next
<1>1. phase[p] = "owner" /\ entries[key[p]] = InFlight(token[p])
  BY HolderOwns DEF Release, Holds, Holding
<1>2. <<p, key[p]>> \in Held /\ Held' = Held \ {<<p, key[p]>>} /\ key[p] \in Keys
  BY <1>1, OwnerLeaves DEF Release
<1>3. Done' = Done
  BY <1>1, <1>2 DEF Release, InFlight, Absent, Done, IInv, TypeOK
<1>4. PICK k \in Keys : k = key[p]
  BY <1>2
<1>5. Asked' = Asked
  BY <1>1, SameAsked DEF Release, Unanswered, IInv, TypeOK
<1>6. Contract!Abandon(<<p, k>>)
  BY <1>2, <1>3, <1>4, <1>5 DEF Release, Contract!Abandon, Held, Owners, Done, Asked
<1>. QED  BY <1>2, <1>4, <1>6 DEF Contract!Next, Held, Owners

\* Only a settled claim is finalised again: the entry of an owner is its own.
LEMMA AgainStep ==
  ASSUME IInv, NEW p \in Callers, CommitAgain(p) \/ ReleaseAgain(p)
  PROVE  Contract!Next
<1>1. phase[p] # "owner"
  <2>1. \/ entries[key[p]] \in {Committed(token[p]), Absent}
        \/ Fenced(p)
    BY DEF CommitAgain, ReleaseAgain
  <2>2. entries[key[p]] # InFlight(token[p])
    BY <2>1 DEF Committed, Absent, Fenced, InFlight
  <2>. QED  BY <2>2 DEF IInv, OneOwner
<1>2. PICK a \in {"ok", "unclaimed", "stale"} : Refinalize(p, a)
  BY DEF CommitAgain, ReleaseAgain
<1>3. Held' = Held
  BY <1>1, <1>2, SameHeld DEF Refinalize, IInv, TypeOK
<1>4. entries' = entries /\ answer' = [answer EXCEPT ![p] = Plain(a)]
  BY <1>2 DEF Refinalize, store
<1>5. Asked' = [Asked EXCEPT ![p] = NoKey]
  BY <1>2, NoLongerAsked DEF Refinalize, Unanswered, IInv, TypeOK
<1>. QED  BY <1>3, <1>4, <1>5, SameDone, AnswerIsReply DEF Answers

LEMMA LateStep ==
  ASSUME IInv, NEW p \in Callers, SignalChanged(p) \/ SignalCapacity(p) \/ Forget(p)
  PROVE  Contract!Next \/ UNCHANGED <<Held, Done, Asked, answer>>
<1>1. Held' = Held
  BY SameHeld DEF SignalChanged, SignalCapacity, Forget, IInv, TypeOK
<1>2. Done' = Done
  BY SameDone DEF SignalChanged, SignalCapacity, Forget, store
<1>3. CASE SignalChanged(p)
  <2>1. Asked' = Asked
    BY <1>3, SameAsked DEF SignalChanged, Unanswered, IInv, TypeOK
  <2>. QED  BY <1>1, <1>2, <1>3, <2>1 DEF SignalChanged
<1>4. CASE SignalCapacity(p) \/ Forget(p)
  <2>1. \E a \in {"ok", "none"} : answer' = [answer EXCEPT ![p] = Plain(a)]
    BY <1>4 DEF SignalCapacity, Forget
  <2>2. Asked' = [Asked EXCEPT ![p] = NoKey]
    BY <1>4, NoLongerAsked DEF SignalCapacity, Forget, Unanswered, IInv, TypeOK
  <2>. QED  BY <1>1, <1>2, <2>1, <2>2, AnswerIsReply DEF Answers
<1>. QED  BY <1>3, <1>4

----------------------------------------------------------------------------
(* The theorem *)

LEMMA InitImplements == Init => Contract!Init
<1>1. SUFFICES ASSUME Init PROVE Contract!Init
  OBVIOUS
<1>2. Held = {} /\ Done = {}
  BY <1>1 DEF Init, Held, Owners, Done, Absent
<1>3. Asked = [p \in Callers |-> NoKey]
  BY <1>1 DEF Init, Asked, Unanswered
<1>. QED  BY <1>1, <1>2, <1>3
     DEF Init, Contract!Init, Contract!Plain, Plain, Held, Owners, Done, Asked, Answers

LEMMA NextImplements == IInv /\ [Next]_vars => [Contract!Next]_(Contract!vars)
<1>1. SUFFICES ASSUME IInv, [Next]_vars
               PROVE  Contract!Next \/ UNCHANGED <<Held, Done, Asked, answer>>
  BY DEF Contract!vars, Held, Owners, Done, Asked
<1>2. CASE UNCHANGED vars
  BY <1>2 DEF vars, store, waiting, Held, Owners, Done, Asked, Unanswered
<1>3. CASE Next
  <2>1. PICK p \in Callers : \/ \E k \in Keys : Claim(p, k)
                             \/ Cancel(p) \/ DropGuard(p) \/ DropPin(p)
                             \/ Finalize(p)
    BY <1>3 DEF Next
  <2>2. CASE \E k \in Keys : Claim(p, k)
    BY <1>1, <2>2, DuplicateStep, WaitStep, RefusedStep, GrantStep DEF Claim
  <2>3. CASE Cancel(p) \/ DropGuard(p) \/ DropPin(p)
    BY <1>1, <2>3, CancelStep
  <2>4. CASE Finalize(p)
    BY <1>1, <2>4, CommitStep, ReleaseStep, AgainStep, LateStep DEF Finalize
  <2>. QED  BY <2>1, <2>2, <2>3, <2>4
<1>. QED  BY <1>1, <1>2, <1>3

\* Tokens, pins, signals and the eviction queue of the store amount to the
\* ownership that the trait DedupStore promises.
THEOREM StoreImplementsContract == Spec => ImplementsContract
<1>. QED
  BY InitImplements, NextImplements, Inductive, PTL DEF Spec, ImplementsContract, Contract!Spec
=============================================================================

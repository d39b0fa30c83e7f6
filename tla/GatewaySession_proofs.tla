----------------------- MODULE GatewaySession_proofs -----------------------
(***************************************************************************)
(* Proofs about the gateway session, for any limits: a Resume neither      *)
(* skips nor repeats an event.                                             *)
(***************************************************************************)
EXTENDS GatewaySession, FiniteSetTheorems, SequenceTheorems, WellFoundedInduction, TLAPS

----------------------------------------------------------------------------
(* The inductive invariant *)

\* The adapter knows the current session or none; every identifier drawn
\* belongs to a delivery of a session that was.
Bookkeeping ==
  /\ Len(origin) = next_delivery_id
  /\ session_id \in {None, session}
  /\ session_id = None => last_committed = None /\ pending = <<>>
  /\ session_id # None => last_committed # None
  /\ \A d \in 1..Len(origin) : origin[d][1] \in 1..session

\* READY is the first dispatch of a session, and only a live session is read.
LogMatches ==
  /\ \A i \in 1..Len(log) : log[i] = "ready" <=> i = 1
  /\ connection = "up" => Live
  /\ log # <<>> => session # 0

\* The window of the pending dispatches.
Contiguous ==
  /\ \A i \in 1..Len(pending) : pending[i].seq = last_committed + i
  /\ last_received = last_committed + Len(pending)
  /\ pending # <<>> => ~pending[1].completed

\* A connection sends nothing beyond the next dispatch to be received.
CursorMatches ==
  /\ connection = "up" => cursor <= last_received
  /\ connection = "up" => (cursor = 0 <=> session_id = None)
  /\ Live => last_received <= Len(log)

\* A pending dispatch is one of the log; an event waits for its own delivery.
ItemMatches(item, id, log_, origin_, handled_, last_id) ==
  /\ item.delivery_id <= last_id
  /\ item.delivery_id = None => item.completed
  /\ item.delivery_id # None =>
       /\ origin_[item.delivery_id] = <<id, item.seq>>
       /\ item.completed <=> item.delivery_id \in handled_
  /\ log_ # <<>> => (log_[item.seq] = "event" <=> item.delivery_id # None)

PendingMatches ==
  \A i \in 1..Len(pending) :
    ItemMatches(pending[i], session_id, log, origin, handled, next_delivery_id)

\* The Runtime has taken no event of this session after the dispatch s.
TakenUpTo(s) == \A d \in taken : origin[d][1] = session => origin[d][2] <= s

\* The dispatch to be undone is the last one, and was not taken.
RollbackLast ==
  rollback # None =>
    /\ connection = "up"
    /\ rollback = last_received
    /\ pending # <<>>
    /\ pending[Len(pending)].delivery_id \notin taken
    /\ pending[Len(pending)].delivery_id # None
    /\ TakenUpTo(rollback - 1)

IInv ==
  /\ TypeOK
  /\ Bookkeeping
  /\ LogMatches
  /\ Contiguous
  /\ CursorMatches
  /\ PendingMatches
  /\ Live => TakenUpTo(last_received)
  /\ RollbackLast
  /\ ResumeLosesNothing
  /\ SubmittedOnce

----------------------------------------------------------------------------
(* Sequences of dispatches *)

\* A set of natural numbers that is not empty has a least member.
LEMMA LeastNumber ==
  ASSUME NEW S, S \subseteq Nat, S # {}
  PROVE  \E m \in S : \A k \in S : m <= k
<1>1. IsWellFoundedOn(OpToRel(<, Nat), Nat)
  BY NatLessThanWellFounded, Zenon
<1>2. IsWellFoundedOn({p \in Nat \X Nat : p[1] < p[2]}, Nat)
  BY <1>1 DEF OpToRel
<1>3. PICK m \in S : \A k \in S : ~ (<<k, m>> \in {p \in Nat \X Nat : p[1] < p[2]})
  BY <1>2, WFMin
<1>4. \A k \in S : ~(k < m)
  BY <1>3
<1>. QED  BY <1>4

LEMMA CompletedPrefix ==
  ASSUME NEW items \in Seq(Dispatches)
  PROVE  /\ Completed(items) \in 0..Len(items)
         /\ \A i \in 1..Completed(items) : items[i].completed
         /\ Completed(items) = Len(items) \/ ~items[Completed(items) + 1].completed
<1>. DEFINE Good(n) == /\ \A i \in 1..n : items[i].completed
                       /\ n = Len(items) \/ ~items[n + 1].completed
            Open == {i \in 1..Len(items) : ~items[i].completed}
<1>1. \E n \in 0..Len(items) : Good(n)
  <2>1. CASE Open = {}
    <3>1. Len(items) \in 0..Len(items) /\ Good(Len(items))
      BY <2>1
    <3>. QED  BY <3>1
  <2>2. CASE Open # {}
    <3>1. PICK m \in Open : \A k \in Open : m <= k
      <4>1. Open \subseteq Nat
        OBVIOUS
      <4>. QED  BY <2>2, <4>1, LeastNumber
    <3>2. m - 1 \in 0..Len(items) /\ Good(m - 1)
      BY <3>1
    <3>. QED  BY <3>2
  <2>. QED  BY <2>1, <2>2
<1>. QED  BY <1>1 DEF Completed

\* What advance_committed() leaves of the items that follow the dispatch c.
LEMMA AdvanceDrops ==
  ASSUME last_committed \in Nat, NEW items \in Seq(Dispatches),
         \A i \in 1..Len(items) : items[i].seq = last_committed + i,
         Advance(items)
  PROVE  \E n \in 0..Len(items) :
           /\ \A i \in 1..n : items[i].completed
           /\ last_committed' = last_committed + n
           /\ pending' \in Seq(Dispatches)
           /\ Len(pending') = Len(items) - n
           /\ \A i \in 1..Len(pending') : pending'[i] = items[n + i]
           /\ pending' # <<>> => ~pending'[1].completed
<1>. DEFINE n == Completed(items)
<1>1. /\ n \in 0..Len(items) /\ \A i \in 1..n : items[i].completed
      /\ n = Len(items) \/ ~items[n + 1].completed
  BY CompletedPrefix
<1>2. pending' = SubSeq(items, n + 1, Len(items))
  BY DEF Advance
<1>3. last_committed' = last_committed + n
  BY <1>1 DEF Advance
<1>4. /\ pending' \in Seq(Dispatches) /\ Len(pending') = Len(items) - n
      /\ \A i \in 1..Len(pending') : pending'[i] = items[n + i]
  BY <1>1, <1>2
<1>5. pending' # <<>> => ~pending'[1].completed
  <2>1. ASSUME pending' # <<>> PROVE 1 \in 1..Len(pending') /\ n # Len(items)
    BY <1>1, <1>4, <2>1
  <2>. QED  BY <1>1, <1>4, <2>1
<1>. QED  BY <1>1, <1>3, <1>4, <1>5

LEMMA DropsLast ==
  ASSUME NEW S, NEW s \in Seq(S), s # <<>>
  PROVE  /\ SubSeq(s, 1, Len(s) - 1) \in Seq(S)
         /\ Len(SubSeq(s, 1, Len(s) - 1)) = Len(s) - 1
         /\ \A i \in 1..(Len(s) - 1) : SubSeq(s, 1, Len(s) - 1)[i] = s[i]
<1>1. Len(s) - 1 \in Nat
  OBVIOUS
<1>2. SubSeq(s, 1, Len(s) - 1) = [i \in 1..(Len(s) - 1) |-> s[i]]
  BY <1>1
<1>3. [i \in 1..(Len(s) - 1) |-> s[i]] \in [1..(Len(s) - 1) -> S]
  BY <1>1
<1>4. /\ [i \in 1..(Len(s) - 1) |-> s[i]] \in Seq(S)
      /\ Len([i \in 1..(Len(s) - 1) |-> s[i]]) = Len(s) - 1
  <2>1. \A f \in [1..(Len(s) - 1) -> S] : f \in Seq(S) /\ Len(f) = Len(s) - 1
    BY <1>1
  <2>. QED  BY <1>3, <2>1, Zenon
<1>. QED  BY <1>2, <1>4

LEMMA CardinalityUpTo ==
  ASSUME NEW n \in Nat
  PROVE  Cardinality(1..n) = n
<1>1. Cardinality(1..n) = IF 1 > n THEN 0 ELSE n - 1 + 1
  <2>1. 1 \in Int /\ n \in Int
    OBVIOUS
  <2>. QED  BY <2>1, FS_Interval
<1>. QED  BY <1>1

\* retain() drops the last of a run of consecutive numbers.
LEMMA RetainDropsLast ==
  ASSUME NEW c \in Nat, NEW items \in Seq(Dispatches), items # <<>>,
         \A i \in 1..Len(items) : items[i].seq = c + i
  PROVE  Retain(items, c + Len(items)) = SubSeq(items, 1, Len(items) - 1)
<1>. DEFINE n == Len(items) - 1
            kept == {i \in 1..Len(items) : items[i].seq # c + Len(items)}
            nth(i) == CHOOSE k \in kept : Cardinality({j \in kept : j <= k}) = i
<1>1. n \in Nat /\ kept = 1..n
  OBVIOUS
<1>2. Cardinality(kept) = n
  BY <1>1, CardinalityUpTo, Zenon
<1>3. ASSUME NEW i \in 1..n
      PROVE  nth(i) = i
  <2>1. \A k \in kept : Cardinality({j \in kept : j <= k}) = k
    <3>1. ASSUME NEW k \in kept PROVE Cardinality({j \in kept : j <= k}) = k
      <4>1. {j \in kept : j <= k} = 1..k /\ k \in Nat
        BY <1>1
      <4>. QED  BY <4>1, CardinalityUpTo, Zenon
    <3>. QED  BY <3>1
  <2>2. i \in kept
    BY <1>1
  <2>. QED  BY <2>1, <2>2
<1>4. Retain(items, c + Len(items)) = [i \in 1..n |-> items[nth(i)]]
  BY <1>2 DEF Retain
<1>5. \A i \in 1..n : items[nth(i)] = items[i]
  BY <1>3
<1>6. SubSeq(items, 1, n) = [i \in 1..n |-> items[i]]
  BY <1>1
<1>. HIDE DEF nth
<1>. QED  BY <1>4, <1>5, <1>6

----------------------------------------------------------------------------
(* The window advances *)

\* The items that follow last_committed, with those in front that are complete
\* let go of, keep the invariant if they match the log and the deliveries.
LEMMA AdvanceKeeps ==
  ASSUME last_committed \in Nat, NEW items \in Seq(Dispatches),
         \A i \in 1..Len(items) : items[i].seq = last_committed + i,
         Advance(items),
         last_received' = last_committed + Len(items),
         \A i \in 1..Len(items) :
           ItemMatches(items[i], session_id', log', origin', handled', next_delivery_id'),
         Live' => last_committed + Len(items) <= Len(log'),
         session_id' = session' /\ Live' =>
           \A s \in 1..last_committed :
             log'[s] = "event" => \E d \in handled' : origin'[d] = <<session', s>>,
         log' # <<>> => Len(log') \in Nat
  PROVE  /\ pending' \in Seq(Dispatches)
         /\ last_committed' \in Nat /\ last_committed <= last_committed'
         /\ last_committed' <= last_committed + Len(items)
         /\ Contiguous' /\ PendingMatches' /\ ResumeLosesNothing'
         /\ items # <<>> /\ ~items[Len(items)].completed =>
              pending' # <<>> /\ pending'[Len(pending')] = items[Len(items)]
<1>1. PICK n \in 0..Len(items) :
         /\ \A i \in 1..n : items[i].completed
         /\ last_committed' = last_committed + n
         /\ pending' \in Seq(Dispatches)
         /\ Len(pending') = Len(items) - n
         /\ \A i \in 1..Len(pending') : pending'[i] = items[n + i]
         /\ pending' # <<>> => ~pending'[1].completed
  BY AdvanceDrops
<1>2. \A i \in 1..Len(pending') : n + i \in 1..Len(items) /\ pending'[i] = items[n + i]
  <2>1. n \in Int /\ Len(items) \in Nat /\ Len(pending') = Len(items) - n
    BY <1>1
  <2>2. \A i \in 1..Len(pending') : n + i \in 1..Len(items)
    BY <1>1, <2>1
  <2>. QED  BY <1>1, <2>2
<1>3. Contiguous'
  <2>1. ASSUME NEW i \in 1..Len(pending')
        PROVE  pending'[i].seq = last_committed' + i
    <3>1. items[n + i].seq = last_committed + (n + i) /\ pending'[i] = items[n + i]
      BY <1>2
    <3>2. n \in Int /\ i \in Int /\ last_committed' = last_committed + n
      BY <1>1
    <3>. QED  BY <3>1, <3>2
  <2>2. last_received' = last_committed' + Len(pending')
    <3>1. /\ n \in Int /\ Len(items) \in Nat /\ Len(pending') = Len(items) - n
          /\ last_committed' = last_committed + n
      BY <1>1
    <3>. QED  BY <3>1
  <2>. QED  BY <1>1, <2>1, <2>2 DEF Contiguous
<1>4. PendingMatches'
  BY <1>2 DEF PendingMatches
<1>5. ResumeLosesNothing'
  <2>. SUFFICES ASSUME session_id' = session', Live', NEW s \in 1..last_committed'
                PROVE  s <= Len(log') /\ (log'[s] = "event" => Handled(s)')
    BY DEF ResumeLosesNothing
  <2>1. s <= Len(log')
    BY <1>1 DEF Live
  <2>2. CASE s <= last_committed
    <3>1. s \in 1..last_committed
      BY <1>1, <2>2
    <3>. QED  BY <2>1, <3>1 DEF Handled
  <2>3. CASE s > last_committed
    <3>0. /\ n \in Int /\ n <= Len(items) /\ Len(items) \in Nat
          /\ last_committed' = last_committed + n
          /\ s \in Int /\ s <= last_committed'
      BY <1>1
    <3>4. s - last_committed \in 1..n /\ s - last_committed \in 1..Len(items)
      BY <2>3, <3>0
    <3>5. items[s - last_committed].seq = last_committed + (s - last_committed)
      BY <3>4
    <3>1. /\ s - last_committed \in 1..n /\ s - last_committed \in 1..Len(items)
          /\ items[s - last_committed].seq = s
      BY <3>0, <3>4, <3>5
    <3>2. items[s - last_committed].completed
      BY <1>1, <3>1
    <3>3. ItemMatches(items[s - last_committed], session_id', log', origin', handled', next_delivery_id')
      BY <3>1
    <3>. QED  BY <2>1, <3>1, <3>2, <3>3 DEF ItemMatches, Handled, Live
  <2>. QED  BY <1>1, <2>2, <2>3
<1>6. ASSUME items # <<>>, ~items[Len(items)].completed
      PROVE  pending' # <<>> /\ pending'[Len(pending')] = items[Len(items)]
  <2>1. Len(items) \in 1..Len(items)
    BY <1>6
  <2>2. n < Len(items)
    BY <1>1, <1>6, <2>1
  <2>. QED  BY <1>1, <2>1, <2>2, SMTT(60)
<1>. QED  BY <1>1, <1>3, <1>4, <1>5, <1>6

\* The next dispatch to come is neither a duplicate nor out of sequence when it
\* follows the last one received, and a duplicate otherwise.
LEMMA NextInSequence ==
  ASSUME IInv, connection = "up"
  PROVE  /\ IsDuplicate(Next1) <=> Next1 <= last_received
         /\ ~IsDuplicate(Next1) => Next1 = last_received + 1 /\ ~Decreases(Next1)
<1>1. /\ cursor \in Nat /\ last_received \in Nat /\ last_committed \in Nat
      /\ Len(pending) \in Nat /\ cursor <= last_received
      /\ last_received = last_committed + Len(pending)
      /\ \A i \in 1..Len(pending) : pending[i].seq = last_committed + i
  BY DEF IInv, TypeOK, Contiguous, CursorMatches
<1>2. ASSUME Next1 <= last_received, Next1 > last_committed
      PROVE  \E i \in 1..Len(pending) : pending[i].seq = Next1
  <2>1. Next1 - last_committed \in 1..Len(pending)
    BY <1>1, <1>2 DEF Next1
  <2>. QED  BY <1>1, <2>1 DEF Next1
<1>. QED  BY <1>1, <1>2 DEF IsDuplicate, Decreases, Next1

\* A dispatch that is recorded joins the window.
LEMMA RecordKeeps ==
  ASSUME IInv, connection = "up", last_received + 1 <= Len(log),
         NEW id \in Nat, Record(last_received + 1, id),
         log' = log, session' = session, handled' = handled,
         session_id' = session, session_id \in {None, session},
         Len(origin) <= Len(origin'), \A d \in 1..Len(origin) : origin'[d] = origin[d],
         next_delivery_id' >= next_delivery_id, next_delivery_id' \in Nat,
         id <= next_delivery_id',
         id # None <=> log[last_received + 1] = "event",
         id # None => id \notin handled /\ origin'[id] = <<session, last_received + 1>>
  PROVE  /\ pending' \in Seq(Dispatches)
         /\ last_received' = last_received + 1
         /\ last_committed' \in Nat /\ last_committed' <= last_received + 1
         /\ last_committed <= last_committed'
         /\ Contiguous' /\ PendingMatches' /\ ResumeLosesNothing'
         /\ id # None =>
              pending' # <<>> /\ pending'[Len(pending')].delivery_id = id
<1>. DEFINE new == Dispatch(last_received + 1, id)
            items == Append(pending, new)
<1>1. /\ last_committed \in Nat /\ last_received \in Nat /\ pending \in Seq(Dispatches)
      /\ log \in Seq({"ready", "event", "plain"})
      /\ last_received = last_committed + Len(pending)
      /\ \A i \in 1..Len(pending) : pending[i].seq = last_committed + i
  BY DEF IInv, TypeOK, Contiguous
<1>2. new \in Dispatches /\ new.seq = last_received + 1 /\ new.delivery_id = id
      /\ new.completed = (id = None)
  BY <1>1 DEF Dispatch, Dispatches
<1>3. /\ items \in Seq(Dispatches) /\ Len(items) = Len(pending) + 1
      /\ items[Len(items)] = new
      /\ \A i \in 1..Len(pending) : items[i] = pending[i]
      /\ \A i \in 1..Len(items) : i \in 1..Len(pending) \/ i = Len(items)
  BY <1>1, <1>2
<1>4. ASSUME NEW i \in 1..Len(items)
      PROVE  items[i].seq = last_committed + i
  <2>1. CASE i \in 1..Len(pending)
    BY <1>1, <1>3, <2>1
  <2>2. CASE i = Len(items)
    <3>1. items[i].seq = last_received + 1 /\ i = Len(pending) + 1 /\ Len(pending) \in Nat
      BY <1>1, <1>2, <1>3, <2>2
    <3>. QED  BY <1>1, <3>1
  <2>. QED  BY <1>3, <2>1, <2>2
<1>5. ASSUME NEW i \in 1..Len(items)
      PROVE  ItemMatches(items[i], session_id', log', origin', handled', next_delivery_id')
  <2>1. CASE i \in 1..Len(pending)
    <3>1. ItemMatches(pending[i], session_id, log, origin, handled, next_delivery_id)
      BY <2>1 DEF IInv, PendingMatches
    <3>2. session_id = session
      BY <2>1 DEF IInv, Bookkeeping
    <3>3. pending[i] \in Dispatches /\ Len(origin) = next_delivery_id /\ next_delivery_id \in Nat
      BY <1>1, <2>1 DEF IInv, Bookkeeping, TypeOK
    <3>4. pending[i].delivery_id \in Nat
      BY <3>3 DEF Dispatches
    <3>. QED  BY <1>3, <2>1, <3>1, <3>2, <3>3, <3>4 DEF ItemMatches, None
  <2>2. CASE i = Len(items)
    BY <1>2, <1>3, <2>2 DEF ItemMatches
  <2>. QED  BY <1>3, <2>1, <2>2
<1>6. /\ Advance(items) /\ last_received' = last_committed + Len(items)
  BY <1>1, <1>3 DEF Record
<1>7. Live /\ \A s \in 1..last_committed :
         log[s] = "event" => \E d \in handled : origin'[d] = <<session, s>>
  <2>1. Live
    BY DEF IInv, LogMatches
  <2>2. CASE session_id = session
    BY <2>1, <2>2 DEF IInv, TypeOK, Bookkeeping, ResumeLosesNothing, Handled
  <2>3. CASE session_id = None
    BY <2>1, <2>3 DEF IInv, Bookkeeping, None
  <2>. QED  BY <2>1, <2>2, <2>3
<1>8. /\ Live' => last_committed + Len(items) <= Len(log')
      /\ session_id' = session' /\ Live' =>
           \A s \in 1..last_committed :
             log'[s] = "event" => \E d \in handled' : origin'[d] = <<session', s>>
      /\ log' # <<>> => Len(log') \in Nat
  <2>1. last_committed + Len(items) = last_received + 1 /\ Len(log) \in Nat
    BY <1>1, <1>3
  <2>. HIDE DEF items, new
  <2>. QED  BY <1>7, <2>1
<1>. HIDE DEF items, new
<1>9. /\ pending' \in Seq(Dispatches)
      /\ last_committed' \in Nat /\ last_committed' <= last_committed + Len(items)
      /\ last_committed <= last_committed'
      /\ Contiguous' /\ PendingMatches' /\ ResumeLosesNothing'
      /\ items # <<>> /\ ~items[Len(items)].completed =>
           pending' # <<>> /\ pending'[Len(pending')] = items[Len(items)]
  BY <1>1, <1>3, <1>4, <1>5, <1>6, <1>8, AdvanceKeeps
<1>10. items # <<>> /\ last_committed + Len(items) = last_received + 1
  BY <1>1, <1>3
<1>. QED  BY <1>2, <1>3, <1>6, <1>9, <1>10

----------------------------------------------------------------------------
(* The gateway and the connection *)

LEMMA EmitKeeps ==
  ASSUME IInv, Emit
  PROVE  IInv'
<1>. USE DEF IInv
<1>1. PICK kind \in {"event", "plain"} : log' = Append(log, kind)
  BY DEF Emit
<1>2. /\ Live /\ UNCHANGED <<session, connection, cursor, state, rollback, outcomes>>
      /\ log \in Seq({"ready", "event", "plain"}) /\ Len(log) \in Nat /\ log # <<>>
  BY DEF Emit, Live, TypeOK
<1>3. /\ log' \in Seq({"ready", "event", "plain"}) /\ Len(log') = Len(log) + 1
      /\ \A i \in 1..Len(log) : log'[i] = log[i]
      /\ log'[Len(log) + 1] = kind /\ log' # <<>> /\ Len(log) >= 1
  BY <1>1, <1>2
<1>4. TypeOK'
  BY <1>2, <1>3 DEF TypeOK, state, outcomes
<1>5. LogMatches'
  <2>1. ASSUME NEW i \in 1..Len(log')
        PROVE  log'[i] = "ready" <=> i = 1
    <3>1. CASE i \in 1..Len(log)
      BY <1>3, <3>1 DEF LogMatches
    <3>2. CASE i \notin 1..Len(log)
      <4>1. i = Len(log) + 1 /\ i # 1
        BY <1>2, <1>3, <3>2
      <4>. QED  BY <1>3, <4>1
    <3>. QED  BY <3>1, <3>2
  <2>. QED  BY <1>2, <1>3, <2>1 DEF LogMatches, Live
<1>6. last_received <= Len(log) /\ Len(pending) \in Nat /\ last_committed \in Nat
      /\ last_received = last_committed + Len(pending)
  BY <1>2 DEF CursorMatches, TypeOK, Contiguous
<1>7. PendingMatches'
  <2>1. ASSUME NEW i \in 1..Len(pending)
        PROVE  pending[i].seq \in 1..Len(log)
    <3>1. pending[i].seq = last_committed + i
      BY DEF Contiguous
    <3>. QED  BY <1>2, <1>6, <3>1
  <2>. QED  BY <1>2, <1>3, <2>1 DEF PendingMatches, ItemMatches, state, outcomes
<1>8. ResumeLosesNothing'
  <2>1. \A s \in 1..last_committed : s \in 1..Len(log)
    BY <1>2, <1>6
  <2>. SUFFICES ASSUME session_id = session, NEW s \in 1..last_committed
                PROVE  s <= Len(log') /\ (log'[s] = "event" => Handled(s)')
    BY <1>2 DEF ResumeLosesNothing, state
  <2>2. s \in 1..Len(log) /\ log'[s] = log[s] /\ s <= Len(log')
    BY <1>2, <1>3, <2>1
  <2>3. log[s] = "event" => Handled(s)
    BY <1>2 DEF ResumeLosesNothing
  <2>. QED  BY <1>2, <2>2, <2>3 DEF Handled, outcomes
<1>9. CursorMatches'
  BY <1>2, <1>3, <1>6 DEF CursorMatches, state
<1>10. Bookkeeping' /\ Contiguous' /\ RollbackLast' /\ SubmittedOnce' /\ (Live => TakenUpTo(last_received))'
  BY <1>2 DEF Bookkeeping, Contiguous, RollbackLast, SubmittedOnce, TakenUpTo, state, outcomes
<1>. QED  BY <1>4, <1>5, <1>7, <1>8, <1>9, <1>10

\* The steps after which no connection reads the session.
LEMMA DownKeeps ==
  ASSUME IInv, rollback = None, UNCHANGED <<session, cursor, rollback, outcomes>>,
         connection' \in {"down", "stopped"},
         log' = log \/ log' = <<>>,
         UNCHANGED state \/ (Clear /\ log' = <<>>)
  PROVE  IInv'
<1>. USE DEF IInv, outcomes, state, None
<1>1. TypeOK'
  <2>1. log' \in Seq({"ready", "event", "plain"})
    BY EmptySeq DEF TypeOK
  <2>2. /\ session_id' \in Nat /\ last_received' \in Nat /\ last_committed' \in Nat
        /\ next_delivery_id' = next_delivery_id
    BY DEF TypeOK, Clear
  <2>3. pending' \in Seq(Dispatches)
    BY EmptySeq DEF TypeOK, Clear
  <2>. QED  BY <2>1, <2>2, <2>3 DEF TypeOK
<1>2. Bookkeeping' /\ LogMatches' /\ Contiguous' /\ CursorMatches'
  BY DEF Bookkeeping, LogMatches, Contiguous, CursorMatches, Clear, Live
<1>3. PendingMatches'
  BY DEF PendingMatches, ItemMatches, Clear
<1>4. (Live => TakenUpTo(last_received))' /\ RollbackLast'
  BY DEF TakenUpTo, RollbackLast, Live, Clear
<1>5. ResumeLosesNothing' /\ SubmittedOnce'
  BY DEF ResumeLosesNothing, SubmittedOnce, Live, Handled, Clear
<1>. QED  BY <1>1, <1>2, <1>3, <1>4, <1>5

LEMMA ConnectionKeeps ==
  ASSUME IInv, Expire \/ Resume \/ ResumeRefused \/ Identify \/ Disconnect \/ Invalidate \/ Stop
  PROVE  IInv'
<1>0. /\ connection # "up" => rollback = None
      /\ CanResume => session_id = session
      /\ ~CanResume => session_id = None /\ last_committed = None /\ pending = <<>>
                       /\ last_received = 0
  BY DEF IInv, RollbackLast, Bookkeeping, CanResume, Contiguous, None, TypeOK
<1>1. CASE Expire \/ Disconnect \/ Invalidate \/ Stop
  BY <1>0, <1>1, DownKeeps DEF Expire, Disconnect, Invalidate, Stop, state, gateway, outcomes
<1>2. CASE ResumeRefused
  <2>1. log = <<>>
    BY <1>0, <1>2 DEF ResumeRefused, Live, IInv, LogMatches
  <2>. QED  BY <1>0, <1>2, <2>1, DownKeeps DEF ResumeRefused, gateway
<1>3. CASE Resume
  <2>. USE <1>0, <1>3 DEF Resume, IInv, gateway, state, outcomes
  <2>0. /\ last_committed <= last_received /\ last_committed # 0 /\ session_id # None
        /\ last_committed \in Nat
    BY DEF TypeOK, Contiguous, CanResume, None
  <2>1. TypeOK' /\ Bookkeeping' /\ LogMatches' /\ Contiguous'
    BY DEF TypeOK, Bookkeeping, LogMatches, Contiguous, Live
  <2>4. CursorMatches'
    BY <2>0 DEF CursorMatches, Live
  <2>2. PendingMatches' /\ (Live => TakenUpTo(last_received))' /\ RollbackLast'
    BY DEF PendingMatches, TakenUpTo, RollbackLast, Live
  <2>3. ResumeLosesNothing' /\ SubmittedOnce'
    BY DEF ResumeLosesNothing, SubmittedOnce, Live, Handled
  <2>. QED  BY <2>1, <2>2, <2>3, <2>4
<1>4. CASE Identify
  <2>. USE <1>0, <1>4 DEF Identify, IInv, state, outcomes, None
  <2>1. /\ session' = session + 1 /\ session \in Nat /\ log' = <<"ready">> /\ Live'
        /\ \A d \in taken : origin[d][1] \in 1..session
    BY DEF TypeOK, Live, Bookkeeping
  <2>2. TypeOK' /\ Bookkeeping'
    BY SMTT(60) DEF TypeOK, Bookkeeping
  <2>3. LogMatches' /\ Contiguous' /\ CursorMatches'
    BY <2>1 DEF LogMatches, Contiguous, CursorMatches, TypeOK
  <2>4. PendingMatches' /\ (Live => TakenUpTo(last_received))' /\ RollbackLast'
    BY <2>1 DEF PendingMatches, TakenUpTo, RollbackLast
  <2>5. ResumeLosesNothing' /\ SubmittedOnce'
    BY <2>1 DEF ResumeLosesNothing, SubmittedOnce
  <2>. QED  BY <2>2, <2>3, <2>4, <2>5
<1>. QED  BY <1>1, <1>2, <1>3, <1>4

----------------------------------------------------------------------------
(* Dispatches *)

\* What a dispatch that arrives says of the session.
LEMMA ArrivalFacts ==
  ASSUME IInv, NEW kind, Arrives(kind)
  PROVE  /\ connection = "up" /\ rollback = None /\ Live /\ session # None
         /\ Next1 \in 1..Len(log) /\ log[Next1] = kind /\ cursor' = Next1
         /\ cursor \in Nat /\ Next1 = cursor + 1 /\ Next1 <= last_received + 1
         /\ kind = "ready" => session_id = None /\ last_received = 0 /\ pending = <<>>
         /\ kind # "ready" => session_id = session
         /\ last_received \in Nat
<1>1. /\ connection = "up" /\ rollback = None /\ cursor < Len(log) /\ log[Next1] = kind
      /\ cursor' = Next1 /\ Next1 = cursor + 1
  BY DEF Arrives, Next1
<1>2. Live /\ cursor <= last_received /\ cursor \in Nat /\ Len(log) \in Nat /\ last_received \in Nat
  BY <1>1 DEF IInv, LogMatches, CursorMatches, TypeOK
<1>3. Next1 \in 1..Len(log) /\ (kind = "ready" <=> Next1 = 1)
  BY <1>1, <1>2 DEF IInv, LogMatches
<1>4. cursor = 0 <=> session_id = None
  BY <1>1 DEF IInv, CursorMatches
<1>. QED  BY <1>1, <1>2, <1>3, <1>4 DEF IInv, Bookkeeping, Contiguous, Live, None

\* A dispatch that is not recorded only moves the connection on, or ends it.
LEMMA SkippedKeeps ==
  ASSUME IInv, NEW kind, Arrives(kind), kind # "ready",
         IsDuplicate(Next1) \/ connection' = "down",
         connection' \in {"up", "down"},
         UNCHANGED <<gateway, state, rollback, origin, taken, handled, failed>>,
         ignored' \subseteq failed
  PROVE  IInv'
<1>. USE DEF IInv, gateway, state
<1>1. /\ connection = "up" /\ rollback = None /\ cursor' = Next1 /\ Next1 \in Nat
      /\ Next1 # 0 /\ session_id # None /\ Live
  BY ArrivalFacts DEF None
<1>2. connection' = "up" => Next1 <= last_received
  BY <1>1, NextInSequence
<1>3. TypeOK' /\ Bookkeeping' /\ LogMatches' /\ Contiguous'
  BY <1>1 DEF TypeOK, Bookkeeping, LogMatches, Contiguous, Live
<1>4. CursorMatches'
  BY <1>1, <1>2 DEF CursorMatches, Live
<1>5. PendingMatches' /\ (Live => TakenUpTo(last_received))' /\ RollbackLast'
  BY <1>1 DEF PendingMatches, TakenUpTo, RollbackLast, Live
<1>6. ResumeLosesNothing' /\ SubmittedOnce'
  BY DEF ResumeLosesNothing, SubmittedOnce, Live, Handled
<1>. QED  BY <1>3, <1>4, <1>5, <1>6

\* READY and the dispatches without an event.
LEMMA RecordPlainKeeps ==
  ASSUME IInv, NEW kind \in {"ready", "plain"}, Arrives(kind), ~IsDuplicate(Next1),
         Record(Next1, None), session_id' = session, connection' = "up",
         UNCHANGED <<gateway, next_delivery_id, rollback, outcomes>>
  PROVE  IInv'
<1>. USE DEF IInv, gateway, outcomes
<1>1. /\ connection = "up" /\ rollback = None /\ Live /\ session # None
      /\ Next1 = last_received + 1 /\ Next1 \in 1..Len(log) /\ log[Next1] = kind
      /\ cursor' = Next1 /\ session_id \in {None, session} /\ last_received \in Nat
      /\ Len(log) \in Nat
      /\ kind = "ready" => last_received = 0
  <2>1. /\ connection = "up" /\ rollback = None /\ Live /\ session # None
        /\ Next1 \in 1..Len(log) /\ log[Next1] = kind
        /\ cursor' = Next1 /\ last_received \in Nat
        /\ kind = "ready" => last_received = 0
    BY ArrivalFacts
  <2>2. Next1 = last_received + 1
    BY <2>1, NextInSequence
  <2>. QED  BY <2>1, <2>2 DEF Bookkeeping, TypeOK
<1>2. /\ pending' \in Seq(Dispatches)
      /\ last_received' = last_received + 1
      /\ last_committed' \in Nat /\ last_committed <= last_committed'
      /\ Contiguous' /\ PendingMatches' /\ ResumeLosesNothing'
  BY <1>1, RecordKeeps DEF TypeOK, None
<1>3. last_committed' # None
  <2>1. CASE kind = "plain"
    <3>1. session_id # None
      BY <1>1, <2>1, ArrivalFacts DEF None
    <3>. QED  BY <1>2, <3>1 DEF Bookkeeping, None, TypeOK
  <2>2. CASE kind = "ready"
    <3>. SUFFICES ASSUME last_committed' = 0 PROVE FALSE
      BY DEF None
    <3>1. Len(pending') = 1 /\ pending' # <<>> /\ pending'[1].seq = 1 /\ ~pending'[1].completed
      BY <1>1, <1>2, <2>2 DEF Contiguous
    <3>2. ItemMatches(pending'[1], session_id', log', origin', handled', next_delivery_id')
      BY <1>2, <3>1 DEF PendingMatches
    <3>3. log'[1] = "ready" /\ log' # <<>>
      BY <1>1, <2>2 DEF Live
    <3>. QED  BY <3>1, <3>2, <3>3 DEF ItemMatches
  <2>. QED  BY <2>1, <2>2
<1>4. TypeOK' /\ Bookkeeping' /\ LogMatches'
  <2>1. TypeOK'
    BY <1>1, <1>2 DEF TypeOK
  <2>2. Bookkeeping'
    BY <1>1, <1>2, <1>3 DEF Bookkeeping, TypeOK
  <2>3. LogMatches'
    BY <1>1, <1>2 DEF LogMatches, Live
  <2>. QED  BY <2>1, <2>2, <2>3
<1>5. CursorMatches'
  BY <1>1, <1>2 DEF CursorMatches, Live, None
<1>6. (Live => TakenUpTo(last_received))'
  <2>1. \A d \in taken : origin[d] \in Nat \X Nat
    BY DEF TypeOK, Bookkeeping
  <2>2. \A d \in taken : origin[d][1] = session => origin[d][2] <= last_received + 1
    BY <1>1, <2>1 DEF TakenUpTo
  <2>. QED  BY <1>2, <2>2 DEF TakenUpTo
<1>7. RollbackLast' /\ SubmittedOnce'
  BY <1>1 DEF RollbackLast, SubmittedOnce
<1>. QED  BY <1>2, <1>4, <1>5, <1>6, <1>7

LEMMA ReceiveEventKeeps ==
  ASSUME IInv, ReceiveEvent
  PROVE  IInv'
<1>. USE DEF IInv
<1>. DEFINE id == next_delivery_id + 1
<1>1. /\ connection = "up" /\ rollback = None /\ Live /\ session # None
      /\ Next1 = last_received + 1 /\ Next1 \in 1..Len(log) /\ log[Next1] = "event"
      /\ cursor' = Next1 /\ session_id = session /\ session_id # None
      /\ last_received \in Nat /\ Len(log) \in Nat
  <2>1. Arrives("event") /\ ~IsDuplicate(Next1)
    BY DEF ReceiveEvent
  <2>2. /\ connection = "up" /\ rollback = None /\ Live /\ session # None
        /\ Next1 \in 1..Len(log) /\ log[Next1] = "event" /\ cursor' = Next1
        /\ session_id = session /\ last_received \in Nat
    BY <2>1, ArrivalFacts
  <2>3. Next1 = last_received + 1
    BY <2>1, <2>2, NextInSequence
  <2>. QED  BY <2>2, <2>3 DEF TypeOK
<1>2. /\ UNCHANGED <<gateway, connection, session_id, handled, failed, ignored>>
      /\ next_delivery_id \in Nat /\ next_delivery_id' = id /\ id \in Nat /\ id # None
      /\ Record(Next1, id) /\ Len(origin) = next_delivery_id
      /\ origin \in Seq(Nat \X Nat)
      /\ origin' = Append(origin, <<session, Next1>>)
      /\ \/ taken' = taken \cup {id} /\ UNCHANGED rollback
         \/ rollback' = Next1 /\ UNCHANGED taken
  BY DEF ReceiveEvent, TypeOK, Bookkeeping, None
<1>3. /\ origin' \in Seq(Nat \X Nat) /\ Len(origin') = id
      /\ \A d \in 1..Len(origin) : origin'[d] = origin[d]
      /\ origin'[id] = <<session, Next1>>
      /\ \A d \in 1..id : d \in 1..Len(origin) \/ d = id
      /\ id \notin taken /\ taken \subseteq 1..Len(origin)
  <2>1. <<session, Next1>> \in Nat \X Nat
    BY <1>1 DEF TypeOK
  <2>. QED  BY <1>2, <2>1, SMTT(60) DEF TypeOK
<1>4. /\ pending' \in Seq(Dispatches)
      /\ last_received' = last_received + 1
      /\ last_committed' \in Nat /\ last_committed <= last_committed'
      /\ Contiguous' /\ PendingMatches' /\ ResumeLosesNothing'
      /\ pending' # <<>> /\ pending'[Len(pending')].delivery_id = id
  <2>1. id \notin handled
    BY <1>3 DEF TypeOK
  <2>2. /\ last_received + 1 <= Len(log) /\ Record(last_received + 1, id)
        /\ log' = log /\ session' = session /\ handled' = handled
        /\ session_id' = session /\ session_id \in {None, session}
        /\ Len(origin) <= Len(origin') /\ next_delivery_id' >= next_delivery_id
        /\ next_delivery_id' \in Nat /\ id <= next_delivery_id'
        /\ (id # None <=> log[last_received + 1] = "event")
        /\ origin'[id] = <<session, last_received + 1>>
    BY <1>1, <1>2, <1>3 DEF gateway
  <2>. HIDE DEF id, IInv
  <2>. QED  BY <1>1, <1>2, <1>3, <2>1, <2>2, RecordKeeps
<1>5. TypeOK'
  <2>0. 1..Len(origin) \subseteq 1..id /\ id \in 1..id
    BY <1>2
  <2>1. taken' \subseteq 1..id /\ rollback' \in Nat
    <3>1. taken \subseteq 1..id
      BY <1>3, <2>0
    <3>2. Next1 \in Nat /\ rollback \in Nat
      BY <1>1 DEF TypeOK
    <3>. HIDE DEF id
    <3>. QED  BY <1>2, <2>0, <3>1, <3>2
  <2>2. cursor' \in Nat /\ handled \subseteq taken' /\ failed \subseteq taken'
    BY <1>1, <1>2 DEF TypeOK
  <2>. QED  BY <1>1, <1>2, <1>3, <1>4, <2>1, <2>2 DEF TypeOK, gateway
<1>6. Bookkeeping' /\ LogMatches'
  <2>1. \A d \in 1..Len(origin') : origin'[d][1] \in 1..session
    <3>1. session \in 1..session
      BY <1>1 DEF TypeOK, None
    <3>. QED  BY <1>1, <1>2, <1>3, <3>1 DEF Bookkeeping
  <2>2. last_committed' # None
    BY <1>1, <1>4 DEF Bookkeeping, TypeOK, None
  <2>. QED  BY <1>1, <1>2, <1>3, <2>1, <2>2 DEF Bookkeeping, LogMatches, Live, gateway
<1>7. CursorMatches'
  BY <1>1, <1>2, <1>4 DEF CursorMatches, Live, None, gateway
<1>8. ASSUME NEW d \in taken
      PROVE  origin'[d][1] = session => origin'[d][2] <= last_received
  <2>1. origin'[d] = origin[d]
    BY <1>3
  <2>. QED  BY <1>1, <2>1 DEF TakenUpTo
<1>9. (Live => TakenUpTo(last_received))'
  <2>. SUFFICES ASSUME NEW d \in taken', origin'[d][1] = session
                PROVE  origin'[d][2] <= last_received + 1
    BY <1>2, <1>4 DEF TakenUpTo, gateway
  <2>1. CASE d = id
    BY <1>1, <1>3, <2>1
  <2>2. CASE d \in taken
    <3>1. origin'[d] \in Nat \X Nat
      <4>1. d \in 1..Len(origin) /\ origin'[d] = origin[d]
        BY <1>3, <2>2
      <4>. QED  BY <1>2, <4>1
    <3>2. origin'[d][2] <= last_received
      BY <1>8, <2>2
    <3>. QED  BY <1>1, <3>1, <3>2
  <2>. QED  BY <1>2, <2>1, <2>2
<1>10. RollbackLast'
  <2>. SUFFICES ASSUME rollback' # None
                PROVE  /\ connection' = "up" /\ rollback' = last_received' /\ pending' # <<>>
                       /\ pending'[Len(pending')].delivery_id \notin taken'
                       /\ pending'[Len(pending')].delivery_id # None
                       /\ TakenUpTo(rollback - 1)'
    BY DEF RollbackLast
  <2>1. rollback' = Next1 /\ taken' = taken
    BY <1>1, <1>2
  <2>2. rollback' - 1 = last_received
    BY <1>1, <2>1
  <2>3. TakenUpTo(rollback - 1)'
    BY <1>2, <1>8, <2>1, <2>2 DEF TakenUpTo, gateway
  <2>. QED  BY <1>1, <1>2, <1>3, <1>4, <2>1, <2>3
<1>11. SubmittedOnce'
  <2>. SUFFICES ASSUME NEW c \in taken', NEW d \in taken', origin'[c] = origin'[d]
                PROVE  c = d
    BY DEF SubmittedOnce
  <2>1. ASSUME NEW b \in taken
        PROVE  origin'[b] = origin[b] /\ origin'[b] # origin'[id]
    BY <1>1, <1>3, <1>8
  <2>2. (c = id \/ c \in taken) /\ (d = id \/ d \in taken)
    BY <1>2
  <2>. QED  BY <2>1, <2>2 DEF SubmittedOnce
<1>. QED  BY <1>4, <1>5, <1>6, <1>7, <1>9, <1>10, <1>11

LEMMA ReceiveKeeps ==
  ASSUME IInv, Receive
  PROVE  IInv'
<1>1. CASE ReceiveReady
  <2>1. Arrives("ready")
    BY <1>1 DEF ReceiveReady
  <2>2. connection = "up" /\ Next1 = last_received + 1 /\ Next1 <= Len(log)
    BY <2>1, ArrivalFacts DEF Next1, IInv, LogMatches, TypeOK
  <2>3. ~IsDuplicate(Next1) /\ ~Decreases(Next1)
    <3>1. last_received \in Nat /\ ~(Next1 <= last_received)
      BY <2>2 DEF IInv, TypeOK
    <3>. QED  BY <2>2, <3>1, NextInSequence
  <2>. QED  BY <1>1, <2>1, <2>3, RecordPlainKeeps DEF ReceiveReady
<1>2. CASE ReceivePlain
  <2>1. Arrives("plain")
    BY <1>2 DEF ReceivePlain
  <2>2. connection = "up" /\ session_id = session
    BY <2>1, ArrivalFacts
  <2>3. CASE IsDuplicate(Next1)
    <3>1. ignored' \subseteq failed
      BY <1>2 DEF ReceivePlain, outcomes, IInv, TypeOK
    <3>. QED  BY <1>2, <2>1, <2>2, <2>3, <3>1, SkippedKeeps DEF ReceivePlain, state, outcomes
  <2>4. CASE ~IsDuplicate(Next1)
    <3>1. ~Decreases(Next1)
      BY <2>2, <2>4, NextInSequence
    <3>. QED  BY <1>2, <2>1, <2>2, <2>4, <3>1, RecordPlainKeeps DEF ReceivePlain
  <2>. QED  BY <2>3, <2>4
<1>3. CASE ReceiveDuplicate
  <2>1. Arrives("event") /\ IsDuplicate(Next1) /\ connection' = connection
    BY <1>3 DEF ReceiveDuplicate
  <2>2. connection = "up"
    BY <2>1, ArrivalFacts
  <2>3. ignored' \subseteq failed
    BY <1>3 DEF ReceiveDuplicate, IInv, TypeOK
  <2>. QED  BY <1>3, <2>1, <2>2, <2>3, SkippedKeeps DEF ReceiveDuplicate
<1>4. CASE ReceiveRejected
  <2>1. Arrives("event") /\ connection' = "down"
    BY <1>4 DEF ReceiveRejected
  <2>2. ignored' \subseteq failed
    BY <1>4 DEF ReceiveRejected, outcomes, IInv, TypeOK
  <2>. QED  BY <1>4, <2>1, <2>2, SkippedKeeps DEF ReceiveRejected, outcomes
<1>. QED  BY <1>1, <1>2, <1>3, <1>4, ReceiveEventKeeps DEF Receive

LEMMA RollBackKeeps ==
  ASSUME IInv, RollBack
  PROVE  IInv'
<1>. USE DEF IInv, gateway, outcomes
<1>1. /\ rollback # None /\ rollback' = None /\ connection' = "down"
      /\ pending' = Retain(pending, rollback) /\ last_received' = LastOf(pending')
      /\ UNCHANGED <<gateway, cursor, session_id, last_committed, next_delivery_id, outcomes>>
  BY DEF RollBack
<1>2. /\ connection = "up" /\ rollback = last_received /\ pending # <<>> /\ Live
      /\ TakenUpTo(rollback - 1)
      /\ last_committed \in Nat /\ pending \in Seq(Dispatches) /\ Len(pending) \in Nat
      /\ last_received = last_committed + Len(pending)
      /\ \A i \in 1..Len(pending) : pending[i].seq = last_committed + i
  BY <1>1 DEF RollbackLast, TypeOK, Contiguous, LogMatches
<1>3. pending' = SubSeq(pending, 1, Len(pending) - 1)
  BY <1>1, <1>2, RetainDropsLast
<1>4. /\ pending' \in Seq(Dispatches) /\ Len(pending') = Len(pending) - 1
      /\ \A i \in 1..Len(pending') : i \in 1..Len(pending) /\ pending'[i] = pending[i]
  <2>1. Len(pending) - 1 \in Nat
    BY <1>2
  <2>2. /\ SubSeq(pending, 1, Len(pending) - 1) \in Seq(Dispatches)
        /\ Len(SubSeq(pending, 1, Len(pending) - 1)) = Len(pending) - 1
        /\ \A i \in 1..(Len(pending) - 1) : SubSeq(pending, 1, Len(pending) - 1)[i] = pending[i]
    BY <1>2, DropsLast
  <2>. QED  BY <1>2, <1>3, <2>1, <2>2, SMTT(60)
<1>5. last_received' = last_committed + Len(pending')
  <2>1. CASE pending' = <<>>
    BY <1>1, <1>2, <1>4, <2>1 DEF LastOf
  <2>2. CASE pending' # <<>>
    <3>1. Len(pending') \in 1..Len(pending')
      BY <1>4, <2>2
    <3>2. pending'[Len(pending')].seq = last_committed + Len(pending')
      BY <1>2, <1>4, <3>1
    <3>. QED  BY <1>1, <2>2, <3>2 DEF LastOf
  <2>. QED  BY <2>1, <2>2
<1>6. last_received' = last_received - 1 /\ last_received' \in Nat
  <2>1. Len(pending) >= 1
    BY <1>2
  <2>. QED  BY <1>2, <1>4, <1>5, <2>1
<1>7. TypeOK'
  BY <1>1, <1>4, <1>6 DEF TypeOK, None
<1>8. Contiguous'
  <2>1. pending' # <<>> => 1 \in 1..Len(pending') /\ pending'[1] = pending[1]
    BY <1>4
  <2>. QED  BY <1>1, <1>2, <1>4, <1>5, <2>1 DEF Contiguous
<1>9. PendingMatches'
  BY <1>1, <1>4 DEF PendingMatches
<1>10. Bookkeeping' /\ LogMatches' /\ RollbackLast'
  <2>1. session_id # None
    BY <1>2 DEF Bookkeeping
  <2>. QED  BY <1>1, <2>1 DEF Bookkeeping, LogMatches, RollbackLast, Live
<1>11. CursorMatches'
  BY <1>1, <1>2, <1>6 DEF CursorMatches, Live, TypeOK
<1>12. (Live => TakenUpTo(last_received))'
  BY <1>1, <1>2, <1>6 DEF TakenUpTo
<1>13. ResumeLosesNothing' /\ SubmittedOnce'
  BY <1>1 DEF ResumeLosesNothing, SubmittedOnce, Live, Handled
<1>. QED  BY <1>7, <1>8, <1>9, <1>10, <1>11, <1>12, <1>13

----------------------------------------------------------------------------
(* The Runtime *)

LEMMA EventHandledKeeps ==
  ASSUME IInv, NEW d \in taken, EventHandled(d)
  PROVE  IInv'
<1>. USE DEF IInv
<1>. DEFINE items == [i \in 1..Len(pending) |->
                        [pending[i] EXCEPT !.completed = @ \/ pending[i].delivery_id = d]]
<1>1. /\ Advance(items) /\ handled' = handled \cup {d}
      /\ UNCHANGED <<gateway, connection, cursor, session_id, last_received,
                     next_delivery_id, rollback, origin, taken, failed, ignored>>
  BY DEF EventHandled
<1>2. /\ pending \in Seq(Dispatches) /\ Len(pending) \in Nat /\ last_committed \in Nat
      /\ last_received = last_committed + Len(pending)
      /\ \A i \in 1..Len(pending) : pending[i].seq = last_committed + i
      /\ d \in Nat /\ d # None
  <2>1. d \in 1..next_delivery_id /\ next_delivery_id \in Nat
    BY DEF TypeOK
  <2>. QED  BY <2>1 DEF TypeOK, Contiguous, None
<1>3. ASSUME NEW i \in 1..Len(pending)
      PROVE  /\ pending[i] \in Dispatches /\ items[i] \in Dispatches
             /\ items[i].seq = pending[i].seq
             /\ items[i].delivery_id = pending[i].delivery_id
             /\ items[i].completed = (pending[i].completed \/ pending[i].delivery_id = d)
  <2>1. pending[i] \in Dispatches
    BY <1>2
  <2>2. items[i] = [pending[i] EXCEPT !.completed = @ \/ pending[i].delivery_id = d]
    OBVIOUS
  <2>. HIDE DEF items
  <2>. QED  BY <2>1, <2>2 DEF Dispatches
<1>4. items \in Seq(Dispatches) /\ Len(items) = Len(pending)
  <2>1. items \in [1..Len(pending) -> Dispatches]
    BY <1>3
  <2>. QED  BY <1>2, <2>1
<1>5. \A i \in 1..Len(items) : items[i].seq = last_committed + i
  BY <1>2, <1>3, <1>4
<1>6. ASSUME NEW i \in 1..Len(items)
      PROVE  ItemMatches(items[i], session_id', log', origin', handled', next_delivery_id')
  <2>1. ItemMatches(pending[i], session_id, log, origin, handled, next_delivery_id)
    BY <1>4 DEF PendingMatches
  <2>. HIDE DEF items
  <2>. QED  BY <1>1, <1>2, <1>3, <1>4, <2>1 DEF ItemMatches, gateway
<1>7. /\ last_received' = last_committed + Len(items)
      /\ Live' => last_committed + Len(items) <= Len(log')
      /\ log' # <<>> => Len(log') \in Nat
  BY <1>1, <1>2, <1>4 DEF gateway, CursorMatches, Live, TypeOK
<1>8. session_id' = session' /\ Live' =>
        \A s \in 1..last_committed :
          log'[s] = "event" => \E c \in handled' : origin'[c] = <<session', s>>
  BY <1>1 DEF gateway, ResumeLosesNothing, Handled, Live
<1>. HIDE DEF items
<1>9. /\ pending' \in Seq(Dispatches)
      /\ last_committed' \in Nat /\ last_committed <= last_committed'
      /\ last_committed' <= last_committed + Len(items)
      /\ Contiguous' /\ PendingMatches' /\ ResumeLosesNothing'
      /\ items # <<>> /\ ~items[Len(items)].completed =>
           pending' # <<>> /\ pending'[Len(pending')] = items[Len(items)]
  BY <1>1, <1>2, <1>4, <1>5, <1>6, <1>7, <1>8, AdvanceKeeps
<1>10. TypeOK'
  BY <1>1, <1>9 DEF TypeOK, gateway
<1>11. Bookkeeping'
  <2>1. CASE session_id = None
    <3>1. last_received' = 0 /\ last_committed = 0 /\ Len(items) = 0
      BY <1>1, <1>2, <1>4, <2>1 DEF Bookkeeping, None
    <3>2. last_committed' = 0 /\ Len(pending') = 0
      BY <1>9, <3>1 DEF Contiguous
    <3>. QED  BY <1>1, <1>9, <2>1, <3>2 DEF Bookkeeping, gateway, None
  <2>2. CASE session_id # None
    BY <1>1, <1>2, <1>9, <2>2 DEF Bookkeeping, gateway, None
  <2>. QED  BY <2>1, <2>2
<1>12. RollbackLast'
  <2>. SUFFICES ASSUME rollback # None PROVE RollbackLast'
    BY <1>1 DEF RollbackLast
  <2>1. /\ pending # <<>> /\ pending[Len(pending)].delivery_id \notin taken
        /\ pending[Len(pending)].delivery_id # None
        /\ Len(pending) \in 1..Len(pending)
    BY <1>2 DEF RollbackLast
  <2>2. ~pending[Len(pending)].completed
    <3>1. ItemMatches(pending[Len(pending)], session_id, log, origin, handled, next_delivery_id)
      BY <2>1 DEF PendingMatches
    <3>. QED  BY <2>1, <3>1 DEF ItemMatches, TypeOK
  <2>3. items # <<>> /\ ~items[Len(items)].completed
        /\ items[Len(items)].delivery_id = pending[Len(pending)].delivery_id
    <3>1. pending[Len(pending)].delivery_id # d
      BY <2>1
    <3>2. ~items[Len(pending)].completed
      BY <1>3, <2>1, <2>2, <3>1
    <3>3. items[Len(pending)].delivery_id = pending[Len(pending)].delivery_id
      BY <1>3, <2>1
    <3>. QED  BY <1>2, <1>4, <2>1, <3>2, <3>3
  <2>. QED  BY <1>1, <1>9, <2>1, <2>3 DEF RollbackLast, TakenUpTo, gateway
<1>13. LogMatches' /\ CursorMatches' /\ (Live => TakenUpTo(last_received))' /\ SubmittedOnce'
  BY <1>1 DEF LogMatches, CursorMatches, TakenUpTo, SubmittedOnce, Live, gateway
<1>. QED  BY <1>9, <1>10, <1>11, <1>12, <1>13

LEMMA EventFailsKeeps ==
  ASSUME IInv, NEW d \in taken, EventFails(d)
  PROVE  IInv'
<1>. USE DEF IInv, EventFails, gateway, state
<1>1. TypeOK'
  BY DEF TypeOK
<1>2. Bookkeeping' /\ LogMatches' /\ Contiguous' /\ CursorMatches' /\ PendingMatches'
  BY DEF Bookkeeping, LogMatches, Contiguous, CursorMatches, PendingMatches, Live
<1>3. (Live => TakenUpTo(last_received))' /\ RollbackLast'
  BY DEF TakenUpTo, RollbackLast, Live
<1>4. ResumeLosesNothing' /\ SubmittedOnce'
  BY DEF ResumeLosesNothing, SubmittedOnce, Live, Handled
<1>. QED  BY <1>1, <1>2, <1>3, <1>4

----------------------------------------------------------------------------
(* The theorems *)

LEMMA InitInv == Init => IInv
<1>. SUFFICES ASSUME Init PROVE IInv
  OBVIOUS
<1>. USE EmptySeq DEF Init, None
<1>1. TypeOK
  BY DEF TypeOK
<1>2. Bookkeeping /\ LogMatches /\ Contiguous /\ CursorMatches /\ PendingMatches
  BY DEF Bookkeeping, LogMatches, Contiguous, CursorMatches, PendingMatches, Live
<1>3. (Live => TakenUpTo(last_received)) /\ RollbackLast /\ ResumeLosesNothing /\ SubmittedOnce
  BY DEF TakenUpTo, RollbackLast, ResumeLosesNothing, SubmittedOnce, Live
<1>. QED  BY <1>1, <1>2, <1>3 DEF IInv

LEMMA StepInv == IInv /\ [Next]_vars => IInv'
<1>. SUFFICES ASSUME IInv, [Next]_vars PROVE IInv'
  OBVIOUS
<1>1. CASE Next
  BY <1>1, EmitKeeps, ConnectionKeeps, ReceiveKeeps, RollBackKeeps, EventHandledKeeps,
     EventFailsKeeps DEF Next, Connection
<1>2. CASE UNCHANGED vars
  <2>1. /\ UNCHANGED <<log, session, connection, cursor, rollback>>
        /\ UNCHANGED <<session_id, last_received, last_committed, pending, next_delivery_id>>
        /\ UNCHANGED <<origin, taken, handled, failed, ignored>>
    BY <1>2 DEF vars, gateway, state, outcomes
  <2>2. TypeOK' /\ Bookkeeping' /\ LogMatches' /\ Contiguous' /\ CursorMatches' /\ PendingMatches'
    BY <2>1 DEF IInv, TypeOK, Bookkeeping, LogMatches, Contiguous, CursorMatches, PendingMatches, Live
  <2>3. (Live => TakenUpTo(last_received))' /\ RollbackLast' /\ ResumeLosesNothing' /\ SubmittedOnce'
    BY <2>1 DEF IInv, TakenUpTo, RollbackLast, ResumeLosesNothing, SubmittedOnce, Live, Handled
  <2>. QED  BY <2>2, <2>3 DEF IInv
<1>. QED  BY <1>1, <1>2

LEMMA Inductive == Spec => []IInv
BY InitInv, StepInv, PTL DEF Spec

\* What the adapter believes of the session is what happened in it: a Resume
\* never skips an event that was not handled, the pending dispatches have no
\* gap, no event of a session is given to the Runtime twice, and a pending
\* event is completed by the acknowledgement of its own delivery only.
THEOREM SessionExact == Spec => []SessionIsExact
<1>1. IInv => SessionIsExact
  <2>. SUFFICES ASSUME IInv PROVE SessionIsExact
    OBVIOUS
  <2>1. PendingIsContiguous
    <3>1. connection = "up" => IsDuplicate(Next1) \/ ~Decreases(Next1)
      BY NextInSequence
    <3>. QED  BY <3>1 DEF IInv, Contiguous, PendingIsContiguous
  <2>2. AckCompletesItsOwn
    BY DEF IInv, PendingMatches, ItemMatches, AckCompletesItsOwn
  <2>. QED  BY <2>1, <2>2 DEF IInv, SessionIsExact
<1>. QED  BY <1>1, Inductive, PTL
=============================================================================

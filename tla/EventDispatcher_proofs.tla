------------------------ MODULE EventDispatcher_proofs ------------------------
(***************************************************************************)
(* Proofs about the dispatcher, for any adapters, deliveries, partitions   *)
(* and limits (DispatcherAssumption): what it retains is bounded, the      *)
(* events of a partition are processed in their order, and a clean         *)
(* shutdown has processed all of them.                                     *)
(***************************************************************************)
EXTENDS EventDispatcher, FiniteSetTheorems, SequenceTheorems, TLAPS

----------------------------------------------------------------------------
(* The inductive invariant *)

\* Until the tasks are aborted.
Serving == runtime \notin {"aborting", "stopped"}

Index == 1..Len(accepted)

Together(c, d) == PartitionOf[c] = PartitionOf[d]

\* How many of the accepted events have left the channel.
Taken == Len(accepted) - Len(queue)

\* An event is accepted once; the channel holds the last ones that were
\* accepted, and those before them have a task.
QueueKept ==
  /\ \A i, j \in Index : accepted[i] = accepted[j] => i = j
  /\ \A d \in Deliveries : task[d] # "none" => WasAccepted(d)
  /\ Serving =>
       /\ Taken \in Nat
       /\ \A n \in 1..Len(queue) : queue[n] = accepted[Taken + n]
       /\ \A n \in Index : task[accepted[n]] # "none" <=> n <= Taken

\* A task waits for the one accepted last before it in its partition, and has
\* passed that wait only when all before it are over.
ChainsKept ==
  Serving =>
    \A j \in Index :
      /\ task[accepted[j]] = "previous" =>
           \E i \in 1..(j - 1) :
             /\ accepted[i] = previous[accepted[j]]
             /\ Together(accepted[i], accepted[j])
             /\ \A k \in 1..(j - 1) : Together(accepted[k], accepted[j]) => k <= i
      /\ task[accepted[j]] \notin {"none", "previous"} =>
           \A i \in 1..(j - 1) :
             Together(accepted[i], accepted[j]) => task[accepted[i]] \in Ended

\* Who has finished, and what the end of the runtime leaves.
EndsKept ==
  /\ \A d \in finished : task[d] \in {"done", "joined"}
  /\ Serving => \A d \in Deliveries :
       /\ task[d] # "dropped"
       /\ task[d] \in {"done", "joined"} => d \in finished
  /\ runtime \in {"joining", "aborting", "stopped"} => permits = {} /\ queue = <<>>
  /\ runtime = "aborting" => failed

IInv ==
  /\ TypeOK
  /\ Bounded
  /\ QueueKept
  /\ ChainsKept
  /\ TailExact
  /\ EndsKept
  /\ DrainComplete
----------------------------------------------------------------------------
(* Sequences, cardinalities and the kinds of steps *)

LEMMA Sequences ==
  ASSUME TypeOK
  PROVE  /\ Len(accepted) \in Nat /\ \A n \in Index : accepted[n] \in Deliveries
         /\ Len(queue) \in Nat /\ \A n \in 1..Len(queue) : queue[n] \in Deliveries
         /\ queue # <<>> =>
              /\ Len(queue) # 0 /\ Head(queue) = queue[1] /\ Head(queue) \in Deliveries
              /\ Tail(queue) \in Seq(Deliveries) /\ Len(Tail(queue)) = Len(queue) - 1
              /\ \A n \in 1..Len(Tail(queue)) : Tail(queue)[n] = queue[n + 1]
<1>1. accepted \in Seq(Deliveries) /\ queue \in Seq(Deliveries)
  BY DEF TypeOK
<1>2. Len(accepted) \in Nat /\ \A n \in Index : accepted[n] \in Deliveries
  BY <1>1, LenProperties, ElementOfSeq DEF Index
<1>3. Len(queue) \in Nat /\ \A n \in 1..Len(queue) : queue[n] \in Deliveries
  BY <1>1, LenProperties, ElementOfSeq
<1>4. ASSUME queue # <<>>
      PROVE  /\ Len(queue) # 0 /\ Head(queue) = queue[1]
             /\ Tail(queue) \in Seq(Deliveries) /\ Len(Tail(queue)) = Len(queue) - 1
             /\ \A n \in 1..Len(Tail(queue)) : Tail(queue)[n] = queue[n + 1]
  BY <1>1, <1>4, HeadTailProperties, EmptySeq
<1>5. queue # <<>> => queue[1] \in Deliveries
  BY <1>3, <1>4
<1>. QED  BY <1>2, <1>3, <1>4, <1>5

LEMMA Appended ==
  ASSUME NEW S, NEW s \in Seq(S), NEW d \in S
  PROVE  /\ Append(s, d) \in Seq(S)
         /\ Len(s) \in Nat /\ Len(Append(s, d)) = Len(s) + 1
         /\ Append(s, d)[Len(s) + 1] = d
         /\ \A n \in 1..Len(s) : Append(s, d)[n] = s[n]
BY AppendProperties, LenProperties

LEMMA Fewer ==
  ASSUME NEW S, IsFiniteSet(S), NEW T, T \subseteq S
  PROVE  Cardinality(T) <= Cardinality(S) /\ Cardinality(T) \in Nat /\ Cardinality(S) \in Nat
<1>1. IsFiniteSet(T) /\ Cardinality(T) <= Cardinality(S)
  BY FS_Subset
<1>. QED  BY <1>1, FS_CardinalityType

LEMMA OneMore ==
  ASSUME NEW S, IsFiniteSet(S), NEW x, NEW T, T \subseteq S \cup {x}
  PROVE  Cardinality(T) <= Cardinality(S) + 1
<1>1. /\ IsFiniteSet(S \cup {x}) /\ Cardinality(S) \in Nat
      /\ Cardinality(S \cup {x}) = IF x \in S THEN Cardinality(S) ELSE Cardinality(S) + 1
  BY FS_AddElement, FS_CardinalityType
<1>2. Cardinality(T) <= Cardinality(S \cup {x}) /\ Cardinality(T) \in Nat
  BY <1>1, Fewer
<1>. QED  BY <1>1, <1>2

\* An event task goes from one phase to the next.
Moves(d, to) ==
  /\ task[d] \in Working \cup {"previous"}
  /\ to \in Working \cup {"done", "dropped", "panicked"}
  /\ task' = [task EXCEPT ![d] = to]
  /\ Quiet
  /\ task[d] = "previous" /\ to # "dropped" =>
       to = "admission" /\ task[previous[d]] \in Ended
  /\ to = "dropped" => runtime = "aborting"
  /\ to = "claiming" => Cardinality(In("claiming")) < Concurrency
  /\ to = "processing" => Cardinality(In("processing")) < Concurrency
  /\ IF to = "done" THEN RemoveTail(d) /\ finished' = finished \cup {d}
                    ELSE UNCHANGED <<tails, finished>>

LEMMA TaskMoves ==
  ASSUME NEW d \in Deliveries, Task(d)
  PROVE  \E to : Moves(d, to)
<1>1. CASE PreviousEnds(d)
  <2>1. Moves(d, "admission")
    BY <1>1 DEF PreviousEnds, Move, Moves, Working
  <2>. QED  BY <2>1
<1>2. CASE AdmitClaim(d)
  <2>1. Moves(d, "claiming")
    BY <1>2 DEF AdmitClaim, Move, Moves, Working
  <2>. QED  BY <2>1
<1>3. CASE ClaimAnswered(d)
  <2>1. Moves(d, "permit")
    BY <1>3 DEF ClaimAnswered, Move, Moves, Working
  <2>. QED  BY <2>1
<1>4. CASE StartProcessing(d)
  <2>1. Moves(d, "processing")
    BY <1>4 DEF StartProcessing, Move, Moves, Working
  <2>. QED  BY <2>1
<1>5. CASE Retry(d)
  <2>1. Moves(d, "retrying")
    BY <1>5 DEF Retry, Move, Moves, Working
  <2>. QED  BY <2>1
<1>6. CASE Finish(d)
  <2>1. Moves(d, "done")
    BY <1>6 DEF Finish, Move, Moves, Working
  <2>. QED  BY <2>1
<1>7. CASE Panic(d)
  <2>1. Moves(d, "panicked")
    BY <1>7 DEF Panic, Move, Moves, Working
  <2>. QED  BY <2>1
<1>8. CASE Abort(d)
  <2>1. Moves(d, "dropped")
    BY <1>8 DEF Abort, Move, Moves, Working
  <2>. QED  BY <2>1
<1>. QED  BY <1>1, <1>2, <1>3, <1>4, <1>5, <1>6, <1>7, <1>8 DEF Task

\* A step of an adapter that submits nothing.
Reserves ==
  /\ UNCHANGED <<queue, task, previous, tails, runtime, failed, accepted, finished>>
  /\ adapter' \in [Adapters -> {"running", "stopped", "failed"}]
  /\ permits' \subseteq {a \in Adapters : adapter'[a] = "running"}
  /\ \/ permits' \subseteq permits
     \/ /\ \E a \in Adapters : permits' = permits \cup {a}
        /\ Len(queue) + Cardinality(permits) < QueueCapacity
        /\ Open

LEMMA AdapterReserves ==
  ASSUME TypeOK, NEW a \in Adapters, Adapter(a), ~\E d \in Deliveries : Send(a, d)
  PROVE  Reserves
<1>1. CASE Reserve(a)
  BY <1>1 DEF Reserve, Reserves, TypeOK
<1>2. CASE DropPermit(a)
  BY <1>2 DEF DropPermit, Reserves, TypeOK
<1>3. CASE AdapterStops(a)
  BY <1>3 DEF AdapterStops, Reserves, TypeOK
<1>. QED  BY <1>1, <1>2, <1>3 DEF Adapter

\* A step of the run or of its shutdown, which no task sees.
Turns ==
  /\ UNCHANGED <<task, previous, tails, accepted, finished>>
  /\ runtime # "stopped"
  /\ runtime' \in {"draining", "flushing", "joining", "aborting", "stopped"}
  /\ adapter' \in [Adapters -> {"running", "stopped", "failed"}]
  /\ permits' \subseteq {a \in Adapters : adapter'[a] = "running"} /\ permits' \subseteq permits
  /\ failed' \in BOOLEAN /\ (failed => failed')
  /\ queue' \in {queue, <<>>}
  /\ Serving' => Serving /\ queue' = queue
  /\ runtime' = "aborting" => failed'
  /\ runtime' \in {"joining", "aborting", "stopped"} => permits' = {} /\ queue' = <<>>
  /\ runtime' = "stopped" => Slots = {} /\ runtime \in {"joining", "aborting"}

RuntimeTurns ==
  \/ RunFails \/ Shutdown \/ ReceiverEnds \/ AdaptersDrained \/ DrainFails
  \/ Flushed \/ FlushFails \/ JoinFails \/ Stop

LEMMA RuntimeStepTurns ==
  ASSUME TypeOK, EndsKept, RuntimeTurns
  PROVE  Turns
<1>. USE DEF TypeOK, Turns, Serving
<1>1. CASE AbortAll /\ AbortAdapters /\ runtime \notin {"aborting", "stopped"}
  BY <1>1 DEF AbortAll, AbortAdapters
<1>2. CASE Shutdown
  BY <1>2 DEF Shutdown
<1>3. CASE ReceiverEnds
  BY <1>3 DEF ReceiverEnds
<1>4. CASE AdaptersDrained
  BY <1>4 DEF AdaptersDrained, CloseReceiver
<1>5. CASE DrainFails
  BY <1>5 DEF DrainFails, CloseReceiver, AbortAdapters
<1>6. CASE Flushed /\ ~failed
  BY <1>6 DEF Flushed
<1>7. CASE Stop
  BY <1>7 DEF Stop, EndsKept
<1>8. RunFails \/ FlushFails \/ JoinFails \/ (Flushed /\ failed) =>
        AbortAll /\ AbortAdapters /\ runtime \notin {"aborting", "stopped"}
  BY DEF RunFails, FlushFails, JoinFails, Flushed
<1>. QED  BY <1>1, <1>2, <1>3, <1>4, <1>5, <1>6, <1>7, <1>8 DEF RuntimeTurns

\* A task that is over is joined.
Joins(d) ==
  /\ task[d] \in {"done", "dropped", "panicked"}
  /\ task[d] = "panicked" => runtime = "aborting"
  /\ task' = [task EXCEPT ![d] = "joined"]
  /\ Quiet /\ UNCHANGED <<tails, finished>>

\* Every step is of one of these kinds.
Step ==
  \/ Reserves
  \/ \E a \in Adapters, d \in Deliveries : Send(a, d)
  \/ \E d \in Deliveries : \E to : Moves(d, to)
  \/ \E d \in Deliveries : Joins(d)
  \/ Receive
  \/ Turns
  \/ UNCHANGED vars

LEMMA NextStep ==
  ASSUME TypeOK, EndsKept, [Next]_vars
  PROVE  Step
<1>1. ASSUME NEW a \in Adapters, Adapter(a)
      PROVE  Step
  BY <1>1, AdapterReserves DEF Step
<1>2. ASSUME NEW d \in Deliveries, Task(d)
      PROVE  Step
  BY <1>2, TaskMoves DEF Step
<1>3. ASSUME NEW d \in Deliveries, Join(d)
      PROVE  Joins(d)
  BY <1>3 DEF Join, Joins
<1>4. Dispatcher => RuntimeTurns \/ Receive \/ \E d \in Deliveries : Join(d)
  BY DEF Dispatcher, RuntimeTurns
<1>5. Dispatcher => Step
  BY <1>3, <1>4, RuntimeStepTurns DEF Step
<1>. QED  BY <1>1, <1>2, <1>5 DEF Next, Step

----------------------------------------------------------------------------
(* Types and limits *)

LEMMA TypeKept ==
  ASSUME DispatcherAssumption, TypeOK, Step
  PROVE  TypeOK'
<1>. USE DEF TypeOK
<1>1. CASE Reserves
  BY <1>1 DEF Reserves
<1>2. ASSUME NEW a \in Adapters, NEW d \in Deliveries, Send(a, d)
      PROVE  TypeOK'
  <2>1. queue' \in Seq(Deliveries) /\ accepted' \in Seq(Deliveries)
    BY <1>2, Appended DEF Send
  <2>2. permits' \subseteq permits
    BY <1>2 DEF Send
  <2>. QED  BY <1>2, <2>1, <2>2 DEF Send
<1>3. ASSUME NEW d \in Deliveries, NEW to, Moves(d, to)
      PROVE  TypeOK'
  <2>1. task' \in [Deliveries -> Phases] /\ finished' \subseteq Deliveries
    BY <1>3 DEF Moves, Phases, Working
  <2>2. tails' \in [Partitions -> Deliveries \cup {NoDelivery}]
    BY <1>3 DEF Moves, RemoveTail
  <2>. QED  BY <1>3, <2>1, <2>2 DEF Moves, Quiet
<1>4. ASSUME NEW d \in Deliveries, Joins(d)
      PROVE  TypeOK'
  <2>1. task' \in [Deliveries -> Phases]
    BY <1>4 DEF Joins, Phases
  <2>. QED  BY <1>4, <2>1 DEF Joins, Quiet
<1>5. CASE Receive
  <2>1. Head(queue) \in Deliveries /\ Tail(queue) \in Seq(Deliveries)
    BY <1>5, Sequences DEF Receive
  <2>2. PartitionOf[Head(queue)] \in Partitions
    BY <2>1 DEF DispatcherAssumption
  <2>3. tails[PartitionOf[Head(queue)]] \in Deliveries \cup {NoDelivery}
    BY <2>2
  <2>. HIDE DEF TypeOK
  <2>4. task' \in [Deliveries -> Phases]
    BY <1>5, <2>1 DEF TypeOK, Receive, Spawn, Phases, Working
  <2>5. previous' \in [Deliveries -> Deliveries \cup {NoDelivery}]
    BY <1>5, <2>1, <2>3 DEF TypeOK, Receive, Spawn
  <2>6. tails' \in [Partitions -> Deliveries \cup {NoDelivery}]
    BY <1>5, <2>1, <2>2 DEF TypeOK, Receive, Spawn
  <2>. QED  BY <1>5, <2>1, <2>4, <2>5, <2>6 DEF TypeOK, Receive
<1>6. CASE Turns
  <2>1. queue' \in Seq(Deliveries)
    BY <1>6, EmptySeq DEF Turns
  <2>. QED  BY <1>6, <2>1 DEF Turns
<1>7. CASE UNCHANGED vars
  BY <1>7 DEF vars
<1>. QED  BY <1>1, <1>2, <1>3, <1>4, <1>5, <1>6, <1>7 DEF Step

LEMMA Finite ==
  ASSUME DispatcherAssumption, TypeOK
  PROVE  /\ IsFiniteSet(permits) /\ IsFiniteSet(Slots)
         /\ \A phase : IsFiniteSet(In(phase))
<1>1. permits \subseteq Adapters /\ Slots \subseteq Deliveries
      /\ \A phase : In(phase) \subseteq Deliveries
  BY DEF TypeOK, Slots, In
<1>. QED  BY <1>1, FS_Subset DEF DispatcherAssumption

\* No task enters a phase that a semaphore bounds.
NoneEnters == \A d \in Deliveries :
                task'[d] \in {"claiming", "processing"} => task'[d] = task[d]

LEMMA PhasesKept ==
  ASSUME DispatcherAssumption, TypeOK, Bounded, NoneEnters
  PROVE  Cardinality(In("claiming")') <= Concurrency /\ Cardinality(In("processing")') <= Concurrency
<1>1. In("claiming")' \subseteq In("claiming") /\ In("processing")' \subseteq In("processing")
  BY DEF NoneEnters, In
<1>2. /\ Cardinality(In("claiming")') <= Cardinality(In("claiming"))
      /\ Cardinality(In("claiming")') \in Nat /\ Cardinality(In("claiming")) \in Nat
  BY <1>1, Finite, Fewer
<1>3. /\ Cardinality(In("processing")') <= Cardinality(In("processing"))
      /\ Cardinality(In("processing")') \in Nat /\ Cardinality(In("processing")) \in Nat
  BY <1>1, Finite, Fewer
<1>. QED  BY <1>2, <1>3 DEF Bounded, DispatcherAssumption

LEMMA SlotsKept ==
  ASSUME DispatcherAssumption, TypeOK, Bounded, Slots' \subseteq Slots
  PROVE  Cardinality(Slots') <= QueueCapacity
<1>1. /\ Cardinality(Slots') <= Cardinality(Slots)
      /\ Cardinality(Slots') \in Nat /\ Cardinality(Slots) \in Nat
  BY Finite, Fewer
<1>. QED  BY <1>1 DEF Bounded, DispatcherAssumption

LEMMA ChannelKept ==
  ASSUME DispatcherAssumption, TypeOK, Bounded, permits' \subseteq permits,
         Len(queue') \in Nat, Len(queue') <= Len(queue)
  PROVE  Len(queue') + Cardinality(permits') <= QueueCapacity
<1>1. /\ Cardinality(permits') <= Cardinality(permits)
      /\ Cardinality(permits') \in Nat /\ Cardinality(permits) \in Nat
  BY Finite, Fewer
<1>. QED  BY <1>1, Sequences DEF Bounded, DispatcherAssumption

LEMMA BoundedKept ==
  ASSUME DispatcherAssumption, TypeOK, Bounded, Step
  PROVE  Bounded'
<1>0. Len(queue) \in Nat /\ QueueCapacity \in Nat /\ Concurrency \in Nat
  BY Sequences DEF DispatcherAssumption
<1>1. CASE Reserves
  <2>1. Slots' = Slots /\ NoneEnters
    BY <1>1 DEF Reserves, Slots, NoneEnters
  <2>2. CASE permits' \subseteq permits
    BY <1>0, <1>1, <2>1, <2>2, SlotsKept, ChannelKept, PhasesKept DEF Reserves, Bounded
  <2>3. ASSUME NEW a \in Adapters, permits' = permits \cup {a},
               Len(queue) + Cardinality(permits) < QueueCapacity
        PROVE  Bounded'
    <3>1. Cardinality(permits') <= Cardinality(permits) + 1
      BY <2>3, Finite, OneMore
    <3>2. Cardinality(permits') \in Nat /\ Cardinality(permits) \in Nat
      <4>1. IsFiniteSet(permits')
        BY <2>3, Finite, FS_AddElement
      <4>. QED  BY <4>1, Finite, FS_CardinalityType
    <3>3. Len(queue') + Cardinality(permits') <= QueueCapacity
      BY <1>0, <1>1, <2>3, <3>1, <3>2 DEF Reserves
    <3>. QED  BY <2>1, <3>3, SlotsKept, PhasesKept DEF Bounded
  <2>. QED  BY <1>1, <2>2, <2>3 DEF Reserves
<1>2. ASSUME NEW a \in Adapters, NEW d \in Deliveries, Send(a, d)
      PROVE  Bounded'
  <2>1. Slots' = Slots /\ NoneEnters
    BY <1>2 DEF Send, Slots, NoneEnters
  <2>2. Len(queue') = Len(queue) + 1
    BY <1>2, Appended DEF Send, TypeOK
  <2>3. Cardinality(permits') = Cardinality(permits) - 1 /\ Cardinality(permits) \in Nat
    BY <1>2, Finite, FS_RemoveElement, FS_CardinalityType DEF Send
  <2>4. Len(queue') + Cardinality(permits') <= QueueCapacity
    BY <1>0, <2>2, <2>3 DEF Bounded
  <2>. QED  BY <2>1, <2>4, SlotsKept, PhasesKept DEF Bounded
<1>3. ASSUME NEW d \in Deliveries, NEW to, Moves(d, to)
      PROVE  Bounded'
  <2>1. /\ \A e \in Deliveries : task'[e] = IF e = d THEN to ELSE task[e]
        /\ UNCHANGED <<queue, permits>>
    BY <1>3 DEF Moves, Quiet, TypeOK
  <2>2. Slots' \subseteq Slots
    BY <1>3, <2>1 DEF Moves, Slots, Working
  <2>3. ASSUME NEW phase \in {"claiming", "processing"}, to = phase
        PROVE  Cardinality(In(phase)') <= Concurrency
    <3>1. In(phase)' \subseteq In(phase) \cup {d}
      BY <2>1 DEF In
    <3>2. Cardinality(In(phase)') <= Cardinality(In(phase)) + 1 /\ Cardinality(In(phase)) \in Nat
      BY <3>1, Finite, OneMore, FS_CardinalityType
    <3>3. Cardinality(In(phase)') \in Nat
      <4>1. IsFiniteSet(In(phase)')
        BY <3>1, Finite, FS_AddElement, FS_Subset
      <4>. QED  BY <4>1, FS_CardinalityType
    <3>4. Cardinality(In(phase)) < Concurrency
      BY <1>3, <2>3 DEF Moves
    <3>. QED  BY <1>0, <3>2, <3>3, <3>4
  <2>4. ASSUME NEW phase \in {"claiming", "processing"}, to # phase
        PROVE  Cardinality(In(phase)') <= Concurrency
    <3>1. In(phase)' \subseteq In(phase)
      BY <2>1, <2>4 DEF In
    <3>2. /\ Cardinality(In(phase)') <= Cardinality(In(phase))
          /\ Cardinality(In(phase)') \in Nat /\ Cardinality(In(phase)) \in Nat
      BY <3>1, Finite, Fewer
    <3>. QED  BY <1>0, <3>2 DEF Bounded
  <2>5. Len(queue') + Cardinality(permits') <= QueueCapacity
    BY <1>0, <2>1 DEF Bounded
  <2>. QED  BY <2>2, <2>3, <2>4, <2>5, SlotsKept DEF Bounded
<1>4. ASSUME NEW d \in Deliveries, Joins(d)
      PROVE  Bounded'
  <2>1. /\ \A e \in Deliveries : task'[e] = IF e = d THEN "joined" ELSE task[e]
        /\ UNCHANGED <<queue, permits>>
    BY <1>4 DEF Joins, Quiet, TypeOK
  <2>2. Slots' \subseteq Slots /\ NoneEnters
    BY <1>4, <2>1 DEF Joins, Slots, NoneEnters
  <2>. QED  BY <1>0, <2>1, <2>2, SlotsKept, ChannelKept, PhasesKept DEF Bounded
<1>5. CASE Receive
  <2>. DEFINE h == Head(queue)
  <2>1. /\ h \in Deliveries /\ Len(Tail(queue)) = Len(queue) - 1 /\ Len(queue) # 0
        /\ queue' = Tail(queue) /\ permits' = permits
    BY <1>5, Sequences DEF Receive
  <2>2. \A e \in Deliveries : e # h => task'[e] = task[e]
    BY <1>5, <2>1 DEF Receive, Spawn, TypeOK
  <2>3. task'[h] \in {"admission", "previous"}
    BY <1>5, <2>1 DEF Receive, Spawn, TypeOK
  <2>. HIDE DEF h
  <2>4. NoneEnters
    BY <2>2, <2>3 DEF NoneEnters
  <2>5. Slots' \subseteq Slots \cup {h}
    BY <2>2 DEF Slots
  <2>6. Cardinality(Slots') <= Cardinality(Slots) + 1 /\ Cardinality(Slots) \in Nat
    BY <2>5, Finite, OneMore, FS_CardinalityType
  <2>7. Cardinality(Slots') \in Nat
    <3>1. IsFiniteSet(Slots')
      BY <2>5, Finite, FS_AddElement, FS_Subset
    <3>. QED  BY <3>1, FS_CardinalityType
  <2>8. Cardinality(Slots') <= QueueCapacity
    BY <1>0, <1>5, <2>6, <2>7 DEF Receive
  <2>9. Len(queue') \in Nat /\ Len(queue') <= Len(queue)
    BY <1>0, <2>1
  <2>. QED  BY <2>1, <2>4, <2>8, <2>9, PhasesKept, ChannelKept DEF Bounded
<1>6. CASE Turns
  <2>1. Slots' = Slots /\ NoneEnters /\ permits' \subseteq permits
    BY <1>6 DEF Turns, Slots, NoneEnters
  <2>2. Len(queue') \in Nat /\ Len(queue') <= Len(queue)
    <3>1. queue' = queue \/ queue' = <<>>
      BY <1>6 DEF Turns
    <3>2. Len(<<>>) = 0
      OBVIOUS
    <3>. QED  BY <1>0, <3>1, <3>2
  <2>. QED  BY <2>1, <2>2, SlotsKept, PhasesKept, ChannelKept DEF Bounded
<1>7. CASE UNCHANGED vars
  <2>1. UNCHANGED <<queue, permits, task>>
    BY <1>7 DEF vars
  <2>. QED  BY <2>1 DEF Bounded, Slots, In
<1>. QED  BY <1>1, <1>2, <1>3, <1>4, <1>5, <1>6, <1>7 DEF Step

----------------------------------------------------------------------------
(* What is accepted, queued and spawned *)

\* The event received is the next of those accepted, and was not yet spawned.
LEMMA ReceiveFacts ==
  ASSUME DispatcherAssumption, TypeOK, QueueKept, Receive
  PROVE  /\ Head(queue) \in Deliveries /\ Serving /\ Serving'
         /\ Taken \in Nat /\ Taken + 1 \in Index /\ accepted[Taken + 1] = Head(queue)
         /\ Taken' = Taken + 1 /\ Len(queue') = Len(queue) - 1
         /\ \A n \in 1..Len(queue') : n + 1 \in 1..Len(queue) /\ queue'[n] = queue[n + 1]
         /\ task[Head(queue)] = "none"
         /\ task'[Head(queue)] = IF tails[PartitionOf[Head(queue)]] = NoDelivery
                                   THEN "admission" ELSE "previous"
         /\ previous'[Head(queue)] = tails[PartitionOf[Head(queue)]]
         /\ \A d \in Deliveries : d # Head(queue) =>
              task'[d] = task[d] /\ previous'[d] = previous[d]
         /\ \A p \in Partitions :
              tails'[p] = IF p = PartitionOf[Head(queue)] THEN Head(queue) ELSE tails[p]
         /\ UNCHANGED <<accepted, finished, runtime>>
<1>. DEFINE h == Head(queue)
<1>1. /\ Len(accepted) \in Nat /\ Len(queue) \in Nat /\ Len(queue) # 0
      /\ h = queue[1] /\ h \in Deliveries
      /\ Len(queue') = Len(queue) - 1
      /\ \A n \in 1..Len(queue') : queue'[n] = queue[n + 1]
  BY Sequences DEF Receive
<1>2. Serving /\ Serving' /\ UNCHANGED <<accepted, finished, runtime>>
  BY DEF Receive, Receiving, Serving
<1>3. /\ Taken \in Nat /\ \A n \in 1..Len(queue) : queue[n] = accepted[Taken + n]
      /\ \A n \in Index : task[accepted[n]] # "none" <=> n <= Taken
  BY <1>2 DEF QueueKept
<1>4. Taken + 1 \in Index /\ 1 \in 1..Len(queue) /\ Taken' = Taken + 1 /\ ~(Taken + 1 <= Taken)
  BY <1>1, <1>2, <1>3 DEF Taken, Index
<1>5. accepted[Taken + 1] = h
  BY <1>1, <1>3, <1>4
<1>6. task[h] = "none"
  BY <1>3, <1>4, <1>5
<1>7. \A n \in 1..Len(queue') : n + 1 \in 1..Len(queue)
  BY <1>1
<1>8. PartitionOf[h] \in Partitions
  BY <1>1 DEF DispatcherAssumption
<1>. HIDE DEF h
<1>9. Spawn(h)
  BY DEF Receive, h
<1>10. /\ task'[h] = IF tails[PartitionOf[h]] = NoDelivery THEN "admission" ELSE "previous"
       /\ previous'[h] = tails[PartitionOf[h]]
       /\ \A d \in Deliveries : d # h => task'[d] = task[d] /\ previous'[d] = previous[d]
       /\ \A p \in Partitions : tails'[p] = IF p = PartitionOf[h] THEN h ELSE tails[p]
  BY <1>1, <1>8, <1>9 DEF Spawn, TypeOK
<1>. QED  BY <1>1, <1>2, <1>3, <1>4, <1>5, <1>6, <1>7, <1>10 DEF h

\* An event that is accepted is new, and waits behind all others.
LEMMA SendFacts ==
  ASSUME TypeOK, QueueKept, NEW a \in Adapters, NEW d \in Deliveries, Send(a, d)
  PROVE  /\ Len(accepted) \in Nat /\ Len(queue) \in Nat
         /\ Len(accepted') = Len(accepted) + 1 /\ Len(queue') = Len(queue) + 1
         /\ accepted'[Len(accepted) + 1] = d /\ queue'[Len(queue) + 1] = d
         /\ \A n \in Index : accepted'[n] = accepted[n]
         /\ \A n \in 1..Len(queue) : queue'[n] = queue[n]
         /\ \A n \in Index : accepted[n] # d
         /\ task[d] = "none"
         /\ UNCHANGED <<task, previous, tails, runtime, finished, failed>>
<1>1. accepted \in Seq(Deliveries) /\ queue \in Seq(Deliveries)
  BY DEF TypeOK
<1>2. accepted' = Append(accepted, d) /\ queue' = Append(queue, d)
  BY DEF Send
<1>3. /\ Len(accepted) \in Nat /\ Len(accepted') = Len(accepted) + 1
      /\ accepted'[Len(accepted) + 1] = d
      /\ \A n \in Index : accepted'[n] = accepted[n]
  BY <1>1, <1>2, Appended DEF Index
<1>4. /\ Len(queue) \in Nat /\ Len(queue') = Len(queue) + 1
      /\ queue'[Len(queue) + 1] = d
      /\ \A n \in 1..Len(queue) : queue'[n] = queue[n]
  BY <1>1, <1>2, Appended
<1>5. \A n \in Index : accepted[n] # d
  BY DEF Send, WasAccepted, Index
<1>6. task[d] = "none"
  BY DEF QueueKept, Send
<1>. QED  BY <1>3, <1>4, <1>5, <1>6 DEF Send

\* A task that exists goes on existing, and no other begins.
SameTasks ==
  /\ \A d \in Deliveries : task'[d] # "none" <=> task[d] # "none"
  /\ \A d \in Deliveries : task[d] \in Ended => task'[d] \in Ended
  /\ UNCHANGED <<accepted, previous>>
  /\ Serving' => Serving

LEMMA MoveFacts ==
  ASSUME TypeOK, NEW d \in Deliveries, NEW to, Moves(d, to)
  PROVE  /\ \A e \in Deliveries : task'[e] = IF e = d THEN to ELSE task[e]
         /\ task[d] \notin Ended \cup {"none"} /\ to # "none"
         /\ SameTasks /\ queue' = queue /\ runtime' = runtime
<1>1. \A e \in Deliveries : task'[e] = IF e = d THEN to ELSE task[e]
  BY DEF Moves, TypeOK
<1>2. task[d] \notin Ended \cup {"none"} /\ to # "none"
  BY DEF Moves, Working, Ended
<1>3. UNCHANGED <<queue, runtime, accepted, previous>>
  BY DEF Moves, Quiet
<1>. QED  BY <1>1, <1>2, <1>3 DEF SameTasks, Serving

LEMMA JoinFacts ==
  ASSUME TypeOK, NEW d \in Deliveries, Joins(d)
  PROVE  /\ \A e \in Deliveries : task'[e] = IF e = d THEN "joined" ELSE task[e]
         /\ SameTasks /\ UNCHANGED <<queue, runtime, tails, finished>>
<1>1. \A e \in Deliveries : task'[e] = IF e = d THEN "joined" ELSE task[e]
  BY DEF Joins, TypeOK
<1>2. task[d] # "none"
  BY DEF Joins
<1>3. UNCHANGED <<queue, runtime, tails, finished, accepted, previous>>
  BY DEF Joins, Quiet
<1>. QED  BY <1>1, <1>2, <1>3 DEF SameTasks, Serving, Ended

LEMMA QueueSame ==
  ASSUME TypeOK, QueueKept, SameTasks, Serving' => queue' = queue
  PROVE  QueueKept'
<1>1. \A n \in Index : accepted[n] \in Deliveries
  BY Sequences
<1>. QED  BY <1>1 DEF SameTasks, QueueKept, Index, Taken, WasAccepted

LEMMA QueueIsKept ==
  ASSUME DispatcherAssumption, TypeOK, QueueKept, Step
  PROVE  QueueKept'
<1>0. \A n \in Index : accepted[n] \in Deliveries
  BY Sequences
<1>1. CASE Reserves \/ Turns \/ UNCHANGED vars
  <2>1. SameTasks /\ (Serving' => queue' = queue)
    BY <1>1 DEF Reserves, Turns, vars, SameTasks, Serving
  <2>. QED  BY <2>1, QueueSame
<1>2. ASSUME NEW a \in Adapters, NEW d \in Deliveries, Send(a, d)
      PROVE  QueueKept'
  <2>. DEFINE m == Len(accepted) + 1
  <2>1. /\ Len(accepted) \in Nat /\ Len(queue) \in Nat
        /\ Len(accepted') = Len(accepted) + 1 /\ Len(queue') = Len(queue) + 1
        /\ accepted'[m] = d /\ queue'[Len(queue) + 1] = d
        /\ \A n \in Index : accepted'[n] = accepted[n]
        /\ \A n \in 1..Len(queue) : queue'[n] = queue[n]
        /\ \A n \in Index : accepted[n] # d
        /\ task[d] = "none"
        /\ task' = task /\ (Serving' => Serving)
    BY <1>2, SendFacts DEF Serving
  <2>2. Index' = Index \cup {m} /\ Taken' = Taken /\ m \notin Index
    BY <2>1 DEF Index, Taken
  <2>3. \A i, j \in Index' : accepted'[i] = accepted'[j] => i = j
    BY <2>1, <2>2 DEF QueueKept
  <2>4. \A e \in Deliveries : task'[e] # "none" => WasAccepted(e)'
    <3>1. \A e \in Deliveries : task[e] # "none" => \E i \in Index : accepted[i] = e
      BY DEF QueueKept, WasAccepted, Index
    <3>2. \A e \in Deliveries : task[e] # "none" => \E i \in Index' : accepted'[i] = e
      BY <2>1, <2>2, <3>1
    <3>. QED  BY <2>1, <3>2 DEF WasAccepted, Index
  <2>5. ASSUME Serving'
        PROVE  /\ Taken' \in Nat
               /\ \A n \in 1..Len(queue') : queue'[n] = accepted'[Taken' + n]
               /\ \A n \in Index' : task'[accepted'[n]] # "none" <=> n <= Taken'
    <3>1. /\ Taken \in Nat
          /\ \A n \in 1..Len(queue) : queue[n] = accepted[Taken + n]
          /\ \A n \in Index : task[accepted[n]] # "none" <=> n <= Taken
      BY <2>1, <2>5 DEF QueueKept
    <3>2. ASSUME NEW n \in 1..Len(queue')
          PROVE  queue'[n] = accepted'[Taken + n]
      <4>1. CASE n = Len(queue) + 1
        <5>1. Taken + n = m
          BY <2>1, <4>1 DEF Taken
        <5>. QED  BY <2>1, <4>1, <5>1
      <4>2. CASE n # Len(queue) + 1
        <5>1. n \in 1..Len(queue) /\ Taken + n \in Index
          BY <2>1, <4>2, <3>1 DEF Taken, Index
        <5>. QED  BY <2>1, <3>1, <5>1
      <4>. QED  BY <4>1, <4>2
    <3>3. ~(m <= Taken)
      BY <2>1 DEF Taken
    <3>. QED  BY <2>1, <2>2, <3>1, <3>2, <3>3
  <2>. QED  BY <2>3, <2>4, <2>5 DEF QueueKept
<1>3. ASSUME NEW d \in Deliveries, NEW to, Moves(d, to)
      PROVE  QueueKept'
  BY <1>3, MoveFacts, QueueSame
<1>4. ASSUME NEW d \in Deliveries, Joins(d)
      PROVE  QueueKept'
  BY <1>4, JoinFacts, QueueSame
<1>5. CASE Receive
  <2>. DEFINE h == Head(queue)
              k == Taken + 1
  <2>1. /\ h \in Deliveries /\ Serving /\ accepted' = accepted
        /\ Taken \in Nat /\ k \in Index /\ accepted[k] = h /\ Taken' = k
        /\ \A n \in 1..Len(queue') : n + 1 \in 1..Len(queue) /\ queue'[n] = queue[n + 1]
        /\ task'[h] # "none"
        /\ \A d \in Deliveries : d # h => task'[d] = task[d]
    BY <1>5, ReceiveFacts
  <2>2. /\ \A i, j \in Index : accepted[i] = accepted[j] => i = j
        /\ \A d \in Deliveries : task[d] # "none" => WasAccepted(d)
        /\ \A n \in 1..Len(queue) : queue[n] = accepted[Taken + n]
        /\ \A n \in Index : task[accepted[n]] # "none" <=> n <= Taken
    BY <2>1 DEF QueueKept
  <2>. HIDE DEF h
  <2>3. \A d \in Deliveries : task'[d] # "none" => WasAccepted(d)'
    <3>1. WasAccepted(h)
      BY <2>1 DEF WasAccepted, Index
    <3>2. \A d \in Deliveries : WasAccepted(d)' <=> WasAccepted(d)
      BY <2>1 DEF WasAccepted
    <3>. QED  BY <2>1, <2>2, <3>1, <3>2
  <2>4. \A n \in 1..Len(queue') : queue'[n] = accepted'[Taken' + n]
    <3>1. \A n \in 1..Len(queue') : Taken + (n + 1) = k + n
      BY <2>1
    <3>. QED  BY <2>1, <2>2, <3>1
  <2>5. \A n \in Index : task'[accepted[n]] # "none" <=> n <= k
    <3>1. \A n \in Index : n # k => (n <= k <=> n <= Taken)
      BY <2>1 DEF Index
    <3>2. k <= k
      BY <2>1
    <3>. QED  BY <1>0, <2>1, <2>2, <3>1, <3>2
  <2>6. Index' = Index
    BY <2>1 DEF Index
  <2>. QED  BY <2>1, <2>2, <2>3, <2>4, <2>5, <2>6 DEF QueueKept
<1>. QED  BY <1>1, <1>2, <1>3, <1>4, <1>5 DEF Step

----------------------------------------------------------------------------
(* The chain of a partition *)

\* If the others keep what they have passed, so do the events of a chain.
LEMMA ChainsSame ==
  ASSUME TypeOK, ChainsKept, SameTasks,
         \A j \in Index :
           /\ task'[accepted[j]] = "previous" => task[accepted[j]] = "previous"
           /\ task'[accepted[j]] # "previous" /\ task[accepted[j]] = "previous" =>
                \A i \in 1..(j - 1) :
                  Together(accepted[i], accepted[j]) => task[accepted[i]] \in Ended
  PROVE  ChainsKept'
<1>. SUFFICES ASSUME Serving', NEW j \in Index'
              PROVE  /\ task'[accepted[j]] = "previous" =>
                          \E i \in 1..(j - 1) :
                            /\ accepted[i] = previous[accepted[j]]
                            /\ Together(accepted[i], accepted[j])
                            /\ \A k \in 1..(j - 1) : Together(accepted[k], accepted[j]) => k <= i
                     /\ task'[accepted[j]] \notin {"none", "previous"} =>
                          \A i \in 1..(j - 1) :
                            Together(accepted[i], accepted[j]) => task'[accepted[i]] \in Ended
  BY DEF ChainsKept, SameTasks, Together, Index
<1>1. Serving /\ j \in Index /\ Len(accepted) \in Nat
      /\ \A n \in Index : accepted[n] \in Deliveries
  BY Sequences DEF SameTasks, Index
<1>2. \A i \in 1..(j - 1) : i \in Index /\ accepted[i] \in Deliveries
  BY <1>1 DEF Index
<1>3. task'[accepted[j]] = "previous" => task[accepted[j]] = "previous"
  BY <1>1
<1>4. ASSUME task'[accepted[j]] \notin {"none", "previous"},
             NEW i \in 1..(j - 1), Together(accepted[i], accepted[j])
      PROVE  task'[accepted[i]] \in Ended
  <2>1. task[accepted[j]] # "none"
    BY <1>1, <1>4 DEF SameTasks
  <2>2. task[accepted[i]] \in Ended
    BY <1>1, <1>4, <2>1 DEF ChainsKept
  <2>. QED  BY <1>2, <2>2 DEF SameTasks
<1>. QED  BY <1>1, <1>3, <1>4 DEF ChainsKept

LEMMA ChainsAreKept ==
  ASSUME DispatcherAssumption, TypeOK, QueueKept, ChainsKept, TailExact, Step
  PROVE  ChainsKept'
<1>0. Len(accepted) \in Nat /\ \A n \in Index : accepted[n] \in Deliveries
  BY Sequences
<1>1. CASE Reserves \/ Turns \/ UNCHANGED vars
  <2>1. SameTasks /\ task' = task
    BY <1>1 DEF Reserves, Turns, vars, SameTasks, Serving
  <2>. QED  BY <2>1, ChainsSame
<1>2. ASSUME NEW a \in Adapters, NEW d \in Deliveries, Send(a, d)
      PROVE  ChainsKept'
  <2>1. /\ Len(accepted') = Len(accepted) + 1
        /\ accepted'[Len(accepted) + 1] = d /\ task[d] = "none"
        /\ \A n \in Index : accepted'[n] = accepted[n]
        /\ UNCHANGED <<task, previous, runtime>>
    BY <1>2, SendFacts
  <2>2. ASSUME NEW j \in Index', task[accepted'[j]] # "none"
        PROVE  /\ j \in Index
               /\ \A i \in 1..(j - 1) : i \in Index
    BY <1>0, <2>1, <2>2 DEF Index
  <2>3. ASSUME Serving, NEW j \in Index', task[accepted'[j]] = "previous"
        PROVE  \E i \in 1..(j - 1) :
                 /\ accepted'[i] = previous[accepted'[j]]
                 /\ Together(accepted'[i], accepted'[j])
                 /\ \A k \in 1..(j - 1) : Together(accepted'[k], accepted'[j]) => k <= i
    <3>1. /\ j \in Index /\ \A i \in 1..(j - 1) : i \in Index
          /\ \A i \in 1..(j - 1) : accepted'[i] = accepted[i]
          /\ accepted'[j] = accepted[j]
      BY <2>1, <2>2, <2>3
    <3>2. PICK i \in 1..(j - 1) :
            /\ accepted[i] = previous[accepted[j]]
            /\ Together(accepted[i], accepted[j])
            /\ \A k \in 1..(j - 1) : Together(accepted[k], accepted[j]) => k <= i
      BY <2>3, <3>1 DEF ChainsKept
    <3>. QED  BY <3>1, <3>2
  <2>4. ASSUME Serving, NEW j \in Index', task[accepted'[j]] \notin {"none", "previous"},
               NEW i \in 1..(j - 1), Together(accepted'[i], accepted'[j])
        PROVE  task[accepted'[i]] \in Ended
    <3>1. j \in Index /\ i \in Index /\ accepted'[i] = accepted[i] /\ accepted'[j] = accepted[j]
      BY <2>1, <2>2, <2>4
    <3>. QED  BY <2>4, <3>1 DEF ChainsKept
  <2>. QED  BY <2>1, <2>3, <2>4 DEF ChainsKept, Serving, Together
<1>3. ASSUME NEW d \in Deliveries, NEW to, Moves(d, to)
      PROVE  ChainsKept'
  <2>1. /\ \A e \in Deliveries : task'[e] = IF e = d THEN to ELSE task[e]
        /\ task[d] # "none" /\ SameTasks
    BY <1>3, MoveFacts
  <2>2. CASE ~Serving'
    BY <2>2 DEF ChainsKept
  <2>3. CASE Serving'
    <3>1. to \notin {"previous", "dropped"} /\ Serving
      BY <1>3, <2>1, <2>3 DEF Moves, Serving, SameTasks, Working, Quiet
    <3>2. ASSUME NEW j \in Index, task'[accepted[j]] # "previous", task[accepted[j]] = "previous",
                 NEW i \in 1..(j - 1), Together(accepted[i], accepted[j])
          PROVE  task[accepted[i]] \in Ended
      <4>1. accepted[j] = d
        BY <1>0, <2>1, <3>2
      <4>2. task[previous[d]] \in Ended
        BY <1>3, <3>1, <3>2, <4>1 DEF Moves
      <4>3. PICK k \in 1..(j - 1) :
              /\ accepted[k] = previous[accepted[j]]
              /\ Together(accepted[k], accepted[j])
              /\ \A n \in 1..(j - 1) : Together(accepted[n], accepted[j]) => n <= k
        BY <3>1, <3>2 DEF ChainsKept
      <4>4. i <= k /\ task[accepted[k]] \in Ended /\ k \in Index
        BY <1>0, <3>2, <4>1, <4>2, <4>3 DEF Index
      <4>5. CASE i = k
        BY <4>4, <4>5
      <4>6. CASE i # k
        <5>1. i \in 1..(k - 1) /\ Together(accepted[i], accepted[k])
          BY <3>2, <4>3, <4>4, <4>6 DEF Together, Index
        <5>2. task[accepted[k]] \notin {"none", "previous"}
          BY <4>4 DEF Ended
        <5>. QED  BY <3>1, <4>4, <5>1, <5>2 DEF ChainsKept
      <4>. QED  BY <4>5, <4>6
    <3>3. \A j \in Index : task'[accepted[j]] = "previous" => task[accepted[j]] = "previous"
      BY <1>0, <2>1, <3>1
    <3>. QED  BY <2>1, <3>2, <3>3, ChainsSame
  <2>. QED  BY <2>2, <2>3
<1>4. ASSUME NEW d \in Deliveries, Joins(d)
      PROVE  ChainsKept'
  <2>1. /\ \A e \in Deliveries : task'[e] = IF e = d THEN "joined" ELSE task[e]
        /\ SameTasks
    BY <1>4, JoinFacts
  <2>2. task[d] # "previous"
    BY <1>4 DEF Joins
  <2>3. \A j \in Index : task'[accepted[j]] = "previous" <=> task[accepted[j]] = "previous"
    BY <1>0, <2>1, <2>2
  <2>. QED  BY <2>1, <2>3, ChainsSame
<1>5. CASE Receive
  <2>. DEFINE h == Head(queue)
              m == Taken + 1
              p == PartitionOf[h]
  <2>1. /\ h \in Deliveries /\ Serving /\ accepted' = accepted
        /\ Taken \in Nat /\ m \in Index /\ accepted[m] = h
        /\ task[h] = "none"
        /\ task'[h] = IF tails[p] = NoDelivery THEN "admission" ELSE "previous"
        /\ previous'[h] = tails[p]
        /\ \A d \in Deliveries : d # h => task'[d] = task[d] /\ previous'[d] = previous[d]
    BY <1>5, ReceiveFacts
  <2>2. /\ \A i, j \in Index : accepted[i] = accepted[j] => i = j
        /\ \A n \in Index : task[accepted[n]] # "none" <=> n <= Taken
    BY <2>1 DEF QueueKept
  <2>3. p \in Partitions /\ tails[p] \in Deliveries \cup {NoDelivery}
    BY <2>1 DEF DispatcherAssumption, TypeOK
  <2>. HIDE DEF h
  <2>4. \A j \in Index : j # m => accepted[j] # h
    BY <2>1, <2>2
  <2>5. \A i \in 1..(m - 1) : i \in Index /\ i <= Taken /\ accepted[i] # h
    BY <1>0, <2>1, <2>4 DEF Index
  <2>6. ASSUME NEW i \in 1..(m - 1)
        PROVE  accepted[i] \in Deliveries /\ task[accepted[i]] # "none"
    BY <1>0, <2>2, <2>5
  <2>7. ASSUME task'[h] = "previous"
        PROVE  \E i \in 1..(m - 1) :
                 /\ accepted[i] = previous'[h]
                 /\ Together(accepted[i], h)
                 /\ \A k \in 1..(m - 1) : Together(accepted[k], h) => k <= i
    <3>1. tails[p] # NoDelivery
      BY <2>1, <2>7
    <3>2. /\ PartitionOf[tails[p]] = p /\ task[tails[p]] # "none"
          /\ \A e \in Deliveries : PartitionOf[e] = p /\ task[e] # "none" => ~Before(tails[p], e)
      BY <2>3, <3>1 DEF TailExact
    <3>3. PICK i \in Index : accepted[i] = tails[p]
      BY <2>3, <3>1, <3>2 DEF QueueKept, WasAccepted, Index
    <3>4. i \in 1..(m - 1)
      BY <1>0, <2>1, <2>2, <3>2, <3>3 DEF Index
    <3>5. ASSUME NEW k \in 1..(m - 1), Together(accepted[k], h)
          PROVE  k <= i
      <4>1. ~Before(tails[p], accepted[k])
        BY <2>6, <3>2, <3>5 DEF Together
      <4>2. ~(i < k)
        BY <2>5, <3>3, <4>1 DEF Before, Index
      <4>. QED  BY <3>4, <4>2
    <3>. QED  BY <2>1, <3>2, <3>3, <3>4, <3>5 DEF Together
  <2>8. ASSUME task'[h] # "previous", NEW i \in 1..(m - 1), Together(accepted[i], h)
        PROVE  task'[accepted[i]] \in Ended
    <3>1. tails[p] = NoDelivery
      BY <2>1, <2>8
    <3>2. task[accepted[i]] \in Ended
      BY <2>1, <2>3, <2>6, <2>8, <3>1 DEF TailExact, Together, Serving
    <3>. QED  BY <2>1, <2>5, <2>6, <3>2
  <2>9. ASSUME NEW j \in Index, j # m, task'[accepted[j]] = "previous"
        PROVE  \E i \in 1..(j - 1) :
                 /\ accepted[i] = previous'[accepted[j]]
                 /\ Together(accepted[i], accepted[j])
                 /\ \A k \in 1..(j - 1) : Together(accepted[k], accepted[j]) => k <= i
    BY <1>0, <2>1, <2>4, <2>9 DEF ChainsKept
  <2>10. ASSUME NEW j \in Index, j # m, task'[accepted[j]] \notin {"none", "previous"},
                NEW i \in 1..(j - 1), Together(accepted[i], accepted[j])
         PROVE  task'[accepted[i]] \in Ended
    <3>1. task[accepted[j]] \notin {"none", "previous"}
      BY <1>0, <2>1, <2>4, <2>10
    <3>2. task[accepted[i]] \in Ended
      BY <2>1, <2>10, <3>1 DEF ChainsKept
    <3>3. i \in Index /\ accepted[i] \in Deliveries /\ accepted[i] # h
      BY <1>0, <2>1, <3>2 DEF Index, Ended
    <3>. QED  BY <2>1, <3>2, <3>3
  <2>11. Index' = Index /\ accepted' = accepted
    BY <2>1 DEF Index
  <2>12. ASSUME NEW j \in Index
         PROVE  /\ task'[accepted[j]] = "previous" =>
                     \E i \in 1..(j - 1) :
                       /\ accepted[i] = previous'[accepted[j]]
                       /\ Together(accepted[i], accepted[j])
                       /\ \A k \in 1..(j - 1) : Together(accepted[k], accepted[j]) => k <= i
                /\ task'[accepted[j]] \notin {"none", "previous"} =>
                     \A i \in 1..(j - 1) :
                       Together(accepted[i], accepted[j]) => task'[accepted[i]] \in Ended
    <3>1. CASE j = m
      BY <2>1, <2>7, <2>8, <3>1
    <3>2. CASE j # m
      BY <2>9, <2>10, <3>2
    <3>. QED  BY <3>1, <3>2
  <2>. QED  BY <2>11, <2>12 DEF ChainsKept, Together
<1>. QED  BY <1>1, <1>2, <1>3, <1>4, <1>5 DEF Step

----------------------------------------------------------------------------
(* The tails *)

\* What TailExact says of one partition, by the places in the order.
TailOf(p) ==
  /\ tails[p] # NoDelivery =>
       /\ PartitionOf[tails[p]] = p /\ task[tails[p]] # "none"
       /\ tails[p] \in Deliveries \ finished
       /\ \A i, j \in Index :
            /\ i < j
            /\ accepted[i] = tails[p]
            /\ PartitionOf[accepted[j]] = p
            => task[accepted[j]] = "none"
  /\ tails[p] = NoDelivery /\ Serving =>
       \A d \in Deliveries : PartitionOf[d] = p /\ task[d] # "none" => task[d] \in Ended

LEMMA TailsOf ==
  ASSUME TypeOK, TailExact, NEW p \in Partitions
  PROVE  TailOf(p)
<1>1. \A n \in Index : accepted[n] \in Deliveries
  BY Sequences
<1>2. tails[p] = NoDelivery /\ Serving =>
        \A d \in Deliveries : PartitionOf[d] = p /\ task[d] # "none" => task[d] \in Ended
  BY DEF TailExact, Serving
<1>3. ASSUME tails[p] # NoDelivery
      PROVE  /\ PartitionOf[tails[p]] = p /\ task[tails[p]] # "none"
             /\ tails[p] \in Deliveries \ finished
             /\ \A d \in Deliveries : PartitionOf[d] = p /\ task[d] # "none" => ~Before(tails[p], d)
  BY <1>3 DEF TailExact
<1>4. ASSUME tails[p] # NoDelivery, NEW i \in Index, NEW j \in Index, i < j,
             accepted[i] = tails[p], PartitionOf[accepted[j]] = p
      PROVE  task[accepted[j]] = "none"
  <2>1. Before(tails[p], accepted[j])
    BY <1>4 DEF Before, Index
  <2>. QED  BY <1>1, <1>3, <1>4, <2>1
<1>. QED  BY <1>2, <1>3, <1>4 DEF TailOf

LEMMA TailsTogether ==
  (\A p \in Partitions : TailOf(p)) => TailExact
<1>. SUFFICES ASSUME NEW p \in Partitions, TailOf(p)
              PROVE  LET spawned == {d \in Deliveries : PartitionOf[d] = p /\ task[d] # "none"} IN
                     /\ tails[p] # NoDelivery =>
                          /\ tails[p] \in spawned \ finished
                          /\ \A d \in spawned : ~Before(tails[p], d)
                     /\ tails[p] = NoDelivery /\ runtime \notin {"aborting", "stopped"} =>
                          \A d \in spawned : task[d] \in Ended
  BY DEF TailExact
<1>1. ASSUME tails[p] # NoDelivery, NEW d \in Deliveries, PartitionOf[d] = p, task[d] # "none",
             Before(tails[p], d)
      PROVE  FALSE
  <2>1. PICK i \in Index, j \in Index : i < j /\ accepted[i] = tails[p] /\ accepted[j] = d
    BY <1>1 DEF Before, Index
  <2>. QED  BY <1>1, <2>1 DEF TailOf
<1>. QED  BY <1>1 DEF TailOf, Serving

\* If no task begins and no tail moves, the tail stays what it is.
LEMMA TailSame ==
  ASSUME TypeOK, SameTasks, NEW p \in Partitions, TailOf(p), tails'[p] = tails[p],
         tails[p] \notin finished' \ finished
  PROVE  TailOf(p)'
<1>1. Index' = Index /\ accepted' = accepted /\ \A n \in Index : accepted[n] \in Deliveries
  BY Sequences DEF SameTasks, Index
<1>2. ASSUME tails[p] # NoDelivery
      PROVE  /\ PartitionOf[tails[p]] = p /\ task'[tails[p]] # "none"
             /\ tails[p] \in Deliveries \ finished'
             /\ \A i, j \in Index :
                  /\ i < j
                  /\ accepted[i] = tails[p]
                  /\ PartitionOf[accepted[j]] = p
                  => task'[accepted[j]] = "none"
  BY <1>1, <1>2 DEF TailOf, SameTasks
<1>3. ASSUME tails[p] = NoDelivery, Serving', NEW d \in Deliveries, PartitionOf[d] = p,
             task'[d] # "none"
      PROVE  task'[d] \in Ended
  BY <1>3 DEF TailOf, SameTasks
<1>. QED  BY <1>1, <1>2, <1>3 DEF TailOf

\* The last task of its partition to end has no other to wait for it.
LEMMA LastEnds ==
  ASSUME DispatcherAssumption, TypeOK, QueueKept, ChainsKept, NEW p \in Partitions, TailOf(p),
         tails[p] # NoDelivery, task[tails[p]] # "previous", Serving,
         NEW e \in Deliveries, e # tails[p], PartitionOf[e] = p, task[e] # "none"
  PROVE  task[e] \in Ended
<1>. DEFINE d == tails[p]
<1>0. Len(accepted) \in Nat
  BY Sequences
<1>1. PartitionOf[d] = p /\ task[d] # "none" /\ d \in Deliveries
  BY DEF TailOf
<1>2. PICK i \in Index : accepted[i] = d
  BY <1>1 DEF QueueKept, WasAccepted, Index
<1>3. PICK j \in Index : accepted[j] = e
  BY DEF QueueKept, WasAccepted, Index
<1>4. ~(i < j) /\ i # j
  BY <1>2, <1>3 DEF TailOf
<1>5. j \in 1..(i - 1)
  BY <1>0, <1>4 DEF Index
<1>. QED  BY <1>1, <1>2, <1>3, <1>5 DEF ChainsKept, Together

LEMMA TailIsKept ==
  ASSUME DispatcherAssumption, TypeOK, QueueKept, ChainsKept, TailExact, EndsKept, Step
  PROVE  TailExact'
<1>. SUFFICES ASSUME NEW p \in Partitions
              PROVE  TailOf(p)'
  <2>1. ((\A p \in Partitions : TailOf(p)) => TailExact)'
    BY TailsTogether, PTL
  <2>. QED  BY <2>1
<1>0. TailOf(p) /\ Len(accepted) \in Nat /\ \A n \in Index : accepted[n] \in Deliveries
  BY TailsOf, Sequences
<1>1. CASE Reserves \/ Turns \/ UNCHANGED vars
  <2>1. SameTasks /\ UNCHANGED <<tails, finished>>
    BY <1>1 DEF Reserves, Turns, vars, SameTasks, Serving
  <2>. QED  BY <1>0, <2>1, TailSame
<1>2. ASSUME NEW a \in Adapters, NEW d \in Deliveries, Send(a, d)
      PROVE  TailOf(p)'
  <2>1. /\ Len(accepted') = Len(accepted) + 1
        /\ accepted'[Len(accepted) + 1] = d /\ task[d] = "none"
        /\ \A n \in Index : accepted'[n] = accepted[n]
        /\ UNCHANGED <<task, tails, runtime, finished>>
    BY <1>2, SendFacts
  <2>2. ASSUME tails[p] # NoDelivery, NEW i \in Index', NEW j \in Index', i < j,
               accepted'[i] = tails[p], PartitionOf[accepted'[j]] = p
        PROVE  task[accepted'[j]] = "none"
    <3>1. CASE j = Len(accepted) + 1
      BY <2>1, <3>1
    <3>2. CASE j # Len(accepted) + 1
      <4>1. i \in Index /\ j \in Index
        BY <1>0, <2>1, <2>2, <3>2 DEF Index
      <4>. QED  BY <1>0, <2>1, <2>2, <4>1 DEF TailOf
    <3>. QED  BY <3>1, <3>2
  <2>. QED  BY <1>0, <2>1, <2>2 DEF TailOf, Serving
<1>3. ASSUME NEW d \in Deliveries, NEW to, Moves(d, to)
      PROVE  TailOf(p)'
  <2>1. /\ \A e \in Deliveries : task'[e] = IF e = d THEN to ELSE task[e]
        /\ task[d] # "none" /\ SameTasks
    BY <1>3, MoveFacts
  <2>2. CASE to # "done"
    <3>1. UNCHANGED <<tails, finished>>
      BY <1>3, <2>2 DEF Moves
    <3>. QED  BY <1>0, <2>1, <3>1, TailSame
  <2>3. CASE to = "done" /\ tails[p] # d
    <3>1. tails'[p] = tails[p] /\ finished' = finished \cup {d}
      BY <1>3, <2>3 DEF Moves, RemoveTail, TypeOK
    <3>. QED  BY <1>0, <2>1, <2>3, <3>1, TailSame
  <2>4. CASE to = "done" /\ tails[p] = d
    <3>1. PartitionOf[d] = p /\ d # NoDelivery
      BY <1>0, <2>4 DEF TailOf, DispatcherAssumption
    <3>2. tails'[p] = NoDelivery
      BY <1>3, <2>4, <3>1 DEF Moves, RemoveTail, TypeOK
    <3>3. task[d] # "previous"
      BY <1>3, <2>4 DEF Moves
    <3>4. ASSUME Serving, NEW e \in Deliveries, e # d, PartitionOf[e] = p, task[e] # "none"
          PROVE  task[e] \in Ended
      BY <1>0, <2>4, <3>1, <3>3, <3>4, LastEnds
    <3>5. ASSUME Serving', NEW e \in Deliveries, PartitionOf[e] = p, task'[e] # "none"
          PROVE  task'[e] \in Ended
      BY <2>1, <2>4, <3>4, <3>5 DEF SameTasks, Ended
    <3>. QED  BY <3>2, <3>5 DEF TailOf
  <2>. QED  BY <2>2, <2>3, <2>4
<1>4. ASSUME NEW d \in Deliveries, Joins(d)
      PROVE  TailOf(p)'
  <2>1. SameTasks /\ UNCHANGED <<tails, finished>>
    BY <1>4, JoinFacts
  <2>. QED  BY <1>0, <2>1, TailSame
<1>5. CASE Receive
  <2>. DEFINE h == Head(queue)
              m == Taken + 1
  <2>1. /\ h \in Deliveries /\ Serving /\ accepted' = accepted /\ finished' = finished
        /\ Taken \in Nat /\ m \in Index /\ accepted[m] = h
        /\ task[h] = "none" /\ task'[h] # "none"
        /\ \A d \in Deliveries : d # h => task'[d] = task[d]
        /\ tails'[p] = IF p = PartitionOf[h] THEN h ELSE tails[p]
    BY <1>5, ReceiveFacts
  <2>2. /\ \A i, j \in Index : accepted[i] = accepted[j] => i = j
        /\ \A n \in Index : task[accepted[n]] # "none" <=> n <= Taken
        /\ Index' = Index
    BY <2>1 DEF QueueKept, Index
  <2>. HIDE DEF h
  <2>3. CASE p = PartitionOf[h]
    <3>1. h \notin finished /\ h # NoDelivery
      BY <2>1 DEF EndsKept, DispatcherAssumption
    <3>2. ASSUME NEW i \in Index, NEW j \in Index, i < j, accepted[i] = h
          PROVE  task'[accepted[j]] = "none"
      <4>1. i = m
        BY <2>1, <2>2, <3>2
      <4>2. j # m /\ ~(j <= Taken)
        BY <1>0, <2>1, <3>2, <4>1 DEF Index
      <4>3. accepted[j] # h /\ task[accepted[j]] = "none"
        BY <2>1, <2>2, <4>2
      <4>. QED  BY <1>0, <2>1, <4>3
    <3>. QED  BY <2>1, <2>2, <2>3, <3>1, <3>2 DEF TailOf
  <2>4. CASE p # PartitionOf[h]
    <3>1. /\ \A e \in Deliveries : PartitionOf[e] = p => task'[e] = task[e]
          /\ tails'[p] = tails[p]
      BY <2>1, <2>4
    <3>2. ASSUME tails[p] # NoDelivery
          PROVE  /\ PartitionOf[tails[p]] = p /\ task'[tails[p]] # "none"
                 /\ tails[p] \in Deliveries \ finished'
                 /\ \A i, j \in Index :
                      /\ i < j
                      /\ accepted[i] = tails[p]
                      /\ PartitionOf[accepted[j]] = p
                      => task'[accepted[j]] = "none"
      BY <1>0, <2>1, <3>1, <3>2 DEF TailOf
    <3>3. tails[p] = NoDelivery => \A e \in Deliveries :
            PartitionOf[e] = p /\ task'[e] # "none" => task'[e] \in Ended
      BY <1>0, <2>1, <3>1 DEF TailOf
    <3>. QED  BY <2>1, <2>2, <3>1, <3>2, <3>3 DEF TailOf
  <2>. QED  BY <2>3, <2>4
<1>. QED  BY <1>1, <1>2, <1>3, <1>4, <1>5 DEF Step

----------------------------------------------------------------------------
(* The end *)

LEMMA EndsAreKept ==
  ASSUME DispatcherAssumption, TypeOK, QueueKept, EndsKept, Step
  PROVE  EndsKept'
<1>1. CASE Reserves
  <2>1. UNCHANGED <<queue, task, runtime, failed, finished>>
    BY <1>1 DEF Reserves
  <2>2. runtime \in {"joining", "aborting", "stopped"} => permits' = {}
    BY <1>1 DEF Reserves, EndsKept, Open
  <2>. QED  BY <2>1, <2>2 DEF EndsKept, Serving
<1>2. ASSUME NEW a \in Adapters, NEW d \in Deliveries, Send(a, d)
      PROVE  EndsKept'
  <2>1. runtime \notin {"joining", "aborting", "stopped"} /\ UNCHANGED <<task, runtime, failed, finished>>
    BY <1>2 DEF Send, EndsKept
  <2>. QED  BY <2>1 DEF EndsKept, Serving
<1>3. ASSUME NEW d \in Deliveries, NEW to, Moves(d, to)
      PROVE  EndsKept'
  <2>1. /\ \A e \in Deliveries : task'[e] = IF e = d THEN to ELSE task[e]
        /\ task[d] \notin Ended
    BY <1>3, MoveFacts
  <2>2. UNCHANGED <<permits, queue, runtime, failed>>
    BY <1>3 DEF Moves, Quiet
  <2>3. /\ to \notin {"joined"} /\ (to = "dropped" => ~Serving)
        /\ finished' = IF to = "done" THEN finished \cup {d} ELSE finished
    BY <1>3 DEF Moves, Working, Serving
  <2>4. d \notin finished /\ finished \subseteq Deliveries
    BY <2>1 DEF EndsKept, Ended, TypeOK
  <2>5. \A e \in finished' : task'[e] \in {"done", "joined"}
    BY <2>1, <2>3, <2>4 DEF EndsKept
  <2>6. Serving => \A e \in Deliveries :
          task'[e] # "dropped" /\ (task'[e] \in {"done", "joined"} => e \in finished')
    BY <2>1, <2>3 DEF EndsKept
  <2>. QED  BY <2>2, <2>5, <2>6 DEF EndsKept, Serving
<1>4. ASSUME NEW d \in Deliveries, Joins(d)
      PROVE  EndsKept'
  <2>1. /\ \A e \in Deliveries : task'[e] = IF e = d THEN "joined" ELSE task[e]
        /\ UNCHANGED <<permits, queue, runtime, failed, finished>>
    BY <1>4, JoinFacts DEF Joins, Quiet
  <2>2. Serving => d \in finished
    BY <1>4 DEF Joins, EndsKept, Serving
  <2>3. \A e \in finished' : task'[e] \in {"done", "joined"}
    BY <2>1 DEF EndsKept, TypeOK
  <2>. QED  BY <2>1, <2>2, <2>3 DEF EndsKept, Serving
<1>5. CASE Receive
  <2>1. /\ Head(queue) \in Deliveries /\ task[Head(queue)] = "none"
        /\ task'[Head(queue)] \in {"admission", "previous"}
        /\ \A e \in Deliveries : e # Head(queue) => task'[e] = task[e]
        /\ UNCHANGED <<finished, runtime>> /\ Serving
    BY <1>5, ReceiveFacts
  <2>2. runtime \notin {"joining", "aborting", "stopped"}
    BY <1>5 DEF Receive, Receiving
  <2>3. \A e \in finished : task'[e] \in {"done", "joined"}
    BY <2>1 DEF EndsKept, TypeOK
  <2>4. \A e \in Deliveries :
          task'[e] # "dropped" /\ (task'[e] \in {"done", "joined"} => e \in finished)
    BY <2>1 DEF EndsKept
  <2>. QED  BY <2>1, <2>2, <2>3, <2>4 DEF EndsKept, Serving
<1>6. CASE Turns
  BY <1>6 DEF Turns, EndsKept
<1>7. CASE UNCHANGED vars
  BY <1>7 DEF vars, EndsKept, Serving
<1>. QED  BY <1>1, <1>2, <1>3, <1>4, <1>5, <1>6, <1>7 DEF Step

LEMMA DrainIsKept ==
  ASSUME DispatcherAssumption, TypeOK, QueueKept, EndsKept, DrainComplete, Step
  PROVE  DrainComplete'
<1>0. Len(accepted) \in Nat /\ \A n \in Index : accepted[n] \in Deliveries
  BY Sequences
<1>1. CASE Turns
  <2>1. SUFFICES ASSUME runtime' = "stopped", ~failed', NEW n \in Index
                 PROVE  accepted[n] \in finished
    BY <1>1 DEF Turns, DrainComplete, Index
  <2>2. runtime \in {"joining", "aborting"} /\ ~failed /\ Slots = {}
    BY <1>1, <2>1 DEF Turns, TypeOK
  <2>3. runtime = "joining" /\ queue = <<>> /\ Serving
    BY <2>2 DEF EndsKept, Serving
  <2>4. task[accepted[n]] # "none"
    <3>1. n <= Taken
      BY <1>0, <2>1, <2>3, EmptySeq DEF Taken, Index
    <3>. QED  BY <2>1, <2>3, <3>1 DEF QueueKept
  <2>5. task[accepted[n]] = "joined"
    BY <1>0, <2>1, <2>2, <2>4 DEF Slots
  <2>. QED  BY <1>0, <2>1, <2>3, <2>5 DEF EndsKept
<1>2. ASSUME NEW a \in Adapters, NEW d \in Deliveries, Send(a, d)
      PROVE  DrainComplete'
  <2>1. runtime' # "stopped"
    BY <1>2 DEF Send, EndsKept
  <2>. QED  BY <2>1 DEF DrainComplete
<1>3. CASE ~Turns /\ ~\E a \in Adapters, d \in Deliveries : Send(a, d)
  <2>1. UNCHANGED <<runtime, failed, accepted>> /\ finished \subseteq finished'
    BY <1>3 DEF Step, Reserves, Moves, Joins, Receive, vars, Quiet
  <2>. QED  BY <2>1 DEF DrainComplete
<1>. QED  BY <1>1, <1>2, <1>3

----------------------------------------------------------------------------
(* The invariant and what follows from it *)

LEMMA InitInv ==
  ASSUME DispatcherAssumption, Init
  PROVE  IInv
<1>1. TypeOK
  BY EmptySeq DEF Init, TypeOK, Phases
<1>2. Slots = {} /\ In("claiming") = {} /\ In("processing") = {} /\ permits = {}
      /\ Len(queue) = 0 /\ Len(accepted) = 0
  BY EmptySeq DEF Init, Slots, In
<1>3. Bounded
  <2>1. Cardinality({}) = 0
    BY FS_EmptySet
  <2>2. /\ Cardinality(Slots) = 0 /\ Len(queue) + Cardinality(permits) = 0
        /\ Cardinality(In("claiming")) = 0 /\ Cardinality(In("processing")) = 0
    <3>1. Cardinality(Slots) = 0 /\ Cardinality(permits) = 0
      BY <1>2, <2>1, Zenon
    <3>2. Cardinality(In("claiming")) = 0 /\ Cardinality(In("processing")) = 0
      BY <1>2, <2>1, Zenon
    <3>. QED  BY <1>2, <3>1, <3>2
  <2>3. 0 <= QueueCapacity /\ 0 <= Concurrency
    BY DEF DispatcherAssumption
  <2>. QED  BY <2>2, <2>3 DEF Bounded
<1>4. QueueKept /\ ChainsKept
  BY <1>2 DEF Init, QueueKept, ChainsKept, Index, Taken
<1>5. TailExact
  BY DEF Init, TailExact
<1>6. EndsKept /\ DrainComplete
  BY DEF Init, EndsKept, DrainComplete
<1>. QED  BY <1>1, <1>3, <1>4, <1>5, <1>6 DEF IInv

LEMMA Inductive ==
  ASSUME DispatcherAssumption
  PROVE  Spec => []IInv
<1>1. Init => IInv
  BY InitInv
<1>2. IInv /\ [Next]_vars => IInv'
  <2>. SUFFICES ASSUME IInv, [Next]_vars
                PROVE  IInv'
    OBVIOUS
  <2>1. TypeOK /\ Bounded /\ QueueKept /\ ChainsKept /\ TailExact /\ EndsKept /\ DrainComplete
    BY DEF IInv
  <2>2. Step
    BY <2>1, NextStep
  <2>3. TypeOK' /\ Bounded'
    BY <2>1, <2>2, TypeKept, BoundedKept
  <2>4. QueueKept' /\ ChainsKept' /\ TailExact'
    BY <2>1, <2>2, QueueIsKept, ChainsAreKept, TailIsKept
  <2>5. EndsKept' /\ DrainComplete'
    BY <2>1, <2>2, EndsAreKept, DrainIsKept
  <2>. QED  BY <2>3, <2>4, <2>5 DEF IInv
<1>. QED  BY <1>1, <1>2, PTL DEF Spec

\* Every variable keeps its type in every behaviour of the dispatcher.
THEOREM TypeCorrect ==
  ASSUME DispatcherAssumption
  PROVE  Spec => []TypeOK
<1>1. IInv => TypeOK
  BY DEF IInv
<1>. QED  BY <1>1, Inductive, PTL

\* What the runtime retains is bounded, the drain and the flush included: at
\* most queue_capacity event tasks, as many envelopes and permits in the
\* channel, and event_concurrency claims and handlers at a time.
THEOREM RetentionBounded ==
  ASSUME DispatcherAssumption
  PROVE  Spec => []Bounded
<1>1. IInv => Bounded
  BY DEF IInv
<1>. QED  BY <1>1, Inductive, PTL

\* Until the tasks are aborted, an event is claimed, handled or retried only
\* when all events of its partition that were accepted before it are over.
THEOREM OrderIsKept ==
  ASSUME DispatcherAssumption
  PROVE  Spec => []PartitionOrder
<1>1. ASSUME IInv
      PROVE  PartitionOrder
  <2>. SUFFICES ASSUME Serving, NEW c \in Deliveries, NEW d \in Deliveries,
                       PartitionOf[c] = PartitionOf[d], Before(c, d),
                       task[d] \in Working \cup {"done"}
                PROVE  task[c] \in Ended
    BY DEF PartitionOrder, Serving
  <2>1. PICK i \in Index, j \in Index : i < j /\ accepted[i] = c /\ accepted[j] = d
    BY DEF Before, Index
  <2>2. i \in 1..(j - 1) /\ Together(accepted[i], accepted[j])
    BY <2>1 DEF Index, Together
  <2>3. task[accepted[j]] \notin {"none", "previous"}
    BY <2>1 DEF Working
  <2>. QED  BY <1>1, <2>1, <2>2, <2>3 DEF IInv, ChainsKept
<1>2. IInv => PartitionOrder
  BY <1>1
<1>. QED  BY <1>2, Inductive, PTL

\* The tail of a partition is the last of its tasks while that one lives, and
\* is gone from the map once it has run to its end.
THEOREM TailsAreExact ==
  ASSUME DispatcherAssumption
  PROVE  Spec => []TailExact
<1>1. IInv => TailExact
  BY DEF IInv
<1>. QED  BY <1>1, Inductive, PTL

\* A runtime that stops without an error has run the task of every event that
\* was accepted to its end.
THEOREM DrainIsComplete ==
  ASSUME DispatcherAssumption
  PROVE  Spec => []DrainComplete
<1>1. IInv => DrainComplete
  BY DEF IInv
<1>. QED  BY <1>1, Inductive, PTL
=============================================================================

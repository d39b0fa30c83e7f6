----------------------- MODULE EventLifecycle_proofs -----------------------
(***************************************************************************)
(* Proofs about the life of an event, for any events, deliveries, recovery *)
(* slots and faults: no claim is lost, none has two finalizers, and what   *)
(* is acknowledged was committed.                                          *)
(***************************************************************************)
EXTENDS EventLifecycle, SequenceTheorems, TLAPS

----------------------------------------------------------------------------
(* The inductive invariant *)

Queued(d) == \E i \in 1..Len(pending) : pending[i] = d

\* A claim is in the hands of others only once its task is over.
TaskAlone ==
  \A d \in Deliveries :
    Sent(d) \/ Queued(d) \/ Scheduled(d) \/ at["finalizer"][d] # "idle" =>
      at["task"][d] \in {"ended", "panicked"}

\* What the phases of Runtime::run say of the actors.
RuntimeShape ==
  /\ runtime # "finalizing" => \A d \in Deliveries : at["finalizer"][d] = "idle"
  /\ runtime \in {"stopping", "finalizing", "stopped", "abandoned"} =>
       \A d \in Deliveries : at["task"][d] \in {"idle", "ended", "panicked"}
  /\ runtime \in {"finalizing", "stopped"} /\ ~failed =>
       \A d \in Deliveries : ~Scheduled(d)
  /\ runtime = "finalizing" =>
       \A d \in Deliveries : Tracked(d) => at["finalizer"][d] # "idle"
  /\ result # "none" => runtime = "stopped"

\* The store holds claims of tracked deliveries and commits of handled ones.
EntryMatches(e) ==
  /\ store[e].state = "in_flight" =>
       /\ store[e].by \in Deliveries
       /\ EventOf[store[e].by] = e
       /\ Tracked(store[e].by)
  /\ store[e].state = "committed" =>
       /\ store[e].by \in committed
       /\ EventOf[store[e].by] = e

StoreMatches ==
  /\ \A e \in Events : EntryMatches(e)
  /\ \A d \in committed : d \in handled /\ store[EventOf[d]] # InFlight(d)

\* A handled event stays in the store until it is evicted.
HandledKept ==
  \A d \in handled :
    \/ EventOf[d] \in evicted
    \/ store[EventOf[d]] \in {InFlight(d), Committed(d)}

\* What a task has done to its event so far.
TaskMatchesAt(d) ==
  /\ at["task"][d] \in {"idle", "claim", "duplicate"} => ~Tracked(d)
  /\ at["task"][d] \in {"idle", "claim", "permit", "handle"} => d \notin acked
  /\ at["task"][d] \in {"idle", "claim", "duplicate", "permit", "handle"} =>
       d \notin handled
  /\ at["task"][d] \in {"permit", "handle"} => store[EventOf[d]] = InFlight(d)
  /\ at["task"][d] = "duplicate" =>
       \E c \in committed : EventOf[c] = EventOf[d]

TaskMatches == \A d \in Deliveries : TaskMatchesAt(d)

\* Whoever finalises a claim does what its event calls for.
WorkMatchesAt(a, d) ==
  /\ at[a][d] = "release" => d \notin handled
  /\ at[a][d] = "commit" => d \in handled
  /\ at[a][d] = "ack" => d \in committed
  /\ at[a][d] = "succeeded" =>
       /\ store[EventOf[d]] # InFlight(d)
       /\ d \in handled => d \in committed \cap acked

WorkMatches == \A a \in Actors, d \in Deliveries : WorkMatchesAt(a, d)

\* A handled claim is let go only when it is committed and acknowledged.
HandledSettled ==
  \A d \in handled : Tracked(d) \/ d \in committed \cap acked

IInv ==
  /\ TypeOK
  /\ TaskAlone
  /\ RuntimeShape
  /\ StoreMatches
  /\ HandledKept
  /\ TaskMatches
  /\ WorkMatches
  /\ HandledSettled
  /\ StateMatchesEffects
  /\ NoClaimLost
  /\ AckAfterCommit
  /\ CleanShutdown

----------------------------------------------------------------------------
(* Moves *)

\* The actor a goes to the phase p with the delivery d, nobody else moves.
Moved(a, d, p) ==
  /\ at' \in [Actors -> [Deliveries -> Phases]]
  /\ \A b \in Actors, c \in Deliveries :
       at'[b][c] = IF b = a /\ c = d THEN p ELSE at[b][c]

LEMMA GotoMoves ==
  ASSUME TypeOK, NEW a \in Actors, NEW d \in Deliveries, NEW p \in Phases, Goto(a, d, p)
  PROVE  Moved(a, d, p)
BY DEF TypeOK, Goto, Moved

LEMMA StayMoves ==
  ASSUME TypeOK, NEW a \in Actors, NEW d \in Deliveries, at' = at
  PROVE  Moved(a, d, at[a][d]) /\ at[a][d] \in Phases
BY DEF TypeOK, Moved

LEMMA PhaseNames ==
  \A p : p \in {"idle", "claim", "duplicate", "permit", "handle", "ended",
                "panicked", "queued", "pause", "succeeded", "failed",
                "release", "commit", "ack"} => p \in Phases
BY DEF Phases, Finalizing

LEMMA ActorNames == "task" \in Actors /\ "recovery" \in Actors /\ "finalizer" \in Actors
BY DEF Actors

LEMMA WorkForPhase ==
  ASSUME NEW s \in ClaimStates
  PROVE  /\ WorkFor(s) \in {"idle", "release", "commit", "ack"}
         /\ WorkFor(s) \in Phases
         /\ WorkFor(s) = "idle" <=> s = "none"
BY PhaseNames DEF WorkFor, ClaimStates

LEMMA AppendContains ==
  ASSUME NEW S, NEW s \in Seq(S), NEW d \in S
  PROVE  /\ Append(s, d) \in Seq(S)
         /\ \A c : (\E i \in 1..Len(Append(s, d)) : Append(s, d)[i] = c)
                     <=> c = d \/ \E i \in 1..Len(s) : s[i] = c
<1>1. /\ Append(s, d) \in Seq(S) /\ Len(Append(s, d)) = Len(s) + 1
      /\ Append(s, d)[Len(s) + 1] = d
      /\ \A i \in 1..Len(s) : Append(s, d)[i] = s[i]
  BY AppendProperties
<1>2. /\ Len(s) \in Nat /\ Len(s) + 1 \in 1..(Len(s) + 1)
      /\ \A i : i \in 1..(Len(s) + 1) <=> i \in 1..Len(s) \/ i = Len(s) + 1
  OBVIOUS
<1>. QED  BY <1>1, <1>2

LEMMA TailContains ==
  ASSUME NEW S, NEW s \in Seq(S), s # <<>>
  PROVE  /\ Head(s) \in S /\ Tail(s) \in Seq(S)
         /\ \A c : (\E i \in 1..Len(s) : s[i] = c)
                     <=> c = Head(s) \/ \E i \in 1..Len(Tail(s)) : Tail(s)[i] = c
<1>1. Head(s) \in S /\ Tail(s) \in Seq(S) /\ Len(Tail(s)) = Len(s) - 1 /\ Head(s) = s[1]
  OBVIOUS
<1>2. \A i \in 1..Len(Tail(s)) : Tail(s)[i] = s[i + 1]
  OBVIOUS
<1>3. ASSUME NEW c, NEW i \in 1..Len(s), s[i] = c, c # Head(s)
      PROVE  \E j \in 1..Len(Tail(s)) : Tail(s)[j] = c
  <2>1. i - 1 \in 1..Len(Tail(s)) /\ Tail(s)[i - 1] = c
    BY <1>1, <1>2, <1>3
  <2>. QED  BY <2>1
<1>4. ASSUME NEW c, NEW j \in 1..Len(Tail(s)), Tail(s)[j] = c
      PROVE  \E i \in 1..Len(s) : s[i] = c
  <2>1. j + 1 \in 1..Len(s) /\ s[j + 1] = c
    BY <1>1, <1>2, <1>4
  <2>. QED  BY <2>1
<1>5. 1 \in 1..Len(s)
  OBVIOUS
<1>. QED  BY <1>1, <1>3, <1>4, <1>5

LEMMA SendAppends ==
  ASSUME TypeOK, NEW d \in Deliveries, commands' = Append(commands, d)
  PROVE  commands' \in Seq(Deliveries) /\ \A c : Sent(c)' <=> c = d \/ Sent(c)
<1>1. commands \in Seq(Deliveries)
  BY DEF TypeOK
<1>. QED  BY <1>1, AppendContains DEF Sent

LEMMA ReceiveTails ==
  ASSUME TypeOK, commands # <<>>, commands' = Tail(commands)
  PROVE  /\ Head(commands) \in Deliveries /\ commands' \in Seq(Deliveries)
         /\ \A c : Sent(c) <=> c = Head(commands) \/ Sent(c)'
<1>1. commands \in Seq(Deliveries)
  BY DEF TypeOK
<1>2. /\ Head(commands) \in Deliveries /\ Tail(commands) \in Seq(Deliveries)
      /\ \A c : (\E i \in 1..Len(commands) : commands[i] = c)
                  <=> c = Head(commands) \/ \E i \in 1..Len(Tail(commands)) : Tail(commands)[i] = c
  BY <1>1, TailContains
<1>. QED  BY <1>2 DEF Sent

LEMMA EnqueueAppends ==
  ASSUME TypeOK, NEW d \in Deliveries, pending' = Append(pending, d)
  PROVE  pending' \in Seq(Deliveries) /\ \A c : Queued(c)' <=> c = d \/ Queued(c)
<1>1. pending \in Seq(Deliveries)
  BY DEF TypeOK
<1>. QED  BY <1>1, AppendContains DEF Queued

LEMMA DequeueTails ==
  ASSUME TypeOK, pending # <<>>, pending' = Tail(pending)
  PROVE  /\ Head(pending) \in Deliveries /\ pending' \in Seq(Deliveries)
         /\ \A c : Queued(c) <=> c = Head(pending) \/ Queued(c)'
<1>1. pending \in Seq(Deliveries)
  BY DEF TypeOK
<1>2. /\ Head(pending) \in Deliveries /\ Tail(pending) \in Seq(Deliveries)
      /\ \A c : (\E i \in 1..Len(pending) : pending[i] = c)
                  <=> c = Head(pending) \/ \E i \in 1..Len(Tail(pending)) : Tail(pending)[i] = c
  BY <1>1, TailContains
<1>. QED  BY <1>2 DEF Queued

\* After an attempt that may be repeated.
LEMMA TryAgainMoves ==
  ASSUME TypeOK, NEW a \in Actors, NEW d \in Deliveries, TryAgain(a, d)
  PROVE  \E p \in Phases :
           /\ Moved(a, d, p)
           /\ \/ p = at[a][d]
              \/ a = "recovery" /\ p = "pause"
              \/ a = "finalizer" /\ p = "failed"
<1>1. CASE UNCHANGED at
  <2>1. Moved(a, d, at[a][d]) /\ at[a][d] \in Phases
    BY <1>1, StayMoves
  <2>. QED  BY <2>1
<1>2. CASE a = "recovery" /\ Goto(a, d, "pause")
  <2>1. Moved(a, d, "pause") /\ "pause" \in Phases
    BY <1>2, GotoMoves, PhaseNames
  <2>. QED  BY <1>2, <2>1
<1>3. CASE a = "finalizer" /\ Goto(a, d, "failed")
  <2>1. Moved(a, d, "failed") /\ "failed" \in Phases
    BY <1>3, GotoMoves, PhaseNames
  <2>. QED  BY <1>3, <2>1
<1>. QED  BY <1>1, <1>2, <1>3 DEF TryAgain

\* The phase of an actor that is done with a claim, or has been refused it.
Done(a) == [task |-> "ended", recovery |-> "idle", finalizer |-> "succeeded"][a]
Refused(a) == [task |-> "ended", recovery |-> "idle", finalizer |-> "failed"][a]

LEMMA SettleMoves ==
  ASSUME TypeOK, NEW a \in Actors, NEW d \in Deliveries, Settle(a, d)
  PROVE  /\ Moved(a, d, Done(a)) /\ Done(a) \in Phases
         /\ outstanding' \in [Deliveries -> ClaimStates]
         /\ \A c \in Deliveries :
              outstanding'[c] = IF c = d /\ a # "finalizer" THEN "none" ELSE outstanding[c]
<1>1. Done("task") = "ended" /\ Done("recovery") = "idle" /\ Done("finalizer") = "succeeded"
  BY DEF Done
<1>2. CASE a = "task"
  <2>1. Goto(a, d, "ended") /\ Untrack(d)
    BY <1>2 DEF Settle
  <2>. QED  BY <1>1, <1>2, <2>1, GotoMoves, PhaseNames DEF Untrack, Mark, TypeOK, ClaimStates
<1>3. CASE a = "recovery"
  <2>1. Goto(a, d, "idle") /\ Untrack(d)
    BY <1>3 DEF Settle
  <2>. QED  BY <1>1, <1>3, <2>1, GotoMoves, PhaseNames DEF Untrack, Mark, TypeOK, ClaimStates
<1>4. CASE a = "finalizer"
  <2>1. Goto(a, d, "succeeded") /\ UNCHANGED outstanding
    BY <1>4 DEF Settle
  <2>. QED  BY <1>1, <1>4, <2>1, GotoMoves, PhaseNames DEF TypeOK
<1>. QED  BY <1>2, <1>3, <1>4 DEF Actors

LEMMA GiveUpMoves ==
  ASSUME TypeOK, NEW a \in Actors, NEW d \in Deliveries, GiveUp(a, d)
  PROVE  /\ Moved(a, d, Refused(a)) /\ Refused(a) \in Phases
         /\ refused' = refused \cup {d} /\ outstanding' = outstanding
         /\ commands' = IF a = "task" /\ Tracked(d) THEN Append(commands, d) ELSE commands
<1>1. Refused("task") = "ended" /\ Refused("recovery") = "idle" /\ Refused("finalizer") = "failed"
  BY DEF Refused
<1>2. CASE a = "task"
  <2>1. Goto(a, d, "ended") /\ DropGuard(d)
    BY <1>2 DEF GiveUp
  <2>. QED  BY <1>1, <1>2, <2>1, GotoMoves, PhaseNames DEF GiveUp, DropGuard
<1>3. CASE a = "recovery"
  <2>1. Goto(a, d, "idle") /\ UNCHANGED commands
    BY <1>3 DEF GiveUp
  <2>. QED  BY <1>1, <1>3, <2>1, GotoMoves, PhaseNames DEF GiveUp
<1>4. CASE a = "finalizer"
  <2>1. Goto(a, d, "failed") /\ UNCHANGED commands
    BY <1>4 DEF GiveUp
  <2>. QED  BY <1>1, <1>4, <2>1, GotoMoves, PhaseNames DEF GiveUp
<1>. QED  BY <1>2, <1>3, <1>4 DEF Actors

----------------------------------------------------------------------------
(* Type correctness *)

LEMMA InitType == Init => TypeOK
<1>. SUFFICES ASSUME Init PROVE TypeOK
  OBVIOUS
<1>1. store \in [Events -> [state : {"free", "in_flight", "committed"},
                            by : Deliveries \cup {NoDelivery}]]
  BY DEF Init, Free
<1>2. /\ outstanding \in [Deliveries -> ClaimStates]
      /\ at \in [Actors -> [Deliveries -> Phases]]
  BY PhaseNames DEF Init, ClaimStates
<1>3. commands \in Seq(Deliveries) /\ pending \in Seq(Deliveries)
  BY DEF Init
<1>4. failed \in BOOLEAN
  BY DEF Init
<1>. QED  BY <1>1, <1>2, <1>3, <1>4 DEF Init, TypeOK

LEMMA TaskType ==
  ASSUME TypeOK, NEW d \in Deliveries, Task(d)
  PROVE  TypeOK'
<1>. USE GotoMoves, StayMoves, PhaseNames, ActorNames DEF TypeOK, Moved, history
<1>1. CASE Begin(d) \/ ClaimDuplicate(d) \/ ClaimRejected(d) \/ StartHandlers(d) \/ HandlerFails(d)
  BY <1>1 DEF Begin, ClaimDuplicate, ClaimRejected, StartHandlers, HandlerFails
<1>2. CASE ClaimGranted(d)
  BY <1>2, LifecycleAssumption DEF ClaimGranted, Mark, InFlight, ClaimStates
<1>3. CASE AckDuplicate(d)
  <2>1. at' \in [Actors -> [Deliveries -> Phases]]
    BY <1>3 DEF AckDuplicate
  <2>. QED  BY <1>3, <2>1 DEF AckDuplicate
<1>4. CASE HandlersSucceed(d)
  BY <1>4 DEF HandlersSucceed, Mark, ClaimStates
<1>5. CASE HandlerPanics(d) \/ Abort(d)
  <2>1. at' \in [Actors -> [Deliveries -> Phases]]
    BY <1>5 DEF HandlerPanics, Abort
  <2>2. commands' \in Seq(Deliveries)
    BY <1>5, SendAppends DEF HandlerPanics, Abort, DropGuard
  <2>. QED  BY <1>5, <2>1, <2>2 DEF HandlerPanics, Abort
<1>. QED  BY <1>1, <1>2, <1>3, <1>4, <1>5 DEF Task

LEMMA FinalizeType ==
  ASSUME TypeOK, NEW a \in Actors, NEW d \in Deliveries, Finalize(a, d)
  PROVE  TypeOK'
<1>. USE DEF TypeOK, history
<1>1. EventOf[d] \in Events
  BY LifecycleAssumption
<1>2. CASE CommitSucceeds(a, d)
  <2>1. at' \in [Actors -> [Deliveries -> Phases]]
    BY <1>2, GotoMoves, PhaseNames DEF CommitSucceeds, Moved
  <2>2. outstanding' \in [Deliveries -> ClaimStates]
    BY <1>2 DEF CommitSucceeds, Mark, ClaimStates
  <2>. QED  BY <1>1, <1>2, <2>1, <2>2 DEF CommitSucceeds, StoreCommits, Committed
<1>3. CASE CommitFails(a, d)
  <2>1. at' \in [Actors -> [Deliveries -> Phases]]
    BY <1>3, TryAgainMoves DEF CommitFails, Moved
  <2>2. /\ committed' \subseteq Deliveries
        /\ store' \in [Events -> [state : {"free", "in_flight", "committed"},
                                  by : Deliveries \cup {NoDelivery}]]
    BY <1>1, <1>3 DEF CommitFails, StoreCommits, Committed
  <2>. QED  BY <1>3, <2>1, <2>2 DEF CommitFails
<1>4. CASE CommitRefused(a, d) \/ ReleaseRefused(a, d)
  <2>1. GiveUp(a, d)
    BY <1>4 DEF CommitRefused, ReleaseRefused
  <2>2. at' \in [Actors -> [Deliveries -> Phases]] /\ commands' \in Seq(Deliveries)
    BY <2>1, GiveUpMoves, SendAppends DEF Moved
  <2>. QED  BY <1>4, <2>1, <2>2, GiveUpMoves DEF CommitRefused, ReleaseRefused
<1>5. CASE ReleaseSucceeds(a, d)
  <2>1. at' \in [Actors -> [Deliveries -> Phases]] /\ outstanding' \in [Deliveries -> ClaimStates]
    BY <1>5, SettleMoves DEF ReleaseSucceeds, Moved
  <2>. QED  BY <1>1, <1>5, <2>1 DEF ReleaseSucceeds, StoreReleases, Free
<1>6. CASE ReleaseFails(a, d)
  <2>1. at' \in [Actors -> [Deliveries -> Phases]]
    BY <1>6, TryAgainMoves DEF ReleaseFails, Moved
  <2>2. store' \in [Events -> [state : {"free", "in_flight", "committed"},
                               by : Deliveries \cup {NoDelivery}]]
    <3>1. CASE UNCHANGED store
      BY <3>1
    <3>2. CASE StoreReleases(d)
      BY <1>1, <3>2 DEF StoreReleases, Free
    <3>. QED  BY <1>6, <3>1, <3>2 DEF ReleaseFails
  <2>. QED  BY <1>6, <2>1, <2>2 DEF ReleaseFails
<1>7. CASE AckSucceeds(a, d)
  <2>1. at' \in [Actors -> [Deliveries -> Phases]] /\ outstanding' \in [Deliveries -> ClaimStates]
    BY <1>7, SettleMoves DEF AckSucceeds, Moved
  <2>. QED  BY <1>7, <2>1 DEF AckSucceeds
<1>8. CASE AckFails(a, d)
  <2>1. at' \in [Actors -> [Deliveries -> Phases]]
    BY <1>8, TryAgainMoves DEF AckFails, Moved
  <2>. QED  BY <1>8, <2>1 DEF AckFails
<1>. QED  BY <1>2, <1>3, <1>4, <1>5, <1>6, <1>7, <1>8 DEF Finalize

LEMMA SupervisorType ==
  ASSUME TypeOK, Supervisor
  PROVE  TypeOK'
<1>. USE GotoMoves, PhaseNames, ActorNames DEF TypeOK, Moved, history
<1>1. CASE ReceiveRecover
  <2>1. Head(commands) \in Deliveries /\ Tail(commands) \in Seq(Deliveries)
    BY <1>1, ReceiveTails DEF ReceiveRecover
  <2>2. pending' \in Seq(Deliveries) /\ at' \in [Actors -> [Deliveries -> Phases]]
    BY <1>1, <2>1, EnqueueAppends DEF ReceiveRecover, Enqueue
  <2>. QED  BY <1>1, <2>1, <2>2 DEF ReceiveRecover
<1>2. CASE StartRecovery
  <2>1. Head(pending) \in Deliveries /\ Tail(pending) \in Seq(Deliveries)
    BY <1>2, DequeueTails DEF StartRecovery
  <2>2. WorkFor(outstanding[Head(pending)]) \in Phases
    BY <2>1, WorkForPhase
  <2>3. at' \in [Actors -> [Deliveries -> Phases]]
    BY <1>2, <2>1, <2>2 DEF StartRecovery
  <2>. QED  BY <1>2, <2>1, <2>3 DEF StartRecovery
<1>3. ASSUME NEW d \in Deliveries, Requeue(d) \/ DropRecovery(d)
      PROVE  TypeOK'
  <2>1. pending' \in Seq(Deliveries) /\ at' \in [Actors -> [Deliveries -> Phases]]
    BY <1>3, EnqueueAppends DEF Requeue, DropRecovery, Enqueue
  <2>. QED  BY <1>3, <2>1 DEF Requeue, DropRecovery
<1>. QED  BY <1>1, <1>2, <1>3 DEF Supervisor

\* The actors after finalize_outstanding_claims() has taken its snapshot.
LEMMA BeginFinalizationMoves ==
  ASSUME TypeOK, NEW left, BeginFinalization(left)
  PROVE  /\ at' \in [Actors -> [Deliveries -> Phases]]
         /\ \A d \in Deliveries :
              /\ at'["task"][d] = at["task"][d]
              /\ at'["recovery"][d] = IF d \in left THEN at["recovery"][d] ELSE "idle"
              /\ at'["finalizer"][d] = WorkFor(outstanding[d])
<1>1. \A d \in Deliveries : WorkFor(outstanding[d]) \in Phases
  BY WorkForPhase DEF TypeOK
<1>. QED  BY <1>1, PhaseNames DEF BeginFinalization, TypeOK, Actors

\* The actors after the finalisation tasks are gone, and after all but the tasks.
LEMMA StopMoves ==
  ASSUME TypeOK, FinalizersStop
  PROVE  /\ at' \in [Actors -> [Deliveries -> Phases]]
         /\ \A a \in Actors, d \in Deliveries :
              at'[a][d] = IF a = "finalizer" THEN "idle" ELSE at[a][d]
BY PhaseNames DEF FinalizersStop, TypeOK

LEMMA DropMoves ==
  ASSUME TypeOK, Drop
  PROVE  \/ /\ Accepting \/ runtime = "aborting"
            /\ runtime' = "dropped"
            /\ UNCHANGED <<at, commands, pending>>
         \/ /\ runtime \in {"stopping", "finalizing"}
            /\ runtime' = "abandoned"
            /\ at' \in [Actors -> [Deliveries -> Phases]]
            /\ \A a \in Actors, d \in Deliveries :
                 at'[a][d] = IF a = "task" THEN at[a][d] ELSE "idle"
            /\ commands' = <<>> /\ pending' = <<>>
BY PhaseNames DEF Drop, SetRuntime, TypeOK, Actors

LEMMA RunType ==
  ASSUME TypeOK, Run
  PROVE  TypeOK'
<1>. USE DEF TypeOK, history, SetRuntime
<1>1. CASE Shutdown \/ Fail \/ TasksJoined
  <2>1. failed' \in BOOLEAN
    BY <1>1 DEF Shutdown, Fail, TasksJoined
  <2>. QED  BY <1>1, <2>1 DEF Shutdown, Fail, TasksJoined
<1>2. CASE SupervisorStops \/ SupervisorTimesOut
  <2>1. PICK left : BeginFinalization(left)
    BY <1>2 DEF SupervisorStops, SupervisorTimesOut
  <2>2. failed' \in BOOLEAN
    BY <1>2 DEF SupervisorStops, SupervisorTimesOut
  <2>3. at' \in [Actors -> [Deliveries -> Phases]]
    BY <2>1, BeginFinalizationMoves
  <2>. QED  BY <2>1, <2>2, <2>3 DEF BeginFinalization
<1>3. ASSUME NEW d \in Deliveries, JoinFinalizer(d)
      PROVE  TypeOK'
  <2>1. at' \in [Actors -> [Deliveries -> Phases]]
    BY <1>3, GotoMoves, PhaseNames, ActorNames DEF JoinFinalizer, Moved
  <2>. QED  BY <1>3, <2>1 DEF JoinFinalizer, Untrack, Mark, ClaimStates
<1>4. CASE FinalizersStop
  BY <1>4, StopMoves DEF FinalizersStop
<1>5. CASE Drop
  <2>1. at' \in [Actors -> [Deliveries -> Phases]]
    BY <1>5, DropMoves
  <2>2. commands' \in Seq(Deliveries) /\ pending' \in Seq(Deliveries)
    <3>1. <<>> \in Seq(Deliveries)
      OBVIOUS
    <3>2. \/ commands' = commands /\ pending' = pending
          \/ commands' = <<>> /\ pending' = <<>>
      BY <1>5 DEF Drop
    <3>. QED  BY <3>1, <3>2
  <2>. QED  BY <1>5, <2>1, <2>2 DEF Drop
<1>. QED  BY <1>1, <1>2, <1>3, <1>4, <1>5 DEF Run

LEMMA TypeInductive ==
  ASSUME TypeOK, [Next]_vars
  PROVE  TypeOK'
<1>1. CASE UNCHANGED vars
  BY <1>1 DEF vars, history, TypeOK
<1>2. ASSUME NEW e \in Events, Evict(e)
      PROVE  TypeOK'
  BY <1>2, LifecycleAssumption DEF Evict, Free, TypeOK
<1>. QED  BY <1>1, <1>2, TaskType, FinalizeType, SupervisorType, RunType DEF Next

THEOREM TypeCorrect == Spec => []TypeOK
BY InitType, TypeInductive, PTL DEF Spec

----------------------------------------------------------------------------
(* The shape of the steps *)

\* A step of the task of d, which ends in the phase p.
TaskStep(d, p) ==
  /\ Moved("task", d, p)
  /\ at["task"][d] \in {"idle", "claim", "duplicate"} \cup Guarded
  /\ at["task"][d] = "idle" => Accepting
  /\ p \in {"claim", "duplicate", "ended", "panicked"} \cup Guarded
  /\ \/ commands' = commands
     \/ commands' = Append(commands, d) /\ p \in {"ended", "panicked"}
  /\ at["task"][d] \in Guarded /\ p \notin Guarded /\ Tracked(d) =>
       commands' = Append(commands, d)
  /\ \A c \in Deliveries : c # d => outstanding'[c] = outstanding[c]
  /\ \A e \in Events : e # EventOf[d] => store'[e] = store[e]
  /\ \/ store'[EventOf[d]] = store[EventOf[d]]
     \/ /\ store[EventOf[d]] = Free /\ store'[EventOf[d]] = InFlight(d)
        /\ p = "permit" /\ outstanding'[d] = "processing"
  /\ \/ handled' = handled
     \/ /\ at["task"][d] = "handle" /\ handled' = handled \cup {d}
        /\ p = "commit" /\ outstanding'[d] = "commit_pending"
  /\ outstanding'[d] = outstanding[d] \/ p = "permit" \/ p = "commit"
  /\ acked' = acked \/ (at["task"][d] = "duplicate" /\ acked' = acked \cup {d})
  /\ p = "claim" => at["task"][d] = "idle"
  /\ p = "duplicate" => \/ at["task"][d] = "duplicate"
                        \/ at["task"][d] = "claim" /\ store[EventOf[d]].state = "committed"
  /\ p = "permit" => at["task"][d] = "claim" /\ store'[EventOf[d]] = InFlight(d)
                     /\ outstanding'[d] = "processing"
  /\ p = "handle" => at["task"][d] = "permit"
  /\ p = "release" => at["task"][d] = "handle" /\ handled' = handled
  /\ p = "commit" => at["task"][d] = "handle" /\ d \in handled'
                     /\ outstanding'[d] = "commit_pending"
  /\ p # "ack"
  /\ UNCHANGED <<pending, runtime, failed, result, refused, evicted, committed>>

LEMMA TaskShape ==
  ASSUME TypeOK, NEW d \in Deliveries, Task(d)
  PROVE  \E p \in Phases : TaskStep(d, p)
<1>. USE PhaseNames, ActorNames, GotoMoves DEF TaskStep, history, Guarded, Finalizing
<1>0. EventOf[d] \in Events
  BY LifecycleAssumption
<1>1. CASE Begin(d)
  <2>1. TaskStep(d, "claim")
    BY <1>1 DEF Begin
  <2>. QED  BY <2>1
<1>2. CASE ClaimGranted(d)
  <2>1. TaskStep(d, "permit")
    BY <1>0, <1>2 DEF ClaimGranted, Mark, TypeOK
  <2>. QED  BY <2>1
<1>3. CASE ClaimDuplicate(d)
  <2>1. TaskStep(d, "duplicate")
    BY <1>3 DEF ClaimDuplicate
  <2>. QED  BY <2>1
<1>4. CASE ClaimRejected(d)
  <2>1. TaskStep(d, "ended")
    BY <1>4 DEF ClaimRejected
  <2>. QED  BY <2>1
<1>5. CASE AckDuplicate(d)
  <2>1. TaskStep(d, "ended") \/ TaskStep(d, "duplicate")
    BY <1>5, StayMoves DEF AckDuplicate
  <2>. QED  BY <2>1
<1>6. CASE StartHandlers(d)
  <2>1. TaskStep(d, "handle")
    BY <1>6 DEF StartHandlers
  <2>. QED  BY <2>1
<1>7. CASE HandlersSucceed(d)
  <2>1. TaskStep(d, "commit")
    BY <1>7 DEF HandlersSucceed, Mark, TypeOK
  <2>. QED  BY <2>1
<1>8. CASE HandlerFails(d)
  <2>1. TaskStep(d, "release")
    BY <1>8 DEF HandlerFails
  <2>. QED  BY <2>1
<1>9. CASE HandlerPanics(d)
  <2>1. TaskStep(d, "panicked")
    BY <1>9 DEF HandlerPanics, DropGuard
  <2>. QED  BY <2>1
<1>10. CASE Abort(d)
  <2>1. TaskStep(d, "ended")
    BY <1>10 DEF Abort, DropGuard
  <2>. QED  BY <2>1
<1>. QED  BY <1>1, <1>2, <1>3, <1>4, <1>5, <1>6, <1>7, <1>8, <1>9, <1>10 DEF Task

\* The attempt was the last one: the store has let go of the claim, or the
\* adapter has been told.
Settled(a, d) ==
  \/ at[a][d] = "release" /\ store'[EventOf[d]] # InFlight(d)
  \/ at[a][d] = "ack" /\ d \in acked'

\* One attempt of the actor a at finalising d, which ends in the phase p.
FinalizeStep(a, d, p) ==
  /\ Moved(a, d, p)
  /\ at[a][d] \in Finalizing
  /\ a = "task" => p \in Finalizing \cup {"ended"}
  /\ a = "recovery" => p \in Finalizing \cup {"idle", "pause"}
  /\ a = "finalizer" => p \in Finalizing \cup {"succeeded", "failed"}
  /\ \/ commands' = commands
     \/ commands' = Append(commands, d) /\ a = "task" /\ p = "ended"
  /\ \A c \in Deliveries :
       /\ c # d => outstanding'[c] = outstanding[c]
       /\ Tracked(c)' => Tracked(c)
  /\ Tracked(d)' /\ p \in {"ended", "idle"} => d \in refused'
  /\ refused \subseteq refused'
  /\ \A e \in Events : e # EventOf[d] => store'[e] = store[e]
  /\ \/ store'[EventOf[d]] = store[EventOf[d]] /\ committed' = committed
     \/ /\ at[a][d] = "commit" /\ Committable(d)
        /\ store'[EventOf[d]] = Committed(d) /\ committed' = committed \cup {d}
     \/ /\ at[a][d] = "release" /\ store[EventOf[d]] = InFlight(d)
        /\ store'[EventOf[d]] = Free /\ committed' = committed
  /\ acked' = acked \/ (at[a][d] = "ack" /\ acked' = acked \cup {d})
  /\ \/ outstanding'[d] = outstanding[d]
     \/ /\ at[a][d] = "commit" /\ d \in committed'
        /\ outstanding'[d] = IF Tracked(d) THEN "ack_pending" ELSE "none"
     \/ outstanding'[d] = "none" /\ Settled(a, d)
  /\ p = "succeeded" => Settled(a, d)
  /\ p = "release" => at[a][d] = "release"
  /\ p = "commit" => at[a][d] = "commit"
  /\ p = "ack" => at[a][d] = "ack" \/ d \in committed'
  /\ UNCHANGED <<pending, runtime, failed, result, handled, evicted>>

LEMMA FinalizeShape ==
  ASSUME TypeOK, NEW a \in Actors, NEW d \in Deliveries, Finalize(a, d)
  PROVE  \E p \in Phases : FinalizeStep(a, d, p)
<1>. USE DEF FinalizeStep, Finalizing, history
<1>0. EventOf[d] \in Events
  BY LifecycleAssumption
<1>1. CASE CommitSucceeds(a, d)
  <2>1. Moved(a, d, "ack") /\ "ack" \in Phases
    BY <1>1, GotoMoves, PhaseNames DEF CommitSucceeds
  <2>2. \A c \in Deliveries :
          /\ c # d => outstanding'[c] = outstanding[c]
          /\ Tracked(c)' => Tracked(c)
    BY <1>1 DEF CommitSucceeds, Mark, Tracked, TypeOK
  <2>3. /\ \A e \in Events : e # EventOf[d] => store'[e] = store[e]
        /\ store'[EventOf[d]] = Committed(d) /\ committed' = committed \cup {d}
        /\ outstanding'[d] = IF Tracked(d) THEN "ack_pending" ELSE "none"
    BY <1>0, <1>1 DEF CommitSucceeds, StoreCommits, Mark, TypeOK
  <2>4. FinalizeStep(a, d, "ack")
    BY <1>1, <2>1, <2>2, <2>3 DEF CommitSucceeds
  <2>. QED  BY <2>1, <2>4
<1>2. CASE CommitFails(a, d) \/ ReleaseFails(a, d) \/ AckFails(a, d)
  <2>1. PICK p \in Phases :
          /\ Moved(a, d, p)
          /\ \/ p = at[a][d]
             \/ a = "recovery" /\ p = "pause"
             \/ a = "finalizer" /\ p = "failed"
    BY <1>2, TryAgainMoves DEF CommitFails, ReleaseFails, AckFails
  <2>2. /\ at[a][d] \in Finalizing
        /\ UNCHANGED <<outstanding, commands, refused, pending, runtime, failed, result,
                       handled, evicted>>
    BY <1>2 DEF CommitFails, ReleaseFails, AckFails
  <2>3. CASE UNCHANGED <<store, committed>>
    <3>1. acked' = acked \/ (at[a][d] = "ack" /\ acked' = acked \cup {d})
      BY <1>2 DEF CommitFails, ReleaseFails, AckFails
    <3>2. FinalizeStep(a, d, p)
      BY <2>1, <2>2, <2>3, <3>1 DEF Tracked
    <3>. QED  BY <3>2
  <2>4. CASE CommitFails(a, d) /\ Committable(d) /\ StoreCommits(d)
    <3>1. /\ \A e \in Events : e # EventOf[d] => store'[e] = store[e]
          /\ store'[EventOf[d]] = Committed(d) /\ committed' = committed \cup {d}
      BY <1>0, <2>4 DEF StoreCommits, TypeOK
    <3>2. FinalizeStep(a, d, p)
      BY <2>1, <2>2, <2>4, <3>1 DEF CommitFails, Tracked
    <3>. QED  BY <3>2
  <2>5. CASE ReleaseFails(a, d) /\ StoreReleases(d)
    <3>1. /\ \A e \in Events : e # EventOf[d] => store'[e] = store[e]
          /\ store'[EventOf[d]] = IF store[EventOf[d]] = InFlight(d) THEN Free
                                  ELSE store[EventOf[d]]
      BY <1>0, <2>5 DEF StoreReleases, TypeOK
    <3>2. FinalizeStep(a, d, p)
      BY <2>1, <2>2, <2>5, <3>1 DEF ReleaseFails, Tracked
    <3>. QED  BY <3>2
  <2>. QED  BY <1>2, <2>3, <2>4, <2>5 DEF CommitFails, ReleaseFails, AckFails
<1>3. CASE CommitRefused(a, d) \/ ReleaseRefused(a, d)
  <2>1. GiveUp(a, d)
    BY <1>3 DEF CommitRefused, ReleaseRefused
  <2>2. /\ Moved(a, d, Refused(a)) /\ Refused(a) \in Phases
        /\ refused' = refused \cup {d} /\ outstanding' = outstanding
        /\ commands' = IF a = "task" /\ Tracked(d) THEN Append(commands, d) ELSE commands
    BY <2>1, GiveUpMoves
  <2>3. FinalizeStep(a, d, Refused(a))
    BY <1>3, <2>2 DEF CommitRefused, ReleaseRefused, Refused, Tracked, Actors
  <2>. QED  BY <2>2, <2>3
<1>4. CASE ReleaseSucceeds(a, d) \/ AckSucceeds(a, d)
  <2>1. Settle(a, d)
    BY <1>4 DEF ReleaseSucceeds, AckSucceeds
  <2>2. /\ Moved(a, d, Done(a)) /\ Done(a) \in Phases
        /\ \A c \in Deliveries :
             outstanding'[c] = IF c = d /\ a # "finalizer" THEN "none" ELSE outstanding[c]
    BY <2>1, SettleMoves
  <2>3. Done("task") = "ended" /\ Done("recovery") = "idle" /\ Done("finalizer") = "succeeded"
    BY DEF Done
  <2>4. /\ at[a][d] \in Finalizing
        /\ UNCHANGED <<commands, refused, pending, runtime, failed, result, handled, evicted>>
    BY <1>4 DEF ReleaseSucceeds, AckSucceeds
  <2>5. /\ \A e \in Events : e # EventOf[d] => store'[e] = store[e]
        /\ \/ store'[EventOf[d]] = store[EventOf[d]] /\ committed' = committed
           \/ /\ at[a][d] = "release" /\ store[EventOf[d]] = InFlight(d)
              /\ store'[EventOf[d]] = Free /\ committed' = committed
        /\ Settled(a, d)
        /\ acked' = acked \/ (at[a][d] = "ack" /\ acked' = acked \cup {d})
    <3>1. CASE ReleaseSucceeds(a, d)
      <4>1. /\ \A e \in Events : e # EventOf[d] => store'[e] = store[e]
            /\ store'[EventOf[d]] = IF store[EventOf[d]] = InFlight(d) THEN Free
                                    ELSE store[EventOf[d]]
        BY <1>0, <3>1 DEF ReleaseSucceeds, StoreReleases, TypeOK
      <4>. QED  BY <3>1, <4>1 DEF ReleaseSucceeds, Settled, Free, InFlight
    <3>2. CASE AckSucceeds(a, d)
      BY <3>2 DEF AckSucceeds, Settled
    <3>. QED  BY <1>4, <3>1, <3>2
  <2>6. FinalizeStep(a, d, Done(a))
    BY <2>2, <2>3, <2>4, <2>5 DEF Tracked, Actors
  <2>. QED  BY <2>2, <2>6
<1>. QED  BY <1>1, <1>2, <1>3, <1>4 DEF Finalize

\* Neither the supervisor nor Runtime::run touch the store; an actor of theirs
\* starts with the work the tracked state calls for.
OtherStep ==
  /\ UNCHANGED <<store, handled, committed, acked, refused, evicted>>
  /\ \A a \in Actors, d \in Deliveries :
       \/ at'[a][d] = at[a][d]
       \/ a # "task" /\ at'[a][d] \in {"queued", "idle", WorkFor(outstanding[d])}
  /\ \A d \in Deliveries :
       \/ outstanding'[d] = outstanding[d]
       \/ at["finalizer"][d] = "succeeded" /\ outstanding'[d] = "none"

LEMMA OtherShape ==
  ASSUME TypeOK, Supervisor \/ Run
  PROVE  OtherStep
<1>. USE ActorNames DEF OtherStep, history
<1>1. CASE ReceiveRecover
  <2>1. Head(commands) \in Deliveries
    BY <1>1, ReceiveTails DEF ReceiveRecover
  <2>2. UNCHANGED at \/ Moved("recovery", Head(commands), "queued")
    BY <1>1, <2>1, GotoMoves, PhaseNames DEF ReceiveRecover, Enqueue
  <2>. QED  BY <1>1, <2>1, <2>2 DEF ReceiveRecover, Moved
<1>2. CASE StartRecovery
  <2>1. Head(pending) \in Deliveries
    BY <1>2, DequeueTails DEF StartRecovery
  <2>2. Moved("recovery", Head(pending), WorkFor(outstanding[Head(pending)]))
    BY <1>2, <2>1, GotoMoves, WorkForPhase DEF StartRecovery, TypeOK
  <2>. QED  BY <1>2, <2>1, <2>2 DEF StartRecovery, Moved
<1>3. ASSUME NEW d \in Deliveries, Requeue(d) \/ DropRecovery(d)
      PROVE  OtherStep
  <2>1. Moved("recovery", d, "queued") \/ Moved("recovery", d, "idle")
    BY <1>3, GotoMoves, PhaseNames DEF Requeue, DropRecovery, Enqueue
  <2>. QED  BY <1>3, <2>1 DEF Requeue, DropRecovery, Moved
<1>4. CASE Shutdown \/ Fail \/ TasksJoined
  BY <1>4 DEF Shutdown, Fail, TasksJoined
<1>5. CASE SupervisorStops \/ SupervisorTimesOut
  <2>1. PICK left : BeginFinalization(left)
    BY <1>5 DEF SupervisorStops, SupervisorTimesOut
  <2>. QED  BY <2>1, BeginFinalizationMoves DEF BeginFinalization, Actors
<1>6. ASSUME NEW d \in Deliveries, JoinFinalizer(d)
      PROVE  OtherStep
  <2>1. Moved("finalizer", d, "idle")
    BY <1>6, GotoMoves, PhaseNames DEF JoinFinalizer
  <2>. QED  BY <1>6, <2>1 DEF JoinFinalizer, Untrack, Mark, TypeOK, Moved
<1>7. CASE FinalizersStop
  BY <1>7, StopMoves DEF FinalizersStop
<1>8. CASE Drop
  BY <1>8, DropMoves DEF Drop
<1>. QED  BY <1>1, <1>2, <1>3, <1>4, <1>5, <1>6, <1>7, <1>8 DEF Supervisor, Run

----------------------------------------------------------------------------
(* Who works on a claim *)

LEMMA TaskAloneKept ==
  ASSUME IInv, Next
  PROVE  TaskAlone'
<1>. USE DEF IInv
<1>1. ASSUME NEW d \in Deliveries, Task(d)
      PROVE  TaskAlone'
  <2>1. PICK p \in Phases : TaskStep(d, p)
    BY <1>1, TaskShape
  <2>2. \A c : Queued(c)' <=> Queued(c)
    BY <2>1 DEF TaskStep, Queued
  <2>3. \A c : Sent(c)' => Sent(c) \/ (c = d /\ p \in {"ended", "panicked"})
    BY <2>1, SendAppends DEF TaskStep, Sent
  <2>4. at["task"][d] \notin {"ended", "panicked"}
    BY <2>1 DEF TaskStep, Guarded, Finalizing
  <2>. QED  BY <2>1, <2>2, <2>3, <2>4, ActorNames DEF TaskStep, Moved, TaskAlone, Scheduled
<1>2. ASSUME NEW a \in Actors, NEW d \in Deliveries, Finalize(a, d)
      PROVE  TaskAlone'
  <2>1. PICK p \in Phases : FinalizeStep(a, d, p)
    BY <1>2, FinalizeShape
  <2>2. \A c : Queued(c)' <=> Queued(c)
    BY <2>1 DEF FinalizeStep, Queued
  <2>3. \A c : Sent(c)' => Sent(c) \/ (c = d /\ a = "task" /\ p = "ended")
    BY <2>1, SendAppends DEF FinalizeStep, Sent
  <2>. QED  BY <2>1, <2>2, <2>3, ActorNames DEF FinalizeStep, Moved, TaskAlone, Scheduled, Finalizing
<1>3. CASE ReceiveRecover
  <2>1. /\ Head(commands) \in Deliveries /\ Sent(Head(commands))
        /\ \A c : Sent(c)' => Sent(c)
    BY <1>3, ReceiveTails DEF ReceiveRecover
  <2>2. CASE Scheduled(Head(commands))
    BY <1>3, <2>1, <2>2 DEF ReceiveRecover, TaskAlone, Queued, Scheduled
  <2>3. CASE ~Scheduled(Head(commands))
    <3>1. Moved("recovery", Head(commands), "queued")
      BY <1>3, <2>1, <2>3, GotoMoves, PhaseNames, ActorNames DEF ReceiveRecover, Enqueue
    <3>2. \A c : Queued(c)' => Queued(c) \/ c = Head(commands)
      BY <1>3, <2>1, <2>3, EnqueueAppends DEF ReceiveRecover, Enqueue
    <3>. QED  BY <2>1, <3>1, <3>2, ActorNames DEF TaskAlone, Moved, Scheduled
  <2>. QED  BY <2>2, <2>3
<1>4. CASE StartRecovery
  <2>1. /\ Head(pending) \in Deliveries /\ Queued(Head(pending))
        /\ \A c : Queued(c)' => Queued(c)
    BY <1>4, DequeueTails DEF StartRecovery
  <2>2. WorkFor(outstanding[Head(pending)]) \in Phases
    BY <2>1, WorkForPhase DEF TypeOK
  <2>3. Moved("recovery", Head(pending), WorkFor(outstanding[Head(pending)]))
    BY <1>4, <2>1, <2>2, GotoMoves, ActorNames DEF StartRecovery
  <2>. QED  BY <1>4, <2>1, <2>3, ActorNames DEF StartRecovery, TaskAlone, Moved, Scheduled, Sent
<1>5. ASSUME NEW d \in Deliveries, Requeue(d) \/ DropRecovery(d)
      PROVE  TaskAlone'
  <2>1. Scheduled(d)
    BY <1>5 DEF Requeue, DropRecovery, Scheduled, Recovering, Finalizing
  <2>2. \A c : (Sent(c)' <=> Sent(c)) /\ (Queued(c)' => Queued(c) \/ c = d)
    BY <1>5, EnqueueAppends DEF Requeue, DropRecovery, Enqueue, Sent, Queued
  <2>3. Moved("recovery", d, "queued") \/ Moved("recovery", d, "idle")
    BY <1>5, GotoMoves, PhaseNames, ActorNames DEF Requeue, DropRecovery, Enqueue
  <2>. QED  BY <2>1, <2>2, <2>3, ActorNames DEF TaskAlone, Moved, Scheduled
<1>6. CASE Shutdown \/ Fail \/ TasksJoined \/ \E e \in Events : Evict(e)
  BY <1>6 DEF Shutdown, Fail, TasksJoined, Evict, TaskAlone, Sent, Queued, Scheduled
<1>7. CASE SupervisorStops \/ SupervisorTimesOut
  <2>1. PICK left : BeginFinalization(left)
    BY <1>7 DEF SupervisorStops, SupervisorTimesOut
  <2>2. \A c : ~Sent(c)' /\ ~Queued(c)'
    BY <2>1 DEF BeginFinalization, Sent, Queued
  <2>3. \A d \in Deliveries :
          /\ Scheduled(d)' => Scheduled(d)
          /\ at'["finalizer"][d] # "idle" => Tracked(d)
          /\ at'["task"][d] = at["task"][d]
    BY <2>1, BeginFinalizationMoves, WorkForPhase DEF Scheduled, Tracked, TypeOK
  <2>4. \A d \in Deliveries : Tracked(d) => at["task"][d] \in {"ended", "panicked"}
    BY <1>7 DEF SupervisorStops, SupervisorTimesOut, RuntimeShape, TaskMatches, TaskMatchesAt
  <2>. QED  BY <2>2, <2>3, <2>4 DEF TaskAlone
<1>8. ASSUME NEW d \in Deliveries, JoinFinalizer(d)
      PROVE  TaskAlone'
  <2>1. Moved("finalizer", d, "idle")
    BY <1>8, GotoMoves, PhaseNames, ActorNames DEF JoinFinalizer
  <2>. QED  BY <1>8, <2>1, ActorNames DEF JoinFinalizer, Moved, TaskAlone, Sent, Queued, Scheduled
<1>9. CASE FinalizersStop
  BY <1>9, StopMoves, ActorNames DEF FinalizersStop, TaskAlone, Sent, Queued, Scheduled
<1>10. CASE Drop
  BY <1>10, DropMoves, ActorNames DEF TaskAlone, Sent, Queued, Scheduled
<1>. QED  BY <1>1, <1>2, <1>3, <1>4, <1>5, <1>6, <1>7, <1>8, <1>9, <1>10 DEF Next, Supervisor, Run

LEMMA RuntimeShapeKept ==
  ASSUME IInv, Next
  PROVE  RuntimeShape'
<1>. USE DEF IInv, SetRuntime
<1>1. ASSUME NEW d \in Deliveries, Task(d)
      PROVE  RuntimeShape'
  <2>1. PICK p \in Phases : TaskStep(d, p)
    BY <1>1, TaskShape
  <2>2. runtime \notin {"stopping", "finalizing", "stopped", "abandoned"}
    BY <2>1 DEF TaskStep, RuntimeShape, Guarded, Finalizing, Accepting
  <2>. QED  BY <2>1, <2>2, ActorNames DEF TaskStep, RuntimeShape, Moved
<1>2. ASSUME NEW a \in Actors, NEW d \in Deliveries, Finalize(a, d)
      PROVE  RuntimeShape'
  <2>1. PICK p \in Phases : FinalizeStep(a, d, p)
    BY <1>2, FinalizeShape
  <2>2. /\ a = "finalizer" => runtime = "finalizing"
        /\ a = "task" => runtime \notin {"stopping", "finalizing", "stopped", "abandoned"}
        /\ a = "recovery" => Scheduled(d)
    BY <2>1 DEF FinalizeStep, RuntimeShape, Finalizing, Scheduled
  <2>. QED  BY <2>1, <2>2, ActorNames
            DEF FinalizeStep, RuntimeShape, Moved, Scheduled, Tracked, Finalizing
<1>3. CASE ReceiveRecover \/ StartRecovery \/ \E d \in Deliveries : Requeue(d)
  <2>1. Supervising /\ UNCHANGED <<runtime, failed, result, outstanding>>
    BY <1>3 DEF ReceiveRecover, StartRecovery, Requeue
  <2>2. \A a \in Actors, d \in Deliveries : a # "recovery" => at'[a][d] = at[a][d]
    <3>1. UNCHANGED at \/ \E d \in Deliveries, p \in Phases : Moved("recovery", d, p)
      <4>1. CASE ReceiveRecover
        BY <4>1, ReceiveTails, GotoMoves, PhaseNames, ActorNames DEF ReceiveRecover, Enqueue
      <4>2. CASE StartRecovery
        <5>1. Head(pending) \in Deliveries
          BY <4>2, DequeueTails DEF StartRecovery
        <5>2. WorkFor(outstanding[Head(pending)]) \in Phases
          BY <5>1, WorkForPhase DEF TypeOK
        <5>. QED  BY <4>2, <5>1, <5>2, GotoMoves, ActorNames DEF StartRecovery
      <4>3. CASE \E d \in Deliveries : Requeue(d)
        BY <4>3, GotoMoves, PhaseNames, ActorNames DEF Requeue, Enqueue
      <4>. QED  BY <1>3, <4>1, <4>2, <4>3
    <3>. QED  BY <3>1 DEF Moved
  <2>. QED  BY <2>1, <2>2, ActorNames DEF RuntimeShape, Supervising, Tracked
<1>4. ASSUME NEW d \in Deliveries, DropRecovery(d)
      PROVE  RuntimeShape'
  <2>1. Moved("recovery", d, "idle")
    BY <1>4, GotoMoves, PhaseNames, ActorNames DEF DropRecovery
  <2>. QED  BY <1>4, <2>1, ActorNames DEF DropRecovery, Moved, RuntimeShape, Scheduled, Tracked
<1>5. CASE Shutdown \/ Fail \/ TasksJoined
  BY <1>5 DEF Shutdown, Fail, TasksJoined, Accepting, RuntimeShape
<1>6. CASE SupervisorStops \/ SupervisorTimesOut
  <2>1. PICK left : BeginFinalization(left) /\ (failed' = TRUE \/ left = {})
    BY <1>6 DEF SupervisorStops, SupervisorTimesOut
  <2>2. runtime = "stopping" /\ runtime' = "finalizing" /\ UNCHANGED <<outstanding, result>>
    BY <1>6, <2>1 DEF SupervisorStops, SupervisorTimesOut, BeginFinalization
  <2>3. \A d \in Deliveries : Tracked(d) => WorkFor(outstanding[d]) # "idle"
    BY WorkForPhase DEF Tracked, TypeOK
  <2>. QED  BY <2>1, <2>2, <2>3, BeginFinalizationMoves DEF RuntimeShape, Scheduled, Tracked
<1>7. ASSUME NEW d \in Deliveries, JoinFinalizer(d)
      PROVE  RuntimeShape'
  <2>1. Moved("finalizer", d, "idle")
    BY <1>7, GotoMoves, PhaseNames, ActorNames DEF JoinFinalizer
  <2>. QED  BY <1>7, <2>1, ActorNames
            DEF JoinFinalizer, Untrack, Mark, TypeOK, Moved, RuntimeShape, Scheduled, Tracked
<1>8. CASE FinalizersStop
  BY <1>8, StopMoves, ActorNames DEF FinalizersStop, RuntimeShape, Scheduled
<1>9. CASE Drop
  <2>1. result' = result /\ failed' = failed
    BY <1>9 DEF Drop
  <2>. QED  BY <1>9, <2>1, DropMoves, ActorNames DEF RuntimeShape, Accepting
<1>10. CASE \E e \in Events : Evict(e)
  BY <1>10 DEF Evict, RuntimeShape, Scheduled, Tracked
<1>. QED  BY <1>1, <1>2, <1>3, <1>4, <1>5, <1>6, <1>7, <1>8, <1>9, <1>10 DEF Next, Supervisor, Run

----------------------------------------------------------------------------
(* What the finalizers do to the store *)

\* The invariants that relate the store and the histories to the phases.
Effects ==
  /\ StoreMatches
  /\ HandledKept
  /\ TaskMatches
  /\ WorkMatches
  /\ HandledSettled
  /\ StateMatchesEffects
  /\ AckAfterCommit

\* The values of the store tell apart the state and the holder.
LEMMA StoreValues ==
  \A c, d :
    /\ Free # InFlight(d) /\ Free # Committed(d) /\ InFlight(c) # Committed(d)
    /\ InFlight(c) = InFlight(d) => c = d
    /\ Committed(c) = Committed(d) => c = d
    /\ Free.state = "free"
    /\ InFlight(d).state = "in_flight" /\ InFlight(d).by = d
    /\ Committed(d).state = "committed" /\ Committed(d).by = d
<1>1. \A c, d : /\ Free.state = "free"
                /\ InFlight(d).state = "in_flight" /\ InFlight(d).by = d
                /\ Committed(d).state = "committed" /\ Committed(d).by = d
  BY DEF Free, InFlight, Committed
<1>. QED  BY <1>1

\* A claim in flight is that of the delivery it names.
LEMMA HolderInFlight ==
  ASSUME TypeOK, NEW e \in Events, store[e].state = "in_flight"
  PROVE  store[e] = InFlight(store[e].by)
BY DEF TypeOK, InFlight

LEMMA TaskKeepsEffects ==
  ASSUME IInv, NEW d \in Deliveries, NEW p \in Phases, TaskStep(d, p)
  PROVE  Effects'
<1>. USE StoreValues, ActorNames DEF IInv
<1>0. EventOf \in [Deliveries -> Events] /\ TaskMatchesAt(d)
  BY LifecycleAssumption DEF TaskMatches
<1>1. /\ \A a \in Actors, c \in Deliveries : (a # "task" \/ c # d) => at'[a][c] = at[a][c]
      /\ at'["task"][d] = p
  BY DEF TaskStep, Moved
<1>2. \A a \in Actors : a # "task" => at[a][d] = "idle"
  BY DEF TaskStep, TaskAlone, Guarded, Finalizing, Scheduled, Actors
<1>3. /\ committed' = committed /\ evicted' = evicted
      /\ handled \subseteq handled' /\ handled' \subseteq Deliveries
      /\ acked \subseteq acked' /\ acked' \subseteq Deliveries
      /\ \A c \in Deliveries : Tracked(c) => Tracked(c)'
  BY DEF TaskStep, Tracked, TypeOK
<1>4. \A e \in Events :
        \/ store'[e] = store[e]
        \/ /\ e = EventOf[d] /\ store[e] = Free /\ store'[e] = InFlight(d)
           /\ p = "permit" /\ at["task"][d] = "claim" /\ Tracked(d)'
  BY DEF TaskStep, Tracked
<1>5. \A c \in Deliveries : c # d => /\ c \in handled' <=> c \in handled
                                     /\ c \in acked' <=> c \in acked
                                     /\ outstanding'[c] = outstanding[c]
  BY DEF TaskStep
<1>6. /\ d \in handled' /\ d \notin handled =>
           at["task"][d] = "handle" /\ p = "commit" /\ outstanding'[d] = "commit_pending"
      /\ d \in acked' /\ d \notin acked => at["task"][d] = "duplicate"
  BY DEF TaskStep
<1>7. StoreMatches'
  <2>1. ASSUME NEW e \in Events PROVE EntryMatches(e)'
    <3>1. EntryMatches(e)
      BY DEF StoreMatches
    <3>. QED  BY <1>3, <1>4, <3>1 DEF EntryMatches
  <2>2. ASSUME NEW c \in committed' PROVE c \in handled' /\ store'[EventOf[c]] # InFlight(c)
    BY <1>0, <1>3, <1>4, <2>2 DEF StoreMatches, TypeOK, TaskMatchesAt
  <2>. QED  BY <2>1, <2>2 DEF StoreMatches
<1>8. HandledKept'
  <2>. SUFFICES ASSUME NEW c \in Deliveries, c \in handled', EventOf[c] \notin evicted
                PROVE  store'[EventOf[c]] \in {InFlight(c), Committed(c)}
    BY <1>3 DEF HandledKept
  <2>1. store[EventOf[c]] \in {InFlight(c), Committed(c)}
    BY <1>0, <1>5, <1>6 DEF HandledKept, TaskMatchesAt
  <2>. QED  BY <1>0, <1>4, <2>1
<1>9. TaskMatches'
  <2>. SUFFICES ASSUME NEW c \in Deliveries PROVE TaskMatchesAt(c)'
    BY DEF TaskMatches
  <2>1. CASE c # d
    <3>1. TaskMatchesAt(c)
      BY DEF TaskMatches
    <3>2. /\ at'["task"][c] = at["task"][c] /\ Tracked(c)' = Tracked(c)
          /\ c \in handled' <=> c \in handled
          /\ c \in acked' <=> c \in acked
          /\ store[EventOf[c]] = InFlight(c) => store'[EventOf[c]] = InFlight(c)
      BY <1>0, <1>1, <1>4, <1>5, <2>1 DEF Tracked
    <3>. QED  BY <1>3, <3>1, <3>2 DEF TaskMatchesAt
  <2>2. CASE c = d
    <3>1. p \in {"claim", "duplicate"} => outstanding'[d] = outstanding[d]
      BY DEF TaskStep
    <3>2. p = "duplicate" => \E b \in committed : EventOf[b] = EventOf[d]
      <4>1. EntryMatches(EventOf[d])
        BY <1>0 DEF StoreMatches
      <4>. QED  BY <1>0, <4>1 DEF EntryMatches, TaskMatchesAt, TaskStep
    <3>. QED  BY <1>0, <1>1, <1>3, <1>4, <1>6, <3>1, <3>2, <2>2
              DEF TaskMatchesAt, TaskStep, Tracked, Guarded, Finalizing
  <2>. QED  BY <2>1, <2>2
<1>10. WorkMatches'
  <2>. SUFFICES ASSUME NEW a \in Actors, NEW c \in Deliveries PROVE WorkMatchesAt(a, c)'
    BY DEF WorkMatches
  <2>1. CASE c # d
    <3>1. WorkMatchesAt(a, c)
      BY DEF WorkMatches
    <3>2. store[EventOf[c]] # InFlight(c) => store'[EventOf[c]] # InFlight(c)
      BY <1>0, <1>4, <2>1
    <3>. QED  BY <1>1, <1>3, <1>5, <2>1, <3>1, <3>2 DEF WorkMatchesAt
  <2>2. CASE c = d /\ a # "task"
    BY <1>1, <1>2, <2>2 DEF WorkMatchesAt
  <2>3. CASE c = d /\ a = "task"
    BY <1>0, <1>1, <2>3 DEF WorkMatchesAt, TaskMatchesAt, TaskStep, Guarded, Finalizing
  <2>. QED  BY <2>1, <2>2, <2>3
<1>11. HandledSettled'
  BY <1>3, <1>5, <1>6 DEF HandledSettled, Tracked
<1>12. StateMatchesEffects'
  <2>. SUFFICES ASSUME NEW c \in Deliveries
                PROVE  /\ outstanding'[c] = "processing" => c \notin handled' \cup committed'
                       /\ outstanding'[c] = "commit_pending" => c \in handled'
                       /\ outstanding'[c] = "ack_pending" => c \in handled' \cap committed'
    BY DEF StateMatchesEffects
  <2>1. \/ outstanding'[d] = outstanding[d]
        \/ outstanding'[d] = "processing" /\ at["task"][d] = "claim"
        \/ outstanding'[d] = "commit_pending" /\ d \in handled'
    BY DEF TaskStep
  <2>2. committed \subseteq handled
    BY DEF StoreMatches
  <2>. QED  BY <1>0, <1>3, <1>5, <1>6, <2>1, <2>2 DEF StateMatchesEffects, TaskMatchesAt
<1>13. AckAfterCommit'
  BY <1>0, <1>3, <1>5, <1>6 DEF AckAfterCommit, TaskMatchesAt, TypeOK
<1>. QED  BY <1>7, <1>8, <1>9, <1>10, <1>11, <1>12, <1>13 DEF Effects

LEMMA FinalizeKeepsEffects ==
  ASSUME IInv, NEW a \in Actors, NEW d \in Deliveries, NEW p \in Phases, FinalizeStep(a, d, p)
  PROVE  Effects'
<1>. USE StoreValues, ActorNames DEF IInv
<1>0. EventOf \in [Deliveries -> Events] /\ WorkMatchesAt(a, d)
  BY LifecycleAssumption DEF WorkMatches
<1>1. /\ \A b \in Actors, c \in Deliveries : (b # a \/ c # d) => at'[b][c] = at[b][c]
      /\ at'[a][d] = p
  BY DEF FinalizeStep, Moved
<1>2. /\ handled' = handled /\ evicted' = evicted /\ handled \subseteq Deliveries
      /\ committed \subseteq committed' /\ committed' \subseteq Deliveries
      /\ acked \subseteq acked' /\ acked' \subseteq Deliveries
      /\ \A c \in Deliveries : Tracked(c)' => Tracked(c)
  BY DEF FinalizeStep, TypeOK
<1>3. /\ \A e \in Events : e # EventOf[d] => store'[e] = store[e]
      /\ \/ store'[EventOf[d]] = store[EventOf[d]] /\ committed' = committed
         \/ /\ d \in handled /\ store[EventOf[d]] \in {InFlight(d), Committed(d)}
            /\ store'[EventOf[d]] = Committed(d) /\ committed' = committed \cup {d}
         \/ /\ d \notin handled /\ store[EventOf[d]] = InFlight(d)
            /\ store'[EventOf[d]] = Free /\ committed' = committed
  BY <1>0 DEF FinalizeStep, Committable, WorkMatchesAt
<1>4. \A c \in Deliveries : c # d => /\ c \in committed' <=> c \in committed
                                     /\ c \in acked' <=> c \in acked
                                     /\ outstanding'[c] = outstanding[c]
  BY DEF FinalizeStep
<1>5. d \in acked' /\ d \notin acked => at[a][d] = "ack" /\ d \in committed
  BY <1>0 DEF FinalizeStep, WorkMatchesAt
<1>6. committed' \subseteq handled /\ \A c \in committed : store[EventOf[c]] # InFlight(c)
  BY <1>3, <1>4, <1>2 DEF StoreMatches
<1>7. Settled(a, d) => /\ store'[EventOf[d]] # InFlight(d)
                       /\ d \in handled => d \in committed' \cap acked'
  BY <1>0, <1>2, <1>3, <1>6 DEF Settled, WorkMatchesAt
<1>8. StoreMatches'
  <2>1. ASSUME NEW e \in Events PROVE EntryMatches(e)'
    <3>1. EntryMatches(e)
      BY DEF StoreMatches
    <3>2. CASE store'[e] = store[e]
      <4>1. ASSUME store[e].state = "in_flight" PROVE Tracked(store[e].by)'
        <5>1. store[e] = InFlight(store[e].by)
          BY <4>1, HolderInFlight
        <5>2. CASE store[e].by = d
          <6>1. e = EventOf[d] /\ store[e] = InFlight(d) /\ Tracked(d)
            BY <3>1, <4>1, <5>1, <5>2 DEF EntryMatches
          <6>2. d \notin committed' /\ ~Settled(a, d)
            BY <1>0, <1>3, <1>6, <1>7, <3>2, <6>1
          <6>. QED  BY <3>2, <5>2, <6>1, <6>2 DEF FinalizeStep, Tracked
        <5>3. CASE store[e].by # d
          BY <1>4, <3>1, <3>2, <4>1, <5>3 DEF EntryMatches, Tracked
        <5>. QED  BY <5>2, <5>3
      <4>. QED  BY <1>2, <3>1, <3>2, <4>1 DEF EntryMatches
    <3>3. CASE store'[e] # store[e]
      <4>1. e = EventOf[d] /\ (store'[e] = Free \/ (store'[e] = Committed(d) /\ d \in committed'))
        BY <1>3, <3>3
      <4>. QED  BY <4>1 DEF EntryMatches
    <3>. QED  BY <3>2, <3>3
  <2>2. ASSUME NEW c \in committed' PROVE c \in handled' /\ store'[EventOf[c]] # InFlight(c)
    <3>1. c \in Deliveries /\ EventOf[c] \in Events
      BY <1>0, <1>2, <2>2
    <3>. QED  BY <1>2, <1>3, <1>4, <1>6, <2>2, <3>1
  <2>. QED  BY <2>1, <2>2 DEF StoreMatches
<1>9. HandledKept'
  <2>. SUFFICES ASSUME NEW c \in Deliveries, c \in handled, EventOf[c] \notin evicted
                PROVE  store'[EventOf[c]] \in {InFlight(c), Committed(c)}
    BY <1>2 DEF HandledKept
  <2>1. EventOf[c] \in Events /\ store[EventOf[c]] \in {InFlight(c), Committed(c)}
    BY <1>0 DEF HandledKept
  <2>. QED  BY <1>3, <2>1
<1>10. TaskMatches'
  <2>. SUFFICES ASSUME NEW c \in Deliveries PROVE TaskMatchesAt(c)'
    BY DEF TaskMatches
  <2>0. TaskMatchesAt(c)
    BY DEF TaskMatches
  <2>1. CASE c = d
    <3>1. at'["task"][d] \in Finalizing \cup {"ended", "panicked"}
      BY <1>1 DEF FinalizeStep, TaskAlone, Scheduled, Finalizing, Actors
    <3>. QED  BY <2>1, <3>1 DEF TaskMatchesAt, Finalizing
  <2>2. CASE c # d
    <3>1. store[EventOf[c]] = InFlight(c) => store'[EventOf[c]] = InFlight(c)
      BY <1>0, <1>3, <2>2
    <3>. QED  BY <1>1, <1>2, <1>4, <2>0, <2>2, <3>1 DEF TaskMatchesAt
  <2>. QED  BY <2>1, <2>2
<1>11. WorkMatches'
  <2>. SUFFICES ASSUME NEW b \in Actors, NEW c \in Deliveries PROVE WorkMatchesAt(b, c)'
    BY DEF WorkMatches
  <2>1. CASE b = a /\ c = d
    BY <1>0, <1>1, <1>2, <1>7, <2>1 DEF FinalizeStep, WorkMatchesAt
  <2>2. CASE b # a \/ c # d
    <3>1. WorkMatchesAt(b, c)
      BY DEF WorkMatches
    <3>2. store[EventOf[c]] # InFlight(c) => store'[EventOf[c]] # InFlight(c)
      BY <1>0, <1>3
    <3>. QED  BY <1>1, <1>2, <2>2, <3>1, <3>2 DEF WorkMatchesAt
  <2>. QED  BY <2>1, <2>2
<1>12. HandledSettled'
  <2>. SUFFICES ASSUME NEW c \in Deliveries, c \in handled, ~Tracked(c)'
                PROVE  c \in committed' \cap acked'
    BY <1>2 DEF HandledSettled
  <2>1. CASE ~Tracked(c)
    BY <1>2, <2>1 DEF HandledSettled
  <2>2. CASE Tracked(c)
    <3>1. c = d /\ Settled(a, d)
      BY <1>4, <2>2 DEF FinalizeStep, Tracked
    <3>. QED  BY <1>7, <3>1
  <2>. QED  BY <2>1, <2>2
<1>13. StateMatchesEffects'
  <2>. SUFFICES ASSUME NEW c \in Deliveries
                PROVE  /\ outstanding'[c] = "processing" => c \notin handled' \cup committed'
                       /\ outstanding'[c] = "commit_pending" => c \in handled'
                       /\ outstanding'[c] = "ack_pending" => c \in handled' \cap committed'
    BY DEF StateMatchesEffects
  <2>1. \/ outstanding'[c] = outstanding[c]
        \/ outstanding'[c] = "none"
        \/ outstanding'[c] = "ack_pending" /\ c \in committed'
    BY DEF FinalizeStep
  <2>. QED  BY <1>2, <1>6, <2>1 DEF StateMatchesEffects
<1>14. AckAfterCommit'
  <2>1. \A c \in acked' \ acked : c \in committed' /\ c \in handled
    BY <1>2, <1>4, <1>5, <1>6
  <2>. QED  BY <1>2, <2>1 DEF AckAfterCommit
<1>. QED  BY <1>8, <1>9, <1>10, <1>11, <1>12, <1>13, <1>14 DEF Effects

LEMMA OtherKeepsEffects ==
  ASSUME IInv, OtherStep
  PROVE  Effects'
<1>. USE StoreValues, ActorNames DEF IInv
<1>0. EventOf \in [Deliveries -> Events]
  BY LifecycleAssumption
<1>1. UNCHANGED <<store, handled, committed, acked, evicted>>
  BY DEF OtherStep
<1>2. \A d \in Deliveries :
        \/ outstanding'[d] = outstanding[d]
        \/ /\ outstanding'[d] = "none" /\ store[EventOf[d]] # InFlight(d)
           /\ d \in handled => d \in committed \cap acked
  BY DEF OtherStep, WorkMatches, WorkMatchesAt
<1>3. \A d \in Deliveries : at'["task"][d] = at["task"][d]
  BY DEF OtherStep
<1>4. StoreMatches'
  <2>1. ASSUME NEW e \in Events PROVE EntryMatches(e)'
    <3>1. EntryMatches(e)
      BY DEF StoreMatches
    <3>2. ASSUME store[e].state = "in_flight" PROVE Tracked(store[e].by)'
      <4>1. store[e] = InFlight(store[e].by)
        BY <3>2, HolderInFlight
      <4>. QED  BY <1>0, <1>1, <1>2, <3>1, <3>2, <4>1 DEF EntryMatches, Tracked
    <3>. QED  BY <1>1, <3>1, <3>2 DEF EntryMatches
  <2>. QED  BY <1>1, <2>1 DEF StoreMatches
<1>5. TaskMatches'
  <2>1. ASSUME NEW d \in Deliveries PROVE TaskMatchesAt(d)'
    <3>1. TaskMatchesAt(d)
      BY DEF TaskMatches
    <3>. QED  BY <1>1, <1>2, <1>3, <3>1 DEF TaskMatchesAt, Tracked
  <2>. QED  BY <2>1 DEF TaskMatches
<1>6. WorkMatches'
  <2>1. ASSUME NEW a \in Actors, NEW d \in Deliveries PROVE WorkMatchesAt(a, d)'
    <3>1. WorkMatchesAt(a, d)
      BY DEF WorkMatches
    <3>2. CASE at'[a][d] = at[a][d]
      BY <1>1, <3>1, <3>2 DEF WorkMatchesAt
    <3>3. CASE at'[a][d] \in {"queued", "idle"}
      BY <3>3 DEF WorkMatchesAt
    <3>4. CASE at'[a][d] = WorkFor(outstanding[d])
      <4>1. outstanding[d] \in ClaimStates
        BY DEF TypeOK
      <4>. QED  BY <1>1, <3>4, <4>1 DEF WorkFor, ClaimStates, WorkMatchesAt, StateMatchesEffects
    <3>. QED  BY <3>2, <3>3, <3>4 DEF OtherStep
  <2>. QED  BY <2>1 DEF WorkMatches
<1>7. HandledSettled' /\ StateMatchesEffects'
  BY <1>1, <1>2 DEF HandledSettled, StateMatchesEffects, Tracked, TypeOK
<1>8. HandledKept' /\ AckAfterCommit'
  BY <1>1 DEF HandledKept, AckAfterCommit
<1>. QED  BY <1>4, <1>5, <1>6, <1>7, <1>8 DEF Effects

LEMMA EvictKeepsEffects ==
  ASSUME IInv, NEW e \in Events, Evict(e)
  PROVE  Effects'
<1>. USE StoreValues DEF IInv
<1>0. EventOf \in [Deliveries -> Events]
  BY LifecycleAssumption
<1>1. /\ UNCHANGED <<at, outstanding, handled, committed, acked>>
      /\ evicted' = evicted \cup {e} /\ store[e].state = "committed"
      /\ store'[e] = Free /\ \A x \in Events : x # e => store'[x] = store[x]
  BY DEF Evict, TypeOK
<1>2. \A d \in Deliveries : store[EventOf[d]] = InFlight(d) <=> store'[EventOf[d]] = InFlight(d)
  BY <1>0, <1>1
<1>3. StoreMatches'
  <2>1. ASSUME NEW x \in Events PROVE EntryMatches(x)'
    <3>1. EntryMatches(x)
      BY DEF StoreMatches
    <3>. QED  BY <1>1, <3>1 DEF EntryMatches, Tracked
  <2>. QED  BY <1>1, <1>2, <2>1 DEF StoreMatches, TypeOK
<1>4. HandledKept'
  <2>. SUFFICES ASSUME NEW c \in Deliveries, c \in handled, EventOf[c] \notin evicted'
                PROVE  store'[EventOf[c]] \in {InFlight(c), Committed(c)}
    BY <1>1 DEF HandledKept, TypeOK
  <2>. QED  BY <1>0, <1>1 DEF HandledKept
<1>5. TaskMatches' /\ WorkMatches'
  BY <1>1, <1>2 DEF TaskMatches, TaskMatchesAt, WorkMatches, WorkMatchesAt, Tracked
<1>6. HandledSettled' /\ StateMatchesEffects' /\ AckAfterCommit'
  BY <1>1 DEF HandledSettled, StateMatchesEffects, AckAfterCommit, Tracked
<1>. QED  BY <1>3, <1>4, <1>5, <1>6 DEF Effects

LEMMA EffectsKept ==
  ASSUME IInv, Next
  PROVE  Effects'
<1>1. ASSUME NEW d \in Deliveries, Task(d)
      PROVE  Effects'
  <2>1. PICK p \in Phases : TaskStep(d, p)
    BY <1>1, TaskShape DEF IInv
  <2>. QED  BY <2>1, TaskKeepsEffects
<1>2. ASSUME NEW a \in Actors, NEW d \in Deliveries, Finalize(a, d)
      PROVE  Effects'
  <2>1. PICK p \in Phases : FinalizeStep(a, d, p)
    BY <1>2, FinalizeShape DEF IInv
  <2>. QED  BY <2>1, FinalizeKeepsEffects
<1>3. CASE Supervisor \/ Run
  BY <1>3, OtherShape, OtherKeepsEffects DEF IInv
<1>. QED  BY <1>1, <1>2, <1>3, EvictKeepsEffects DEF Next

----------------------------------------------------------------------------
(* Nothing is left behind *)

\* Somebody finalises the claim of d, or nobody has to any more.
CaredFor(d) ==
  \/ at["task"][d] \in Guarded
  \/ Sent(d)
  \/ Scheduled(d)
  \/ at["finalizer"][d] # "idle"
  \/ d \in refused
  \/ runtime \in {"stopped", "abandoned"}

LEMMA TaskCares ==
  ASSUME IInv, NEW d \in Deliveries, Task(d), NEW c \in Deliveries, Tracked(c)'
  PROVE  CaredFor(c)'
<1>. USE ActorNames DEF IInv
<1>1. PICK p \in Phases : TaskStep(d, p)
  BY TaskShape
<1>2. Sent(c) => Sent(c)'
  BY <1>1, SendAppends DEF TaskStep, Sent
<1>3. CASE c # d
  <2>1. Tracked(c) /\ \A a \in Actors : at'[a][c] = at[a][c]
    BY <1>1, <1>3 DEF TaskStep, Moved, Tracked
  <2>2. CaredFor(c)
    BY <2>1 DEF NoClaimLost, CaredFor
  <2>. QED  BY <1>1, <1>2, <2>1, <2>2 DEF TaskStep, CaredFor, Scheduled
<1>4. CASE c = d /\ p \in Guarded
  BY <1>1, <1>4 DEF TaskStep, Moved, CaredFor
<1>5. CASE c = d /\ p \notin Guarded
  <2>1. Tracked(d) /\ at["task"][d] \in Guarded
    BY <1>1, <1>5 DEF TaskStep, Tracked, TaskMatches, TaskMatchesAt, Guarded, Finalizing
  <2>2. commands' = Append(commands, d)
    BY <1>1, <1>5, <2>1 DEF TaskStep
  <2>. QED  BY <1>5, <2>2, SendAppends DEF CaredFor
<1>. QED  BY <1>3, <1>4, <1>5

LEMMA FinalizeCares ==
  ASSUME IInv, NEW a \in Actors, NEW d \in Deliveries, Finalize(a, d),
         NEW c \in Deliveries, Tracked(c)'
  PROVE  CaredFor(c)'
<1>. USE ActorNames DEF IInv
<1>1. PICK p \in Phases : FinalizeStep(a, d, p)
  BY FinalizeShape
<1>2. CaredFor(c)
  BY <1>1 DEF FinalizeStep, NoClaimLost, CaredFor
<1>3. Sent(c) => Sent(c)'
  BY <1>1, SendAppends DEF FinalizeStep, Sent
<1>4. CASE c # d
  <2>1. \A b \in Actors : at'[b][c] = at[b][c]
    BY <1>1, <1>4 DEF FinalizeStep, Moved
  <2>. QED  BY <1>1, <1>2, <1>3, <2>1 DEF FinalizeStep, CaredFor, Scheduled
<1>5. CASE c = d /\ p \in {"ended", "idle"}
  BY <1>1, <1>5 DEF FinalizeStep, CaredFor
<1>6. CASE c = d /\ p \notin {"ended", "idle"}
  BY <1>1, <1>6 DEF FinalizeStep, Moved, CaredFor, Scheduled, Guarded, Actors
<1>. QED  BY <1>4, <1>5, <1>6

LEMMA SupervisorCares ==
  ASSUME IInv, Supervisor, NEW c \in Deliveries, Tracked(c)'
  PROVE  CaredFor(c)'
<1>. USE ActorNames DEF IInv
<1>0. UNCHANGED <<outstanding, refused, runtime>>
  BY DEF Supervisor, ReceiveRecover, StartRecovery, Requeue, DropRecovery, history
<1>1. Tracked(c) /\ CaredFor(c)
  BY <1>0 DEF NoClaimLost, CaredFor, Tracked
<1>2. CASE ReceiveRecover
  <2>1. Head(commands) \in Deliveries /\ \A b : Sent(b) <=> b = Head(commands) \/ Sent(b)'
    BY <1>2, ReceiveTails DEF ReceiveRecover
  <2>2. CASE Scheduled(Head(commands))
    BY <1>0, <1>1, <1>2, <2>1, <2>2 DEF ReceiveRecover, CaredFor, Scheduled
  <2>3. CASE ~Scheduled(Head(commands))
    <3>1. Moved("recovery", Head(commands), "queued")
      BY <1>2, <2>1, <2>3, GotoMoves, PhaseNames DEF ReceiveRecover, Enqueue
    <3>. QED  BY <1>0, <1>1, <2>1, <3>1 DEF CaredFor, Moved, Scheduled
  <2>. QED  BY <2>2, <2>3
<1>3. CASE StartRecovery
  <2>1. Head(pending) \in Deliveries
    BY <1>3, DequeueTails DEF StartRecovery
  <2>2. /\ WorkFor(outstanding[Head(pending)]) \in Phases
        /\ Tracked(Head(pending)) => WorkFor(outstanding[Head(pending)]) # "idle"
    BY <2>1, WorkForPhase DEF TypeOK, Tracked
  <2>3. Moved("recovery", Head(pending), WorkFor(outstanding[Head(pending)]))
    BY <1>3, <2>1, <2>2, GotoMoves DEF StartRecovery
  <2>4. Sent(c)' <=> Sent(c)
    BY <1>3 DEF StartRecovery, Sent
  <2>. QED  BY <1>0, <1>1, <2>2, <2>3, <2>4 DEF CaredFor, Moved, Scheduled
<1>4. ASSUME NEW d \in Deliveries, Requeue(d)
      PROVE  CaredFor(c)'
  <2>1. Moved("recovery", d, "queued") /\ (Sent(c)' <=> Sent(c))
    BY <1>4, GotoMoves, PhaseNames DEF Requeue, Enqueue, Sent
  <2>. QED  BY <1>0, <1>1, <2>1 DEF CaredFor, Moved, Scheduled
<1>5. ASSUME NEW d \in Deliveries, DropRecovery(d)
      PROVE  CaredFor(c)'
  <2>1. Moved("recovery", d, "idle") /\ (Sent(c)' <=> Sent(c))
    BY <1>5, GotoMoves, PhaseNames DEF DropRecovery, Sent
  <2>2. runtime \in {"finalizing", "stopped", "abandoned"}
    BY <1>5 DEF DropRecovery, Supervising, TypeOK
  <2>. QED  BY <1>0, <1>1, <2>1, <2>2 DEF CaredFor, Moved, Scheduled, RuntimeShape
<1>. QED  BY <1>2, <1>3, <1>4, <1>5 DEF Supervisor

LEMMA RunCares ==
  ASSUME IInv, Run, NEW c \in Deliveries, Tracked(c)'
  PROVE  CaredFor(c)'
<1>. USE ActorNames DEF IInv, SetRuntime
<1>0. Tracked(c)
  BY OtherShape DEF OtherStep, Tracked
<1>1. CaredFor(c)
  BY <1>0 DEF NoClaimLost, CaredFor
<1>2. CASE Shutdown \/ Fail \/ TasksJoined
  BY <1>1, <1>2 DEF Shutdown, Fail, TasksJoined, Accepting, CaredFor, Sent, Scheduled, history
<1>3. CASE SupervisorStops \/ SupervisorTimesOut
  <2>1. PICK left : BeginFinalization(left)
    BY <1>3 DEF SupervisorStops, SupervisorTimesOut
  <2>2. at'["finalizer"][c] = WorkFor(outstanding[c])
    BY <2>1, BeginFinalizationMoves
  <2>3. WorkFor(outstanding[c]) # "idle"
    BY <1>0, WorkForPhase DEF Tracked, TypeOK
  <2>. QED  BY <2>2, <2>3 DEF CaredFor
<1>4. ASSUME NEW d \in Deliveries, JoinFinalizer(d)
      PROVE  CaredFor(c)'
  <2>1. Moved("finalizer", d, "idle")
    BY <1>4, GotoMoves, PhaseNames DEF JoinFinalizer
  <2>2. c # d
    BY <1>4 DEF JoinFinalizer, Untrack, Mark, TypeOK, Tracked
  <2>. QED  BY <1>1, <1>4, <2>1, <2>2
            DEF JoinFinalizer, CaredFor, Moved, Sent, Scheduled, history
<1>5. CASE FinalizersStop
  BY <1>5 DEF FinalizersStop, CaredFor
<1>6. CASE Drop
  <2>1. refused' = refused
    BY <1>6 DEF Drop, history
  <2>. QED  BY <1>1, <1>6, <2>1, DropMoves
            DEF Accepting, CaredFor, Sent, Scheduled
<1>. QED  BY <1>2, <1>3, <1>4, <1>5, <1>6 DEF Run

LEMMA NoClaimLostKept ==
  ASSUME IInv, Next
  PROVE  NoClaimLost'
<1>1. StoreMatches'
  BY EffectsKept DEF Effects
<1>2. \A e \in Events : store'[e].state = "in_flight" => Tracked(store[e].by)'
  BY <1>1 DEF StoreMatches, EntryMatches
<1>3. ASSUME NEW c \in Deliveries, Tracked(c)'
      PROVE  CaredFor(c)'
  <2>1. ASSUME NEW e \in Events, Evict(e)
        PROVE  CaredFor(c)'
    BY <1>3, <2>1 DEF Evict, IInv, NoClaimLost, CaredFor, Tracked, Sent, Scheduled
  <2>. QED  BY <1>3, <2>1, TaskCares, FinalizeCares, SupervisorCares, RunCares DEF Next
<1>. QED  BY <1>2, <1>3 DEF NoClaimLost, CaredFor

LEMMA CleanShutdownKept ==
  ASSUME IInv, Next
  PROVE  CleanShutdown'
<1>. USE StoreValues, ActorNames DEF IInv
<1>0. EventOf \in [Deliveries -> Events]
  BY LifecycleAssumption
<1>1. ASSUME NEW d \in Deliveries, Task(d)
      PROVE  CleanShutdown'
  <2>1. PICK p \in Phases : TaskStep(d, p)
    BY <1>1, TaskShape
  <2>2. result = "none"
    BY <2>1 DEF TaskStep, RuntimeShape, Guarded, Finalizing, Accepting
  <2>. QED  BY <2>1, <2>2 DEF TaskStep, CleanShutdown
<1>2. ASSUME NEW a \in Actors, NEW d \in Deliveries, Finalize(a, d)
      PROVE  CleanShutdown'
  <2>1. PICK p \in Phases : FinalizeStep(a, d, p)
    BY <1>2, FinalizeShape
  <2>2. \A e \in Events : store'[e] = store[e] \/ store'[e] = Free \/ store'[e] = Committed(d)
    BY <1>0, <2>1 DEF FinalizeStep
  <2>3. /\ result' = result /\ handled' = handled
        /\ committed \subseteq committed' /\ acked \subseteq acked'
    BY <2>1 DEF FinalizeStep
  <2>. QED  BY <2>2, <2>3 DEF CleanShutdown
<1>3. CASE FinalizersStop
  <2>. SUFFICES ASSUME result' = "ok"
                PROVE  /\ \A e \in Events : store'[e].state # "in_flight"
                       /\ handled' \subseteq committed' \cap acked'
    BY DEF CleanShutdown
  <2>1. \A d \in Deliveries : ~Tracked(d)
    BY <1>3 DEF FinalizersStop
  <2>2. UNCHANGED <<store, handled, committed, acked>>
    BY <1>3 DEF FinalizersStop, history
  <2>. QED  BY <2>1, <2>2 DEF StoreMatches, EntryMatches, HandledSettled, TypeOK
<1>4. CASE Supervisor \/ (Run /\ ~FinalizersStop)
  <2>1. result' = result
    BY <1>4 DEF Supervisor, Run, ReceiveRecover, StartRecovery, Requeue, DropRecovery, Shutdown,
                Fail, TasksJoined, SupervisorStops, SupervisorTimesOut, BeginFinalization,
                JoinFinalizer, Drop
  <2>2. UNCHANGED <<store, handled, committed, acked>>
    BY <1>4, OtherShape DEF OtherStep
  <2>. QED  BY <2>1, <2>2 DEF CleanShutdown
<1>5. ASSUME NEW e \in Events, Evict(e)
      PROVE  CleanShutdown'
  BY <1>5 DEF Evict, CleanShutdown, TypeOK
<1>. QED  BY <1>1, <1>2, <1>3, <1>4, <1>5 DEF Next

----------------------------------------------------------------------------
(* The theorems *)

LEMMA InitInv == Init => IInv
<1>. SUFFICES ASSUME Init PROVE IInv
  OBVIOUS
<1>. USE ActorNames
<1>0. EventOf \in [Deliveries -> Events] /\ TypeOK
  BY LifecycleAssumption, InitType
<1>1. /\ \A d \in Deliveries : ~Tracked(d) /\ ~Sent(d) /\ ~Queued(d)
      /\ \A a \in Actors, d \in Deliveries : at[a][d] = "idle"
      /\ \A e \in Events : store[e].state = "free"
  BY DEF Init, Tracked, Sent, Queued, Free
<1>2. TaskAlone /\ RuntimeShape
  BY <1>1 DEF Init, TaskAlone, RuntimeShape, Scheduled
<1>3. Effects
  BY <1>0, <1>1 DEF Init, Effects, StoreMatches, EntryMatches, HandledKept, TaskMatches,
                    TaskMatchesAt, WorkMatches, WorkMatchesAt, HandledSettled,
                    StateMatchesEffects, AckAfterCommit, Tracked
<1>4. NoClaimLost /\ CleanShutdown
  BY <1>1 DEF Init, NoClaimLost, CleanShutdown
<1>. QED  BY <1>0, <1>2, <1>3, <1>4 DEF IInv, Effects

LEMMA StepInv == IInv /\ [Next]_vars => IInv'
<1>. SUFFICES ASSUME IInv, [Next]_vars PROVE IInv'
  OBVIOUS
<1>1. CASE Next
  <2>1. TypeOK'
    BY TypeInductive DEF IInv
  <2>. QED  BY <1>1, <2>1, TaskAloneKept, RuntimeShapeKept, EffectsKept, NoClaimLostKept,
               CleanShutdownKept DEF IInv, Effects
<1>2. CASE UNCHANGED vars
  <2>1. UNCHANGED <<store, outstanding, at, commands, pending, runtime, failed, result,
                    handled, committed, acked, refused, evicted>>
    BY <1>2 DEF vars, history
  <2>2. TypeOK' /\ TaskAlone' /\ RuntimeShape' /\ NoClaimLost' /\ CleanShutdown'
    BY <2>1 DEF IInv, TypeOK, TaskAlone, RuntimeShape, NoClaimLost, CleanShutdown, Sent, Queued,
                Scheduled, Tracked
  <2>3. Effects'
    BY <2>1 DEF IInv, Effects, StoreMatches, EntryMatches, HandledKept, TaskMatches,
                TaskMatchesAt, WorkMatches, WorkMatchesAt, HandledSettled,
                StateMatchesEffects, AckAfterCommit, Tracked
  <2>. QED  BY <2>2, <2>3 DEF IInv, Effects
<1>. QED  BY <1>1, <1>2

LEMMA Inductive == Spec => []IInv
BY InitInv, StepInv, PTL DEF Spec

\* Every claim has one owner at any moment, and none is left behind: whatever
\* task is aborted or panics and whenever, a claim the store holds is tracked,
\* somebody is there to finalise it, and a runtime that returns Ok leaves no
\* event in flight and none handled that is not committed and acknowledged.
THEOREM ClaimsAccounted == Spec => []ClaimsAreAccounted
<1>1. IInv => ClaimsAreAccounted
  <2>. SUFFICES ASSUME IInv PROVE ClaimsAreAccounted
    OBVIOUS
  <2>1. OneFinalizer
    <3>. SUFFICES ASSUME NEW d \in Deliveries
                  PROVE  /\ at["task"][d] \in Guarded =>
                              ~Sent(d) /\ ~Scheduled(d) /\ at["finalizer"][d] = "idle"
                         /\ Scheduled(d) /\ at["finalizer"][d] # "idle" => failed
      BY DEF OneFinalizer
    <3>1. at["task"][d] \in Guarded => ~Sent(d) /\ ~Scheduled(d) /\ at["finalizer"][d] = "idle"
      BY DEF IInv, TaskAlone, Guarded, Finalizing
    <3>2. Scheduled(d) /\ at["finalizer"][d] # "idle" => failed
      BY DEF IInv, RuntimeShape
    <3>. QED  BY <3>1, <3>2
  <2>. QED  BY <2>1 DEF IInv, ClaimsAreAccounted
<1>. QED  BY <1>1, Inductive, PTL

\* An event is handled by two deliveries only if the store forgot it in
\* between; a source is told only after the commit; and the tracked state of a
\* claim, from which another actor goes on, never lags behind its effects.
THEOREM AcknowledgedWereHandled == Spec => []HandledThenAcknowledged
<1>1. IInv => HandledThenAcknowledged
  <2>. SUFFICES ASSUME IInv PROVE HandledThenAcknowledged
    OBVIOUS
  <2>1. HandledOnce
    <3>. SUFFICES ASSUME NEW c \in Deliveries, NEW d \in Deliveries, c # d,
                         EventOf[c] = EventOf[d], {c, d} \subseteq handled,
                         EventOf[d] \notin evicted
                  PROVE  FALSE
      BY DEF HandledOnce
    <3>1. /\ store[EventOf[d]] \in {InFlight(d), Committed(d)}
          /\ store[EventOf[d]] \in {InFlight(c), Committed(c)}
      BY DEF IInv, HandledKept
    <3>. QED  BY <3>1, StoreValues
  <2>. QED  BY <2>1 DEF IInv, HandledThenAcknowledged
<1>. QED  BY <1>1, Inductive, PTL

\* Once the handlers of a delivery have succeeded, a step that changes its
\* claim in the store commits it: no release, whoever finalises the claim
\* ("must only be committed, never released, even if this task is cancelled").
THEOREM HandledNeverReleased == Spec => NeverReleasedOnceHandled
<1>1. IInv /\ [Next]_vars =>
        [\A d \in handled :
           LET e == EventOf[d] IN
           store[e] = InFlight(d) /\ store'[e] # store[e] => store'[e] = Committed(d)]_vars
  <2>. SUFFICES ASSUME IInv, Next, NEW d \in handled, store[EventOf[d]] = InFlight(d),
                       store'[EventOf[d]] # store[EventOf[d]]
                PROVE  store'[EventOf[d]] = Committed(d)
    OBVIOUS
  <2>0. d \in Deliveries /\ EventOf \in [Deliveries -> Events] /\ EventOf[d] \in Events
    BY LifecycleAssumption DEF IInv, TypeOK
  <2>1. ASSUME NEW c \in Deliveries, Task(c)
        PROVE  FALSE
    <3>1. PICK p \in Phases : TaskStep(c, p)
      BY <2>1, TaskShape DEF IInv
    <3>. QED  BY <2>0, <3>1, StoreValues DEF TaskStep
  <2>2. ASSUME NEW a \in Actors, NEW c \in Deliveries, Finalize(a, c)
        PROVE  store'[EventOf[d]] = Committed(d)
    <3>1. PICK p \in Phases : FinalizeStep(a, c, p)
      BY <2>2, FinalizeShape DEF IInv
    <3>2. EventOf[c] = EventOf[d] /\ WorkMatchesAt(a, c)
      BY <2>0, <3>1 DEF FinalizeStep, IInv, WorkMatches
    <3>. QED  BY <3>1, <3>2, StoreValues DEF FinalizeStep, Committable, WorkMatchesAt
  <2>3. CASE Supervisor \/ Run
    BY <2>3, OtherShape DEF IInv, OtherStep
  <2>4. ASSUME NEW e \in Events, Evict(e)
        PROVE  FALSE
    BY <2>0, <2>4, StoreValues DEF Evict, IInv, TypeOK
  <2>. QED  BY <2>1, <2>2, <2>3, <2>4 DEF Next
<1>. QED  BY <1>1, Inductive, PTL DEF Spec, NeverReleasedOnceHandled
=============================================================================

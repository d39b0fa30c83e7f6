--------------------------- MODULE EventLifecycle ---------------------------
(***************************************************************************)
(* What becomes of an accepted event in bot-core's Runtime (runtime.rs):   *)
(* claimed in the deduplication store, handled, committed, acknowledged to *)
(* its adapter, and at every await of the way possibly failed, aborted,    *)
(* recovered by the supervisor or finalised by the shutdown.               *)
(*                                                                         *)
(* Three actors may finalise a claim: the event's own task, a recovery     *)
(* task of the supervisor and a finalisation task of the shutdown.  They   *)
(* run the same three loops (commit_claim_with_retry,                      *)
(* release_claim_with_retry, acknowledge_event_with_retry), so the loops   *)
(* are actions with the actor as a parameter, and an actor's place in them *)
(* is at[actor][delivery].  One action is one attempt; an await is the end *)
(* of an action, so what the code does between two awaits is atomic.  The  *)
(* number of attempts of a loop is abstracted: any failed attempt may be   *)
(* the last.                                                               *)
(*                                                                         *)
(* The store is any implementation of the DedupStore trait: it may fail    *)
(* for a while, for good, or time out with or without having taken effect, *)
(* and may forget a committed event.  A delivery is granted one claim at   *)
(* most, so the claim is named by its delivery.  Partition order and the   *)
(* semaphores are the business of the dispatcher: here any delivery may    *)
(* begin at any time.                                                      *)
(***************************************************************************)
EXTENDS Integers, FiniteSets, Sequences

CONSTANTS
  Events,         \* the event identities (DedupKey)
  Deliveries,     \* the envelopes the adapters submit
  EventOf,        \* the event each delivery carries
  NoDelivery,     \* no claim
  RecoverySlots,  \* MAX_CONCURRENT_DEDUP_FINALIZATIONS
  Faults          \* the failures the store and the adapters may show

ASSUME LifecycleAssumption ==
  /\ IsFiniteSet(Deliveries)
  /\ EventOf \in [Deliveries -> Events]
  /\ NoDelivery \notin Deliveries
  /\ RecoverySlots \in Nat \ {0}
  /\ Faults \subseteq {"retryable", "timeout", "permanent", "acknowledge"}

VARIABLES
  store,        \* the deduplication store
  outstanding,  \* the OutstandingClaimState of each tracked claim
  at,           \* where each actor is with each delivery
  commands,     \* the Recover commands sent to the supervisor
  pending,      \* the supervisor's queue of claims to recover
  runtime,      \* the phase of Runtime::run
  failed,       \* the shutdown has an error to report
  result,       \* what Runtime::run returned
  handled,      \* history: the deliveries whose handlers all succeeded
  committed,    \* history: the claims the store has committed
  acked,        \* history: the deliveries the adapter was told about
  refused,      \* history: the claims the store has refused for good
  evicted       \* history: the events the store has forgotten

history == <<handled, committed, acked, refused, evicted>>
vars == <<store, outstanding, at, commands, pending, runtime, failed, result,
          history>>

Free         == [state |-> "free", by |-> NoDelivery]
InFlight(d)  == [state |-> "in_flight", by |-> d]
Committed(d) == [state |-> "committed", by |-> d]

ClaimStates == {"none", "processing", "commit_pending", "ack_pending"}

Actors     == {"task", "recovery", "finalizer"}
Finalizing == {"release", "commit", "ack"}
Phases     == Finalizing \cup
              {"idle", "claim", "duplicate", "permit", "handle", "ended",
               "panicked", "queued", "pause", "succeeded", "failed"}

\* The phases in which a task holds a ClaimCancellationGuard.
Guarded == {"permit", "handle"} \cup Finalizing

Tracked(d) == outstanding[d] # "none"

Init ==
  /\ store = [e \in Events |-> Free]
  /\ outstanding = [d \in Deliveries |-> "none"]
  /\ at = [a \in Actors |-> [d \in Deliveries |-> "idle"]]
  /\ commands = <<>>
  /\ pending = <<>>
  /\ runtime = "running"
  /\ failed = FALSE
  /\ result = "none"
  /\ handled = {}
  /\ committed = {}
  /\ acked = {}
  /\ refused = {}
  /\ evicted = {}

----------------------------------------------------------------------------
(* Moves of one actor *)

Goto(a, d, p) == at' = [at EXCEPT ![a][d] = p]

Mark(d, s)  == outstanding' = [outstanding EXCEPT ![d] = s]
Untrack(d)  == Mark(d, "none")

\* The guard of a task is dropped: a claim still tracked is handed to the
\* supervisor.
DropGuard(d) == commands' = IF Tracked(d) THEN Append(commands, d)
                                          ELSE commands

\* The claim is finalised.  A task and a recovery task untrack it at once,
\* a finalisation task leaves that to the loop that joins it.
Settle(a, d) ==
  CASE a = "task"      -> Goto(a, d, "ended") /\ Untrack(d)
    [] a = "recovery"  -> Goto(a, d, "idle") /\ Untrack(d)
    [] a = "finalizer" -> Goto(a, d, "succeeded") /\ UNCHANGED outstanding

\* The attempt failed but may be repeated.  A task never stops trying (its
\* PendingEventRetry); a recovery task ends after its last attempt and comes
\* back after a delay; a finalisation task ends for good.
TryAgain(a, d) ==
  \/ UNCHANGED at
  \/ a = "recovery" /\ Goto(a, d, "pause")
  \/ a = "finalizer" /\ Goto(a, d, "failed")

\* The store refused for good.  The task ends with its claim still tracked,
\* so its guard hands the claim to the supervisor.
GiveUp(a, d) ==
  /\ refused' = refused \cup {d}
  /\ CASE a = "task"      -> Goto(a, d, "ended") /\ DropGuard(d)
       [] a = "recovery"  -> Goto(a, d, "idle") /\ UNCHANGED commands
       [] a = "finalizer" -> Goto(a, d, "failed") /\ UNCHANGED commands
  /\ UNCHANGED outstanding

----------------------------------------------------------------------------
(* One attempt of commit_claim_with_retry *)

\* Repeated finalisation of a retained claim is idempotent.
Committable(d) == store[EventOf[d]] \in {InFlight(d), Committed(d)}

StoreCommits(d) ==
  /\ store' = [store EXCEPT ![EventOf[d]] = Committed(d)]
  /\ committed' = committed \cup {d}

CommitSucceeds(a, d) ==
  /\ at[a][d] = "commit"
  /\ Committable(d)
  /\ StoreCommits(d)
  /\ Mark(d, IF Tracked(d) THEN "ack_pending" ELSE "none")
  /\ Goto(a, d, "ack")
  /\ UNCHANGED <<commands, pending, runtime, failed, result, handled, acked,
                 refused, evicted>>

\* No answer, or one that asks to retry; after a timeout the commit may have
\* taken effect all the same.
CommitFails(a, d) ==
  /\ at[a][d] = "commit"
  /\ \/ /\ Faults \cap {"retryable", "timeout"} # {}
        /\ UNCHANGED <<store, committed>>
     \/ /\ "timeout" \in Faults
        /\ Committable(d)
        /\ StoreCommits(d)
  /\ TryAgain(a, d)
  /\ UNCHANGED <<outstanding, commands, pending, runtime, failed, result,
                 handled, acked, refused, evicted>>

\* The claim is gone or stale, or the store is broken.
CommitRefused(a, d) ==
  /\ at[a][d] = "commit"
  /\ ~Committable(d) \/ "permanent" \in Faults
  /\ GiveUp(a, d)
  /\ UNCHANGED <<store, pending, runtime, failed, result, handled, committed,
                 acked, evicted>>

----------------------------------------------------------------------------
(* One attempt of release_claim_with_retry *)

\* A release of a forgotten or a committed claim succeeds and does nothing.
Releasable(d) == store[EventOf[d]] \in {InFlight(d), Committed(d), Free}

StoreReleases(d) ==
  store' = [store EXCEPT ![EventOf[d]] = IF @ = InFlight(d) THEN Free ELSE @]

ReleaseSucceeds(a, d) ==
  /\ at[a][d] = "release"
  /\ Releasable(d)
  /\ StoreReleases(d)
  /\ Settle(a, d)
  /\ UNCHANGED <<commands, pending, runtime, failed, result, history>>

ReleaseFails(a, d) ==
  /\ at[a][d] = "release"
  /\ \/ /\ Faults \cap {"retryable", "timeout"} # {}
        /\ UNCHANGED store
     \/ /\ "timeout" \in Faults
        /\ Releasable(d)
        /\ StoreReleases(d)
  /\ TryAgain(a, d)
  /\ UNCHANGED <<outstanding, commands, pending, runtime, failed, result,
                 history>>

ReleaseRefused(a, d) ==
  /\ at[a][d] = "release"
  /\ ~Releasable(d) \/ "permanent" \in Faults
  /\ GiveUp(a, d)
  /\ UNCHANGED <<store, pending, runtime, failed, result, handled, committed,
                 acked, evicted>>

----------------------------------------------------------------------------
(* One attempt of acknowledge_event_with_retry *)

AckSucceeds(a, d) ==
  /\ at[a][d] = "ack"
  /\ acked' = acked \cup {d}
  /\ Settle(a, d)
  /\ UNCHANGED <<store, commands, pending, runtime, failed, result, handled,
                 committed, refused, evicted>>

\* A timed out acknowledgement may have reached the adapter.
AckFails(a, d) ==
  /\ at[a][d] = "ack"
  /\ "acknowledge" \in Faults
  /\ acked' \in {acked, acked \cup {d}}
  /\ TryAgain(a, d)
  /\ UNCHANGED <<store, outstanding, commands, pending, runtime, failed,
                 result, handled, committed, refused, evicted>>

Finalize(a, d) ==
  \/ CommitSucceeds(a, d)
  \/ CommitFails(a, d)
  \/ CommitRefused(a, d)
  \/ ReleaseSucceeds(a, d)
  \/ ReleaseFails(a, d)
  \/ ReleaseRefused(a, d)
  \/ AckSucceeds(a, d)
  \/ AckFails(a, d)

----------------------------------------------------------------------------
(* The event's task (spawn_event) *)

Accepting == runtime \in {"running", "draining"}

Begin(d) ==
  /\ Accepting
  /\ at["task"][d] = "idle"
  /\ Goto("task", d, "claim")
  /\ UNCHANGED <<store, outstanding, commands, pending, runtime, failed,
                 result, history>>

\* claim() answers Some: the claim is tracked and guarded before the task
\* awaits anything else.
ClaimGranted(d) ==
  /\ at["task"][d] = "claim"
  /\ store[EventOf[d]] = Free
  /\ store' = [store EXCEPT ![EventOf[d]] = InFlight(d)]
  /\ Mark(d, "processing")
  /\ Goto("task", d, "permit")
  /\ UNCHANGED <<commands, pending, runtime, failed, result, history>>

\* Seeded faults, here and below: what the definition that follows would be
\* if the code were wrong.
ClaimDuplicate_InFlight(d) ==
  /\ at["task"][d] = "claim"
  /\ store[EventOf[d]].state # "free"
  /\ Goto("task", d, "duplicate")
  /\ UNCHANGED <<store, outstanding, commands, pending, runtime, failed,
                 result, history>>

\* claim() answers None.
ClaimDuplicate(d) ==
  /\ at["task"][d] = "claim"
  /\ store[EventOf[d]].state = "committed"
  /\ Goto("task", d, "duplicate")
  /\ UNCHANGED <<store, outstanding, commands, pending, runtime, failed,
                 result, history>>

\* claim() fails permanently: the event is dropped without acknowledgement.
\* A retryable failure or a timeout leaves the task where it is.
ClaimRejected(d) ==
  /\ at["task"][d] = "claim"
  /\ "permanent" \in Faults
  /\ Goto("task", d, "ended")
  /\ UNCHANGED <<store, outstanding, commands, pending, runtime, failed,
                 result, history>>

\* A duplicate is only acknowledged, until that succeeds.
AckDuplicate(d) ==
  /\ at["task"][d] = "duplicate"
  /\ \/ acked' = acked \cup {d} /\ Goto("task", d, "ended")
     \/ /\ "acknowledge" \in Faults
        /\ acked' \in {acked, acked \cup {d}}
        /\ UNCHANGED at
  /\ UNCHANGED <<store, outstanding, commands, pending, runtime, failed,
                 result, handled, committed, refused, evicted>>

\* The task gets its permit of `active_events`.
StartHandlers(d) ==
  /\ at["task"][d] = "permit"
  /\ Goto("task", d, "handle")
  /\ UNCHANGED <<store, outstanding, commands, pending, runtime, failed,
                 result, history>>

\* From here on the claim must only be committed.
HandlersSucceed(d) ==
  /\ at["task"][d] = "handle"
  /\ Mark(d, "commit_pending")
  /\ handled' = handled \cup {d}
  /\ Goto("task", d, "commit")
  /\ UNCHANGED <<store, commands, pending, runtime, failed, result, committed,
                 acked, refused, evicted>>

\* A handler fails or times out.
HandlerFails(d) ==
  /\ at["task"][d] = "handle"
  /\ Goto("task", d, "release")
  /\ UNCHANGED <<store, outstanding, commands, pending, runtime, failed,
                 result, history>>

\* A handler panics and unwinds the task.
HandlerPanics(d) ==
  /\ at["task"][d] = "handle"
  /\ Goto("task", d, "panicked")
  /\ DropGuard(d)
  /\ UNCHANGED <<store, outstanding, pending, runtime, failed, result,
                 history>>

\* The task is dropped at an await, with its guard if it holds one.
Abort(d) ==
  /\ runtime \in {"aborting", "dropped"}
  /\ at["task"][d] \in {"claim", "duplicate"} \cup Guarded
  /\ Goto("task", d, "ended")
  /\ IF at["task"][d] \in Guarded THEN DropGuard(d) ELSE UNCHANGED commands
  /\ UNCHANGED <<store, outstanding, pending, runtime, failed, result,
                 history>>

----------------------------------------------------------------------------
(* The recovery supervisor (run_recovery_supervisor) *)

Supervising == runtime \in {"running", "draining", "aborting", "stopping",
                            "dropped"}

\* A claim is scheduled while it is queued or has a recovery task.
Scheduled(d) == at["recovery"][d] # "idle"

Recovering == {d \in Deliveries : at["recovery"][d] \in Finalizing \cup {"pause"}}

WorkFor_ReleasesHandled(s) == CASE s \in {"processing", "commit_pending"} -> "release"
                                [] s = "ack_pending" -> "ack"
                                [] s = "none" -> "idle"

\* The work that the state of a tracked claim calls for.
WorkFor(s) == CASE s = "processing"     -> "release"
                [] s = "commit_pending" -> "commit"
                [] s = "ack_pending"    -> "ack"
                [] s = "none"           -> "idle"

Enqueue(d) ==
  /\ pending' = Append(pending, d)
  /\ Goto("recovery", d, "queued")

ReceiveRecover ==
  /\ Supervising
  /\ commands # <<>>
  /\ commands' = Tail(commands)
  /\ LET d == Head(commands) IN
       IF Scheduled(d) THEN UNCHANGED <<pending, at>> ELSE Enqueue(d)
  /\ UNCHANGED <<store, outstanding, runtime, failed, result, history>>

\* A recovery task starts and acts on the state the claim has at that moment.
StartRecovery ==
  /\ Supervising
  /\ pending # <<>>
  /\ Cardinality(Recovering) < RecoverySlots
  /\ pending' = Tail(pending)
  /\ LET d == Head(pending) IN Goto("recovery", d, WorkFor(outstanding[d]))
  /\ UNCHANGED <<store, outstanding, commands, runtime, failed, result,
                 history>>

Requeue_Forgets(d) ==
  /\ Supervising
  /\ at["recovery"][d] = "pause"
  /\ Goto("recovery", d, "idle")
  /\ UNCHANGED <<store, outstanding, commands, pending, runtime, failed, result,
                 history>>

\* A recovery task that could not finish ends after the retry delay; its
\* claim goes to the back of the queue.
Requeue(d) ==
  /\ Supervising
  /\ at["recovery"][d] = "pause"
  /\ Enqueue(d)
  /\ UNCHANGED <<store, outstanding, commands, runtime, failed, result,
                 history>>

----------------------------------------------------------------------------
(* The runtime (Runtime::run, RuntimeShutdown::finish) *)

SetRuntime(p) == runtime' = p

\* The shutdown signal: events already accepted are still processed.
Shutdown ==
  /\ runtime = "running"
  /\ SetRuntime("draining")
  /\ UNCHANGED <<store, outstanding, at, commands, pending, failed, result,
                 history>>

\* An adapter stops with an error, an event task panicked, or the events are
\* not done by their deadline: the event tasks are aborted.
Fail ==
  /\ Accepting
  /\ SetRuntime("aborting")
  /\ failed' = TRUE
  /\ UNCHANGED <<store, outstanding, at, commands, pending, result, history>>

\* Every event task is joined.  While draining, a panicked one is an error.
TasksJoined ==
  /\ \/ /\ runtime = "draining"
        /\ \A d \in Deliveries : at["task"][d] \in {"idle", "ended"}
     \/ /\ runtime = "aborting"
        /\ \A d \in Deliveries : at["task"][d] \in {"idle", "ended", "panicked"}
  /\ SetRuntime("stopping")
  /\ UNCHANGED <<store, outstanding, at, commands, pending, failed, result,
                 history>>

\* finalize_outstanding_claims() takes a snapshot of the tracked claims.  The
\* recovery tasks in `left` may still be running.
BeginFinalization(left) ==
  /\ SetRuntime("finalizing")
  /\ commands' = <<>>
  /\ pending' = <<>>
  /\ at' = [at EXCEPT
       !["recovery"]  = [d \in Deliveries |-> IF d \in left THEN @[d] ELSE "idle"],
       !["finalizer"] = [d \in Deliveries |-> WorkFor(outstanding[d])]]
  /\ UNCHANGED <<store, outstanding, result, history>>

SupervisorStops_NoJoin ==
  /\ runtime = "stopping"
  /\ BeginFinalization(Recovering)
  /\ UNCHANGED failed

\* The supervisor receives Shutdown: it aborts and joins the recovery tasks.
SupervisorStops ==
  /\ runtime = "stopping"
  /\ BeginFinalization({})
  /\ UNCHANGED failed

\* Or it does not by the deadline, and is aborted; what its recovery tasks
\* are in the middle of is not waited for.
SupervisorTimesOut ==
  /\ runtime = "stopping"
  /\ BeginFinalization(Recovering)
  /\ failed' = TRUE

DropRecovery(d) ==
  /\ ~Supervising
  /\ d \in Recovering
  /\ Goto("recovery", d, "idle")
  /\ UNCHANGED <<store, outstanding, commands, pending, runtime, failed,
                 result, history>>

JoinFinalizer(d) ==
  /\ runtime = "finalizing"
  /\ at["finalizer"][d] = "succeeded"
  /\ Goto("finalizer", d, "idle")
  /\ Untrack(d)
  /\ UNCHANGED <<store, commands, pending, runtime, failed, result, history>>

\* Every finalisation task is joined, or the deadline aborts those left.  The
\* adapters, stopped last, may add an error of their own.
FinalizersStop ==
  /\ runtime = "finalizing"
  /\ SetRuntime("stopped")
  /\ at' = [at EXCEPT !["finalizer"] = [d \in Deliveries |-> "idle"]]
  /\ result' \in IF failed \/ \E d \in Deliveries : Tracked(d)
                 THEN {"error"} ELSE {"ok", "error"}
  /\ UNCHANGED <<store, outstanding, commands, pending, failed, history>>

\* The future of Runtime::run is dropped.  Until the supervisor is told to
\* stop, it survives that and recovers what the dropped tasks leave behind;
\* after that, nothing does.
Drop ==
  /\ \/ /\ Accepting \/ runtime = "aborting"
        /\ SetRuntime("dropped")
        /\ UNCHANGED <<at, commands, pending>>
     \/ /\ runtime \in {"stopping", "finalizing"}
        /\ SetRuntime("abandoned")
        /\ at' = [at EXCEPT !["recovery"] = [d \in Deliveries |-> "idle"],
                            !["finalizer"] = [d \in Deliveries |-> "idle"]]
        /\ commands' = <<>>
        /\ pending' = <<>>
  /\ UNCHANGED <<store, outstanding, failed, result, history>>

\* The store forgets a committed event: its retention is bounded.
Evict(e) ==
  /\ store[e].state = "committed"
  /\ store' = [store EXCEPT ![e] = Free]
  /\ evicted' = evicted \cup {e}
  /\ UNCHANGED <<outstanding, at, commands, pending, runtime, failed, result,
                 handled, committed, acked, refused>>

----------------------------------------------------------------------------
Task(d) ==
  \/ Begin(d)
  \/ ClaimGranted(d)
  \/ ClaimDuplicate(d)
  \/ ClaimRejected(d)
  \/ AckDuplicate(d)
  \/ StartHandlers(d)
  \/ HandlersSucceed(d)
  \/ HandlerFails(d)
  \/ HandlerPanics(d)
  \/ Abort(d)

Supervisor ==
  \/ ReceiveRecover
  \/ StartRecovery
  \/ \E d \in Deliveries : Requeue(d) \/ DropRecovery(d)

Run ==
  \/ Shutdown
  \/ Fail
  \/ TasksJoined
  \/ SupervisorStops
  \/ SupervisorTimesOut
  \/ \E d \in Deliveries : JoinFinalizer(d)
  \/ FinalizersStop
  \/ Drop

Next ==
  \/ \E d \in Deliveries : Task(d)
  \/ \E a \in Actors, d \in Deliveries : Finalize(a, d)
  \/ Supervisor
  \/ Run
  \/ \E e \in Events : Evict(e)

Spec == Init /\ [][Next]_vars

----------------------------------------------------------------------------
(* Fairness: tasks are scheduled and handlers bounded by their timeout;      *)
(* aborted tasks are dropped; the supervisor's loop runs, and so does the    *)
(* shutdown, driven by its deadline.  A store or an adapter that is asked    *)
(* over and over answers at last: this is assumed of them, and is strong     *)
(* fairness because a recovery task pauses between its rounds.               *)
Answered(a, d) ==
  \/ CommitSucceeds(a, d) \/ CommitRefused(a, d)
  \/ ReleaseSucceeds(a, d) \/ ReleaseRefused(a, d)
  \/ AckSucceeds(a, d)

Fairness ==
  /\ \A d \in Deliveries :
       /\ WF_vars(StartHandlers(d))
       /\ WF_vars(HandlersSucceed(d) \/ HandlerFails(d) \/ HandlerPanics(d))
       /\ WF_vars(Abort(d))
       /\ WF_vars(Requeue(d))
       /\ \A a \in Actors : SF_vars(Answered(a, d))
  /\ WF_vars(ReceiveRecover)
  /\ WF_vars(StartRecovery)
  /\ WF_vars(TasksJoined)
  /\ WF_vars(runtime = "draining" /\ Fail)
  /\ WF_vars(SupervisorStops \/ SupervisorTimesOut)
  /\ WF_vars(FinalizersStop)

FairSpec == Spec /\ Fairness

----------------------------------------------------------------------------
(* Properties *)

\* Every variable keeps its type.
TypeOK ==
  /\ store \in [Events -> [state : {"free", "in_flight", "committed"},
                           by : Deliveries \cup {NoDelivery}]]
  /\ outstanding \in [Deliveries -> ClaimStates]
  /\ at \in [Actors -> [Deliveries -> Phases]]
  /\ commands \in Seq(Deliveries)
  /\ pending \in Seq(Deliveries)
  /\ runtime \in {"running", "draining", "aborting", "stopping", "finalizing",
                  "stopped", "dropped", "abandoned"}
  /\ failed \in BOOLEAN
  /\ result \in {"none", "ok", "error"}
  /\ handled \subseteq Deliveries
  /\ committed \subseteq Deliveries
  /\ acked \subseteq Deliveries
  /\ refused \subseteq Deliveries
  /\ evicted \subseteq Events

Sent(d) == \E i \in 1..Len(commands) : commands[i] = d

\* No claim is lost.  A claim the store holds in flight is tracked, and a
\* tracked claim has somebody to finalise it: its task, the supervisor (to
\* which it has at least been sent) or the shutdown; except one the store
\* has refused for good, and once the shutdown is over or was abandoned.
\* Aborts, panics and deadlines may hit at any await (ClaimCancellationGuard).
NoClaimLost ==
  /\ \A e \in Events : store[e].state = "in_flight" => Tracked(store[e].by)
  /\ \A d \in Deliveries : Tracked(d) =>
       \/ at["task"][d] \in Guarded
       \/ Sent(d)
       \/ Scheduled(d)
       \/ at["finalizer"][d] # "idle"
       \/ d \in refused
       \/ runtime \in {"stopped", "abandoned"}

\* The tracked state of a claim never lags behind what has happened to its
\* event, so whoever finalises the claim from that state alone releases no
\* handled event and acknowledges no uncommitted one.
StateMatchesEffects ==
  \A d \in Deliveries :
    /\ outstanding[d] = "processing" => d \notin handled \cup committed
    /\ outstanding[d] = "commit_pending" => d \in handled
    /\ outstanding[d] = "ack_pending" => d \in handled \cap committed

\* A task and a recovery or finalisation task never work on the same claim:
\* the guard hands the claim over only when its task is finished with it.  A
\* recovery task outlives the snapshot of the finalisation only in a shutdown
\* that reports an error.
OneFinalizer ==
  \A d \in Deliveries :
    /\ at["task"][d] \in Guarded =>
         /\ ~Sent(d) /\ ~Scheduled(d) /\ at["finalizer"][d] = "idle"
    /\ Scheduled(d) /\ at["finalizer"][d] # "idle" => failed

\* Handlers run to success twice for one event only when the store has
\* forgotten that event in between.
HandledOnce ==
  \A c, d \in Deliveries :
    c # d /\ EventOf[c] = EventOf[d] /\ {c, d} \subseteq handled =>
      EventOf[d] \in evicted

\* A source is told that an event is handled only after the event was
\* committed, by this delivery if its handlers ran and by another otherwise
\* ("persist successful processing before source acknowledgement").
AckAfterCommit ==
  \A d \in acked :
    IF d \in handled THEN d \in committed
    ELSE \E c \in committed : EventOf[c] = EventOf[d]

\* A runtime that returns Ok has left nothing behind: no event in flight, and
\* every handled one committed and acknowledged.
CleanShutdown ==
  result = "ok" =>
    /\ \A e \in Events : store[e].state # "in_flight"
    /\ handled \subseteq committed \cap acked

\* Every claim has one owner, and none is left behind: neither by a task that
\* is aborted or panics, nor by a shutdown that reports success.
ClaimsAreAccounted == NoClaimLost /\ OneFinalizer /\ CleanShutdown

\* An event is handled at most once while the store remembers it, and it is
\* acknowledged to its source only after that was committed; the tracked state
\* of its claim, from which others go on, keeps up with both.
HandledThenAcknowledged == HandledOnce /\ AckAfterCommit /\ StateMatchesEffects

\* "From this point onward the claim must only be committed, never released,
\* even if this task is cancelled": once the handlers have succeeded, the
\* only thing that can happen to the claim in the store is its commit.
NeverReleasedOnceHandled ==
  [][\A d \in handled :
       LET e == EventOf[d] IN
       store[e] = InFlight(d) /\ store'[e] # store[e] =>
         store'[e] = Committed(d)]_vars

Over == runtime \in {"stopped", "abandoned"}

\* A claim that was granted is eventually finalised, and an event that was
\* handled is eventually acknowledged, whatever task is aborted or panics, if
\* the store does not refuse the claim for good and the shutdown does not run
\* out of time first.
ClaimsSettle ==
  \A d \in Deliveries :
    /\ Tracked(d) ~> ~Tracked(d) \/ d \in refused \/ Over
    /\ d \in handled ~> d \in acked \/ d \in refused \/ Over
=============================================================================

----------------------------- MODULE MCLiveness -----------------------------
(***************************************************************************)
(* Two components that share no state, with their fairness: a behaviour is *)
(* about the selected one.  Its variables are the first of x1, ..., x12;   *)
(* the others keep the value Unused.                                       *)
(***************************************************************************)
EXTENDS Integers, Sequences, TLC

CONSTANTS None, room, lobby, sink, e1, loop, w1, w2, c1

VARIABLES selected, x1, x2, x3, x4, x5, x6, x7, x8, x9, x10, x11, x12

Unused == "unused"
all == <<selected, x1, x2, x3, x4, x5, x6, x7, x8, x9, x10, x11, x12>>

\* Two events of one partition and one of another.
Dispatcher ==
    INSTANCE EventDispatcher WITH
        Adapters <- {sink}, Deliveries <- 1..3,
        AdapterOf <- <<sink, sink, sink>>, Partitions <- {room, lobby},
        PartitionOf <- <<room, room, lobby>>, NoDelivery <- None,
        QueueCapacity <- 2, Concurrency <- 1,
        adapter <- x1, permits <- x2, queue <- x3, task <- x4, previous <- x5, tails <- x6,
        runtime <- x7, failed <- x8, accepted <- x9, finished <- x10

\* One event, whose invocation changes the state or asks for a command.
Delivery ==
    INSTANCE PluginDelivery WITH
        Events <- {e1}, Schedules <- {e1}, Workers <- {loop, w1, w2}, Loop <- loop,
        Commands <- {c1}, Key <- (c1 :> None), NoKey <- None,
        Outputs <- {[commands |-> <<>>, operation |-> "compare_and_swap"],
                    [commands |-> <<c1>>, operation |-> "none"]},
        Statuses <- {"succeeded"}, ReportsResults <- TRUE, MaxAttempts <- 2, CircuitFailures <- 3,
        MaxChain <- 1, MaxInvocations <- 10, MaxDispatches <- 2, MaxCrashes <- 2, MaxDrops <- 0,
        MaxLosses <- 1, MaxReopenings <- 0,
        deliveries <- x1, ledger <- x2, health <- x3, revision <- x4, host <- x5, plugin <- x6,
        work <- x7, recovery <- x8, drawn <- x9, performed <- x10, failed_at <- x11, spent <- x12

ASSUME Dispatcher!DispatcherAssumption

Init ==
    \/ selected = "dispatcher" /\ Dispatcher!Init /\ x11 = Unused /\ x12 = Unused
    \/ selected = "delivery" /\ Delivery!Init

Next ==
    /\ UNCHANGED selected
    /\ \/ selected = "dispatcher" /\ Dispatcher!Next /\ UNCHANGED <<x11, x12>>
       \/ selected = "delivery" /\ Delivery!Next

(***************************************************************************)
(* Fairness of the dispatcher: its loop and the tasks run; the semaphores  *)
(* are first come, first served, so a task that waits is admitted (strong  *)
(* fairness); a store that is asked again and again answers, handlers are  *)
(* bounded by their timeout, and a retry succeeds at last.  A permit is    *)
(* used or dropped.  An adapter need not stop: the deadline takes care.    *)
(***************************************************************************)
Dispatches == selected = "dispatcher"
dispatcherVars == <<x1, x2, x3, x4, x5, x6, x7, x8, x9, x10>>

DispatcherFairness ==
    /\ \A k \in 1..3 :
          /\ WF_dispatcherVars(Dispatches /\ Dispatcher!PreviousEnds(k))
          /\ SF_dispatcherVars(Dispatches /\ Dispatcher!AdmitClaim(k))
          /\ WF_dispatcherVars(Dispatches /\ (Dispatcher!ClaimAnswered(k) \/ Dispatcher!Finish(k)))
          /\ SF_dispatcherVars(Dispatches /\ Dispatcher!StartProcessing(k))
          /\ WF_dispatcherVars(Dispatches /\ Dispatcher!Abort(k))
          /\ WF_dispatcherVars(Dispatches /\ Dispatcher!Join(k))
    /\ WF_dispatcherVars(Dispatches /\ (Dispatcher!DropPermit(sink) \/ \E k \in 1..3 : Dispatcher!Send(sink, k)))
    /\ WF_dispatcherVars(Dispatches /\ Dispatcher!Receive)
    /\ WF_dispatcherVars(Dispatches /\ Dispatcher!RunFails)
    /\ WF_dispatcherVars(Dispatches /\ (Dispatcher!AdaptersDrained \/ Dispatcher!DrainFails))
    /\ WF_dispatcherVars(Dispatches /\ Dispatcher!Flushed)
    /\ WF_dispatcherVars(Dispatches /\ (Dispatcher!FlushFails \/ Dispatcher!Receive))
    /\ WF_dispatcherVars(Dispatches /\ (Dispatcher!JoinFails \/ Dispatcher!Stop))
    /\ WF_dispatcherVars(Dispatches /\ Dispatcher!Stop)

(***************************************************************************)
(* Fairness of the deliveries: the tasks of the Runtime and of register()  *)
(* run, an invocation ends by its timeout, a command ends, and time passes *)
(***************************************************************************)
Delivers == selected = "delivery"
deliveryVars == <<x1, x2, x3, x4, x5, x6, x7, x8, x9, x10, x11, x12>>

DeliveryFairness ==
    /\ \A k \in {loop, w1, w2} : WF_deliveryVars(Delivers /\ Delivery!Working(k))
    /\ \A e \in Delivery!Deliverable : WF_deliveryVars(Delivers /\ Delivery!BackoffEnds(e))
    /\ WF_deliveryVars(Delivers /\ Delivery!Starting)

Spec == Init /\ [][Next]_all /\ DispatcherFairness /\ DeliveryFairness
----------------------------------------------------------------------------
(***************************************************************************)
(* Every accepted event is handled or an error reported, and a shutdown    *)
(* ends: no task waits for ever for its predecessor, a permit or a slot    *)
(* (EventDispatcher::run, prepare_shutdown, RuntimeShutdown::finish).      *)
(***************************************************************************)
NothingHangs ==
    []<>(Dispatches =>
           /\ \A k \in 1..3 : Dispatcher!WasAccepted(k) => Dispatcher!IsSettled(k)
           /\ x7 \in {"running", "stopped"})

(***************************************************************************)
(* A delivery that was begun succeeds or becomes a dead letter, whatever   *)
(* crashes and lost results, unless its instance is disabled               *)
(* (deliver_durable, recover_deliveries).                                  *)
(***************************************************************************)
EveryDeliveryEnds ==
    []<>(Delivers => \A e \in Delivery!Deliverable : Delivery!WasBegun(e) => Delivery!HasEnded(e))
=============================================================================

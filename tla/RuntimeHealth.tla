---------------------------- MODULE RuntimeHealth ----------------------------
(***************************************************************************)
(* What the runtime's observer tells while runs of the runtime that share  *)
(* it come and go: the phase, the adapters that are online, the events     *)
(* that are handled, and the health that a reader makes of them.  Of the   *)
(* dispatcher (EventDispatcher) there is only whether it ends with or      *)
(* without an error; names, sums and durations are left out.               *)
(***************************************************************************)
EXTENDS Naturals, Functions

CONSTANTS Runs, Adapters,
          Guarded,      \* the adapters that are not ready any more when their task is dropped
          MaxEvents     \* event tasks of a run at a time

VARIABLES active_run, phase, online, active_events,     \* of the observer
          stage,        \* of each run
          adapter,      \* the adapter tasks of each run
          events,       \* the event tasks of each run that were begun
          reader,       \* of the health
          dropped       \* history: whether a run was dropped before its end

vars == <<active_run, phase, online, active_events, stage, adapter, events, reader, dropped>>

observer == <<active_run, phase, online, active_events>>

Offline == [a \in Adapters |-> FALSE]
Alive == {"connecting", "ready"}

Init ==
    /\ active_run = FALSE /\ phase = "stopped" /\ online = Offline /\ active_events = 0
    /\ stage = [r \in Runs |-> "new"]
    /\ adapter = [r \in Runs |-> [a \in Adapters |-> "none"]]
    /\ events = [r \in Runs |-> 0]
    /\ reader = [place |-> "idle"]
    /\ dropped = FALSE

Stage(r, s) == stage' = [stage EXCEPT ![r] = s]

(***************************************************************************)
(* Runtime::run                                                            *)
(***************************************************************************)
BeginRun(r) ==
    /\ stage[r] = "new"
    /\ Stage(r, IF active_run THEN "refused" ELSE "begun")
    /\ active_run' = TRUE
    /\ UNCHANGED <<phase, online, active_events, adapter, events, reader, dropped>>

ConfigureCounters(r) ==
    /\ stage[r] = "begun"
    /\ active_events' = 0
    /\ Stage(r, "counted")
    /\ UNCHANGED <<active_run, phase, online, adapter, events, reader, dropped>>

ConfigureAdapters(r) ==
    /\ stage[r] = "counted"
    /\ online' = Offline
    /\ Stage(r, "configured")
    /\ UNCHANGED <<active_run, phase, active_events, adapter, events, reader, dropped>>

SetPhase(r, from, p, to) ==
    /\ stage[r] = from
    /\ phase' = p
    /\ Stage(r, to)
    /\ UNCHANGED <<active_run, online, active_events, adapter, events, reader, dropped>>

SpawnAdapters(r) ==
    /\ stage[r] = "starting"
    /\ adapter' = [adapter EXCEPT ![r] = [a \in Adapters |-> "connecting"]]
    /\ Stage(r, "spawned")
    /\ UNCHANGED <<observer, events, reader, dropped>>

\* The dispatcher ends: with an error at any time, else when its adapters have ended.
DispatcherEnds(r) ==
    /\ stage[r] = "running"
    /\ \/ Stage(r, "failing")
       \/ (\A a \in Adapters : adapter[r][a] = "ended") /\ Stage(r, "draining")
    /\ UNCHANGED <<observer, adapter, events, reader, dropped>>

(***************************************************************************)
(* RuntimeShutdown::finish                                                 *)
(***************************************************************************)
Ends(r, a) == IF adapter[r][a] \in Alive THEN "aborting" ELSE adapter[r][a]
Aborted(r) == [adapter EXCEPT ![r] = [a \in Adapters |-> Ends(r, a)]]

\* The event tasks have ended, or were aborted for their time.
FinishEvents(r) ==
    /\ stage[r] = "finish events"
    /\ \/ events[r] = 0 /\ Stage(r, "finished")
       \/ Stage(r, "abort events")
    /\ UNCHANGED <<observer, adapter, events, reader, dropped>>

AbortAdapters(r) ==
    /\ stage[r] = "abort events" /\ events[r] = 0
    /\ adapter' = Aborted(r)
    /\ Stage(r, "abort adapters")
    /\ UNCHANGED <<observer, events, reader, dropped>>

MayGoOffline_BeforeAdapters(r) == TRUE

\* All adapter tasks are joined.
MayGoOffline(r) == \A a \in Adapters : adapter[r][a] \in {"none", "ended", "panicked"}

\* What is left of the claims may still make it fail.
GoOffline(r) ==
    /\ \/ stage[r] = "finished"
       \/ stage[r] = "abort adapters" /\ MayGoOffline(r)
    /\ online' = Offline
    /\ \/ stage[r] = "finished" /\ Stage(r, "stopped")
       \/ Stage(r, "failed")
    /\ UNCHANGED <<active_run, phase, active_events, adapter, events, reader, dropped>>

\* The guard that is dropped at the end of the run, or with it.
EndRun(r) ==
    /\ stage[r] = "ending"
    /\ phase' = IF phase \in {"starting", "running", "shutting down"} THEN "stopped" ELSE phase
    /\ active_run' = FALSE
    /\ Stage(r, "ended")
    /\ UNCHANGED <<online, active_events, adapter, events, reader, dropped>>

\* Whoever awaits the run gives it up; its tasks are told to stop, and do so later.
Drop(r) ==
    /\ stage[r] \notin {"new", "refused", "ending", "ended"}
    /\ adapter' = Aborted(r)
    /\ Stage(r, "ending")
    /\ dropped' = TRUE
    /\ UNCHANGED <<observer, events, reader>>

(***************************************************************************)
(* The tasks                                                               *)
(***************************************************************************)
Ready(a) == reader' = IF reader.place = "idle" THEN reader ELSE [reader EXCEPT !.ready = @ \cup {a}]

\* A task that was aborted runs on to its next await.
MarkReady(r, a) ==
    /\ adapter[r][a] \in {"connecting", "aborting"}
    /\ adapter' = [adapter EXCEPT ![r][a] = IF @ = "connecting" THEN "ready" ELSE @]
    /\ online' = [online EXCEPT ![a] = TRUE]
    /\ Ready(a)
    /\ UNCHANGED <<active_run, phase, active_events, stage, events, dropped>>

MarkNotReady(r, a) ==
    /\ adapter[r][a] = "ready"
    /\ adapter' = [adapter EXCEPT ![r][a] = "connecting"]
    /\ online' = [online EXCEPT ![a] = FALSE]
    /\ UNCHANGED <<active_run, phase, active_events, stage, events, reader, dropped>>

\* `how`: it returns, or panics, or is dropped where it was aborted.
AdapterEnds(r, a, how) ==
    /\ adapter[r][a] \in IF how = "dropped" THEN {"aborting"} ELSE Alive
    /\ adapter' = [adapter EXCEPT ![r][a] = IF how = "panicked" THEN how ELSE "ended"]
    /\ online' = [online EXCEPT ![a] = @ /\ how # "returned" /\ a \notin Guarded]
    /\ UNCHANGED <<active_run, phase, active_events, stage, events, reader, dropped>>

\* record_event_started; the dispatcher drains while it ends.
StartEvent(r) ==
    /\ stage[r] \in {"running", "draining", "finish events"} /\ events[r] < MaxEvents
    /\ events' = [events EXCEPT ![r] = @ + 1]
    /\ active_events' = active_events + 1
    /\ UNCHANGED <<active_run, phase, online, stage, adapter, reader, dropped>>

\* record_event_completed, also when the task is dropped.
CompleteEvent(r) ==
    /\ events[r] > 0
    /\ events' = [events EXCEPT ![r] = @ - 1]
    /\ active_events' = IF active_events = 0 THEN 0 ELSE active_events - 1
    /\ UNCHANGED <<active_run, phase, online, stage, adapter, reader, dropped>>

(***************************************************************************)
(* RuntimeObserver::health                                                 *)
(***************************************************************************)
ReadPhase ==
    /\ reader.place = "idle"
    /\ reader' = [place |-> "read", phase |-> phase,
                  ready |-> {a \in Adapters : \E r \in Runs : adapter[r][a] = "ready"}]
    /\ UNCHANGED <<observer, stage, adapter, events, dropped>>

Status(p, configured) ==
    IF p = "running" THEN IF configured # {} /\ \A a \in configured : online[a] THEN "healthy" ELSE "degraded"
    ELSE IF p \in {"starting", "shutting down"} THEN "degraded"
    ELSE "unhealthy"

ReadAdapters ==
    /\ reader.place = "read"
    /\ reader' = [place |-> "judged", status |-> Status(reader.phase, Adapters), ready |-> reader.ready]
    /\ UNCHANGED <<observer, stage, adapter, events, dropped>>

Answer ==
    /\ reader.place = "judged"
    /\ reader' = [place |-> "idle"]
    /\ UNCHANGED <<observer, stage, adapter, events, dropped>>

Next ==
    \/ \E r \in Runs :
          \/ BeginRun(r) \/ ConfigureCounters(r) \/ ConfigureAdapters(r)
          \/ SetPhase(r, "configured", "starting", "starting")
          \/ SpawnAdapters(r)
          \/ SetPhase(r, "spawned", "running", "running")
          \/ DispatcherEnds(r)
          \/ SetPhase(r, "draining", "shutting down", "finish events")
          \/ SetPhase(r, "failing", "shutting down", "abort events")
          \/ FinishEvents(r) \/ AbortAdapters(r) \/ GoOffline(r)
          \/ SetPhase(r, "stopped", "stopped", "ending")
          \/ SetPhase(r, "failed", "failed", "ending")
          \/ EndRun(r) \/ Drop(r)
          \/ StartEvent(r) \/ CompleteEvent(r)
          \/ \E a \in Adapters : \/ MarkReady(r, a) \/ MarkNotReady(r, a)
                                 \/ \E how \in {"returned", "panicked", "dropped"} : AdapterEnds(r, a, how)
    \/ ReadPhase \/ ReadAdapters \/ Answer

Spec == Init /\ [][Next]_vars
-----------------------------------------------------------------------------
(***************************************************************************)
(* Properties                                                              *)
(***************************************************************************)
LiveEvents == FoldFunction(+, 0, events)

\* When no run is active, nothing is told to run: not even after a panic or an abort that came between
\* two marks of an adapter.
EndedIsQuiet ==
    ~ active_run =>
       /\ phase \in {"stopped", "failed"}
       /\ ~ dropped => active_events = 0 /\ online = Offline

\* No more events are told to be active than there are, and no fewer unless a run was dropped.
ActiveEventsExist == active_events <= LiveEvents /\ (~ dropped => active_events = LiveEvents)

\* The bot is healthy only when each adapter was ready at some time since its phase was read, or when
\* the task of an adapter that is not guarded has panicked and the dispatcher has not seen it yet.
HealthyMeansReady ==
    reader.place = "judged" /\ reader.status = "healthy" /\ ~ dropped =>
       \A a \in Adapters :
          \/ a \in reader.ready
          \/ a \notin Guarded /\ \E r \in Runs : adapter[r][a] = "panicked"
=============================================================================

----------------------------- MODULE WasmInstance -----------------------------
(***************************************************************************)
(* The one instance of a WebAssembly plugin and the calls that its host    *)
(* makes of it.  A call holds the lock of the instance from before it      *)
(* writes its data into the store until its timer is over.  The timer      *)
(* moves the epoch of the engine on when the time of the call is up, which *)
(* interrupts whatever the engine then runs.                               *)
(*                                                                         *)
(* The host calls on_event for events; when it is given another            *)
(* configuration it lets the events end, and has the plugin validate it,   *)
(* shut down and initialise, with the old configuration again if that      *)
(* fails.  The host limits the time of a call too, and drops the call when *)
(* it is up: the timer is then aborted but not waited for.                 *)
(***************************************************************************)
EXTENDS Integers

CONSTANTS Events, Configs, Start,   \* on_event calls; configurations, the first one
          Nobody, MaxUpdates

Changes == {"validate", "shutdown", "init", "rollback"}
Calls == Events \cup Changes

VARIABLES lock,         \* the call that holds the instance, or Nobody
          call,         \* "idle", "waiting", "running", "ending", then "ok", "failed", "trapped", "dropped"
          timer,        \* "none", "asleep", "fired" (about to move the epoch), "gone"
          interrupt,    \* the call whose timer has moved the epoch past the deadline, or Nobody
          data,         \* the store's data: the call whose state it is, the configuration
          trap,         \* for each call the timer that interrupted it
          host          \* the configuration in force, the proposed one, what is going on

vars == <<lock, call, timer, interrupt, data, trap, host>>

Over == {"ok", "failed", "trapped", "dropped"}

Init ==
    /\ lock = Nobody
    /\ call = [c \in Calls |-> "idle"] /\ timer = [c \in Calls |-> "none"]
    /\ interrupt = Nobody
    /\ data = [state |-> Nobody, config |-> Start]
    /\ trap = [c \in Calls |-> Nobody]
    /\ host = [config |-> Start, proposed |-> Start, phase |-> "ready", updates |-> 0]

(***************************************************************************)
(* A call of the instance                                                  *)
(***************************************************************************)
\* The configuration is written by the calls that are given one; on_event is not.
ConfigOf(c) ==
    CASE c \in {"validate", "init"} -> host.proposed
      [] c = "rollback" -> host.config
      [] OTHER -> data.config

\* prepare_invocation: the deadline is one after the present epoch.
Lock(c) ==
    /\ call[c] = "waiting" /\ lock = Nobody
    /\ lock' = c
    /\ interrupt' = Nobody
    /\ timer' = [timer EXCEPT ![c] = "asleep"]
    /\ data' = [state |-> c, config |-> ConfigOf(c)]
    /\ call' = [call EXCEPT ![c] = "running"]
    /\ UNCHANGED <<trap, host>>

TimerFires(c) ==
    /\ timer[c] = "asleep"
    /\ timer' = [timer EXCEPT ![c] = "fired"]
    /\ UNCHANGED <<lock, call, interrupt, data, trap, host>>

IncrementEpoch(c) ==
    /\ timer[c] = "fired"
    /\ timer' = [timer EXCEPT ![c] = "gone"]
    /\ interrupt' = IF lock = Nobody \/ interrupt # Nobody THEN interrupt ELSE c
    /\ UNCHANGED <<lock, call, data, trap, host>>

GuestTraps(c) ==
    /\ call[c] = "running" /\ interrupt # Nobody
    /\ call' = [call EXCEPT ![c] = "ending"]
    /\ trap' = [trap EXCEPT ![c] = interrupt]
    /\ UNCHANGED <<lock, timer, interrupt, data, host>>

GuestReturns(c) ==
    /\ call[c] = "running"
    /\ call' = [call EXCEPT ![c] = "ending"]
    /\ UNCHANGED <<lock, timer, interrupt, data, trap, host>>

\* A task that has fired cannot be aborted any more.
Aborted(c) == [timer EXCEPT ![c] = IF @ = "asleep" THEN "gone" ELSE @]

MayUnlock(c) == timer[c] # "fired"

\* EpochDeadline::cancel: the timer is aborted, and waited for.
Return(c) ==
    /\ call[c] = "ending" /\ MayUnlock(c)
    /\ lock' = Nobody
    /\ timer' = Aborted(c)
    /\ \E result \in {"ok", "failed"} :
          call' = [call EXCEPT ![c] = IF trap[c] # Nobody THEN "trapped" ELSE result]
    /\ UNCHANGED <<interrupt, data, trap, host>>

\* The host's own time limit.
Drop(c) ==
    /\ call[c] \in {"waiting", "running", "ending"}
    /\ call' = [call EXCEPT ![c] = "dropped"]
    /\ lock' = IF lock = c THEN Nobody ELSE lock
    /\ timer' = Aborted(c)
    /\ UNCHANGED <<interrupt, data, trap, host>>

(***************************************************************************)
(* The host                                                                *)
(***************************************************************************)
StartEvent(e) ==
    /\ host.phase = "ready" /\ call[e] = "idle"
    /\ call' = [call EXCEPT ![e] = "waiting"]
    /\ UNCHANGED <<lock, timer, interrupt, data, trap, host>>

Begin(phase, calls) == [calls EXCEPT ![phase] = "waiting"]

\* The events that have been admitted end first.  The schema may already refuse the configuration.
UpdateConfig(config) ==
    /\ host.phase = "ready" /\ host.updates < MaxUpdates /\ config # host.config
    /\ \A e \in Events : call[e] = "idle" \/ call[e] \in Over
    /\ host' = [host EXCEPT !.proposed = config, !.phase = "validate", !.updates = @ + 1]
    /\ call' = Begin("validate", [c \in Calls |-> IF c \in Changes THEN "idle" ELSE call[c]])
    /\ trap' = [c \in Calls |-> IF c \in Changes THEN Nobody ELSE trap[c]]
    /\ UNCHANGED <<lock, timer, interrupt, data>>

\* What follows on a change that went well, or not.
Following(phase, ok) ==
    CASE phase = "validate" -> IF ok THEN "shutdown" ELSE "ready"
      [] phase = "shutdown" -> IF ok THEN "init" ELSE "ready"
      [] phase = "init" -> IF ok THEN "ready" ELSE "rollback"
      [] phase = "rollback" -> IF ok THEN "ready" ELSE "disabled"

Changed ==
    /\ host.phase \in Changes /\ call[host.phase] \in Over
    /\ LET ok == call[host.phase] = "ok"
           following == Following(host.phase, ok)
       IN  /\ host' = [host EXCEPT !.phase = following,
                                   !.config = IF host.phase = "init" /\ ok THEN host.proposed ELSE @]
           /\ call' = IF following \in Changes THEN Begin(following, call) ELSE call
    /\ UNCHANGED <<lock, timer, interrupt, data, trap>>

Next ==
    \/ \E c \in Calls :
          \/ Lock(c) \/ TimerFires(c) \/ IncrementEpoch(c)
          \/ GuestTraps(c) \/ GuestReturns(c) \/ Return(c) \/ Drop(c)
    \/ \E e \in Events : StartEvent(e)
    \/ \E config \in Configs : UpdateConfig(config)
    \/ Changed

Spec == Init /\ [][Next]_vars
-----------------------------------------------------------------------------
(***************************************************************************)
(* Properties                                                              *)
(***************************************************************************)
\* A call is interrupted by its own timer, or by that of a call that was dropped when it had
\* fired already.  It runs on its own state, and no other call runs.
CallsAreIsolated ==
    /\ \A c \in Calls : trap[c] \in {c, Nobody} \/ call[trap[c]] = "dropped"
    /\ \A c \in Calls : call[c] \in {"running", "ending"} => lock = c /\ data.state = c

\* While an event is handled the plugin sees the configuration in force.
EventsSeeTheConfig ==
    \A e \in Events : call[e] = "running" => data.config = host.config
=============================================================================

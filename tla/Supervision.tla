----------------------------- MODULE Supervision -----------------------------
(***************************************************************************)
(* A run of the bot from its plugins being loaded to its exit code         *)
(* (src/src/bootstrap.rs), with the management server and its validation   *)
(* of configurations (src/src/management.rs).                              *)
(*                                                                         *)
(* The runtime and the management server run side by side; the end of      *)
(* either, or a signal, stops both, and the plugins are shut down when     *)
(* both have ended.  A validation runs on a thread that nothing can stop:  *)
(* it goes on when its request is given up and when its supervisor is      *)
(* aborted.                                                                *)
(***************************************************************************)
EXTENDS Integers, FiniteSets

CONSTANTS
    Requests,           \* requests to /config/check
    Slots               \* MAX_CONCURRENT_CONFIG_CHECKS

VARIABLES
    bot,                \* place of start
    runtime, management,\* place, or its result
    stopping,           \* ShutdownSignal
    signal,             \* result of wait_for_shutdown_signal
    plugins,            \* plugins.shutdown: not done, or its result
    supervisor,         \* run_validation_workers
    waiting,            \* requests that wait for their answer
    job,                \* request to the place of its ValidationJob
    unavailable         \* history: a request was refused although the supervisor was receiving

vars == <<bot, runtime, management, stopping, signal, plugins, supervisor, waiting, job, unavailable>>
process == <<bot, runtime, stopping, signal, plugins>>

Results == {"ok", "failed"}

Init ==
    /\ bot = "loading"
    /\ runtime = "off" /\ management = "off"
    /\ stopping = FALSE
    /\ signal = "ok" /\ plugins = "up"
    /\ supervisor = "off"
    /\ waiting = {}
    /\ job = [r \in Requests |-> "none"]
    /\ unavailable = FALSE

(***************************************************************************)
(* start                                                                   *)
(***************************************************************************)
\* load_plugins, or the preflight of check_only: the plugins are shut down on all paths.
LoadPlugins ==
    /\ bot = "loading"
    /\ \/ bot' = "supervising" /\ runtime' = "running" /\ management' = "binding"
       \/ \E result \in {"load failed", "gateway failed", "checked"} :
             bot' = result /\ UNCHANGED <<runtime, management>>
    /\ UNCHANGED <<stopping, signal, plugins, supervisor, waiting, job, unavailable>>

\* The runtime ends by itself only with an error; how it drains is the business of EventDispatcher.
RuntimeEnds ==
    /\ runtime = "running"
    /\ \E result \in Results : (result = "ok" => stopping) /\ runtime' = result
    /\ stopping' = TRUE
    /\ UNCHANGED <<bot, management, signal, plugins, supervisor, waiting, job, unavailable>>

Signal ==
    /\ bot = "supervising" /\ ~stopping
    /\ stopping' = TRUE
    /\ signal' \in Results
    /\ UNCHANGED <<bot, runtime, management, plugins, supervisor, waiting, job, unavailable>>

BothEnded_TheFirst == runtime \in Results \/ management \in Results
\* The other one is awaited after the first has ended.
BothEnded == runtime \in Results /\ management \in Results

Joined ==
    /\ bot = "supervising" /\ BothEnded
    /\ bot' = "stopping"
    /\ UNCHANGED <<runtime, management, stopping, signal, plugins, supervisor, waiting, job, unavailable>>

\* supervise_runtime: the error of the runtime goes before that of the server, this before that of the signal.
Supervised == IF runtime # "ok" THEN runtime ELSE IF management # "ok" THEN management ELSE signal

ShutdownPlugins ==
    /\ bot \in {"stopping", "load failed", "gateway failed", "checked"}
    /\ plugins' \in Results
    /\ bot' = IF \/ bot = "stopping" /\ Supervised = "ok" /\ plugins' = "ok"
                 \/ bot = "checked" /\ plugins' = "ok"
              THEN "success" ELSE "failure"
    /\ UNCHANGED <<runtime, management, stopping, signal, supervisor, waiting, job, unavailable>>

(***************************************************************************)
(* management::serve                                                       *)
(***************************************************************************)
\* It is disabled, or the address cannot be bound.
DoesNotServe ==
    /\ management = "binding"
    /\ \E result \in Results : (result = "ok" => stopping) /\ management' = result
    /\ stopping' = TRUE
    /\ UNCHANGED <<bot, runtime, signal, plugins, supervisor, waiting, job, unavailable>>

Bind ==
    /\ management = "binding"
    /\ management' = "serving" /\ supervisor' = "receiving"
    /\ UNCHANGED <<process, waiting, job, unavailable>>

\* The server ends when its connections do, fails, or is given up at the deadline.
ServerEnds ==
    /\ management = "serving"
    /\ \/ stopping /\ waiting = {} /\ management' = "joining"
       \/ management' = "joining, failed"
    /\ UNCHANGED <<process, supervisor, waiting, job, unavailable>>

SupervisorEnds ==
    /\ supervisor = "receiving" /\ management \in {"joining", "joining, failed"}
    /\ waiting = {} /\ \A r \in Requests : job[r] \in {"none", "thread alone"}
    /\ supervisor' = "ended"
    /\ UNCHANGED <<process, management, waiting, job, unavailable>>

\* The grace is over: the tasks and the jobs of the channel are dropped, the threads are not.
AbortSupervisor ==
    /\ supervisor = "receiving" /\ management \in {"joining", "joining, failed"}
    /\ supervisor' = "aborted"
    /\ job' = [r \in Requests |-> IF job[r] \in {"thread", "thread alone"} THEN "thread alone" ELSE "none"]
    /\ waiting' = {}
    /\ UNCHANGED <<process, management, unavailable>>

ServeEnds ==
    /\ supervisor \in {"ended", "aborted"} /\ management \in {"joining", "joining, failed"}
    /\ management' = IF supervisor = "ended" /\ management = "joining" THEN "ok" ELSE "failed"
    /\ stopping' = TRUE
    /\ UNCHANGED <<bot, runtime, signal, plugins, supervisor, waiting, job, unavailable>>

(***************************************************************************)
(* config_check and run_validation_workers                                 *)
(***************************************************************************)
\* The permit goes with the job, and on to the thread.
HoldsPermit(r) == job[r] \in {"queued", "thread", "thread alone"}

Queued == {r \in Requests : job[r] = "queued"}
Tasks == {r \in Requests : job[r] \in {"thread", "checked"}}

\* Behind the concurrency limit; more requests, and one without a permit, are told that it is busy.
ConfigCheck(r) ==
    /\ management = "serving"
    /\ r \notin waiting /\ job[r] = "none"
    /\ Cardinality(waiting) < Slots
    /\ Cardinality({q \in Requests : HoldsPermit(q)}) < Slots
    /\ IF Cardinality(Queued) < Slots
       THEN waiting' = waiting \cup {r} /\ job' = [job EXCEPT ![r] = "queued"] /\ UNCHANGED unavailable
       ELSE unavailable' = TRUE /\ UNCHANGED <<waiting, job>>
    /\ UNCHANGED <<process, management, supervisor>>

\* CONFIG_CHECK_TIMEOUT, or the client is gone: the job stays.
GiveUp(r) ==
    /\ r \in waiting
    /\ waiting' = waiting \ {r}
    /\ UNCHANGED <<process, management, supervisor, job, unavailable>>

StartThread(r) ==
    /\ supervisor = "receiving" /\ job[r] = "queued"
    /\ Cardinality(Tasks) < Slots
    /\ job' = [job EXCEPT ![r] = "thread"]
    /\ UNCHANGED <<process, management, supervisor, waiting, unavailable>>

StartFails(r) ==
    /\ supervisor = "receiving" /\ job[r] = "queued"
    /\ Cardinality(Tasks) < Slots
    /\ job' = [job EXCEPT ![r] = "checked"]
    /\ UNCHANGED <<process, management, supervisor, waiting, unavailable>>

\* The result goes to the task, if there is still one.
ThreadEnds(r) ==
    /\ job[r] \in {"thread", "thread alone"}
    /\ job' = [job EXCEPT ![r] = IF @ = "thread" THEN "checked" ELSE "none"]
    /\ UNCHANGED <<process, management, supervisor, waiting, unavailable>>

Respond(r) ==
    /\ job[r] = "checked"
    /\ job' = [job EXCEPT ![r] = "none"]
    /\ waiting' = waiting \ {r}
    /\ UNCHANGED <<process, management, supervisor, unavailable>>

Next ==
    \/ LoadPlugins \/ RuntimeEnds \/ Signal \/ Joined \/ ShutdownPlugins
    \/ DoesNotServe \/ Bind \/ ServerEnds \/ SupervisorEnds \/ AbortSupervisor \/ ServeEnds
    \/ \E r \in Requests :
          \/ ConfigCheck(r) \/ GiveUp(r)
          \/ StartThread(r) \/ StartFails(r) \/ ThreadEnds(r) \/ Respond(r)

Spec == Init /\ [][Next]_vars
----------------------------------------------------------------------------
(***************************************************************************)
(* Plugins are shut down only when neither the runtime, whose handlers     *)
(* they are, nor the server runs, and on every way out; the exit code is   *)
(* success only if nothing has failed (start, supervise_runtime).          *)
(***************************************************************************)
ExitIsOrderly ==
    /\ plugins \in Results => runtime \in Results \cup {"off"} /\ management \in Results \cup {"off"}
    /\ bot \in {"success", "failure"} => plugins \in Results
    /\ bot = "success" => "failed" \notin {runtime, management, signal, plugins}

(***************************************************************************)
(* No more threads validate than there are slots, whichever requests were  *)
(* given up, and a request that has a slot finds room in the channel       *)
(* (config_check, run_validation_workers).                                 *)
(***************************************************************************)
ValidationsAreBounded ==
    /\ Cardinality({r \in Requests : job[r] \in {"thread", "thread alone"}}) <= Slots
    /\ ~unavailable
=============================================================================

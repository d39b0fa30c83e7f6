---------------------------- MODULE MCComponents ----------------------------
(***************************************************************************)
(* TLC instances of the components that share no state with one another    *)
(* in the code: a behaviour is about one of them, the selected one.  Its   *)
(* variables are the first of x1, ..., x10, in the order of its VARIABLES; *)
(* the others keep the value Unused.                                       *)
(***************************************************************************)
EXTENDS Integers, Sequences, FiniteSets, TLC

CONSTANTS None, r1, r2, r3, r4, p1, p2, u, v, w, t1, t2, room, lobby, sink, tools

VARIABLES selected, x1, x2, x3, x4, x5, x6, x7, x8, x9, x10

Unused == "unused"

\* r1, ..., r4 are requests, invocations, uploads and names, p1 and p2 instances and processes.
Symmetry == Permutations({r1, r2, r3}) \cup Permutations({p1, p2})

(***************************************************************************)
(* The components                                                          *)
(***************************************************************************)
\* Three events of one partition, one of them of another adapter, and one of another partition.
Dispatcher ==
    INSTANCE EventDispatcher WITH
        Adapters <- {u, v}, Deliveries <- 1..4,
        AdapterOf <- <<u, u, v, u>>, Partitions <- {room, lobby},
        PartitionOf <- <<room, room, room, lobby>>, NoDelivery <- None,
        QueueCapacity <- 2, Concurrency <- 1,
        adapter <- x1, permits <- x2, queue <- x3, task <- x4, previous <- x5, tails <- x6,
        runtime <- x7, failed <- x8, accepted <- x9, finished <- x10

Router ==
    INSTANCE EventRouter WITH
        Routes <- 1..3, Priority <- <<1, 0, 1>>, StopAfterMatch <- {1}, Depth <- <<1, 2, 0>>,
        Names <- {r1, r2, r3}, MaxKeys <- 4, MaxDeliveries <- 2,
        matches <- x1, run <- x2, entered <- x3, begun <- x4, left <- x5, passed <- x6,
        deliveries <- x7, commands <- x8

Assets ==
    INSTANCE AssetStore WITH
        Instances <- {p1, p2}, TTL <- 1, MaxInstanceAssets <- 2, MaxInstanceBytes <- 3,
        MaxStoreAssets <- 3, MaxStoreBytes <- 4, MaxBytes <- 2, MaxArtifacts <- 2,
        MaxAssets <- 3, MaxClock <- 1,
        records <- x1, instance_usage <- x2, total_bytes <- x3, command <- x4,
        inserted <- x5, clock <- x6

Actions ==
    INSTANCE PlatformActions WITH
        Commands <- {p1, p2}, Targets <- {t1, t2}, Granted <- {t1}, Budget <- 3, MaxRedirects <- 1,
        command <- x1, encoding <- x2, effects <- x3, requested <- x4

Tokens ==
    INSTANCE AccessTokens WITH
        Calls <- {u, v, w}, Once <- {u, v}, Nobody <- None, MaxTokens <- 3,
        cached <- x1, age <- x2, refresh <- x3, issued <- x4, valid <- x5, call <- x6,
        sent <- x7, effects <- x8

Clients ==
    INSTANCE UploadClients WITH
        Uploads <- {r1, r2, r3, r4}, Hosts <- {u, v},
        HostOf <- (r1 :> u @@ r2 :> u @@ r3 :> u @@ r4 :> v), Capacity <- 1,
        cache <- x1, initializers <- x2, held <- x3, pc <- x4

Plan ==
    INSTANCE UploadPlan WITH
        MaxParts <- 3, MaxBytes <- 3,
        file <- x1, block <- x2, parts <- x3, verdict <- x4

\* Two events, a callback that is not handled and one that is malformed; room for one event.
Webhook ==
    INSTANCE WebhookIntake WITH
        Requests <- {r1, r2, r3}, Events <- {p1, p2, u, v},
        Kind <- (p1 :> "event" @@ p2 :> "event" @@ u :> "ignored" @@ v :> "malformed"),
        Window <- 1, Timeout <- 1, MaxSeen <- 1, Unseen <- None, MaxClock <- 2, MaxRuns <- 2,
        clock <- x1, running <- x2, generation <- x3, seen <- x4, request <- x5, taken <- x6

Bot ==
    INSTANCE Supervision WITH
        Requests <- {r1, r2, r3}, Slots <- 2,
        bot <- x1, runtime <- x2, management <- x3, stopping <- x4, signal <- x5, plugins <- x6,
        supervisor <- x7, waiting <- x8, job <- x9, unavailable <- x10

Logs ==
    INSTANCE LogWriter WITH
        MaxFile <- 2, MaxTotal <- 3, MaxFiles <- 3, MaxRecords <- 4,
        source <- x1, archive <- x2, temporary <- x3, writer <- x4, opened <- x5, written <- x6,
        evicted <- x7

\* Two packages of one plugin.
Installation ==
    INSTANCE PluginInstallation WITH
        Invocations <- {r1, r2, r3}, Instances <- {p1, p2}, Packages <- {u, v},
        PluginOf <- (u :> "plugin" @@ v :> "plugin"), Nothing <- None, MaxClock <- 2,
        rows <- x1, files <- x2, lock <- x3, pc <- x4, call <- x5, seen <- x6, target <- x7,
        clock <- x8, issued <- x9, bot <- x10

Publish ==
    INSTANCE PluginPublish WITH
        Publishers <- {p1, p2}, Checkouts <- {sink, tools}, MaxCommit <- 2, MaxBuilds <- 3, MaxRuns <- 1,
        head <- x1, localTag <- x2, package <- x3, branch <- x4, tag <- x5, release <- x6,
        builds <- x7, objects <- x8, issues <- x9, pub <- x10

Browser ==
    INSTANCE BrowserRuntime WITH
        Processes <- {u}, Runtimes <- {p1, p2}, Parts <- 2, MaxSize <- 3,
        runtime <- x1, active <- x2, lock <- x3, op <- x4, archive <- x5, bot <- x6, removed <- x7

\* What the platforms may tell: T, in the order of the fields of EventIdentity.
Qq(family, date, id, own, contents) ==
    [platform |-> "qq", family |-> family, valid |-> TRUE, date |-> date, id |-> id, own |-> own,
     numbered |-> TRUE, second |-> 0, contents |-> contents]
OneBot(family, own, second, contents) ==
    [platform |-> "onebot", family |-> family, valid |-> TRUE, date |-> "good", id |-> None, own |-> own,
     numbered |-> FALSE, second |-> second, contents |-> contents]

Identity ==
    INSTANCE EventIdentity WITH
        Tellings <-
          {Qq("message", "good", None, "m1", "hello"), Qq("message", "absent", "d1", "m2", "hello"),
           Qq("reaction", "good", None, None, "added"), Qq("reaction", "good", None, None, "removed"),
           [Qq("group member", "good", None, None, "joined") EXCEPT !.numbered = FALSE],
           Qq("forum post", "absent", "d2", None, "posted"), Qq("friend", "good", "d3", None, "befriended"),
           Qq("interaction", "good", None, "i1", "pressed"),
           [Qq("channel", "absent", None, None, "created") EXCEPT !.valid = FALSE],
           OneBot("message", "m1", 1, "hello"), OneBot("message", "m3", 1, "hello"),
           OneBot("friend", None, 1, "poke"), OneBot("friend", None, 2, "poke"),
           OneBot("unhandled", None, 1, "vendor")},
        MaxEvents <- 3, MaxSessions <- 2, Nothing <- None,
        session <- x1, next <- x2, events <- x3, received <- x4, known <- x5, handled <- x6

Heartbeat ==
    INSTANCE GatewayHeartbeat WITH
        Interval <- 3, Delay <- 1, MaxUnread <- 3,
        timer <- x1, heartbeat_acknowledged <- x2, loop <- x3, lastSent <- x4, unanswered <- x5,
        socket <- x6, alive <- x7, grace <- x8

Reminder ==
    INSTANCE Reminders WITH
        Tasks <- {p1, p2}, MaxTasks <- 1, MaxCrashes <- 1,
        state <- x1, rows <- x2, workers <- x3, ledger <- x4, runner <- x5, user <- x6, host <- x7

Wasm ==
    INSTANCE WasmInstance WITH
        Events <- {p1, p2}, Configs <- {1, 2}, Start <- 1, Nobody <- None, MaxUpdates <- 1,
        lock <- x1, call <- x2, timer <- x3, interrupt <- x4, data <- x5, trap <- x6, host <- x7

\* Three starts in containers, which have the same process id.
Files ==
    INSTANCE ConfigFiles WITH
        Starts <- {r1, r2, r3}, Nobody <- None, Pid <- (r1 :> 1 @@ r2 :> 1 @@ r3 :> 1),
        disk <- x1, temps <- x2, lock <- x3, pc <- x4, mem <- x5, last <- x6, harmed <- x7

Build ==
    INSTANCE PluginBuild WITH
        Commands <- {p1, p2}, MaxRevision <- 2,
        project <- x1, core <- x2, component <- x3, packages <- x4, temp <- x5, pc <- x6, mem <- x7

Marketplace ==
    INSTANCE PluginMarketplace WITH
        Plugins <- {u, v}, Versions <- {1, 2}, Capabilities <- {w}, Repositories <- {u, v}, Nothing <- None,
        command <- x1, row <- x2, owners <- x3, accepted <- x4, wanted <- x5

Storage ==
    INSTANCE StorageMigration WITH
        Processes <- {p1, p2}, Instances <- {u, v}, MaxKills <- 1,
        columns <- x1, rows <- x2, others <- x3, pc <- x4, mem <- x5, installed <- x6, listed <- x7,
        kills <- x8

\* One adapter with a guard, one without.
Health ==
    INSTANCE RuntimeHealth WITH
        Runs <- {p1, p2}, Adapters <- {u, v}, Guarded <- {u}, MaxEvents <- 1,
        active_run <- x1, phase <- x2, online <- x3, active_events <- x4, stage <- x5, adapter <- x6,
        events <- x7, reader <- x8, dropped <- x9

\* Sizes in small units, words of four bits.
Configuration ==
    INSTANCE BotConfiguration WITH
        Ports <- {1, 2}, Sizes <- 0..3, Counts <- 0..3, Word <- 16, FrameBytes <- 1,
        EventMultiplier <- 2, SlotMultiplier <- 2, ConnectionEvents <- 1, RequestMultiplier <- 2,
        MaxBytes <- 2, MaxCapacity <- 2, MaxConcurrency <- 2, QueueBudget <- 12, RequestBudget <- 4,
        config <- x1, verdict <- x2

\* Two of the three origins are of one host.
Task ==
    INSTANCE BrowserTask WITH
        Origins <- {u, v, w}, HostOf <- (u :> sink @@ v :> sink @@ w :> tools), Declared <- <<u, v>>,
        Addresses <- {t1, t2}, Requests <- {r1, r2, r3}, Connections <- {room}, Nothing <- None,
        Budget <- 2, MaxSteps <- 2,
        phase <- x1, pinned <- x2, todo <- x3, nav <- x4, request <- x5, used <- x6, connection <- x7,
        closing <- x8, page <- x9, astray <- x10

ASSUME Dispatcher!DispatcherAssumption
ASSUME Heartbeat!HeartbeatAssumption
ASSUME Webhook!IntakeAssumption
ASSUME Tokens!TokenAssumption
ASSUME Clients!UploadAssumption
ASSUME Plan!PlanAssumption
ASSUME Installation!PackageAssumption

(***************************************************************************)
(* One of them                                                             *)
(***************************************************************************)
From3 == <<x3, x4, x5, x6, x7, x8, x9, x10>>
From5 == <<x5, x6, x7, x8, x9, x10>>
From6 == <<x6, x7, x8, x9, x10>>
From7 == <<x7, x8, x9, x10>>
From8 == <<x8, x9, x10>>
From9 == <<x9, x10>>
From10 == <<x10>>
all == <<selected, x1, x2, x3, x4, x5, x6, x7, x8, x9, x10>>

Unused10 == x10 = Unused
Unused9 == x9 = Unused /\ Unused10
Unused8 == x8 = Unused /\ Unused9
Unused7 == x7 = Unused /\ Unused8
Unused6 == x6 = Unused /\ Unused7
Unused5 == x5 = Unused /\ Unused6
Unused3 == x3 = Unused /\ x4 = Unused /\ Unused5

Init ==
    \/ selected = "dispatcher" /\ Dispatcher!Init
    \/ selected = "router" /\ Router!Init /\ Unused9
    \/ selected = "assets" /\ Assets!Init /\ Unused7
    \/ selected = "actions" /\ Actions!Init /\ Unused5
    \/ selected = "tokens" /\ Tokens!Init /\ Unused9
    \/ selected = "clients" /\ Clients!Init /\ Unused5
    \/ selected = "plan" /\ Plan!Init /\ Unused5
    \/ selected = "webhook" /\ Webhook!Init /\ Unused7
    \/ selected = "bot" /\ Bot!Init
    \/ selected = "logs" /\ Logs!Init /\ Unused8
    \/ selected = "installation" /\ Installation!Init
    \/ selected = "publish" /\ Publish!Init
    \/ selected = "browser" /\ Browser!Init /\ Unused8
    \/ selected = "browser task" /\ Task!Init
    \/ selected = "identity" /\ Identity!Init /\ Unused7
    \/ selected = "heartbeat" /\ Heartbeat!Init /\ Unused9
    \/ selected = "reminders" /\ Reminder!Init /\ Unused8
    \/ selected = "wasm" /\ Wasm!Init /\ Unused8
    \/ selected = "files" /\ Files!Init /\ Unused8
    \/ selected = "build" /\ Build!Init /\ Unused8
    \/ selected = "marketplace" /\ Marketplace!Init /\ Unused6
    \/ selected = "storage" /\ Storage!Init /\ Unused9
    \/ selected = "health" /\ Health!Init /\ Unused10
    \/ selected = "configuration" /\ Configuration!Init /\ Unused3

Next ==
    /\ UNCHANGED selected
    /\ \/ selected = "dispatcher" /\ Dispatcher!Next
       \/ selected = "router" /\ Router!Next /\ UNCHANGED From9
       \/ selected = "assets" /\ Assets!Next /\ UNCHANGED From7
       \/ selected = "actions" /\ Actions!Next /\ UNCHANGED From5
       \/ selected = "tokens" /\ Tokens!Next /\ UNCHANGED From9
       \/ selected = "clients" /\ Clients!Next /\ UNCHANGED From5
       \/ selected = "plan" /\ Plan!Next /\ UNCHANGED From5
       \/ selected = "webhook" /\ Webhook!Next /\ UNCHANGED From7
       \/ selected = "bot" /\ Bot!Next
       \/ selected = "logs" /\ Logs!Next /\ UNCHANGED From8
       \/ selected = "installation" /\ Installation!Next
       \/ selected = "publish" /\ Publish!Next
       \/ selected = "browser" /\ Browser!Next /\ UNCHANGED From8
       \/ selected = "browser task" /\ Task!Next
       \/ selected = "identity" /\ Identity!Next /\ UNCHANGED From7
       \/ selected = "heartbeat" /\ Heartbeat!Next /\ UNCHANGED From9
       \/ selected = "reminders" /\ Reminder!Next /\ UNCHANGED From8
       \/ selected = "wasm" /\ Wasm!Next /\ UNCHANGED From8
       \/ selected = "files" /\ Files!Next /\ UNCHANGED From8
       \/ selected = "build" /\ Build!Next /\ UNCHANGED From8
       \/ selected = "marketplace" /\ Marketplace!Next /\ UNCHANGED From6
       \/ selected = "storage" /\ Storage!Next /\ UNCHANGED From9
       \/ selected = "health" /\ Health!Next /\ UNCHANGED From10
       \/ selected = "configuration" /\ Configuration!Next /\ UNCHANGED From3

Spec == Init /\ [][Next]_all
----------------------------------------------------------------------------
(***************************************************************************)
(* The events of one partition are handled in the order of their           *)
(* acceptance, the map of tails knows the last task of each partition, the *)
(* queue and the slots keep their bounds, and a dispatcher that ends       *)
(* without an error has handled all it accepted, whatever the adapters did *)
(* when the shutdown came; each middleware is left once, in reverse order, *)
(* a delivery succeeds only when all routes it had to take have run, and   *)
(* an alias runs its own command (EventDispatcher::spawn_event,            *)
(* prepare_shutdown, EventRouter::handle).                                 *)
(***************************************************************************)
EventsAreDispatched ==
    /\ selected = "dispatcher" =>
          /\ Dispatcher!Bounded /\ Dispatcher!PartitionOrder
          /\ Dispatcher!TailExact /\ Dispatcher!DrainComplete
    /\ selected = "router" =>
          Router!EachIsLeftOnce /\ Router!SuccessMeansAllRoutes /\ Router!AliasesRunTheirCommand

(***************************************************************************)
(* The accounts of the asset store are exact and within the limits         *)
(* although the capacity is looked up before an await; uploads to one host *)
(* use one client at a time, and a plan that is accepted covers the file   *)
(* exactly (AssetStore, upload_client_for,                                 *)
(* UploadPrepareResponse::validate_for_request).                           *)
(***************************************************************************)
AssetsAndUploadsAreSound ==
    /\ selected = "assets" => Assets!AssetsAreAccounted
    /\ selected = "clients" => Clients!OneResolutionPerHost
    /\ selected = "plan" => Plan!AcceptedPlanTilesTheFile

(***************************************************************************)
(* The status of a command is true, its image is within the budget while   *)
(* it is in memory, an HTTP request stays on granted targets, a call of a  *)
(* WASM plugin is interrupted by its own deadline only, and a browser task *)
(* keeps its headers and its connections where they belong                 *)
(* (execute_context_command, SecureHttpExecutor, WasmPlugin::call,         *)
(* InstalledBrowserExecutor::execute and its worker).                      *)
(***************************************************************************)
PluginCallsAreSound ==
    /\ selected = "actions" =>
          Actions!StatusIsTrue /\ Actions!InlineMediaBounded /\ Actions!OnlyGrantedTargets
    /\ selected = "wasm" => Wasm!CallsAreIsolated
    /\ selected = "browser task" =>
          Task!HeadersStayHome /\ Task!UpstreamsHaveClients /\ Task!PinsAgree

(***************************************************************************)
(* A call is executed at most once although it may be sent twice with      *)
(* another token (OpenApiClient::send_authorized).                         *)
(***************************************************************************)
ExecutedAtMostOnce == selected = "tokens" => Tokens!ExecutedAtMostOnce

(***************************************************************************)
(* A usable token is given up only for a call that was refused with it     *)
(* (TokenManager::refresh_if_current, invalidate_if_current).              *)
(***************************************************************************)
OnlyItsVictimReplacesAToken == [][selected = "tokens" => Tokens!ReplacesItsOwn]_all

(***************************************************************************)
(* A callback that is acknowledged to the platform was handed over, and it *)
(* is handed over again only when the first request is of no account any   *)
(* more; an event that is told twice is handled once, and no other event   *)
(* is taken for it (dispatch_response, SeenEvents, map_dispatch).          *)
(***************************************************************************)
EventsAreTakenOnce ==
    /\ selected = "webhook" => Webhook!AcknowledgedIsTaken /\ Webhook!TakenAgainOnlyAfterExpiry
    /\ selected = "identity" => Identity!HandledAtMostOnce /\ Identity!OnlyTheSameIsSwallowed

(***************************************************************************)
(* A gateway that is dead is given up in time, and one that lives is kept, *)
(* also by a loop that was busy; the bot is told to be healthy only when   *)
(* each adapter was ready, and nothing is told to run when no run is       *)
(* active (run_connection_loop, RuntimeObserver, RuntimeShutdown::finish). *)
(***************************************************************************)
HealthIsJudged ==
    /\ selected = "heartbeat" => Heartbeat!TheDeadIsNoticed /\ Heartbeat!TheLivingIsKept
    /\ selected = "health" => Health!EndedIsQuiet /\ Health!ActiveEventsExist /\ Health!HealthyMeansReady

(***************************************************************************)
(* The bot stops its plugins last and on every path, its exit code tells   *)
(* of every failure, and given up validations keep their slots until their *)
(* threads end (start, supervise_runtime, run_validation_workers).         *)
(***************************************************************************)
BotEndsInOrder == selected = "bot" => Bot!ExitIsOrderly /\ Bot!ValidationsAreBounded

(***************************************************************************)
(* Files of the configuration that one setup wrote belong together, and    *)
(* one that is torn was torn where it was created; the listeners of an     *)
(* accepted configuration can be bound, what is not encrypted is reached   *)
(* from this host only, and the limits keep the memory within the budgets  *)
(* (BotConfig::load, setup::run, BotConfig::validate).                     *)
(***************************************************************************)
ConfigurationIsSound ==
    /\ selected = "files" => Files!FilesBelongTogether /\ Files!TornOnlyByItsCreation
    /\ selected = "configuration" =>
          Configuration!ListenersAreJudged /\ Configuration!PlaintextIsLocal /\ Configuration!MemoryIsBounded

(***************************************************************************)
(* No record of the log is lost by a failed or killed archiving            *)
(* (archive_file, enforce_capacity).                                       *)
(***************************************************************************)
NoRecordIsLost == selected = "logs" => Logs!NoRecordIsLost

(***************************************************************************)
(* A record is written only within the total (ManagedLogWriter::write).    *)
(***************************************************************************)
WithinTheTotal == [][selected = "logs" => Logs!WritesWithin]_all

(***************************************************************************)
(* The package of every installed row is there; a plugin from the          *)
(* marketplace is what its entry says, has what the user has accepted, and *)
(* runs only if the user wants it to; and a migration of the database      *)
(* loses neither a plugin nor who named its administrators                 *)
(* (install_or_update, MarketplaceClient, PluginStore::from_connection).   *)
(***************************************************************************)
InstallationsAreSound ==
    /\ selected = "installation" => Installation!InstalledPackagesExist
    /\ selected = "marketplace" =>
          Marketplace!PackageIsAsDescribed /\ Marketplace!GrantsAreAccepted /\ Marketplace!DisabledStaysDisabled
    /\ selected = "storage" => Storage!RowsAreKept /\ Storage!NamedStayNamed /\ Storage!OpenIsReadable

(***************************************************************************)
(* No invocation undoes what another has changed while it waited for its   *)
(* user (write_installation, remove_installation_if_updated).              *)
(***************************************************************************)
NoChangeIsLost == [][selected = "installation" => Installation!KeepsChanges]_all

(***************************************************************************)
(* A package that is built holds what was there when it was built and is   *)
(* valid; an issue is filed only for what is released, and the first of    *)
(* several stays open (write_package, build_project, create_and_push_tag,  *)
(* create_github_release, close_newer_duplicate_issue).                    *)
(***************************************************************************)
PackagesAreReleased ==
    /\ selected = "build" => Build!PackagesAreValid /\ Build!BuildsAreFresh
    /\ selected = "publish" => Publish!SubmittedIsReleased /\ Publish!CanonicalStaysOpen

(***************************************************************************)
(* A Browser Runtime in use is whole (install, remove_blocking,            *)
(* download_browser_archive).                                              *)
(***************************************************************************)
InstalledIsWhole == selected = "browser" => Browser!InstalledIsWhole

(***************************************************************************)
(* A reminder is in the index while it is pending, it is sent once and not *)
(* late, and none is forgotten by a crash (ReminderPlugin, the scheduler). *)
(***************************************************************************)
RemindersAreKept ==
    selected = "reminders" =>
       Reminder!IndexIsExact /\ Reminder!SentOnceAndNotLate /\ Reminder!NoneIsForgotten

(***************************************************************************)
(* The behaviours of a WASM plugin alone, and what the tests say of them:  *)
(* an event sees the configuration that is in force (on_event, config_get) *)
(***************************************************************************)
WasmSpec == (Init /\ selected = "wasm") /\ [][Next]_all

EventsSeeTheConfig == selected = "wasm" => Wasm!EventsSeeTheConfig
=============================================================================

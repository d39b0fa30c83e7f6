----------------------- MODULE PluginLifecycle_proofs -----------------------
(***************************************************************************)
(* Proofs about the changes of a plugin and the workers of its schedules,  *)
(* for any callers, updaters, tasks and permits.                           *)
(***************************************************************************)
EXTENDS PluginLifecycle, FiniteSetTheorems, TLAPS

----------------------------------------------------------------------------
(* The inductive invariant *)

Typed ==
  /\ rows \in [Tasks -> {"absent", "pending", "firing"}]
  /\ {data, code, config, switched} \subseteq Nat
  /\ {circuit, retired} \subseteq BOOLEAN
  /\ host \in {"down", "recovering", "up", "stopped"}
  /\ recovery \in [todo : SUBSET Events, at : SUBSET Events]
  /\ lifecycle \in [state : {"Ready", "Draining", "Disabled", "Stopped"},
                    generation : Nat]
  /\ guest \in [up : BOOLEAN, config : Nat]
  /\ free \in Nat
  /\ caller \in [Callers -> [pc : {"idle", "queued", "running"},
                             generation : Nat, since : Nat]]
  /\ changer \in [Changers -> Phases]
  /\ worker \in [Workers -> {"none", "sleeping", "queued", "firing", "finish",
                             "remove"}]
  /\ aborted \subseteq {w \in Workers : worker[w] = "firing"}
  /\ handle \in [Tasks -> Slots \cup {0}]
  /\ number \in [Changers -> Nat]
  /\ spent \in [calls : Nat, changes : Nat, starts : Nat,
                creations : [Tasks -> Nat]]

\* The phases that the three kinds of changes go through.
PhasesKept ==
  /\ changer[Shutdown] \in {"idle", "queued", "shutdown"}
  /\ changer[Upgrade] # "validate"
  /\ \A u \in Updaters : changer[u] \notin {"migrate", "health"}

\* A process that is down, or has not begun, holds nothing.
DownIsQuiet ==
  host = "down" =>
    /\ \A c \in Callers : caller[c].pc = "idle"
    /\ \A u \in Changers : changer[u] = "idle"
    /\ \A w \in Workers : worker[w] = "none"
    /\ \A t \in Tasks : handle[t] = 0
    /\ overtaken = {}
    /\ stranded = {}
    /\ guest.config = config

\* An upgrade has the host to itself, its workers apart.
UpgradeIsAlone ==
  Upgrading =>
    /\ host = "up"
    /\ \A c \in Callers : caller[c].pc = "idle"
    /\ \A u \in Changers \ {Upgrade} : changer[u] = "idle"

\* Nothing is invoked by the recovery but in register(), while the Runtime does
\* not run and nobody can change the plugin.
RecoveryIsAlone ==
  /\ recovery.todo \cup recovery.at # {} => host = "recovering"
  /\ host = "recovering" => /\ \A c \in Callers : caller[c].pc = "idle"
                            /\ \A u \in Changers : changer[u] = "idle"

\* The changes that hold the gate.
Inside == {u \in Changers : changer[u] \notin {"idle", "queued"}}

\* Every permit is free, or held by an invocation; or one change holds them all.
GateKept ==
  /\ IsFiniteSet(Running)
  /\ \/ Inside = {} /\ free + Cardinality(Running) = Permits
     \/ Inside # {} /\ Running = {} /\ free = 0
  /\ \A u, v \in Inside : u = v

\* The plugin is as the host shows it.
Consistent == guest = [up |-> TRUE, config |-> config]

\* No change has got so far that it stopped the plugin.
Undisturbed == \A u \in Inside : changer[u] \in {"validate", "shutdown"}

\* Where the code, the persisted state and the plugin itself are.
VersionsKept ==
  /\ data = IF changer[Upgrade] \in {"init", "health"} THEN code + 1 ELSE code
  /\ changer[Upgrade] = "health" => guest = [up |-> TRUE, config |-> config + 1]
  /\ host # "down" /\ ~retired /\ Undisturbed => Consistent

\* Changes are numbered as they begin, and a call that waits belongs to the
\* present generation only if none has begun since it was admitted.
GenerationsKept ==
  /\ switched <= spent.changes
  /\ \A u \in Changers : number[u] <= spent.changes
  /\ \A c \in Callers : caller[c].pc = "queued" =>
       /\ caller[c].generation <= lifecycle.generation
       /\ caller[c].generation = lifecycle.generation
            => caller[c].since = spent.changes

IInv ==
  /\ Typed
  /\ PhasesKept
  /\ DownIsQuiet
  /\ UpgradeIsAlone
  /\ RecoveryIsAlone
  /\ GateKept
  /\ VersionsKept

----------------------------------------------------------------------------
(* shutdown() has begun: until the process ends, nothing is launched for a task
   whose worker is gone. *)
Ending == changer[Shutdown] # "idle" \/ host = "stopped"

Alive(t, n) == worker[<<t, n>>] # "none"

\* A worker that has lost its handle without being overtaken: it was aborted
\* within its invocation, and nothing follows it.
Ghost(t, n) ==
  /\ worker[<<t, n>>] \in {"finish", "remove"} \/ <<t, n>> \in aborted
  /\ rows[t] = "absent" \/ Ending

\* The row of a task whose worker has claimed it.
Claimed(t) == IF t \in stranded THEN "pending" ELSE "firing"

\* The row of a task and the worker that has its handle.
RowOf(t, n) ==
  /\ worker[<<t, n>>] = "sleeping" => rows[t] = "pending" /\ t \notin stranded
  /\ worker[<<t, n>>] \in {"queued", "firing", "finish"} => rows[t] = Claimed(t)
  /\ worker[<<t, n>>] = "remove" =>
       rows[t] = IF t \in stranded THEN "pending" ELSE "absent"

\* The workers of a task that is not overtaken: there is one at most, and it has
\* the handle or is a ghost.
WorkersOf(t) ==
  /\ \A m, n \in Slots : Alive(t, m) /\ Alive(t, n) => m = n
  /\ handle[t] # 0 => Alive(t, handle[t]) /\ <<t, handle[t]>> \notin aborted
  /\ \A n \in Slots : Alive(t, n) /\ handle[t] # n => Ghost(t, n)
  /\ \A n \in Slots : handle[t] = n => RowOf(t, n)

\* Nothing is there of a task that was never created.
UnusedIsAbsent ==
  \A t \in Tasks : spent.creations[t] = 0 =>
    /\ rows[t] = "absent"
    /\ handle[t] = 0
    /\ t \notin stranded
    /\ \A n \in Slots : ~Alive(t, n)

\* While an upgrade holds the gate no task has a handle.
PausedHasNoHandle ==
  changer[Upgrade] \notin {"idle", "queued"} =>
    \A t \in Tasks : handle[t] = 0 /\ t \notin stranded

\* Until register() takes the schedules back no task is stranded, and those that
\* were overtaken were cancelled.
RecoveringRows ==
  host = "recovering" =>
    \A t \in Tasks :
      /\ t \notin stranded
      /\ t \in overtaken => rows[t] = "absent" /\ spent.creations[t] # 0

\* A pending schedule of a plugin in service has a worker that waits for it.
PendingIsAwaited ==
  InService => \A t \in Tasks : rows[t] = "pending" =>
                 \/ \E n \in Slots : worker[<<t, n>>] = "sleeping"
                 \/ t \in stranded

SchedulesKept ==
  /\ UnusedIsAbsent
  /\ PausedHasNoHandle
  /\ RecoveringRows
  /\ PendingIsAwaited
  /\ \A t \in Tasks \ overtaken : WorkersOf(t)

----------------------------------------------------------------------------
(* What the helpers of the scheduler do *)

WorkerStates == {"none", "sleeping", "queued", "firing", "finish", "remove"}

LEMMA WorkerIsPair ==
  ASSUME NEW w \in Workers
  PROVE  w[1] \in Tasks /\ w[2] \in Slots /\ w = <<w[1], w[2]>>
BY DEF Workers

LEMMA PairIsWorker ==
  ASSUME NEW t \in Tasks, NEW n \in Slots
  PROVE  <<t, n>> \in Workers /\ <<t, n>>[1] = t /\ <<t, n>>[2] = n
BY DEF Workers

\* launch_schedule(): a task of ts without a handle gets a new worker, asleep.
LEMMA Launched ==
  ASSUME Typed, NEW ts \in SUBSET Tasks, Launch(ts)
  PROVE  /\ worker' \in [Workers -> WorkerStates]
         /\ handle' \in [Tasks -> Slots \cup {0}]
         /\ \A w \in Workers :
              worker'[w] = worker[w]
                \/ /\ worker[w] = "none" /\ worker'[w] = "sleeping"
                   /\ w[1] \in ts /\ handle[w[1]] = 0 /\ handle'[w[1]] = w[2]
         /\ \A t \in Tasks : ~(t \in ts /\ handle[t] = 0) => handle'[t] = handle[t]
         /\ \A t \in ts : handle[t] = 0 =>
              /\ handle'[t] \in Slots
              /\ worker[<<t, handle'[t]>>] = "none"
              /\ worker'[<<t, handle'[t]>>] = "sleeping"
<1>. DEFINE new == {t \in ts : handle[t] = 0}
<1>1. \A t \in new : FreeSlot(t) \in FreeSlots(t)
  <2>. SUFFICES ASSUME NEW t \in new PROVE FreeSlot(t) \in FreeSlots(t)
    OBVIOUS
  <2>1. \E n : n \in FreeSlots(t)
    BY DEF Launch
  <2>. QED  BY <2>1 DEF FreeSlot
<1>2. \A t \in new : FreeSlot(t) \in Slots /\ worker[<<t, FreeSlot(t)>>] = "none"
  BY <1>1 DEF FreeSlots
<1>3. /\ worker' = [w \in Workers |-> IF w[1] \in new /\ w[2] = FreeSlot(w[1])
                                        THEN "sleeping" ELSE worker[w]]
      /\ handle' = [t \in Tasks |-> IF t \in new THEN FreeSlot(t) ELSE handle[t]]
  BY DEF Launch
<1>4. worker' \in [Workers -> WorkerStates] /\ handle' \in [Tasks -> Slots \cup {0}]
  BY <1>2, <1>3 DEF Typed, WorkerStates
<1>5. ASSUME NEW w \in Workers
      PROVE  worker'[w] = worker[w]
               \/ /\ worker[w] = "none" /\ worker'[w] = "sleeping"
                  /\ w[1] \in ts /\ handle[w[1]] = 0 /\ handle'[w[1]] = w[2]
  <2>1. w[1] \in Tasks /\ w[2] \in Slots /\ w = <<w[1], w[2]>>
    BY WorkerIsPair
  <2>2. CASE w[1] \in new /\ w[2] = FreeSlot(w[1])
    <3>1. worker[<<w[1], FreeSlot(w[1])>>] = "none"
      BY <1>2, <2>2
    <3>2. worker[w] = "none"
      BY <2>1, <2>2, <3>1
    <3>3. worker'[w] = "sleeping" /\ handle'[w[1]] = w[2]
      BY <1>3, <2>1, <2>2
    <3>. QED  BY <2>2, <3>2, <3>3
  <2>3. CASE ~(w[1] \in new /\ w[2] = FreeSlot(w[1]))
    BY <1>3, <2>3
  <2>. QED  BY <2>2, <2>3
<1>6. \A t \in Tasks : ~(t \in ts /\ handle[t] = 0) => handle'[t] = handle[t]
  BY <1>3
<1>7. ASSUME NEW t \in ts, handle[t] = 0
      PROVE  /\ handle'[t] \in Slots
             /\ worker[<<t, handle'[t]>>] = "none"
             /\ worker'[<<t, handle'[t]>>] = "sleeping"
  <2>1. t \in new /\ t \in Tasks
    BY <1>7
  <2>2. handle'[t] = FreeSlot(t)
    BY <1>3, <2>1
  <2>3. handle'[t] \in Slots /\ worker[<<t, handle'[t]>>] = "none"
    BY <1>2, <2>1, <2>2
  <2>4. <<t, handle'[t]>> \in Workers /\ <<t, handle'[t]>>[1] = t
          /\ <<t, handle'[t]>>[2] = handle'[t]
    BY <2>1, <2>3, PairIsWorker
  <2>. QED  BY <1>3, <2>1, <2>2, <2>3, <2>4
<1>. QED  BY <1>4, <1>5, <1>6, <1>7

\* Aborting the tasks of ts: their handles go, and the workers that wait; the
\* worker that is within an invocation is marked.
LEMMA Aborting ==
  ASSUME Typed, NEW ts \in SUBSET Tasks, Abort(ts)
  PROVE  /\ worker' \in [Workers -> WorkerStates]
         /\ handle' \in [Tasks -> Slots \cup {0}]
         /\ aborted' \subseteq {w \in Workers : worker'[w] = "firing"}
         /\ \A t \in Tasks : handle'[t] = IF t \in ts THEN 0 ELSE handle[t]
         /\ \A w \in Workers :
              worker'[w] = IF /\ w[1] \in ts /\ w[2] = handle[w[1]]
                              /\ worker[w] \in {"sleeping", "queued"}
                             THEN "none" ELSE worker[w]
         /\ \A w \in Workers :
              w \in aborted' <=> \/ w \in aborted
                                 \/ /\ w[1] \in ts /\ w[2] = handle[w[1]]
                                    /\ worker[w] = "firing"
         /\ overtaken \subseteq overtaken'
         /\ \A w \in Workers :
              /\ w[1] \in ts /\ w[2] = handle[w[1]]
              /\ worker[w] \in {"finish", "remove"}
              => w[1] \in overtaken'
         /\ overtaken' \subseteq overtaken \cup ts
         /\ stranded' = stranded \ ts
BY DEF Typed, Abort, Hit, WorkerStates

LEMMA Recovered ==
  ASSUME Typed, RecoverSchedules
  PROVE  /\ rows' \in [Tasks -> {"absent", "pending", "firing"}]
         /\ rows' = Requeued
         /\ Launch({t \in Tasks : rows[t] # "absent"})
         /\ {t \in Tasks : rows[t] # "absent"} \in SUBSET Tasks
         /\ worker' \in [Workers -> WorkerStates]
         /\ handle' \in [Tasks -> Slots \cup {0}]
         /\ aborted' = aborted
<1>1. /\ rows' = Requeued
      /\ Launch({t \in Tasks : rows[t] # "absent"})
      /\ aborted' = aborted
  BY DEF RecoverSchedules
<1>2. {t \in Tasks : rows[t] # "absent"} \in SUBSET Tasks
  OBVIOUS
<1>3. rows' \in [Tasks -> {"absent", "pending", "firing"}]
  BY <1>1 DEF Requeued, Typed
<1>. QED  BY <1>1, <1>2, <1>3, Launched

\* An aborted worker fires, and does so after a launch as well.
LEMMA AbortedStillFires ==
  ASSUME Typed, NEW ts \in SUBSET Tasks, Launch(ts)
  PROVE  aborted \subseteq {w \in Workers : worker'[w] = "firing"}
<1>1. \A w \in aborted : w \in Workers /\ worker[w] = "firing"
  BY DEF Typed
<1>2. \A w \in Workers : worker[w] = "firing" => worker'[w] = "firing"
  BY Launched
<1>. QED  BY <1>1, <1>2

----------------------------------------------------------------------------
(* The groups of steps *)

CallStep(c) ==
  \/ Admit(c)
  \/ StartCall(c)
  \/ \E trips \in BOOLEAN : EndCall(c, trips)
  \/ DropCall(c)

TaskStep(t) == CreateSchedule(t) \/ CancelSchedule(t)

WorkerStep(w) ==
  \/ Claim(w)
  \/ Fire(w)
  \/ \E status \in {"succeeded", "dead_letter"}, trips \in BOOLEAN :
       FireEnds(w, status, trips)
  \/ FireDropped(w)
  \/ FinishRow(w)
  \/ RemoveHandle(w)

ChangeStep(u) ==
  \/ BeginChange(u)
  \/ Enter(u)
  \/ \E ok \in BOOLEAN : \/ Validate(u, ok)
                         \/ ShutDownGuest(u, ok)
                         \/ InitNew(u, ok)
                         \/ InitOld(u, ok)

StartStep == Register \/ Recover \/ RecoveryEnds

HostStep ==
  \/ ChangeCode
  \/ BeginShutdown
  \/ \E ok \in BOOLEAN : EndShutdown(ok)
  \/ Crash
  \/ StartStep

\* A step that changes nothing but the queue of the gate, if anything.
QuietStep ==
  UNCHANGED <<persistent, host, recovery, lifecycle, registered, lane, free,
              caller, changer, scheduler, history>>

LEMMA Grouped ==
  ASSUME [Next]_vars
  PROVE  \/ QuietStep
         \/ \E c \in Callers : CallStep(c)
         \/ \E t \in Tasks : TaskStep(t)
         \/ \E w \in Workers : WorkerStep(w)
         \/ \E u \in Changers : ChangeStep(u)
         \/ HostStep
<1>1. CASE UNCHANGED vars
  BY <1>1 DEF vars, gate, QuietStep
<1>2. ASSUME NEW c \in Callers, Called(c)
      PROVE  QuietStep \/ CallStep(c)
  BY <1>2 DEF Called, Served, Lock, QuietStep, CallStep
<1>3. ASSUME NEW w \in Workers, Work(w)
      PROVE  QuietStep \/ WorkerStep(w)
  BY <1>3 DEF Work, Lock, QuietStep, WorkerStep
<1>. QED
  BY <1>1, <1>2, <1>3
  DEF Next, TaskStep, Change, ChangeStep, HostStep, StartStep, Supervised

----------------------------------------------------------------------------
(* Types *)

LEMMA Numbers ==
  /\ Permits \in Nat \ {0}
  /\ 0 \notin Slots
  /\ Upgrade # Shutdown /\ Upgrade \notin Updaters /\ Shutdown \notin Updaters
  /\ Upgrade \in Changers /\ Shutdown \in Changers /\ Updaters \subseteq Changers
  /\ \A c \in Callers : c \notin Changers /\ c \notin Workers /\ Need(c) = 1
  /\ \A w \in Workers : w \notin Changers /\ w \notin Callers /\ Need(w) = 1
  /\ \A u \in Changers : Need(u) = Permits
BY LifecycleAssumption DEF Changers, Need

LEMMA QuietTyped ==
  ASSUME Typed, QuietStep
  PROVE  Typed'
BY DEF QuietStep, Typed, persistent, registered, scheduler, history

LEMMA CallTyped ==
  ASSUME Typed, NEW c \in Callers, CallStep(c)
  PROVE  Typed'
<1>0. caller[c] \in [pc : {"idle", "queued", "running"}, generation : Nat,
                      since : Nat]
  BY DEF Typed
<1>1. CASE Admit(c)
  <2>1. caller' \in [Callers -> [pc : {"idle", "queued", "running"},
                                 generation : Nat, since : Nat]]
    BY <1>1 DEF Admit, Typed
  <2>2. spent' \in [calls : Nat, changes : Nat, starts : Nat,
                    creations : [Tasks -> Nat]]
    BY <1>1 DEF Admit, Spend, Typed
  <2>. QED
    BY <1>1, <2>1, <2>2 DEF Admit, Typed, persistent, registered, scheduler
<1>2. CASE StartCall(c)
  <2>1. free' \in Nat
    BY <1>2, Numbers DEF StartCall, Granted, Typed
  <2>2. lifecycle' \in [state : {"Ready", "Draining", "Disabled", "Stopped"},
                        generation : Nat]
    BY <1>2 DEF StartCall, SetState, Typed
  <2>3. caller' \in [Callers -> [pc : {"idle", "queued", "running"},
                                 generation : Nat, since : Nat]]
    <3>1. \E pc \in {"idle", "running"} :
            caller' = [caller EXCEPT ![c].pc = pc]
      BY <1>2 DEF StartCall, Idle
    <3>. QED  BY <3>1 DEF Typed
  <2>. QED
    BY <1>2, <2>1, <2>2, <2>3
    DEF StartCall, Typed, persistent, registered, scheduler, history
<1>3. ASSUME NEW trips \in BOOLEAN, EndCall(c, trips)
      PROVE  Typed'
  <2>1. free' \in Nat
    BY <1>3, Numbers DEF EndCall, Release, Typed
  <2>2. /\ lifecycle' \in [state : {"Ready", "Draining", "Disabled", "Stopped"},
                           generation : Nat]
        /\ circuit' \in BOOLEAN
    BY <1>3 DEF EndCall, Outcome, SetState, Typed
  <2>3. caller' \in [Callers -> [pc : {"idle", "queued", "running"},
                                 generation : Nat, since : Nat]]
    BY <1>3 DEF EndCall, Idle, Typed
  <2>. QED
    BY <1>3, <2>1, <2>2, <2>3
    DEF EndCall, Typed, registered, scheduler, history
<1>4. CASE DropCall(c)
  <2>1. free' \in Nat
    BY <1>4, Numbers DEF DropCall, Release, Typed
  <2>2. caller' \in [Callers -> [pc : {"idle", "queued", "running"},
                                 generation : Nat, since : Nat]]
    BY <1>4 DEF DropCall, Idle, Typed
  <2>. QED
    BY <1>4, <2>1, <2>2
    DEF DropCall, Typed, persistent, registered, scheduler, history
<1>. QED  BY <1>1, <1>2, <1>3, <1>4 DEF CallStep

LEMMA TaskTyped ==
  ASSUME Typed, NEW t \in Tasks, TaskStep(t)
  PROVE  Typed'
<1>0. {t} \in SUBSET Tasks
  OBVIOUS
<1>1. CASE CreateSchedule(t)
  <2>1. /\ worker' \in [Workers -> WorkerStates]
        /\ handle' \in [Tasks -> Slots \cup {0}]
        /\ aborted' \subseteq {w \in Workers : worker'[w] = "firing"}
    BY <1>0, <1>1, Launched, AbortedStillFires DEF CreateSchedule
  <2>2. /\ rows' \in [Tasks -> {"absent", "pending", "firing"}]
        /\ spent' \in [calls : Nat, changes : Nat, starts : Nat,
                       creations : [Tasks -> Nat]]
    BY <1>1 DEF CreateSchedule, Typed
  <2>. QED
    BY <1>1, <2>1, <2>2 DEF CreateSchedule, Typed, registered, gate, WorkerStates
<1>2. CASE CancelSchedule(t)
  <2>1. /\ worker' \in [Workers -> WorkerStates]
        /\ handle' \in [Tasks -> Slots \cup {0}]
        /\ aborted' \subseteq {w \in Workers : worker'[w] = "firing"}
    BY <1>0, <1>2, Aborting DEF CancelSchedule
  <2>2. rows' \in [Tasks -> {"absent", "pending", "firing"}]
    BY <1>2 DEF CancelSchedule, Typed
  <2>. QED
    BY <1>2, <2>1, <2>2 DEF CancelSchedule, Typed, registered, WorkerStates
<1>. QED  BY <1>1, <1>2 DEF TaskStep

LEMMA WorkerTyped ==
  ASSUME Typed, NEW w \in Workers, WorkerStep(w)
  PROVE  Typed'
<1>0. w[1] \in Tasks
  BY WorkerIsPair
<1>1. CASE Claim(w)
  <2>1. rows' \in [Tasks -> {"absent", "pending", "firing"}]
    BY <1>0, <1>1 DEF Claim, Typed
  <2>2. /\ worker' \in [Workers -> WorkerStates]
        /\ aborted' \subseteq {v \in Workers : worker'[v] = "firing"}
    BY <1>1 DEF Claim, Typed, WorkerStates
  <2>. QED
    BY <1>1, <2>1, <2>2 DEF Claim, Typed, registered, history, WorkerStates
<1>2. CASE Fire(w)
  <2>1. free' \in Nat
    BY <1>2, Numbers DEF Fire, Granted, Typed
  <2>2. lifecycle' \in [state : {"Ready", "Draining", "Disabled", "Stopped"},
                        generation : Nat]
    BY <1>2 DEF Fire, SetState, Typed
  <2>3. /\ worker' \in [Workers -> WorkerStates]
        /\ aborted' \subseteq {v \in Workers : worker'[v] = "firing"}
    <3>1. \E s \in {"firing", "finish"} : worker' = [worker EXCEPT ![w] = s]
      BY <1>2 DEF Fire
    <3>2. worker[w] = "queued" /\ aborted' = aborted
      BY <1>2 DEF Fire
    <3>. QED  BY <3>1, <3>2 DEF Typed, WorkerStates
  <2>. QED
    BY <1>2, <2>1, <2>2, <2>3 DEF Fire, Typed, registered, history, WorkerStates
<1>3. ASSUME NEW status, NEW trips \in BOOLEAN, FireEnds(w, status, trips)
      PROVE  Typed'
  <2>1. free' \in Nat
    BY <1>3, Numbers DEF FireEnds, Release, Typed
  <2>2. /\ lifecycle' \in [state : {"Ready", "Draining", "Disabled", "Stopped"},
                           generation : Nat]
        /\ circuit' \in BOOLEAN
    BY <1>3 DEF FireEnds, Outcome, SetState, Typed
  <2>3. /\ worker' \in [Workers -> WorkerStates]
        /\ aborted' \subseteq {v \in Workers : worker'[v] = "firing"}
    BY <1>3 DEF FireEnds, Typed, WorkerStates
  <2>. QED
    BY <1>3, <2>1, <2>2, <2>3
    DEF FireEnds, Typed, registered, history, WorkerStates
<1>4. CASE FireDropped(w)
  <2>1. free' \in Nat
    BY <1>4, Numbers DEF FireDropped, Release, Typed
  <2>2. /\ worker' \in [Workers -> WorkerStates]
        /\ aborted' \subseteq {v \in Workers : worker'[v] = "firing"}
    BY <1>4 DEF FireDropped, Typed, WorkerStates
  <2>. QED
    BY <1>4, <2>1, <2>2
    DEF FireDropped, Typed, persistent, registered, history, WorkerStates
<1>5. CASE FinishRow(w)
  <2>1. rows' \in [Tasks -> {"absent", "pending", "firing"}]
    BY <1>0, <1>5 DEF FinishRow, Typed
  <2>2. /\ worker' \in [Workers -> WorkerStates]
        /\ aborted' \subseteq {v \in Workers : worker'[v] = "firing"}
    BY <1>5 DEF FinishRow, Typed, WorkerStates
  <2>. QED
    BY <1>5, <2>1, <2>2
    DEF FinishRow, Typed, registered, gate, history, WorkerStates
<1>6. CASE RemoveHandle(w)
  <2>1. handle' \in [Tasks -> Slots \cup {0}]
    BY <1>6 DEF RemoveHandle, Typed
  <2>2. /\ worker' \in [Workers -> WorkerStates]
        /\ aborted' \subseteq {v \in Workers : worker'[v] = "firing"}
    BY <1>6 DEF RemoveHandle, Typed, WorkerStates
  <2>. QED
    BY <1>6, <2>1, <2>2
    DEF RemoveHandle, Typed, persistent, registered, gate, history, WorkerStates
<1>. QED
  BY <1>1, <1>2, <1>3, <1>4, <1>5, <1>6 DEF WorkerStep

Lifecycles == [state : {"Ready", "Draining", "Disabled", "Stopped"},
               generation : Nat]

LEMMA VersionsTyped ==
  ASSUME Typed
  PROVE  /\ data \in Nat /\ code \in Nat /\ config \in Nat /\ switched \in Nat
         /\ data + 1 \in Nat /\ code + 1 \in Nat
         /\ config + 1 \in Nat /\ spent.changes + 1 \in Nat
         /\ \A u \in Changers : number[u] \in Nat
         /\ \A u \in Changers : Switch(u) => switched' \in {switched, number[u]}
BY DEF Typed, Switch

LEMMA LifecycleTyped ==
  ASSUME Typed
  PROVE  /\ Draining \in Lifecycles
         /\ \A state \in {"Ready", "Draining", "Disabled", "Stopped"} :
              SetState(state) => /\ lifecycle' \in Lifecycles
                                 /\ lifecycle'.state = state
                                 /\ lifecycle'.generation = lifecycle.generation
BY DEF Typed, SetState, Draining, Lifecycles

LEMMA RequeuedTyped ==
  ASSUME Typed
  PROVE  Requeued \in [Tasks -> {"absent", "pending", "firing"}]
BY DEF Typed, Requeued

\* The last step of a change.
LEMMA Left ==
  ASSUME Typed, NEW u \in Changers,
         NEW state \in {"Ready", "Draining", "Disabled", "Stopped"},
         Leave(u, state)
  PROVE  /\ lifecycle' \in Lifecycles
         /\ lifecycle'.state = state
         /\ lifecycle'.generation = lifecycle.generation
         /\ free' = free + Permits
         /\ free' \in Nat
         /\ changer' = [changer EXCEPT ![u] = "idle"]
         /\ changer' \in [Changers -> Phases]
<1>1. changer' = [changer EXCEPT ![u] = "idle"] /\ changer' \in [Changers -> Phases]
  BY DEF Leave, Goto, Typed, Phases
<1>2. free' = free + Permits /\ free' \in Nat
  BY Numbers DEF Leave, Release, Typed
<1>. QED  BY <1>1, <1>2, LifecycleTyped DEF Leave

\* The rows and workers after the end of an upgrade that may have failed.
LEMMA Resumed ==
  ASSUME Typed, NEW u, Resume(u)
  PROVE  /\ rows' \in [Tasks -> {"absent", "pending", "firing"}]
         /\ worker' \in [Workers -> WorkerStates]
         /\ handle' \in [Tasks -> Slots \cup {0}]
         /\ aborted' \subseteq {w \in Workers : worker'[w] = "firing"}
<1>1. CASE u = Upgrade
  BY <1>1, Recovered, AbortedStillFires DEF Resume
<1>2. CASE u # Upgrade
  BY <1>2 DEF Resume, scheduler, Typed, WorkerStates
<1>. QED  BY <1>1, <1>2

LEMMA ChangeTyped ==
  ASSUME Typed, NEW u \in Changers, ChangeStep(u)
  PROVE  Typed'
<1>0. Tasks \in SUBSET Tasks
  OBVIOUS
<1>1. CASE BeginChange(u)
  <2>1. changer' \in [Changers -> Phases] /\ number' \in [Changers -> Nat]
    BY <1>1, VersionsTyped DEF BeginChange, Typed, Phases
  <2>2. spent' \in [calls : Nat, changes : Nat, starts : Nat,
                    creations : [Tasks -> Nat]]
    <3>1. Spend("changes", MaxChanges)
      BY <1>1 DEF BeginChange
    <3>. QED  BY <3>1 DEF Spend, Typed
  <2>. QED
    BY <1>1, <2>1, <2>2, LifecycleTyped
    DEF BeginChange, Typed, persistent, registered, scheduler, Lifecycles
<1>2. CASE Enter(u)
  <2>1. changer' \in [Changers -> Phases]
    BY <1>2 DEF Enter, Goto, Typed, Phases
  <2>2. free' \in Nat
    BY <1>2, Numbers DEF Enter, Granted, Typed
  <2>3. /\ rows' \in [Tasks -> {"absent", "pending", "firing"}]
        /\ worker' \in [Workers -> WorkerStates]
        /\ handle' \in [Tasks -> Slots \cup {0}]
        /\ aborted' \subseteq {w \in Workers : worker'[w] = "firing"}
    <3>1. CASE u = Upgrade
      BY <1>0, <1>2, <3>1, Aborting, RequeuedTyped DEF Enter
    <3>2. CASE u # Upgrade
      BY <1>2, <3>2 DEF Enter, Typed, scheduler, WorkerStates
    <3>. QED  BY <3>1, <3>2
  <2>. QED
    BY <1>2, <2>1, <2>2, <2>3 DEF Enter, Typed, registered, WorkerStates
<1>3. ASSUME NEW ok \in BOOLEAN, Validate(u, ok)
      PROVE  Typed'
  <2>1. /\ changer' \in [Changers -> Phases]
        /\ free' \in Nat
        /\ lifecycle' \in Lifecycles
    <3>1. CASE ok
      BY <1>3, <3>1 DEF Validate, Goto, Typed, Phases, Lifecycles
    <3>2. CASE ~ok
      BY <1>3, <3>2, Left DEF Validate
    <3>. QED  BY <3>1, <3>2
  <2>. QED
    BY <1>3, <2>1
    DEF Validate, Typed, persistent, registered, scheduler, history, Lifecycles
<1>4. ASSUME NEW ok \in BOOLEAN, ShutDownGuest(u, ok)
      PROVE  Typed'
  <2>1. CASE ok
    <3>1. /\ guest' \in [up : BOOLEAN, config : Nat]
          /\ changer' \in [Changers -> Phases]
      BY <1>4, <2>1 DEF ShutDownGuest, Goto, Typed, Phases
    <3>. QED
      BY <1>4, <2>1, <3>1 DEF ShutDownGuest, Typed, scheduler, history
  <2>2. CASE ~ok
    <3>1. Leave(u, "Ready") /\ Resume(u)
      BY <1>4, <2>2 DEF ShutDownGuest
    <3>. QED
      BY <1>4, <2>2, <3>1, Left, Resumed
      DEF ShutDownGuest, Typed, history, Lifecycles, WorkerStates
  <2>. QED  BY <2>1, <2>2
<1>5. ASSUME NEW ok \in BOOLEAN, InitNew(u, ok)
      PROVE  Typed'
  <2>1. CASE ok /\ u \in Updaters
    <3>1. Leave(u, "Ready")
      BY <1>5, <2>1 DEF InitNew
    <3>2. /\ guest' \in [up : BOOLEAN, config : Nat]
          /\ config' \in Nat /\ switched' \in Nat /\ data' \in Nat
      <4>1. /\ guest' = [up |-> TRUE, config |-> config + 1]
            /\ config' = config + 1 /\ Switch(u) /\ data' = data
        BY <1>5, <2>1 DEF InitNew
      <4>. QED  BY <4>1, VersionsTyped
    <3>. QED
      BY <1>5, <3>1, <3>2, Left DEF InitNew, Typed, scheduler, Lifecycles
  <2>2. CASE ok /\ u \notin Updaters
    <3>1. /\ guest' \in [up : BOOLEAN, config : Nat]
          /\ changer' \in [Changers -> Phases]
      <4>1. /\ guest' = [up |-> TRUE, config |-> config + 1]
            /\ changer' = [changer EXCEPT ![u] = "health"]
        BY <1>5, <2>2 DEF InitNew, Goto
      <4>. QED  BY <4>1, VersionsTyped DEF Typed, Phases
    <3>. QED
      BY <1>5, <2>2, <3>1 DEF InitNew, Typed, scheduler
  <2>3. CASE ~ok
    <3>1. changer' \in [Changers -> Phases] /\ data' \in Nat
      BY <1>5, <2>3 DEF InitNew, Goto, Typed, Phases
    <3>. QED
      BY <1>5, <2>3, <3>1 DEF InitNew, Typed, scheduler
  <2>. QED  BY <2>1, <2>2, <2>3
<1>6. ASSUME NEW ok \in BOOLEAN, InitOld(u, ok)
      PROVE  Typed'
  <2>1. /\ lifecycle' \in Lifecycles
        /\ free' \in Nat
        /\ changer' \in [Changers -> Phases]
    BY <1>6, Left DEF InitOld
  <2>2. CASE ok
    <3>1. /\ rows' \in [Tasks -> {"absent", "pending", "firing"}]
          /\ worker' \in [Workers -> WorkerStates]
          /\ handle' \in [Tasks -> Slots \cup {0}]
          /\ aborted' \subseteq {w \in Workers : worker'[w] = "firing"}
      BY <1>6, <2>2, Resumed DEF InitOld
    <3>2. guest' \in [up : BOOLEAN, config : Nat] /\ retired' \in BOOLEAN
      <4>1. guest' = [up |-> TRUE, config |-> config] /\ retired' = retired
        BY <1>6, <2>2 DEF InitOld
      <4>. QED  BY <4>1, VersionsTyped DEF Typed
    <3>. QED
      BY <1>6, <2>1, <3>1, <3>2 DEF InitOld, Typed, Lifecycles, WorkerStates
  <2>3. CASE ~ok
    BY <1>6, <2>1, <2>3 DEF InitOld, Typed, scheduler, Lifecycles
  <2>. QED  BY <2>2, <2>3
<1>. QED
  BY <1>1, <1>2, <1>3, <1>4, <1>5, <1>6 DEF ChangeStep

LEMMA HostTyped ==
  ASSUME Typed, HostStep
  PROVE  Typed'
<1>0. Tasks \in SUBSET Tasks /\ Upgrade \in Changers /\ Shutdown \in Changers
  BY Numbers
<1>1. ASSUME NEW ok \in BOOLEAN, Migrate(ok)
      PROVE  Typed'
  <2>1. changer' \in [Changers -> Phases] /\ data' \in Nat
    <3>1. /\ data' \in {code + 1, data}
          /\ \E pc \in {"init", "rollback"} :
               changer' = [changer EXCEPT ![Upgrade] = pc]
      BY <1>1 DEF Migrate, Goto
    <3>. QED  BY <3>1, VersionsTyped, ZenonT(90) DEF Typed, Phases
  <2>. QED
    BY <1>1, <2>1 DEF Migrate, Typed, registered, gate, scheduler, history
<1>2. ASSUME NEW ok \in BOOLEAN, CheckHealth(ok)
      PROVE  Typed'
  <2>1. CASE ok
    <3>1. /\ rows' \in [Tasks -> {"absent", "pending", "firing"}]
          /\ worker' \in [Workers -> WorkerStates]
          /\ handle' \in [Tasks -> Slots \cup {0}]
          /\ aborted' \subseteq {w \in Workers : worker'[w] = "firing"}
      BY <1>2, <2>1, Recovered, AbortedStillFires DEF CheckHealth
    <3>2. /\ free' \in Nat
          /\ changer' \in [Changers -> Phases]
          /\ code' \in Nat /\ config' \in Nat
          /\ lifecycle' \in Lifecycles
      BY <1>2, <2>1, Numbers
      DEF CheckHealth, Release, Goto, Typed, Phases, Lifecycles
    <3>3. switched' \in Nat
      BY <1>0, <1>2, <2>1, VersionsTyped DEF CheckHealth
    <3>. QED
      BY <1>2, <2>1, <3>1, <3>2, <3>3
      DEF CheckHealth, Typed, Lifecycles, WorkerStates
  <2>2. CASE ~ok
    <3>1. /\ changer' \in [Changers -> Phases]
          /\ data' \in Nat
          /\ guest' \in [up : BOOLEAN, config : Nat]
      BY <1>2, <2>2 DEF CheckHealth, Goto, Typed, Phases
    <3>. QED
      BY <1>2, <2>2, <3>1 DEF CheckHealth, Typed, scheduler
  <2>. QED  BY <2>1, <2>2
<1>3. CASE BeginShutdown
  <2>1. /\ rows' \in [Tasks -> {"absent", "pending", "firing"}]
        /\ worker' \in [Workers -> WorkerStates]
        /\ handle' \in [Tasks -> Slots \cup {0}]
        /\ aborted' \subseteq {w \in Workers : worker'[w] = "firing"}
    BY <1>0, <1>3, Aborting, RequeuedTyped DEF BeginShutdown
  <2>2. /\ lifecycle' \in Lifecycles
        /\ changer' \in [Changers -> Phases]
        /\ host' \in {"down", "recovering", "up", "stopped"}
    <3>1. CASE lifecycle.state \in {"Ready", "Draining"}
      <4>1. lifecycle' \in {Draining, lifecycle}
        BY <1>3, <3>1 DEF BeginShutdown
      <4>2. changer' \in [Changers -> Phases]
        BY <1>3, <3>1 DEF BeginShutdown, Goto, Typed, Phases
      <4>. QED
        BY <1>3, <3>1, <4>1, <4>2, LifecycleTyped
        DEF BeginShutdown, Typed, Lifecycles
    <3>2. CASE lifecycle.state \notin {"Ready", "Draining"}
      BY <1>3, <3>2 DEF BeginShutdown, Typed, Lifecycles
    <3>. QED  BY <3>1, <3>2
  <2>. QED
    BY <1>3, <2>1, <2>2
    DEF BeginShutdown, Typed, registered, Lifecycles, WorkerStates
<1>4. ASSUME NEW ok \in BOOLEAN, EndShutdown(ok)
      PROVE  Typed'
  <2>1. /\ lifecycle' \in Lifecycles
        /\ free' \in Nat
        /\ changer' \in [Changers -> Phases]
    BY <1>0, <1>4, Left DEF EndShutdown
  <2>2. guest' \in [up : BOOLEAN, config : Nat]
    BY <1>4 DEF EndShutdown, Typed
  <2>. QED
    BY <1>4, <2>1, <2>2
    DEF EndShutdown, Typed, persistent, scheduler, Lifecycles
<1>5. CASE Crash
  <2>1. /\ lifecycle' \in Lifecycles
        /\ guest' \in [up : BOOLEAN, config : Nat]
        /\ caller' \in [Callers -> [pc : {"idle", "queued", "running"},
                                    generation : Nat, since : Nat]]
        /\ changer' \in [Changers -> Phases]
        /\ worker' \in [Workers -> WorkerStates]
        /\ handle' \in [Tasks -> Slots \cup {0}]
        /\ free' \in Nat
        /\ recovery' \in [todo : SUBSET Events, at : SUBSET Events]
        /\ number' \in [Changers -> Nat] /\ switched' \in Nat
    BY <1>5, Numbers DEF Crash, Phases, Lifecycles, WorkerStates, NoRecovery
  <2>. QED
    BY <1>5, <2>1 DEF Crash, Typed, persistent, Lifecycles, WorkerStates
<1>6. CASE Register
  <2>1. /\ spent' \in [calls : Nat, changes : Nat, starts : Nat,
                       creations : [Tasks -> Nat]]
        /\ lifecycle' \in Lifecycles
        /\ retired' \in BOOLEAN
    BY <1>6, LifecycleTyped DEF Register, Spend, Typed
  <2>2. host' \in {"down", "recovering", "up", "stopped"}
    BY <1>6 DEF Register
  <2>3. CASE circuit
    BY <1>6, <2>1, <2>2, <2>3 DEF Register, Typed, scheduler, gate, Lifecycles
  <2>4. CASE ~circuit
    <3>1. recovery' \in [todo : SUBSET Events, at : SUBSET Events]
      <4>1. \E todo \in SUBSET Events : recovery' = [todo |-> todo, at |-> {}]
        BY <1>6, <2>4 DEF Register, NoRecovery
      <4>. QED  BY <4>1
    <3>2. guest' \in [up : BOOLEAN, config : Nat]
      BY <1>6, <2>4 DEF Register, Typed
    <3>. QED
      BY <1>6, <2>1, <2>2, <2>4, <3>1, <3>2
      DEF Register, Typed, scheduler, gate, Lifecycles
  <2>. QED  BY <2>3, <2>4
<1>7. ASSUME NEW e \in Events, RecoverDelivery(e)
      PROVE  Typed'
  <2>1. recovery' \in [todo : SUBSET Events, at : SUBSET Events]
    BY <1>7 DEF RecoverDelivery, Typed
  <2>. QED
    BY <1>7, <2>1
    DEF RecoverDelivery, Typed, registered, gate, scheduler, history
<1>8. ASSUME NEW e \in Events, NEW status, NEW trips \in BOOLEAN,
             DeliveryRecovered(e, status, trips)
      PROVE  Typed'
  <2>1. recovery' \in [todo : SUBSET Events, at : SUBSET Events]
    BY <1>8 DEF DeliveryRecovered, Typed
  <2>2. lifecycle' \in Lifecycles /\ circuit' \in BOOLEAN
    BY <1>8, LifecycleTyped
    DEF DeliveryRecovered, Outcome, Typed, Lifecycles
  <2>. QED
    BY <1>8, <2>1, <2>2
    DEF DeliveryRecovered, Typed, registered, gate, scheduler, history, Lifecycles
<1>9. CASE RecoveryEnds
  <2>1. /\ rows' \in [Tasks -> {"absent", "pending", "firing"}]
        /\ worker' \in [Workers -> WorkerStates]
        /\ handle' \in [Tasks -> Slots \cup {0}]
        /\ aborted' \subseteq {w \in Workers : worker'[w] = "firing"}
    BY <1>9, Recovered, AbortedStillFires DEF RecoveryEnds
  <2>2. recovery' \in [todo : SUBSET Events, at : SUBSET Events]
    BY <1>9 DEF RecoveryEnds, NoRecovery
  <2>. QED
    BY <1>9, <2>1, <2>2 DEF RecoveryEnds, Typed, registered, gate, WorkerStates
<1>. QED
  BY <1>1, <1>2, <1>3, <1>4, <1>5, <1>6, <1>7, <1>8, <1>9
  DEF HostStep, StartStep, Recover, ChangeCode

LEMMA StepTyped ==
  ASSUME Typed, [Next]_vars
  PROVE  Typed'
BY Grouped, QuietTyped, CallTyped, TaskTyped, WorkerTyped, ChangeTyped, HostTyped

----------------------------------------------------------------------------
(* How a change moves on, and what a step does to the gate *)

\* Nobody starts or stops to be invoked.
SameRunning ==
  /\ \A c \in Callers : caller'[c].pc = "running" <=> caller[c].pc = "running"
  /\ \A w \in Workers : worker'[w] = "firing" <=> worker[w] = "firing"

LEMMA RunningStays ==
  ASSUME SameRunning
  PROVE  Running' = Running
BY DEF SameRunning, Running

\* launch_schedule() and the abort of a worker do not touch an invocation.
LEMMA FiringStays ==
  ASSUME Typed, NEW ts \in SUBSET Tasks, Launch(ts) \/ Abort(ts)
  PROVE  \A w \in Workers : worker'[w] = "firing" <=> worker[w] = "firing"
<1>1. CASE Launch(ts)
  <2>1. \A w \in Workers :
          \/ worker'[w] = worker[w]
          \/ worker[w] = "none" /\ worker'[w] = "sleeping"
    BY <1>1, Launched
  <2>. QED  BY <2>1
<1>2. CASE Abort(ts)
  <2>1. \A w \in Workers :
          worker'[w] = IF /\ w[1] \in ts /\ w[2] = handle[w[1]]
                          /\ worker[w] \in {"sleeping", "queued"}
                         THEN "none" ELSE worker[w]
    BY <1>2, Aborting
  <2>. QED  BY <2>1
<1>. QED  BY <1>1, <1>2

LEMMA ResumeKeepsFiring ==
  ASSUME Typed, NEW u, Resume(u)
  PROVE  \A w \in Workers : worker'[w] = "firing" <=> worker[w] = "firing"
<1>1. CASE u = Upgrade
  BY <1>1, Recovered, FiringStays DEF Resume
<1>2. CASE u # Upgrade
  BY <1>2 DEF Resume, scheduler
<1>. QED  BY <1>1, <1>2

\* A change waits for the gate, enters it, goes on within it, or leaves it.
Began(u, x) ==
  /\ changer[u] = "idle" /\ x = "queued" /\ u # Shutdown /\ host = "up"
  /\ u = Upgrade => /\ \A v \in Changers : changer[v] = "idle"
                    /\ \A c \in Callers : caller[c].pc = "idle"
  /\ u # Upgrade => ~Upgrading
  /\ free' = free

Entered(u, x) ==
  /\ changer[u] = "queued" /\ x = IF u \in Updaters THEN "validate" ELSE "shutdown"
  /\ free >= Permits /\ free' = free - Permits

WentOn(u, x) ==
  /\ \/ changer[u] = "validate" /\ x = "shutdown"
     \/ /\ changer[u] = "shutdown" /\ u # Shutdown
        /\ x = IF u = Upgrade THEN "migrate" ELSE "init"
     \/ changer[u] = "init" /\ x = "health" /\ u \notin Updaters
     \/ changer[u] = "init" /\ x = "rollback"
  /\ free' = free

Ended(u, x) ==
  /\ changer[u] \notin {"idle", "queued"} /\ x = "idle" /\ free' = free + Permits

LEMMA ChangeMoves ==
  ASSUME Typed, NEW u \in Changers, ChangeStep(u)
  PROVE  /\ caller' = caller /\ host' = host
         /\ SameRunning
         /\ \E x \in Phases :
              /\ changer' = [changer EXCEPT ![u] = x]
              /\ Began(u, x) \/ Entered(u, x) \/ WentOn(u, x) \/ Ended(u, x)
<1>0. Tasks \in SUBSET Tasks /\ Need(u) = Permits
  BY Numbers
<1>1. CASE BeginChange(u)
  <2>1. Began(u, "queued") /\ changer' = [changer EXCEPT ![u] = "queued"]
    BY <1>1 DEF BeginChange, Began
  <2>2. SameRunning
    BY <1>1 DEF BeginChange, SameRunning, scheduler
  <2>. QED  BY <1>1, <2>1, <2>2 DEF BeginChange, Phases
<1>2. CASE Enter(u)
  <2>1. \E x \in Phases : Entered(u, x) /\ changer' = [changer EXCEPT ![u] = x]
    BY <1>0, <1>2 DEF Enter, Granted, Goto, Entered, Phases
  <2>2. caller' = caller /\ (Abort(Tasks) \/ worker' = worker)
    BY <1>2 DEF Enter, scheduler
  <2>3. SameRunning
    BY <1>0, <2>2, FiringStays DEF SameRunning
  <2>. QED  BY <1>2, <2>1, <2>3 DEF Enter
<1>3. ASSUME NEW ok \in BOOLEAN, Validate(u, ok)
      PROVE  /\ caller' = caller /\ host' = host /\ SameRunning
             /\ \E x \in Phases : /\ changer' = [changer EXCEPT ![u] = x]
                                  /\ WentOn(u, x) \/ Ended(u, x)
  <2>1. SameRunning
    BY <1>3 DEF Validate, SameRunning, scheduler
  <2>2. CASE ok
    BY <1>3, <2>1, <2>2 DEF Validate, Goto, WentOn, Phases
  <2>3. CASE ~ok
    BY <1>3, <2>1, <2>3, Left DEF Validate, Ended, Phases
  <2>. QED  BY <2>2, <2>3
<1>4. ASSUME NEW ok \in BOOLEAN, ShutDownGuest(u, ok)
      PROVE  /\ caller' = caller /\ host' = host /\ SameRunning
             /\ \E x \in Phases : /\ changer' = [changer EXCEPT ![u] = x]
                                  /\ WentOn(u, x) \/ Ended(u, x)
  <2>1. CASE ok
    <3>1. SameRunning
      BY <1>4, <2>1 DEF ShutDownGuest, SameRunning, scheduler
    <3>2. DEFINE x == IF u = Upgrade THEN "migrate" ELSE "init"
    <3>3. WentOn(u, x) /\ changer' = [changer EXCEPT ![u] = x] /\ x \in Phases
      BY <1>4, <2>1 DEF ShutDownGuest, Goto, WentOn, Phases
    <3>. QED  BY <1>4, <3>1, <3>3 DEF ShutDownGuest
  <2>2. CASE ~ok
    <3>1. Leave(u, "Ready") /\ Resume(u) /\ caller' = caller /\ host' = host
            /\ changer[u] = "shutdown"
      BY <1>4, <2>2 DEF ShutDownGuest
    <3>2. SameRunning
      BY <3>1, ResumeKeepsFiring DEF SameRunning
    <3>. QED  BY <3>1, <3>2, Left DEF Ended, Phases
  <2>. QED  BY <2>1, <2>2
<1>5. ASSUME NEW ok \in BOOLEAN, InitNew(u, ok)
      PROVE  /\ caller' = caller /\ host' = host /\ SameRunning
             /\ \E x \in Phases : /\ changer' = [changer EXCEPT ![u] = x]
                                  /\ WentOn(u, x) \/ Ended(u, x)
  <2>1. SameRunning /\ changer[u] = "init" /\ caller' = caller /\ host' = host
    BY <1>5 DEF InitNew, SameRunning, scheduler
  <2>2. CASE ok /\ u \in Updaters
    <3>1. Leave(u, "Ready")
      BY <1>5, <2>2 DEF InitNew
    <3>. QED  BY <2>1, <3>1, Left DEF Ended, Phases
  <2>3. CASE ok /\ u \notin Updaters
    <3>1. WentOn(u, "health") /\ changer' = [changer EXCEPT ![u] = "health"]
      BY <1>5, <2>3 DEF InitNew, Goto, WentOn
    <3>. QED  BY <2>1, <3>1 DEF Phases
  <2>4. CASE ~ok
    <3>1. WentOn(u, "rollback") /\ changer' = [changer EXCEPT ![u] = "rollback"]
      BY <1>5, <2>4 DEF InitNew, Goto, WentOn
    <3>. QED  BY <2>1, <3>1 DEF Phases
  <2>. QED  BY <2>2, <2>3, <2>4
<1>6. ASSUME NEW ok \in BOOLEAN, InitOld(u, ok)
      PROVE  /\ caller' = caller /\ host' = host /\ SameRunning
             /\ \E x \in Phases : /\ changer' = [changer EXCEPT ![u] = x]
                                  /\ Ended(u, x)
  <2>1. /\ Leave(u, IF ok THEN "Ready" ELSE "Disabled")
        /\ caller' = caller /\ host' = host /\ changer[u] = "rollback"
        /\ Resume(u) \/ worker' = worker
    BY <1>6 DEF InitOld, scheduler
  <2>2. SameRunning
    BY <2>1, ResumeKeepsFiring DEF SameRunning
  <2>3. changer' = [changer EXCEPT ![u] = "idle"] /\ free' = free + Permits
    BY <2>1, Left
  <2>. QED  BY <2>1, <2>2, <2>3 DEF Ended, Phases
<1>. QED
  BY <1>1, <1>2, <1>3, <1>4, <1>5, <1>6 DEF ChangeStep

----------------------------------------------------------------------------
(* Phases, the process, and the upgrade *)

\* The steps that are no steps of changes or of the host leave these alone.
LEMMA OthersLeaveChanges ==
  ASSUME \/ QuietStep
         \/ \E c \in Callers : CallStep(c)
         \/ \E t \in Tasks : TaskStep(t)
         \/ \E w \in Workers : WorkerStep(w)
  PROVE  UNCHANGED <<changer, host, registered, data, number, switched, retired>>
<1>1. CASE QuietStep
  BY <1>1 DEF QuietStep, persistent, history
<1>2. ASSUME NEW c \in Callers, CallStep(c)
      PROVE  UNCHANGED <<changer, host, registered, data, number, switched, retired>>
  BY <1>2 DEF CallStep, Admit, StartCall, EndCall, DropCall, persistent, history
<1>3. ASSUME NEW t \in Tasks, TaskStep(t)
      PROVE  UNCHANGED <<changer, host, registered, data, number, switched, retired>>
  BY <1>3 DEF TaskStep, CreateSchedule, CancelSchedule
<1>4. ASSUME NEW w \in Workers, WorkerStep(w)
      PROVE  UNCHANGED <<changer, host, registered, data, number, switched, retired>>
  BY <1>4 DEF WorkerStep, Claim, Fire, FireEnds, FireDropped, FinishRow,
              RemoveHandle, persistent, history
<1>. QED  BY <1>1, <1>2, <1>3, <1>4

\* What register() leaves alone, and when it takes its steps.
LEMMA Starting ==
  ASSUME StartStep
  PROVE  /\ UNCHANGED <<changer, caller, data, code, config, free, number,
                        switched, aborted, overtaken>>
         /\ \/ Register /\ host = "down"
            \/ /\ Recover /\ recovery.todo \cup recovery.at # {}
               /\ UNCHANGED <<host, rows, worker, handle, guest, retired, stranded,
                              spent>>
            \/ RecoveryEnds /\ host = "recovering"
         /\ host' \in {"recovering", "up"} \/ host' = host
         /\ worker' = worker \/ RecoverSchedules
<1>1. CASE Register
  BY <1>1 DEF Register, gate, scheduler
<1>2. ASSUME NEW e \in Events, RecoverDelivery(e)
      PROVE  /\ recovery.todo # {}
             /\ UNCHANGED <<changer, caller, registered, gate, scheduler, history,
                            rows, data, host>>
  BY <1>2 DEF RecoverDelivery
<1>3. ASSUME NEW e \in Events, NEW status, NEW trips, DeliveryRecovered(e, status, trips)
      PROVE  /\ recovery.at # {}
             /\ UNCHANGED <<changer, caller, registered, gate, scheduler, history,
                            rows, data, host>>
  BY <1>3 DEF DeliveryRecovered
<1>4. CASE RecoveryEnds
  BY <1>4 DEF RecoveryEnds, RecoverSchedules, registered, gate
<1>5. CASE Recover
  <2>1. /\ recovery.todo \cup recovery.at # {}
        /\ UNCHANGED <<changer, caller, registered, gate, scheduler, history,
                       rows, data, host>>
    BY <1>2, <1>3, <1>5 DEF Recover
  <2>. QED  BY <1>5, <2>1 DEF registered, gate, scheduler, history
<1>. QED  BY <1>1, <1>4, <1>5 DEF StartStep

\* While register() takes a step nothing else of the plugin is under way.
LEMMA StartingAlone ==
  ASSUME DownIsQuiet, RecoveryIsAlone, StartStep
  PROVE  /\ host \in {"down", "recovering"} /\ host' \in {"recovering", "up"}
         /\ \A c \in Callers : caller[c].pc = "idle" /\ caller'[c].pc = "idle"
         /\ \A u \in Changers : changer[u] = "idle" /\ changer'[u] = "idle"
<1>1. host \in {"down", "recovering"}
  BY Starting DEF RecoveryIsAlone
<1>2. /\ \A c \in Callers : caller[c].pc = "idle"
      /\ \A u \in Changers : changer[u] = "idle"
  BY <1>1 DEF DownIsQuiet, RecoveryIsAlone
<1>3. host' \in {"recovering", "up"}
  BY <1>1, Starting DEF Register, RecoveryIsAlone
<1>. QED  BY <1>1, <1>2, <1>3, Starting

LEMMA StepPhases ==
  ASSUME Typed, PhasesKept, [Next]_vars
  PROVE  PhasesKept'
<1>1. CASE UNCHANGED changer
  BY <1>1 DEF PhasesKept
<1>2. ASSUME NEW u \in Changers, ChangeStep(u)
      PROVE  PhasesKept'
  <2>1. PICK x \in Phases :
          /\ changer' = [changer EXCEPT ![u] = x]
          /\ Began(u, x) \/ Entered(u, x) \/ WentOn(u, x) \/ Ended(u, x)
    BY <1>2, ChangeMoves
  <2>2. changer'[u] = x /\ \A v \in Changers : v # u => changer'[v] = changer[v]
    BY <2>1 DEF Typed
  <2>. QED
    BY <2>1, <2>2, Numbers DEF PhasesKept, Began, Entered, WentOn, Ended
<1>3. CASE HostStep
  <2>1. /\ changer[Upgrade] \in Phases
        /\ \A ok \in BOOLEAN : Migrate(ok) \/ CheckHealth(ok) =>
             \E x \in {"init", "rollback", "idle"} :
               changer' = [changer EXCEPT ![Upgrade] = x]
        /\ BeginShutdown => \/ changer' = changer
                            \/ changer' = [changer EXCEPT ![Shutdown] = "queued"]
        /\ \A ok \in BOOLEAN : EndShutdown(ok) =>
             changer' = [changer EXCEPT ![Shutdown] = "idle"]
    BY Numbers DEF Migrate, CheckHealth, BeginShutdown, EndShutdown, Leave, Goto,
                   Typed
  <2>2. CASE Crash
    BY <2>2, Numbers DEF Crash, PhasesKept
  <2>3. CASE StartStep
    BY <1>1, <2>3, Starting
  <2>4. CASE ~Crash /\ ~StartStep
    <3>1. \E v \in {Upgrade, Shutdown}, x \in {"init", "rollback", "idle", "queued"} :
            /\ v = Shutdown => x \in {"idle", "queued"}
            /\ changer' = changer \/ changer' = [changer EXCEPT ![v] = x]
      BY <1>3, <2>1, <2>4, Numbers DEF HostStep, ChangeCode
    <3>. QED  BY <3>1, Numbers DEF PhasesKept, Typed
  <2>. QED  BY <2>2, <2>3, <2>4
<1>. QED  BY <1>1, <1>2, <1>3, Grouped, OthersLeaveChanges

\* Of a process that is down nothing happens but its start.
LEMMA OnlyStarts ==
  ASSUME DownIsQuiet, RecoveryIsAlone, host = "down", [Next]_vars
  PROVE  QuietStep \/ Register
<1>0. /\ \A c \in Callers : caller[c].pc = "idle"
      /\ \A u \in Changers : changer[u] = "idle"
      /\ \A w \in Workers : worker[w] = "none"
  BY DEF DownIsQuiet
<1>1. ~Invoked
  BY <1>0 DEF Invoked, Running, RecoveryIsAlone
<1>2. ASSUME NEW c \in Callers, CallStep(c) PROVE FALSE
  BY <1>0, <1>2 DEF CallStep, Admit, StartCall, EndCall, DropCall
<1>3. ASSUME NEW t \in Tasks, TaskStep(t) PROVE FALSE
  BY <1>1, <1>3 DEF TaskStep, CreateSchedule, CancelSchedule
<1>4. ASSUME NEW w \in Workers, WorkerStep(w) PROVE FALSE
  BY <1>0, <1>4 DEF WorkerStep, Claim, Fire, FireEnds, FireDropped, FinishRow,
                    RemoveHandle
<1>5. ASSUME NEW u \in Changers, ChangeStep(u) PROVE FALSE
  BY <1>0, <1>5 DEF ChangeStep, BeginChange, Enter, Validate, ShutDownGuest,
                    InitNew, InitOld
<1>6. StartStep => Register
  BY Starting DEF RecoveryIsAlone
<1>7. HostStep => Register
  BY <1>0, <1>6, Numbers DEF HostStep, ChangeCode, Migrate, CheckHealth,
                             BeginShutdown, EndShutdown, Crash
<1>. QED  BY <1>2, <1>3, <1>4, <1>5, <1>7, Grouped

LEMMA StepDown ==
  ASSUME Typed, DownIsQuiet, RecoveryIsAlone, [Next]_vars
  PROVE  DownIsQuiet'
<1>. SUFFICES ASSUME host' = "down" PROVE DownIsQuiet'
  BY DEF DownIsQuiet
<1>1. CASE host = "down"
  <2>1. QuietStep
    BY <1>1, OnlyStarts DEF Register
  <2>. QED
    BY <1>1, <2>1 DEF DownIsQuiet, QuietStep, scheduler, registered, history
<1>2. CASE host # "down"
  <2>1. Crash
    <3>1. ~(UNCHANGED <<changer, host, registered, data, number, switched, retired>>)
      BY <1>2
    <3>2. \A u \in Changers : ChangeStep(u) => host' = host
      BY ChangeMoves
    <3>. QED
      BY <1>2, <3>1, <3>2, Grouped, OthersLeaveChanges, StartingAlone
      DEF HostStep, ChangeCode, Migrate, CheckHealth, BeginShutdown, EndShutdown
  <2>. QED  BY <2>1 DEF Crash, DownIsQuiet
<1>. QED  BY <1>1, <1>2

\* register() goes on by itself, and nothing else begins what it does.
LEMMA StepRecovering ==
  ASSUME Typed, DownIsQuiet, RecoveryIsAlone, [Next]_vars
  PROVE  RecoveryIsAlone'
<1>1. CASE StartStep
  <2>1. CASE Register
    <3>1. recovery'.todo \cup recovery'.at # {} =>
            host' = "recovering" \/ recovery' = recovery
      BY <2>1 DEF Register
    <3>2. host = "down"
      BY <2>1 DEF Register
    <3>. QED  BY <1>1, <3>1, <3>2, StartingAlone DEF RecoveryIsAlone
  <2>2. CASE Recover
    <3>1. host' = host /\ host = "recovering"
      BY <2>2 DEF Recover, RecoverDelivery, DeliveryRecovered, RecoveryIsAlone
    <3>. QED  BY <1>1, <3>1, StartingAlone DEF RecoveryIsAlone
  <2>3. CASE RecoveryEnds
    BY <2>3 DEF RecoveryEnds, NoRecovery, RecoveryIsAlone
  <2>. QED  BY <1>1, <2>1, <2>2, <2>3 DEF StartStep
<1>2. CASE Crash
  BY <1>2 DEF Crash, NoRecovery, RecoveryIsAlone
<1>3. CASE ~StartStep /\ ~Crash
  <2>1. recovery' = recovery
    BY <1>3, Grouped
    DEF QuietStep, CallStep, Admit, StartCall, EndCall, DropCall, TaskStep,
        CreateSchedule, CancelSchedule, WorkerStep, Claim, Fire, FireEnds,
        FireDropped, FinishRow, RemoveHandle, ChangeStep, BeginChange, Enter,
        Validate, ShutDownGuest, InitNew, InitOld, HostStep, ChangeCode, Migrate,
        CheckHealth, BeginShutdown, EndShutdown
  <2>2. CASE host # "recovering"
    <3>1. host' # "recovering"
      <4>1. \A u \in Changers : ChangeStep(u) => host' = host
        BY ChangeMoves
      <4>. QED
        BY <1>3, <2>2, <4>1, Grouped, OthersLeaveChanges
        DEF HostStep, ChangeCode, Migrate, CheckHealth, BeginShutdown, EndShutdown
    <3>. QED  BY <2>1, <2>2, <3>1 DEF RecoveryIsAlone
  <2>3. CASE host = "recovering"
    <3>1. /\ \A c \in Callers : caller[c].pc = "idle"
          /\ \A u \in Changers : changer[u] = "idle"
      BY <2>3 DEF RecoveryIsAlone
    <3>2. ASSUME NEW c \in Callers, CallStep(c) PROVE FALSE
      BY <2>3, <3>1, <3>2 DEF CallStep, Admit, StartCall, EndCall, DropCall
    <3>3. ASSUME NEW u \in Changers, ChangeStep(u) PROVE FALSE
      BY <2>3, <3>1, <3>3 DEF ChangeStep, BeginChange, Enter, Validate,
                              ShutDownGuest, InitNew, InitOld
    <3>4. ~HostStep
      BY <1>3, <2>3, <3>1, Numbers DEF HostStep, ChangeCode, Migrate, CheckHealth,
                                       BeginShutdown, EndShutdown
    <3>5. ASSUME NEW t \in Tasks, TaskStep(t)
          PROVE  caller' = caller
      BY <3>5 DEF TaskStep, CreateSchedule, CancelSchedule
    <3>6. ASSUME NEW w \in Workers, WorkerStep(w)
          PROVE  caller' = caller
      BY <3>6 DEF WorkerStep, Claim, Fire, FireEnds, FireDropped, FinishRow,
                  RemoveHandle
    <3>7. QuietStep => caller' = caller
      BY DEF QuietStep
    <3>8. UNCHANGED <<caller, changer, host>>
      BY <3>2, <3>3, <3>4, <3>5, <3>6, <3>7, Grouped, OthersLeaveChanges
    <3>. QED  BY <2>1, <3>8 DEF RecoveryIsAlone
  <2>. QED  BY <2>2, <2>3
<1>. QED  BY <1>1, <1>2, <1>3

LEMMA StepAlone ==
  ASSUME Typed, PhasesKept, DownIsQuiet, RecoveryIsAlone, UpgradeIsAlone,
         [Next]_vars
  PROVE  UpgradeIsAlone'
<1>0. Upgrade \in Changers /\ Shutdown \in Changers /\ Upgrade # Shutdown
  BY Numbers
<1>1. CASE UNCHANGED <<changer, host, caller>>
  BY <1>1 DEF UpgradeIsAlone, Upgrading
<1>2. ASSUME NEW c \in Callers, CallStep(c)
      PROVE  UpgradeIsAlone'
  <2>1. ~Upgrading
    BY <1>2 DEF UpgradeIsAlone, CallStep, Admit, StartCall, EndCall, DropCall
  <2>2. changer' = changer
    BY <1>2, OthersLeaveChanges
  <2>. QED  BY <2>1, <2>2 DEF UpgradeIsAlone, Upgrading
<1>3. ASSUME NEW u \in Changers, ChangeStep(u)
      PROVE  UpgradeIsAlone'
  <2>1. PICK x \in Phases :
          /\ changer' = [changer EXCEPT ![u] = x]
          /\ Began(u, x) \/ Entered(u, x) \/ WentOn(u, x) \/ Ended(u, x)
    BY <1>3, ChangeMoves
  <2>2. /\ changer'[u] = x /\ caller' = caller /\ host' = host
        /\ \A v \in Changers : v # u => changer'[v] = changer[v]
    BY <1>3, <2>1, ChangeMoves DEF Typed
  <2>3. CASE u = Upgrade
    <3>1. CASE Began(u, x)
      BY <2>2, <2>3, <3>1 DEF Began, UpgradeIsAlone
    <3>2. CASE ~Began(u, x)
      <4>1. changer[Upgrade] # "idle"
        BY <2>1, <2>3, <3>2 DEF Entered, WentOn, Ended
      <4>. QED  BY <2>2, <2>3, <4>1 DEF UpgradeIsAlone, Upgrading
    <3>. QED  BY <3>1, <3>2
  <2>4. CASE u # Upgrade
    <3>1. ~Upgrading
      BY <2>1, <2>4 DEF Began, Entered, WentOn, Ended, UpgradeIsAlone
    <3>2. changer'[Upgrade] = "idle"
      BY <1>0, <2>2, <2>4, <3>1 DEF Upgrading
    <3>. QED  BY <3>2 DEF UpgradeIsAlone, Upgrading
  <2>. QED  BY <2>3, <2>4
<1>4. CASE HostStep
  <2>1. CASE ChangeCode
    <3>1. PICK x \in Phases : changer' = [changer EXCEPT ![Upgrade] = x]
      BY <2>1 DEF ChangeCode, Migrate, CheckHealth, Goto, Phases
    <3>2. Upgrading /\ caller' = caller /\ host' = host
      BY <2>1 DEF ChangeCode, Migrate, CheckHealth, Upgrading
    <3>3. \A v \in Changers \ {Upgrade} : changer'[v] = changer[v]
      BY <3>1 DEF Typed
    <3>. QED  BY <3>2, <3>3 DEF UpgradeIsAlone
  <2>2. CASE BeginShutdown
    <3>1. ~Upgrading /\ changer'[Upgrade] = changer[Upgrade]
      BY <1>0, <2>2 DEF BeginShutdown, Goto, Typed
    <3>. QED  BY <3>1 DEF UpgradeIsAlone, Upgrading
  <2>3. ASSUME NEW ok \in BOOLEAN, EndShutdown(ok)
        PROVE  UpgradeIsAlone'
    <3>1. changer[Shutdown] # "idle" /\ changer'[Upgrade] = changer[Upgrade]
      BY <1>0, <2>3 DEF EndShutdown, Leave, Goto, Typed
    <3>. QED  BY <1>0, <3>1 DEF UpgradeIsAlone, Upgrading
  <2>4. CASE Crash
    <3>1. changer'[Upgrade] = "idle"
      BY <1>0, <2>4 DEF Crash
    <3>. QED  BY <3>1 DEF UpgradeIsAlone, Upgrading
  <2>5. CASE StartStep
    <3>1. changer'[Upgrade] = "idle"
      BY <1>0, <2>5, StartingAlone
    <3>. QED  BY <3>1 DEF UpgradeIsAlone, Upgrading
  <2>. QED  BY <1>4, <2>1, <2>2, <2>3, <2>4, <2>5 DEF HostStep
<1>5. ASSUME NEW t \in Tasks, TaskStep(t)
      PROVE  caller' = caller
  BY <1>5 DEF TaskStep, CreateSchedule, CancelSchedule
<1>6. ASSUME NEW w \in Workers, WorkerStep(w)
      PROVE  caller' = caller
  BY <1>6 DEF WorkerStep, Claim, Fire, FireEnds, FireDropped, FinishRow,
              RemoveHandle
<1>7. QuietStep => caller' = caller
  BY DEF QuietStep
<1>. QED
  BY <1>1, <1>2, <1>3, <1>4, <1>5, <1>6, <1>7, Grouped, OthersLeaveChanges

----------------------------------------------------------------------------
(* The permits of the gate *)

LEMMA GateStays ==
  ASSUME GateKept, Running' = Running, free' = free, Inside' = Inside
  PROVE  GateKept'
BY DEF GateKept

LEMMA RunningCount ==
  ASSUME GateKept
  PROVE  IsFiniteSet(Running) /\ Cardinality(Running) \in Nat
BY FS_CardinalityType DEF GateKept

\* An invocation takes a permit.
LEMMA GateTaken ==
  ASSUME Typed, GateKept, NEW p, p \notin Running, Running' = Running \cup {p},
         free >= 1, free' = free - 1, changer' = changer
  PROVE  GateKept'
<1>1. Inside' = Inside
  BY DEF Inside
<1>2. /\ IsFiniteSet(Running')
      /\ Cardinality(Running') = Cardinality(Running) + 1
  BY RunningCount, FS_AddElement
<1>3. Inside = {} /\ free + Cardinality(Running) = Permits
  BY DEF GateKept, Typed
<1>4. free' + Cardinality(Running') = Permits
  BY <1>2, <1>3, RunningCount DEF Typed
<1>. QED  BY <1>1, <1>2, <1>3, <1>4 DEF GateKept

\* An invocation gives its permit back.
LEMMA GateReturned ==
  ASSUME Typed, GateKept, NEW p \in Running, Running' = Running \ {p},
         free' = free + 1, changer' = changer
  PROVE  GateKept'
<1>1. Inside' = Inside
  BY DEF Inside
<1>2. /\ IsFiniteSet(Running')
      /\ Cardinality(Running') = Cardinality(Running) - 1
  BY RunningCount, FS_RemoveElement
<1>3. Inside = {} /\ free + Cardinality(Running) = Permits
  BY DEF GateKept
<1>4. free' + Cardinality(Running') = Permits
  BY <1>2, <1>3, RunningCount DEF Typed
<1>. QED  BY <1>1, <1>2, <1>3, <1>4 DEF GateKept

\* One change moves.
LEMMA GateMoved ==
  ASSUME Typed, GateKept, SameRunning, NEW u \in Changers, NEW x \in Phases,
         changer' = [changer EXCEPT ![u] = x],
         \/ free' = free /\ (changer[u] \in {"idle", "queued"} <=>
                             x \in {"idle", "queued"})
         \/ /\ changer[u] = "queued" /\ x \notin {"idle", "queued"}
            /\ free >= Permits /\ free' = free - Permits
         \/ /\ changer[u] \notin {"idle", "queued"} /\ x = "idle"
            /\ free' = free + Permits
  PROVE  GateKept'
<1>0. /\ changer'[u] = x /\ \A v \in Changers : v # u => changer'[v] = changer[v]
      /\ Running' = Running
      /\ Permits \in Nat \ {0} /\ free \in Nat
      /\ Cardinality(Running) \in Nat
  BY RunningStays, Numbers, RunningCount DEF Typed
<1>1. CASE /\ free' = free
           /\ changer[u] \in {"idle", "queued"} <=> x \in {"idle", "queued"}
  <2>1. Inside' = Inside
    BY <1>0, <1>1 DEF Inside
  <2>. QED  BY <1>0, <1>1, <2>1, GateStays
<1>2. CASE /\ changer[u] = "queued" /\ x \notin {"idle", "queued"}
           /\ free >= Permits /\ free' = free - Permits
  <2>1. Inside = {} /\ free + Cardinality(Running) = Permits
    BY <1>0, <1>2 DEF GateKept
  <2>2. free = Permits /\ Cardinality(Running) = 0
    BY <1>0, <1>2, <2>1
  <2>3. Running = {}
    BY <2>2, RunningCount, FS_EmptySet
  <2>4. Inside' = {u}
    BY <1>0, <1>2, <2>1 DEF Inside
  <2>5. free' = 0
    BY <1>0, <1>2, <2>2
  <2>. QED  BY <1>0, <2>3, <2>4, <2>5 DEF GateKept
<1>3. CASE /\ changer[u] \notin {"idle", "queued"} /\ x = "idle"
           /\ free' = free + Permits
  <2>1. u \in Inside
    BY <1>3 DEF Inside
  <2>2. Running = {} /\ free = 0 /\ Inside = {u}
    BY <2>1 DEF GateKept
  <2>3. Inside' = {}
    BY <1>0, <1>3, <2>2 DEF Inside
  <2>4. free' = Permits /\ Cardinality(Running') = 0
    BY <1>0, <1>3, <2>2, FS_EmptySet
  <2>5. free' + Cardinality(Running') = Permits
    BY <1>0, <2>4
  <2>. QED  BY <1>0, <2>3, <2>5 DEF GateKept
<1>. QED  BY <1>1, <1>2, <1>3

LEMMA CallGate ==
  ASSUME Typed, GateKept, NEW c \in Callers, CallStep(c)
  PROVE  GateKept'
<1>0. /\ changer' = changer /\ Need(c) = 1 /\ c \notin Workers
      /\ free \in Nat
      /\ Inside' = Inside
  BY Numbers, OthersLeaveChanges DEF Typed, Inside
<1>1. worker' = worker
  BY DEF CallStep, Admit, StartCall, EndCall, DropCall, scheduler
<1>2. CASE Admit(c)
  <2>1. /\ \A b \in Callers : caller'[b].pc = "running" <=> caller[b].pc = "running"
        /\ free' = free
    BY <1>2 DEF Admit, Typed
  <2>. QED
    BY <1>0, <1>1, <2>1, RunningStays, GateStays DEF SameRunning
<1>3. CASE StartCall(c)
  <2>1. CASE IsReadyGeneration(caller[c].generation) /\ ~circuit
    <3>1. /\ free >= 1 /\ free' = free - 1
          /\ caller[c].pc = "queued"
          /\ caller' = [caller EXCEPT ![c].pc = "running"]
      BY <1>0, <1>3, <2>1 DEF StartCall, Granted
    <3>2. c \notin Running /\ Running' = Running \cup {c}
      BY <1>0, <1>1, <3>1 DEF Running, Typed
    <3>. QED  BY <1>0, <3>1, <3>2, GateTaken
  <2>2. CASE ~(IsReadyGeneration(caller[c].generation) /\ ~circuit)
    <3>1. /\ free' = free /\ caller[c].pc = "queued"
          /\ caller' = [caller EXCEPT ![c].pc = "idle"]
      BY <1>3, <2>2 DEF StartCall, Idle
    <3>2. \A b \in Callers : caller'[b].pc = "running" <=> caller[b].pc = "running"
      BY <3>1 DEF Typed
    <3>. QED
      BY <1>0, <1>1, <3>1, <3>2, RunningStays, GateStays DEF SameRunning
  <2>. QED  BY <2>1, <2>2
<1>4. ASSUME caller[c].pc = "running", Idle(c), Release(c)
      PROVE  GateKept'
  <2>1. c \in Running /\ Running' = Running \ {c}
    BY <1>0, <1>1, <1>4 DEF Idle, Running, Typed
  <2>2. free' = free + 1
    BY <1>0, <1>4 DEF Release
  <2>. QED  BY <1>0, <2>1, <2>2, GateReturned
<1>5. CASE DropCall(c)
  <2>1. CASE caller[c].pc = "running"
    BY <1>4, <1>5, <2>1 DEF DropCall
  <2>2. CASE caller[c].pc # "running"
    <3>1. /\ \A b \in Callers : caller'[b].pc = "running" <=> caller[b].pc = "running"
          /\ free' = free
      BY <1>5, <2>2 DEF DropCall, Idle, Typed
    <3>. QED
      BY <1>0, <1>1, <3>1, RunningStays, GateStays DEF SameRunning
  <2>. QED  BY <2>1, <2>2
<1>6. ASSUME NEW trips, EndCall(c, trips)
      PROVE  GateKept'
  BY <1>4, <1>6 DEF EndCall
<1>. QED  BY <1>2, <1>3, <1>5, <1>6 DEF CallStep

LEMMA WorkerGate ==
  ASSUME Typed, GateKept, NEW w \in Workers, WorkerStep(w)
  PROVE  GateKept'
<1>0. /\ changer' = changer /\ Need(w) = 1 /\ w \notin Callers
      /\ free \in Nat
      /\ Inside' = Inside
  BY Numbers, OthersLeaveChanges DEF Typed, Inside
<1>1. caller' = caller
  BY DEF WorkerStep, Claim, Fire, FireEnds, FireDropped, FinishRow, RemoveHandle
<1>2. CASE Claim(w) \/ FinishRow(w) \/ RemoveHandle(w)
  <2>1. \E s \in {"queued", "remove", "none"} :
          worker' = [worker EXCEPT ![w] = s] /\ worker[w] # "firing"
    BY <1>2 DEF Claim, FinishRow, RemoveHandle
  <2>2. /\ \A v \in Workers : worker'[v] = "firing" <=> worker[v] = "firing"
    BY <2>1 DEF Typed
  <2>3. free' = free
    BY <1>2 DEF Claim, FinishRow, RemoveHandle, gate
  <2>. QED
    BY <1>0, <1>1, <2>2, <2>3, RunningStays, GateStays DEF SameRunning
<1>3. CASE Fire(w)
  <2>1. CASE worker' = [worker EXCEPT ![w] = "firing"]
    <3>1. worker'[w] = "firing"
      BY <2>1 DEF Typed
    <3>2. /\ free >= 1 /\ free' = free - 1 /\ worker[w] = "queued"
      BY <1>0, <1>3, <3>1 DEF Fire, Granted, Typed
    <3>3. w \notin Running /\ Running' = Running \cup {w}
      BY <1>0, <1>1, <2>1, <3>2 DEF Running, Typed
    <3>. QED  BY <1>0, <3>2, <3>3, GateTaken
  <2>2. CASE worker' # [worker EXCEPT ![w] = "firing"]
    <3>1. /\ worker' = [worker EXCEPT ![w] = "finish"] /\ worker[w] = "queued"
          /\ free' = free
      BY <1>3, <2>2 DEF Fire
    <3>2. \A v \in Workers : worker'[v] = "firing" <=> worker[v] = "firing"
      BY <3>1 DEF Typed
    <3>. QED
      BY <1>0, <1>1, <3>1, <3>2, RunningStays, GateStays DEF SameRunning
  <2>. QED  BY <2>1, <2>2
<1>4. ASSUME worker[w] = "firing", Release(w), NEW s \in {"finish", "none"},
             worker' = [worker EXCEPT ![w] = s]
      PROVE  GateKept'
  <2>1. w \in Running /\ Running' = Running \ {w}
    BY <1>0, <1>1, <1>4 DEF Running, Typed
  <2>2. free' = free + 1
    BY <1>0, <1>4 DEF Release
  <2>. QED  BY <1>0, <2>1, <2>2, GateReturned
<1>5. CASE FireDropped(w)
  BY <1>4, <1>5 DEF FireDropped
<1>6. ASSUME NEW status, NEW trips, FireEnds(w, status, trips)
      PROVE  GateKept'
  BY <1>4, <1>6 DEF FireEnds
<1>. QED  BY <1>2, <1>3, <1>5, <1>6 DEF WorkerStep

LEMMA HostGate ==
  ASSUME Typed, PhasesKept, GateKept, HostStep
  PROVE  GateKept'
<1>0. /\ Upgrade \in Changers /\ Shutdown \in Changers
      /\ Need(Upgrade) = Permits /\ Need(Shutdown) = Permits
      /\ Tasks \in SUBSET Tasks
      /\ free \in Nat
  BY Numbers DEF Typed
<1>1. ASSUME NEW ok \in BOOLEAN, Migrate(ok)
      PROVE  GateKept'
  <2>1. /\ SameRunning /\ free' = free
    BY <1>1 DEF Migrate, SameRunning, scheduler, gate
  <2>2. /\ changer[Upgrade] = "migrate"
        /\ \E x \in {"init", "rollback"} : changer' = [changer EXCEPT ![Upgrade] = x]
    BY <1>1 DEF Migrate, Goto
  <2>. QED  BY <1>0, <2>1, <2>2, GateMoved DEF Phases
<1>2. ASSUME NEW ok \in BOOLEAN, CheckHealth(ok)
      PROVE  GateKept'
  <2>1. CASE ok
    <3>1. /\ caller' = caller /\ free' = free + Permits /\ RecoverSchedules
          /\ changer[Upgrade] = "health"
          /\ changer' = [changer EXCEPT ![Upgrade] = "idle"]
      BY <1>0, <1>2, <2>1 DEF CheckHealth, Release, Goto
    <3>2. SameRunning
      BY <3>1, Recovered, FiringStays DEF SameRunning
    <3>. QED  BY <1>0, <3>1, <3>2, GateMoved DEF Phases
  <2>2. CASE ~ok
    <3>1. /\ caller' = caller /\ worker' = worker /\ free' = free
          /\ changer[Upgrade] = "health"
          /\ changer' = [changer EXCEPT ![Upgrade] = "rollback"]
      BY <1>2, <2>2 DEF CheckHealth, Goto, scheduler
    <3>2. SameRunning
      BY <3>1 DEF SameRunning
    <3>. QED  BY <1>0, <3>1, <3>2, GateMoved DEF Phases
  <2>. QED  BY <2>1, <2>2
<1>3. CASE BeginShutdown
  <2>1. caller' = caller /\ free' = free /\ Abort(Tasks)
    BY <1>3 DEF BeginShutdown
  <2>2. SameRunning
    BY <1>0, <2>1, FiringStays DEF SameRunning
  <2>3. CASE changer' = changer
    <3>1. Inside' = Inside
      BY <2>3 DEF Inside
    <3>. QED  BY <2>1, <2>2, <3>1, RunningStays, GateStays
  <2>4. CASE changer' # changer
    <3>1. /\ changer[Shutdown] = "idle"
          /\ changer' = [changer EXCEPT ![Shutdown] = "queued"]
      BY <1>3, <2>4 DEF BeginShutdown, Goto
    <3>. QED  BY <1>0, <2>1, <2>2, <3>1, GateMoved DEF Phases
  <2>. QED  BY <2>3, <2>4
<1>4. ASSUME NEW ok \in BOOLEAN, EndShutdown(ok)
      PROVE  GateKept'
  <2>1. SameRunning
    BY <1>4 DEF EndShutdown, SameRunning, scheduler
  <2>2. /\ changer[Shutdown] = "shutdown"
        /\ changer' = [changer EXCEPT ![Shutdown] = "idle"]
        /\ free' = free + Permits
    BY <1>0, <1>4, Left DEF EndShutdown
  <2>. QED  BY <1>0, <2>1, <2>2, GateMoved DEF Phases
<1>5. CASE Crash
  <2>1. Running' = {} /\ Inside' = {} /\ free' = Permits
    BY <1>5 DEF Crash, Running, Inside
  <2>2. IsFiniteSet({}) /\ Cardinality({}) = 0
    BY FS_EmptySet
  <2>3. free' + Cardinality(Running') = Permits
    BY <2>1, <2>2, Numbers
  <2>. QED  BY <2>1, <2>2, <2>3 DEF GateKept
<1>6. CASE StartStep
  <2>1. /\ free' = free /\ caller' = caller /\ changer' = changer
        /\ worker' = worker \/ RecoverSchedules
    BY <1>6, Starting
  <2>2. SameRunning
    BY <2>1, Recovered, FiringStays DEF SameRunning
  <2>3. Inside' = Inside
    BY <2>1 DEF Inside
  <2>. QED  BY <2>1, <2>2, <2>3, RunningStays, GateStays
<1>. QED
  BY <1>1, <1>2, <1>3, <1>4, <1>5, <1>6 DEF HostStep, ChangeCode

LEMMA StepGate ==
  ASSUME Typed, PhasesKept, GateKept, [Next]_vars
  PROVE  GateKept'
<1>1. CASE QuietStep
  <2>1. SameRunning /\ free' = free /\ Inside' = Inside
    BY <1>1 DEF QuietStep, SameRunning, scheduler, Inside
  <2>. QED  BY <2>1, RunningStays, GateStays
<1>2. ASSUME NEW t \in Tasks, TaskStep(t)
      PROVE  GateKept'
  <2>1. /\ {t} \in SUBSET Tasks
        /\ caller' = caller /\ free' = free /\ changer' = changer
        /\ Launch({t}) \/ Abort({t})
    BY <1>2 DEF TaskStep, CreateSchedule, CancelSchedule, gate
  <2>2. SameRunning /\ Inside' = Inside
    BY <2>1, FiringStays DEF SameRunning, Inside
  <2>. QED  BY <2>1, <2>2, RunningStays, GateStays
<1>3. ASSUME NEW u \in Changers, ChangeStep(u)
      PROVE  GateKept'
  <2>1. PICK x \in Phases :
          /\ changer' = [changer EXCEPT ![u] = x]
          /\ Began(u, x) \/ Entered(u, x) \/ WentOn(u, x) \/ Ended(u, x)
    BY <1>3, ChangeMoves
  <2>2. SameRunning
    BY <1>3, ChangeMoves
  <2>. QED
    BY <2>1, <2>2, GateMoved DEF Began, Entered, WentOn, Ended
<1>. QED
  BY <1>1, <1>2, <1>3, CallGate, WorkerGate, HostGate, Grouped

----------------------------------------------------------------------------
(* Code, state and configuration *)

LEMMA ChangeVersions ==
  ASSUME Typed, PhasesKept, GateKept, VersionsKept,
         NEW u \in Changers, ChangeStep(u)
  PROVE  VersionsKept'
<1>0. /\ Upgrade \in Changers /\ Upgrade \notin Updaters
      /\ \A v, z \in Inside : v = z
      /\ data = IF changer[Upgrade] \in {"init", "health"} THEN code + 1 ELSE code
      /\ changer[Upgrade] = "health" =>
           guest = [up |-> TRUE, config |-> config + 1]
      /\ host # "down" /\ ~retired /\ Undisturbed => Consistent
  BY Numbers DEF GateKept, VersionsKept
<1>1. PICK x \in Phases :
        /\ changer' = [changer EXCEPT ![u] = x]
        /\ Began(u, x) \/ Entered(u, x) \/ WentOn(u, x) \/ Ended(u, x)
  BY ChangeMoves
<1>2. /\ changer'[u] = x /\ host' = host
      /\ \A v \in Changers : v # u => changer'[v] = changer[v]
  BY <1>1, ChangeMoves DEF Typed
\* No change but u is within the gate, if u is.
<1>4. ASSUME changer[u] \notin {"idle", "queued"}
      PROVE  /\ Inside = {u}
             /\ u # Upgrade => changer[Upgrade] \in {"idle", "queued"}
  BY <1>0, <1>4 DEF Inside
<1>5. CASE BeginChange(u) \/ Enter(u)
  <2>1. UNCHANGED <<data, guest, code, config, retired>>
    BY <1>5 DEF BeginChange, Enter, persistent, registered
  <2>2. /\ x \in {"queued", "validate", "shutdown"}
        /\ changer[u] \in {"idle", "queued"}
    BY <1>2, <1>5 DEF BeginChange, Enter, Goto, Typed
  <2>3. Undisturbed' => Undisturbed
    BY <1>2, <2>2 DEF Undisturbed, Inside
  <2>. QED  BY <1>0, <1>2, <2>1, <2>2, <2>3 DEF Consistent, VersionsKept
<1>6. ASSUME NEW ok \in BOOLEAN, Validate(u, ok)
      PROVE  VersionsKept'
  <2>1. UNCHANGED <<data, guest, code, config, retired>>
    BY <1>6 DEF Validate, persistent, registered, history
  <2>2. changer[u] = "validate" /\ x \in {"shutdown", "idle"}
    BY <1>1, <1>6 DEF Validate, Began, Entered, WentOn, Ended
  <2>3. Undisturbed
    BY <1>4, <2>2 DEF Undisturbed
  <2>. QED  BY <1>0, <1>2, <1>4, <2>1, <2>2, <2>3 DEF Consistent, VersionsKept
<1>7. ASSUME NEW ok \in BOOLEAN, ShutDownGuest(u, ok)
      PROVE  VersionsKept'
  <2>1. UNCHANGED <<data, code, config, retired>> /\ changer[u] = "shutdown"
    BY <1>7 DEF ShutDownGuest, history
  <2>2. u # Upgrade => changer[Upgrade] \in {"idle", "queued"}
    BY <1>4, <2>1
  <2>3. CASE ok
    <3>1. x = IF u = Upgrade THEN "migrate" ELSE "init"
      BY <1>2, <1>7, <2>3 DEF ShutDownGuest, Goto, Typed
    <3>2. ~Undisturbed'
      BY <1>2, <3>1 DEF Undisturbed, Inside
    <3>. QED  BY <1>0, <1>2, <2>1, <2>2, <3>1, <3>2 DEF VersionsKept
  <2>4. CASE ~ok
    <3>1. x = "idle" /\ guest' = guest
      BY <1>2, <1>7, <2>4, Left DEF ShutDownGuest, Typed
    <3>2. Undisturbed
      BY <1>4, <2>1 DEF Undisturbed
    <3>. QED
      BY <1>0, <1>2, <2>1, <2>2, <3>1, <3>2 DEF Consistent, VersionsKept
  <2>. QED  BY <2>3, <2>4
<1>8. ASSUME NEW ok \in BOOLEAN, InitNew(u, ok)
      PROVE  VersionsKept'
  <2>1. code' = code /\ retired' = retired /\ changer[u] = "init"
    BY <1>8 DEF InitNew
  <2>2. u # Upgrade => changer[Upgrade] \in {"idle", "queued"} /\ u \in Updaters
    BY <1>4, <2>1 DEF PhasesKept, Changers
  <2>3. CASE ok /\ u # Upgrade
    <3>1. /\ Consistent' /\ data' = data /\ changer'[Upgrade] = changer[Upgrade]
      BY <1>0, <1>2, <1>8, <2>2, <2>3 DEF InitNew, Consistent
    <3>. QED  BY <1>0, <2>1, <2>2, <2>3, <3>1 DEF VersionsKept
  <2>4. CASE ok /\ u = Upgrade
    <3>1. /\ guest' = [up |-> TRUE, config |-> config + 1]
          /\ config' = config /\ data' = data /\ x = "health"
      BY <1>0, <1>2, <1>8, <2>4 DEF InitNew, Goto, Typed
    <3>2. ~Undisturbed'
      BY <1>2, <3>1 DEF Undisturbed, Inside
    <3>. QED  BY <1>0, <1>2, <2>1, <2>4, <3>1, <3>2 DEF VersionsKept
  <2>5. CASE ~ok
    <3>1. /\ data' = IF u = Upgrade THEN code ELSE data
          /\ config' = config /\ guest' = guest /\ x = "rollback"
      BY <1>0, <1>2, <1>8, <2>2, <2>5 DEF InitNew, Goto, Typed
    <3>2. ~Undisturbed'
      BY <1>2, <3>1 DEF Undisturbed, Inside
    <3>. QED  BY <1>0, <1>2, <2>1, <2>2, <3>1, <3>2 DEF VersionsKept
  <2>. QED  BY <2>3, <2>4, <2>5
<1>9. ASSUME NEW ok \in BOOLEAN, InitOld(u, ok)
      PROVE  VersionsKept'
  <2>1. /\ UNCHANGED <<data, code, config>> /\ changer[u] = "rollback"
        /\ retired' \/ Consistent'
    BY <1>9 DEF InitOld, Consistent
  <2>2. x = "idle"
    BY <1>1, <2>1 DEF Began, Entered, WentOn, Ended
  <2>3. u # Upgrade => changer[Upgrade] \in {"idle", "queued"}
    BY <1>4, <2>1
  <2>. QED  BY <1>0, <1>2, <2>1, <2>2, <2>3 DEF VersionsKept
<1>. QED
  BY <1>5, <1>6, <1>7, <1>8, <1>9 DEF ChangeStep

LEMMA HostVersions ==
  ASSUME Typed, PhasesKept, DownIsQuiet, RecoveryIsAlone, GateKept, VersionsKept,
         HostStep
  PROVE  VersionsKept'
<1>0. /\ Upgrade \in Changers /\ Shutdown \in Changers /\ Upgrade # Shutdown
      /\ \A v, z \in Inside : v = z
      /\ data = IF changer[Upgrade] \in {"init", "health"} THEN code + 1 ELSE code
      /\ changer[Upgrade] = "health" =>
           guest = [up |-> TRUE, config |-> config + 1]
      /\ host # "down" /\ ~retired /\ Undisturbed => Consistent
  BY Numbers DEF GateKept, VersionsKept
<1>2. ASSUME NEW ok \in BOOLEAN, Migrate(ok)
      PROVE  VersionsKept'
  <2>1. /\ data' = IF ok THEN code + 1 ELSE data
        /\ UNCHANGED <<code, config, guest, host, retired>>
        /\ changer[Upgrade] = "migrate"
        /\ changer'[Upgrade] = IF ok THEN "init" ELSE "rollback"
    BY <1>0, <1>2 DEF Migrate, Goto, Typed, registered, history
  <2>2. ~Undisturbed'
    BY <1>0, <2>1 DEF Undisturbed, Inside
  <2>. QED  BY <1>0, <2>1, <2>2 DEF VersionsKept
<1>3. ASSUME NEW ok \in BOOLEAN, CheckHealth(ok)
      PROVE  VersionsKept'
  <2>1. changer[Upgrade] = "health"
    BY <1>3 DEF CheckHealth
  <2>2. CASE ok
    <3>1. /\ code' = code + 1 /\ config' = config + 1
          /\ UNCHANGED <<data, guest, host, retired>>
          /\ changer'[Upgrade] = "idle"
      BY <1>0, <1>3, <2>2 DEF CheckHealth, Goto, Typed
    <3>. QED  BY <1>0, <2>1, <3>1 DEF Consistent, VersionsKept
  <2>3. CASE ~ok
    <3>1. /\ data' = code /\ code' = code
          /\ changer'[Upgrade] = "rollback"
      BY <1>0, <1>3, <2>3 DEF CheckHealth, Goto, Typed
    <3>2. ~Undisturbed'
      BY <1>0, <3>1 DEF Undisturbed, Inside
    <3>. QED  BY <1>0, <3>1, <3>2 DEF VersionsKept
  <2>. QED  BY <2>2, <2>3
<1>4. CASE BeginShutdown
  <2>1. /\ UNCHANGED <<data, code, config, guest, retired>>
        /\ host = "up"
        /\ changer[Shutdown] = "idle"
        /\ changer' = changer \/ changer' = [changer EXCEPT ![Shutdown] = "queued"]
    BY <1>4 DEF BeginShutdown, Goto, registered
  <2>2. /\ changer'[Upgrade] = changer[Upgrade]
        /\ Inside' = Inside
        /\ \A v \in Inside : changer'[v] = changer[v]
    BY <1>0, <2>1 DEF Inside, Typed
  <2>3. Undisturbed' => Undisturbed
    BY <2>2 DEF Undisturbed
  <2>. QED  BY <1>0, <2>1, <2>2, <2>3 DEF Consistent, VersionsKept
<1>5. ASSUME NEW ok \in BOOLEAN, EndShutdown(ok)
      PROVE  VersionsKept'
  <2>1. /\ UNCHANGED <<data, code>> /\ retired'
        /\ changer[Shutdown] = "shutdown"
        /\ changer' = [changer EXCEPT ![Shutdown] = "idle"]
    BY <1>5 DEF EndShutdown, Leave, Goto, persistent
  <2>2. changer[Upgrade] \in {"idle", "queued"}
    BY <1>0, <2>1 DEF Inside
  <2>3. changer'[Upgrade] = changer[Upgrade]
    BY <1>0, <2>1 DEF Typed
  <2>. QED  BY <1>0, <2>1, <2>2, <2>3 DEF VersionsKept
<1>6. CASE Crash
  <2>1. /\ host' = "down" /\ data' = data /\ code' = data
        /\ changer'[Upgrade] = "idle"
    BY <1>0, <1>6 DEF Crash, persistent
  <2>. QED  BY <2>1 DEF VersionsKept
<1>7. CASE Register
  <2>1. /\ host = "down"
        /\ UNCHANGED <<data, code, config, changer>>
        /\ retired' = circuit
        /\ ~circuit => guest' = [guest EXCEPT !.up = TRUE]
    BY <1>7 DEF Register
  <2>2. changer[Upgrade] = "idle" /\ guest.config = config
    BY <1>0, <2>1 DEF DownIsQuiet
  <2>3. ~retired' => Consistent'
    BY <2>1, <2>2 DEF Consistent, Typed
  <2>. QED  BY <1>0, <2>1, <2>2, <2>3 DEF VersionsKept
<1>8. CASE Recover \/ RecoveryEnds
  <2>1. UNCHANGED <<data, code, config, guest, changer, retired>>
    BY <1>8, Starting DEF StartStep, RecoveryEnds, Recover, RecoverDelivery,
                          DeliveryRecovered, registered, history
  <2>2. host # "down"
    BY <1>8, Starting DEF StartStep, Recover, RecoverDelivery, DeliveryRecovered,
                          RecoveryEnds, RecoveryIsAlone
  <2>. QED
    BY <1>0, <2>1, <2>2 DEF VersionsKept, Undisturbed, Inside, Consistent
<1>. QED
  BY <1>2, <1>3, <1>4, <1>5, <1>6, <1>7, <1>8 DEF HostStep, StartStep, ChangeCode

LEMMA StepVersions ==
  ASSUME Typed, PhasesKept, DownIsQuiet, RecoveryIsAlone, GateKept, VersionsKept,
         [Next]_vars
  PROVE  VersionsKept'
<1>1. CASE UNCHANGED <<changer, host, registered, data, number, switched, retired>>
  BY <1>1 DEF VersionsKept, Inside, Consistent, Undisturbed, registered
<1>. QED
  BY <1>1, Grouped, OthersLeaveChanges, ChangeVersions, HostVersions

----------------------------------------------------------------------------
(* The theorems that hold for any number of updaters *)

LEMMA Inductive ==
  /\ Init => IInv
  /\ IInv /\ [Next]_vars => IInv'
<1>1. ASSUME Init PROVE IInv
  <2>1. Typed
    <3>1. /\ rows \in [Tasks -> {"absent", "pending", "firing"}]
          /\ worker \in [Workers -> {"none", "sleeping", "queued", "firing",
                                     "finish", "remove"}]
          /\ aborted \subseteq {w \in Workers : worker[w] = "firing"}
          /\ handle \in [Tasks -> Slots \cup {0}]
          /\ changer \in [Changers -> Phases]
      BY <1>1 DEF Init, Quiet, Phases
    <3>2. caller \in [Callers -> [pc : {"idle", "queued", "running"},
                                  generation : Nat, since : Nat]]
      BY <1>1 DEF Init, Quiet
    <3>3. spent \in [calls : Nat, changes : Nat, starts : Nat,
                     creations : [Tasks -> Nat]]
      BY <1>1 DEF Init
    <3>4. /\ data \in Nat /\ code \in Nat /\ config \in Nat /\ switched \in Nat
          /\ circuit \in BOOLEAN /\ retired \in BOOLEAN
          /\ host \in {"down", "recovering", "up", "stopped"}
          /\ free \in Nat
      BY <1>1, Numbers DEF Init, Quiet
    <3>5. /\ lifecycle \in [state : {"Ready", "Draining", "Disabled", "Stopped"},
                             generation : Nat]
          /\ guest \in [up : BOOLEAN, config : Nat]
          /\ recovery \in [todo : SUBSET Events, at : SUBSET Events]
          /\ number \in [Changers -> Nat]
      BY <1>1 DEF Init, Quiet, NoRecovery
    <3>. QED  BY <3>1, <3>2, <3>3, <3>4, <3>5 DEF Typed
  <2>2. /\ \A c \in Callers : caller[c].pc = "idle"
        /\ \A u \in Changers : changer[u] = "idle"
        /\ \A w \in Workers : worker[w] = "none"
        /\ \A t \in Tasks : handle[t] = 0
        /\ overtaken = {} /\ stranded = {} /\ guest.config = config
        /\ free = Permits /\ data = code /\ host = "down"
        /\ recovery.todo = {} /\ recovery.at = {}
    BY <1>1 DEF Init, Quiet, NoRecovery
  <2>3. Inside = {} /\ Running = {} /\ ~Upgrading
    BY <2>2, Numbers DEF Inside, Running, Upgrading
  <2>4. PhasesKept /\ DownIsQuiet /\ UpgradeIsAlone /\ RecoveryIsAlone
    BY <2>2, <2>3, Numbers DEF PhasesKept, DownIsQuiet, UpgradeIsAlone,
                               RecoveryIsAlone, Changers
  <2>5. GateKept
    BY <2>2, <2>3, Numbers, FS_EmptySet DEF GateKept
  <2>6. VersionsKept
    BY <2>2, Numbers DEF VersionsKept
  <2>. QED  BY <2>1, <2>4, <2>5, <2>6 DEF IInv
<1>2. ASSUME IInv, [Next]_vars PROVE IInv'
  BY <1>2, StepTyped, StepPhases, StepDown, StepAlone, StepRecovering, StepGate,
     StepVersions
  DEF IInv
<1>. QED  BY <1>1, <1>2

\* The plugin is invoked only while no change is within the gate: whoever runs
\* holds a permit that a change would need, or is the recovery, which is alone.
LEMMA RunningIsInitialised ==
  IInv => RunsInitialised
<1>. SUFFICES ASSUME IInv, Invoked
              PROVE  /\ \A u \in Changers : changer[u] \in {"idle", "queued"}
                     /\ ~retired => /\ guest = [up |-> TRUE, config |-> config]
                                    /\ data = code
  BY DEF RunsInitialised
<1>1. Inside = {}
  BY DEF IInv, GateKept, RecoveryIsAlone, Invoked, Inside
<1>2. \A u \in Changers : changer[u] \in {"idle", "queued"}
  BY <1>1 DEF Inside
<1>3. host # "down"
  BY DEF IInv, DownIsQuiet, RecoveryIsAlone, Invoked, Running
<1>4. Undisturbed
  BY <1>1 DEF Undisturbed
<1>5. changer[Upgrade] \in {"idle", "queued"}
  BY <1>2, Numbers
<1>. QED
  BY <1>2, <1>3, <1>4, <1>5 DEF IInv, VersionsKept, Consistent

\* However many updates overlap, an invocation never meets a plugin that is
\* being changed: it is initialised with the configuration that the host shows
\* it, and its state is in the format of its code (InvocationGate::acquire()
\* and acquire_exclusive(), update_config(), upgrade() and their rollbacks).
THEOREM InvocationsAreIsolated ==
  Spec => []RunsInitialised
<1>1. Spec => []IInv
  BY Inductive, PTL DEF Spec
<1>. QED  BY <1>1, RunningIsInitialised, PTL

----------------------------------------------------------------------------
(* Generations *)

\* No call runs, or waits with the right to run, that missed a switch.
CallsKept == OldGenerationIsNotRun /\ GenerationsKept

\* Calls may end; a change switches only while nobody runs.
LEMMA CallsStay ==
  ASSUME Typed, CallsKept,
         \A c \in Callers : caller'[c] = caller[c] \/ caller'[c].pc = "idle",
         number' = number, spent'.changes = spent.changes,
         lifecycle'.generation = lifecycle.generation,
         \/ switched' = switched
         \/ Running = {} /\ switched' <= spent.changes
  PROVE  CallsKept'
<1>1. Running = {} => \A c \in Callers : caller[c].pc # "running"
  BY DEF Running
<1>2. OldGenerationIsNotRun'
  BY <1>1 DEF CallsKept, OldGenerationIsNotRun
<1>3. GenerationsKept'
  BY DEF CallsKept, GenerationsKept
<1>. QED  BY <1>2, <1>3 DEF CallsKept

\* begin_draining() outdates every call that waits.
LEMMA CallsDrained ==
  ASSUME Typed, CallsKept, caller' = caller, switched' = switched,
         lifecycle' = Draining,
         spent'.changes \in {spent.changes, spent.changes + 1},
         \A u \in Changers : number'[u] \in {number[u], spent'.changes}
  PROVE  CallsKept'
<1>1. /\ lifecycle.generation \in Nat /\ spent.changes \in Nat /\ switched \in Nat
      /\ \A c \in Callers : caller[c].generation \in Nat
      /\ \A u \in Changers : number[u] \in Nat
  BY DEF Typed
<1>2. lifecycle'.generation = lifecycle.generation + 1
  BY DEF Draining
<1>3. /\ switched <= spent.changes
      /\ \A u \in Changers : number[u] <= spent.changes
      /\ \A c \in Callers : caller[c].pc = "queued" =>
           caller[c].generation <= lifecycle.generation
  BY DEF CallsKept, GenerationsKept
<1>4. \A c \in Callers : caller[c].pc = "queued" =>
        /\ caller[c].generation <= lifecycle'.generation
        /\ caller[c].generation # lifecycle'.generation
  BY <1>1, <1>2, <1>3
<1>5. /\ switched' <= spent'.changes
      /\ \A u \in Changers : number'[u] <= spent'.changes
  BY <1>1, <1>3
<1>6. OldGenerationIsNotRun'
  BY DEF CallsKept, OldGenerationIsNotRun
<1>. QED  BY <1>4, <1>5, <1>6 DEF CallsKept, GenerationsKept

LEMMA CallsGone ==
  ASSUME \A c \in Callers : caller'[c].pc = "idle",
         switched' <= spent'.changes,
         \A u \in Changers : number'[u] <= spent'.changes
  PROVE  CallsKept'
BY DEF CallsKept, OldGenerationIsNotRun, GenerationsKept

\* A change that switches has a number that was given.
LEMMA Switching ==
  ASSUME Typed, CallsKept, NEW u \in Changers, Switch(u)
  PROVE  switched' <= spent.changes
BY DEF Switch, CallsKept, GenerationsKept

LEMMA CallCalls ==
  ASSUME Typed, CallsKept, NEW c \in Callers, CallStep(c)
  PROVE  CallsKept'
<1>1. number' = number /\ switched' = switched
  BY OthersLeaveChanges
<1>2. CASE Admit(c)
  <2>1. /\ lifecycle' = lifecycle
        /\ caller' = [caller EXCEPT ![c] = [pc |-> "queued",
                                            generation |-> lifecycle.generation,
                                            since |-> spent.changes]]
    BY <1>2 DEF Admit
  <2>2. spent'.changes = spent.changes
    BY <1>2 DEF Admit, Spend, Typed
  <2>3. /\ lifecycle.generation \in Nat
        /\ caller'[c] = [pc |-> "queued", generation |-> lifecycle.generation,
                         since |-> spent.changes]
        /\ \A d \in Callers : d # c => caller'[d] = caller[d]
    BY <2>1 DEF Typed
  <2>. QED
    BY <1>1, <2>1, <2>2, <2>3 DEF CallsKept, OldGenerationIsNotRun, GenerationsKept
<1>3. CASE StartCall(c)
  <2>1. lifecycle'.generation = lifecycle.generation /\ spent' = spent
    BY <1>3 DEF StartCall, SetState, Typed, history
  <2>2. /\ caller[c].pc = "queued"
        /\ \/ caller' = [caller EXCEPT ![c].pc = "idle"]
           \/ /\ caller' = [caller EXCEPT ![c].pc = "running"]
              /\ caller[c].generation = lifecycle.generation
    BY <1>3 DEF StartCall, IsReadyGeneration, Idle
  <2>3. CASE caller' = [caller EXCEPT ![c].pc = "idle"]
    BY <1>1, <2>1, <2>3, CallsStay DEF Typed
  <2>4. CASE /\ caller' = [caller EXCEPT ![c].pc = "running"]
             /\ caller[c].generation = lifecycle.generation
    <3>1. caller[c].since = spent.changes /\ switched <= spent.changes
      BY <2>2, <2>4 DEF CallsKept, GenerationsKept
    <3>2. /\ caller'[c].pc = "running" /\ caller'[c].since = spent.changes
          /\ \A d \in Callers : d # c => caller'[d] = caller[d]
      BY <2>4, <3>1 DEF Typed
    <3>. QED
      BY <1>1, <2>1, <3>1, <3>2
      DEF CallsKept, OldGenerationIsNotRun, GenerationsKept
  <2>. QED  BY <2>2, <2>3, <2>4
<1>4. ASSUME NEW trips \in BOOLEAN, EndCall(c, trips)
      PROVE  CallsKept'
  <2>1. lifecycle'.generation = lifecycle.generation /\ spent' = spent
    BY <1>4 DEF EndCall, Outcome, SetState, Typed, history
  <2>2. caller' = [caller EXCEPT ![c].pc = "idle"]
    BY <1>4 DEF EndCall, Idle
  <2>. QED  BY <1>1, <2>1, <2>2, CallsStay DEF Typed
<1>5. CASE DropCall(c)
  <2>1. /\ lifecycle' = lifecycle /\ spent' = spent
        /\ caller' = [caller EXCEPT ![c].pc = "idle"]
    BY <1>5 DEF DropCall, Idle, history
  <2>. QED  BY <1>1, <2>1, CallsStay DEF Typed
<1>. QED  BY <1>2, <1>3, <1>4, <1>5 DEF CallStep

\* What a change does to the numbers, once it has begun.
LEMMA ChangeOfNumbers ==
  ASSUME Typed, NEW u \in Changers, ChangeStep(u), ~BeginChange(u)
  PROVE  /\ UNCHANGED <<number, spent>>
         /\ lifecycle'.generation = lifecycle.generation
         /\ \/ switched' = switched
            \/ changer[u] = "init" /\ Switch(u)
<1>1. \A state : Leave(u, state) => lifecycle'.generation = lifecycle.generation
  BY DEF Leave, SetState, Typed
<1>2. CASE Enter(u)
  BY <1>2 DEF Enter
<1>3. ASSUME NEW ok \in BOOLEAN,
             Validate(u, ok) \/ ShutDownGuest(u, ok)
      PROVE  /\ UNCHANGED <<number, spent, switched>>
             /\ lifecycle'.generation = lifecycle.generation
  BY <1>1, <1>3 DEF Validate, ShutDownGuest, history
<1>4. ASSUME NEW ok \in BOOLEAN, InitOld(u, ok)
      PROVE  /\ UNCHANGED <<number, spent, switched>>
             /\ lifecycle'.generation = lifecycle.generation
  BY <1>1, <1>4 DEF InitOld
<1>5. ASSUME NEW ok \in BOOLEAN, InitNew(u, ok)
      PROVE  /\ UNCHANGED <<number, spent>>
             /\ lifecycle'.generation = lifecycle.generation
             /\ \/ switched' = switched
                \/ changer[u] = "init" /\ Switch(u)
  BY <1>1, <1>5 DEF InitNew
<1>. QED  BY <1>2, <1>3, <1>4, <1>5 DEF ChangeStep

LEMMA ChangeCalls ==
  ASSUME IInv, CallsKept, NEW u \in Changers, ChangeStep(u)
  PROVE  CallsKept'
<1>0. Typed /\ GateKept /\ caller' = caller
  BY ChangeMoves DEF IInv
<1>1. CASE BeginChange(u)
  <2>1. /\ lifecycle' = Draining /\ switched' = switched
        /\ spent' = [spent EXCEPT !.changes = @ + 1]
        /\ number' = [number EXCEPT ![u] = spent.changes + 1]
    BY <1>1 DEF BeginChange, Spend
  <2>2. /\ spent'.changes = spent.changes + 1
        /\ \A v \in Changers : number'[v] \in {number[v], spent'.changes}
    BY <1>0, <2>1 DEF Typed
  <2>. QED  BY <1>0, <2>1, <2>2, CallsDrained
<1>2. CASE ~BeginChange(u)
  <2>1. /\ UNCHANGED <<number, spent>>
        /\ lifecycle'.generation = lifecycle.generation
        /\ \/ switched' = switched
           \/ changer[u] = "init" /\ Switch(u)
    BY <1>0, <1>2, ChangeOfNumbers
  <2>2. CASE changer[u] = "init" /\ Switch(u)
    <3>1. Running = {}
      BY <1>0, <2>2 DEF GateKept, Inside
    <3>. QED  BY <1>0, <2>1, <2>2, <3>1, Switching, CallsStay
  <2>3. CASE switched' = switched
    BY <1>0, <2>1, <2>3, CallsStay
  <2>. QED  BY <2>1, <2>2, <2>3
<1>. QED  BY <1>1, <1>2

LEMMA HostCalls ==
  ASSUME IInv, CallsKept, HostStep
  PROVE  CallsKept'
<1>0. /\ Typed /\ UpgradeIsAlone /\ DownIsQuiet /\ RecoveryIsAlone
      /\ Upgrade \in Changers
      /\ switched <= spent.changes /\ \A u \in Changers : number[u] <= spent.changes
  BY Numbers DEF IInv, CallsKept, GenerationsKept
<1>1. CASE ChangeCode
  <2>1. \A c \in Callers : caller[c].pc = "idle"
    BY <1>0, <1>1 DEF ChangeCode, Migrate, CheckHealth, Upgrading, UpgradeIsAlone
  <2>2. /\ UNCHANGED <<caller, number, spent>>
        /\ switched' = switched \/ Switch(Upgrade)
    BY <1>1 DEF ChangeCode, Migrate, CheckHealth, history
  <2>3. switched' <= spent.changes
    BY <1>0, <2>2, Switching
  <2>. QED  BY <1>0, <2>1, <2>2, <2>3, CallsGone
<1>2. CASE BeginShutdown
  <2>1. /\ UNCHANGED <<caller, number, spent, switched>>
        /\ lifecycle' = Draining \/ lifecycle' = lifecycle
    BY <1>2 DEF BeginShutdown
  <2>. QED  BY <1>0, <2>1, CallsDrained, CallsStay
<1>3. ASSUME NEW ok \in BOOLEAN, EndShutdown(ok)
      PROVE  CallsKept'
  <2>1. /\ UNCHANGED <<caller, number, spent, switched>>
        /\ lifecycle'.generation = lifecycle.generation
    BY <1>0, <1>3 DEF EndShutdown, Leave, SetState, Typed
  <2>. QED  BY <1>0, <2>1, CallsStay
<1>4. CASE Crash
  <2>1. /\ \A c \in Callers : caller'[c].pc = "idle"
        /\ spent' = spent /\ switched' = 0 /\ \A u \in Changers : number'[u] = 0
    BY <1>4 DEF Crash
  <2>. QED  BY <1>0, <2>1, CallsGone DEF Typed
<1>5. CASE StartStep
  <2>1. /\ \A c \in Callers : caller'[c].pc = "idle"
        /\ UNCHANGED <<number, switched>>
    BY <1>0, <1>5, Starting, StartingAlone
  <2>2. spent'.changes = spent.changes
    <3>1. CASE Register
      BY <1>0, <3>1 DEF Register, Spend, Typed
    <3>2. CASE ~Register
      BY <1>5, <3>2, Starting DEF RecoveryEnds
    <3>. QED  BY <3>1, <3>2
  <2>. QED  BY <1>0, <2>1, <2>2, CallsGone
<1>. QED  BY <1>1, <1>2, <1>3, <1>4, <1>5 DEF HostStep

LEMMA StepCalls ==
  ASSUME IInv, CallsKept, [Next]_vars
  PROVE  CallsKept'
<1>0. Typed
  BY DEF IInv
<1>1. CASE QuietStep
  BY <1>0, <1>1, CallsStay DEF QuietStep, history
<1>2. ASSUME NEW t \in Tasks, TaskStep(t)
      PROVE  CallsKept'
  <2>1. UNCHANGED <<caller, number, switched, lifecycle>>
    BY <1>2 DEF TaskStep, CreateSchedule, CancelSchedule
  <2>2. spent'.changes = spent.changes
    BY <1>0, <1>2 DEF TaskStep, CreateSchedule, CancelSchedule, Typed
  <2>. QED  BY <1>0, <2>1, <2>2, CallsStay
<1>3. ASSUME NEW w \in Workers, WorkerStep(w)
      PROVE  CallsKept'
  <2>1. /\ UNCHANGED <<caller, number, switched, spent>>
        /\ lifecycle' = lifecycle \/ SetState("Disabled")
    BY <1>3 DEF WorkerStep, Claim, Fire, FireEnds, FireDropped, FinishRow,
                RemoveHandle, Outcome, history
  <2>2. lifecycle'.generation = lifecycle.generation
    BY <1>0, <2>1 DEF SetState, Typed
  <2>. QED  BY <1>0, <2>1, <2>2, CallsStay
<1>. QED
  BY <1>0, <1>1, <1>2, <1>3, CallCalls, ChangeCalls, HostCalls, Grouped

\* A change of the plugin and a call of it exclude each other, whatever updates
\* overlap: no call is run by a plugin that is half changed, or that was switched
\* by a change which began after the call was admitted.  IsReadyGeneration() is
\* what outdates the calls that wait for the gate.
THEOREM ChangesIsolated ==
  Spec => []ChangesAreIsolated
<1>1. Init => IInv /\ CallsKept
  <2>1. Init => /\ \A c \in Callers : caller[c].pc = "idle"
                /\ switched = 0 /\ spent.changes = 0
                /\ \A u \in Changers : number[u] = 0
    BY DEF Init, Quiet
  <2>. QED
    BY <2>1, Inductive DEF CallsKept, OldGenerationIsNotRun, GenerationsKept
<1>2. IInv /\ CallsKept /\ [Next]_vars => (IInv /\ CallsKept)'
  BY StepCalls, Inductive
<1>3. IInv /\ CallsKept => ChangesAreIsolated
  BY RunningIsInitialised DEF CallsKept, ChangesAreIsolated
<1>. QED  BY <1>1, <1>2, <1>3, PTL DEF Spec

----------------------------------------------------------------------------
(* Rows and workers, when a task_id is used once *)

\* A step leaves what there is of task t alone.
SameTask(t) ==
  /\ rows'[t] = rows[t]
  /\ handle'[t] = handle[t]
  /\ t \in stranded' <=> t \in stranded
  /\ \A n \in Slots : /\ worker'[<<t, n>>] = worker[<<t, n>>]
                      /\ <<t, n>> \in aborted' <=> <<t, n>> \in aborted

LEMMA TaskStays ==
  ASSUME Typed, NEW t \in Tasks, SameTask(t), WorkersOf(t), Ending => Ending'
  PROVE  WorkersOf(t)'
<1>1. handle[t] # 0 => handle[t] \in Slots
  BY DEF Typed
<1>2. \A n \in Slots : /\ Alive(t, n)' <=> Alive(t, n)
                       /\ Ghost(t, n) => Ghost(t, n)'
  BY DEF SameTask, Alive, Ghost
<1>3. \A m, n \in Slots : Alive(t, m)' /\ Alive(t, n)' => m = n
  BY <1>2 DEF WorkersOf
<1>4. handle'[t] # 0 => /\ worker'[<<t, handle'[t]>>] # "none"
                        /\ <<t, handle'[t]>> \notin aborted'
  BY <1>1 DEF WorkersOf, SameTask, Alive
<1>5. \A n \in Slots : Alive(t, n)' /\ handle'[t] # n => Ghost(t, n)'
  BY <1>2 DEF WorkersOf, SameTask
<1>6. ASSUME NEW n \in Slots, handle'[t] = n
      PROVE  RowOf(t, n)'
  <2>1. RowOf(t, n)
    BY <1>6 DEF WorkersOf, SameTask
  <2>. QED  BY <2>1 DEF RowOf, Claimed, SameTask
<1>. QED  BY <1>3, <1>4, <1>5, <1>6 DEF WorkersOf, Alive

\* A step that concerns task s alone.
LEMMA OneTask ==
  ASSUME Typed, SchedulesKept, NEW s \in Tasks,
         \A t \in Tasks \ {s} :
           SameTask(t) /\ spent'.creations[t] = spent.creations[t],
         Ending => Ending', InService' => InService,
         overtaken \subseteq overtaken', overtaken' \subseteq overtaken \cup {s},
         s \in overtaken' => rows'[s] = "absent" \/ host # "recovering",
         host' = host, stranded' \subseteq stranded,
         s \notin overtaken' => WorkersOf(s)',
         InService' /\ rows'[s] = "pending"
           => \/ \E n \in Slots : worker'[<<s, n>>] = "sleeping"
              \/ s \in stranded',
         spent'.creations[s] # 0,
         PausedHasNoHandle'
  PROVE  SchedulesKept'
<1>1. UnusedIsAbsent'
  BY DEF SchedulesKept, UnusedIsAbsent, SameTask, Alive
<1>4. RecoveringRows'
  BY DEF SchedulesKept, RecoveringRows, SameTask
<1>2. PendingIsAwaited'
  BY DEF SchedulesKept, PendingIsAwaited, SameTask
<1>3. \A t \in Tasks \ overtaken' : WorkersOf(t)'
  BY TaskStays DEF SchedulesKept
<1>. QED  BY <1>1, <1>2, <1>3, <1>4 DEF SchedulesKept

\* A step that leaves all rows and workers alone.
LEMMA SchedulesStay ==
  ASSUME Typed, SchedulesKept,
         UNCHANGED <<rows, scheduler, overtaken, stranded>>,
         spent'.creations = spent.creations,
         Ending => Ending', InService' => InService,
         host' = "recovering" =>
           host = "recovering" \/ (overtaken = {} /\ stranded = {}),
         \/ changer'[Upgrade] \in {"idle", "queued"}
         \/ changer[Upgrade] \notin {"idle", "queued"}
  PROVE  SchedulesKept'
<1>1. \A t \in Tasks : SameTask(t)
  BY DEF SameTask, scheduler
<1>2. /\ UnusedIsAbsent' /\ PausedHasNoHandle' /\ PendingIsAwaited'
      /\ RecoveringRows'
  BY DEF SchedulesKept, UnusedIsAbsent, PausedHasNoHandle, PendingIsAwaited,
         RecoveringRows, scheduler, Alive
<1>3. \A t \in Tasks \ overtaken' : WorkersOf(t)'
  BY <1>1, TaskStays DEF SchedulesKept
<1>. QED  BY <1>2, <1>3 DEF SchedulesKept

\* The workers of an aborted task: what is left of them is about to end.
LEMMA AbortedTask ==
  ASSUME Typed, NEW ts \in SUBSET Tasks, Abort(ts), NEW t \in ts,
         WorkersOf(t), t \notin overtaken',
         Ending => Ending', rows[t] = "absent" => rows'[t] = "absent",
         \/ rows'[t] = "absent" \/ Ending' \/ Running = {}
  PROVE  WorkersOf(t)'
<1>0. /\ handle'[t] = 0
      /\ \A n \in Slots :
           /\ worker'[<<t, n>>] = IF /\ n = handle[t]
                                     /\ worker[<<t, n>>] \in {"sleeping", "queued"}
                                    THEN "none" ELSE worker[<<t, n>>]
           /\ <<t, n>> \in aborted' <=>
                \/ <<t, n>> \in aborted
                \/ n = handle[t] /\ worker[<<t, n>>] = "firing"
           /\ n = handle[t] => worker[<<t, n>>] \notin {"finish", "remove"}
           /\ <<t, n>> \in aborted => worker[<<t, n>>] = "firing"
           /\ worker[<<t, n>>] \in WorkerStates
  <2>1. \A n \in Slots : <<t, n>> \in Workers /\ <<t, n>>[1] = t /\ <<t, n>>[2] = n
    BY PairIsWorker
  <2>2. handle'[t] = 0
    BY Aborting
  <2>3. ASSUME NEW n \in Slots
        PROVE  worker'[<<t, n>>] = IF /\ n = handle[t]
                                      /\ worker[<<t, n>>] \in {"sleeping", "queued"}
                                     THEN "none" ELSE worker[<<t, n>>]
    BY <2>1, Aborting
  <2>4. ASSUME NEW n \in Slots
        PROVE  /\ <<t, n>> \in aborted' <=>
                    \/ <<t, n>> \in aborted
                    \/ n = handle[t] /\ worker[<<t, n>>] = "firing"
               /\ n = handle[t] => worker[<<t, n>>] \notin {"finish", "remove"}
    BY <2>1, Aborting
  <2>5. \A n \in Slots : /\ <<t, n>> \in aborted => worker[<<t, n>>] = "firing"
                         /\ worker[<<t, n>>] \in WorkerStates
    BY <2>1 DEF Typed, WorkerStates
  <2>. QED  BY <2>2, <2>3, <2>4, <2>5
<1>1. \A n \in Slots : Alive(t, n)' => Alive(t, n)
  BY <1>0 DEF Alive
<1>2. \A m, n \in Slots : Alive(t, m)' /\ Alive(t, n)' => m = n
  BY <1>1 DEF WorkersOf
<1>3. ASSUME NEW n \in Slots, Alive(t, n)'
      PROVE  Ghost(t, n)'
  <2>1. CASE n = handle[t]
    <3>1. worker[<<t, n>>] = "firing" /\ <<t, n>> \in aborted'
      BY <1>0, <1>3, <2>1 DEF Alive, WorkerStates
    <3>2. Running # {}
      BY <3>1, PairIsWorker DEF Running
    <3>. QED  BY <3>1, <3>2 DEF Ghost
  <2>2. CASE n # handle[t]
    <3>1. Ghost(t, n)
      BY <1>1, <1>3, <2>2 DEF WorkersOf
    <3>. QED  BY <1>0, <2>2, <3>1 DEF Ghost
  <2>. QED  BY <2>1, <2>2
<1>. QED  BY <1>0, <1>2, <1>3, Numbers DEF WorkersOf, Alive

\* recover_plugin_schedules(): one new worker waits for each row that is left
\* and whose task has no handle; a task that has one is waited for already, or
\* its worker has claimed the row and is stranded.
LEMMA SchedulesRecovered ==
  ASSUME Typed, SchedulesKept, RecoverSchedules,
         \A t \in Tasks : t \notin stranded,
         \A t \in Tasks : t \in stranded' <=> rows[t] = "firing" /\ handle[t] # 0,
         \A t \in Tasks : t \in overtaken => handle[t] = 0 \/ rows[t] = "absent",
         ~Ending, overtaken' = overtaken,
         spent'.creations = spent.creations,
         host' # "recovering",
         changer'[Upgrade] \in {"idle", "queued"}
  PROVE  SchedulesKept'
<1>. DEFINE ts == {t \in Tasks : rows[t] # "absent"}
<1>1. /\ Launch(ts) /\ ts \in SUBSET Tasks
      /\ aborted' = aborted
      /\ \A t \in Tasks : rows'[t] = IF rows[t] = "firing" THEN "pending" ELSE rows[t]
  BY Recovered DEF Requeued
<1>2. \A w \in Workers :
        worker'[w] = worker[w]
          \/ /\ worker[w] = "none" /\ worker'[w] = "sleeping"
             /\ w[1] \in ts /\ handle[w[1]] = 0 /\ handle'[w[1]] = w[2]
  BY <1>1, Launched
<1>3. \A t \in ts : handle[t] = 0 =>
        /\ handle'[t] \in Slots
        /\ worker[<<t, handle'[t]>>] = "none"
        /\ worker'[<<t, handle'[t]>>] = "sleeping"
  BY <1>1, Launched, ZenonT(90)
<1>4. \A t \in Tasks : ~(t \in ts /\ handle[t] = 0) => handle'[t] = handle[t]
  BY <1>1, Launched
<1>5. ASSUME NEW t \in Tasks, t \notin ts
      PROVE  SameTask(t)
  <2>1. \A n \in Slots : worker'[<<t, n>>] = worker[<<t, n>>]
    BY <1>2, <1>5, PairIsWorker
  <2>2. t \notin stranded' /\ t \notin stranded
    BY <1>5
  <2>. QED  BY <1>1, <1>4, <1>5, <2>1, <2>2 DEF SameTask
<1>6. UnusedIsAbsent'
  <2>1. ASSUME NEW t \in Tasks, spent'.creations[t] = 0
        PROVE  t \notin ts
    BY <2>1 DEF SchedulesKept, UnusedIsAbsent
  <2>. QED  BY <1>5, <2>1 DEF SchedulesKept, UnusedIsAbsent, SameTask, Alive
<1>7. PausedHasNoHandle' /\ RecoveringRows'
  BY DEF PausedHasNoHandle, RecoveringRows
\* A worker that has the handle of a row that is left
<1>8. ASSUME NEW t \in ts, handle[t] # 0
      PROVE  /\ handle[t] \in Slots
             /\ handle'[t] = handle[t]
             /\ \A n \in Slots : worker'[<<t, n>>] = worker[<<t, n>>]
             /\ WorkersOf(t)
             /\ \/ /\ worker[<<t, handle[t]>>] = "sleeping"
                   /\ rows[t] = "pending"
                \/ /\ worker[<<t, handle[t]>>] \in {"queued", "firing", "finish"}
                   /\ rows[t] = "firing"
  <2>1. handle[t] \in Slots /\ t \in Tasks
    BY <1>8 DEF Typed
  <2>2. WorkersOf(t)
    BY <1>8, <2>1 DEF SchedulesKept
  <2>3. \A n \in Slots : worker'[<<t, n>>] = worker[<<t, n>>]
    BY <1>2, <1>8, <2>1, PairIsWorker
  <2>4. /\ RowOf(t, handle[t]) /\ Alive(t, handle[t])
        /\ worker[<<t, handle[t]>>] \in WorkerStates
    BY <1>8, <2>1, <2>2, PairIsWorker DEF WorkersOf, Typed, WorkerStates
  <2>. QED
    BY <1>4, <1>8, <2>1, <2>2, <2>3, <2>4 DEF RowOf, Claimed, Alive, WorkerStates
<1>9. PendingIsAwaited'
  <2>1. \A t \in Tasks : rows'[t] = "pending" => t \in ts
    BY <1>1
  <2>2. ASSUME NEW t \in ts
        PROVE  \/ \E n \in Slots : worker'[<<t, n>>] = "sleeping"
               \/ t \in stranded'
    <3>1. CASE handle[t] = 0
      BY <1>3, <3>1
    <3>2. CASE handle[t] # 0
      <4>1. t \in Tasks /\ handle[t] \in Slots
              /\ worker'[<<t, handle[t]>>] = worker[<<t, handle[t]>>]
        BY <1>8, <3>2
      <4>. QED  BY <1>8, <3>2, <4>1
    <3>. QED  BY <3>1, <3>2
  <2>. QED  BY <2>1, <2>2 DEF PendingIsAwaited
<1>10. ASSUME NEW t \in Tasks \ overtaken'
       PROVE  WorkersOf(t)'
  <2>1. WorkersOf(t)
    BY DEF SchedulesKept
  <2>2. CASE t \notin ts
    BY <1>5, <2>1, <2>2, TaskStays
  <2>3. CASE t \in ts /\ handle[t] = 0
    <3>1. \A n \in Slots : worker[<<t, n>>] = "none"
      BY <2>1, <2>3, Numbers DEF WorkersOf, Ghost, Alive
    <3>2. ASSUME NEW n \in Slots, worker'[<<t, n>>] # "none"
          PROVE  n = handle'[t] /\ worker'[<<t, n>>] = "sleeping"
      BY <1>2, <3>1, <3>2, PairIsWorker
    <3>3. <<t, handle'[t]>> \notin aborted'
      BY <1>1, <1>3, <2>3 DEF Typed
    <3>4. rows[t] \in {"absent", "pending", "firing"}
      BY DEF Typed
    <3>5. rows'[t] = "pending" /\ t \notin stranded'
      BY <1>1, <2>3, <3>4
    <3>6. \A n \in Slots : handle'[t] = n => RowOf(t, n)'
      BY <1>3, <2>3, <3>5 DEF RowOf
    <3>. QED  BY <1>3, <2>3, <3>2, <3>3, <3>6 DEF WorkersOf, Alive
  <2>4. CASE t \in ts /\ handle[t] # 0
    <3>1. /\ handle[t] \in Slots
          /\ handle'[t] = handle[t]
          /\ \A n \in Slots : worker'[<<t, n>>] = worker[<<t, n>>]
          /\ \/ /\ worker[<<t, handle[t]>>] = "sleeping"
                /\ rows[t] = "pending"
             \/ /\ worker[<<t, handle[t]>>] \in {"queued", "firing", "finish"}
                /\ rows[t] = "firing"
      BY <1>8, <2>4
    <3>2. rows'[t] = "pending" /\ (t \in stranded' <=> rows[t] = "firing")
      BY <1>1, <2>4, <3>1
    <3>3. RowOf(t, handle[t])'
      BY <3>1, <3>2 DEF RowOf, Claimed
    <3>4. \A n \in Slots : handle'[t] = n => RowOf(t, n)'
      BY <3>1, <3>3 DEF RowOf, Claimed
    <3>5. \A n \in Slots : Alive(t, n) => n = handle[t]
      BY <2>1, <2>4, <3>1 DEF WorkersOf
    <3>. QED  BY <1>1, <2>1, <2>4, <3>1, <3>4, <3>5 DEF WorkersOf, Alive
  <2>. QED  BY <2>2, <2>3, <2>4
<1>. QED  BY <1>6, <1>7, <1>9, <1>10 DEF SchedulesKept

\* Whoever runs keeps the changes out of the gate.
LEMMA RunningKeepsOut ==
  ASSUME GateKept, RecoveryIsAlone, Invoked
  PROVE  changer[Upgrade] \in {"idle", "queued"}
BY Numbers DEF GateKept, Inside, Invoked, RecoveryIsAlone

LEMMA TaskSchedules ==
  ASSUME IInv, SchedulesKept, MaxCreations = 1,
         NEW s \in Tasks, TaskStep(s)
  PROVE  SchedulesKept'
<1>0. Typed /\ {s} \in SUBSET Tasks /\ s \in {s}
  BY DEF IInv
<1>1. UNCHANGED <<changer, host, retired>> /\ Invoked
  BY DEF TaskStep, CreateSchedule, CancelSchedule
<1>2. /\ Ending => Ending'
      /\ InService' => InService
      /\ PausedHasNoHandle'
  BY <1>1, RunningKeepsOut DEF Ending, InService, PausedHasNoHandle, IInv
<1>3. CASE CreateSchedule(s)
  <2>1. /\ Launch({s}) /\ aborted' = aborted
        /\ overtaken' = overtaken /\ stranded' = stranded
        /\ rows' = [rows EXCEPT ![s] = "pending"]
        /\ spent' = [spent EXCEPT !.creations[s] = @ + 1]
        /\ spent.creations[s] < MaxCreations
    BY <1>3 DEF CreateSchedule
  <2>2. /\ spent.creations[s] = 0
        /\ spent'.creations[s] = 1
        /\ \A t \in Tasks \ {s} : spent'.creations[t] = spent.creations[t]
    <3>1. /\ spent.creations \in [Tasks -> Nat] /\ spent.creations[s] \in Nat
          /\ spent \in [calls : Nat, changes : Nat, starts : Nat,
                        creations : [Tasks -> Nat]]
      BY <1>0 DEF Typed
    <3>2. spent'.creations = [spent.creations EXCEPT ![s] = @ + 1]
      BY <2>1, <3>1
    <3>. QED  BY <2>1, <3>1, <3>2
  <2>3. /\ handle[s] = 0 /\ s \notin stranded
        /\ \A n \in Slots : worker[<<s, n>>] = "none"
        /\ s \in overtaken => host # "recovering"
    BY <2>2 DEF SchedulesKept, UnusedIsAbsent, RecoveringRows, Alive
  <2>4. /\ rows'[s] = "pending"
        /\ \A t \in Tasks \ {s} : rows'[t] = rows[t]
    BY <1>0, <2>1 DEF Typed
  <2>5. \A w \in Workers :
          worker'[w] = worker[w]
            \/ /\ worker[w] = "none" /\ worker'[w] = "sleeping"
               /\ w[1] \in {s} /\ handle[w[1]] = 0 /\ handle'[w[1]] = w[2]
    BY <1>0, <2>1, Launched
  <2>6. /\ handle'[s] \in Slots
        /\ worker'[<<s, handle'[s]>>] = "sleeping"
        /\ worker[<<s, handle'[s]>>] = "none"
    BY <1>0, <2>1, <2>3, Launched
  <2>7. \A t \in Tasks \ {s} : handle'[t] = handle[t]
    BY <1>0, <2>1, Launched
  <2>8. ASSUME NEW t \in Tasks \ {s}
        PROVE  SameTask(t)
    <3>1. \A n \in Slots : worker'[<<t, n>>] = worker[<<t, n>>]
      BY <2>5, PairIsWorker
    <3>. QED  BY <2>1, <2>4, <2>7, <3>1 DEF SameTask
  <2>9. WorkersOf(s)'
    <3>1. ASSUME NEW n \in Slots, worker'[<<s, n>>] # "none"
          PROVE  n = handle'[s] /\ worker'[<<s, n>>] = "sleeping"
      BY <2>3, <2>5, <3>1, PairIsWorker
    <3>2. <<s, handle'[s]>> \notin aborted'
      BY <1>0, <2>1, <2>6 DEF Typed
    <3>3. \A n \in Slots : handle'[s] = n => RowOf(s, n)'
      BY <2>1, <2>3, <2>4, <2>6 DEF RowOf
    <3>. QED  BY <2>6, <3>1, <3>2, <3>3 DEF WorkersOf, Alive
  <2>. QED
    BY <1>0, <1>1, <1>2, <2>1, <2>2, <2>3, <2>6, <2>8, <2>9, OneTask
<1>4. CASE CancelSchedule(s)
  <2>1. /\ Abort({s}) /\ spent' = spent /\ rows[s] # "absent"
        /\ rows' = [rows EXCEPT ![s] = "absent"]
    BY <1>4 DEF CancelSchedule
  <2>2. rows'[s] = "absent" /\ \A t \in Tasks \ {s} : rows'[t] = rows[t]
    BY <1>0, <2>1 DEF Typed
  <2>3. /\ overtaken \subseteq overtaken' /\ overtaken' \subseteq overtaken \cup {s}
        /\ stranded' = stranded \ {s}
        /\ \A t \in Tasks \ {s} : handle'[t] = handle[t]
    BY <1>0, <2>1, Aborting
  <2>4. ASSUME NEW t \in Tasks \ {s}
        PROVE  SameTask(t)
    <3>1. ASSUME NEW n \in Slots
          PROVE  /\ worker'[<<t, n>>] = worker[<<t, n>>]
                 /\ <<t, n>> \in aborted' <=> <<t, n>> \in aborted
      <4>1. <<t, n>> \in Workers /\ <<t, n>>[1] \notin {s}
        BY PairIsWorker
      <4>. QED  BY <1>0, <2>1, <4>1, Aborting
    <3>. QED  BY <2>2, <2>3, <3>1 DEF SameTask
  <2>5. s \notin overtaken' => WorkersOf(s)'
    BY <1>0, <1>2, <2>1, <2>2, <2>3, AbortedTask DEF SchedulesKept
  <2>6. spent'.creations[s] # 0
    BY <2>1 DEF SchedulesKept, UnusedIsAbsent
  <2>. QED
    BY <1>0, <1>1, <1>2, <2>1, <2>2, <2>3, <2>4, <2>5, <2>6, OneTask
<1>. QED  BY <1>3, <1>4 DEF TaskStep

\* The one live worker of a task that is not overtaken goes on: each step that
\* a worker takes leaves the tasks of the others alone.
LEMMA WorkerSchedules ==
  ASSUME IInv, SchedulesKept, NEW w \in Workers, WorkerStep(w)
  PROVE  SchedulesKept'
<1>. DEFINE s == w[1]
            m == w[2]
<1>0. /\ Typed /\ s \in Tasks /\ m \in Slots /\ w = <<s, m>>
      /\ UNCHANGED <<changer, host, retired>>
      /\ 0 \notin Slots
  BY WorkerIsPair, OthersLeaveChanges, Numbers DEF IInv
<1>1. /\ worker[w] # "none"
      /\ overtaken' = overtaken /\ stranded' = stranded /\ spent' = spent
  BY DEF WorkerStep, Claim, Fire, FireEnds, FireDropped, FinishRow, RemoveHandle,
         history
\* The step in terms of the task: the worker, its mark, the row, the handle.
<1>2. PICK x \in WorkerStates :
        /\ worker' = [worker EXCEPT ![w] = x]
        /\ \/ /\ worker[w] = "sleeping" /\ x = "queued"
              /\ rows[s] = "pending" /\ rows' = [rows EXCEPT ![s] = "firing"]
              /\ aborted' = aborted /\ handle' = handle
           \/ /\ worker[w] = "sleeping" /\ x = "remove"
              /\ rows[s] # "pending" /\ rows' = rows
              /\ aborted' = aborted /\ handle' = handle
           \/ /\ worker[w] = "queued" /\ x \in {"firing", "finish"}
              /\ rows' = rows /\ aborted' = aborted /\ handle' = handle
           \/ /\ worker[w] = "firing" /\ x = "finish"
              /\ rows' = rows /\ aborted' = aborted \ {w} /\ handle' = handle
           \/ /\ worker[w] = "firing" /\ x = "none" /\ w \in aborted
              /\ rows' = rows /\ aborted' = aborted \ {w} /\ handle' = handle
           \/ /\ worker[w] = "finish" /\ x = "remove"
              /\ rows' = [rows EXCEPT ![s] = IF @ = "firing" THEN "absent" ELSE @]
              /\ aborted' = aborted /\ handle' = handle
           \/ /\ worker[w] = "remove" /\ x = "none"
              /\ rows' = rows /\ aborted' = aborted
              /\ handle' = [handle EXCEPT ![s] = 0]
  <2>1. CASE Claim(w)
    BY <2>1 DEF Claim, WorkerStates
  <2>2. CASE Fire(w)
    BY <2>2 DEF Fire, WorkerStates
  <2>3. ASSUME NEW status \in {"succeeded", "dead_letter"},
               NEW trips \in BOOLEAN, FireEnds(w, status, trips)
        PROVE  /\ worker' = [worker EXCEPT ![w] = "finish"]
               /\ worker[w] = "firing"
               /\ rows' = rows /\ aborted' = aborted \ {w} /\ handle' = handle
    BY <2>3 DEF FireEnds
  <2>4. CASE FireDropped(w)
    BY <2>4 DEF FireDropped, WorkerStates, persistent
  <2>5. CASE FinishRow(w)
    BY <2>5 DEF FinishRow, WorkerStates
  <2>6. CASE RemoveHandle(w)
    BY <2>6 DEF RemoveHandle, WorkerStates, persistent
  <2>. QED
    BY <2>1, <2>2, <2>3, <2>4, <2>5, <2>6 DEF WorkerStep, WorkerStates
<1>3. /\ worker'[w] = x
      /\ \A v \in Workers : v # w => worker'[v] = worker[v]
      /\ \A v \in Workers : v # w => (v \in aborted' <=> v \in aborted)
      /\ \A t \in Tasks \ {s} : rows'[t] = rows[t] /\ handle'[t] = handle[t]
  BY <1>0, <1>2 DEF Typed
<1>4. ASSUME NEW t \in Tasks \ {s}
      PROVE  SameTask(t)
  <2>1. \A n \in Slots : <<t, n>> \in Workers /\ <<t, n>> # w
    BY <1>0, PairIsWorker
  <2>. QED  BY <1>1, <1>3, <2>1 DEF SameTask
<1>5. \A n \in Slots : n # m => /\ <<s, n>> \in Workers
                                /\ worker'[<<s, n>>] = worker[<<s, n>>]
  <2>1. \A n \in Slots : n # m => <<s, n>> \in Workers /\ <<s, n>> # w
    BY <1>0, PairIsWorker
  <2>. QED  BY <1>3, <2>1
<1>6. \A v \in aborted : worker[v] = "firing"
  BY <1>0 DEF Typed
<1>7. ASSUME s \notin overtaken'
      PROVE  WorkersOf(s)'
  <2>1. WorkersOf(s)
    BY <1>0, <1>1, <1>7 DEF SchedulesKept
  <2>2. \A n \in Slots : worker[<<s, n>>] # "none" => n = m
    BY <1>0, <1>1, <2>1 DEF WorkersOf, Alive
  <2>3. \A n \in Slots : worker'[<<s, n>>] # "none" => n = m
    BY <1>5, <2>2
  <2>4. /\ handle[s] \in {0, m}
        /\ handle[s] # 0 => w \notin aborted
    <3>1. handle[s] \in Slots \cup {0}
      BY <1>0 DEF Typed
    <3>. QED  BY <1>0, <2>1, <2>2, <3>1 DEF WorkersOf, Alive
  <2>5. handle[s] # m => Ghost(s, m)
    BY <1>0, <1>1, <2>1 DEF WorkersOf, Alive
  <2>6. handle[s] = 0 => handle[s] # m
    BY <1>0
  <2>7. handle[s] = m => RowOf(s, m)
    BY <1>0, <2>1 DEF WorkersOf
  <2>9. /\ handle'[s] # 0 => x # "none" /\ w \notin aborted' /\ handle'[s] = m
        /\ x # "none" /\ handle'[s] # m => Ghost(s, m)'
        /\ handle'[s] = m => RowOf(s, m)'
    <3>1. CASE worker[w] \in {"sleeping", "queued"}
      <4>1. handle[s] = m /\ w \notin aborted
        BY <1>0, <1>6, <2>5, <3>1 DEF Ghost
      <4>2. handle' = handle /\ aborted' = aborted /\ x # "none"
        BY <1>2, <3>1
      <4>3. RowOf(s, m)'
        <5>1. CASE worker[w] = "sleeping"
          <6>1. rows[s] = "pending" /\ s \notin stranded
            BY <1>0, <2>7, <4>1, <5>1 DEF RowOf
          <6>2. x = "queued" /\ rows'[s] = "firing"
            BY <1>0, <1>2, <5>1, <6>1 DEF Typed
          <6>. QED  BY <1>0, <1>1, <1>3, <6>1, <6>2 DEF RowOf, Claimed
        <5>2. CASE worker[w] = "queued"
          <6>1. rows[s] = Claimed(s)
            BY <1>0, <2>7, <4>1, <5>2 DEF RowOf
          <6>2. x \in {"firing", "finish"} /\ rows' = rows
            BY <1>2, <5>2
          <6>. QED  BY <1>0, <1>1, <1>3, <6>1, <6>2 DEF RowOf, Claimed
        <5>. QED  BY <3>1, <5>1, <5>2
      <4>. QED  BY <1>0, <4>1, <4>2, <4>3
    <3>2. CASE worker[w] = "firing" /\ x = "finish"
      <4>1. rows' = rows /\ handle' = handle /\ aborted' = aborted \ {w}
        BY <1>2, <3>2
      <4>2. UNCHANGED <<changer, host>>
        BY <1>0
      <4>3. handle[s] # m => Ghost(s, m)'
        BY <1>0, <1>3, <2>5, <3>2, <4>1, <4>2 DEF Ghost, Ending
      <4>4. handle[s] = m => RowOf(s, m)'
        BY <1>0, <1>1, <1>3, <2>7, <3>2, <4>1 DEF RowOf, Claimed
      <4>. QED  BY <2>4, <3>2, <4>1, <4>3, <4>4
    <3>3. CASE worker[w] = "firing" /\ x = "none"
      <4>1. handle' = handle /\ handle[s] = 0
        BY <1>2, <2>4, <3>3
      <4>. QED  BY <1>0, <3>3, <4>1
    <3>4. CASE worker[w] = "finish"
      <4>1. /\ handle' = handle /\ aborted' = aborted /\ x = "remove"
            /\ w \notin aborted
        BY <1>2, <1>6, <3>4
      <4>2. rows'[s] = IF rows[s] = "firing" THEN "absent" ELSE rows[s]
        BY <1>0, <1>2, <3>4 DEF Typed
      <4>3. handle[s] # m => Ghost(s, m)'
        BY <1>0, <1>3, <2>5, <4>1, <4>2 DEF Ghost, Ending
      <4>4. handle[s] = m => RowOf(s, m)'
        BY <1>0, <1>1, <1>3, <2>7, <3>4, <4>1, <4>2 DEF RowOf, Claimed
      <4>. QED  BY <2>4, <4>1, <4>3, <4>4
    <3>5. CASE worker[w] = "remove"
      <4>1. handle'[s] = 0 /\ x = "none"
        BY <1>0, <1>2, <3>5 DEF Typed
      <4>. QED  BY <1>0, <4>1
    <3>. QED  BY <1>2, <3>1, <3>2, <3>3, <3>4, <3>5
  <2>10. handle'[s] \in {0, m}
    BY <2>9
  <2>. QED
    BY <1>0, <1>3, <1>5, <2>3, <2>9, <2>10 DEF WorkersOf, Alive
<1>8. /\ Ending => Ending'
      /\ InService' => InService
      /\ PausedHasNoHandle'
  <2>1. \A t \in Tasks : handle[t] = 0 => handle'[t] = 0
    BY <1>0, <1>2 DEF Typed
  <2>. QED
    BY <1>0, <1>1, <2>1 DEF Ending, InService, SchedulesKept, PausedHasNoHandle
<1>9. spent'.creations[s] # 0
  BY <1>0, <1>1 DEF SchedulesKept, UnusedIsAbsent, Alive
<1>10. ASSUME InService', rows'[s] = "pending"
       PROVE  \/ \E n \in Slots : worker'[<<s, n>>] = "sleeping"
              \/ s \in stranded'
  <2>1. rows[s] = "pending" /\ worker[w] # "sleeping"
    BY <1>0, <1>2, <1>10 DEF Typed
  <2>2. CASE s \in stranded
    BY <1>1, <2>2
  <2>3. CASE s \notin stranded
    <3>1. PICK n \in Slots : worker[<<s, n>>] = "sleeping"
      BY <1>0, <1>8, <1>10, <2>1, <2>3 DEF SchedulesKept, PendingIsAwaited
    <3>2. n # m
      BY <1>0, <2>1, <3>1
    <3>. QED  BY <1>5, <3>1, <3>2
  <2>. QED  BY <2>2, <2>3
<1>11. s \in overtaken' => rows'[s] = "absent" \/ host # "recovering"
  <2>. SUFFICES ASSUME s \in overtaken, host = "recovering"
                PROVE  rows'[s] = "absent"
    BY <1>1
  <2>1. rows[s] = "absent"
    BY <1>0 DEF SchedulesKept, RecoveringRows
  <2>. QED  BY <1>0, <1>2, <2>1 DEF Typed
<1>. QED
  BY <1>0, <1>1, <1>4, <1>7, <1>8, <1>9, <1>10, <1>11, OneTask

\* What a step of a change does to the rows and their workers: only an upgrade
\* pauses them, when it enters the gate, and gets them back, when it leaves it.
LEMMA ChangeOfSchedules ==
  ASSUME Typed, PhasesKept, NEW u \in Changers, ChangeStep(u)
  PROVE  /\ spent'.creations = spent.creations
         /\ retired => retired'
         /\ \/ /\ UNCHANGED <<rows, scheduler, overtaken, stranded>>
               /\ u = Upgrade => /\ ~Enter(u)
                                 /\ changer'[u] = "idle" => retired'
            \/ u = Upgrade /\ Enter(u)
            \/ /\ u = Upgrade /\ changer'[u] = "idle"
               /\ changer[u] \notin {"idle", "queued"}
               /\ RecoverSchedules /\ UNCHANGED <<overtaken, stranded>>
<1>0. /\ \A y : Goto(u, y) => changer'[u] = y
      /\ changer[Upgrade] # "validate"
  BY DEF Goto, Typed, PhasesKept
<1>1. CASE BeginChange(u)
  <2>1. spent'.creations = spent.creations
    BY <1>1 DEF BeginChange, Spend, Typed
  <2>2. changer'[u] = "queued" /\ changer[u] = "idle"
    BY <1>1 DEF BeginChange, Typed
  <2>. QED  BY <1>1, <2>1, <2>2 DEF BeginChange, Enter, persistent
<1>2. CASE Enter(u)
  BY <1>2 DEF Enter
<1>3. ASSUME NEW ok \in BOOLEAN, Validate(u, ok)
      PROVE  /\ UNCHANGED <<rows, scheduler, overtaken, stranded, spent, retired>>
             /\ u # Upgrade
  BY <1>0, <1>3 DEF Validate, persistent, history
<1>4. ASSUME NEW ok \in BOOLEAN, ShutDownGuest(u, ok)
      PROVE  /\ UNCHANGED <<overtaken, stranded, spent, retired>>
             /\ \/ /\ UNCHANGED <<rows, scheduler>>
                   /\ u = Upgrade => ~Enter(u) /\ changer'[u] # "idle"
                \/ /\ u = Upgrade /\ changer'[u] = "idle"
                   /\ changer[u] \notin {"idle", "queued"}
                   /\ RecoverSchedules
  <2>1. changer[u] = "shutdown" /\ ~Enter(u)
    BY <1>4 DEF ShutDownGuest, Enter
  <2>2. CASE ok
    BY <1>0, <1>4, <2>1, <2>2 DEF ShutDownGuest, history
  <2>3. CASE ~ok
    BY <1>0, <1>4, <2>1, <2>3 DEF ShutDownGuest, Leave, Resume, history
  <2>. QED  BY <2>2, <2>3
<1>5. ASSUME NEW ok \in BOOLEAN, InitNew(u, ok)
      PROVE  /\ UNCHANGED <<rows, scheduler, overtaken, stranded, spent, retired>>
             /\ u = Upgrade => ~Enter(u) /\ changer'[u] # "idle"
  <2>1. changer[u] = "init" /\ ~Enter(u)
    BY <1>5 DEF InitNew, Enter
  <2>2. u = Upgrade => \E y \in {"health", "rollback"} : Goto(u, y)
    BY <1>5, Numbers DEF InitNew
  <2>. QED  BY <1>0, <1>5, <2>1, <2>2 DEF InitNew
<1>6. ASSUME NEW ok \in BOOLEAN, InitOld(u, ok)
      PROVE  /\ UNCHANGED <<overtaken, stranded, spent>> /\ (retired => retired')
             /\ \/ /\ UNCHANGED <<rows, scheduler>>
                   /\ u = Upgrade => ~Enter(u) /\ retired'
                \/ /\ u = Upgrade /\ changer'[u] = "idle"
                   /\ changer[u] \notin {"idle", "queued"}
                   /\ RecoverSchedules
  <2>1. changer[u] = "rollback" /\ ~Enter(u) /\ changer'[u] = "idle"
    BY <1>0, <1>6 DEF InitOld, Enter, Leave
  <2>2. CASE ok
    BY <1>6, <2>1, <2>2 DEF InitOld, Resume
  <2>3. CASE ~ok
    BY <1>6, <2>1, <2>3 DEF InitOld
  <2>. QED  BY <2>2, <2>3
<1>. QED
  BY <1>1, <1>2, <1>3, <1>4, <1>5, <1>6 DEF ChangeStep

LEMMA ChangeSchedules ==
  ASSUME IInv, IInv', SchedulesKept, NEW u \in Changers, ChangeStep(u)
  PROVE  SchedulesKept'
<1>0. /\ Typed /\ PhasesKept /\ UpgradeIsAlone /\ GateKept /\ GateKept'
      /\ Tasks \in SUBSET Tasks
      /\ Upgrade \in Changers /\ Shutdown \in Changers /\ Upgrade # Shutdown
  BY Numbers DEF IInv
<1>1. PICK x \in Phases :
        /\ changer' = [changer EXCEPT ![u] = x]
        /\ Began(u, x) \/ Entered(u, x) \/ WentOn(u, x) \/ Ended(u, x)
  BY <1>0, ChangeMoves
<1>2. /\ changer'[u] = x /\ host' = host /\ SameRunning
      /\ \A v \in Changers : v # u => changer'[v] = changer[v]
  BY <1>0, <1>1, ChangeMoves DEF Typed
<1>3. /\ spent'.creations = spent.creations
      /\ retired => retired'
      /\ \/ /\ UNCHANGED <<rows, scheduler, overtaken, stranded>>
            /\ u = Upgrade => ~Enter(u) /\ (x = "idle" => retired')
         \/ u = Upgrade /\ Enter(u)
         \/ /\ u = Upgrade /\ x = "idle"
            /\ changer[u] \notin {"idle", "queued"}
            /\ RecoverSchedules /\ UNCHANGED <<overtaken, stranded>>
  BY <1>0, <1>2, ChangeOfSchedules
<1>4. changer'[Shutdown] = "idle" <=> changer[Shutdown] = "idle"
  <2>1. CASE u = Shutdown
    <3>1. changer[Shutdown] \in {"idle", "queued", "shutdown"}
      BY <1>0 DEF PhasesKept
    <3>2. changer[Shutdown] = "queued"
      BY <2>1, <3>1, Numbers
      DEF ChangeStep, BeginChange, Enter, Validate, ShutDownGuest, InitNew, InitOld
    <3>. QED  BY <1>1, <1>2, <2>1, <3>2 DEF Began, Entered, WentOn, Ended
  <2>. QED  BY <1>0, <1>2, <2>1
<1>5. Ending => Ending'
  BY <1>2, <1>4 DEF Ending
<1>6. CASE /\ UNCHANGED <<rows, scheduler, overtaken, stranded>>
           /\ u = Upgrade => ~Enter(u) /\ (x = "idle" => retired')
  <2>1. CASE u # Upgrade
    <3>1. changer'[Upgrade] = changer[Upgrade]
      BY <1>0, <1>2, <2>1
    <3>2. InService' => InService
      BY <1>2, <1>3, <1>4, <3>1 DEF InService
    <3>. QED  BY <1>0, <1>2, <1>3, <1>5, <1>6, <3>1, <3>2, SchedulesStay
  <2>2. CASE u = Upgrade
    <3>1. ~Entered(u, x)
      <4>1. ASSUME Entered(u, x) PROVE FALSE
        <5>1. changer[u] = "queued"
          BY <4>1 DEF Entered
        <5>. QED
          BY <1>6, <2>2, <5>1
          DEF ChangeStep, BeginChange, Validate, ShutDownGuest, InitNew, InitOld
      <4>. QED  BY <4>1
    <3>2. CASE Began(u, x)
      <4>1. changer'[Upgrade] = "queued" /\ changer[Upgrade] = "idle"
        BY <1>2, <2>2, <3>2 DEF Began
      <4>2. InService' => InService
        BY <1>2, <1>3, <1>4, <4>1 DEF InService
      <4>. QED  BY <1>0, <1>2, <1>3, <1>5, <1>6, <4>1, <4>2, SchedulesStay
    <3>3. CASE WentOn(u, x) \/ Ended(u, x)
      <4>1. /\ changer[Upgrade] \notin {"idle", "queued"}
            /\ changer'[Upgrade] \notin {"idle", "queued"} \/ x = "idle"
        BY <1>2, <2>2, <3>3 DEF WentOn, Ended
      <4>2. InService' => InService
        BY <1>6, <2>2, <4>1 DEF InService
      <4>. QED  BY <1>0, <1>2, <1>3, <1>5, <1>6, <4>1, <4>2, SchedulesStay
    <3>. QED  BY <1>1, <3>1, <3>2, <3>3
  <2>. QED  BY <2>1, <2>2
<1>7. CASE u = Upgrade /\ Enter(u)
  <2>1. Abort(Tasks) /\ rows' = Requeued
    BY <1>7 DEF Enter
  <2>2. /\ \A t \in Tasks : handle'[t] = 0
        /\ overtaken \subseteq overtaken' /\ \A t \in Tasks : t \notin stranded'
    BY <1>0, <2>1, Aborting
  <2>9. host' # "recovering"
    BY <1>0, <1>2, <1>7 DEF Enter, UpgradeIsAlone, Upgrading
  <2>3. changer'[Upgrade] \notin {"idle", "queued"}
    BY <1>0, <1>2, <1>7, Numbers DEF Enter, Goto, Typed
  \* The upgrade has all the permits: nobody is running.
  <2>4. Running = {}
    <3>1. Inside' # {}
      BY <1>0, <2>3 DEF Inside
    <3>. QED  BY <1>0, <1>2, <3>1, RunningStays DEF GateKept
  <2>5. \A t \in Tasks : rows[t] = "absent" => rows'[t] = "absent"
    BY <2>1 DEF Requeued
  <2>6. \A t \in Tasks \ overtaken' : WorkersOf(t)'
    <3>. SUFFICES ASSUME NEW t \in Tasks, t \notin overtaken'
                  PROVE  WorkersOf(t)'
      OBVIOUS
    <3>1. WorkersOf(t)
      BY <2>2 DEF SchedulesKept
    <3>. QED  BY <1>0, <1>5, <2>1, <2>4, <2>5, <3>1, AbortedTask
  <2>7. UnusedIsAbsent'
    <3>. SUFFICES ASSUME NEW t \in Tasks, spent'.creations[t] = 0
                  PROVE  /\ rows'[t] = "absent" /\ handle'[t] = 0
                         /\ t \notin stranded'
                         /\ \A n \in Slots : worker'[<<t, n>>] = "none"
      BY DEF UnusedIsAbsent, Alive
    <3>1. rows[t] = "absent" /\ \A n \in Slots : worker[<<t, n>>] = "none"
      BY <1>3 DEF SchedulesKept, UnusedIsAbsent, Alive
    <3>2. \A n \in Slots : worker'[<<t, n>>] = "none"
      BY <1>0, <2>1, <3>1, Aborting, PairIsWorker
    <3>. QED  BY <2>2, <2>5, <3>1, <3>2
  <2>. QED
    BY <2>2, <2>3, <2>6, <2>7, <2>9
    DEF SchedulesKept, PausedHasNoHandle, PendingIsAwaited, RecoveringRows, InService
<1>8. CASE /\ u = Upgrade /\ x = "idle"
           /\ changer[u] \notin {"idle", "queued"}
           /\ RecoverSchedules /\ UNCHANGED <<overtaken, stranded>>
  <2>1. \A t \in Tasks : handle[t] = 0 /\ t \notin stranded
    BY <1>8 DEF SchedulesKept, PausedHasNoHandle
  <2>2. ~Ending /\ host' # "recovering"
    BY <1>0, <1>2, <1>8 DEF Ending, UpgradeIsAlone, Upgrading
  <2>. QED  BY <1>0, <1>2, <1>3, <1>8, <2>1, <2>2, SchedulesRecovered
<1>. QED  BY <1>3, <1>6, <1>7, <1>8

LEMMA HostSchedules ==
  ASSUME IInv, SchedulesKept, HostStep
  PROVE  SchedulesKept'
<1>0. /\ Typed /\ PhasesKept /\ UpgradeIsAlone /\ DownIsQuiet
      /\ RecoveryIsAlone
      /\ Tasks \in SUBSET Tasks
      /\ Upgrade \in Changers /\ Shutdown \in Changers /\ Upgrade # Shutdown
      /\ \A v \in Changers : \A y :
           Goto(v, y) => /\ changer'[v] = y
                         /\ \A z \in Changers : z # v => changer'[z] = changer[z]
      /\ 0 \notin Slots
  BY Numbers DEF IInv, Goto, Typed
<1>1. ASSUME NEW ok \in BOOLEAN, Migrate(ok)
      PROVE  SchedulesKept'
  <2>1. /\ UNCHANGED <<rows, scheduler, overtaken, stranded, spent, host>>
        /\ \E y \in {"init", "rollback"} : Goto(Upgrade, y)
        /\ changer[Upgrade] = "migrate"
    BY <1>1 DEF Migrate, history
  <2>2. /\ changer'[Upgrade] \notin {"idle", "queued"}
        /\ changer'[Shutdown] = changer[Shutdown]
    BY <1>0, <2>1
  <2>3. (Ending => Ending') /\ ~InService'
    BY <2>1, <2>2 DEF Ending, InService
  <2>. QED  BY <1>0, <2>1, <2>2, <2>3, SchedulesStay
<1>2. ASSUME NEW ok \in BOOLEAN, CheckHealth(ok)
      PROVE  SchedulesKept'
  <2>1. /\ changer[Upgrade] = "health"
        /\ UNCHANGED <<overtaken, stranded, spent, host>>
        /\ \E y \in {"idle", "rollback"} : Goto(Upgrade, y)
    BY <1>2 DEF CheckHealth
  <2>2. /\ changer'[Shutdown] = changer[Shutdown] /\ ~Ending
        /\ host' # "recovering"
    BY <1>0, <2>1 DEF UpgradeIsAlone, Upgrading, Ending
  <2>3. CASE ok
    <3>1. RecoverSchedules /\ changer'[Upgrade] = "idle"
      BY <1>0, <1>2, <2>3 DEF CheckHealth
    <3>2. \A t \in Tasks : handle[t] = 0 /\ t \notin stranded
      BY <2>1 DEF SchedulesKept, PausedHasNoHandle
    <3>. QED  BY <1>0, <2>1, <2>2, <3>1, <3>2, SchedulesRecovered
  <2>4. CASE ~ok
    <3>1. UNCHANGED <<rows, scheduler>> /\ changer'[Upgrade] = "rollback"
      BY <1>0, <1>2, <2>4 DEF CheckHealth
    <3>2. ~InService'
      BY <3>1 DEF InService
    <3>. QED  BY <1>0, <2>1, <2>2, <3>1, <3>2, SchedulesStay
  <2>. QED  BY <2>3, <2>4
<1>3. CASE BeginShutdown
  <2>1. /\ Abort(Tasks) /\ rows' = Requeued /\ spent' = spent
        /\ Goto(Shutdown, "queued") \/ host' = "stopped"
    BY <1>3 DEF BeginShutdown
  <2>2. Ending' /\ ~InService'
    BY <1>0, <2>1 DEF Ending, InService
  <2>3. /\ \A t \in Tasks : handle'[t] = 0
        /\ overtaken \subseteq overtaken' /\ \A t \in Tasks : t \notin stranded'
        /\ \A t \in Tasks : rows[t] = "absent" => rows'[t] = "absent"
    BY <1>0, <2>1, Aborting DEF Requeued
  <2>6. changer'[Upgrade] \in {"idle", "queued"} /\ host' # "recovering"
    BY <1>0, <1>3 DEF BeginShutdown, Upgrading
  <2>4. \A t \in Tasks \ overtaken' : WorkersOf(t)'
    <3>. SUFFICES ASSUME NEW t \in Tasks, t \notin overtaken'
                  PROVE  WorkersOf(t)'
      OBVIOUS
    <3>1. WorkersOf(t)
      BY <2>3 DEF SchedulesKept
    <3>. QED  BY <1>0, <2>1, <2>2, <2>3, <3>1, AbortedTask
  <2>5. UnusedIsAbsent'
    <3>. SUFFICES ASSUME NEW t \in Tasks, spent'.creations[t] = 0
                  PROVE  /\ rows'[t] = "absent" /\ handle'[t] = 0
                         /\ t \notin stranded'
                         /\ \A n \in Slots : worker'[<<t, n>>] = "none"
      BY DEF UnusedIsAbsent, Alive
    <3>1. rows[t] = "absent" /\ \A n \in Slots : worker[<<t, n>>] = "none"
      BY <2>1 DEF SchedulesKept, UnusedIsAbsent, Alive
    <3>2. \A n \in Slots : worker'[<<t, n>>] = "none"
      BY <1>0, <2>1, <3>1, Aborting, PairIsWorker
    <3>. QED  BY <2>3, <3>1, <3>2
  <2>. QED
    BY <2>2, <2>3, <2>4, <2>5, <2>6
    DEF SchedulesKept, PausedHasNoHandle, PendingIsAwaited, RecoveringRows
<1>4. ASSUME NEW ok \in BOOLEAN, EndShutdown(ok)
      PROVE  SchedulesKept'
  <2>1. /\ UNCHANGED <<rows, scheduler, overtaken, stranded, spent>>
        /\ host' = "stopped"
        /\ Goto(Shutdown, "idle")
    BY <1>4 DEF EndShutdown, Leave, persistent
  <2>2. changer'[Upgrade] = changer[Upgrade] /\ Ending' /\ ~InService'
    BY <1>0, <2>1 DEF Ending, InService
  <2>. QED  BY <1>0, <2>1, <2>2, SchedulesStay
<1>5. CASE Crash
  <2>1. /\ \A t \in Tasks : handle'[t] = 0
        /\ \A w \in Workers : worker'[w] = "none"
        /\ rows' = rows /\ spent' = spent /\ host' = "down" /\ stranded' = {}
    BY <1>5 DEF Crash, persistent
  <2>2. \A t \in Tasks, n \in Slots : worker'[<<t, n>>] = "none"
    BY <2>1, PairIsWorker
  <2>. QED
    BY <2>1, <2>2, Numbers
    DEF SchedulesKept, UnusedIsAbsent, PausedHasNoHandle, PendingIsAwaited,
        RecoveringRows, InService, WorkersOf, Alive
<1>6. CASE StartStep
  <2>1. /\ UNCHANGED <<changer, aborted, overtaken>>
        /\ changer[Upgrade] = "idle" /\ changer[Shutdown] = "idle"
        /\ host \in {"down", "recovering"} /\ host' \in {"recovering", "up"}
    BY <1>0, <1>6, Starting, StartingAlone
  <2>2. ~Ending
    BY <2>1 DEF Ending
  <2>3. CASE Register
    <3>1. /\ UNCHANGED <<rows, scheduler, stranded>> /\ host = "down"
          /\ Spend("starts", MaxStarts)
          /\ retired' \/ host' # "up"
      BY <2>3 DEF Register
    <3>2. spent'.creations = spent.creations /\ ~InService'
      BY <1>0, <3>1 DEF Spend, InService, Typed
    <3>3. overtaken = {} /\ stranded = {}
      BY <1>0, <3>1 DEF DownIsQuiet
    <3>. QED  BY <1>0, <2>1, <2>2, <3>1, <3>2, <3>3, SchedulesStay
  <2>4. CASE Recover
    <3>1. UNCHANGED <<host, rows, scheduler, stranded, spent>>
      BY <2>4, <1>6, Starting DEF Recover, RecoverDelivery, DeliveryRecovered, history
    <3>2. ~InService'
      BY <2>1, <3>1 DEF InService
    <3>. QED  BY <1>0, <2>1, <2>2, <3>1, <3>2, SchedulesStay
  <2>5. CASE RecoveryEnds
    <3>1. /\ RecoverSchedules /\ host = "recovering" /\ host' = "up"
          /\ stranded' = {t \in Tasks : rows[t] = "firing" /\ handle[t] # 0}
          /\ spent' = spent
      BY <2>5 DEF RecoveryEnds
    <3>2. /\ \A t \in Tasks : t \notin stranded
          /\ \A t \in Tasks : t \in overtaken => rows[t] = "absent"
      BY <3>1 DEF SchedulesKept, RecoveringRows
    <3>. QED  BY <1>0, <2>1, <2>2, <3>1, <3>2, SchedulesRecovered
  <2>. QED  BY <1>6, <2>3, <2>4, <2>5 DEF StartStep
<1>. QED
  BY <1>1, <1>2, <1>3, <1>4, <1>5, <1>6 DEF HostStep, ChangeCode

LEMMA StepSchedules ==
  ASSUME IInv, IInv', SchedulesKept, MaxCreations = 1, [Next]_vars
  PROVE  SchedulesKept'
<1>0. Typed
  BY DEF IInv
<1>1. CASE QuietStep
  <2>1. UNCHANGED <<rows, scheduler, overtaken, stranded, spent, changer, host,
                    retired>>
    BY <1>1 DEF QuietStep, persistent, history
  <2>2. (Ending => Ending') /\ (InService' => InService)
    BY <2>1 DEF Ending, InService
  <2>. QED  BY <1>0, <2>1, <2>2, SchedulesStay
<1>2. ASSUME NEW c \in Callers, CallStep(c)
      PROVE  SchedulesKept'
  <2>1. UNCHANGED <<rows, scheduler, overtaken, stranded>>
    BY <1>2 DEF CallStep, Admit, StartCall, EndCall, DropCall, persistent, history
  <2>2. spent'.creations = spent.creations
    <3>1. CASE Admit(c)
      BY <1>0, <3>1 DEF Admit, Spend, Typed
    <3>2. CASE ~Admit(c)
      BY <1>2, <3>2 DEF CallStep, StartCall, EndCall, DropCall, history
    <3>. QED  BY <3>1, <3>2
  <2>3. UNCHANGED <<changer, host, retired>>
    BY <1>2, OthersLeaveChanges
  <2>4. (Ending => Ending') /\ (InService' => InService)
    BY <2>3 DEF Ending, InService
  <2>. QED  BY <1>0, <2>1, <2>2, <2>3, <2>4, SchedulesStay
<1>. QED
  BY <1>1, <1>2, TaskSchedules, WorkerSchedules, ChangeSchedules, HostSchedules,
     Grouped

\* When a plugin uses a task_id once, the rows of the schedules and their workers
\* agree, through pauses, failed upgrades, cancellations, shutdown, crashes and a
\* recovery during which schedules fire: in service each pending row has a worker
\* that waits for it, or is stranded, and what fires has claimed its row and is
\* alone, unless it is being aborted, or the task was overtaken
\* (launch_schedule(), fire_schedule(), pause_plugin_schedules(),
\* recover_plugin_schedules()).  (A worker that is aborted while it fires may
\* still reach its end after the task_id is used again.)
THEOREM RowsAgree ==
  ASSUME MaxCreations = 1
  PROVE  Spec => []RowsAndWorkersAgree
<1>1. Init => IInv /\ SchedulesKept
  <2>1. ASSUME Init
        PROVE  /\ \A t \in Tasks : rows[t] = "absent" /\ handle[t] = 0
               /\ \A w \in Workers : worker[w] = "none"
               /\ changer[Upgrade] = "idle" /\ host = "down" /\ stranded = {}
    BY <2>1, Numbers DEF Init, Quiet
  <2>2. ASSUME Init
        PROVE  \A t \in Tasks, n \in Slots : worker[<<t, n>>] = "none"
    BY <2>1, <2>2, PairIsWorker
  <2>. QED
    BY <2>1, <2>2, Inductive, Numbers
    DEF SchedulesKept, UnusedIsAbsent, PausedHasNoHandle, PendingIsAwaited,
        RecoveringRows, InService, WorkersOf, Alive
<1>2. IInv /\ SchedulesKept /\ [Next]_vars => (IInv /\ SchedulesKept)'
  BY StepSchedules, Inductive
<1>3. IInv /\ SchedulesKept => RowsAndWorkersAgree
  <2>. SUFFICES ASSUME IInv, SchedulesKept PROVE RowsAndWorkersAgree
    OBVIOUS
  <2>1. ASSUME NEW w \in Workers, worker[w] = "firing",
               w \notin aborted, w[1] \notin overtaken
        PROVE  /\ rows[w[1]] = Claimed(w[1])
               /\ \A n \in Slots \ {w[2]} :
                    worker[<<w[1], n>>] \notin {"queued", "firing"}
    <3>1. w[1] \in Tasks /\ w[2] \in Slots /\ w = <<w[1], w[2]>>
      BY WorkerIsPair
    <3>2. WorkersOf(w[1])
      BY <2>1, <3>1 DEF SchedulesKept
    <3>3. handle[w[1]] = w[2]
      BY <2>1, <3>1, <3>2 DEF WorkersOf, Alive, Ghost
    <3>4. RowOf(w[1], w[2])
      BY <3>1, <3>2, <3>3 DEF WorkersOf
    <3>. QED  BY <2>1, <3>1, <3>2, <3>4 DEF WorkersOf, RowOf, Alive
  <2>. QED
    BY <2>1 DEF RowsAndWorkersAgree, SchedulesKept, PendingIsAwaited, Claimed
<1>. QED  BY <1>1, <1>2, <1>3, PTL DEF Spec
=============================================================================

------------------------ MODULE PluginDelivery_proofs ------------------------
(***************************************************************************)
(* Proofs about the delivery of events to a plugin, for any events,        *)
(* workers, commands and outputs, and any number of crashes, dropped       *)
(* handlers, lost results and recoveries.                                  *)
(***************************************************************************)
EXTENDS PluginDelivery, FiniteSetTheorems, SequenceTheorems, TLAPS

----------------------------------------------------------------------------
(* The inductive invariant *)

Steps == {"idle", "check", "begin", "invoke", "execute", "executing", "succeed",
          "backoff"}
Queued == [event : Deliverable, depth : Nat]
Work == [pc : Steps, event : Deliverable \cup {0}, depth : Nat, id : Nat,
         snapshot : Nat, todo : Seq(Commands), results : Seq(Issued),
         queue : Seq(Queued), first : BOOLEAN]
Row == [status : {"absent", "pending", "running", "committed", "succeeded",
                  "dead_letter"},
        attempt : Nat, id : Nat, due : BOOLEAN, generation : Nat, depth : Nat]
LedgerStates == {"absent", "pending", "succeeded", "failed", "unknown"}
Recoveries == [backlog : SUBSET (Deliverable \X Nat), created : BOOLEAN,
               cut : SUBSET Deliverable]
HostStates == {"down", "commands", "reports", "finalize", "requeue", "deliver", "up"}
Counts == [dispatches : Nat, crashes : Nat, drops : Nat, losses : Nat,
           reopenings : Nat]

Typed ==
  /\ deliveries \in [Deliverable -> Row]
  /\ ledger \in [Issued -> LedgerStates]
  /\ health \in [exists : BOOLEAN, failures : Nat, open : BOOLEAN, generation : Nat]
  /\ revision \in Nat
  /\ host \in HostStates
  /\ plugin \in {"Draining", "Ready", "Disabled"}
  /\ work \in [Workers -> Work]
  /\ recovery \in Recoveries
  /\ drawn \in 0..MaxInvocations
  /\ performed \in [Issued -> Nat]
  /\ failed_at \in 0..drawn
  /\ spent \in Counts

\* An invocation identifier is drawn for one delivery, by one worker.
IdsAreUnique ==
  /\ \A e \in Deliverable :
       /\ deliveries[e].id <= drawn
       /\ deliveries[e].status \in {"running", "committed", "succeeded"}
            => deliveries[e].id # 0
  /\ \A d, e \in Deliverable :
       deliveries[d].id = deliveries[e].id /\ deliveries[d].id # 0 => d = e
  /\ \A w \in Workers : work[w].id <= drawn
  /\ \A v, w \in Workers : work[v].id = work[w].id /\ work[v].id # 0 => v = w

\* What is in the ledger belongs to an invocation that was committed; only
\* what is there was performed, or is reported; a key is there once.
LedgerKept ==
  /\ \A i \in Issued :
       /\ ledger[i] # "absent" => \E e \in Deliverable :
            /\ deliveries[e].id = i[1]
            /\ deliveries[e].status \in {"committed", "succeeded"}
       /\ performed[i] # 0 => ledger[i] # "absent"
       /\ deliveries[i].status # "absent" => ledger[i] # "absent"
  /\ \A i, j \in Issued :
       /\ ledger[i] # "absent" /\ ledger[j] # "absent"
       /\ Key[i[2]] = Key[j[2]] /\ Key[i[2]] # NoKey
       => i = j

\* The commands that are still to be executed, and the results.
Todo(w) == {work[w].todo[n] : n \in 1..Len(work[w].todo)}
Done(w) == {work[w].results[n] : n \in 1..Len(work[w].results)}

\* A worker is at an event that exists, unless it is a new one; so do those in
\* its queue.
EventsExist(w) ==
  /\ At(w, "idle") => work[w] = Idle
  /\ ~At(w, "idle") =>
       /\ work[w].event \in Deliverable
       /\ deliveries[work[w].event].status = "absent"
            => work[w].event \in Events /\ work[w].depth = 0
  /\ \A n \in 1..Len(work[w].queue) :
       deliveries[work[w].queue[n].event].status # "absent"

\* A worker that invokes the plugin, or executes its commands, has the delivery.
Acting(w) == work[w].pc \in {"invoke", "execute", "executing", "succeed"}

HasDelivery(w) ==
  Acting(w) =>
    /\ work[w].id # 0
    /\ deliveries[work[w].event].id = work[w].id
    /\ deliveries[work[w].event].status =
         IF At(w, "invoke") THEN "running" ELSE "committed"

\* The commands of a worker and what the ledger has of its invocation.
CommandsKept(w) ==
  /\ work[w].pc \notin {"execute", "executing", "succeed"} => work[w].results = <<>>
  /\ \A i \in Done(w) : i[1] = work[w].id /\ ledger[i] # "absent"
  /\ At(w, "executing") => work[w].todo # <<>>
  /\ work[w].pc \in {"execute", "executing"} =>
       /\ \A m, n \in 1..Len(work[w].todo) :
            work[w].todo[m] = work[w].todo[n] => m = n
       /\ \A n \in 1..Len(work[w].todo) :
            /\ ledger[<<work[w].id, work[w].todo[n]>>] # "absent"
            /\ n > 1 \/ At(w, "execute")
                 => performed[<<work[w].id, work[w].todo[n]>>] = 0
       /\ \A c \in Commands :
            /\ deliveries[<<work[w].id, c>>].status = "absent"
            /\ ledger[<<work[w].id, c>>] # "absent" =>
                 IF ledger[<<work[w].id, c>>] = "pending"
                   THEN c \in Todo(w) ELSE <<work[w].id, c>> \in Done(w)
  /\ At(w, "succeed") =>
       /\ \A c \in Commands : ledger[<<work[w].id, c>>] # "absent" =>
            /\ ledger[<<work[w].id, c>>] # "pending"
            /\ ReportsResults => deliveries[<<work[w].id, c>>].status # "absent"
       /\ ReportsResults => \A i \in Done(w) : deliveries[i].status # "absent"

WorkSound(w) == EventsExist(w) /\ HasDelivery(w) /\ CommandsKept(w)

\* The steps of a registration, which no worker disturbs.
RegistrationKept ==
  /\ host \notin {"deliver", "up"} => \A w \in Workers : work[w] = Idle
  /\ host \in {"reports", "finalize"} => \A i \in Issued : ledger[i] # "pending"
  /\ host = "finalize" /\ ReportsResults =>
       \A i \in Issued : i \in Results(ledger) => deliveries[i].status # "absent"
  /\ host = "requeue" => \A e \in Deliverable : deliveries[e].status # "committed"
  /\ \A b \in recovery.backlog : deliveries[b[1]].status # "absent"

IInv ==
  /\ Typed
  /\ IdsAreUnique
  /\ LedgerKept
  /\ \A w \in Workers : WorkSound(w)
  /\ RegistrationKept
  /\ ResultsBeforeSuccess

----------------------------------------------------------------------------
(* A row of the present generation began after the last failure. *)

GenerationsKept ==
  /\ ~health.exists => health.generation = 0 /\ health.failures = 0 /\ failed_at = 0
  /\ \A e \in Deliverable :
       /\ deliveries[e].generation <= health.generation
       /\ deliveries[e].status \in {"running", "committed"}
          /\ deliveries[e].generation = health.generation
            => deliveries[e].id > failed_at

----------------------------------------------------------------------------
(* While a registration recovers deliveries, the tasks of schedules may fire *)

Waiting(row) == row.status = "pending" /\ ~row.due

\* The loop of the registration comes to a delivery, a worker is at it, or was.
Sought(e) ==
  \/ \E b \in recovery.backlog : b[1] = e
  \/ e \in recovery.cut
  \/ \E w \in Workers : Attends(w, e)

\* The worker that has begun a delivery is still at it, or was aborted.
Owned(e) ==
  \/ e \in recovery.cut
  \/ \E w \in Workers : Acting(w) /\ work[w].event = e

\* Who waits until a delivery is due: the loop, which has read it as it is now,
\* or the worker whose attempt has failed, unless it was aborted.
Awaited(e) ==
  \/ \E b \in recovery.backlog : b[1] = e /\ b[2] = deliveries[e].attempt
  \/ e \in recovery.cut
  \/ \E w \in Workers : /\ At(w, "backoff")
                         /\ work[w].event = e
                         /\ work[w].id = deliveries[e].id

Accounted(e) ==
  /\ deliveries[e].status \in {"pending", "running", "committed"} => Sought(e)
  /\ deliveries[e].status \in {"running", "committed"} => Owned(e)
  /\ Waiting(deliveries[e]) => Awaited(e)

\* Somebody gets to whatever is open; that a worker may pass over what it finds
\* begun, or not due, needs the rest.
RecoveryKept ==
  host = "deliver" /\ plugin # "Disabled" => \A e \in Deliverable : Accounted(e)
----------------------------------------------------------------------------
(* Types of what the definitions compute *)

LEMMA Constants ==
  /\ MaxAttempts \in Nat /\ CircuitFailures \in Nat /\ CircuitFailures # 0
  /\ MaxChain \in Nat /\ MaxChain # 0 /\ MaxInvocations \in Nat
  /\ Issued = (1..MaxInvocations) \X Commands
  /\ Issued \subseteq Deliverable /\ Events \subseteq Deliverable
  /\ \A e \in Events : e \notin Issued
  /\ \A o \in Outputs : o.commands \in Seq(Commands)
  /\ Loop \in Workers /\ Schedules \subseteq Events
BY DeliveryAssumption DEF Issued, Deliverable, Invocations

LEMMA NoRecoveryTyped == NoRecovery \in Recoveries
BY DEF NoRecovery, Recoveries

LEMMA IdleIsWork == Idle \in Work
<1>1. /\ <<>> \in Seq(Commands) /\ <<>> \in Seq(Issued) /\ <<>> \in Seq(Queued)
  BY EmptySeq
<1>. QED  BY <1>1 DEF Idle, Work, Steps

\* Only worker w has done something: it is now as r says.
Became(w, r) ==
  /\ r \in Work
  /\ work' \in [Workers -> Work]
  /\ work'[w] = r
  /\ \A v \in Workers : v # w => work'[v] = work[v]

LEMMA Becomes ==
  ASSUME Typed, NEW w \in Workers, NEW r \in Work, work' = [work EXCEPT ![w] = r]
  PROVE  Became(w, r)
BY DEF Typed, Became

LEMMA Goes ==
  ASSUME Typed, NEW w \in Workers, NEW pc \in Steps, Goto(w, pc)
  PROVE  Became(w, [work[w] EXCEPT !.pc = pc])
<1>1. work[w] \in Work
  BY DEF Typed
<1>2. [work[w] EXCEPT !.pc = pc] \in Work
  BY <1>1 DEF Work
<1>3. work' = [work EXCEPT ![w] = [work[w] EXCEPT !.pc = pc]]
  BY DEF Goto
<1>. QED  BY <1>2, <1>3, Becomes

\* A worker that is done with its event goes on with the queue q, or rests.
Rests(r, q, state) ==
  \/ r = Idle /\ (q = <<>> \/ state = "Disabled")
  \/ /\ r.pc = "check" /\ r.id = 0 /\ r.todo = <<>> /\ r.results = <<>>
     /\ q # <<>>
     /\ r.event = q[1].event /\ r.event \in Deliverable
     /\ \A n \in 1..Len(r.queue) : n + 1 \in 1..Len(q) /\ r.queue[n] = q[n + 1]
     /\ Len(q) = Len(r.queue) + 1

LEMMA AdvancedRests ==
  ASSUME Typed, NEW w \in Workers, NEW reports \in Seq(Queued), NEW state,
         Advance(w, reports, state)
  PROVE  /\ Became(w, Advanced(w, reports, state))
         /\ Rests(work'[w], work[w].queue \o reports, state)
<1>. DEFINE q == work[w].queue \o reports
            r == Advanced(w, reports, state)
<1>1. work[w].queue \in Seq(Queued)
  BY DEF Typed, Work
<1>2. q \in Seq(Queued)
  BY <1>1, ConcatProperties
<1>3. r \in Work /\ Rests(r, q, state)
  <2>1. CASE q = <<>> \/ (~work[w].first /\ state = "Disabled")
    BY <2>1, IdleIsWork DEF Advanced, Rests
  <2>2. CASE ~(q = <<>> \/ (~work[w].first /\ state = "Disabled"))
    <3>1. /\ q # <<>> /\ Len(q) \in Nat \ {0} /\ Head(q) = q[1] /\ Head(q) \in Queued
          /\ Tail(q) \in Seq(Queued) /\ Len(Tail(q)) = Len(q) - 1
          /\ \A i \in 1..Len(Tail(q)) : Tail(q)[i] = q[i + 1]
      <4>. HIDE DEF q
      <4>1. q # <<>>
        BY <2>2
      <4>2. Len(q) \in Nat \ {0} /\ Head(q) = q[1]
        BY <1>2, <4>1, EmptySeq
      <4>. QED  BY <1>2, <4>1, <4>2, HeadTailProperties
    <3>2. r = [pc |-> "check", event |-> Head(q).event, depth |-> Head(q).depth,
               id |-> 0, snapshot |-> 0, todo |-> <<>>, results |-> <<>>,
               queue |-> Tail(q), first |-> FALSE]
      BY <2>2 DEF Advanced, Idle
    <3>3. Head(q).event \in Deliverable /\ Head(q).depth \in Nat
      BY <3>1 DEF Queued
    <3>4. <<>> \in Seq(Commands) /\ <<>> \in Seq(Issued)
      BY EmptySeq
    <3>5. r \in Work
      BY <3>1, <3>2, <3>3, <3>4 DEF Work, Steps
    <3>6. \A n \in 1..Len(Tail(q)) : n + 1 \in 1..Len(q)
      BY <3>1
    <3>7. /\ r.pc = "check" /\ r.id = 0 /\ r.todo = <<>> /\ r.results = <<>>
          /\ r.event = q[1].event /\ r.queue = Tail(q)
      BY <3>1, <3>2
    <3>. HIDE DEF q, r
    <3>. QED  BY <3>1, <3>3, <3>5, <3>6, <3>7 DEF Rests
  <2>. QED  BY <2>1, <2>2
<1>4. Became(w, r)
  BY <1>3, Becomes DEF Advance
<1>. QED  BY <1>3, <1>4 DEF Became

LEMMA QueueMember ==
  ASSUME NEW q \in Seq(Queued), NEW k \in 1..Len(q)
  PROVE  q[k].event \in Deliverable /\ q[k].depth \in Nat
<1>1. q[k] \in Queued
  BY ElementOfSeq
<1>. QED  BY <1>1 DEF Queued

\* The members of the queue that a worker goes on with.
LEMMA QueueOrReports ==
  ASSUME Typed, NEW w \in Workers, NEW reports \in Seq(Queued),
         NEW m \in 1..Len(work[w].queue \o reports)
  PROVE  \/ \E k \in 1..Len(work[w].queue) : (work[w].queue \o reports)[m] = work[w].queue[k]
         \/ \E k \in 1..Len(reports) : (work[w].queue \o reports)[m] = reports[k]
<1>. DEFINE q == work[w].queue
<1>1. q \in Seq(Queued)
  BY DEF Typed, Work
<1>2. /\ Len(q) \in Nat /\ Len(reports) \in Nat
      /\ Len(q \o reports) = Len(q) + Len(reports)
      /\ (q \o reports)[m] = IF m <= Len(q) THEN q[m] ELSE reports[m - Len(q)]
      /\ m \in 1..(Len(q) + Len(reports))
  <2>1. m \in 1..(Len(q) + Len(reports)) /\ Len(q) \in Nat /\ Len(reports) \in Nat
    BY <1>1, ConcatProperties, LenProperties
  <2>. QED  BY <1>1, <2>1, ConcatProperties
<1>3. CASE m <= Len(q)
  BY <1>2, <1>3
<1>4. CASE m > Len(q)
  <2>1. m - Len(q) \in 1..Len(reports)
    BY <1>2, <1>4
  <2>. QED  BY <1>2, <1>4, <2>1
<1>. QED  BY <1>2, <1>3, <1>4

\* A worker that rests, or is about to begin an event that exists, is sound.
LEMMA RestsSound ==
  ASSUME Typed', NEW w \in Workers, NEW q \in Seq(Queued), NEW state,
         Rests(work'[w], q, state),
         \A m \in 1..Len(q) : deliveries'[q[m].event].status # "absent"
  PROVE  WorkSound(w)'
<1>1. CASE work'[w] = Idle
  BY <1>1 DEF WorkSound, EventsExist, HasDelivery, CommandsKept, At, Idle, Acting, Done
<1>2. CASE work'[w] # Idle
  <2>1. /\ work'[w].pc = "check" /\ work'[w].results = <<>>
        /\ q # <<>> /\ Len(q) \in Nat \ {0}
        /\ work'[w].event = q[1].event /\ work'[w].event \in Deliverable
        /\ \A n \in 1..Len(work'[w].queue) : n + 1 \in 1..Len(q) /\ work'[w].queue[n] = q[n + 1]
    BY <1>2, EmptySeq DEF Rests
  <2>2. 1 \in 1..Len(q)
    BY <2>1
  <2>3. EventsExist(w)'
    BY <2>1, <2>2 DEF EventsExist, At
  <2>4. HasDelivery(w)' /\ CommandsKept(w)'
    BY <2>1 DEF HasDelivery, CommandsKept, At, Acting, Done
  <2>. QED  BY <2>3, <2>4 DEF WorkSound
<1>. QED  BY <1>1, <1>2
----------------------------------------------------------------------------
(* Steps and what they leave alone *)

\* Most steps draw no identifier and commit no output; a row they create
\* reports a command of the ledger.
Tame ==
  /\ drawn' = drawn
  /\ \A w \in Workers : work'[w].id \in {0, work[w].id}
  /\ \A e \in Deliverable :
       /\ \/ deliveries'[e].id = deliveries[e].id
          \/ deliveries'[e].id = 0 /\ deliveries'[e].status = "pending"
       /\ deliveries'[e].status = "absent" => deliveries[e].status = "absent"
       /\ deliveries[e].status = "absent" /\ deliveries'[e].status # "absent"
            => e \in Issued /\ ledger[e] # "absent"
       /\ deliveries'[e].status \in {"running", "committed"}
            => deliveries[e].status = deliveries'[e].status
       /\ deliveries'[e].status = "succeeded"
            => deliveries[e].status \in {"committed", "succeeded"}
       /\ deliveries[e].status \in {"committed", "succeeded"}
            => deliveries'[e].status \in {"committed", "succeeded"}
  /\ \A i \in Issued :
       /\ ledger'[i] = "absent" <=> ledger[i] = "absent"
       /\ ledger'[i] = "pending" => ledger[i] = "pending"
       /\ performed'[i] # 0 => performed[i] # 0 \/ ledger[i] # "absent"

LEMMA TameKeepsIds ==
  ASSUME Typed, Typed', IdsAreUnique, Tame
  PROVE  IdsAreUnique'
<1>1. ASSUME NEW e \in Deliverable
      PROVE  /\ deliveries'[e].id <= drawn'
             /\ deliveries'[e].status \in {"running", "committed", "succeeded"}
                  => deliveries'[e].id # 0
  <2>1. drawn' = drawn /\ drawn \in Nat
    BY DEF Tame, Typed
  <2>. QED  BY <2>1 DEF Tame, IdsAreUnique
<1>2. ASSUME NEW d \in Deliverable, NEW e \in Deliverable,
             deliveries'[d].id = deliveries'[e].id, deliveries'[d].id # 0
      PROVE  d = e
  BY <1>2 DEF Tame, IdsAreUnique
<1>3. ASSUME NEW w \in Workers
      PROVE  work'[w].id <= drawn'
  <2>1. drawn' = drawn /\ drawn \in Nat /\ work[w].id <= drawn
    BY DEF Tame, Typed, IdsAreUnique
  <2>. QED  BY <2>1 DEF Tame
<1>4. ASSUME NEW v \in Workers, NEW w \in Workers,
             work'[v].id = work'[w].id, work'[v].id # 0
      PROVE  v = w
  BY <1>4 DEF Tame, IdsAreUnique
<1>. QED  BY <1>1, <1>2, <1>3, <1>4 DEF IdsAreUnique

LEMMA TameKeepsLedger ==
  ASSUME Typed, Typed', IdsAreUnique, LedgerKept, Tame
  PROVE  LedgerKept'
<1>1. ASSUME NEW i \in Issued, ledger'[i] # "absent"
      PROVE  \E e \in Deliverable : /\ deliveries'[e].id = i[1]
                                    /\ deliveries'[e].status \in {"committed", "succeeded"}
  <2>1. PICK e \in Deliverable : /\ deliveries[e].id = i[1]
                                 /\ deliveries[e].status \in {"committed", "succeeded"}
    BY <1>1 DEF Tame, LedgerKept
  <2>. QED  BY <2>1 DEF Tame
<1>2. ASSUME NEW i \in Issued
      PROVE  /\ performed'[i] # 0 => ledger'[i] # "absent"
             /\ deliveries'[i].status # "absent" => ledger'[i] # "absent"
  BY Constants DEF Tame, LedgerKept
<1>3. ASSUME NEW i \in Issued, NEW j \in Issued, ledger'[i] # "absent", ledger'[j] # "absent",
             Key[i[2]] = Key[j[2]], Key[i[2]] # NoKey
      PROVE  i = j
  BY <1>3 DEF Tame, LedgerKept
<1>. QED  BY <1>1, <1>2, <1>3 DEF LedgerKept

\* Every command of the invocation has a result, and its report.
Complete(e) ==
  \A c \in Commands :
    LET i == <<deliveries[e].id, c>> IN
    i \in Issued /\ ledger[i] # "absent"
      => /\ ledger[i] # "pending"
         /\ ReportsResults => deliveries[i].status # "absent"

LEMMA TameKeepsResults ==
  ASSUME Typed, Typed', ResultsBeforeSuccess, Tame,
         \A e \in Deliverable :
           deliveries'[e].status = "succeeded" /\ deliveries[e].status # "succeeded"
             => Complete(e)'
  PROVE  ResultsBeforeSuccess'
<1>1. ASSUME NEW e \in Deliverable, NEW c \in Commands, deliveries'[e].status = "succeeded",
             <<deliveries'[e].id, c>> \in Issued, ledger'[<<deliveries'[e].id, c>>] # "absent"
      PROVE  /\ ledger'[<<deliveries'[e].id, c>>] # "pending"
             /\ ReportsResults => deliveries'[<<deliveries'[e].id, c>>].status # "absent"
  <2>1. CASE deliveries[e].status # "succeeded"
    BY <1>1, <2>1 DEF Complete
  <2>2. CASE deliveries[e].status = "succeeded"
    <3>1. deliveries'[e].id = deliveries[e].id
      BY <1>1 DEF Tame
    <3>2. /\ ledger[<<deliveries'[e].id, c>>] # "absent"
          /\ ledger'[<<deliveries'[e].id, c>>] = "pending"
               => ledger[<<deliveries'[e].id, c>>] = "pending"
          /\ <<deliveries'[e].id, c>> \in Deliverable
      BY <1>1, Constants DEF Tame
    <3>3. /\ ledger[<<deliveries'[e].id, c>>] # "pending"
          /\ ReportsResults => deliveries[<<deliveries'[e].id, c>>].status # "absent"
      BY <1>1, <2>2, <3>1, <3>2 DEF ResultsBeforeSuccess
    <3>. QED  BY <3>2, <3>3 DEF Tame
  <2>. QED  BY <2>1, <2>2
<1>. QED  BY <1>1 DEF ResultsBeforeSuccess

\* No delivery disappears.
Monotone ==
  \A e \in Deliverable : deliveries'[e].status = "absent" => deliveries[e].status = "absent"

\* Worker v, and what it works on, is left alone.
Apart(v) ==
  /\ work'[v] = work[v]
  /\ Acting(v) =>
       /\ deliveries'[work[v].event].status = deliveries[work[v].event].status
       /\ deliveries'[work[v].event].id = deliveries[work[v].event].id
       /\ \A c \in Commands :
            /\ ledger'[<<work[v].id, c>>] = ledger[<<work[v].id, c>>]
            /\ performed'[<<work[v].id, c>>] = performed[<<work[v].id, c>>]
            /\ deliveries[<<work[v].id, c>>].status = "absent"
                 => deliveries'[<<work[v].id, c>>].status = "absent"
                    \/ At(v, "succeed")

\* The invocation of a worker that acts, and what may be in the ledger for it.
LEMMA ActingHasId ==
  ASSUME Typed, IdsAreUnique, NEW w \in Workers, Acting(w), WorkSound(w)
  PROVE  /\ work[w].id \in 1..MaxInvocations
         /\ work[w].event \in Deliverable
         /\ deliveries[work[w].event].id = work[w].id
         /\ deliveries[work[w].event].status =
              IF At(w, "invoke") THEN "running" ELSE "committed"
         /\ \A c \in Commands : <<work[w].id, c>> \in Issued
<1>1. work[w].id # 0 /\ work[w].id \in Nat /\ work[w].id <= drawn /\ drawn \in 0..MaxInvocations
  BY DEF Typed, Work, IdsAreUnique, WorkSound, HasDelivery
<1>2. work[w].id \in 1..MaxInvocations
  BY <1>1, Constants
<1>3. /\ work[w].event \in Deliverable
      /\ deliveries[work[w].event].id = work[w].id
      /\ deliveries[work[w].event].status =
           IF At(w, "invoke") THEN "running" ELSE "committed"
  BY DEF WorkSound, HasDelivery, EventsExist, Acting, At
<1>. QED  BY <1>2, <1>3, Constants

LEMMA DoneIssued ==
  ASSUME Typed, NEW w \in Workers
  PROVE  \A i \in Done(w) : i \in Issued
<1>1. work[w].results \in Seq(Issued)
  BY DEF Typed, Work
<1>. QED  BY <1>1, ElementOfSeq DEF Done

LEMMA ApartKeeps ==
  ASSUME Typed, IdsAreUnique, NEW v \in Workers, WorkSound(v), Monotone, Apart(v)
  PROVE  WorkSound(v)'
<1>1. EventsExist(v)'
  <2>0. work'[v] = work[v]
    BY DEF Apart
  <2>1. At(v, "idle") => work[v] = Idle
    BY DEF WorkSound, EventsExist
  <2>2. ~At(v, "idle") =>
          /\ work[v].event \in Deliverable
          /\ deliveries'[work[v].event].status = "absent"
               => work[v].event \in Events /\ work[v].depth = 0
    BY DEF WorkSound, EventsExist, Monotone
  <2>3. \A n \in 1..Len(work[v].queue) : deliveries'[work[v].queue[n].event].status # "absent"
    <3>1. ASSUME NEW n \in 1..Len(work[v].queue)
          PROVE  work[v].queue[n].event \in Deliverable
      <4>1. work[v].queue \in Seq(Queued)
        BY DEF Typed, Work
      <4>2. work[v].queue[n] \in Queued
        BY <4>1, ElementOfSeq
      <4>. QED  BY <4>2 DEF Queued
    <3>. QED  BY <3>1 DEF WorkSound, EventsExist, Monotone
  <2>. QED  BY <2>0, <2>1, <2>2, <2>3 DEF EventsExist, At
<1>2. HasDelivery(v)'
  BY DEF Apart, WorkSound, HasDelivery, Acting, At
<1>3. CommandsKept(v)'
  <2>1. CASE ~Acting(v)
    BY <2>1 DEF Apart, WorkSound, CommandsKept, Acting, At, Done
  <2>2. CASE Acting(v)
    <3>. DEFINE id == work[v].id
                t  == work[v].todo
    <3>0. /\ work'[v] = work[v]
          /\ \A c \in Commands :
               /\ <<id, c>> \in Deliverable
               /\ ledger'[<<id, c>>] = ledger[<<id, c>>]
               /\ performed'[<<id, c>>] = performed[<<id, c>>]
               /\ deliveries[<<id, c>>].status = "absent"
                    => deliveries'[<<id, c>>].status = "absent" \/ At(v, "succeed")
      BY <2>2, ActingHasId, Constants DEF Apart
    <3>1. \A n \in 1..Len(t) : t[n] \in Commands
      <4>1. t \in Seq(Commands)
        BY DEF Typed, Work
      <4>. QED  BY <4>1, ElementOfSeq
    <3>2. /\ work[v].pc \notin {"execute", "executing", "succeed"} => work[v].results = <<>>
          /\ \A i \in Done(v) : i[1] = id /\ ledger'[i] # "absent"
          /\ At(v, "executing") => t # <<>>
      <4>1. ASSUME NEW i \in Done(v)
            PROVE  i[1] = id /\ ledger'[i] # "absent"
        <5>1. i \in Issued
          BY DoneIssued
        <5>2. i = <<i[1], i[2]>> /\ i[2] \in Commands
          BY <5>1, Constants
        <5>3. i[1] = id /\ ledger[i] # "absent"
          BY DEF WorkSound, CommandsKept
        <5>. QED  BY <3>0, <5>2, <5>3
      <4>. QED  BY <4>1 DEF WorkSound, CommandsKept
    <3>3. ASSUME work[v].pc \in {"execute", "executing"}
          PROVE  /\ \A m, n \in 1..Len(t) : t[m] = t[n] => m = n
                 /\ \A n \in 1..Len(t) :
                      /\ ledger'[<<id, t[n]>>] # "absent"
                      /\ n > 1 \/ At(v, "execute") => performed'[<<id, t[n]>>] = 0
                 /\ \A c \in Commands :
                      /\ deliveries'[<<id, c>>].status = "absent"
                      /\ ledger'[<<id, c>>] # "absent" =>
                           IF ledger'[<<id, c>>] = "pending"
                             THEN c \in Todo(v) ELSE <<id, c>> \in Done(v)
      BY <3>0, <3>1, <3>3 DEF WorkSound, CommandsKept, At
    <3>4. ASSUME At(v, "succeed")
          PROVE  /\ \A c \in Commands : ledger'[<<id, c>>] # "absent" =>
                      /\ ledger'[<<id, c>>] # "pending"
                      /\ ReportsResults => deliveries'[<<id, c>>].status # "absent"
                 /\ ReportsResults => \A i \in Done(v) : deliveries'[i].status # "absent"
      <4>1. \A i \in Done(v) : i \in Deliverable
        BY DoneIssued, Constants
      <4>. QED  BY <3>0, <3>4, <4>1 DEF WorkSound, CommandsKept, Monotone
    <3>5. Todo(v)' = Todo(v) /\ Done(v)' = Done(v)
      BY <3>0 DEF Todo, Done
    <3>. QED  BY <3>0, <3>2, <3>3, <3>4, <3>5 DEF CommandsKept, At
  <2>. QED  BY <2>1, <2>2
<1>. QED  BY <1>1, <1>2, <1>3 DEF WorkSound

\* A worker does something only when no registration is under way, or when one
\* recovers deliveries; its step takes nothing into the backlog.
LEMMA ServingKeeps ==
  ASSUME RegistrationKept, Monotone, NEW w \in Workers, ~At(w, "idle"),
         host' = host, recovery'.backlog = recovery.backlog, recovery \in Recoveries
  PROVE  RegistrationKept'
<1>1. host \in {"deliver", "up"}
  BY DEF RegistrationKept, At, Idle
<1>2. ASSUME NEW b \in recovery'.backlog
      PROVE  deliveries'[b[1]].status # "absent"
  <2>1. b \in recovery.backlog /\ b[1] \in Deliverable
    BY <1>2 DEF Recoveries
  <2>. QED  BY <2>1 DEF RegistrationKept, Monotone
<1>. QED  BY <1>1, <1>2 DEF RegistrationKept

\* What has to be shown of a step that is tame: of one of worker w in particular.
LEMMA TameKeeps ==
  ASSUME IInv, Typed', Tame, RegistrationKept',
         \A v \in Workers : Apart(v) \/ WorkSound(v)',
         \A e \in Deliverable :
           deliveries'[e].status = "succeeded" /\ deliveries[e].status # "succeeded"
             => Complete(e)'
  PROVE  IInv'
<1>1. Monotone
  BY DEF Tame, Monotone
<1>2. IdsAreUnique' /\ LedgerKept' /\ ResultsBeforeSuccess'
  BY TameKeepsIds, TameKeepsLedger, TameKeepsResults DEF IInv
<1>3. \A v \in Workers : WorkSound(v)'
  BY <1>1, ApartKeeps DEF IInv
<1>. QED  BY <1>2, <1>3 DEF IInv

LEMMA WorkerKeeps ==
  ASSUME IInv, Typed', Tame, NEW w \in Workers, ~At(w, "idle"),
         host' = host, recovery'.backlog = recovery.backlog,
         \A v \in Workers : v # w => Apart(v),
         WorkSound(w)',
         \A e \in Deliverable :
           deliveries'[e].status = "succeeded" /\ deliveries[e].status # "succeeded"
             => Complete(e)'
  PROVE  IInv'
<1>1. Monotone
  BY DEF Tame, Monotone
<1>2. RegistrationKept'
  BY <1>1, ServingKeeps DEF IInv, Typed, Apart
<1>. QED  BY <1>2, TameKeeps

\* Two workers that act have different events and invocations.
LEMMA DistinctWork ==
  ASSUME IInv, NEW v \in Workers, NEW w \in Workers, v # w, Acting(v), Acting(w)
  PROVE  work[v].event # work[w].event /\ work[v].id # work[w].id
BY ActingHasId DEF IInv, IdsAreUnique
----------------------------------------------------------------------------
(* Steps that leave the store as it is *)

Still ==
  /\ UNCHANGED <<deliveries, ledger, performed, drawn>>
  /\ \A w \in Workers : work'[w].id \in {0, work[w].id}

LEMMA StillIsTame ==
  ASSUME IInv, Still
  PROVE  Tame /\ Monotone /\ \A v \in Workers : work'[v] = work[v] => Apart(v)
BY DEF Still, Tame, Monotone, Apart

LEMMA StillKeeps ==
  ASSUME IInv, Typed', Still, RegistrationKept', NEW w \in Workers,
         \A v \in Workers : v # w => work'[v] = work[v],
         WorkSound(w)'
  PROVE  IInv'
<1>1. deliveries' = deliveries
  BY DEF Still
<1>. QED  BY <1>1, StillIsTame, TameKeeps

LEMMA StillWorkerKeeps ==
  ASSUME IInv, Typed', UNCHANGED <<deliveries, ledger, performed, drawn, host>>,
         recovery'.backlog = recovery.backlog, NEW w \in Workers, ~At(w, "idle"), NEW r, Became(w, r),
         r.id \in {0, work[w].id}, WorkSound(w)'
  PROVE  IInv'
<1>1. Still
  BY DEF Still, Became
<1>2. RegistrationKept'
  BY <1>1, StillIsTame, ServingKeeps DEF IInv, Typed, Became
<1>. QED  BY <1>1, <1>2, StillKeeps DEF Became

\* The events of a queue that a worker goes on with exist.
LEMMA AdvancedSound ==
  ASSUME Typed, Typed', NEW w \in Workers, NEW reports \in Seq(Queued), NEW state,
         Advance(w, reports, state), Monotone, WorkSound(w),
         \A k \in 1..Len(reports) : deliveries'[reports[k].event].status # "absent"
  PROVE  /\ WorkSound(w)'
         /\ Became(w, Advanced(w, reports, state))
         /\ Advanced(w, reports, state).id = 0
<1>. DEFINE q == work[w].queue \o reports
<1>1. work[w].queue \in Seq(Queued)
  BY DEF Typed, Work
<1>2. q \in Seq(Queued)
  BY <1>1, ConcatProperties
<1>3. Became(w, Advanced(w, reports, state)) /\ Rests(work'[w], q, state)
  BY AdvancedRests
<1>4. \A k \in 1..Len(work[w].queue) : deliveries'[work[w].queue[k].event].status # "absent"
  <2>1. ASSUME NEW k \in 1..Len(work[w].queue)
        PROVE  work[w].queue[k].event \in Deliverable
    BY <1>1, QueueMember
  <2>. QED  BY <2>1 DEF WorkSound, EventsExist, Monotone
<1>5. \A m \in 1..Len(q) : deliveries'[q[m].event].status # "absent"
  <2>1. ASSUME NEW m \in 1..Len(q)
        PROVE  deliveries'[q[m].event].status # "absent"
    <3>1. \/ \E k \in 1..Len(work[w].queue) : q[m] = work[w].queue[k]
          \/ \E k \in 1..Len(reports) : q[m] = reports[k]
      BY QueueOrReports
    <3>. QED  BY <1>4, <3>1
  <2>. QED  BY <2>1
<1>6. WorkSound(w)'
  BY <1>2, <1>3, <1>5, RestsSound
<1>7. Advanced(w, reports, state).id = 0
  BY DEF Advanced, Idle
<1>. QED  BY <1>3, <1>6, <1>7

LEMMA NothingReported ==
  /\ <<>> \in Seq(Queued)
  /\ \A k \in 1..Len(<<>>) : FALSE
  /\ Len(<<>>) = 0
BY EmptySeq

LEMMA CheckKeeps ==
  ASSUME IInv, NEW w \in Workers, Check(w)
  PROVE  IInv'
<1>. USE DEF IInv
<1>1. ~At(w, "idle") /\ work[w] \in Work
  BY DEF Check, At, Typed
<1>2. CASE health.open
  <2>1. Advance(w, <<>>, "Disabled") /\ plugin' = "Disabled"
    BY <1>2 DEF Check
  <2>2. Became(w, Advanced(w, <<>>, "Disabled"))
    BY <2>1, NothingReported, AdvancedRests
  <2>3. Typed'
    BY <2>1, <2>2 DEF Check, Typed, persistent, Became
  <2>4. Monotone
    BY DEF Check, persistent, Monotone
  <2>5. WorkSound(w)' /\ Advanced(w, <<>>, "Disabled").id = 0
    BY <2>1, <2>3, <2>4, NothingReported, AdvancedSound
  <2>. QED  BY <1>1, <2>2, <2>3, <2>5, StillWorkerKeeps DEF Check, persistent
<1>3. CASE ~health.open
  <2>1. Goto(w, "begin") /\ plugin' = plugin
    BY <1>3 DEF Check
  <2>2. Became(w, [work[w] EXCEPT !.pc = "begin"])
    BY <2>1, Goes DEF Steps
  <2>3. Typed'
    BY <2>1, <2>2 DEF Check, Typed, persistent, Became
  <2>4. /\ work'[w].pc = "begin" /\ work'[w].results = work[w].results
        /\ work'[w].event = work[w].event /\ work'[w].depth = work[w].depth
        /\ work'[w].queue = work[w].queue /\ work'[w].id = work[w].id
        /\ [work[w] EXCEPT !.pc = "begin"].id = work[w].id
        /\ deliveries' = deliveries
    BY <1>1, <2>2 DEF Became, Work, Check, persistent
  <2>5. WorkSound(w)'
    BY <2>4 DEF WorkSound, EventsExist, HasDelivery, CommandsKept, Acting, Done, At, Check
  <2>. QED  BY <1>1, <2>2, <2>3, <2>4, <2>5, StillWorkerKeeps DEF Check, persistent
<1>. QED  BY <1>2, <1>3

LEMMA WakeKeeps ==
  ASSUME IInv, NEW w \in Workers, Wake(w)
  PROVE  IInv'
<1>. USE DEF IInv
<1>1. ~At(w, "idle") /\ work[w] \in Work
  BY DEF Wake, At, Typed
<1>2. Became(w, [work[w] EXCEPT !.pc = "begin"])
  BY Goes DEF Steps, Wake
<1>3. Typed'
  BY <1>2 DEF Wake, Typed, persistent, Became
<1>4. /\ work'[w].pc = "begin" /\ work'[w].results = work[w].results
      /\ work'[w].event = work[w].event /\ work'[w].depth = work[w].depth
      /\ work'[w].queue = work[w].queue /\ work'[w].id = work[w].id
      /\ [work[w] EXCEPT !.pc = "begin"].id = work[w].id
      /\ deliveries' = deliveries
  BY <1>1, <1>2 DEF Became, Work, Wake, persistent
<1>5. WorkSound(w)'
  BY <1>4 DEF WorkSound, EventsExist, HasDelivery, CommandsKept, Acting, Done, At, Wake
<1>. QED  BY <1>1, <1>2, <1>3, <1>4, <1>5, StillWorkerKeeps DEF Wake, persistent

\* An event that may not begin: another worker has it, or it is over.
LEMMA PassesOver ==
  ASSUME IInv, NEW w \in Workers, At(w, "begin"), NEW state \in {"Draining", "Ready", "Disabled"},
         Advance(w, <<>>, state), plugin' = state,
         UNCHANGED <<deliveries, ledger, health, revision, host, recovery, drawn, performed,
                     failed_at, spent>>
  PROVE  IInv'
<1>. USE DEF IInv
<1>1. ~At(w, "idle")
  BY DEF At
<1>2. Became(w, Advanced(w, <<>>, state))
  BY NothingReported, AdvancedRests
<1>3. Typed'
  BY <1>2 DEF Typed, Became
<1>4. Monotone
  BY DEF Monotone
<1>5. WorkSound(w)' /\ Advanced(w, <<>>, state).id = 0
  BY <1>3, <1>4, NothingReported, AdvancedSound
<1>. QED  BY <1>1, <1>2, <1>3, <1>5, StillWorkerKeeps
\* The future of a handler is dropped.
LEMMA DropKeeps ==
  ASSUME IInv, NEW w \in Workers, Drop(w)
  PROVE  IInv'
<1>. USE DEF IInv
<1>1. ~At(w, "idle")
  BY DEF Drop, At
<1>2. Became(w, Idle) /\ Idle.id = 0
  BY IdleIsWork, Becomes DEF Drop, Idle
<1>3. spent' \in Counts
  BY DEF Drop, Spend, Typed, Counts
<1>4. recovery' \in Recoveries /\ recovery'.backlog = recovery.backlog
  <2>1. recovery \in Recoveries
    BY DEF Typed
  <2>2. \/ recovery' = recovery
        \/ recovery' = [recovery EXCEPT !.cut = @ \cup {e \in Deliverable : Attends(w, e)}]
    BY DEF Drop
  <2>. QED  BY <2>1, <2>2 DEF Recoveries
<1>5. Typed'
  BY <1>2, <1>3, <1>4 DEF Drop, Typed, persistent, Became
<1>6. WorkSound(w)'
  BY <1>2 DEF Became, WorkSound, EventsExist, HasDelivery, CommandsKept, Acting, Done, At, Idle
<1>. QED  BY <1>1, <1>2, <1>4, <1>5, <1>6, StillWorkerKeeps DEF Drop, persistent

\* The Runtime or a schedule hands an event to an idle worker.
LEMMA DispatchKeeps ==
  ASSUME IInv, NEW w \in Workers, NEW e \in Events, Dispatch(w, e)
  PROVE  IInv'
<1>. USE DEF IInv
<1>. DEFINE r == [[work[w] EXCEPT !.pc = "check"] EXCEPT !.event = e]
<1>1. work[w] = Idle /\ e \in Deliverable
  BY Constants DEF Dispatch, WorkSound, EventsExist
<1>2. r \in Work
  BY <1>1, IdleIsWork DEF Work, Steps
<1>3. work' = [work EXCEPT ![w] = r]
  BY DEF Dispatch
<1>4. Became(w, r)
  BY <1>2, <1>3, Becomes
<1>5. spent' \in Counts
  BY DEF Dispatch, Spend, Typed, Counts
<1>6. Typed'
  BY <1>4, <1>5 DEF Dispatch, Typed, persistent, Became
<1>7. /\ work'[w].pc = "check" /\ work'[w].event = e /\ work'[w].depth = 0
      /\ work'[w].id = 0 /\ work'[w].results = <<>> /\ work'[w].queue = <<>>
  BY <1>1, <1>4 DEF Became, Idle
<1>8. WorkSound(w)'
  BY <1>1, <1>7 DEF WorkSound, EventsExist, HasDelivery, CommandsKept, Acting, Done, At
<1>9. Still
  BY <1>4, <1>7 DEF Still, Dispatch, persistent, Became
<1>10. RegistrationKept'
  BY DEF Dispatch, RegistrationKept, persistent
<1>. QED  BY <1>4, <1>6, <1>8, <1>9, <1>10, StillKeeps DEF Became

\* The recovery hands a delivery of the backlog to its task.
LEMMA RecoverNextKeeps ==
  ASSUME IInv, RecoverNext
  PROVE  IInv'
<1>. USE DEF IInv
<1>1. PICK b \in recovery.backlog :
        /\ recovery' = [recovery EXCEPT !.backlog = @ \ {b}]
        /\ work' = [work EXCEPT ![Loop].pc = "check", ![Loop].event = b[1],
                                ![Loop].depth = deliveries[b[1]].depth]
  BY DEF RecoverNext
<1>. DEFINE e == b[1]
            r == [[[work[Loop] EXCEPT !.pc = "check"] EXCEPT !.event = e]
                     EXCEPT !.depth = deliveries[e].depth]
<1>2. /\ work[Loop] = Idle /\ Loop \in Workers
      /\ e \in Deliverable /\ deliveries[e].status # "absent"
      /\ deliveries[e].depth \in Nat
  <2>1. work[Loop] = Idle /\ Loop \in Workers
    BY Constants DEF RecoverNext, WorkSound, EventsExist
  <2>2. e \in Deliverable /\ deliveries[e].status # "absent"
    BY DEF RegistrationKept, Typed, Recoveries
  <2>3. deliveries[e].depth \in Nat
    BY <2>2 DEF Typed, Row
  <2>. QED  BY <2>1, <2>2, <2>3
<1>3. r \in Work
  BY <1>2, IdleIsWork DEF Work, Steps
<1>4. Became(Loop, r)
  BY <1>1, <1>2, <1>3, Becomes
<1>10. /\ recovery' \in Recoveries
      /\ \A d \in recovery'.backlog : d \in recovery.backlog
  BY <1>1 DEF Typed, Recoveries
<1>5. Typed'
  BY <1>1, <1>4, <1>10 DEF RecoverNext, Typed, persistent, Became
<1>6. /\ work'[Loop].pc = "check" /\ work'[Loop].event = e /\ deliveries' = deliveries
      /\ work'[Loop].id = 0 /\ work'[Loop].results = <<>> /\ work'[Loop].queue = <<>>
  <2>1. deliveries' = deliveries
    BY DEF RecoverNext, persistent
  <2>2. work'[Loop] = r
    BY <1>4 DEF Became
  <2>. QED  BY <1>2, <2>1, <2>2 DEF Idle
<1>7. WorkSound(Loop)'
  <2>1. EventsExist(Loop)'
    BY <1>2, <1>6 DEF EventsExist, At
  <2>2. HasDelivery(Loop)' /\ CommandsKept(Loop)'
    BY <1>6 DEF HasDelivery, CommandsKept, Acting, Done, At
  <2>. QED  BY <2>1, <2>2 DEF WorkSound
<1>8. Still
  BY <1>4, <1>6 DEF Still, RecoverNext, persistent, Became
<1>9. RegistrationKept'
  BY <1>10 DEF RecoverNext, RegistrationKept, persistent
<1>. QED  BY <1>2, <1>4, <1>5, <1>7, <1>8, <1>9, StillKeeps DEF Became

LEMMA TodoFacts ==
  ASSUME Typed, NEW w \in Workers, work[w].todo # <<>>
  PROVE  /\ Head(work[w].todo) = work[w].todo[1] /\ work[w].todo[1] \in Commands
         /\ Len(work[w].todo) \in Nat \ {0} /\ 1 \in 1..Len(work[w].todo)
         /\ Tail(work[w].todo) \in Seq(Commands)
         /\ Len(Tail(work[w].todo)) = Len(work[w].todo) - 1
         /\ \A n \in 1..Len(Tail(work[w].todo)) :
              /\ n + 1 \in 1..Len(work[w].todo)
              /\ Tail(work[w].todo)[n] = work[w].todo[n + 1]
         /\ \A n \in 1..Len(work[w].todo) : work[w].todo[n] \in Commands
         /\ \A n \in 1..Len(work[w].todo) :
              n > 1 => n - 1 \in 1..Len(Tail(work[w].todo))
<1>. DEFINE t == work[w].todo
<1>1. t \in Seq(Commands)
  BY DEF Typed, Work
<1>. HIDE DEF t
<1>2. t # <<>>
  BY DEF t
<1>3. Len(t) \in Nat \ {0} /\ Head(t) = t[1]
  BY <1>1, <1>2, EmptySeq
<1>4. /\ Tail(t) \in Seq(Commands) /\ Len(Tail(t)) = Len(t) - 1
      /\ \A n \in 1..Len(Tail(t)) : Tail(t)[n] = t[n + 1]
  BY <1>1, <1>2, HeadTailProperties
<1>5. \A n \in 1..Len(t) : t[n] \in Commands
  BY <1>1, ElementOfSeq
<1>6. \A n \in 1..Len(Tail(t)) : n + 1 \in 1..Len(t)
  BY <1>3, <1>4
<1>7. \A n \in 1..Len(t) : n > 1 => n - 1 \in 1..Len(Tail(t))
  BY <1>3, <1>4
<1>8. 1 \in 1..Len(t)
  BY <1>3
<1>. QED  BY <1>3, <1>4, <1>5, <1>6, <1>7, <1>8 DEF t

\* A command is performed: it is in the ledger, and was not performed before.
LEMMA StartCommandKeeps ==
  ASSUME IInv, NEW w \in Workers, StartCommand(w)
  PROVE  IInv'
<1>. USE DEF IInv
<1>. DEFINE id == work[w].id
            t  == work[w].todo
            i  == <<id, Head(t)>>
<1>1. /\ ~At(w, "idle") /\ Acting(w) /\ work[w] \in Work /\ t # <<>>
      /\ At(w, "execute") /\ work[w].pc = "execute" /\ ~At(w, "invoke")
  BY DEF StartCommand, At, Acting, Typed
<1>2. /\ Head(t) = t[1] /\ t[1] \in Commands /\ 1 \in 1..Len(t)
      /\ \A n \in 1..Len(t) : t[n] \in Commands /\ n \in Nat
  BY <1>1, TodoFacts
<1>3. \A c \in Commands : <<id, c>> \in Issued
  BY <1>1, ActingHasId
<1>4. /\ i \in Issued /\ ledger[i] # "absent"
  BY <1>1, <1>2, <1>3 DEF WorkSound, CommandsKept
<1>5. Became(w, [work[w] EXCEPT !.pc = "executing"])
  BY Goes DEF StartCommand, Steps
<1>6. /\ performed' \in [Issued -> Nat]
      /\ \A j \in Issued : j # i => performed'[j] = performed[j]
  <2>1. performed' = [performed EXCEPT ![i] = performed[i] + 1]
    BY DEF StartCommand
  <2>2. i \in Issued /\ performed \in [Issued -> Nat]
    BY <1>4 DEF Typed
  <2>. HIDE DEF i
  <2>. QED  BY <2>1, <2>2
<1>13. recovery' \in Recoveries /\ recovery'.backlog = recovery.backlog
  <2>1. recovery \in Recoveries
    BY DEF Typed
  <2>2. recovery' = [recovery EXCEPT !.created = @ \/ host = "deliver"]
    BY DEF StartCommand
  <2>. QED  BY <2>1, <2>2 DEF Recoveries
<1>7. Typed'
  BY <1>5, <1>6, <1>13 DEF StartCommand, Typed, persistent, Became
<1>8. /\ work'[w].pc = "executing" /\ work'[w].event = work[w].event
      /\ work'[w].depth = work[w].depth /\ work'[w].id = id
      /\ work'[w].todo = t /\ work'[w].results = work[w].results
      /\ work'[w].queue = work[w].queue
  BY <1>1, <1>5 DEF Became, Work
<1>9. UNCHANGED <<deliveries, ledger, drawn, host>>
  BY DEF StartCommand, persistent
<1>10. Tame
  <2>1. \A v \in Workers : work'[v].id \in {0, work[v].id}
    BY <1>5, <1>8 DEF Became
  <2>. QED  BY <1>4, <1>6, <1>9, <2>1 DEF Tame
<1>11. ASSUME NEW v \in Workers, v # w
       PROVE  Apart(v)
  <2>1. Acting(v) => \A c \in Commands : <<work[v].id, c>> \in Issued /\ work[v].id # id
    BY <1>1, <1>11, DistinctWork, ActingHasId
  <2>2. Acting(v) => \A c \in Commands : performed'[<<work[v].id, c>>] = performed[<<work[v].id, c>>]
    BY <1>6, <2>1
  <2>. QED  BY <1>5, <1>9, <1>11, <2>2 DEF Apart, Became
<1>12. WorkSound(w)'
  <2>1. EventsExist(w)' /\ HasDelivery(w)'
    BY <1>1, <1>8, <1>9 DEF WorkSound, EventsExist, HasDelivery, Acting, At
  <2>2. \A n \in 1..Len(t) : n > 1 => performed'[<<id, t[n]>>] = 0
    <3>1. ASSUME NEW n \in 1..Len(t), n > 1
          PROVE  performed[<<id, t[n]>>] = 0 /\ <<id, t[n]>> # i /\ <<id, t[n]>> \in Issued
      BY <1>1, <1>2, <1>3, <3>1 DEF WorkSound, CommandsKept
    <3>. QED  BY <1>6, <3>1
  <2>3. /\ \A j \in Done(w) : j[1] = id /\ ledger[j] # "absent"
        /\ \A m, n \in 1..Len(t) : t[m] = t[n] => m = n
        /\ \A n \in 1..Len(t) : ledger[<<id, t[n]>>] # "absent"
        /\ \A c \in Commands :
             /\ deliveries[<<id, c>>].status = "absent"
             /\ ledger[<<id, c>>] # "absent" =>
                  IF ledger[<<id, c>>] = "pending"
                    THEN c \in Todo(w) ELSE <<id, c>> \in Done(w)
    BY <1>1 DEF WorkSound, CommandsKept
  <2>4. Done(w)' = Done(w) /\ Todo(w)' = Todo(w)
    BY <1>8 DEF Done, Todo
  <2>5. CommandsKept(w)'
    BY <1>1, <1>8, <1>9, <2>2, <2>3, <2>4 DEF CommandsKept, At
  <2>. QED  BY <2>1, <2>5 DEF WorkSound
<1>. QED  BY <1>1, <1>7, <1>9, <1>10, <1>11, <1>12, <1>13, WorkerKeeps
----------------------------------------------------------------------------
(* Steps of a worker that executes the commands of an output *)

LEMMA EnqueuedRows ==
  ASSUME Typed, NEW reports, reports \subseteq Issued, NEW depth,
         \A i \in reports : depth[i] \in Nat
  PROVE  /\ Enqueued(deliveries, reports, depth) \in [Deliverable -> Row]
         /\ \A e \in Deliverable :
              IF e \in reports /\ deliveries[e].status = "absent"
                THEN /\ Enqueued(deliveries, reports, depth)[e].status = "pending"
                     /\ Enqueued(deliveries, reports, depth)[e].id = 0
                     /\ Enqueued(deliveries, reports, depth)[e].due
                     /\ Enqueued(deliveries, reports, depth)[e].generation = 0
                ELSE Enqueued(deliveries, reports, depth)[e] = deliveries[e]
BY DEF Typed, Enqueued, Row

LEMMA SettledRows ==
  ASSUME NEW rows \in [Deliverable -> Row], NEW events
  PROVE  /\ Settled(rows, events) \in [Deliverable -> Row]
         /\ \A e \in Deliverable :
              IF e \in events
                THEN /\ Settled(rows, events)[e].status = "succeeded"
                     /\ Settled(rows, events)[e].id = rows[e].id
                     /\ Settled(rows, events)[e].generation = rows[e].generation
                     /\ Settled(rows, events)[e].due
                ELSE Settled(rows, events)[e] = rows[e]
BY DEF Settled, Row

LEMMA ResetTyped ==
  ASSUME Typed, NEW generation, Reset(generation)
  PROVE  health' \in [exists : BOOLEAN, failures : Nat, open : BOOLEAN, generation : Nat]
BY DEF Typed, Reset

\* mark_command(): the result of the command is in the ledger.
LEMMA FinishCommandKeeps ==
  ASSUME IInv, NEW w \in Workers, NEW status \in Statuses, FinishCommand(w, status)
  PROVE  IInv'
<1>. USE DEF IInv
<1>. DEFINE id == work[w].id
            t  == work[w].todo
            i  == <<id, Head(t)>>
            r  == [[[work[w] EXCEPT !.pc = "execute"] EXCEPT !.todo = Tail(t)]
                     EXCEPT !.results = Append(work[w].results, i)]
<1>1. /\ ~At(w, "idle") /\ Acting(w) /\ work[w] \in Work
      /\ At(w, "executing") /\ work[w].pc = "executing" /\ ~At(w, "invoke")
      /\ t # <<>>
  <2>1. work[w].pc = "executing" /\ work[w] \in Work
    BY DEF FinishCommand, At, Typed
  <2>. QED  BY <2>1 DEF At, Acting, WorkSound, CommandsKept
<1>2. /\ Head(t) = t[1] /\ t[1] \in Commands /\ 1 \in 1..Len(t)
      /\ Tail(t) \in Seq(Commands)
      /\ \A n \in 1..Len(Tail(t)) : /\ n + 1 \in 1..Len(t) /\ n + 1 > 1 /\ n + 1 # 1
                                    /\ Tail(t)[n] = t[n + 1]
      /\ \A n \in 1..Len(t) : t[n] \in Commands
      /\ \A n \in 1..Len(t) : n # 1 => /\ n - 1 \in 1..Len(Tail(t))
                                       /\ Tail(t)[n - 1] = t[n]
  <2>1. \A n \in 1..Len(t) : n # 1 => n > 1 /\ (n - 1) + 1 = n
    OBVIOUS
  <2>2. \A n \in 1..Len(Tail(t)) : n + 1 > 1 /\ n + 1 # 1
    OBVIOUS
  <2>3. /\ Head(t) = t[1] /\ t[1] \in Commands /\ Len(t) \in Nat /\ 1 \in 1..Len(t)
        /\ Tail(t) \in Seq(Commands)
        /\ Len(Tail(t)) = Len(t) - 1
        /\ \A n \in 1..Len(Tail(t)) : n + 1 \in 1..Len(t) /\ Tail(t)[n] = t[n + 1]
        /\ \A n \in 1..Len(t) : t[n] \in Commands
        /\ \A n \in 1..Len(t) : n > 1 => n - 1 \in 1..Len(Tail(t))
    BY <1>1, TodoFacts
  <2>. HIDE DEF t
  <2>4. \A n \in 1..Len(t) : n # 1 => /\ n - 1 \in 1..Len(Tail(t))
                                      /\ Tail(t)[n - 1] = t[n]
    BY <2>1, <2>3
  <2>. QED  BY <2>2, <2>3, <2>4
<1>3. /\ \A c \in Commands : <<id, c>> \in Issued
      /\ i \in Issued /\ ledger[i] # "absent"
  <2>1. \A c \in Commands : <<id, c>> \in Issued
    BY <1>1, ActingHasId
  <2>. QED  BY <1>1, <1>2, <2>1 DEF WorkSound, CommandsKept
<1>4. status \in {"succeeded", "failed", "unknown"}
  BY DeliveryAssumption
<1>5. /\ ledger' \in [Issued -> LedgerStates] /\ ledger'[i] = status
      /\ \A j \in Issued : j # i => ledger'[j] = ledger[j]
  <2>1. ledger' = [ledger EXCEPT ![i] = status] /\ ledger \in [Issued -> LedgerStates]
    BY DEF FinishCommand, Typed
  <2>2. status \in LedgerStates
    BY <1>4 DEF LedgerStates
  <2>. HIDE DEF i
  <2>. QED  BY <1>3, <2>1, <2>2
<1>6. /\ Append(work[w].results, i) \in Seq(Issued)
      /\ \A j \in Done(w) : \E n \in 1..Len(Append(work[w].results, i)) :
            Append(work[w].results, i)[n] = j
      /\ \E n \in 1..Len(Append(work[w].results, i)) : Append(work[w].results, i)[n] = i
      /\ \A n \in 1..Len(Append(work[w].results, i)) :
            Append(work[w].results, i)[n] \in Done(w) \cup {i}
  <2>. DEFINE s == work[w].results
  <2>1. s \in Seq(Issued)
    BY <1>1 DEF Work
  <2>. HIDE DEF i, s
  <2>2. /\ Append(s, i) \in Seq(Issued) /\ Len(Append(s, i)) = Len(s) + 1
        /\ \A n \in 1..Len(s) : Append(s, i)[n] = s[n]
        /\ Append(s, i)[Len(s) + 1] = i /\ Len(s) \in Nat
    BY <1>3, <2>1, AppendProperties, LenProperties
  <2>3. /\ \A n \in 1..Len(s) : n \in 1..(Len(s) + 1)
        /\ Len(s) + 1 \in 1..(Len(s) + 1)
        /\ \A n \in 1..(Len(s) + 1) : n \in 1..Len(s) \/ n = Len(s) + 1
    BY <2>2
  <2>4. Done(w) = {s[n] : n \in 1..Len(s)}
    BY DEF Done, s
  <2>5. \A n \in 1..Len(Append(s, i)) : Append(s, i)[n] \in Done(w) \cup {i}
    BY <2>2, <2>3, <2>4
  <2>6. \A j \in Done(w) : \E n \in 1..Len(Append(s, i)) : Append(s, i)[n] = j
    BY <2>2, <2>3, <2>4
  <2>7. \E n \in 1..Len(Append(s, i)) : Append(s, i)[n] = i
    BY <2>2, <2>3
  <2>. QED  BY <2>2, <2>5, <2>6, <2>7 DEF s
<1>7. r \in Work
  BY <1>1, <1>2, <1>6 DEF Work, Steps
<1>8. work' = [work EXCEPT ![w] = r]
  BY <1>1 DEF FinishCommand, Work
<1>9. Became(w, r)
  BY <1>7, <1>8, Becomes
<1>10. Typed'
  BY <1>5, <1>9 DEF FinishCommand, Typed, Became
<1>11. /\ work'[w].pc = "execute" /\ work'[w].event = work[w].event
       /\ work'[w].depth = work[w].depth /\ work'[w].id = id
       /\ work'[w].todo = Tail(t) /\ work'[w].results = Append(work[w].results, i)
       /\ work'[w].queue = work[w].queue
  <2>1. work'[w] = r
    BY <1>9 DEF Became
  <2>. QED  BY <1>1, <2>1 DEF Work
<1>12. UNCHANGED <<deliveries, performed, drawn, host, recovery>>
  BY DEF FinishCommand
<1>13. Tame
  <2>1. \A v \in Workers : work'[v].id \in {0, work[v].id}
    BY <1>9, <1>11 DEF Became
  <2>. QED  BY <1>3, <1>4, <1>5, <1>12, <2>1 DEF Tame
<1>14. ASSUME NEW v \in Workers, v # w
       PROVE  Apart(v)
  <2>1. Acting(v) => \A c \in Commands : <<work[v].id, c>> \in Issued /\ work[v].id # id
    BY <1>1, <1>14, DistinctWork, ActingHasId
  <2>2. Acting(v) => \A c \in Commands : ledger'[<<work[v].id, c>>] = ledger[<<work[v].id, c>>]
    BY <1>5, <2>1
  <2>. QED  BY <1>9, <1>12, <1>14, <2>2 DEF Apart, Became
<1>15. Done(w)' = Done(w) \cup {i}
  <2>. DEFINE A == Append(work[w].results, i)
  <2>1. Done(w)' = {A[n] : n \in 1..Len(A)}
    BY <1>11 DEF Done
  <2>2. /\ \A j \in Done(w) : \E n \in 1..Len(A) : A[n] = j
        /\ \E n \in 1..Len(A) : A[n] = i
        /\ \A n \in 1..Len(A) : A[n] \in Done(w) \cup {i}
    BY <1>6
  <2>. HIDE DEF A, i
  <2>. QED  BY <2>1, <2>2
<1>16. Todo(w)' = Todo(w) \ {Head(t)}
  <2>1. \A m, n \in 1..Len(t) : t[m] = t[n] => m = n
    BY <1>1 DEF WorkSound, CommandsKept
  <2>2. Todo(w)' = {Tail(t)[n] : n \in 1..Len(Tail(t))}
    BY <1>11 DEF Todo
  <2>3. \A n \in 1..Len(Tail(t)) : Tail(t)[n] \in Todo(w) /\ Tail(t)[n] # Head(t)
    BY <1>2, <2>1, ZenonT(60) DEF Todo
  <2>4. ASSUME NEW c \in Todo(w), c # Head(t)
        PROVE  \E n \in 1..Len(Tail(t)) : Tail(t)[n] = c
    <3>1. PICK m \in 1..Len(t) : c = t[m]
      BY DEF Todo
    <3>2. m # 1
      BY <1>2, <2>4, <3>1
    <3>. QED  BY <1>2, <3>1, <3>2, ZenonT(60)
  <2>. QED  BY <2>2, <2>3, <2>4
<1>17. WorkSound(w)'
  <2>1. EventsExist(w)' /\ HasDelivery(w)'
    BY <1>1, <1>11, <1>12 DEF WorkSound, EventsExist, HasDelivery, Acting, At
  <2>2. /\ \A j \in Done(w) : j[1] = id /\ ledger[j] # "absent"
        /\ \A m, n \in 1..Len(t) : t[m] = t[n] => m = n
        /\ \A n \in 1..Len(t) :
             /\ ledger[<<id, t[n]>>] # "absent"
             /\ n > 1 => performed[<<id, t[n]>>] = 0
        /\ \A c \in Commands :
             /\ deliveries[<<id, c>>].status = "absent"
             /\ ledger[<<id, c>>] # "absent" =>
                  IF ledger[<<id, c>>] = "pending"
                    THEN c \in Todo(w) ELSE <<id, c>> \in Done(w)
    BY <1>1 DEF WorkSound, CommandsKept
  <2>3. \A j \in Issued : ledger'[j] # "absent" <=> ledger[j] # "absent"
    BY <1>3, <1>4, <1>5
  <2>4. \A j \in Done(w)' : j[1] = id /\ ledger'[j] # "absent"
    BY <1>3, <1>15, <2>2, <2>3, DoneIssued
  <2>5. \A m, n \in 1..Len(Tail(t)) : Tail(t)[m] = Tail(t)[n] => m = n
    <3>1. ASSUME NEW m \in 1..Len(Tail(t)), NEW n \in 1..Len(Tail(t)), Tail(t)[m] = Tail(t)[n]
          PROVE  m = n
      <4>1. m + 1 = n + 1
        BY <1>2, <2>2, <3>1
      <4>. QED  BY <4>1
    <3>. QED  BY <3>1
  <2>6. \A n \in 1..Len(Tail(t)) :
          /\ ledger'[<<id, Tail(t)[n]>>] # "absent"
          /\ performed[<<id, Tail(t)[n]>>] = 0
    BY <1>2, <1>3, <2>2, <2>3
  <2>7. ASSUME NEW c \in Commands, ledger'[<<id, c>>] # "absent"
        PROVE  IF ledger'[<<id, c>>] = "pending"
                 THEN c \in Todo(w)' ELSE <<id, c>> \in Done(w)'
    <3>1. CASE c = Head(t)
      BY <1>4, <1>5, <1>15, <3>1
    <3>2. CASE c # Head(t)
      <4>1. <<id, c>> \in Issued /\ <<id, c>> # i
        BY <1>3, <3>2
      <4>2. ledger'[<<id, c>>] = ledger[<<id, c>>]
        BY <1>5, <4>1
      <4>. QED  BY <1>15, <1>16, <2>2, <2>7, <3>2, <4>2
    <3>. QED  BY <3>1, <3>2
  <2>8. CommandsKept(w)'
    BY <1>11, <1>12, <2>2, <2>4, <2>5, <2>6, <2>7 DEF CommandsKept, At
  <2>. QED  BY <2>1, <2>8 DEF WorkSound
<1>. QED  BY <1>1, <1>10, <1>12, <1>13, <1>14, <1>17, WorkerKeeps

LEMMA EnqueueReportsKeeps ==
  ASSUME IInv, NEW w \in Workers, EnqueueReports(w)
  PROVE  IInv'
<1>. USE DEF IInv
<1>. DEFINE id == work[w].id
            R  == Reports(Done(w))
<1>1. /\ ~At(w, "idle") /\ Acting(w) /\ work[w] \in Work
      /\ At(w, "execute") /\ work[w].pc = "execute" /\ ~At(w, "invoke")
      /\ work[w].todo = <<>>
  BY DEF EnqueueReports, At, Acting, Typed
<1>2. \A c \in Commands : <<id, c>> \in Issued
  BY <1>1, ActingHasId
<1>3. R \subseteq Issued /\ R \subseteq Done(w)
  BY DoneIssued DEF Reports
<1>4. /\ \A i \in Done(w) : i[1] = id /\ ledger[i] # "absent"
      /\ \A c \in Commands : ledger[<<id, c>>] # "absent" =>
           IF ledger[<<id, c>>] = "pending"
             THEN c \in Todo(w) ELSE <<id, c>> \in Done(w)
  BY <1>1 DEF WorkSound, CommandsKept
<1>5. deliveries' = Enqueued(deliveries, R, [i \in Issued |-> work[w].depth + 1])
  <2>1. DOMAIN work[w].results = 1..Len(work[w].results)
    <3>1. work[w].results \in Seq(Issued)
      BY <1>1 DEF Work
    <3>. QED  BY <3>1, LenProperties
  <2>. QED  BY <2>1 DEF EnqueueReports, Done
<1>6. \A i \in R : [j \in Issued |-> work[w].depth + 1][i] \in Nat
  <2>1. work[w].depth + 1 \in Nat
    BY <1>1 DEF Work
  <2>. QED  BY <1>3, <2>1
<1>7. /\ deliveries' \in [Deliverable -> Row]
      /\ \A e \in Deliverable :
           IF e \in R /\ deliveries[e].status = "absent"
             THEN deliveries'[e].status = "pending" /\ deliveries'[e].id = 0
             ELSE deliveries'[e] = deliveries[e]
  <2>. DEFINE D == [j \in Issued |-> work[w].depth + 1]
  <2>1. R \subseteq Issued /\ \A i \in R : D[i] \in Nat
    BY <1>3, <1>6
  <2>2. deliveries' = Enqueued(deliveries, R, D)
    BY <1>5
  <2>. HIDE DEF R, D
  <2>. QED  BY <2>1, <2>2, EnqueuedRows
<1>8. Became(w, [work[w] EXCEPT !.pc = "succeed"])
  BY Goes DEF EnqueueReports, Steps
<1>9. Typed'
  BY <1>7, <1>8 DEF EnqueueReports, Typed, Became
<1>10. /\ work'[w].pc = "succeed" /\ work'[w].event = work[w].event
       /\ work'[w].depth = work[w].depth /\ work'[w].id = id
       /\ work'[w].todo = work[w].todo /\ work'[w].results = work[w].results
       /\ work'[w].queue = work[w].queue
  BY <1>1, <1>8 DEF Became, Work
<1>11. UNCHANGED <<ledger, performed, drawn, host, recovery>>
  BY DEF EnqueueReports
<1>12. Tame
  <2>1. \A v \in Workers : work'[v].id \in {0, work[v].id}
    BY <1>8, <1>10 DEF Became
  <2>2. \A e \in Deliverable : e \in R => e \in Issued /\ ledger[e] # "absent"
    BY <1>3, <1>4
  <2>. QED  BY <1>7, <1>11, <2>1, <2>2 DEF Tame
<1>13. ASSUME NEW v \in Workers, v # w
       PROVE  Apart(v)
  <2>1. work'[v] = work[v]
    BY <1>8, <1>13 DEF Became
  <2>2. ASSUME Acting(v)
        PROVE  /\ deliveries'[work[v].event] = deliveries[work[v].event]
               /\ \A c \in Commands : deliveries'[<<work[v].id, c>>] = deliveries[<<work[v].id, c>>]
    <3>1. work[v].id # id /\ work[v].event \in Deliverable
          /\ deliveries[work[v].event].status # "absent"
          /\ \A c \in Commands : <<work[v].id, c>> \in Deliverable
      BY <1>1, <1>13, <2>2, DistinctWork, ActingHasId, Constants
    <3>2. \A c \in Commands : <<work[v].id, c>> \notin R
      BY <1>3, <1>4, <3>1
    <3>. QED  BY <1>7, <3>1, <3>2
  <2>. QED  BY <1>11, <2>1, <2>2 DEF Apart
<1>14. WorkSound(w)'
  <2>1. Monotone
    BY <1>12 DEF Tame, Monotone
  <2>2. /\ work[w].event \in Deliverable /\ deliveries[work[w].event].status = "committed"
        /\ deliveries[work[w].event].id = id /\ id # 0
    BY <1>1, ActingHasId DEF At
  <2>3. deliveries'[work[w].event] = deliveries[work[w].event]
    BY <1>7, <2>2
  <2>4. \A n \in 1..Len(work[w].queue) : deliveries'[work[w].queue[n].event].status # "absent"
    <3>1. work[w].queue \in Seq(Queued)
      BY <1>1 DEF Work
    <3>2. \A n \in 1..Len(work[w].queue) : work[w].queue[n].event \in Deliverable
      BY <3>1, QueueMember
    <3>. QED  BY <2>1, <3>2 DEF WorkSound, EventsExist, Monotone
  <2>5. EventsExist(w)'
    BY <1>10, <2>2, <2>3, <2>4 DEF EventsExist, At
  <2>6. HasDelivery(w)'
    BY <1>10, <2>2, <2>3 DEF HasDelivery, Acting, At
  <2>7. Done(w)' = Done(w)
    BY <1>10 DEF Done
  <2>8. \A i \in Done(w) : ReportsResults => deliveries'[i].status # "absent"
    <3>1. ReportsResults => R = Done(w)
      BY DEF Reports
    <3>2. \A i \in Done(w) : i \in Deliverable
      BY DoneIssued, Constants
    <3>. QED  BY <1>7, <3>1, <3>2
  <2>9. ASSUME NEW c \in Commands, ledger'[<<id, c>>] # "absent"
        PROVE  /\ ledger'[<<id, c>>] # "pending"
               /\ ReportsResults => deliveries'[<<id, c>>].status # "absent"
    <3>1. Todo(w) = {}
      BY <1>1, EmptySeq DEF Todo
    <3>2. ledger[<<id, c>>] # "pending" /\ <<id, c>> \in Done(w)
      BY <1>4, <1>11, <2>9, <3>1
    <3>. QED  BY <1>11, <2>8, <3>2
  <2>10. CommandsKept(w)'
    BY <1>4, <1>10, <1>11, <2>7, <2>8, <2>9 DEF CommandsKept, At
  <2>. QED  BY <2>5, <2>6, <2>10 DEF WorkSound
<1>15. \A e \in Deliverable :
         deliveries'[e].status = "succeeded" => deliveries[e].status = "succeeded"
  BY <1>7
<1>. QED  BY <1>1, <1>9, <1>11, <1>12, <1>13, <1>14, <1>15, WorkerKeeps

\* The reports of a worker's results, in the order of the commands.
LEMMA ReportsTyped ==
  ASSUME Typed, NEW w \in Workers
  PROVE  LET q == [n \in DOMAIN work[w].results |->
                     [event |-> work[w].results[n], depth |-> work[w].depth + 1]]
         IN  /\ q \in Seq(Queued)
             /\ Len(q) = Len(work[w].results)
             /\ \A n \in 1..Len(q) : q[n].event = work[w].results[n]
<1>. DEFINE s == work[w].results
            q == [n \in DOMAIN s |-> [event |-> s[n], depth |-> work[w].depth + 1]]
<1>1. s \in Seq(Issued) /\ work[w].depth \in Nat
  BY DEF Typed, Work
<1>2. Len(s) \in Nat /\ DOMAIN s = 1..Len(s) /\ \A n \in 1..Len(s) : s[n] \in Issued
  BY <1>1, LenProperties, ElementOfSeq
<1>3. \A n \in 1..Len(s) : [event |-> s[n], depth |-> work[w].depth + 1] \in Queued
  BY <1>1, <1>2, Constants DEF Queued
<1>4. q \in [1..Len(s) -> Queued]
  BY <1>2, <1>3
<1>5. q \in Seq(Queued)
  BY <1>2, <1>4, SeqDef
<1>6. Len(q) = Len(s)
  BY <1>2, <1>4, <1>5, LenProperties
<1>7. \A n \in 1..Len(q) : q[n].event = s[n]
  BY <1>2, <1>6
<1>. QED  BY <1>5, <1>6, <1>7

LEMMA SucceedKeeps ==
  ASSUME IInv, NEW w \in Workers, Succeed(w)
  PROVE  IInv'
<1>. USE DEF IInv
<1>. DEFINE e  == work[w].event
            id == work[w].id
            s  == work[w].results
            reports == [n \in DOMAIN s |-> [event |-> s[n], depth |-> work[w].depth + 1]]
            q == IF ReportsResults THEN reports ELSE <<>>
<1>1. /\ ~At(w, "idle") /\ Acting(w) /\ work[w] \in Work
      /\ At(w, "succeed") /\ work[w].pc = "succeed" /\ ~At(w, "invoke")
  BY DEF Succeed, At, Acting, Typed
<1>2. /\ e \in Deliverable /\ deliveries[e].id = id /\ deliveries[e].status = "committed"
      /\ \A c \in Commands : <<id, c>> \in Issued
  BY <1>1, ActingHasId
<1>3. /\ deliveries' = Settled(deliveries, {e})
      /\ Reset(deliveries[e].generation)
      /\ Advance(w, q, plugin)
  BY <1>2 DEF Succeed, Owns
<1>4. UNCHANGED <<ledger, revision, host, plugin, recovery, drawn, performed, failed_at, spent>>
  BY DEF Succeed
<1>5. /\ deliveries' \in [Deliverable -> Row]
      /\ deliveries'[e].status = "succeeded" /\ deliveries'[e].id = id
      /\ \A d \in Deliverable : d # e => deliveries'[d] = deliveries[d]
  BY <1>2, <1>3, SettledRows DEF Typed
<1>6. /\ q \in Seq(Queued)
      /\ \A n \in 1..Len(q) : ReportsResults /\ q[n].event \in Done(w)
  <2>1. CASE ReportsResults
    <3>1. q = reports
      BY <2>1
    <3>2. reports \in Seq(Queued) /\ Len(reports) = Len(s)
          /\ \A n \in 1..Len(reports) : reports[n].event = s[n]
      BY ReportsTyped
    <3>. HIDE DEF reports
    <3>. QED  BY <2>1, <3>1, <3>2 DEF Done
  <2>2. CASE ~ReportsResults
    BY <2>2, NothingReported
  <2>. QED  BY <2>1, <2>2
<1>. HIDE DEF q
<1>7. Became(w, Advanced(w, q, plugin))
  BY <1>3, <1>6, AdvancedRests
<1>8. Typed'
  <2>1. health' \in [exists : BOOLEAN, failures : Nat, open : BOOLEAN, generation : Nat]
    BY <1>3, ResetTyped
  <2>. QED  BY <1>4, <1>5, <1>7, <2>1 DEF Typed, Became
<1>9. Monotone
  BY <1>5 DEF Monotone
<1>10. \A n \in 1..Len(q) : deliveries'[q[n].event].status # "absent"
  <2>1. \A i \in Done(w) : ReportsResults => deliveries[i].status # "absent" /\ i \in Deliverable
    BY <1>1, DoneIssued, Constants DEF WorkSound, CommandsKept
  <2>. QED  BY <1>6, <1>9, <2>1 DEF Monotone
<1>11. WorkSound(w)' /\ Advanced(w, q, plugin).id = 0
  BY <1>3, <1>6, <1>8, <1>9, <1>10, AdvancedSound
<1>12. Tame
  <2>1. \A v \in Workers : work'[v].id \in {0, work[v].id}
    BY <1>7, <1>11 DEF Became
  <2>. QED  BY <1>2, <1>4, <1>5, <2>1 DEF Tame
<1>13. ASSUME NEW v \in Workers, v # w
       PROVE  Apart(v)
  <2>1. work'[v] = work[v]
    BY <1>7, <1>13 DEF Became
  <2>2. ASSUME Acting(v)
        PROVE  /\ deliveries'[work[v].event] = deliveries[work[v].event]
               /\ \A c \in Commands : deliveries[<<work[v].id, c>>].status = "absent"
                     => deliveries'[<<work[v].id, c>>] = deliveries[<<work[v].id, c>>]
    <3>1. /\ work[v].event \in Deliverable /\ work[v].event # e
          /\ \A c \in Commands : <<work[v].id, c>> \in Deliverable
      BY <1>1, <1>13, <2>2, DistinctWork, ActingHasId, Constants
    <3>. QED  BY <1>2, <1>5, <3>1
  <2>. QED  BY <1>4, <2>1, <2>2 DEF Apart
<1>14. ASSUME NEW d \in Deliverable, d = e
       PROVE  Complete(d)'
  <2>1. \A c \in Commands : ledger[<<id, c>>] # "absent" =>
          /\ ledger[<<id, c>>] # "pending"
          /\ ReportsResults => deliveries[<<id, c>>].status # "absent"
    BY <1>1 DEF WorkSound, CommandsKept
  <2>2. ASSUME NEW c \in Commands, ledger'[<<id, c>>] # "absent"
        PROVE  /\ ledger'[<<id, c>>] # "pending"
               /\ ReportsResults => deliveries'[<<id, c>>].status # "absent"
    <3>1. <<id, c>> \in Deliverable
      BY <1>2, Constants
    <3>. QED  BY <1>4, <1>9, <2>1, <2>2, <3>1 DEF Monotone
  <2>3. deliveries'[d].id = id
    BY <1>5, <1>14
  <2>. QED  BY <2>2, <2>3 DEF Complete
<1>15. \A d \in Deliverable :
         deliveries'[d].status = "succeeded" /\ deliveries[d].status # "succeeded" => d = e
  BY <1>5
<1>16. \A d \in Deliverable :
         deliveries'[d].status = "succeeded" /\ deliveries[d].status # "succeeded"
           => Complete(d)'
  BY <1>14, <1>15
<1>. QED  BY <1>1, <1>4, <1>8, <1>11, <1>12, <1>13, <1>16, WorkerKeeps

----------------------------------------------------------------------------
(* Failures *)

\* A failure of the invocation: retried after a delay, or a dead letter.
LEMMA CountedTyped ==
  ASSUME Typed, NEW threshold \in Nat
  PROVE  Counted(threshold) \in
           [exists : BOOLEAN, failures : Nat, open : BOOLEAN, generation : Nat]
<1>. DEFINE open == health.open \/ health.failures + 1 >= threshold
<1>1. health.failures + 1 \in Nat /\ health.generation + 1 \in Nat
  BY DEF Typed
<1>2. open \in BOOLEAN
  BY Zenon
<1>3. Counted(threshold) = [exists |-> TRUE, failures |-> health.failures + 1,
                           open |-> open, generation |-> health.generation + 1]
  BY DEF Counted
<1>. HIDE DEF open
<1>. QED  BY <1>1, <1>2, <1>3

LEMMA RecordFailureKeeps ==
  ASSUME IInv, NEW w \in Workers, NEW kind, At(w, "invoke"), RecordFailure(w, kind),
         UNCHANGED <<revision, host, recovery, drawn, performed, spent>>
  PROVE  IInv'
<1>. USE DEF IInv
<1>. DEFINE e  == work[w].event
            id == work[w].id
<1>1. /\ ~At(w, "idle") /\ Acting(w) /\ work[w] \in Work /\ work[w].pc = "invoke"
  BY DEF At, Acting, Typed
<1>2. /\ e \in Deliverable /\ deliveries[e].id = id /\ deliveries[e].status = "running"
      /\ deliveries[e] \in Row
  BY <1>1, ActingHasId DEF Typed
<1>3. PICK new \in {"dead_letter", "pending"} :
        deliveries' = [deliveries EXCEPT ![e].status = new, ![e].due = FALSE]
  BY DEF RecordFailure
<1>4. /\ deliveries' \in [Deliverable -> Row]
      /\ deliveries'[e].status = new /\ deliveries'[e].id = id
      /\ \A d \in Deliverable : d # e => deliveries'[d] = deliveries[d]
  <2>1. deliveries \in [Deliverable -> Row]
    BY DEF Typed
  <2>. QED  BY <1>2, <1>3, <2>1 DEF Row
<1>5. PICK state \in {plugin, "Disabled"} :
        /\ plugin' = state
        /\ Goto(w, "backoff") \/ Advance(w, <<>>, state)
  BY DEF RecordFailure
<1>6. \E r : Became(w, r)
  <2>1. CASE Goto(w, "backoff")
    BY <2>1, Goes DEF Steps
  <2>2. CASE Advance(w, <<>>, state)
    BY <2>2, NothingReported, AdvancedRests
  <2>. QED  BY <1>5, <2>1, <2>2
<1>7. Typed'
  <2>1. CircuitFailures \in Nat /\ health.failures + 1 \in Nat /\ health.generation + 1 \in Nat
        /\ health \in [exists : BOOLEAN, failures : Nat, open : BOOLEAN, generation : Nat]
    BY Constants DEF Typed
  <2>2. PICK threshold \in Nat : health' \in {health, Counted(threshold)}
    <3>1. health' \in {health, Counted(1), Counted(CircuitFailures)}
      BY DEF RecordFailure
    <3>. QED  BY <2>1, <3>1
  <2>3. health' \in [exists : BOOLEAN, failures : Nat, open : BOOLEAN, generation : Nat]
    BY <2>1, <2>2, CountedTyped
  <2>4. failed_at' \in {drawn, failed_at} /\ ledger' = ledger
    BY DEF RecordFailure
  <2>5. failed_at' \in 0..drawn'
    BY <2>4 DEF Typed
  <2>. QED  BY <1>4, <1>5, <1>6, <2>3, <2>4, <2>5 DEF Typed, Became
<1>8. Monotone
  BY <1>2, <1>4 DEF Monotone
<1>9. WorkSound(w)' /\ work'[w].id \in {0, id}
  <2>1. CASE Goto(w, "backoff")
    <3>1. Became(w, [work[w] EXCEPT !.pc = "backoff"])
      BY <2>1, Goes DEF Steps
    <3>2. /\ work'[w].pc = "backoff" /\ work'[w].event = e
          /\ work'[w].depth = work[w].depth /\ work'[w].id = id
          /\ work'[w].results = work[w].results
          /\ work'[w].queue = work[w].queue
      BY <1>1, <3>1 DEF Became, Work
    <3>3. work[w].results = <<>>
      BY <1>1 DEF WorkSound, CommandsKept
    <3>4. \A n \in 1..Len(work[w].queue) : deliveries'[work[w].queue[n].event].status # "absent"
      <4>1. work[w].queue \in Seq(Queued)
        BY <1>1 DEF Work
      <4>2. \A n \in 1..Len(work[w].queue) : work[w].queue[n].event \in Deliverable
        BY <4>1, QueueMember
      <4>. QED  BY <1>8, <4>2 DEF WorkSound, EventsExist, Monotone
    <3>5. EventsExist(w)'
      BY <1>2, <1>4, <3>2, <3>4 DEF EventsExist, At
    <3>6. HasDelivery(w)' /\ CommandsKept(w)'
      BY <3>2, <3>3 DEF HasDelivery, CommandsKept, Acting, At, Done
    <3>. QED  BY <3>2, <3>5, <3>6 DEF WorkSound
  <2>2. CASE Advance(w, <<>>, state)
    BY <1>7, <1>8, <2>2, NothingReported, AdvancedSound DEF Became
  <2>. QED  BY <1>5, <2>1, <2>2
<1>10. ledger' = ledger
  BY DEF RecordFailure
<1>11. Tame
  <2>1. \A v \in Workers : work'[v].id \in {0, work[v].id}
    BY <1>6, <1>9 DEF Became
  <2>. QED  BY <1>2, <1>4, <1>10, <2>1 DEF Tame
<1>12. ASSUME NEW v \in Workers, v # w
       PROVE  Apart(v)
  <2>1. work'[v] = work[v]
    BY <1>6, <1>12 DEF Became
  <2>2. ASSUME Acting(v)
        PROVE  /\ deliveries'[work[v].event] = deliveries[work[v].event]
               /\ \A c \in Commands : deliveries[<<work[v].id, c>>].status = "absent"
                     => deliveries'[<<work[v].id, c>>] = deliveries[<<work[v].id, c>>]
    <3>1. /\ work[v].event \in Deliverable /\ work[v].event # e
          /\ \A c \in Commands : <<work[v].id, c>> \in Deliverable
      BY <1>1, <1>12, <2>2, DistinctWork, ActingHasId, Constants
    <3>. QED  BY <1>2, <1>4, <3>1
  <2>. QED  BY <1>10, <2>1, <2>2 DEF Apart
<1>13. \A d \in Deliverable :
         deliveries'[d].status = "succeeded" => deliveries[d].status = "succeeded"
  BY <1>4
<1>. QED  BY <1>1, <1>7, <1>9, <1>11, <1>12, <1>13, WorkerKeeps

LEMMA FailKeeps ==
  ASSUME IInv, NEW w \in Workers, NEW kind, Fail(w, kind)
  PROVE  IInv'
<1>1. Owns(w, {"running"})
  BY ActingHasId DEF Fail, Owns, IInv, Acting, At
<1>2. RecordFailure(w, kind)
  BY <1>1 DEF Fail
<1>. QED  BY <1>2, RecordFailureKeeps DEF Fail

\* The commands of one invocation that are in the ledger are finitely many.
LEMMA LedgerOfIsFinite ==
  ASSUME IInv, NEW w \in Workers, work[w].pc \in {"execute", "executing"}, NEW R,
         R \subseteq {i \in Issued : i[1] = work[w].id /\ ledger[i] # "absent"}
  PROVE  IsFiniteSet(R)
<1>. USE DEF IInv
<1>. DEFINE id == work[w].id
            t  == work[w].todo
            s  == work[w].results
            T  == {<<id, c>> : c \in Todo(w)}
            f  == [n \in 1..Len(t) |-> <<id, t[n]>>]
<1>1. t \in Seq(Commands) /\ s \in Seq(Issued)
  BY DEF Typed, Work
<1>2. /\ Len(t) \in Nat /\ Len(s) \in Nat /\ s \in [1..Len(s) -> Issued]
      /\ IsFiniteSet(1..Len(t)) /\ IsFiniteSet(1..Len(s))
  <2>1. Len(t) \in Nat /\ Len(s) \in Nat /\ s \in [1..Len(s) -> Issued]
    BY <1>1, LenProperties
  <2>2. \A n \in Nat : IsFiniteSet(1..n)
    <3>1. 1 \in Int /\ \A n \in Nat : n \in Int
      OBVIOUS
    <3>. QED  BY <3>1, FS_Interval
  <2>. QED  BY <2>1, <2>2
<1>3. IsFiniteSet(Done(w))
  <2>1. s \in [1..Len(s) -> Done(w)] /\ \A x \in Done(w) : \E n \in 1..Len(s) : s[n] = x
    BY <1>2 DEF Done
  <2>2. s \in Surjection(1..Len(s), Done(w))
    BY <2>1 DEF Surjection
  <2>. QED  BY <1>2, <2>2, FS_Surjection
<1>4. IsFiniteSet(T)
  <2>1. f \in [1..Len(t) -> T] /\ \A x \in T : \E n \in 1..Len(t) : f[n] = x
    BY DEF Todo
  <2>2. f \in Surjection(1..Len(t), T)
    BY <2>1 DEF Surjection
  <2>. QED  BY <1>2, <2>2, FS_Surjection
<1>5. IsFiniteSet(Done(w) \cup T)
  BY <1>3, <1>4, FS_Union
<1>6. R \subseteq Done(w) \cup T
  <2>1. ASSUME NEW i \in R
        PROVE  i \in Done(w) \cup T
    <3>1. i \in Issued /\ i[1] = id /\ ledger[i] # "absent"
      OBVIOUS
    <3>2. i = <<id, i[2]>> /\ i[2] \in Commands
      BY <3>1, Constants
    <3>3. \A c \in Commands : ledger[<<id, c>>] # "absent" =>
            c \in Todo(w) \/ <<id, c>> \in Done(w)
      BY DEF WorkSound, CommandsKept
    <3>. QED  BY <3>1, <3>2, <3>3
  <2>. QED  BY <2>1
<1>. QED  BY <1>5, <1>6, FS_Subset

LEMMA EnvelopesTyped ==
  ASSUME Typed, NEW w \in Workers, NEW R, R \subseteq Issued, IsFiniteSet(R),
         NEW q \in Envelopes(w, R)
  PROVE  /\ q \in Seq(Queued)
         /\ \A n \in 1..Len(q) : q[n].event \in R
         /\ \A i \in R : \E n \in 1..Len(q) : q[n].event = i
<1>. DEFINE E == {[event |-> i, depth |-> work[w].depth + 1] : i \in R}
<1>1. Cardinality(R) \in Nat
  BY FS_CardinalityType
<1>2. q \in [1..Cardinality(R) -> E]
      /\ \A i \in R : \E n \in DOMAIN q : q[n].event = i
  BY DEF Envelopes
<1>3. q \in Seq(E)
  BY <1>1, <1>2, SeqDef
<1>4. E \subseteq Queued
  <2>1. work[w].depth \in Nat
    BY DEF Typed, Work
  <2>. QED  BY <2>1, Constants DEF Queued
<1>5. q \in Seq(Queued)
  BY <1>3, <1>4, SeqMonotonic
<1>6. \A n \in 1..Len(q) : q[n] \in E
  BY <1>3, ElementOfSeq
<1>7. DOMAIN q = 1..Len(q)
  BY <1>3, LenProperties
<1>. QED  BY <1>2, <1>5, <1>6, <1>7

\* mark_command() failed: what has no result is interrupted, the reports are
\* enqueued, and the delivery has succeeded.
LEMMA LoseResultKeeps ==
  ASSUME IInv, NEW w \in Workers, LoseResult(w)
  PROVE  IInv'
<1>. USE DEF IInv
<1>. DEFINE id == work[w].id
            results == {i \in Results(ledger') : i[1] = id}
            R == Reports(results)
<1>0. PICK e \in Deliverable : e = work[w].event
  BY ActingHasId DEF LoseResult, At, Acting
<1>1. /\ ~At(w, "idle") /\ Acting(w) /\ work[w] \in Work
      /\ At(w, "executing") /\ work[w].pc = "executing" /\ ~At(w, "invoke")
  BY DEF LoseResult, At, Acting, Typed
<1>2. /\ deliveries[e].id = id /\ deliveries[e].status = "committed"
      /\ \A c \in Commands : <<id, c>> \in Issued
  BY <1>0, <1>1, ActingHasId
<1>3. RecoverCommitted(w)
  BY <1>0, <1>2 DEF LoseResult, Owns
<1>4. /\ ledger' = Interrupted({id} \X Commands)
      /\ deliveries' = Settled(Enqueued(deliveries, R, [i \in Issued |-> work[w].depth + 1]), {e})
      /\ Reset(deliveries[e].generation)
      /\ \E q \in Envelopes(w, R) : Advance(w, q, plugin)
      /\ UNCHANGED <<plugin, failed_at>>
  BY <1>0, <1>2, <1>3 DEF RecoverCommitted
<1>5. /\ ledger' \in [Issued -> LedgerStates]
      /\ \A i \in Issued :
           /\ ledger'[i] = "absent" <=> ledger[i] = "absent"
           /\ ledger'[i] = "pending" => ledger[i] = "pending"
           /\ i[1] = id => ledger'[i] # "pending"
           /\ i[1] # id => ledger'[i] = ledger[i]
  BY <1>4 DEF Interrupted, Typed, LedgerStates, Issued
<1>6. results = {i \in Issued : i[1] = id /\ ledger[i] # "absent"}
  BY <1>2, <1>5 DEF Results
<1>7. /\ R \subseteq {i \in Issued : i[1] = id /\ ledger[i] # "absent"}
      /\ ReportsResults => R = {i \in Issued : i[1] = id /\ ledger[i] # "absent"}
      /\ R \subseteq Issued
  BY <1>6 DEF Reports
<1>8. IsFiniteSet(R)
  BY <1>1, <1>7, LedgerOfIsFinite
<1>9. /\ deliveries' \in [Deliverable -> Row]
      /\ deliveries'[e].status = "succeeded" /\ deliveries'[e].id = id
      /\ \A d \in Deliverable : d # e =>
           IF d \in R /\ deliveries[d].status = "absent"
             THEN deliveries'[d].status = "pending" /\ deliveries'[d].id = 0
             ELSE deliveries'[d] = deliveries[d]
  <2>. DEFINE D == [j \in Issued |-> work[w].depth + 1]
              rows == Enqueued(deliveries, R, D)
  <2>1. work[w].depth + 1 \in Nat
    BY <1>1 DEF Work
  <2>2. \A i \in R : D[i] \in Nat
    BY <1>7, <2>1
  <2>3. deliveries' = Settled(rows, {e})
    BY <1>4
  <2>. HIDE DEF R, D
  <2>4. /\ rows \in [Deliverable -> Row]
        /\ \A d \in Deliverable :
             IF d \in R /\ deliveries[d].status = "absent"
               THEN rows[d].status = "pending" /\ rows[d].id = 0
               ELSE rows[d] = deliveries[d]
    BY <1>7, <2>2, EnqueuedRows
  <2>. HIDE DEF rows
  <2>5. /\ deliveries' \in [Deliverable -> Row]
        /\ \A d \in Deliverable :
             IF d = e THEN deliveries'[d].status = "succeeded" /\ deliveries'[d].id = rows[d].id
                      ELSE deliveries'[d] = rows[d]
    BY <2>3, <2>4, SettledRows
  <2>6. rows[e] = deliveries[e]
    BY <1>2, <2>4
  <2>. QED  BY <1>2, <2>4, <2>5, <2>6
<1>. HIDE DEF R, results
<1>10. PICK q \in Envelopes(w, R) : Advance(w, q, plugin)
  BY <1>4
<1>11. /\ q \in Seq(Queued)
       /\ \A n \in 1..Len(q) : q[n].event \in R
  BY <1>7, <1>8, EnvelopesTyped
<1>12. Became(w, Advanced(w, q, plugin))
  BY <1>10, <1>11, AdvancedRests
<1>13. UNCHANGED <<revision, host, plugin, recovery, drawn, performed, failed_at>>
  BY <1>4 DEF LoseResult
<1>14. Typed'
  <2>1. health' \in [exists : BOOLEAN, failures : Nat, open : BOOLEAN, generation : Nat]
    BY <1>4, ResetTyped
  <2>2. spent' \in Counts
    BY DEF LoseResult, Spend, Typed, Counts
  <2>. QED  BY <1>5, <1>9, <1>12, <1>13, <2>1, <2>2 DEF Typed, Became
<1>15. Monotone
  BY <1>2, <1>9 DEF Monotone
<1>16. \A n \in 1..Len(q) : deliveries'[q[n].event].status # "absent"
  <2>1. \A i \in R : i \in Deliverable
    BY <1>7, Constants
  <2>. QED  BY <1>9, <1>11, <2>1
<1>17. WorkSound(w)' /\ Advanced(w, q, plugin).id = 0
  BY <1>10, <1>11, <1>14, <1>15, <1>16, AdvancedSound
<1>18. Tame
  <2>1. \A v \in Workers : work'[v].id \in {0, work[v].id}
    BY <1>12, <1>17 DEF Became
  <2>2. \A d \in Deliverable : d \in R => d \in Issued /\ ledger[d] # "absent"
    BY <1>7
  <2>. QED  BY <1>2, <1>5, <1>9, <1>13, <2>1, <2>2 DEF Tame
<1>19. ASSUME NEW v \in Workers, v # w
       PROVE  Apart(v)
  <2>1. work'[v] = work[v]
    BY <1>12, <1>19 DEF Became
  <2>2. ASSUME Acting(v)
        PROVE  /\ deliveries'[work[v].event] = deliveries[work[v].event]
               /\ \A c \in Commands :
                    /\ ledger'[<<work[v].id, c>>] = ledger[<<work[v].id, c>>]
                    /\ deliveries[<<work[v].id, c>>].status = "absent"
                         => deliveries'[<<work[v].id, c>>] = deliveries[<<work[v].id, c>>]
    <3>1. /\ work[v].event \in Deliverable /\ work[v].event # e /\ work[v].id # id
          /\ deliveries[work[v].event].status # "absent"
          /\ \A c \in Commands : <<work[v].id, c>> \in Issued
      BY <1>0, <1>1, <1>19, <2>2, DistinctWork, ActingHasId
    <3>2. ASSUME NEW c \in Commands
          PROVE  /\ <<work[v].id, c>> \in Issued /\ <<work[v].id, c>> \in Deliverable
                 /\ <<work[v].id, c>>[1] # id /\ <<work[v].id, c>> \notin R
      BY <1>7, <3>1, Constants
    <3>3. \A c \in Commands : ledger'[<<work[v].id, c>>] = ledger[<<work[v].id, c>>]
      BY <1>5, <3>2
    <3>4. \A c \in Commands : deliveries[<<work[v].id, c>>].status = "absent"
             => deliveries'[<<work[v].id, c>>] = deliveries[<<work[v].id, c>>]
      BY <1>2, <1>9, <3>2
    <3>. QED  BY <1>9, <3>1, <3>3, <3>4
  <2>. QED  BY <1>13, <2>1, <2>2 DEF Apart
<1>20. Complete(e)'
  <2>1. ASSUME NEW c \in Commands, ledger'[<<id, c>>] # "absent"
        PROVE  /\ ledger'[<<id, c>>] # "pending"
               /\ ReportsResults => deliveries'[<<id, c>>].status # "absent"
    <3>1. <<id, c>> \in Issued /\ <<id, c>> \in Deliverable /\ <<id, c>>[1] = id
      BY <1>2, Constants
    <3>2. ReportsResults => <<id, c>> \in R
      BY <1>5, <1>7, <2>1, <3>1
    <3>. QED  BY <1>5, <1>9, <3>1, <3>2
  <2>. QED  BY <1>9, <2>1 DEF Complete
<1>21. \A d \in Deliverable :
         deliveries'[d].status = "succeeded" /\ deliveries[d].status # "succeeded"
           => Complete(d)'
  <2>1. \A d \in Deliverable :
          deliveries'[d].status = "succeeded" /\ deliveries[d].status # "succeeded" => d = e
    BY <1>9
  <2>. QED  BY <1>20, <2>1
<1>. QED  BY <1>1, <1>13, <1>14, <1>17, <1>18, <1>19, <1>21, WorkerKeeps

----------------------------------------------------------------------------
(* Beginning a delivery and committing its output *)

\* A delivery that is new or pending gets an identifier that nobody has.
LEMMA DrawKeeps ==
  ASSUME IInv, Typed', NEW w \in Workers, At(w, "begin"),
         NEW e \in Deliverable, MayBegin(deliveries[e]),
         deliveries[e].status = "absent" => e \in Events,
         deliveries'[e].id = drawn + 1,
         deliveries'[e].status \in {"running", "dead_letter"},
         \A d \in Deliverable : d # e => deliveries'[d] = deliveries[d],
         drawn' = drawn + 1,
         UNCHANGED <<ledger, performed, host, recovery>>,
         \A v \in Workers : v # w => work'[v] = work[v],
         work'[w].id \in {0, drawn + 1},
         WorkSound(w)'
  PROVE  IInv'
<1>. USE DEF IInv
<1>1. /\ drawn \in Nat /\ \A d \in Deliverable : deliveries[d].id \in Nat
      /\ \A v \in Workers : work[v].id \in Nat
  <2>1. \A d \in Deliverable : deliveries[d] \in Row
    BY DEF Typed
  <2>2. \A v \in Workers : work[v] \in Work
    BY DEF Typed
  <2>3. drawn \in Nat
    BY DEF Typed
  <2>. QED  BY <2>1, <2>2, <2>3 DEF Row, Work
<1>2. ~At(w, "idle") /\ deliveries[e].status \in {"absent", "pending"}
  BY DEF At, MayBegin
<1>3. IdsAreUnique'
  <2>1. ASSUME NEW d \in Deliverable
        PROVE  /\ deliveries'[d].id <= drawn'
               /\ deliveries'[d].status \in {"running", "committed", "succeeded"}
                    => deliveries'[d].id # 0
    <3>1. deliveries[d].id <= drawn
      BY DEF IdsAreUnique
    <3>. QED  BY <1>1, <3>1 DEF IdsAreUnique
  <2>2. ASSUME NEW c \in Deliverable, NEW d \in Deliverable,
               deliveries'[c].id = deliveries'[d].id, deliveries'[c].id # 0
        PROVE  c = d
    <3>1. \A b \in Deliverable : deliveries[b].id # drawn + 1
      BY <1>1 DEF IdsAreUnique
    <3>. QED  BY <2>2, <3>1 DEF IdsAreUnique
  <2>3. ASSUME NEW v \in Workers
        PROVE  work'[v].id <= drawn'
    <3>1. work[v].id <= drawn
      BY DEF IdsAreUnique
    <3>. QED  BY <1>1, <3>1
  <2>4. ASSUME NEW u \in Workers, NEW v \in Workers,
               work'[u].id = work'[v].id, work'[u].id # 0
        PROVE  u = v
    <3>1. \A x \in Workers : work[x].id # drawn + 1
      BY <1>1 DEF IdsAreUnique
    <3>. QED  BY <2>4, <3>1 DEF IdsAreUnique
  <2>. QED  BY <2>1, <2>2, <2>3, <2>4 DEF IdsAreUnique
<1>4. \A i \in Issued : deliveries'[i].status # "absent" => deliveries[i].status # "absent"
  BY Constants
<1>5. LedgerKept'
  <2>1. ASSUME NEW i \in Issued, ledger'[i] # "absent"
        PROVE  \E d \in Deliverable : /\ deliveries'[d].id = i[1]
                                      /\ deliveries'[d].status \in {"committed", "succeeded"}
    <3>1. PICK d \in Deliverable : /\ deliveries[d].id = i[1]
                                   /\ deliveries[d].status \in {"committed", "succeeded"}
      BY <2>1 DEF LedgerKept
    <3>2. d # e
      BY <1>2, <3>1
    <3>. QED  BY <3>1, <3>2
  <2>2. ASSUME NEW i \in Issued
        PROVE  /\ performed'[i] # 0 => ledger'[i] # "absent"
               /\ deliveries'[i].status # "absent" => ledger'[i] # "absent"
    BY <1>4 DEF LedgerKept
  <2>. QED  BY <2>1, <2>2 DEF LedgerKept
<1>6. Monotone
  BY DEF Monotone
<1>7. ResultsBeforeSuccess'
  <2>1. ASSUME NEW d \in Deliverable, NEW c \in Commands, deliveries'[d].status = "succeeded",
               <<deliveries'[d].id, c>> \in Issued, ledger'[<<deliveries'[d].id, c>>] # "absent"
        PROVE  /\ ledger'[<<deliveries'[d].id, c>>] # "pending"
               /\ ReportsResults => deliveries'[<<deliveries'[d].id, c>>].status # "absent"
    <3>1. deliveries'[d] = deliveries[d]
      BY <2>1
    <3>2. /\ ledger[<<deliveries'[d].id, c>>] # "pending"
          /\ ReportsResults => deliveries[<<deliveries'[d].id, c>>].status # "absent"
      BY <2>1, <3>1 DEF ResultsBeforeSuccess
    <3>. QED  BY <1>6, <2>1, <3>2, Constants DEF Monotone
  <2>. QED  BY <2>1 DEF ResultsBeforeSuccess
<1>8. ASSUME NEW v \in Workers, v # w
      PROVE  Apart(v)
  <2>1. ASSUME Acting(v)
        PROVE  /\ deliveries'[work[v].event] = deliveries[work[v].event]
               /\ \A c \in Commands : deliveries[<<work[v].id, c>>].status = "absent"
                     => deliveries'[<<work[v].id, c>>].status = "absent"
    <3>1. /\ work[v].event \in Deliverable /\ work[v].event # e
          /\ \A c \in Commands : <<work[v].id, c>> \in Issued
      BY <1>2, <2>1, ActingHasId
    <3>. QED  BY <1>4, <3>1
  <2>. QED  BY <1>8, <2>1 DEF Apart
<1>9. \A v \in Workers : WorkSound(v)'
  BY <1>6, <1>8, ApartKeeps
<1>10. RegistrationKept'
  BY <1>2, <1>6, ServingKeeps DEF Typed
<1>. QED  BY <1>3, <1>5, <1>7, <1>9, <1>10

LEMMA BeginKeeps ==
  ASSUME IInv, NEW w \in Workers, Begin(w)
  PROVE  IInv'
<1>. USE DEF IInv
<1>1. /\ At(w, "begin") /\ ~At(w, "idle") /\ work[w] \in Work /\ ~Acting(w)
  BY DEF Begin, At, Typed, Acting
<1>2. PICK e \in Deliverable : e = work[w].event
  BY <1>1 DEF WorkSound, EventsExist
<1>3. CASE ~MayBegin(deliveries[e])
  <2>1. plugin \in {"Draining", "Ready", "Disabled"}
    BY DEF Typed
  <2>. QED  BY <1>1, <1>2, <1>3, <2>1, PassesOver DEF Begin
<1>4. CASE MayBegin(deliveries[e])
  <2>1. /\ drawn < MaxInvocations
        /\ drawn' = drawn + 1
        /\ deliveries' = [deliveries EXCEPT ![e] =
                            Begun(deliveries[e], drawn + 1, work[w].depth)]
        /\ work' = [work EXCEPT ![w].pc = "invoke", ![w].id = drawn + 1,
                                ![w].snapshot = revision]
    BY <1>2, <1>4 DEF Begin
  <2>2. UNCHANGED <<ledger, health, revision, host, plugin, recovery, performed, failed_at, spent>>
    BY DEF Begin
  <2>. DEFINE r == [[[work[w] EXCEPT !.pc = "invoke"] EXCEPT !.id = drawn + 1]
                      EXCEPT !.snapshot = revision]
  <2>3. /\ drawn \in Nat /\ drawn + 1 \in 0..MaxInvocations /\ revision \in Nat
        /\ deliveries[e] \in Row /\ health.generation \in Nat /\ work[w].depth \in Nat
        /\ \A n \in 0..drawn : n \in 0..(drawn + 1)
        /\ drawn + 1 # 0
    BY <1>1, <2>1, Constants, SMTT(30) DEF Typed, Work
  <2>4. /\ Begun(deliveries[e], drawn + 1, work[w].depth) \in Row
        /\ Begun(deliveries[e], drawn + 1, work[w].depth).id = drawn + 1
        /\ Begun(deliveries[e], drawn + 1, work[w].depth).status = "running"
    BY <2>3 DEF Begun, Row
  <2>5. /\ deliveries' \in [Deliverable -> Row]
        /\ deliveries'[e].id = drawn + 1 /\ deliveries'[e].status = "running"
        /\ \A d \in Deliverable : d # e => deliveries'[d] = deliveries[d]
    BY <2>1, <2>4 DEF Typed
  <2>6. r \in Work
    <3>1. \A x \in Work, n, m \in Nat :
            [[[x EXCEPT !.pc = "invoke"] EXCEPT !.id = n] EXCEPT !.snapshot = m] \in Work
      BY DEF Work, Steps
    <3>2. drawn + 1 \in Nat
      BY <2>3
    <3>. QED  BY <1>1, <2>3, <3>1, <3>2
  <2>7. work' = [work EXCEPT ![w] = r]
    BY <1>1, <2>1 DEF Work
  <2>8. Became(w, r)
    BY <2>6, <2>7, Becomes
  <2>9. Typed'
    BY <2>1, <2>2, <2>3, <2>5, <2>8 DEF Typed, Became
  <2>10. /\ work'[w].pc = "invoke" /\ work'[w].event = e /\ work'[w].id = drawn + 1
         /\ work'[w].depth = work[w].depth
         /\ work'[w].results = work[w].results /\ work'[w].queue = work[w].queue
    <3>1. work'[w] = r
      BY <2>8 DEF Became
    <3>. QED  BY <1>1, <1>2, <3>1 DEF Work
  <2>11. WorkSound(w)'
    <3>1. work[w].results = <<>>
      BY <1>1 DEF WorkSound, CommandsKept, At
    <3>2. Monotone
      BY <2>5 DEF Monotone
    <3>3. \A n \in 1..Len(work[w].queue) : deliveries'[work[w].queue[n].event].status # "absent"
      <4>1. work[w].queue \in Seq(Queued)
        BY <1>1 DEF Work
      <4>2. \A n \in 1..Len(work[w].queue) : work[w].queue[n].event \in Deliverable
        BY <4>1, QueueMember
      <4>. QED  BY <3>2, <4>2 DEF WorkSound, EventsExist, Monotone
    <3>4. EventsExist(w)'
      BY <2>5, <2>10, <3>3 DEF EventsExist, At
    <3>5. HasDelivery(w)'
      BY <2>3, <2>5, <2>10 DEF HasDelivery, At
    <3>6. CommandsKept(w)'
      BY <2>10, <3>1 DEF CommandsKept, At, Done
    <3>. QED  BY <3>4, <3>5, <3>6 DEF WorkSound
  <2>12. deliveries[e].status = "absent" => e \in Events
    BY <1>1, <1>2 DEF WorkSound, EventsExist
  <2>. QED  BY <1>1, <1>4, <2>1, <2>2, <2>5, <2>8, <2>9, <2>10, <2>11, <2>12, DrawKeeps
            DEF Became
<1>. QED  BY <1>3, <1>4

\* The chain of completions is cut: the delivery is a dead letter at once.
LEMMA RejectKeeps ==
  ASSUME IInv, NEW w \in Workers, Reject(w)
  PROVE  IInv'
<1>. USE DEF IInv
<1>1. /\ At(w, "begin") /\ ~At(w, "idle") /\ work[w] \in Work
      /\ plugin' = "Disabled" /\ Advance(w, <<>>, "Disabled")
      /\ UNCHANGED <<ledger, revision, host, recovery, performed, spent>>
  BY DEF Reject, At, Typed
<1>2. PICK e \in Deliverable : e = work[w].event
  BY <1>1 DEF WorkSound, EventsExist
<1>3. CASE ~MayBegin(deliveries[e])
  BY <1>1, <1>2, <1>3, PassesOver DEF Reject
<1>4. CASE MayBegin(deliveries[e])
  <2>1. /\ drawn < MaxInvocations
        /\ drawn' = drawn + 1
        /\ deliveries' = [deliveries EXCEPT ![e] =
             [Begun(deliveries[e], drawn + 1, work[w].depth) EXCEPT !.status = "dead_letter"]]
        /\ health' = Counted(1)
        /\ failed_at' = drawn + 1
    BY <1>2, <1>4 DEF Reject
  <2>2. /\ drawn \in Nat /\ drawn + 1 \in 0..MaxInvocations
        /\ deliveries[e] \in Row /\ health.generation \in Nat /\ work[w].depth \in Nat
        /\ drawn + 1 \in 0..(drawn + 1)
    BY <1>1, <2>1, Constants, SMTT(30) DEF Typed, Work
  <2>. DEFINE row == [Begun(deliveries[e], drawn + 1, work[w].depth) EXCEPT !.status = "dead_letter"]
  <2>3. row \in Row /\ row.id = drawn + 1 /\ row.status = "dead_letter"
    <3>1. /\ drawn + 1 \in Nat /\ deliveries[e].attempt + 1 \in Nat
          /\ health.generation \in Nat /\ work[w].depth \in Nat
      BY <2>2 DEF Row
    <3>2. /\ Begun(deliveries[e], drawn + 1, work[w].depth) \in Row
          /\ Begun(deliveries[e], drawn + 1, work[w].depth).id = drawn + 1
      BY <2>2, <3>1 DEF Begun, Row
    <3>3. \A x \in Row : /\ [x EXCEPT !.status = "dead_letter"] \in Row
                        /\ [x EXCEPT !.status = "dead_letter"].id = x.id
                        /\ [x EXCEPT !.status = "dead_letter"].status = "dead_letter"
      BY DEF Row
    <3>. QED  BY <3>2, <3>3
  <2>4. /\ deliveries' \in [Deliverable -> Row]
        /\ deliveries'[e].id = drawn + 1 /\ deliveries'[e].status = "dead_letter"
        /\ \A d \in Deliverable : d # e => deliveries'[d] = deliveries[d]
    <3>. HIDE DEF row
    <3>. QED  BY <2>1, <2>3 DEF Typed, row
  <2>5. Became(w, Advanced(w, <<>>, "Disabled"))
    BY <1>1, NothingReported, AdvancedRests
  <2>6. Typed'
    <3>1. health' \in [exists : BOOLEAN, failures : Nat, open : BOOLEAN, generation : Nat]
      BY <2>1, CountedTyped
    <3>. QED  BY <1>1, <2>1, <2>2, <2>4, <2>5, <3>1 DEF Typed, Became
  <2>7. Monotone
    BY <2>4 DEF Monotone
  <2>8. WorkSound(w)' /\ Advanced(w, <<>>, "Disabled").id = 0
    BY <1>1, <2>6, <2>7, NothingReported, AdvancedSound
  <2>9. deliveries[e].status = "absent" => e \in Events
    BY <1>1, <1>2 DEF WorkSound, EventsExist
  <2>. QED  BY <1>1, <1>4, <2>1, <2>4, <2>5, <2>6, <2>8, <2>9, DrawKeeps DEF Became
<1>. QED  BY <1>3, <1>4

\* The commands of an invocation that commits its output are new, and so is
\* every key among them: commit() looks the keys up in the ledger.
LEMMA NothingIssued ==
  ASSUME IInv, NEW w \in Workers, At(w, "invoke"), NEW c \in Commands
  PROVE  /\ <<work[w].id, c>> \in Issued
         /\ ledger[<<work[w].id, c>>] = "absent"
         /\ performed[<<work[w].id, c>>] = 0
         /\ deliveries[<<work[w].id, c>>].status = "absent"
<1>. DEFINE i == <<work[w].id, c>>
<1>1. /\ Acting(w) /\ i \in Issued /\ work[w].id # 0
      /\ work[w].event \in Deliverable
      /\ deliveries[work[w].event].id = work[w].id
      /\ deliveries[work[w].event].status = "running"
  BY ActingHasId DEF IInv, Acting, At, WorkSound, HasDelivery
<1>2. ledger[i] = "absent"
  <2>1. SUFFICES ASSUME ledger[i] # "absent"
                 PROVE  FALSE
    OBVIOUS
  <2>2. PICK d \in Deliverable : /\ deliveries[d].id = i[1]
                                 /\ deliveries[d].status \in {"committed", "succeeded"}
    BY <1>1, <2>1 DEF IInv, LedgerKept
  <2>3. d = work[w].event
    BY <1>1, <2>2 DEF IInv, IdsAreUnique
  <2>. QED  BY <1>1, <2>2, <2>3
<1>. QED  BY <1>1, <1>2 DEF IInv, LedgerKept

LEMMA IssuedKeys ==
  ASSUME IInv, NEW w \in Workers, At(w, "invoke"), NEW s \in Seq(Commands),
         ~IdempotencyConflict(s), s # <<>> => Replayed(s) = {},
         NEW i \in Issued, NEW j \in Issued,
         ledger[i] # "absent" \/ \E n \in 1..Len(s) : i = <<work[w].id, s[n]>>,
         ledger[j] # "absent" \/ \E n \in 1..Len(s) : j = <<work[w].id, s[n]>>,
         Key[i[2]] = Key[j[2]], Key[i[2]] # NoKey
  PROVE  i = j
<1>1. \A n \in 1..Len(s) : Known(s[n]) = {}
  <2>1. CASE s = <<>>
    <3>1. \A n \in 1..Len(s) : FALSE
      BY <2>1, NothingReported
    <3>. QED  BY <3>1
  <2>2. CASE s # <<>>
    <3>1. \A n \in 1..Len(s) : n \notin Replayed(s)
      BY <2>2
    <3>. QED  BY <3>1 DEF Replayed
  <2>. QED  BY <2>1, <2>2
<1>2. \A n \in 1..Len(s), k \in Issued :
        ledger[k] # "absent" /\ Key[s[n]] # NoKey => Key[k[2]] # Key[s[n]]
  BY <1>1 DEF Known
<1>3. CASE ledger[i] # "absent" /\ ledger[j] # "absent"
  BY <1>3 DEF IInv, LedgerKept
<1>4. ASSUME NEW n \in 1..Len(s), i = <<work[w].id, s[n]>>
      PROVE  i = j
  <2>1. ledger[j] = "absent"
    BY <1>2, <1>4
  <2>2. PICK m \in 1..Len(s) : j = <<work[w].id, s[m]>>
    BY <2>1
  <2>3. m = n
    BY <1>4, <2>2 DEF IdempotencyConflict
  <2>. QED  BY <1>4, <2>2, <2>3
<1>5. ASSUME NEW n \in 1..Len(s), j = <<work[w].id, s[n]>>, ledger[i] # "absent"
      PROVE  i = j
  BY <1>2, <1>5
<1>. QED  BY <1>3, <1>4, <1>5

LEMMA CommitOutputKeeps ==
  ASSUME IInv, NEW w \in Workers, NEW o \in Outputs, At(w, "invoke"), CommitOutput(w, o),
         UNCHANGED <<host, recovery, drawn, performed, spent>>
  PROVE  IInv'
<1>. USE DEF IInv
<1>. DEFINE id    == work[w].id
            issue == IF Replayed(o.commands) # {} THEN <<>> ELSE o.commands
            r     == [[work[w] EXCEPT !.pc = "execute"] EXCEPT !.todo = issue]
<1>0. PICK e \in Deliverable : e = work[w].event
  BY ActingHasId DEF At, Acting
<1>1. /\ ~At(w, "idle") /\ Acting(w) /\ work[w] \in Work /\ work[w].pc = "invoke"
      /\ deliveries[e].id = id /\ deliveries[e].status = "running" /\ id # 0
      /\ deliveries[e] \in Row
  BY <1>0, ActingHasId DEF At, Acting, Typed, WorkSound, HasDelivery
<1>2. \A c \in Commands : /\ <<id, c>> \in Issued
                          /\ ledger[<<id, c>>] = "absent"
                          /\ performed[<<id, c>>] = 0
                          /\ deliveries[<<id, c>>].status = "absent"
                          /\ <<id, c>> # e
  BY <1>1, NothingIssued
<1>3. /\ issue \in Seq(Commands)
      /\ ~IdempotencyConflict(issue)
      /\ issue # <<>> => Replayed(issue) = {}
      /\ \A m, n \in 1..Len(issue) : issue[m] = issue[n] => m = n
      /\ \A n \in 1..Len(issue) : issue[n] \in Commands
  <2>1. CASE Replayed(o.commands) # {}
    <3>1. issue = <<>> /\ issue \in Seq(Commands) /\ \A n \in 1..Len(issue) : FALSE
      BY <2>1, NothingReported, EmptySeq
    <3>. HIDE DEF issue
    <3>2. Replayed(issue) = {}
      BY <3>1 DEF Replayed
    <3>3. ~IdempotencyConflict(issue)
      BY <3>1, <3>2 DEF IdempotencyConflict
    <3>4. \A m, n \in 1..Len(issue) : issue[m] = issue[n] => m = n
      BY <3>1
    <3>5. \A n \in 1..Len(issue) : issue[n] \in Commands
      BY <3>1
    <3>. QED  BY <3>1, <3>2, <3>3, <3>4, <3>5
  <2>2. CASE Replayed(o.commands) = {}
    <3>1. issue = o.commands /\ o.commands \in Seq(Commands)
      BY <2>2, Constants
    <3>2. \A n \in 1..Len(o.commands) : o.commands[n] \in Commands
      BY <3>1, ElementOfSeq
    <3>. QED  BY <2>2, <3>1, <3>2, DeliveryAssumption DEF CommitOutput
  <2>. QED  BY <2>1, <2>2
<1>4. /\ deliveries' = [deliveries EXCEPT ![e].status = "committed"]
      /\ ledger' = [i \in Issued |->
                      IF \E n \in 1..Len(issue) : i = <<id, issue[n]>>
                        THEN "pending" ELSE ledger[i]]
      /\ revision' \in {revision, revision + 1}
      /\ work' = [work EXCEPT ![w].pc = "execute", ![w].todo = issue]
      /\ UNCHANGED <<health, plugin, failed_at>>
  BY <1>0 DEF CommitOutput
<1>. HIDE DEF issue
<1>5. /\ deliveries' \in [Deliverable -> Row]
      /\ deliveries'[e].status = "committed" /\ deliveries'[e].id = id
      /\ \A d \in Deliverable : d # e => deliveries'[d] = deliveries[d]
  <2>1. deliveries \in [Deliverable -> Row]
    BY DEF Typed
  <2>. QED  BY <1>1, <1>4, <2>1 DEF Row
<1>6. /\ ledger' \in [Issued -> LedgerStates]
      /\ \A i \in Issued :
           /\ \A n \in 1..Len(issue) : i = <<id, issue[n]>> => ledger'[i] = "pending"
           /\ ledger'[i] = ledger[i] \/ (ledger'[i] = "pending" /\ i[1] = id)
           /\ ledger'[i] # "absent" => ledger[i] # "absent"
                                       \/ \E n \in 1..Len(issue) : i = <<id, issue[n]>>
           /\ ledger[i] # "absent" => ledger'[i] # "absent"
  BY <1>4 DEF Typed, LedgerStates
<1>7. r \in Work
  <2>1. \A x \in Work, s \in Seq(Commands) :
          [[x EXCEPT !.pc = "execute"] EXCEPT !.todo = s] \in Work
    BY DEF Work, Steps
  <2>. QED  BY <1>1, <1>3, <2>1
<1>8. Became(w, r)
  <2>1. work' = [work EXCEPT ![w] = r]
    BY <1>1, <1>4 DEF Work
  <2>. QED  BY <1>7, <2>1, Becomes
<1>9. /\ work'[w].pc = "execute" /\ work'[w].event = e /\ work'[w].id = id
      /\ work'[w].todo = issue /\ work'[w].depth = work[w].depth
      /\ work'[w].results = <<>> /\ work'[w].queue = work[w].queue
  <2>1. work'[w] = r
    BY <1>8 DEF Became
  <2>2. work[w].results = <<>>
    BY <1>1 DEF WorkSound, CommandsKept
  <2>. QED  BY <1>0, <1>1, <2>1, <2>2 DEF Work
<1>10. Typed'
  <2>1. revision' \in Nat
    BY <1>4 DEF Typed
  <2>. QED  BY <1>4, <1>5, <1>6, <1>8, <2>1 DEF Typed, Became
<1>11. Monotone
  BY <1>5 DEF Monotone
<1>12. IdsAreUnique'
  <2>1. /\ \A d \in Deliverable : deliveries'[d].id = deliveries[d].id
        /\ \A d \in Deliverable :
             deliveries'[d].status \in {"running", "committed", "succeeded"}
               => deliveries[d].status \in {"running", "committed", "succeeded"}
    BY <1>1, <1>5
  <2>2. \A v \in Workers : work'[v].id = work[v].id
    BY <1>8, <1>9 DEF Became
  <2>. QED  BY <2>1, <2>2 DEF IdsAreUnique
<1>13. LedgerKept'
  <2>1. ASSUME NEW i \in Issued, ledger'[i] # "absent"
        PROVE  \E d \in Deliverable : /\ deliveries'[d].id = i[1]
                                      /\ deliveries'[d].status \in {"committed", "succeeded"}
    <3>1. CASE ledger[i] # "absent"
      <4>1. PICK d \in Deliverable : /\ deliveries[d].id = i[1]
                                     /\ deliveries[d].status \in {"committed", "succeeded"}
        BY <3>1 DEF LedgerKept
      <4>2. d # e
        BY <1>1, <4>1
      <4>. QED  BY <1>5, <4>1, <4>2
    <3>2. CASE ledger[i] = "absent"
      <4>1. i[1] = id
        BY <1>6, <2>1, <3>2
      <4>. QED  BY <1>5, <4>1
    <3>. QED  BY <3>1, <3>2
  <2>2. ASSUME NEW i \in Issued
        PROVE  /\ performed'[i] # 0 => ledger'[i] # "absent"
               /\ deliveries'[i].status # "absent" => ledger'[i] # "absent"
    <3>1. deliveries'[i].status # "absent" => deliveries[i].status # "absent"
      BY <1>1, <1>5, Constants
    <3>. QED  BY <1>6, <3>1 DEF LedgerKept
  <2>3. ASSUME NEW i \in Issued, NEW j \in Issued,
               ledger'[i] # "absent", ledger'[j] # "absent",
               Key[i[2]] = Key[j[2]], Key[i[2]] # NoKey
        PROVE  i = j
    <3>1. /\ ledger[i] # "absent" \/ \E n \in 1..Len(issue) : i = <<id, issue[n]>>
          /\ ledger[j] # "absent" \/ \E n \in 1..Len(issue) : j = <<id, issue[n]>>
      BY <1>6, <2>3
    <3>. QED  BY <1>3, <2>3, <3>1, IssuedKeys
  <2>. QED  BY <2>1, <2>2, <2>3 DEF LedgerKept
<1>14. ResultsBeforeSuccess'
  <2>1. ASSUME NEW d \in Deliverable, NEW c \in Commands, deliveries'[d].status = "succeeded",
               <<deliveries'[d].id, c>> \in Issued, ledger'[<<deliveries'[d].id, c>>] # "absent"
        PROVE  /\ ledger'[<<deliveries'[d].id, c>>] # "pending"
               /\ ReportsResults => deliveries'[<<deliveries'[d].id, c>>].status # "absent"
    <3>1. d # e /\ deliveries'[d] = deliveries[d] /\ deliveries[d].status = "succeeded"
      BY <1>5, <2>1
    <3>2. deliveries[d].id # id
      BY <1>1, <3>1 DEF IdsAreUnique
    <3>3. PICK i \in Issued : i = <<deliveries[d].id, c>>
      BY <2>1, <3>1
    <3>4. ledger'[i] = ledger[i] /\ i \in Deliverable
      BY <1>6, <3>2, <3>3, Constants
    <3>5. /\ ledger[i] # "pending"
          /\ ReportsResults => deliveries[i].status # "absent"
      BY <2>1, <3>1, <3>3, <3>4 DEF ResultsBeforeSuccess
    <3>. QED  BY <1>11, <3>1, <3>3, <3>4, <3>5 DEF Monotone
  <2>. QED  BY <2>1 DEF ResultsBeforeSuccess
<1>15. ASSUME NEW v \in Workers, v # w
       PROVE  Apart(v)
  <2>1. work'[v] = work[v]
    BY <1>8, <1>15 DEF Became
  <2>2. ASSUME Acting(v)
        PROVE  /\ deliveries'[work[v].event] = deliveries[work[v].event]
               /\ \A c \in Commands :
                    /\ ledger'[<<work[v].id, c>>] = ledger[<<work[v].id, c>>]
                    /\ deliveries[<<work[v].id, c>>].status = "absent"
                         => deliveries'[<<work[v].id, c>>] = deliveries[<<work[v].id, c>>]
    <3>1. /\ work[v].event \in Deliverable /\ work[v].event # e /\ work[v].id # id
          /\ \A c \in Commands : <<work[v].id, c>> \in Issued
      BY <1>0, <1>1, <1>15, <2>2, DistinctWork, ActingHasId
    <3>2. ASSUME NEW c \in Commands
          PROVE  /\ <<work[v].id, c>> \in Issued /\ <<work[v].id, c>> \in Deliverable
                 /\ <<work[v].id, c>>[1] # id
      BY <3>1, Constants
    <3>3. \A c \in Commands : ledger'[<<work[v].id, c>>] = ledger[<<work[v].id, c>>]
      BY <1>6, <3>2
    <3>4. \A c \in Commands : deliveries[<<work[v].id, c>>].status = "absent"
             => deliveries'[<<work[v].id, c>>] = deliveries[<<work[v].id, c>>]
      BY <1>1, <1>5, <3>2
    <3>. QED  BY <1>5, <3>1, <3>3, <3>4
  <2>. QED  BY <2>1, <2>2 DEF Apart
<1>16. WorkSound(w)'
  <2>1. \A n \in 1..Len(work[w].queue) : deliveries'[work[w].queue[n].event].status # "absent"
    <3>1. work[w].queue \in Seq(Queued)
      BY <1>1 DEF Work
    <3>2. \A n \in 1..Len(work[w].queue) : work[w].queue[n].event \in Deliverable
      BY <3>1, QueueMember
    <3>. QED  BY <1>11, <3>2 DEF WorkSound, EventsExist, Monotone
  <2>2. EventsExist(w)'
    BY <1>5, <1>9, <2>1 DEF EventsExist, At
  <2>3. HasDelivery(w)'
    BY <1>1, <1>5, <1>9 DEF HasDelivery, At
  <2>4. \A c \in Commands : deliveries'[<<id, c>>].status = "absent"
    BY <1>2, <1>5, Constants
  <2>5. \A n \in 1..Len(issue) : /\ ledger'[<<id, issue[n]>>] = "pending"
                                 /\ performed'[<<id, issue[n]>>] = 0
    BY <1>2, <1>3, <1>6
  <2>6. \A c \in Commands : ledger'[<<id, c>>] # "absent" =>
          /\ ledger'[<<id, c>>] = "pending"
          /\ \E n \in 1..Len(issue) : c = issue[n]
    BY <1>2, <1>6
  <2>7. Done(w)' = {}
    BY <1>9, NothingReported DEF Done
  <2>8. Todo(w)' = {issue[n] : n \in 1..Len(issue)}
    BY <1>9 DEF Todo
  <2>9. CommandsKept(w)'
    <3>1. \A c \in Commands : ledger'[<<id, c>>] # "absent" =>
            ledger'[<<id, c>>] = "pending" /\ c \in Todo(w)'
      BY <2>6, <2>8
    <3>. QED  BY <1>3, <1>9, <2>4, <2>5, <2>7, <3>1 DEF CommandsKept, At
  <2>. QED  BY <2>2, <2>3, <2>9 DEF WorkSound
<1>17. \A v \in Workers : WorkSound(v)'
  BY <1>11, <1>15, <1>16, ApartKeeps
<1>18. RegistrationKept'
  BY <1>1, <1>8, <1>11, ServingKeeps DEF Typed, Became
<1>. QED  BY <1>10, <1>12, <1>13, <1>14, <1>17, <1>18

LEMMA OutputKeeps ==
  ASSUME IInv, NEW w \in Workers, NEW o \in Outputs, Output(w, o)
  PROVE  IInv'
<1>1. Owns(w, {"running"})
  BY ActingHasId DEF Output, Owns, IInv, Acting, At
<1>2. CASE CommitOutput(w, o)
  BY <1>2, CommitOutputKeeps DEF Output
<1>3. CASE RecordFailure(w, "permanent") /\ revision' = revision
  BY <1>3, RecordFailureKeeps DEF Output
<1>. QED  BY <1>1, <1>2, <1>3 DEF Output, CommitFails

----------------------------------------------------------------------------
(* Steps of no worker: timers, the operator, crashes and the registration *)

LEMMA IdleSound ==
  ASSUME NEW w \in Workers, work'[w] = Idle
  PROVE  WorkSound(w)'
<1>1. \A n \in 1..Len(<<>>) : FALSE
  BY NothingReported
<1>. QED  BY <1>1 DEF WorkSound, EventsExist, HasDelivery, CommandsKept, Acting, Done, At, Idle

\* Rows that are pending or dead letters change, and stay so.
LEMMA WaitingRowsKeep ==
  ASSUME IInv, Typed',
         \A e \in Deliverable :
           /\ deliveries'[e].id = deliveries[e].id
           /\ \/ deliveries'[e].status = deliveries[e].status
              \/ /\ deliveries[e].status = "dead_letter"
                 /\ deliveries'[e].status = "pending",
         UNCHANGED <<ledger, performed, drawn, work, host, recovery>>,
         host # "finalize" \/ \A e \in Deliverable : deliveries'[e].status = deliveries[e].status
  PROVE  IInv'
<1>. USE DEF IInv
<1>1. Tame
  BY DEF Tame
<1>2. Monotone
  BY DEF Monotone
<1>3. ASSUME NEW v \in Workers
      PROVE  Apart(v)
  <2>1. Acting(v) =>
          /\ work[v].event \in Deliverable
          /\ deliveries[work[v].event].status \in {"running", "committed"}
          /\ \A c \in Commands : <<work[v].id, c>> \in Deliverable
    BY ActingHasId, Constants
  <2>. QED  BY <2>1 DEF Apart
<1>4. RegistrationKept'
  <2>1. \A e \in Deliverable :
          deliveries'[e].status = "committed" <=> deliveries[e].status = "committed"
    OBVIOUS
  <2>2. Results(ledger)' = Results(ledger)
    BY <2>1 DEF Results
  <2>3. ASSUME host' = "finalize", ReportsResults
        PROVE  \A i \in Issued : i \in Results(ledger)' => deliveries'[i].status # "absent"
    BY <1>2, <2>2, <2>3, Constants DEF RegistrationKept, Monotone
  <2>4. \A b \in recovery'.backlog : deliveries'[b[1]].status # "absent"
    <3>1. \A b \in recovery.backlog : b[1] \in Deliverable
      BY DEF Typed, Recoveries
    <3>. QED  BY <1>2, <3>1 DEF RegistrationKept, Monotone
  <2>5. /\ host' \notin {"deliver", "up"} => \A w \in Workers : work'[w] = Idle
        /\ host' \in {"reports", "finalize"} => \A i \in Issued : ledger'[i] # "pending"
    BY DEF RegistrationKept
  <2>6. host' = "requeue" => \A e \in Deliverable : deliveries'[e].status # "committed"
    BY <2>1 DEF RegistrationKept
  <2>. QED  BY <2>3, <2>4, <2>5, <2>6 DEF RegistrationKept, At
<1>5. \A e \in Deliverable :
        deliveries'[e].status = "succeeded" => deliveries[e].status = "succeeded"
  OBVIOUS
<1>. QED  BY <1>1, <1>3, <1>4, <1>5, TameKeeps

LEMMA BackoffEndsKeeps ==
  ASSUME IInv, NEW e \in Deliverable, BackoffEnds(e)
  PROVE  IInv'
<1>1. /\ deliveries' \in [Deliverable -> Row]
      /\ \A d \in Deliverable : /\ deliveries'[d].id = deliveries[d].id
                                /\ deliveries'[d].status = deliveries[d].status
  <2>1. deliveries \in [Deliverable -> Row] /\ deliveries' = [deliveries EXCEPT ![e].due = TRUE]
    BY DEF IInv, Typed, BackoffEnds
  <2>. QED  BY <2>1 DEF Row
<1>2. UNCHANGED <<ledger, health, revision, host, plugin, work, recovery, drawn,
                  performed, failed_at, spent>>
  BY DEF BackoffEnds
<1>3. Typed'
  BY <1>1, <1>2 DEF IInv, Typed
<1>. QED  BY <1>1, <1>2, <1>3, WaitingRowsKeep

LEMMA RecoverDeadLettersKeeps ==
  ASSUME IInv, RecoverDeadLetters
  PROVE  IInv'
<1>1. /\ deliveries' \in [Deliverable -> Row]
      /\ \A e \in Deliverable :
           /\ deliveries'[e].id = deliveries[e].id
           /\ \/ deliveries'[e].status = deliveries[e].status
              \/ /\ deliveries[e].status = "dead_letter"
                 /\ deliveries'[e].status = "pending"
  <2>1. deliveries \in [Deliverable -> Row]
    BY DEF IInv, Typed
  <2>. QED  BY <2>1, ZenonT(60) DEF RecoverDeadLetters, Row
<1>2. UNCHANGED <<ledger, revision, host, plugin, work, recovery, drawn,
                  performed, failed_at>>
  BY DEF RecoverDeadLetters
<1>3. health' \in [exists : BOOLEAN, failures : Nat, open : BOOLEAN, generation : Nat]
  <2>1. \A x : (IF x THEN health.generation + 1 ELSE 0) \in Nat
    BY DEF IInv, Typed
  <2>2. PICK n \in Nat : health' = [exists |-> TRUE, failures |-> 0, open |-> FALSE,
                                  generation |-> n]
    BY <2>1, Zenon DEF RecoverDeadLetters
  <2>. QED  BY <2>2
<1>4. spent' \in Counts
  <2>1. spent' = [spent EXCEPT !["reopenings"] = @ + 1]
    BY DEF RecoverDeadLetters, Spend
  <2>. QED  BY <2>1 DEF IInv, Typed, Counts
<1>5. Typed'
  BY <1>1, <1>2, <1>3, <1>4 DEF IInv, Typed
<1>6. host # "finalize"
  BY DEF RecoverDeadLetters
<1>. QED  BY <1>1, <1>2, <1>5, <1>6, WaitingRowsKeep

\* Steps that leave the store as it is, and the workers at rest.
LEMMA RestartKeeps ==
  ASSUME IInv, Typed', UNCHANGED <<deliveries, ledger, performed, drawn>>,
         \A w \in Workers : work'[w] = work[w] \/ work'[w] = Idle,
         RegistrationKept'
  PROVE  IInv'
<1>1. Still
  <2>1. Idle.id = 0
    BY DEF Idle
  <2>. QED  BY <2>1 DEF Still
<1>2. \A v \in Workers : Apart(v) \/ WorkSound(v)'
  BY <1>1, StillIsTame, IdleSound
<1>. QED  BY <1>1, <1>2, StillIsTame, TameKeeps

LEMMA CrashKeeps ==
  ASSUME IInv, Crash
  PROVE  IInv'
<1>. USE DEF IInv
<1>1. Typed'
  BY IdleIsWork, NoRecoveryTyped DEF Crash, Typed, persistent, Spend, Counts, HostStates
<1>2. RegistrationKept'
  BY DEF Crash, RegistrationKept, NoRecovery
<1>. QED  BY <1>1, <1>2, RestartKeeps DEF Crash, persistent

LEMMA RegisterKeeps ==
  ASSUME IInv, Register
  PROVE  IInv'
<1>. USE DEF IInv
<1>1. host' \in {"up", "commands"} /\ plugin' \in {"Ready", "Disabled"}
      /\ UNCHANGED <<persistent, work, recovery, drawn, performed, failed_at, spent>>
      /\ host = "down"
  BY DEF Register
<1>2. Typed'
  BY <1>1 DEF Typed, persistent, HostStates
<1>3. RegistrationKept'
  BY <1>1 DEF RegistrationKept, persistent
<1>. QED  BY <1>1, <1>2, <1>3, RestartKeeps DEF persistent

LEMMA RecoveryEndsKeeps ==
  ASSUME IInv, RecoveryEnds
  PROVE  IInv'
<1>. USE DEF IInv
<1>1. Typed'
  BY NoRecoveryTyped DEF RecoveryEnds, Typed, persistent, HostStates
<1>2. RegistrationKept'
  BY DEF RecoveryEnds, RegistrationKept, persistent, NoRecovery
<1>. QED  BY <1>1, <1>2, RestartKeeps DEF RecoveryEnds, persistent

\* A step of the registration, which begins no delivery: every worker rests.
LEMMA RegistrationStepKeeps ==
  ASSUME IInv, Typed', Tame, host \notin {"deliver", "up"}, work' = work,
         RegistrationKept',
         \A e \in Deliverable :
           deliveries'[e].status = "succeeded" /\ deliveries[e].status # "succeeded"
             => Complete(e)'
  PROVE  IInv'
<1>1. \A v \in Workers : work'[v] = Idle
  BY DEF IInv, RegistrationKept
<1>2. \A v \in Workers : WorkSound(v)'
  BY <1>1, IdleSound
<1>. QED  BY <1>2, TameKeeps

LEMMA InterruptCommandsKeeps ==
  ASSUME IInv, InterruptCommands
  PROVE  IInv'
<1>. USE DEF IInv
<1>1. /\ ledger' \in [Issued -> LedgerStates]
      /\ \A i \in Issued : /\ ledger'[i] = "absent" <=> ledger[i] = "absent"
                           /\ ledger'[i] # "pending"
  BY DEF InterruptCommands, Interrupted, Typed, LedgerStates
<1>2. /\ host = "commands" /\ host' = "reports"
      /\ UNCHANGED <<deliveries, health, revision, plugin, work, recovery, drawn,
                     performed, failed_at, spent>>
  BY DEF InterruptCommands
<1>3. Typed'
  BY <1>1, <1>2 DEF Typed, HostStates
<1>4. Tame
  BY <1>1, <1>2 DEF Tame
<1>5. RegistrationKept'
  BY <1>1, <1>2 DEF RegistrationKept
<1>. QED  BY <1>2, <1>3, <1>4, <1>5, RegistrationStepKeeps

LEMMA RecoverReportsKeeps ==
  ASSUME IInv, RecoverReports
  PROVE  IInv'
<1>. USE DEF IInv
<1>. DEFINE R == Reports(Results(ledger))
<1>1. /\ host = "reports" /\ host' = "finalize"
      /\ UNCHANGED <<ledger, health, revision, plugin, work, recovery, drawn,
                     performed, failed_at, spent>>
      /\ deliveries' = Enqueued(deliveries, R, ReportDepth)
  BY DEF RecoverReports
<1>2. /\ R \subseteq Issued
      /\ \A i \in R : ledger[i] # "absent" /\ i \in Results(ledger)
      /\ ReportsResults => R = Results(ledger)
  BY DEF Reports, Results
<1>3. \A i \in R : ReportDepth[i] \in Nat
  <2>1. ASSUME NEW i \in R
        PROVE  ReportDepth[i] \in Nat
    <3>. DEFINE Owner(e) == /\ deliveries[e].status = "committed"
                            /\ deliveries[e].id = i[1]
    <3>1. \E e \in Deliverable : Owner(e)
      BY <1>2 DEF Results
    <3>2. (CHOOSE e \in Deliverable : Owner(e)) \in Deliverable
      BY <3>1
    <3>3. deliveries[CHOOSE e \in Deliverable : Owner(e)].depth \in Nat
      BY <3>2 DEF Typed, Row
    <3>4. ReportDepth[i] = 1 + deliveries[CHOOSE e \in Deliverable : Owner(e)].depth
      BY DEF ReportDepth
    <3>. HIDE DEF Owner
    <3>. QED  BY <3>3, <3>4
  <2>. QED  BY <2>1
<1>. HIDE DEF R
<1>4. /\ deliveries' \in [Deliverable -> Row]
      /\ \A e \in Deliverable :
           IF e \in R /\ deliveries[e].status = "absent"
             THEN deliveries'[e].status = "pending" /\ deliveries'[e].id = 0
             ELSE deliveries'[e] = deliveries[e]
  BY <1>1, <1>2, <1>3, EnqueuedRows
<1>5. Typed'
  BY <1>1, <1>4 DEF Typed, HostStates
<1>6. Tame
  <2>1. \A e \in Deliverable : e \in R => e \in Issued /\ ledger[e] # "absent"
    BY <1>2
  <2>. QED  BY <1>1, <1>4, <2>1 DEF Tame
<1>7. RegistrationKept'
  <2>1. \A i \in Results(ledger)' : i \in Results(ledger)
    BY <1>1, <1>4 DEF Results
  <2>2. ASSUME ReportsResults, NEW i \in Issued, i \in Results(ledger)'
        PROVE  deliveries'[i].status # "absent"
    <3>1. i \in R /\ i \in Deliverable
      BY <1>2, <2>1, <2>2, Constants
    <3>. QED  BY <1>4, <3>1
  <2>3. \A b \in recovery'.backlog : deliveries'[b[1]].status # "absent"
    <3>1. \A b \in recovery.backlog : b[1] \in Deliverable
      BY DEF Typed, Recoveries
    <3>. QED  BY <1>1, <1>4, <3>1 DEF RegistrationKept
  <2>4. /\ \A w \in Workers : work'[w] = Idle
        /\ \A i \in Issued : ledger'[i] # "pending"
    BY <1>1 DEF RegistrationKept
  <2>. QED  BY <1>1, <2>2, <2>3, <2>4 DEF RegistrationKept
<1>8. \A e \in Deliverable :
        deliveries'[e].status = "succeeded" => deliveries[e].status = "succeeded"
  BY <1>4
<1>. QED  BY <1>1, <1>5, <1>6, <1>7, <1>8, RegistrationStepKeeps

\* A committed delivery succeeds: its commands have results and reports.
LEMMA FinalizeCommittedKeeps ==
  ASSUME IInv, FinalizeCommitted
  PROVE  IInv'
<1>. USE DEF IInv
<1>. DEFINE committed == {e \in Deliverable : deliveries[e].status = "committed"}
<1>1. /\ host = "finalize" /\ host' = "requeue"
      /\ UNCHANGED <<ledger, revision, plugin, work, recovery, drawn, performed,
                     failed_at, spent>>
      /\ deliveries' = Settled(deliveries, committed)
      /\ Reset(health.generation) \/ UNCHANGED health
  BY DEF FinalizeCommitted
<1>2. /\ deliveries' \in [Deliverable -> Row]
      /\ \A e \in Deliverable :
           IF deliveries[e].status = "committed"
             THEN deliveries'[e].status = "succeeded" /\ deliveries'[e].id = deliveries[e].id
             ELSE deliveries'[e] = deliveries[e]
  <2>1. deliveries \in [Deliverable -> Row]
    BY DEF Typed
  <2>. HIDE DEF committed
  <2>2. /\ deliveries' \in [Deliverable -> Row]
        /\ \A e \in Deliverable :
             IF e \in committed
               THEN deliveries'[e].status = "succeeded" /\ deliveries'[e].id = deliveries[e].id
               ELSE deliveries'[e] = deliveries[e]
    BY <1>1, <2>1, SettledRows
  <2>. QED  BY <2>2 DEF committed
<1>3. Typed'
  <2>1. health' \in [exists : BOOLEAN, failures : Nat, open : BOOLEAN, generation : Nat]
    BY <1>1, ResetTyped DEF Typed
  <2>. QED  BY <1>1, <1>2, <2>1 DEF Typed, HostStates
<1>4. Tame
  BY <1>1, <1>2 DEF Tame
<1>5. RegistrationKept'
  <2>1. \A b \in recovery'.backlog : deliveries'[b[1]].status # "absent"
    <3>1. \A b \in recovery.backlog : b[1] \in Deliverable
      BY DEF Typed, Recoveries
    <3>. QED  BY <1>1, <1>2, <3>1 DEF RegistrationKept
  <2>2. \A w \in Workers : work'[w] = Idle
    BY <1>1 DEF RegistrationKept
  <2>3. \A e \in Deliverable : deliveries'[e].status # "committed"
    BY <1>2
  <2>. QED  BY <1>1, <2>1, <2>2, <2>3 DEF RegistrationKept
<1>6. ASSUME NEW e \in Deliverable, deliveries'[e].status = "succeeded",
             deliveries[e].status # "succeeded"
      PROVE  Complete(e)'
  <2>1. deliveries[e].status = "committed" /\ deliveries'[e].id = deliveries[e].id
    BY <1>2, <1>6
  <2>2. ASSUME NEW c \in Commands, NEW i \in Issued, i = <<deliveries[e].id, c>>,
               ledger[i] # "absent"
        PROVE  /\ ledger[i] # "pending"
               /\ ReportsResults => deliveries'[i].status # "absent"
    <3>1. ledger[i] # "pending"
      BY <1>1 DEF RegistrationKept
    <3>2. i \in Results(ledger)
      BY <2>1, <2>2, <3>1 DEF Results
    <3>3. ReportsResults => deliveries[i].status # "absent"
      BY <1>1, <3>2 DEF RegistrationKept
    <3>. QED  BY <1>2, <3>1, <3>3, Constants
  <2>. QED  BY <1>1, <2>1, <2>2 DEF Complete
<1>. QED  BY <1>1, <1>3, <1>4, <1>5, <1>6, RegistrationStepKeeps

\* What was running is to be delivered again.
LEMMA RequeueRunningKeeps ==
  ASSUME IInv, RequeueRunning
  PROVE  IInv'
<1>. USE DEF IInv
<1>1. /\ host = "requeue" /\ host' = "deliver"
      /\ UNCHANGED <<ledger, health, revision, plugin, work, drawn, performed,
                     failed_at, spent>>
      /\ recovery' = [NoRecovery EXCEPT !.backlog = Listed(deliveries')]
      /\ deliveries' = Requeued
  BY DEF RequeueRunning
<1>2. /\ deliveries' \in [Deliverable -> Row]
      /\ \A e \in Deliverable :
           IF deliveries[e].status = "running"
             THEN deliveries'[e].status = "pending" /\ deliveries'[e].id = deliveries[e].id
             ELSE deliveries'[e] = deliveries[e]
  <2>1. deliveries \in [Deliverable -> Row]
    BY DEF Typed
  <2>. QED  BY <1>1, <2>1, ZenonT(60) DEF Requeued, Row
<1>7. /\ recovery' \in Recoveries
      /\ \A b \in recovery'.backlog : deliveries'[b[1]].status = "pending"
  <2>1. \A e \in Deliverable : deliveries'[e].attempt \in Nat
    BY <1>2 DEF Row
  <2>2. /\ Listed(deliveries') \subseteq Deliverable \X Nat
        /\ \A b \in Listed(deliveries') : deliveries'[b[1]].status = "pending"
    BY <2>1 DEF Listed
  <2>. QED  BY <1>1, <2>2, NoRecoveryTyped DEF Recoveries
<1>3. Typed'
  BY <1>1, <1>2, <1>7 DEF Typed, HostStates
<1>4. Tame
  BY <1>1, <1>2 DEF Tame
<1>5. RegistrationKept'
  <2>1. \A b \in recovery'.backlog : deliveries'[b[1]].status # "absent"
    BY <1>7
  <2>2. \A w \in Workers : work'[w] = Idle /\ work'[w].pc = "idle"
    BY <1>1 DEF RegistrationKept, Idle
  <2>. QED  BY <1>1, <2>1, <2>2 DEF RegistrationKept, At
<1>6. \A e \in Deliverable :
        deliveries'[e].status = "succeeded" => deliveries[e].status = "succeeded"
  BY <1>2
<1>. QED  BY <1>1, <1>3, <1>4, <1>5, <1>6, RegistrationStepKeeps

----------------------------------------------------------------------------

LEMMA InitInv == Init => IInv
<1>. SUFFICES ASSUME Init
              PROVE  IInv
  OBVIOUS
<1>. USE DEF Init
<1>1. \A e \in Deliverable : deliveries[e].status = "absent" /\ deliveries[e].id = 0
  OBVIOUS
<1>2. \A w \in Workers : work[w] = Idle
  OBVIOUS
<1>3. Typed
  BY IdleIsWork, NoRecoveryTyped, Constants DEF Typed, Row, LedgerStates, HostStates, Counts
<1>4. IdsAreUnique
  BY <1>1, <1>2 DEF IdsAreUnique, Idle
<1>5. LedgerKept
  BY <1>1, Constants DEF LedgerKept
<1>6. \A w \in Workers : WorkSound(w)
  BY <1>2, NothingReported
     DEF WorkSound, EventsExist, HasDelivery, CommandsKept, Acting, Done, At, Idle
<1>7. RegistrationKept
  BY <1>2 DEF RegistrationKept, NoRecovery
<1>8. ResultsBeforeSuccess
  BY <1>1 DEF ResultsBeforeSuccess
<1>. QED  BY <1>3, <1>4, <1>5, <1>6, <1>7, <1>8 DEF IInv

LEMMA WorkingKeeps ==
  ASSUME IInv, NEW w \in Workers, Working(w)
  PROVE  IInv'
<1>1. CASE Check(w)
  BY <1>1, CheckKeeps
<1>2. CASE Begin(w)
  BY <1>2, BeginKeeps
<1>3. CASE Reject(w)
  BY <1>3, RejectKeeps
<1>4. ASSUME NEW o \in Outputs, Output(w, o)
      PROVE  IInv'
  BY <1>4, OutputKeeps
<1>5. ASSUME NEW kind \in {"retryable", "permanent", "fatal"}, Fail(w, kind)
      PROVE  IInv'
  BY <1>5, FailKeeps
<1>6. CASE StartCommand(w)
  BY <1>6, StartCommandKeeps
<1>7. ASSUME NEW status \in Statuses, FinishCommand(w, status)
      PROVE  IInv'
  BY <1>7, FinishCommandKeeps
<1>8. CASE EnqueueReports(w)
  BY <1>8, EnqueueReportsKeeps
<1>9. CASE Succeed(w)
  BY <1>9, SucceedKeeps
<1>10. CASE Wake(w)
  BY <1>10, WakeKeeps
<1>. QED  BY <1>1, <1>2, <1>3, <1>4, <1>5, <1>6, <1>7, <1>8, <1>9, <1>10
          DEF Working, Invoked

LEMMA StutterKeeps ==
  ASSUME IInv, UNCHANGED vars
  PROVE  IInv'
<1>1. /\ UNCHANGED <<deliveries, ledger, health, revision>>
      /\ UNCHANGED <<host, plugin, work, recovery>>
      /\ UNCHANGED <<drawn, performed, failed_at, spent>>
  BY DEF vars
<1>2. Typed'
  BY <1>1 DEF IInv, Typed
<1>3. RegistrationKept'
  BY <1>1 DEF IInv, RegistrationKept, Results, At
<1>. QED  BY <1>1, <1>2, <1>3, RestartKeeps

LEMMA NextInv == IInv /\ [Next]_vars => IInv'
<1>. SUFFICES ASSUME IInv, [Next]_vars
              PROVE  IInv'
  OBVIOUS
<1>1. ASSUME NEW w \in Workers, Working(w) \/ LoseResult(w) \/ Drop(w)
      PROVE  IInv'
  BY <1>1, WorkingKeeps, LoseResultKeeps, DropKeeps
<1>2. ASSUME NEW w \in Workers, NEW e \in Events, Dispatch(w, e)
      PROVE  IInv'
  BY <1>2, DispatchKeeps
<1>3. ASSUME NEW e \in Deliverable, BackoffEnds(e)
      PROVE  IInv'
  BY <1>3, BackoffEndsKeeps
<1>4. CASE Starting
  BY <1>4, RegisterKeeps, InterruptCommandsKeeps, RecoverReportsKeeps,
     FinalizeCommittedKeeps, RequeueRunningKeeps, RecoverNextKeeps,
     RecoveryEndsKeeps DEF Starting
<1>5. CASE Crash
  BY <1>5, CrashKeeps
<1>6. CASE RecoverDeadLetters
  BY <1>6, RecoverDeadLettersKeeps
<1>7. CASE UNCHANGED vars
  BY <1>7, StutterKeeps
<1>. QED  BY <1>1, <1>2, <1>3, <1>4, <1>5, <1>6, <1>7 DEF Next

LEMMA Inductive == Spec => []IInv
BY InitInv, NextInv, PTL DEF Spec

----------------------------------------------------------------------------
(* What a key promises, and what a final delivery has *)

\* Of all the commands with one idempotency key at most one is ever performed,
\* and a delivery has succeeded only with the results of its commands in the
\* ledger and, for a plugin that asks for them, their reports enqueued.
THEOREM ExactLedger == Spec => []LedgerIsExact
<1>1. IInv => LedgerIsExact
  <2>1. SUFFICES ASSUME IInv
                 PROVE  KeyedOnce
    BY DEF IInv, LedgerIsExact
  <2>2. ASSUME NEW i \in Issued, NEW j \in Issued, i # j, Key[i[2]] = Key[j[2]],
               Key[i[2]] # NoKey
        PROVE  performed[i] = 0 \/ performed[j] = 0
    <3>1. /\ \A n \in Issued : performed[n] # 0 => ledger[n] # "absent"
          /\ \A m, n \in Issued :
               /\ ledger[m] # "absent" /\ ledger[n] # "absent"
               /\ Key[m[2]] = Key[n[2]] /\ Key[m[2]] # NoKey
               => m = n
      BY <2>1, Zenon DEF IInv, LedgerKept
    <3>. QED  BY <2>2, <3>1, Zenon
  <2>. QED  BY <2>2 DEF KeyedOnce
<1>. QED  BY <1>1, Inductive, PTL

----------------------------------------------------------------------------
(* The promise *)

\* What most steps do to the rows: none is forgotten, ended or settled again,
\* and what is running or committed was so before.
RowsKept ==
  \A e \in Deliverable :
    /\ \/ /\ deliveries[e].status = "absent"
          /\ deliveries'[e].status \in {"absent", "pending"}
       \/ /\ deliveries[e].status \in {"pending", "running"}
          /\ deliveries'[e].status \in {"pending", "running"}
       \/ /\ deliveries[e].status \in {"committed", "succeeded"}
          /\ deliveries'[e].status \in {"committed", "succeeded"}
          /\ deliveries'[e].id = deliveries[e].id
       \/ /\ deliveries[e].status = "dead_letter"
          /\ deliveries'[e].status = "dead_letter"
    /\ deliveries'[e].generation \in {deliveries[e].generation, 0}
    /\ deliveries'[e].status \in {"running", "committed"} =>
         /\ deliveries'[e].status = deliveries[e].status
         /\ deliveries'[e].id = deliveries[e].id
         /\ deliveries'[e].generation = deliveries[e].generation

LEMMA SameRows ==
  ASSUME Typed, deliveries' = deliveries
  PROVE  RowsKept
BY DEF Typed, Row, RowsKept

LEMMA EnqueuedIsKept ==
  ASSUME NEW reports, NEW depth
  PROVE  \A e \in Deliverable :
           IF e \in reports /\ deliveries[e].status = "absent"
             THEN /\ Enqueued(deliveries, reports, depth)[e].status = "pending"
                  /\ Enqueued(deliveries, reports, depth)[e].generation = 0
             ELSE Enqueued(deliveries, reports, depth)[e] = deliveries[e]
BY DEF Enqueued

LEMMA EnqueueReportsRows ==
  ASSUME Typed, NEW reports, NEW depth, deliveries' = Enqueued(deliveries, reports, depth)
  PROVE  RowsKept
<1>1. \A e \in Deliverable :
        IF e \in reports /\ deliveries[e].status = "absent"
          THEN deliveries'[e].status = "pending" /\ deliveries'[e].generation = 0
          ELSE deliveries'[e] = deliveries[e]
  BY EnqueuedIsKept
<1>2. \A e \in Deliverable : deliveries[e] \in Row
  BY DEF Typed
<1>. QED  BY <1>1, <1>2 DEF RowsKept, Row

LEMMA SettledIsKept ==
  ASSUME Typed, NEW rows, NEW events,
         \A e \in events \cap Deliverable : rows[e] = deliveries[e]
  PROVE  \A e \in Deliverable :
           IF e \in events
             THEN /\ Settled(rows, events)[e].status = "succeeded"
                  /\ Settled(rows, events)[e].id = deliveries[e].id
                  /\ Settled(rows, events)[e].generation = deliveries[e].generation
             ELSE Settled(rows, events)[e] = rows[e]
<1>1. \A e \in Deliverable : deliveries[e] \in Row
  BY DEF Typed
<1>. QED  BY <1>1 DEF Settled, Row

LEMMA SettleRows ==
  ASSUME Typed, NEW reports, NEW depth, NEW events,
         \A e \in events \cap Deliverable : deliveries[e].status = "committed",
         deliveries' = Settled(Enqueued(deliveries, reports, depth), events)
  PROVE  RowsKept
<1>. DEFINE rows == Enqueued(deliveries, reports, depth)
<1>1. \A e \in Deliverable :
        IF e \in reports /\ deliveries[e].status = "absent"
          THEN rows[e].status = "pending" /\ rows[e].generation = 0
          ELSE rows[e] = deliveries[e]
  BY EnqueuedIsKept
<1>2. \A e \in events \cap Deliverable : rows[e] = deliveries[e]
  BY <1>1
<1>3. deliveries' = Settled(rows, events)
  OBVIOUS
<1>. HIDE DEF rows
<1>4. \A e \in Deliverable :
        IF e \in events
          THEN /\ deliveries'[e].status = "succeeded"
               /\ deliveries'[e].id = deliveries[e].id
               /\ deliveries'[e].generation = deliveries[e].generation
          ELSE deliveries'[e] = rows[e]
  BY <1>2, <1>3, SettledIsKept
<1>5. \A e \in Deliverable : deliveries[e] \in Row
  BY DEF Typed
<1>. QED  BY <1>1, <1>4, <1>5 DEF RowsKept, Row

LEMMA SettleOnlyRows ==
  ASSUME Typed, NEW events,
         \A e \in events \cap Deliverable : deliveries[e].status = "committed",
         deliveries' = Settled(deliveries, events)
  PROVE  RowsKept
<1>1. \A e \in Deliverable :
        IF e \in events
          THEN /\ deliveries'[e].status = "succeeded"
               /\ deliveries'[e].id = deliveries[e].id
               /\ deliveries'[e].generation = deliveries[e].generation
          ELSE deliveries'[e] = deliveries[e]
  BY SettledIsKept
<1>2. \A e \in Deliverable : deliveries[e] \in Row
  BY DEF Typed
<1>. QED  BY <1>1, <1>2 DEF RowsKept, Row

LEMMA OutcomeOf ==
  ASSUME NEW row \in Row
  PROVE  /\ Outcome(row) \in {"none", "open", "settled", "dead"}
         /\ row.status = "absent" => Outcome(row) = "none"
         /\ row.status \in {"pending", "running"} => Outcome(row) = "open"
         /\ row.status \in {"committed", "succeeded"}
              => Outcome(row) = "settled" /\ Source(row) = row.id
         /\ row.status = "dead_letter" => Outcome(row) = "dead"
         /\ row.status \notin {"committed", "succeeded"} => Source(row) = 0
BY DEF Row, Outcome, Source

\* Steps that only enqueue, retry, finalize or forget nothing: to the promise,
\* some events became known.
LEMMA KeptRowsAccept ==
  ASSUME Typed, Typed', performed' = performed,
         \A e \in Deliverable :
           \/ /\ deliveries[e].status = "absent"
              /\ deliveries'[e].status \in {"absent", "pending", "running"}
           \/ /\ deliveries[e].status \in {"pending", "running"}
              /\ deliveries'[e].status \in {"pending", "running"}
           \/ /\ deliveries[e].status \in {"committed", "succeeded"}
              /\ deliveries'[e].status \in {"committed", "succeeded"}
              /\ deliveries'[e].id = deliveries[e].id
           \/ /\ deliveries[e].status = "dead_letter"
              /\ deliveries'[e].status = "dead_letter"
  PROVE  Promise!Next
<1>1. \A e \in Deliverable : deliveries[e] \in Row /\ deliveries'[e] \in Row
  BY DEF Typed
<1>2. ASSUME NEW e \in Deliverable
      PROVE  /\ Outcome(deliveries'[e]) \in {"none", "open", "settled", "dead"}
             /\ Outcome(deliveries'[e]) # Outcome(deliveries[e]) =>
                  Outcome(deliveries[e]) = "none" /\ Outcome(deliveries'[e]) = "open"
             /\ Source(deliveries'[e]) = Source(deliveries[e])
  BY <1>1, OutcomeOf
<1>3. Promise!Accept
  BY <1>2 DEF Promise!Accept
<1>. QED  BY <1>3 DEF Promise!Next

LEMMA RowsKeptAccept ==
  ASSUME Typed, Typed', performed' = performed, RowsKept
  PROVE  Promise!Next
BY KeptRowsAccept DEF RowsKept

\* An attempt that is the last, or a chain that is cut.
LEMMA DeadLetterGivesUp ==
  ASSUME Typed, Typed', performed' = performed, NEW e \in Deliverable,
         deliveries[e].status \in {"pending", "running"},
         deliveries'[e].status = "dead_letter",
         \A d \in Deliverable : d # e => deliveries'[d] = deliveries[d]
  PROVE  Promise!Next
<1>1. \A d \in Deliverable : deliveries[d] \in Row /\ deliveries'[d] \in Row
  BY DEF Typed
<1>2. /\ Outcome(deliveries[e]) = "open" /\ Outcome(deliveries'[e]) = "dead"
      /\ Source(deliveries[e]) = 0 /\ Source(deliveries'[e]) = 0
  BY <1>1, OutcomeOf
<1>3. Promise!GiveUp(e)
  BY <1>2 DEF Promise!GiveUp
<1>. QED  BY <1>3 DEF Promise!Next

LEMMA BeginAccepts ==
  ASSUME IInv, Typed', NEW w \in Workers, Begin(w)
  PROVE  Promise!Next
<1>. USE DEF IInv
<1>1. PICK e \in Deliverable : e = work[w].event
  BY DEF Begin, At, WorkSound, EventsExist
<1>2. CASE MayBegin(deliveries[e])
  <2>1. deliveries' = [deliveries EXCEPT ![e] = Begun(deliveries[e], drawn + 1, work[w].depth)]
        /\ performed' = performed
    BY <1>1, <1>2 DEF Begin
  <2>2. deliveries \in [Deliverable -> Row]
    BY DEF Typed
  <2>3. /\ deliveries'[e].status = "running"
        /\ \A d \in Deliverable : d # e => deliveries'[d] = deliveries[d]
    BY <2>1, <2>2 DEF Begun
  <2>4. deliveries[e].status \in {"absent", "pending"}
    BY <1>2 DEF MayBegin
  <2>. QED  BY <2>1, <2>2, <2>3, <2>4, KeptRowsAccept DEF Row
<1>3. CASE ~MayBegin(deliveries[e])
  <2>1. UNCHANGED <<deliveries, performed>>
    BY <1>1, <1>3 DEF Begin
  <2>. QED  BY <2>1, SameRows, RowsKeptAccept
<1>. QED  BY <1>2, <1>3

LEMMA RejectGivesUp ==
  ASSUME IInv, Typed', NEW w \in Workers, Reject(w)
  PROVE  Promise!Next
<1>. USE DEF IInv
<1>1. PICK e \in Deliverable : e = work[w].event
  BY DEF Reject, At, WorkSound, EventsExist
<1>2. CASE MayBegin(deliveries[e])
  <2>1. /\ deliveries' = [deliveries EXCEPT ![e] =
             [Begun(deliveries[e], drawn + 1, work[w].depth) EXCEPT !.status = "dead_letter"]]
        /\ performed' = performed
    BY <1>1, <1>2 DEF Reject
  <2>2. deliveries \in [Deliverable -> Row]
    BY DEF Typed
  <2>3. [Begun(deliveries[e], drawn + 1, work[w].depth) EXCEPT !.status = "dead_letter"].status
          = "dead_letter"
    BY DEF Begun
  <2>4. /\ deliveries'[e].status = "dead_letter"
        /\ \A d \in Deliverable : d # e => deliveries'[d] = deliveries[d]
    BY <2>1, <2>2, <2>3
  <2>5. deliveries[e].status # "absent"
    <3>1. work[w].depth > MaxChain /\ MaxChain \in Nat
      BY Constants DEF Reject
    <3>. QED  BY <1>1, <3>1 DEF Reject, At, WorkSound, EventsExist
  <2>6. deliveries[e].status = "pending"
    BY <1>2, <2>5 DEF MayBegin
  <2>. QED  BY <2>1, <2>4, <2>6, DeadLetterGivesUp
<1>3. CASE ~MayBegin(deliveries[e])
  <2>1. UNCHANGED <<deliveries, performed>>
    BY <1>1, <1>3 DEF Reject
  <2>. QED  BY <2>1, SameRows, RowsKeptAccept
<1>. QED  BY <1>2, <1>3

LEMMA RecordFailureGivesUp ==
  ASSUME IInv, Typed', NEW w \in Workers, NEW kind, At(w, "invoke"),
         RecordFailure(w, kind), performed' = performed
  PROVE  Promise!Next
<1>. USE DEF IInv
<1>1. PICK e \in Deliverable : e = work[w].event
  BY DEF At, WorkSound, EventsExist
<1>2. deliveries[e].status = "running"
  BY <1>1, ActingHasId DEF Acting, At
<1>3. PICK new \in {"dead_letter", "pending"} :
        deliveries' = [deliveries EXCEPT ![e].status = new, ![e].due = FALSE]
  BY <1>1 DEF RecordFailure
<1>4. deliveries \in [Deliverable -> Row]
  BY DEF Typed
<1>5. /\ deliveries'[e].status = new
      /\ \A d \in Deliverable : d # e => deliveries'[d] = deliveries[d]
  BY <1>3, <1>4 DEF Row
<1>6. CASE new = "dead_letter"
  BY <1>2, <1>5, <1>6, DeadLetterGivesUp
<1>7. CASE new = "pending"
  BY <1>2, <1>4, <1>5, <1>7, KeptRowsAccept DEF Row
<1>. QED  BY <1>6, <1>7

LEMMA CommitOutputSettles ==
  ASSUME IInv, Typed', NEW w \in Workers, NEW o \in Outputs, At(w, "invoke"),
         CommitOutput(w, o), performed' = performed
  PROVE  Promise!Next
<1>. USE DEF IInv
<1>. DEFINE id == work[w].id
<1>1. PICK e \in Deliverable : e = work[w].event
  BY DEF At, WorkSound, EventsExist
<1>2. /\ deliveries[e].status = "running" /\ deliveries[e].id = id
      /\ id \in Invocations /\ id # 0
  BY <1>1, ActingHasId DEF Acting, At, Invocations
<1>3. deliveries' = [deliveries EXCEPT ![e].status = "committed"]
  BY <1>1 DEF CommitOutput
<1>4. deliveries \in [Deliverable -> Row] /\ \A d \in Deliverable : deliveries'[d] \in Row
  BY DEF Typed
<1>5. /\ deliveries'[e].status = "committed" /\ deliveries'[e].id = id
      /\ \A d \in Deliverable : d # e => deliveries'[d] = deliveries[d]
  BY <1>2, <1>3, <1>4 DEF Row
<1>6. /\ Outcome(deliveries[e]) = "open" /\ Outcome(deliveries'[e]) = "settled"
      /\ Source(deliveries'[e]) = id
  BY <1>2, <1>4, <1>5, OutcomeOf
<1>7. ASSUME NEW d \in Deliverable
      PROVE  Source(deliveries[d]) # id
  <2>1. CASE deliveries[d].status \in {"committed", "succeeded"}
    <3>1. Source(deliveries[d]) = deliveries[d].id /\ d # e
      BY <1>2, <1>4, <2>1, OutcomeOf
    <3>. QED  BY <1>2, <3>1 DEF IdsAreUnique
  <2>2. CASE deliveries[d].status \notin {"committed", "succeeded"}
    BY <1>2, <1>4, <2>2, OutcomeOf
  <2>. QED  BY <2>1, <2>2
<1>8. Promise!Settle(e, id)
  BY <1>5, <1>6, <1>7 DEF Promise!Settle
<1>. QED  BY <1>2, <1>8 DEF Promise!Next

LEMMA StartCommandPerforms ==
  ASSUME IInv, Typed', NEW w \in Workers, StartCommand(w)
  PROVE  Promise!Next
<1>. USE DEF IInv
<1>. DEFINE id == work[w].id
            c  == Head(work[w].todo)
<1>1. /\ Acting(w) /\ At(w, "execute") /\ ~At(w, "invoke") /\ work[w].todo # <<>>
      /\ work[w].pc = "execute"
  BY DEF StartCommand, Acting, At
<1>2. c \in Commands /\ c = work[w].todo[1] /\ 1 \in 1..Len(work[w].todo)
  BY <1>1, TodoFacts
<1>3. PICK e \in Deliverable : /\ e = work[w].event /\ deliveries[e].id = id
                               /\ deliveries[e].status = "committed"
  BY <1>1, ActingHasId
<1>4. id \in Invocations
  BY <1>1, ActingHasId DEF Invocations
<1>5. performed[<<id, c>>] = 0
  BY <1>1, <1>2 DEF WorkSound, CommandsKept
<1>6. Source(deliveries[e]) = id
  BY <1>3, OutcomeOf DEF Typed
<1>7. performed' = [performed EXCEPT ![<<id, c>>] = 1] /\ deliveries' = deliveries
  BY <1>5 DEF StartCommand, persistent
<1>. HIDE DEF id, c
<1>8. Promise!Perform(id, c)
  BY <1>5, <1>6, <1>7 DEF Promise!Perform
<1>. QED  BY <1>2, <1>4, <1>8 DEF Promise!Next

LEMMA RecoverDeadLettersReopens ==
  ASSUME IInv, Typed', RecoverDeadLetters
  PROVE  Promise!Next
<1>. USE DEF IInv
<1>1. deliveries \in [Deliverable -> Row] /\ \A e \in Deliverable : deliveries'[e] \in Row
  BY DEF Typed
<1>2. \A e \in Deliverable :
        IF deliveries[e].status = "dead_letter"
          THEN deliveries'[e].status = "pending" ELSE deliveries'[e] = deliveries[e]
  BY <1>1, ZenonT(60) DEF RecoverDeadLetters, Row
<1>3. performed' = performed
  BY DEF RecoverDeadLetters
<1>4. ASSUME NEW e \in Deliverable
      PROVE  /\ Outcome(deliveries'[e]) =
                  IF Outcome(deliveries[e]) = "dead" THEN "open" ELSE Outcome(deliveries[e])
             /\ Source(deliveries'[e]) = Source(deliveries[e])
  BY <1>1, <1>2, OutcomeOf DEF Row
<1>5. Promise!Reopen
  BY <1>3, <1>4 DEF Promise!Reopen
<1>. QED  BY <1>5 DEF Promise!Next

LEMMA SucceedRows ==
  ASSUME IInv, NEW w \in Workers, Succeed(w)
  PROVE  RowsKept /\ deliveries' = Settled(deliveries, {work[w].event})
<1>. USE DEF IInv
<1>1. Acting(w) /\ At(w, "succeed") /\ ~At(w, "invoke")
  BY DEF Succeed, Acting, At
<1>2. PICK e \in Deliverable : /\ e = work[w].event /\ deliveries[e].id = work[w].id
                               /\ deliveries[e].status = "committed"
  BY <1>1, ActingHasId
<1>3. deliveries' = Settled(deliveries, {e})
  BY <1>2 DEF Succeed, Owns
<1>. QED  BY <1>2, <1>3, SettleOnlyRows

LEMMA LoseResultRows ==
  ASSUME IInv, NEW w \in Workers, LoseResult(w)
  PROVE  /\ RowsKept
         /\ work[w].event \in Deliverable
         /\ deliveries[work[w].event].status = "committed"
         /\ deliveries'[work[w].event].status = "succeeded"
         /\ Reset(deliveries[work[w].event].generation)
         /\ failed_at' = failed_at
<1>. USE DEF IInv
<1>. DEFINE results == {i \in Results(ledger') : i[1] = work[w].id}
            depth   == [i \in Issued |-> work[w].depth + 1]
<1>1. Acting(w) /\ At(w, "executing") /\ ~At(w, "invoke")
  BY DEF LoseResult, Acting, At
<1>2. PICK e \in Deliverable : /\ e = work[w].event /\ deliveries[e].id = work[w].id
                               /\ deliveries[e].status = "committed"
  BY <1>1, ActingHasId
<1>3. RecoverCommitted(w)
  BY <1>2 DEF LoseResult, Owns
<1>4. /\ deliveries' = Settled(Enqueued(deliveries, Reports(results), depth), {e})
      /\ Reset(deliveries[e].generation)
      /\ failed_at' = failed_at
  BY <1>2, <1>3 DEF RecoverCommitted
<1>. HIDE DEF results, depth
<1>5. RowsKept
  BY <1>2, <1>4, SettleRows
<1>6. deliveries'[e].status = "succeeded"
  <2>1. \A d \in {e} \cap Deliverable :
          Enqueued(deliveries, Reports(results), depth)[d] = deliveries[d]
    BY <1>2, EnqueuedIsKept
  <2>. QED  BY <1>4, <2>1, SettledIsKept
<1>. QED  BY <1>2, <1>4, <1>5, <1>6

LEMMA FinalizeCommittedRows ==
  ASSUME IInv, FinalizeCommitted
  PROVE  /\ RowsKept
         /\ \A e \in Deliverable :
              deliveries[e].status = "committed" => deliveries'[e].status = "succeeded"
<1>. USE DEF IInv
<1>. DEFINE committed == {e \in Deliverable : deliveries[e].status = "committed"}
<1>1. deliveries' = Settled(deliveries, committed)
  BY DEF FinalizeCommitted
<1>2. \A e \in committed \cap Deliverable : deliveries[e].status = "committed"
  OBVIOUS
<1>. HIDE DEF committed
<1>3. RowsKept
  BY <1>1, <1>2, SettleOnlyRows
<1>4. \A e \in Deliverable : e \in committed => deliveries'[e].status = "succeeded"
  BY <1>1, SettledIsKept
<1>. QED  BY <1>3, <1>4 DEF committed

LEMMA RequeueRunningRows ==
  ASSUME Typed, RequeueRunning
  PROVE  RowsKept
<1>1. deliveries \in [Deliverable -> Row]
  BY DEF Typed
<1>2. \A e \in Deliverable :
        IF deliveries[e].status = "running"
          THEN /\ deliveries'[e].status = "pending"
               /\ deliveries'[e].generation = deliveries[e].generation
          ELSE deliveries'[e] = deliveries[e]
  BY <1>1 DEF RequeueRunning, Requeued, Row
<1>. QED  BY <1>1, <1>2 DEF RowsKept, Row

LEMMA BackoffEndsRows ==
  ASSUME Typed, NEW e \in Deliverable, BackoffEnds(e)
  PROVE  RowsKept
<1>1. deliveries \in [Deliverable -> Row] /\ deliveries' = [deliveries EXCEPT ![e].due = TRUE]
  BY DEF Typed, BackoffEnds
<1>2. \A d \in Deliverable : /\ deliveries'[d].status = deliveries[d].status
                             /\ deliveries'[d].id = deliveries[d].id
                             /\ deliveries'[d].generation = deliveries[d].generation
  BY <1>1 DEF Row
<1>. QED  BY <1>1, <1>2 DEF RowsKept, Row

LEMMA WorkingImplements ==
  ASSUME IInv, Typed', NEW w \in Workers, Working(w)
  PROVE  Promise!Next
<1>0. Typed
  BY DEF IInv
<1>1. CASE Check(w) \/ Wake(w)
  <2>1. UNCHANGED <<deliveries, performed>>
    BY <1>1 DEF Check, Wake, persistent
  <2>. QED  BY <1>0, <2>1, SameRows, RowsKeptAccept
<1>2. CASE Begin(w)
  BY <1>2, BeginAccepts
<1>3. CASE Reject(w)
  BY <1>3, RejectGivesUp
<1>4. ASSUME NEW o \in Outputs, Output(w, o)
      PROVE  Promise!Next
  <2>1. Owns(w, {"running"}) /\ At(w, "invoke") /\ performed' = performed
    BY <1>4, ActingHasId DEF Output, Owns, IInv, Acting, At
  <2>2. CommitOutput(w, o) \/ RecordFailure(w, "permanent")
    BY <1>4, <2>1 DEF Output, CommitFails
  <2>. QED  BY <2>1, <2>2, CommitOutputSettles, RecordFailureGivesUp
<1>5. ASSUME NEW kind \in {"retryable", "permanent", "fatal"}, Fail(w, kind)
      PROVE  Promise!Next
  <2>1. Owns(w, {"running"}) /\ At(w, "invoke") /\ performed' = performed
    BY <1>5, ActingHasId DEF Fail, Owns, IInv, Acting, At
  <2>2. RecordFailure(w, kind)
    BY <1>5, <2>1 DEF Fail
  <2>. QED  BY <2>1, <2>2, RecordFailureGivesUp
<1>6. CASE StartCommand(w)
  BY <1>6, StartCommandPerforms
<1>7. ASSUME NEW status \in Statuses, FinishCommand(w, status)
      PROVE  Promise!Next
  <2>1. UNCHANGED <<deliveries, performed>>
    BY <1>7 DEF FinishCommand
  <2>. QED  BY <1>0, <2>1, SameRows, RowsKeptAccept
<1>8. CASE EnqueueReports(w)
  <2>1. RowsKept
    BY <1>0, <1>8, EnqueueReportsRows DEF EnqueueReports
  <2>. QED  BY <1>0, <1>8, <2>1, RowsKeptAccept DEF EnqueueReports
<1>9. CASE Succeed(w)
  <2>1. performed' = performed
    BY <1>9 DEF Succeed
  <2>. QED  BY <1>0, <1>9, <2>1, SucceedRows, RowsKeptAccept
<1>. QED  BY <1>1, <1>2, <1>3, <1>4, <1>5, <1>6, <1>7, <1>8, <1>9 DEF Working, Invoked

LEMMA StartingRows ==
  ASSUME IInv, Starting
  PROVE  RowsKept /\ performed' = performed
<1>0. Typed
  BY DEF IInv
<1>1. CASE Register \/ InterruptCommands \/ RecoverNext \/ RecoveryEnds
  <2>1. UNCHANGED <<deliveries, performed>>
    BY <1>1 DEF Register, InterruptCommands, RecoverNext, RecoveryEnds, persistent
  <2>. QED  BY <1>0, <2>1, SameRows
<1>2. CASE RecoverReports
  <2>1. RowsKept
    BY <1>0, <1>2, EnqueueReportsRows DEF RecoverReports
  <2>. QED  BY <1>2, <2>1 DEF RecoverReports
<1>3. CASE FinalizeCommitted
  <2>1. performed' = performed
    BY <1>3 DEF FinalizeCommitted
  <2>. QED  BY <1>3, <2>1, FinalizeCommittedRows
<1>4. CASE RequeueRunning
  <2>1. performed' = performed
    BY <1>4 DEF RequeueRunning
  <2>. QED  BY <1>0, <1>4, <2>1, RequeueRunningRows
<1>. QED  BY <1>1, <1>2, <1>3, <1>4 DEF Starting

LEMMA InitImplements == Init => Promise!Init
<1>. SUFFICES ASSUME Init
              PROVE  Promise!Init
  OBVIOUS
<1>1. \A e \in Deliverable : deliveries[e] \in Row /\ deliveries[e].status = "absent"
  BY DEF Init, Row
<1>2. \A e \in Deliverable : Outcome(deliveries[e]) = "none" /\ Source(deliveries[e]) = 0
  BY <1>1, OutcomeOf
<1>3. performed = [i \in Invocations \X Commands |-> 0]
  BY DEF Init, Issued
<1>. QED  BY <1>2, <1>3 DEF Promise!Init

LEMMA NextImplements ==
  ASSUME IInv, IInv', [Next]_vars
  PROVE  Promise!Next
<1>0. Typed /\ Typed'
  BY DEF IInv
<1>1. ASSUME NEW w \in Workers, Working(w)
      PROVE  Promise!Next
  BY <1>0, <1>1, WorkingImplements
<1>2. ASSUME NEW w \in Workers, LoseResult(w)
      PROVE  Promise!Next
  <2>1. performed' = performed
    BY <1>2 DEF LoseResult
  <2>. QED  BY <1>0, <1>2, <2>1, LoseResultRows, RowsKeptAccept
<1>3. ASSUME NEW w \in Workers, Drop(w) \/ \E e \in Events : Dispatch(w, e)
      PROVE  Promise!Next
  <2>1. UNCHANGED <<deliveries, performed>>
    BY <1>3 DEF Drop, Dispatch, persistent
  <2>. QED  BY <1>0, <2>1, SameRows, RowsKeptAccept
<1>4. ASSUME NEW e \in Deliverable, BackoffEnds(e)
      PROVE  Promise!Next
  <2>1. performed' = performed
    BY <1>4 DEF BackoffEnds
  <2>. QED  BY <1>0, <1>4, <2>1, BackoffEndsRows, RowsKeptAccept
<1>5. CASE Starting
  BY <1>0, <1>5, StartingRows, RowsKeptAccept
<1>6. CASE Crash \/ UNCHANGED vars
  <2>1. UNCHANGED <<deliveries, performed>>
    <3>1. CASE Crash
      BY <3>1 DEF Crash, persistent
    <3>2. CASE UNCHANGED vars
      BY <3>2 DEF vars
    <3>. QED  BY <1>6, <3>1, <3>2
  <2>. QED  BY <1>0, <2>1, SameRows, RowsKeptAccept
<1>7. CASE RecoverDeadLetters
  BY <1>0, <1>7, RecoverDeadLettersReopens
<1>. QED  BY <1>1, <1>2, <1>3, <1>4, <1>5, <1>6, <1>7 DEF Next

\* The store and the loop keep DeliveryPromise: every event settles on at most
\* one invocation, for ever, and its commands, and no others, are performed at
\* most once.
THEOREM ImplementsPromise == Spec => KeepsPromise
<1>1. Init => Promise!Init
  BY InitImplements
<1>2. IInv /\ IInv' /\ [Next]_vars => [Promise!Next]_(Promise!promise)
  BY NextImplements
<1>. QED  BY <1>1, <1>2, Inductive, PTL DEF Spec, KeepsPromise, Promise!Spec

----------------------------------------------------------------------------
(* Failures are forgotten by a delivery that began after the last of them *)

ResetsNewer ==
  health.failures > 0 /\ health'.failures = 0 =>
    \/ spent'.reopenings > spent.reopenings
    \/ \E e \in Deliverable : /\ deliveries'[e].status = "succeeded"
                              /\ deliveries[e].status # "succeeded"
                              /\ deliveries[e].id > failed_at

LEMMA ResetHealth ==
  ASSUME Typed, NEW generation, Reset(generation)
  PROVE  /\ health'.generation = health.generation
         /\ health' = health \/ (health'.exists = TRUE /\ generation = health.generation)
BY DEF Typed, Reset

\* The rows of a step that counts no failure.
LEMMA RowsKeepGenerations ==
  ASSUME Typed, Typed', GenerationsKept, RowsKept, failed_at' = failed_at,
         health' = health \/ \E generation : Reset(generation)
  PROVE  GenerationsKept'
<1>1. /\ health'.generation = health.generation
      /\ health' = health \/ health'.exists = TRUE
  BY ResetHealth
<1>2. ~health'.exists => health'.generation = 0 /\ health'.failures = 0 /\ failed_at' = 0
  BY <1>1 DEF GenerationsKept
<1>3. ASSUME NEW e \in Deliverable
      PROVE  /\ deliveries'[e].generation <= health'.generation
             /\ deliveries'[e].status \in {"running", "committed"}
                /\ deliveries'[e].generation = health'.generation
                  => deliveries'[e].id > failed_at'
  <2>1. /\ deliveries'[e].generation \in {deliveries[e].generation, 0}
        /\ deliveries'[e].status \in {"running", "committed"} =>
             /\ deliveries'[e].status = deliveries[e].status
             /\ deliveries'[e].id = deliveries[e].id
             /\ deliveries'[e].generation = deliveries[e].generation
    BY DEF RowsKept
  <2>2. /\ deliveries[e].generation <= health.generation
        /\ deliveries[e].status \in {"running", "committed"}
           /\ deliveries[e].generation = health.generation
             => deliveries[e].id > failed_at
    BY DEF GenerationsKept
  <2>3. 0 <= health.generation
    BY DEF Typed
  <2>. QED  BY <1>1, <2>1, <2>2, <2>3
<1>. QED  BY <1>2, <1>3 DEF GenerationsKept

\* A delivery that began after the last failure succeeds.
LEMMA SuccessIsNewer ==
  ASSUME Typed, GenerationsKept, NEW e \in Deliverable,
         deliveries[e].status = "committed", deliveries'[e].status = "succeeded",
         Reset(deliveries[e].generation)
  PROVE  ResetsNewer
<1>1. CASE health' = health
  BY <1>1 DEF ResetsNewer
<1>2. CASE deliveries[e].generation = health.generation
  BY <1>2 DEF ResetsNewer, GenerationsKept
<1>. QED  BY <1>1, <1>2, ResetHealth

\* A failure is counted, or not.
LEMMA FailureKeepsGenerations ==
  ASSUME Typed, Typed', GenerationsKept, NEW e \in Deliverable,
         deliveries'[e].status \notin {"running", "committed"},
         deliveries'[e].generation \in {deliveries[e].generation, health.generation},
         \A d \in Deliverable : d # e => deliveries'[d] = deliveries[d],
         \/ health' = health /\ failed_at' = failed_at
         \/ \E threshold \in Nat : health' = Counted(threshold)
  PROVE  GenerationsKept' /\ ResetsNewer
<1>1. /\ \A d \in Deliverable : deliveries[d].generation \in Nat
      /\ health.generation \in Nat /\ health.failures \in Nat
  BY DEF Typed, Row
<1>2. \A d \in Deliverable : deliveries'[d].generation <= health.generation
  BY <1>1 DEF GenerationsKept
<1>3. CASE health' = health /\ failed_at' = failed_at
  <2>1. ~health'.exists => health'.generation = 0 /\ health'.failures = 0 /\ failed_at' = 0
    BY <1>3 DEF GenerationsKept
  <2>2. \A d \in Deliverable :
          deliveries'[d].status \in {"running", "committed"}
          /\ deliveries'[d].generation = health'.generation
            => deliveries'[d].id > failed_at'
    BY <1>3 DEF GenerationsKept
  <2>3. GenerationsKept'
    BY <1>2, <1>3, <2>1, <2>2 DEF GenerationsKept
  <2>. QED  BY <1>3, <2>3 DEF ResetsNewer
<1>4. ASSUME NEW threshold \in Nat, health' = Counted(threshold)
      PROVE  GenerationsKept' /\ ResetsNewer
  <2>1. /\ health'.exists = TRUE /\ health'.failures = health.failures + 1
        /\ health'.generation = health.generation + 1
    BY <1>4 DEF Counted
  <2>2. \A d \in Deliverable : /\ deliveries'[d].generation <= health'.generation
                               /\ deliveries'[d].generation # health'.generation
    <3>1. \A d \in Deliverable : deliveries'[d].generation \in Nat
      BY DEF Typed, Row
    <3>. QED  BY <1>1, <1>2, <2>1, <3>1
  <2>3. GenerationsKept'
    BY <2>1, <2>2 DEF GenerationsKept
  <2>. QED  BY <1>1, <2>1, <2>3 DEF ResetsNewer
<1>. QED  BY <1>3, <1>4

LEMMA BeginKeepsGenerations ==
  ASSUME IInv, Typed', GenerationsKept, NEW w \in Workers, Begin(w)
  PROVE  GenerationsKept'
<1>. USE DEF IInv
<1>1. PICK e \in Deliverable : e = work[w].event
  BY DEF Begin, At, WorkSound, EventsExist
<1>2. health' = health /\ failed_at' = failed_at
  BY DEF Begin
<1>3. CASE MayBegin(deliveries[e])
  <2>1. deliveries' = [deliveries EXCEPT ![e] = Begun(deliveries[e], drawn + 1, work[w].depth)]
    BY <1>1, <1>3 DEF Begin
  <2>2. deliveries \in [Deliverable -> Row]
    BY DEF Typed
  <2>3. /\ deliveries'[e].generation = health.generation
        /\ deliveries'[e].id = drawn + 1
        /\ \A d \in Deliverable : d # e => deliveries'[d] = deliveries[d]
    BY <2>1, <2>2 DEF Begun
  <2>4. drawn + 1 > failed_at /\ health.generation \in Nat
    BY DEF Typed
  <2>5. ASSUME NEW d \in Deliverable
        PROVE  /\ deliveries'[d].generation <= health'.generation
               /\ deliveries'[d].status \in {"running", "committed"}
                  /\ deliveries'[d].generation = health'.generation
                    => deliveries'[d].id > failed_at'
    BY <1>2, <2>3, <2>4 DEF GenerationsKept
  <2>. QED  BY <1>2, <2>5 DEF GenerationsKept
<1>4. CASE ~MayBegin(deliveries[e])
  <2>1. deliveries' = deliveries
    BY <1>1, <1>4 DEF Begin
  <2>. QED  BY <1>2, <2>1 DEF GenerationsKept
<1>. QED  BY <1>3, <1>4

LEMMA RejectKeepsGenerations ==
  ASSUME IInv, Typed', GenerationsKept, NEW w \in Workers, Reject(w)
  PROVE  GenerationsKept' /\ ResetsNewer
<1>. USE DEF IInv
<1>1. PICK e \in Deliverable : e = work[w].event
  BY DEF Reject, At, WorkSound, EventsExist
<1>2. CASE MayBegin(deliveries[e])
  <2>1. /\ deliveries' = [deliveries EXCEPT ![e] =
             [Begun(deliveries[e], drawn + 1, work[w].depth) EXCEPT !.status = "dead_letter"]]
        /\ health' = Counted(1)
    BY <1>1, <1>2 DEF Reject
  <2>2. deliveries \in [Deliverable -> Row]
    BY DEF Typed
  <2>3. /\ [Begun(deliveries[e], drawn + 1, work[w].depth)
              EXCEPT !.status = "dead_letter"].status = "dead_letter"
        /\ [Begun(deliveries[e], drawn + 1, work[w].depth)
              EXCEPT !.status = "dead_letter"].generation = health.generation
    BY DEF Begun
  <2>4. /\ deliveries'[e].status = "dead_letter" /\ deliveries'[e].generation = health.generation
        /\ \A d \in Deliverable : d # e => deliveries'[d] = deliveries[d]
    BY <2>1, <2>2, <2>3
  <2>. QED  BY <2>1, <2>4, FailureKeepsGenerations
<1>3. CASE ~MayBegin(deliveries[e])
  <2>1. UNCHANGED <<deliveries, health, failed_at>>
    BY <1>1, <1>3 DEF Reject
  <2>. QED  BY <2>1 DEF GenerationsKept, ResetsNewer
<1>. QED  BY <1>2, <1>3

LEMMA RecordFailureKeepsGenerations ==
  ASSUME IInv, Typed', GenerationsKept, NEW w \in Workers, NEW kind, At(w, "invoke"),
         RecordFailure(w, kind)
  PROVE  GenerationsKept' /\ ResetsNewer
<1>. USE DEF IInv
<1>1. PICK e \in Deliverable : e = work[w].event
  BY DEF At, WorkSound, EventsExist
<1>2. PICK new \in {"dead_letter", "pending"} :
        deliveries' = [deliveries EXCEPT ![e].status = new, ![e].due = FALSE]
  BY <1>1 DEF RecordFailure
<1>3. deliveries \in [Deliverable -> Row]
  BY DEF Typed
<1>4. /\ deliveries'[e].status = new /\ deliveries'[e].generation = deliveries[e].generation
      /\ \A d \in Deliverable : d # e => deliveries'[d] = deliveries[d]
  BY <1>2, <1>3 DEF Row
<1>5. \/ health' = health /\ failed_at' = failed_at
      \/ \E threshold \in Nat : health' = Counted(threshold)
  <2>1. \/ health' = health /\ failed_at' = failed_at
        \/ health' = Counted(1)
        \/ health' = Counted(CircuitFailures)
    BY DEF RecordFailure
  <2>. QED  BY <2>1, Constants
<1>. QED  BY <1>1, <1>4, <1>5, FailureKeepsGenerations

\* The operator's recovery starts a new generation.
LEMMA RecoverDeadLettersKeepsGenerations ==
  ASSUME IInv, Typed', GenerationsKept, RecoverDeadLetters
  PROVE  GenerationsKept' /\ ResetsNewer
<1>. USE DEF IInv
<1>1. deliveries \in [Deliverable -> Row] /\ health.generation \in Nat
  BY DEF Typed
<1>2. \A e \in Deliverable :
        /\ deliveries'[e].generation = deliveries[e].generation
        /\ deliveries'[e].id = deliveries[e].id
        /\ deliveries'[e].status \in {"running", "committed"} =>
             deliveries'[e].status = deliveries[e].status
  BY <1>1 DEF RecoverDeadLetters, Row
<1>3. health'.exists = TRUE /\ failed_at' = failed_at
  BY DEF RecoverDeadLetters
<1>4. ResetsNewer
  <2>1. spent' = [spent EXCEPT !["reopenings"] = @ + 1]
    BY DEF RecoverDeadLetters, Spend
  <2>2. spent'.reopenings > spent.reopenings
    BY <2>1 DEF Typed, Counts
  <2>. QED  BY <2>2 DEF ResetsNewer
<1>5. CASE health.exists
  <2>1. health'.generation = health.generation + 1
    BY <1>5, Zenon DEF RecoverDeadLetters
  <2>2. \A e \in Deliverable : /\ deliveries'[e].generation <= health'.generation
                               /\ deliveries'[e].generation # health'.generation
    <3>1. \A e \in Deliverable : /\ deliveries[e].generation \in Nat
                                 /\ deliveries[e].generation <= health.generation
      BY <1>1 DEF GenerationsKept, Row
    <3>. QED  BY <1>1, <1>2, <2>1, <3>1
  <2>. QED  BY <1>3, <1>4, <2>2 DEF GenerationsKept
<1>6. CASE ~health.exists
  <2>1. health'.generation = 0
    BY <1>6, Zenon DEF RecoverDeadLetters
  <2>2. health.generation = 0 /\ failed_at = 0
    BY <1>6 DEF GenerationsKept
  <2>3. ASSUME NEW e \in Deliverable
        PROVE  /\ deliveries'[e].generation <= health'.generation
               /\ deliveries'[e].status \in {"running", "committed"} => deliveries'[e].id > failed_at'
    <3>1. deliveries[e].generation <= health.generation /\ deliveries[e].id \in Nat
      BY <1>1 DEF GenerationsKept, Row
    <3>2. deliveries[e].status \in {"running", "committed"} => deliveries[e].id # 0
      BY DEF IdsAreUnique
    <3>. QED  BY <1>2, <1>3, <2>1, <2>2, <3>1, <3>2
  <2>. QED  BY <1>3, <1>4, <2>3 DEF GenerationsKept
<1>. QED  BY <1>5, <1>6

LEMMA QuietGenerations ==
  ASSUME Typed, Typed', GenerationsKept, RowsKept, health' = health, failed_at' = failed_at
  PROVE  GenerationsKept' /\ ResetsNewer
BY RowsKeepGenerations DEF ResetsNewer

LEMMA CommitKeepsGenerations ==
  ASSUME IInv, Typed', GenerationsKept, NEW w \in Workers, NEW o \in Outputs,
         At(w, "invoke"), CommitOutput(w, o)
  PROVE  GenerationsKept' /\ ResetsNewer
<1>. USE DEF IInv
<1>1. PICK e \in Deliverable : e = work[w].event
  BY DEF At, WorkSound, EventsExist
<1>2. deliveries[e].status = "running"
  BY <1>1, ActingHasId DEF Acting, At
<1>3. /\ deliveries' = [deliveries EXCEPT ![e].status = "committed"]
      /\ health' = health /\ failed_at' = failed_at
  BY <1>1 DEF CommitOutput
<1>4. deliveries \in [Deliverable -> Row]
  BY DEF Typed
<1>5. \A d \in Deliverable :
        /\ deliveries'[d].generation = deliveries[d].generation
        /\ deliveries'[d].id = deliveries[d].id
        /\ deliveries'[d].status \in {"running", "committed"} =>
             deliveries[d].status \in {"running", "committed"}
  BY <1>2, <1>3, <1>4 DEF Row
<1>6. GenerationsKept'
  BY <1>3, <1>5 DEF GenerationsKept
<1>. QED  BY <1>3, <1>6 DEF ResetsNewer

LEMMA SucceedKeepsGenerations ==
  ASSUME IInv, Typed', GenerationsKept, NEW w \in Workers, Succeed(w)
  PROVE  GenerationsKept' /\ ResetsNewer
<1>. USE DEF IInv
<1>1. Acting(w) /\ At(w, "succeed") /\ ~At(w, "invoke")
  BY DEF Succeed, Acting, At
<1>2. PICK e \in Deliverable : /\ e = work[w].event /\ deliveries[e].id = work[w].id
                               /\ deliveries[e].status = "committed"
  BY <1>1, ActingHasId
<1>3. Reset(deliveries[e].generation) /\ failed_at' = failed_at
      /\ deliveries' = Settled(deliveries, {e})
  BY <1>2 DEF Succeed, Owns
<1>4. deliveries'[e].status = "succeeded"
  BY <1>3, SettledIsKept
<1>5. RowsKept
  BY SucceedRows
<1>. QED  BY <1>2, <1>3, <1>4, <1>5, RowsKeepGenerations, SuccessIsNewer

LEMMA LoseResultKeepsGenerations ==
  ASSUME IInv, Typed', GenerationsKept, NEW w \in Workers, LoseResult(w)
  PROVE  GenerationsKept' /\ ResetsNewer
<1>1. PICK e \in Deliverable : e = work[w].event
  BY LoseResultRows
<1>2. /\ RowsKept /\ failed_at' = failed_at /\ Reset(deliveries[e].generation)
      /\ deliveries[e].status = "committed" /\ deliveries'[e].status = "succeeded"
  BY <1>1, LoseResultRows
<1>. QED  BY <1>2, RowsKeepGenerations, SuccessIsNewer DEF IInv

LEMMA FinalizeKeepsGenerations ==
  ASSUME IInv, Typed', GenerationsKept, FinalizeCommitted
  PROVE  GenerationsKept' /\ ResetsNewer
<1>. USE DEF IInv
<1>1. /\ RowsKept
      /\ \A e \in Deliverable :
           deliveries[e].status = "committed" => deliveries'[e].status = "succeeded"
  BY FinalizeCommittedRows
<1>2. failed_at' = failed_at
  BY DEF FinalizeCommitted
<1>3. CASE health' = health
  BY <1>1, <1>2, <1>3, QuietGenerations
<1>4. ASSUME NEW e \in Deliverable, deliveries[e].status = "committed",
             deliveries[e].generation = health.generation, Reset(health.generation)
      PROVE  GenerationsKept' /\ ResetsNewer
  <2>1. Reset(deliveries[e].generation)
    BY <1>4
  <2>. QED  BY <1>1, <1>2, <1>4, <2>1, RowsKeepGenerations, SuccessIsNewer
<1>. QED  BY <1>3, <1>4 DEF FinalizeCommitted

LEMMA WorkingKeepsGenerations ==
  ASSUME IInv, Typed', GenerationsKept, NEW w \in Workers, Working(w)
  PROVE  GenerationsKept' /\ ResetsNewer
<1>0. Typed
  BY DEF IInv
<1>1. CASE Check(w) \/ Wake(w) \/ StartCommand(w)
  <2>1. UNCHANGED <<deliveries, health, failed_at>>
    BY <1>1 DEF Check, Wake, StartCommand, persistent
  <2>. QED  BY <1>0, <2>1, SameRows, QuietGenerations
<1>2. CASE Begin(w)
  <2>1. health' = health
    BY <1>2 DEF Begin
  <2>. QED  BY <1>2, <2>1, BeginKeepsGenerations DEF ResetsNewer
<1>3. CASE Reject(w)
  BY <1>3, RejectKeepsGenerations
<1>4. ASSUME NEW o \in Outputs, Output(w, o)
      PROVE  GenerationsKept' /\ ResetsNewer
  <2>1. Owns(w, {"running"}) /\ At(w, "invoke")
    BY <1>4, ActingHasId DEF Output, Owns, IInv, Acting, At
  <2>2. CommitOutput(w, o) \/ RecordFailure(w, "permanent")
    BY <1>4, <2>1 DEF Output, CommitFails
  <2>. QED  BY <2>1, <2>2, CommitKeepsGenerations, RecordFailureKeepsGenerations
<1>5. ASSUME NEW kind \in {"retryable", "permanent", "fatal"}, Fail(w, kind)
      PROVE  GenerationsKept' /\ ResetsNewer
  <2>1. Owns(w, {"running"}) /\ At(w, "invoke")
    BY <1>5, ActingHasId DEF Fail, Owns, IInv, Acting, At
  <2>2. RecordFailure(w, kind)
    BY <1>5, <2>1 DEF Fail
  <2>. QED  BY <2>1, <2>2, RecordFailureKeepsGenerations
<1>6. ASSUME NEW status \in Statuses, FinishCommand(w, status)
      PROVE  GenerationsKept' /\ ResetsNewer
  <2>1. UNCHANGED <<deliveries, health, failed_at>>
    BY <1>6 DEF FinishCommand
  <2>. QED  BY <1>0, <2>1, SameRows, QuietGenerations
<1>7. CASE EnqueueReports(w)
  <2>1. RowsKept
    BY <1>0, <1>7, EnqueueReportsRows DEF EnqueueReports
  <2>. QED  BY <1>0, <1>7, <2>1, QuietGenerations DEF EnqueueReports
<1>8. CASE Succeed(w)
  BY <1>8, SucceedKeepsGenerations
<1>. QED  BY <1>1, <1>2, <1>3, <1>4, <1>5, <1>6, <1>7, <1>8 DEF Working, Invoked

LEMMA StartingKeepsGenerations ==
  ASSUME IInv, Typed', GenerationsKept, Starting
  PROVE  GenerationsKept' /\ ResetsNewer
<1>1. Typed /\ RowsKept
  BY StartingRows DEF IInv
<1>2. CASE FinalizeCommitted
  BY <1>2, FinalizeKeepsGenerations
<1>3. CASE ~FinalizeCommitted
  <2>1. UNCHANGED <<health, failed_at>>
    BY <1>3 DEF Starting, Register, InterruptCommands, RecoverReports, RequeueRunning,
                RecoverNext, RecoveryEnds, persistent
  <2>. QED  BY <1>1, <2>1, QuietGenerations
<1>. QED  BY <1>2, <1>3

LEMMA NextKeepsGenerations ==
  ASSUME IInv, IInv', GenerationsKept, [Next]_vars
  PROVE  GenerationsKept' /\ ResetsNewer
<1>0. Typed /\ Typed'
  BY DEF IInv
<1>1. ASSUME NEW w \in Workers, Working(w)
      PROVE  GenerationsKept' /\ ResetsNewer
  BY <1>0, <1>1, WorkingKeepsGenerations
<1>2. ASSUME NEW w \in Workers, LoseResult(w)
      PROVE  GenerationsKept' /\ ResetsNewer
  BY <1>0, <1>2, LoseResultKeepsGenerations
<1>3. ASSUME NEW w \in Workers, Drop(w) \/ \E e \in Events : Dispatch(w, e)
      PROVE  GenerationsKept' /\ ResetsNewer
  <2>1. UNCHANGED <<deliveries, health, failed_at>>
    BY <1>3 DEF Drop, Dispatch, persistent
  <2>. QED  BY <1>0, <2>1, SameRows, QuietGenerations
<1>4. ASSUME NEW e \in Deliverable, BackoffEnds(e)
      PROVE  GenerationsKept' /\ ResetsNewer
  <2>1. UNCHANGED <<health, failed_at>>
    BY <1>4 DEF BackoffEnds
  <2>. QED  BY <1>0, <1>4, <2>1, BackoffEndsRows, QuietGenerations
<1>5. CASE Starting
  BY <1>0, <1>5, StartingKeepsGenerations
<1>6. CASE Crash \/ UNCHANGED vars
  <2>1. UNCHANGED <<deliveries, health, failed_at>>
    <3>1. CASE Crash
      BY <3>1 DEF Crash, persistent
    <3>2. CASE UNCHANGED vars
      BY <3>2 DEF vars
    <3>. QED  BY <1>6, <3>1, <3>2
  <2>. QED  BY <1>0, <2>1, SameRows, QuietGenerations
<1>7. CASE RecoverDeadLetters
  BY <1>0, <1>7, RecoverDeadLettersKeepsGenerations
<1>. QED  BY <1>1, <1>2, <1>3, <1>4, <1>5, <1>6, <1>7 DEF Next

LEMMA GenerationsInductive == Spec => []GenerationsKept
<1>1. Init => GenerationsKept
  BY DEF Init, GenerationsKept
<1>2. IInv /\ IInv' /\ GenerationsKept /\ [Next]_vars => GenerationsKept'
  BY NextKeepsGenerations
<1>. QED  BY <1>1, <1>2, Inductive, PTL DEF Spec

\* The circuit closes, and the failures counted so far are forgotten, only when
\* the operator says so or when a delivery succeeds that began after the last
\* of them: a success that was already under way says nothing of it.
THEOREM NewerSuccess == Spec => NewerSuccessResets
<1>1. IInv /\ IInv' /\ GenerationsKept /\ [Next]_vars =>
        [ /\ health.failures > 0
          /\ health'.failures = 0
          => \/ spent'.reopenings > spent.reopenings
             \/ \E e \in Deliverable : /\ deliveries'[e].status = "succeeded"
                                       /\ deliveries[e].status # "succeeded"
                                       /\ deliveries[e].id > failed_at ]_vars
  BY NextKeepsGenerations DEF ResetsNewer
<1>. QED  BY <1>1, Inductive, GenerationsInductive, PTL DEF Spec, NewerSuccessResets

----------------------------------------------------------------------------
(* A registration leaves nothing open *)

LEMMA WaitingFacts ==
  \A row : /\ row.status # "pending" => ~Waiting(row)
           /\ row.due => ~Waiting(row)
           /\ ~Waiting(row) /\ ~MayBegin(row) => row.status \notin {"absent", "pending"}
BY Zenon DEF Waiting, MayBegin

LEMMA DomainsOfWork ==
  ASSUME NEW r \in Work
  PROVE  DOMAIN r.queue = 1..Len(r.queue) /\ DOMAIN r.results = 1..Len(r.results)
<1>1. r.queue \in Seq(Queued) /\ r.results \in Seq(Issued)
  BY DEF Work
<1>. QED  BY <1>1, LenProperties

\* The members of a queue that is extended are in it.
LEMMA QueueExtended ==
  ASSUME Typed, NEW w \in Workers, NEW reports \in Seq(Queued)
  PROVE  /\ \A k \in 1..Len(work[w].queue) :
              \E m \in 1..Len(work[w].queue \o reports) :
                (work[w].queue \o reports)[m] = work[w].queue[k]
         /\ \A k \in 1..Len(reports) :
              \E m \in 1..Len(work[w].queue \o reports) :
                (work[w].queue \o reports)[m] = reports[k]
<1>. DEFINE q == work[w].queue
<1>1. q \in Seq(Queued)
  BY DEF Typed, Work
<1>. HIDE DEF q
<1>2. /\ Len(q) \in Nat /\ Len(reports) \in Nat
      /\ Len(q \o reports) = Len(q) + Len(reports)
      /\ \A m \in 1..(Len(q) + Len(reports)) :
           (q \o reports)[m] = IF m <= Len(q) THEN q[m] ELSE reports[m - Len(q)]
  BY <1>1, ConcatProperties, LenProperties
<1>3. ASSUME NEW k \in 1..Len(q)
      PROVE  \E m \in 1..Len(q \o reports) : (q \o reports)[m] = q[k]
  <2>1. k \in 1..(Len(q) + Len(reports)) /\ k <= Len(q)
    BY <1>2
  <2>. QED  BY <1>2, <2>1
<1>4. ASSUME NEW k \in 1..Len(reports)
      PROVE  \E m \in 1..Len(q \o reports) : (q \o reports)[m] = reports[k]
  <2>1. /\ Len(q) + k \in 1..(Len(q) + Len(reports)) /\ ~(Len(q) + k <= Len(q))
        /\ (Len(q) + k) - Len(q) = k
    BY <1>2
  <2>2. (q \o reports)[Len(q) + k] = reports[k]
    BY <1>2, <2>1
  <2>. QED  BY <1>2, <2>1, <2>2
<1>. QED  BY <1>3, <1>4 DEF q

\* All of a queue that a worker goes on with is attended to.
LEMMA RestsAttends ==
  ASSUME NEW w \in Workers, NEW q \in Seq(Queued), NEW state,
         Rests(work'[w], q, state), state # "Disabled",
         NEW m \in 1..Len(q), work' \in [Workers -> Work]
  PROVE  /\ work'[w].pc # "idle"
         /\ \/ work'[w].event = q[m].event
            \/ \E n \in 1..Len(work'[w].queue) : work'[w].queue[n].event = q[m].event
<1>1. q # <<>>
  BY NothingReported
<1>2. /\ work'[w].pc = "check" /\ work'[w].event = q[1].event
      /\ \A n \in 1..Len(work'[w].queue) : work'[w].queue[n] = q[n + 1]
      /\ Len(q) = Len(work'[w].queue) + 1
  BY <1>1 DEF Rests
<1>3. Len(work'[w].queue) \in Nat
  <2>1. work'[w].queue \in Seq(Queued)
    BY DEF Work
  <2>. QED  BY <2>1, LenProperties
<1>4. CASE m = 1
  BY <1>2, <1>4
<1>5. CASE m # 1
  <2>1. m - 1 \in 1..Len(work'[w].queue) /\ (m - 1) + 1 = m
    BY <1>2, <1>3, <1>5
  <2>. QED  BY <1>2, <2>1
<1>. QED  BY <1>4, <1>5

LEMMA GoesFields ==
  ASSUME Typed, NEW w \in Workers, NEW pc \in Steps, Goto(w, pc)
  PROVE  /\ work'[w].pc = pc /\ work'[w].event = work[w].event
         /\ work'[w].queue = work[w].queue /\ work'[w].id = work[w].id
         /\ work'[w].results = work[w].results
         /\ \A v \in Workers : v # w => work'[v] = work[v]
<1>1. Became(w, [work[w] EXCEPT !.pc = pc]) /\ work[w] \in Work
  BY Goes DEF Typed
<1>. QED  BY <1>1 DEF Became, Work

\* The worker goes on with its event.
LEMMA StaysAccounted ==
  ASSUME IInv, Typed', RecoveryKept, host = "deliver", plugin # "Disabled",
         recovery'.backlog = recovery.backlog, recovery'.cut = recovery.cut,
         NEW w \in Workers, ~At(w, "idle"), ~At(w, "succeed"),
         \A v \in Workers : v # w => work'[v] = work[v],
         work'[w].pc # "idle",
         work'[w].event = work[w].event, work'[w].queue = work[w].queue,
         NEW e \in Deliverable, e = work[w].event,
         \A d \in Deliverable : d # e =>
           \/ deliveries'[d] = deliveries[d]
           \/ /\ deliveries'[d].status = "pending" /\ ~Waiting(deliveries'[d])
              /\ work'[w].pc = "succeed" /\ ReportsResults /\ d \in Done(w)',
         deliveries'[e].status \in {"running", "committed"} =>
           Acting(w)' \/ (~Acting(w) /\ deliveries'[e] = deliveries[e]),
         Waiting(deliveries'[e]) =>
           \/ work'[w].pc = "backoff" /\ work'[w].id = deliveries'[e].id
           \/ /\ ~At(w, "backoff") \/ work[w].id # deliveries[e].id
              /\ deliveries'[e] = deliveries[e]
  PROVE  RecoveryKept'
<1>. SUFFICES ASSUME NEW d \in Deliverable
              PROVE  Accounted(d)'
  BY DEF RecoveryKept
<1>1. work'[w] \in Work
  BY DEF Typed
<1>2. Accounted(d)
  BY DEF RecoveryKept
<1>3. Attends(w, d) => Attends(w, d)'
  BY DEF Attends, At
<1>4. CASE d = e
  <2>1. Sought(d)'
    BY <1>4 DEF Sought, Attends, At
  <2>2. CASE deliveries'[e].status \in {"running", "committed"}
    <3>1. Owned(d)'
      BY <1>2, <1>4, <2>2 DEF Accounted, Owned, Acting
    <3>. QED  BY <1>4, <2>1, <2>2, <3>1, WaitingFacts DEF Accounted
  <2>3. CASE Waiting(deliveries'[e])
    <3>1. Awaited(d)'
      BY <1>2, <1>4, <2>3 DEF Accounted, Awaited, At
    <3>. QED  BY <1>4, <2>1, <2>3, <3>1 DEF Accounted, Waiting
  <2>. QED  BY <1>4, <2>1, <2>2, <2>3 DEF Accounted
<1>5. CASE d # e /\ deliveries'[d] = deliveries[d]
  <2>1. \A v \in Workers : Attends(v, d) => Attends(v, d)'
    BY <1>3 DEF Attends, At
  <2>2. Sought(d) => Sought(d)'
    BY <2>1 DEF Sought
  <2>3. Owned(d) => Owned(d)'
    BY <1>5 DEF Owned, Acting
  <2>4. Awaited(d) => Awaited(d)'
    BY <1>5 DEF Awaited, At
  <2>. QED  BY <1>2, <1>5, <2>2, <2>3, <2>4 DEF Accounted
<1>6. CASE /\ deliveries'[d].status = "pending" /\ ~Waiting(deliveries'[d])
           /\ work'[w].pc = "succeed" /\ ReportsResults /\ d \in Done(w)'
  <2>1. Attends(w, d)'
    BY <1>1, <1>6, DomainsOfWork DEF Attends, At, Done
  <2>2. Sought(d)'
    BY <2>1 DEF Sought
  <2>. QED  BY <1>6, <2>2 DEF Accounted
<1>. QED  BY <1>4, <1>5, <1>6


\* The worker is done with its event, which is over, or which it passes over,
\* and goes on with its reports.
LEMMA AdvancesAccounted ==
  ASSUME IInv, Typed', RecoveryKept, host = "deliver", plugin # "Disabled",
         recovery' = recovery,
         NEW w \in Workers, ~At(w, "idle"), NEW reports \in Seq(Queued),
         Advance(w, reports, plugin),
         NEW e \in Deliverable, e = work[w].event,
         \/ deliveries'[e].status \notin {"pending", "running", "committed"}
         \/ At(w, "begin") /\ ~MayBegin(deliveries[e]) /\ deliveries'[e] = deliveries[e],
         \A d \in Deliverable : d # e =>
           \/ deliveries'[d] = deliveries[d]
           \/ /\ deliveries'[d].status = "pending" /\ ~Waiting(deliveries'[d])
              /\ \E n \in 1..Len(reports) : reports[n].event = d,
         At(w, "succeed") /\ ReportsResults =>
           \A i \in Done(w) : \E n \in 1..Len(reports) : reports[n].event = i
  PROVE  RecoveryKept'
<1>. DEFINE q == work[w].queue \o reports
<1>. SUFFICES ASSUME NEW d \in Deliverable
              PROVE  Accounted(d)'
  BY DEF RecoveryKept
<1>1. Accounted(d)
  BY DEF RecoveryKept
<1>2. /\ \A v \in Workers : v # w => work'[v] = work[v]
      /\ Rests(work'[w], q, plugin)
  BY AdvancedRests DEF IInv, Became
<1>3. /\ work[w] \in Work /\ work[w].queue \in Seq(Queued)
      /\ work' \in [Workers -> Work] /\ work'[w] \in Work
  BY DEF IInv, Typed, Work
<1>4. q \in Seq(Queued)
  BY <1>3, ConcatProperties
<1>5. /\ \A k \in 1..Len(work[w].queue) : \E m \in 1..Len(q) : q[m] = work[w].queue[k]
      /\ \A k \in 1..Len(reports) : \E m \in 1..Len(q) : q[m] = reports[k]
  BY QueueExtended DEF IInv
<1>. HIDE DEF q
<1>6. ASSUME NEW m \in 1..Len(q), q[m].event = d
      PROVE  Attends(w, d)'
  <2>1. /\ work'[w].pc # "idle"
        /\ \/ work'[w].event = q[m].event
           \/ \E n \in 1..Len(work'[w].queue) : work'[w].queue[n].event = q[m].event
    BY <1>2, <1>3, <1>4, RestsAttends
  <2>. QED  BY <1>3, <1>6, <2>1, DomainsOfWork DEF Attends, At
<1>7. ASSUME NEW n \in 1..Len(reports), reports[n].event = d
      PROVE  Attends(w, d)'
  <2>1. PICK m \in 1..Len(q) : q[m] = reports[n]
    BY <1>5
  <2>. QED  BY <1>6, <1>7, <2>1
<1>8. ASSUME NEW v \in Workers, Attends(v, d), v # w \/ d # e
      PROVE  Attends(v, d)'
  <2>1. CASE v # w
    BY <1>2, <1>8, <2>1 DEF Attends, At
  <2>2. CASE v = w /\ \E n \in DOMAIN work[w].queue : d = work[w].queue[n].event
    <3>1. PICK k \in 1..Len(work[w].queue) : d = work[w].queue[k].event
      BY <1>3, <2>2, DomainsOfWork
    <3>2. PICK m \in 1..Len(q) : q[m] = work[w].queue[k]
      BY <1>5
    <3>. QED  BY <1>6, <2>2, <3>1, <3>2
  <2>3. CASE /\ v = w /\ At(w, "succeed") /\ ReportsResults
             /\ \E n \in DOMAIN work[w].results : d = work[w].results[n]
    <3>1. d \in Done(w)
      BY <1>3, <2>3, DomainsOfWork DEF Done
    <3>. QED  BY <1>7, <2>3, <3>1
  <2>. QED  BY <1>8, <2>1, <2>2, <2>3 DEF Attends
<1>9. CASE d # e /\ deliveries'[d] = deliveries[d]
  <2>1. Sought(d) => Sought(d)'
    BY <1>8, <1>9 DEF Sought
  <2>2. Owned(d) => Owned(d)'
    BY <1>2, <1>9 DEF Owned, Acting
  <2>3. Awaited(d) => Awaited(d)'
    BY <1>2, <1>9 DEF Awaited, At
  <2>. QED  BY <1>1, <1>9, <2>1, <2>2, <2>3 DEF Accounted
<1>10. CASE /\ deliveries'[d].status = "pending" /\ ~Waiting(deliveries'[d])
            /\ \E n \in 1..Len(reports) : reports[n].event = d
  <2>1. Sought(d)'
    BY <1>7, <1>10 DEF Sought
  <2>. QED  BY <1>10, <2>1 DEF Accounted
<1>11. CASE d = e /\ deliveries'[e].status \notin {"pending", "running", "committed"}
  BY <1>11 DEF Accounted, Waiting
<1>12. CASE d = e /\ At(w, "begin") /\ ~MayBegin(deliveries[e]) /\ deliveries'[e] = deliveries[e]
  <2>1. ~Acting(w) /\ ~At(w, "backoff")
    BY <1>12 DEF Acting, At
  <2>2. Owned(d) => Owned(d)' /\ Sought(d)'
    <3>1. ASSUME NEW v \in Workers, Acting(v) /\ work[v].event = d
          PROVE  Acting(v)' /\ work'[v].event = d /\ Attends(v, d)'
      BY <1>2, <2>1, <3>1 DEF Acting, Attends, At
    <3>. QED  BY <3>1 DEF Owned, Sought
  <2>3. Awaited(d) => Awaited(d)' /\ Sought(d)'
    <3>1. ASSUME NEW v \in Workers,
                 At(v, "backoff") /\ work[v].event = d /\ work[v].id = deliveries[d].id
          PROVE  /\ work'[v].pc = "backoff" /\ work'[v].event = d
                 /\ work'[v].id = deliveries'[d].id /\ Attends(v, d)'
      BY <1>2, <1>12, <2>1, <3>1 DEF Attends, At
    <3>. QED  BY <1>12, <3>1 DEF Awaited, Sought, At
  <2>4. CASE Waiting(deliveries[e])
    BY <1>1, <1>12, <2>3, <2>4 DEF Accounted, Waiting
  <2>5. CASE ~Waiting(deliveries[e])
    <3>1. deliveries[e].status \notin {"absent", "pending"}
      BY <1>12, <2>5, WaitingFacts
    <3>. QED  BY <1>1, <1>12, <2>2, <2>5, <3>1 DEF Accounted
  <2>. QED  BY <2>4, <2>5
<1>. QED  BY <1>9, <1>10, <1>11, <1>12

LEMMA CheckAccounted ==
  ASSUME IInv, IInv', RecoveryKept, host = "deliver", plugin' # "Disabled",
         NEW w \in Workers, Check(w)
  PROVE  RecoveryKept'
<1>. USE DEF IInv
<1>1. Goto(w, "begin") /\ plugin' = plugin
  BY DEF Check
<1>2. ~At(w, "idle") /\ ~At(w, "succeed") /\ ~At(w, "backoff") /\ ~Acting(w)
  BY DEF Check, At, Acting
<1>3. PICK e \in Deliverable : e = work[w].event
  BY <1>2 DEF WorkSound, EventsExist
<1>4. /\ work'[w].pc = "begin" /\ work'[w].event = work[w].event
      /\ work'[w].queue = work[w].queue
      /\ \A v \in Workers : v # w => work'[v] = work[v]
  BY <1>1, GoesFields DEF Steps
<1>5. deliveries' = deliveries /\ recovery' = recovery
  BY DEF Check, persistent
<1>. QED  BY <1>1, <1>2, <1>3, <1>4, <1>5, StaysAccounted

\* A worker whose attempt is the last wakes up when the delivery is due.
LEMMA WakeAccounted ==
  ASSUME IInv, IInv', RecoveryKept, host = "deliver", plugin' # "Disabled",
         NEW w \in Workers, Wake(w)
  PROVE  RecoveryKept'
<1>. USE DEF IInv
<1>1. Goto(w, "begin") /\ plugin' = plugin
  BY DEF Wake
<1>2. ~At(w, "idle") /\ ~At(w, "succeed") /\ At(w, "backoff") /\ ~Acting(w)
  BY DEF Wake, At, Acting
<1>3. PICK e \in Deliverable : e = work[w].event
  BY <1>2 DEF WorkSound, EventsExist
<1>4. Waiting(deliveries[e]) => work[w].id # deliveries[e].id
  BY <1>3 DEF Wake, Owns, Waiting
<1>5. /\ work'[w].pc = "begin" /\ work'[w].event = work[w].event
      /\ work'[w].queue = work[w].queue
      /\ \A v \in Workers : v # w => work'[v] = work[v]
  BY <1>1, GoesFields DEF Steps
<1>6. deliveries' = deliveries /\ recovery' = recovery
  BY DEF Wake, persistent
<1>. QED  BY <1>1, <1>2, <1>3, <1>4, <1>5, <1>6, StaysAccounted

LEMMA BeginAccounted ==
  ASSUME IInv, IInv', RecoveryKept, host = "deliver", plugin' # "Disabled",
         NEW w \in Workers, Begin(w)
  PROVE  RecoveryKept'
<1>. USE DEF IInv
<1>1. /\ ~At(w, "idle") /\ ~At(w, "succeed") /\ At(w, "begin")
      /\ plugin' = plugin /\ recovery' = recovery
  BY DEF Begin, At
<1>2. PICK e \in Deliverable : e = work[w].event
  BY <1>1 DEF WorkSound, EventsExist
<1>3. CASE MayBegin(deliveries[e])
  <2>1. /\ deliveries' = [deliveries EXCEPT ![e] = Begun(deliveries[e], drawn + 1, work[w].depth)]
        /\ work' = [work EXCEPT ![w].pc = "invoke", ![w].id = drawn + 1,
                                ![w].snapshot = revision]
    BY <1>2, <1>3 DEF Begin
  <2>2. deliveries \in [Deliverable -> Row] /\ work \in [Workers -> Work]
    BY DEF Typed
  <2>3. /\ \A d \in Deliverable : d # e => deliveries'[d] = deliveries[d]
        /\ deliveries'[e].status = "running"
    BY <2>1, <2>2 DEF Begun
  <2>4. /\ work'[w].pc = "invoke" /\ work'[w].event = work[w].event
        /\ work'[w].queue = work[w].queue
        /\ \A v \in Workers : v # w => work'[v] = work[v]
    BY <2>1, <2>2 DEF Work
  <2>5. Acting(w)' /\ ~Waiting(deliveries'[e])
    BY <2>3, <2>4, WaitingFacts DEF Acting
  <2>. QED  BY <1>1, <1>2, <2>3, <2>4, <2>5, StaysAccounted
<1>4. CASE ~MayBegin(deliveries[e])
  <2>1. deliveries' = deliveries /\ Advance(w, <<>>, plugin)
    BY <1>2, <1>4 DEF Begin
  <2>. QED  BY <1>1, <1>2, <1>4, <2>1, NothingReported, AdvancesAccounted
<1>. QED  BY <1>3, <1>4

LEMMA CommitAccounted ==
  ASSUME IInv, IInv', RecoveryKept, host = "deliver", plugin' # "Disabled",
         recovery' = recovery, NEW w \in Workers, NEW o \in Outputs, At(w, "invoke"),
         CommitOutput(w, o)
  PROVE  RecoveryKept'
<1>. USE DEF IInv
<1>1. ~At(w, "idle") /\ ~At(w, "succeed") /\ plugin' = plugin
  BY DEF CommitOutput, At
<1>2. PICK e \in Deliverable : e = work[w].event
  BY <1>1 DEF WorkSound, EventsExist
<1>3. deliveries \in [Deliverable -> Row] /\ work \in [Workers -> Work]
  BY DEF Typed
<1>4. /\ \A d \in Deliverable : d # e => deliveries'[d] = deliveries[d]
      /\ deliveries'[e].status = "committed"
  BY <1>2, <1>3 DEF CommitOutput, Row
<1>5. PICK issue : work' = [work EXCEPT ![w].pc = "execute", ![w].todo = issue]
  BY DEF CommitOutput
<1>6. /\ work'[w].pc = "execute" /\ work'[w].event = work[w].event
      /\ work'[w].queue = work[w].queue
      /\ \A v \in Workers : v # w => work'[v] = work[v]
  BY <1>3, <1>5 DEF Work
<1>7. Acting(w)' /\ ~Waiting(deliveries'[e])
  BY <1>4, <1>6, WaitingFacts DEF Acting
<1>. QED  BY <1>1, <1>2, <1>4, <1>6, <1>7, StaysAccounted

LEMMA RecordFailureAccounted ==
  ASSUME IInv, IInv', RecoveryKept, host = "deliver", plugin' # "Disabled",
         recovery' = recovery, NEW w \in Workers, NEW kind, At(w, "invoke"),
         RecordFailure(w, kind)
  PROVE  RecoveryKept'
<1>. USE DEF IInv
<1>1. ~At(w, "idle") /\ ~At(w, "succeed") /\ Acting(w)
  BY DEF At, Acting
<1>2. PICK e \in Deliverable : /\ e = work[w].event /\ deliveries[e].id = work[w].id
  BY <1>1, ActingHasId
<1>3. deliveries \in [Deliverable -> Row]
  BY DEF Typed
<1>4. /\ plugin' = plugin
      /\ \/ /\ deliveries' = [deliveries EXCEPT ![e].status = "dead_letter", ![e].due = FALSE]
            /\ Advance(w, <<>>, plugin)
         \/ /\ deliveries' = [deliveries EXCEPT ![e].status = "pending", ![e].due = FALSE]
            /\ Goto(w, "backoff")
  BY <1>2 DEF RecordFailure
<1>5. CASE /\ deliveries' = [deliveries EXCEPT ![e].status = "dead_letter", ![e].due = FALSE]
           /\ Advance(w, <<>>, plugin)
  <2>1. /\ deliveries'[e].status = "dead_letter"
        /\ \A d \in Deliverable : d # e => deliveries'[d] = deliveries[d]
    BY <1>3, <1>5 DEF Row
  <2>2. deliveries'[e].status \notin {"pending", "running", "committed"}
    BY <2>1
  <2>. QED  BY <1>1, <1>2, <1>4, <1>5, <2>1, <2>2, NothingReported, AdvancesAccounted,
               ZenonT(60)
<1>6. CASE /\ deliveries' = [deliveries EXCEPT ![e].status = "pending", ![e].due = FALSE]
           /\ Goto(w, "backoff")
  <2>1. /\ deliveries'[e].status = "pending" /\ deliveries'[e].id = work[w].id
        /\ \A d \in Deliverable : d # e => deliveries'[d] = deliveries[d]
    BY <1>2, <1>3, <1>6 DEF Row
  <2>2. /\ work'[w].pc = "backoff" /\ work'[w].event = work[w].event
        /\ work'[w].queue = work[w].queue /\ work'[w].id = work[w].id
        /\ \A v \in Workers : v # w => work'[v] = work[v]
    BY <1>6, GoesFields DEF Steps
  <2>. QED  BY <1>1, <1>2, <1>4, <2>1, <2>2, StaysAccounted
<1>. QED  BY <1>4, <1>5, <1>6

LEMMA StartCommandAccounted ==
  ASSUME IInv, IInv', RecoveryKept, host = "deliver", plugin' # "Disabled",
         NEW w \in Workers, StartCommand(w)
  PROVE  RecoveryKept'
<1>. USE DEF IInv
<1>1. ~At(w, "idle") /\ ~At(w, "succeed") /\ ~At(w, "backoff") /\ Goto(w, "executing")
  BY DEF StartCommand, At
<1>2. PICK e \in Deliverable : e = work[w].event
  BY <1>1 DEF WorkSound, EventsExist
<1>3. /\ work'[w].pc = "executing" /\ work'[w].event = work[w].event
      /\ work'[w].queue = work[w].queue
      /\ \A v \in Workers : v # w => work'[v] = work[v]
  BY <1>1, GoesFields DEF Steps
<1>4. UNCHANGED <<deliveries, plugin>>
  BY DEF StartCommand, persistent
<1>5. recovery'.backlog = recovery.backlog /\ recovery'.cut = recovery.cut
  <2>1. recovery \in Recoveries
    BY DEF Typed
  <2>2. recovery' = [recovery EXCEPT !.created = @ \/ host = "deliver"]
    BY DEF StartCommand
  <2>. QED  BY <2>1, <2>2 DEF Recoveries
<1>6. Acting(w)'
  BY <1>3 DEF Acting
<1>. QED  BY <1>1, <1>2, <1>3, <1>4, <1>5, <1>6, StaysAccounted

LEMMA FinishCommandAccounted ==
  ASSUME IInv, IInv', RecoveryKept, host = "deliver", plugin' # "Disabled",
         NEW w \in Workers, NEW status \in Statuses, FinishCommand(w, status)
  PROVE  RecoveryKept'
<1>. USE DEF IInv
<1>1. ~At(w, "idle") /\ ~At(w, "succeed") /\ ~At(w, "backoff")
  BY DEF FinishCommand, At
<1>2. PICK e \in Deliverable : e = work[w].event
  BY <1>1 DEF WorkSound, EventsExist
<1>3. PICK todo, results :
        work' = [work EXCEPT ![w].pc = "execute", ![w].todo = todo, ![w].results = results]
  BY DEF FinishCommand
<1>4. /\ work'[w].pc = "execute" /\ work'[w].event = work[w].event
      /\ work'[w].queue = work[w].queue
      /\ \A v \in Workers : v # w => work'[v] = work[v]
  <2>1. work \in [Workers -> Work]
    BY DEF Typed
  <2>. QED  BY <1>3, <2>1 DEF Work
<1>5. UNCHANGED <<deliveries, plugin, recovery>>
  BY DEF FinishCommand
<1>6. Acting(w)'
  BY <1>4 DEF Acting
<1>. QED  BY <1>1, <1>2, <1>4, <1>5, <1>6, StaysAccounted

\* A report that is new is due at once.
LEMMA ReportsAreDue ==
  ASSUME NEW reports, NEW depth
  PROVE  \A d \in Deliverable :
           IF d \in reports /\ deliveries[d].status = "absent"
             THEN /\ Enqueued(deliveries, reports, depth)[d].status = "pending"
                  /\ ~Waiting(Enqueued(deliveries, reports, depth)[d])
             ELSE Enqueued(deliveries, reports, depth)[d] = deliveries[d]
BY Zenon DEF Enqueued, Waiting

LEMMA EnqueueReportsAccounted ==
  ASSUME IInv, IInv', RecoveryKept, host = "deliver", plugin' # "Disabled",
         NEW w \in Workers, EnqueueReports(w)
  PROVE  RecoveryKept'
<1>. USE DEF IInv
<1>. DEFINE R == Reports(Done(w))
            depth == [i \in Issued |-> work[w].depth + 1]
<1>1. /\ ~At(w, "idle") /\ ~At(w, "succeed") /\ ~At(w, "invoke") /\ Acting(w)
      /\ work[w].pc = "execute" /\ Goto(w, "succeed") /\ work[w] \in Work
  BY DEF EnqueueReports, At, Acting, Typed
<1>2. PICK e \in Deliverable : /\ e = work[w].event
                               /\ deliveries[e].status = "committed"
  BY <1>1, ActingHasId
<1>3. deliveries' = Enqueued(deliveries, R, depth)
  <2>1. DOMAIN work[w].results = 1..Len(work[w].results)
    <3>1. work[w].results \in Seq(Issued)
      BY <1>1 DEF Work
    <3>. QED  BY <3>1, LenProperties
  <2>. QED  BY <2>1 DEF EnqueueReports, Done
<1>4. R \subseteq Done(w) /\ (R # {} => ReportsResults)
  BY DEF Reports
<1>. HIDE DEF R, depth
<1>5. \A d \in Deliverable :
        IF d \in R /\ deliveries[d].status = "absent"
          THEN deliveries'[d].status = "pending" /\ ~Waiting(deliveries'[d])
          ELSE deliveries'[d] = deliveries[d]
  BY <1>3, ReportsAreDue
<1>6. /\ work'[w].pc = "succeed" /\ work'[w].event = work[w].event
      /\ work'[w].queue = work[w].queue /\ work'[w].results = work[w].results
      /\ \A v \in Workers : v # w => work'[v] = work[v]
  BY <1>1, GoesFields DEF Steps
<1>7. Done(w)' = Done(w)
  BY <1>6 DEF Done
<1>8. ASSUME NEW d \in Deliverable, d # e
      PROVE  \/ deliveries'[d] = deliveries[d]
             \/ /\ deliveries'[d].status = "pending" /\ ~Waiting(deliveries'[d])
                /\ work'[w].pc = "succeed" /\ ReportsResults /\ d \in Done(w)'
  BY <1>4, <1>5, <1>6, <1>7
<1>9. UNCHANGED <<host, plugin, recovery>>
  BY DEF EnqueueReports
<1>10. Acting(w)'
  BY <1>6 DEF Acting
<1>11. ~Waiting(deliveries'[e])
  <2>1. deliveries'[e] = deliveries[e]
    BY <1>2, <1>5
  <2>. QED  BY <1>2, <2>1, WaitingFacts
<1>. QED  BY <1>1, <1>2, <1>6, <1>7, <1>8, <1>9, <1>10, <1>11, StaysAccounted

LEMMA SucceedAccounted ==
  ASSUME IInv, IInv', RecoveryKept, host = "deliver", plugin' # "Disabled",
         NEW w \in Workers, Succeed(w)
  PROVE  RecoveryKept'
<1>. USE DEF IInv
<1>. DEFINE s == work[w].results
            reports == [n \in DOMAIN s |-> [event |-> s[n], depth |-> work[w].depth + 1]]
            q == IF ReportsResults THEN reports ELSE <<>>
<1>1. ~At(w, "idle") /\ ~At(w, "invoke") /\ At(w, "succeed") /\ Acting(w)
  BY DEF Succeed, At, Acting
<1>2. PICK e \in Deliverable : /\ e = work[w].event /\ deliveries[e].id = work[w].id
                               /\ deliveries[e].status = "committed"
  BY <1>1, ActingHasId
<1>3. deliveries' = Settled(deliveries, {e}) /\ Advance(w, q, plugin)
  BY <1>2 DEF Succeed, Owns
<1>4. /\ reports \in Seq(Queued) /\ Len(reports) = Len(s)
      /\ \A n \in 1..Len(reports) : reports[n].event = s[n]
  BY ReportsTyped
<1>. HIDE DEF reports
<1>5. /\ q \in Seq(Queued)
      /\ \A n \in 1..Len(q) : q[n].event \in Done(w)
      /\ ReportsResults => \A i \in Done(w) : \E n \in 1..Len(q) : q[n].event = i
  <2>1. CASE ReportsResults
    BY <1>4, <2>1 DEF Done
  <2>2. CASE ~ReportsResults
    BY <2>2, NothingReported
  <2>. QED  BY <2>1, <2>2
<1>. HIDE DEF q
<1>6. /\ deliveries'[e].status = "succeeded"
      /\ \A d \in Deliverable : d # e => deliveries'[d] = deliveries[d]
  BY <1>3, SettledIsKept
<1>7. UNCHANGED <<host, plugin, recovery>>
  BY DEF Succeed
<1>8. deliveries'[e].status \notin {"pending", "running", "committed"}
  BY <1>6
<1>. QED  BY <1>1, <1>2, <1>3, <1>5, <1>6, <1>7, <1>8, AdvancesAccounted

\* A result that could not be recorded is reported too.
LEMMA LoseResultAccounted ==
  ASSUME IInv, IInv', RecoveryKept, host = "deliver", plugin' # "Disabled",
         NEW w \in Workers, LoseResult(w)
  PROVE  RecoveryKept'
<1>. USE DEF IInv
<1>. DEFINE id == work[w].id
            results == {i \in Results(ledger') : i[1] = id}
            R == Reports(results)
            depth == [i \in Issued |-> work[w].depth + 1]
            rows == Enqueued(deliveries, R, depth)
<1>1. /\ ~At(w, "idle") /\ ~At(w, "succeed") /\ ~At(w, "invoke") /\ Acting(w)
      /\ work[w].pc = "executing" /\ At(w, "executing")
  BY DEF LoseResult, At, Acting
<1>2. PICK e \in Deliverable : /\ e = work[w].event /\ deliveries[e].id = id
                               /\ deliveries[e].status = "committed"
  BY <1>1, ActingHasId
<1>3. RecoverCommitted(w)
  BY <1>2 DEF LoseResult, Owns
<1>4. /\ ledger' = Interrupted({id} \X Commands)
      /\ deliveries' = Settled(rows, {e})
      /\ \E q \in Envelopes(w, R) : Advance(w, q, plugin)
      /\ UNCHANGED plugin
  BY <1>2, <1>3 DEF RecoverCommitted
<1>5. \A i \in Issued : ledger'[i] # "absent" => ledger[i] # "absent"
  BY <1>4 DEF Interrupted
<1>6. R \subseteq {i \in Issued : i[1] = id /\ ledger[i] # "absent"}
  BY <1>5 DEF Reports, Results
<1>7. \A i \in R : i \in Deliverable /\ deliveries[i].status = "absent"
  <2>1. ASSUME NEW i \in R
        PROVE  i \in Deliverable /\ deliveries[i].status = "absent"
    <3>1. i \in Issued /\ i[1] = id
      BY <1>6
    <3>2. i = <<id, i[2]>> /\ i[2] \in Commands /\ i \in Deliverable
      BY <3>1, Constants
    <3>. QED  BY <1>1, <3>2 DEF WorkSound, CommandsKept
  <2>. QED  BY <2>1
<1>8. IsFiniteSet(R)
  BY <1>1, <1>6, LedgerOfIsFinite
<1>. HIDE DEF R, depth
<1>9. \A d \in Deliverable :
        IF d \in R THEN rows[d].status = "pending" /\ ~Waiting(rows[d])
                   ELSE rows[d] = deliveries[d]
  BY <1>7, ReportsAreDue
<1>. HIDE DEF rows
<1>10. rows[e] = deliveries[e] /\ e \notin R
  BY <1>2, <1>7, <1>9
<1>11. /\ deliveries'[e].status = "succeeded"
       /\ \A d \in Deliverable : d # e => deliveries'[d] = rows[d]
  <2>1. \A d \in {e} \cap Deliverable : rows[d] = deliveries[d]
    BY <1>10
  <2>. QED  BY <1>4, <2>1, SettledIsKept
<1>12. PICK q \in Envelopes(w, R) : Advance(w, q, plugin)
  BY <1>4
<1>13. /\ q \in Seq(Queued)
       /\ \A n \in 1..Len(q) : q[n].event \in R
       /\ \A i \in R : \E n \in 1..Len(q) : q[n].event = i
  BY <1>6, <1>8, EnvelopesTyped
<1>14. ASSUME NEW d \in Deliverable, d # e
       PROVE  \/ deliveries'[d] = deliveries[d]
              \/ /\ deliveries'[d].status = "pending" /\ ~Waiting(deliveries'[d])
                 /\ \E n \in 1..Len(q) : q[n].event = d
  BY <1>9, <1>11, <1>13, <1>14
<1>15. UNCHANGED <<host, plugin, recovery>>
  BY <1>4 DEF LoseResult
<1>16. /\ deliveries'[e].status \notin {"pending", "running", "committed"}
       /\ ~(At(w, "succeed") /\ ReportsResults)
  BY <1>1, <1>11
<1>. QED  BY <1>1, <1>2, <1>12, <1>13, <1>14, <1>15, <1>16, AdvancesAccounted


\* The time of a retry comes.
LEMMA BackoffEndsAccounted ==
  ASSUME IInv, RecoveryKept, NEW e \in Deliverable, BackoffEnds(e)
  PROVE  RecoveryKept'
<1>. USE DEF IInv
<1>1. /\ deliveries \in [Deliverable -> Row]
      /\ deliveries' = [deliveries EXCEPT ![e].due = TRUE]
      /\ host' = host /\ plugin' = plugin /\ work' = work /\ recovery' = recovery
  BY DEF Typed, BackoffEnds
<1>2. ASSUME NEW d \in Deliverable, Accounted(d)
      PROVE  Accounted(d)'
  <2>1. /\ deliveries'[d].status = deliveries[d].status
        /\ deliveries'[d].id = deliveries[d].id
        /\ deliveries'[d].attempt = deliveries[d].attempt
        /\ Waiting(deliveries'[d]) => Waiting(deliveries[d])
    BY <1>1 DEF Row, Waiting
  <2>2. Sought(d) => Sought(d)'
    BY <1>1 DEF Sought, Attends, At
  <2>3. Owned(d) => Owned(d)'
    BY <1>1 DEF Owned, Acting
  <2>4. Awaited(d) => Awaited(d)'
    BY <1>1, <2>1 DEF Awaited, At
  <2>. QED  BY <1>2, <2>1, <2>2, <2>3, <2>4 DEF Accounted
<1>. QED  BY <1>1, <1>2 DEF RecoveryKept

\* A task that is aborted leaves what it attended to cut.
LEMMA DropAccounted ==
  ASSUME IInv, RecoveryKept, host = "deliver", plugin' # "Disabled",
         NEW w \in Workers, Drop(w)
  PROVE  RecoveryKept'
<1>1. /\ UNCHANGED <<deliveries, plugin>>
      /\ \A v \in Workers : v # w => work'[v] = work[v]
      /\ recovery' = [recovery EXCEPT !.cut = @ \cup {d \in Deliverable : Attends(w, d)}]
  <2>1. work' = [work EXCEPT ![w] = Idle] /\ work \in [Workers -> Work]
    BY DEF Drop, IInv, Typed
  <2>. QED  BY <2>1 DEF Drop, persistent
<1>2. /\ recovery'.backlog = recovery.backlog
      /\ \A d \in Deliverable : d \in recovery'.cut <=> d \in recovery.cut \/ Attends(w, d)
  <2>1. recovery \in Recoveries
    BY DEF IInv, Typed
  <2>. QED  BY <1>1, <2>1 DEF Recoveries
<1>3. ASSUME NEW d \in Deliverable, Accounted(d)
      PROVE  Accounted(d)'
  <2>1. Sought(d) => Sought(d)'
    <3>1. \A v \in Workers : v # w /\ Attends(v, d) => Attends(v, d)'
      BY <1>1 DEF Attends, At
    <3>. QED  BY <1>2, <3>1 DEF Sought
  <2>2. Owned(d) => Owned(d)'
    <3>1. Acting(w) /\ work[w].event = d => Attends(w, d)
      BY DEF Acting, Attends, At
    <3>. QED  BY <1>1, <1>2, <3>1 DEF Owned, Acting
  <2>3. Awaited(d) => Awaited(d)'
    <3>1. At(w, "backoff") /\ work[w].event = d => Attends(w, d)
      BY DEF Attends, At
    <3>. QED  BY <1>1, <1>2, <3>1 DEF Awaited, At
  <2>. QED  BY <1>1, <1>3, <2>1, <2>2, <2>3 DEF Accounted
<1>. QED  BY <1>1, <1>3 DEF RecoveryKept

\* The task of a schedule fires.
LEMMA DispatchAccounted ==
  ASSUME IInv, RecoveryKept, NEW w \in Workers, NEW e \in Events, Dispatch(w, e)
  PROVE  RecoveryKept'
<1>1. /\ host' = host /\ plugin' = plugin /\ deliveries' = deliveries /\ recovery' = recovery
      /\ \A v \in Workers : v # w => work'[v] = work[v]
      /\ ~Acting(w) /\ At(w, "idle")
  <2>1. work' = [work EXCEPT ![w].pc = "check", ![w].event = e] /\ work \in [Workers -> Work]
    BY DEF Dispatch, IInv, Typed
  <2>. QED  BY <2>1 DEF Dispatch, persistent, Acting, At
<1>2. ASSUME NEW d \in Deliverable, Accounted(d)
      PROVE  Accounted(d)'
  <2>1. \A v \in Workers : Attends(v, d) => Attends(v, d)'
    BY <1>1 DEF Attends, At
  <2>2. Sought(d) => Sought(d)'
    BY <1>1, <2>1 DEF Sought
  <2>3. Owned(d) => Owned(d)'
    BY <1>1 DEF Owned, Acting
  <2>4. Awaited(d) => Awaited(d)'
    BY <1>1 DEF Awaited, At
  <2>. QED  BY <1>1, <1>2, <2>2, <2>3, <2>4 DEF Accounted
<1>. QED  BY <1>1, <1>2 DEF RecoveryKept

\* The loop of recover_pending_deliveries() takes one delivery: when it is due,
\* if it is still as the loop has read it.
LEMMA RecoverNextAccounted ==
  ASSUME IInv, RecoveryKept, RecoverNext
  PROVE  RecoveryKept'
<1>. USE DEF IInv
<1>1. PICK b \in recovery.backlog :
        /\ deliveries[b[1]].status = "pending" /\ deliveries[b[1]].attempt = b[2]
             => deliveries[b[1]].due
        /\ recovery' = [recovery EXCEPT !.backlog = @ \ {b}]
        /\ work' = [work EXCEPT ![Loop].pc = "check", ![Loop].event = b[1],
                                ![Loop].depth = deliveries[b[1]].depth]
  BY DEF RecoverNext
<1>2. /\ host = "deliver" /\ plugin # "Disabled" /\ At(Loop, "idle")
      /\ deliveries' = deliveries /\ Loop \in Workers
      /\ ~Acting(Loop)
  BY Constants DEF RecoverNext, persistent, Acting, At
<1>3. /\ work'[Loop].pc = "check" /\ work'[Loop].event = b[1]
      /\ \A v \in Workers : v # Loop => work'[v] = work[v]
  <2>1. work \in [Workers -> Work]
    BY DEF Typed
  <2>. QED  BY <1>1, <1>2, <2>1 DEF Work
<1>4. /\ \A c \in recovery.backlog : c # b => c \in recovery'.backlog
      /\ recovery'.cut = recovery.cut
  <2>1. recovery \in Recoveries
    BY DEF Typed
  <2>. QED  BY <1>1, <2>1 DEF Recoveries
<1>5. ASSUME NEW d \in Deliverable, Accounted(d)
      PROVE  Accounted(d)'
  <2>1. /\ \A v \in Workers : Attends(v, d) => Attends(v, d)'
        /\ d = b[1] => Attends(Loop, d)'
    BY <1>2, <1>3 DEF Attends, At
  <2>2. Sought(d) => Sought(d)'
    BY <1>2, <1>4, <2>1 DEF Sought
  <2>3. Owned(d) => Owned(d)'
    BY <1>2, <1>3, <1>4 DEF Owned, Acting
  <2>4. Waiting(deliveries[d]) /\ Awaited(d) => Awaited(d)'
    <3>1. ~(Waiting(deliveries[d]) /\ b[1] = d /\ b[2] = deliveries[d].attempt)
      BY <1>1 DEF Waiting
    <3>2. \A v \in Workers : At(v, "backoff") => work'[v] = work[v]
      BY <1>2, <1>3 DEF At
    <3>. QED  BY <1>2, <1>4, <3>1, <3>2 DEF Awaited, At
  <2>. QED  BY <1>2, <1>5, <2>2, <2>3, <2>4 DEF Accounted
<1>. QED  BY <1>2, <1>5 DEF RecoveryKept

\* The list of recover_pending_deliveries() is taken after the requeueing.
LEMMA RequeueRunningAccounted ==
  ASSUME IInv, RequeueRunning
  PROVE  RecoveryKept'
<1>. USE DEF IInv
<1>1. /\ \A d \in Deliverable : deliveries[d].status # "committed"
      /\ deliveries \in [Deliverable -> Row]
  BY DEF RequeueRunning, RegistrationKept, Typed
<1>2. \A d \in Deliverable : deliveries'[d].status \notin {"running", "committed"}
  BY <1>1 DEF RequeueRunning, Requeued, Row
<1>3. recovery'.backlog = Listed(deliveries')
  BY DEF RequeueRunning, NoRecovery
<1>4. ASSUME NEW d \in Deliverable, deliveries'[d].status = "pending"
      PROVE  <<d, deliveries'[d].attempt>> \in recovery'.backlog
  BY <1>3, <1>4 DEF Listed
<1>5. ASSUME NEW d \in Deliverable
      PROVE  Accounted(d)'
  <2>1. deliveries'[d].status = "pending" => Sought(d)' /\ Awaited(d)'
    BY <1>4 DEF Sought, Awaited
  <2>. QED  BY <1>2, <2>1 DEF Accounted, Waiting
<1>. QED  BY <1>5 DEF RecoveryKept

LEMMA WorkingAccounted ==
  ASSUME IInv, IInv', RecoveryKept, NEW w \in Workers, Working(w)
  PROVE  RecoveryKept' /\ host' = host
<1>1. host' = host
  BY DEF Working, Check, Begin, Reject, Invoked, Output, Fail, StartCommand,
         FinishCommand, EnqueueReports, Succeed, Wake, persistent
<1>2. CASE host # "deliver" \/ plugin' = "Disabled"
  BY <1>1, <1>2 DEF RecoveryKept
<1>3. CASE host = "deliver" /\ plugin' # "Disabled"
  <2>1. CASE Check(w) \/ Begin(w) \/ Wake(w)
    BY <1>1, <1>3, <2>1, CheckAccounted, BeginAccounted, WakeAccounted
  <2>2. CASE Reject(w)
    BY <1>3, <2>2 DEF Reject
  <2>3. CASE Invoked(w)
    <3>1. At(w, "invoke") /\ recovery' = recovery
      BY <2>3 DEF Invoked, Output, Fail
    <3>2. Owns(w, {"running"})
      BY <3>1, ActingHasId DEF IInv, Owns, Acting, At
    <3>3. \/ \E o \in Outputs : CommitOutput(w, o)
          \/ \E kind \in {"retryable", "permanent", "fatal"} : RecordFailure(w, kind)
      BY <2>3, <3>2 DEF Invoked, Output, CommitFails, Fail
    <3>. QED  BY <1>1, <1>3, <3>1, <3>3, CommitAccounted, RecordFailureAccounted
  <2>4. CASE StartCommand(w) \/ \E status \in Statuses : FinishCommand(w, status)
    BY <1>1, <1>3, <2>4, StartCommandAccounted, FinishCommandAccounted
  <2>5. CASE EnqueueReports(w) \/ Succeed(w)
    BY <1>1, <1>3, <2>5, EnqueueReportsAccounted, SucceedAccounted
  <2>. QED  BY <2>1, <2>2, <2>3, <2>4, <2>5 DEF Working
<1>. QED  BY <1>1, <1>2, <1>3, ZenonT(60)

\* Every step keeps RecoveryKept, and only RecoveryEnds ends a registration,
\* when the loop is at no delivery and the backlog is empty.
LEMMA NextKeepsRecovery ==
  ASSUME IInv, IInv', RecoveryKept, [Next]_vars
  PROVE  /\ RecoveryKept'
         /\ host = "deliver" /\ host' = "up" => RecoveryEnds
<1>1. ASSUME NEW w \in Workers, Working(w)
      PROVE  RecoveryKept' /\ host' = host
  BY <1>1, WorkingAccounted
<1>2. ASSUME NEW w \in Workers, LoseResult(w)
      PROVE  RecoveryKept' /\ host' = host
  <2>1. host' = host
    BY <1>2 DEF LoseResult
  <2>2. CASE host = "deliver" /\ plugin' # "Disabled"
    BY <1>2, <2>1, <2>2, LoseResultAccounted
  <2>. QED  BY <2>1, <2>2 DEF RecoveryKept
<1>3. ASSUME NEW w \in Workers, Drop(w)
      PROVE  RecoveryKept' /\ host' = host
  <2>1. host' = host
    BY <1>3 DEF Drop
  <2>2. CASE host = "deliver" /\ plugin' # "Disabled"
    BY <1>3, <2>1, <2>2, DropAccounted
  <2>. QED  BY <2>1, <2>2 DEF RecoveryKept
<1>4. ASSUME NEW w \in Workers, NEW e \in Events, Dispatch(w, e)
      PROVE  RecoveryKept' /\ host' = host
  <2>1. host' = host
    BY <1>4 DEF Dispatch
  <2>. QED  BY <1>4, <2>1, DispatchAccounted
<1>5. ASSUME NEW e \in Deliverable, BackoffEnds(e)
      PROVE  RecoveryKept' /\ host' = host
  <2>1. host' = host
    BY <1>5 DEF BackoffEnds
  <2>. QED  BY <1>5, <2>1, BackoffEndsAccounted
<1>6. CASE Starting /\ ~RequeueRunning /\ ~RecoverNext
  <2>1. host' # "deliver" /\ (host = "deliver" => RecoveryEnds)
    BY <1>6 DEF Starting, Register, InterruptCommands, RecoverReports,
                FinalizeCommitted, RecoveryEnds
  <2>. QED  BY <2>1 DEF RecoveryKept
<1>7. CASE RequeueRunning
  <2>1. host # "deliver"
    BY <1>7 DEF RequeueRunning
  <2>. QED  BY <1>7, <2>1, RequeueRunningAccounted
<1>8. CASE RecoverNext
  <2>1. host' = host
    BY <1>8 DEF RecoverNext
  <2>. QED  BY <1>8, <2>1, RecoverNextAccounted
<1>9. CASE Crash
  BY <1>9 DEF Crash, RecoveryKept
<1>10. CASE RecoverDeadLetters
  <2>1. host \in {"down", "up"} /\ host' = host
    BY <1>10 DEF RecoverDeadLetters
  <2>. QED  BY <2>1 DEF RecoveryKept
<1>11. CASE UNCHANGED vars
  <2>1. UNCHANGED <<deliveries, host, plugin, work, recovery>>
    BY <1>11 DEF vars
  <2>. QED  BY <2>1 DEF RecoveryKept, Accounted, Sought, Owned, Awaited, Attends, Acting, At
<1>. QED  BY <1>1, <1>2, <1>3, <1>4, <1>5, <1>6, <1>7, <1>8, <1>9, <1>10, <1>11
          DEF Next, Starting

LEMMA RecoveryInductive == Spec => []RecoveryKept
<1>1. Init => RecoveryKept
  BY DEF Init, RecoveryKept
<1>2. IInv /\ IInv' /\ RecoveryKept /\ [Next]_vars => RecoveryKept'
  BY NextKeepsRecovery
<1>. QED  BY <1>1, <1>2, Inductive, PTL DEF Spec

\* A registration that leaves the instance ready has brought to its end what a
\* crash, a dropped handler or a lost result had left open, and the reports it
\* enqueued on the way, but for what the tasks of schedules, which fire
\* meanwhile, are still at, or were at when they were aborted.
THEOREM NothingIsLeftOpen == Spec => RecoveryLeavesNothingOpen
<1>1. IInv /\ IInv' /\ RecoveryKept /\ [Next]_vars =>
        [ /\ host = "deliver"
          /\ host' = "up"
          /\ plugin = "Ready"
          => \A e \in Deliverable :
               \/ deliveries[e].status \in {"absent", "succeeded", "dead_letter"}
               \/ \E w \in Workers \ {Loop} : Attends(w, e)
               \/ e \in recovery.cut ]_vars
  <2>1. SUFFICES ASSUME IInv, IInv', RecoveryKept, [Next]_vars,
                        host = "deliver", host' = "up", plugin = "Ready",
                        NEW e \in Deliverable,
                        deliveries[e].status \notin {"absent", "succeeded", "dead_letter"}
                 PROVE  \/ \E w \in Workers \ {Loop} : Attends(w, e)
                        \/ e \in recovery.cut
    OBVIOUS
  <2>2. RecoveryEnds
    BY <2>1, NextKeepsRecovery
  <2>3. recovery.backlog = {} /\ ~Attends(Loop, e)
    BY <2>1, <2>2 DEF RecoveryEnds, Attends
  <2>4. deliveries[e].status \in {"pending", "running", "committed"}
    BY <2>1 DEF IInv, Typed, Row
  <2>5. Sought(e)
    BY <2>1, <2>4 DEF RecoveryKept, Accounted
  <2>. QED  BY <2>3, <2>5 DEF Sought
<1>. QED  BY <1>1, Inductive, RecoveryInductive, PTL DEF Spec, RecoveryLeavesNothingOpen
=============================================================================

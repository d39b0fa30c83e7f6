----------------------------- MODULE EventRouter -----------------------------
(***************************************************************************)
(* EventRouter and CommandRouter of crates/bot-core/src/router.rs.         *)
(*                                                                         *)
(* A delivery of an event goes through the matching routes in the order of *)
(* their priorities.  The middleware of a route is entered one after the   *)
(* other and left in the opposite order, whether the handler succeeds,     *)
(* fails or panics, a hook fails or panics, or the task is dropped at any  *)
(* of its awaits.  A failed event is delivered again.                      *)
(***************************************************************************)
EXTENDS Integers, FiniteSets, Sequences, SequencesExt

CONSTANTS
    Routes,             \* 1..n, in the order of their registration
    Priority,           \* of each route
    StopAfterMatch,     \* the routes that end the evaluation when they match
    Depth,              \* the number of middleware hooks of each route
    Names,              \* normalized command names and aliases
    MaxKeys,            \* MAX_COMMAND_KEYS
    MaxDeliveries       \* bound: deliveries of the event

VARIABLES
    matches,    \* what the filters of each route answer for this event
    run,        \* the delivery: place, route, hook that runs, outcome, error
    entered,    \* EnteredMiddlewareStack of the route
    begun,      \* history: middleware of the route whose before was called, in order
    left,       \* history: what each was left with, in order
    passed,     \* history: routes whose handler succeeded or that were skipped
    deliveries, \* history: deliveries so far
    commands    \* CommandRouter.commands: key to canonical name and handler

vars == <<matches, run, entered, begun, left, passed, deliveries, commands>>

Idle == [at |-> "idle", todo |-> {}, route |-> 0, outcome |-> "none", error |-> FALSE]

Init ==
    /\ matches \in [Routes -> {"yes", "no", "panic"}]
    /\ run = Idle
    /\ entered = <<>> /\ begun = <<>> /\ left = <<>>
    /\ passed = {} /\ deliveries = 0
    /\ commands = << >>

At(place) == run.at = place

(***************************************************************************)
(* Routes in order: a stable sort by priority after each registration      *)
(***************************************************************************)
Precedes(r, s) == Priority[r] < Priority[s] \/ (Priority[r] = Priority[s] /\ r < s)
FirstRoute(todo) == CHOOSE r \in todo : \A s \in todo \ {r} : Precedes(r, s)

Deliver ==
    /\ At("idle") /\ deliveries < MaxDeliveries
    /\ deliveries' = deliveries + 1
    /\ passed' = {}
    /\ run' = [Idle EXCEPT !.at = "route", !.todo = Routes]
    /\ UNCHANGED <<matches, entered, begun, left, commands>>

\* The answer of handle; after an error the event is delivered again.
Answer(result) == run' = [run EXCEPT !.at = result]

Redeliver ==
    /\ At("failed") \/ At("cancelled")
    /\ run' = Idle
    /\ UNCHANGED <<matches, entered, begun, left, passed, deliveries, commands>>

NextRoute ==
    /\ At("route")
    /\ IF run.todo = {} THEN Answer("succeeded") /\ UNCHANGED <<begun, left>>
       ELSE LET r == FirstRoute(run.todo)
            IN  CASE matches[r] = "panic" -> Answer("failed") /\ UNCHANGED <<begun, left>>
                  [] matches[r] = "no" -> /\ run' = [run EXCEPT !.todo = @ \ {r}]
                                          /\ UNCHANGED <<begun, left>>
                  [] OTHER -> /\ run' = [run EXCEPT !.at = "before", !.route = r, !.todo = @ \ {r},
                                                    !.outcome = "none", !.error = FALSE]
                              /\ begun' = <<>> /\ left' = <<>>
    /\ UNCHANGED <<matches, entered, passed, deliveries, commands>>

(***************************************************************************)
(* Middleware                                                              *)
(***************************************************************************)
\* The hook after the last one is the handler.
Before ==
    /\ At("before")
    /\ IF Len(entered) = Depth[run.route]
       THEN run' = [run EXCEPT !.at = "handler"] /\ UNCHANGED begun
       ELSE run' = [run EXCEPT !.at = "entering"] /\ begun' = Append(begun, Len(begun) + 1)
    /\ UNCHANGED <<matches, entered, left, passed, deliveries, commands>>

Unwind(outcome, error) ==
    run' = [run EXCEPT !.at = "unwind", !.outcome = outcome, !.error = error]

Continue ==
    /\ At("entering")
    /\ entered' = Append(entered, Last(begun))
    /\ run' = [run EXCEPT !.at = "before"]
    /\ UNCHANGED <<matches, begun, left, passed, deliveries, commands>>

\* MiddlewareControl::Stop: the handler is skipped, the middleware is left as usual.
Stop ==
    /\ At("entering")
    /\ entered' = Append(entered, Last(begun))
    /\ Unwind("skipped", FALSE)
    /\ UNCHANGED <<matches, begun, left, passed, deliveries, commands>>

\* After these hooks the guard is not armed any more.
Completes(hook) == hook \in {"after", "failed"}

\* What dropping the guard calls after this hook.
Dropped(hook) == IF Completes(hook) THEN <<>> ELSE <<"cancelled">>
LeftBy(m, hook) == [i \in 1..Len(<<hook>> \o Dropped(hook)) |-> [middleware |-> m, hook |-> (<<hook>> \o Dropped(hook))[i]]]

\* before returns an error or panics.
BeforeFails ==
    /\ At("entering")
    /\ left' = left \o LeftBy(Last(begun), "failed")
    /\ Unwind("failure", TRUE)
    /\ UNCHANGED <<matches, entered, begun, passed, deliveries, commands>>

Handle ==
    /\ At("handler")
    /\ \/ Unwind("success", FALSE)
       \/ Unwind("failure", TRUE)
    /\ UNCHANGED <<matches, entered, begun, left, passed, deliveries, commands>>

\* run_after: one hook; an error of it is the answer when there is no other.
After ==
    /\ At("unwind") /\ entered # <<>>
    /\ \E fails \in BOOLEAN : run' = [run EXCEPT !.error = @ \/ fails]
    /\ left' = left \o LeftBy(Last(entered), "after")
    /\ entered' = Front(entered)
    /\ UNCHANGED <<matches, begun, passed, deliveries, commands>>

EndsEvaluation(r) == r \in StopAfterMatch

Leave ==
    /\ At("unwind") /\ entered = <<>>
    /\ IF run.error THEN Answer("failed") /\ UNCHANGED passed
       ELSE /\ passed' = passed \cup {run.route}
            /\ IF EndsEvaluation(run.route) THEN Answer("succeeded") ELSE Answer("route")
    /\ UNCHANGED <<matches, entered, begun, left, deliveries, commands>>

(***************************************************************************)
(* The task is dropped at an await: the guards are dropped, last one first *)
(***************************************************************************)
Armed == IF At("entering") THEN Append(entered, Last(begun)) ELSE entered
Cancelled(m) == [middleware |-> m, hook |-> "cancelled"]

Cancel ==
    /\ \/ At("entering") \/ At("handler")
       \/ At("unwind") /\ entered # <<>>
    /\ left' = left \o [i \in 1..Len(Armed) |-> Cancelled(Reverse(Armed)[i])]
    /\ entered' = <<>>
    /\ Answer("cancelled")
    /\ UNCHANGED <<matches, begun, passed, deliveries, commands>>

(***************************************************************************)
(* CommandRouter: registration, and the command that a message names       *)
(***************************************************************************)
Fits(keys) == Cardinality(DOMAIN commands) + Cardinality(keys) <= MaxKeys

IsUnused(name, aliases) == (aliases \cup {name}) \cap DOMAIN commands = {}

\* A command that is refused makes the construction fail.
Command(name, aliases) ==
    /\ At("idle") /\ deliveries = 0
    /\ Fits(aliases \cup {name}) /\ IsUnused(name, aliases)
    /\ commands' = [key \in DOMAIN commands \cup aliases \cup {name} |->
                        IF key \in aliases \cup {name} THEN name ELSE commands[key]]
    /\ UNCHANGED <<matches, run, entered, begun, left, passed, deliveries>>

Next ==
    \/ Deliver \/ Redeliver \/ NextRoute
    \/ Before \/ Continue \/ Stop \/ BeforeFails \/ Handle \/ After \/ Leave \/ Cancel
    \/ \E name \in Names : \E aliases \in SUBSET (Names \ {name}) : Command(name, aliases)

Spec == Init /\ [][Next]_vars
----------------------------------------------------------------------------
(***************************************************************************)
(* However a route ends, each middleware whose before was called is left   *)
(* by exactly one of after, failed and cancelled, the last entered first   *)
(* (EnteredMiddleware, EnteredMiddlewareStack, run_after).                 *)
(***************************************************************************)
EachIsLeftOnce ==
    LET order == [i \in 1..Len(left) |-> left[i].middleware]
    IN  /\ IsPrefix(order, Reverse(begun))
        /\ run.at \in {"route", "failed", "succeeded", "cancelled"} => order = Reverse(begun)

(***************************************************************************)
(* A delivery succeeds only if each matching route has run or was skipped, *)
(* up to the first one that ends the evaluation, and no route after that   *)
(* one has run (EventRouter::handle).                                      *)
(***************************************************************************)
Reached(r) == \A s \in StopAfterMatch : matches[s] = "yes" => ~Precedes(s, r)

SuccessMeansAllRoutes ==
    At("succeeded") => passed = {r \in Routes : matches[r] = "yes" /\ Reached(r)}

(***************************************************************************)
(* The handler is looked up by the canonical name, which is a key of its   *)
(* own command: an alias never runs another command, and the limit holds   *)
(* with the aliases (CommandRouter::command, CommandRouter::handle).       *)
(***************************************************************************)
AliasesRunTheirCommand ==
    /\ \A key \in DOMAIN commands :
          commands[key] \in DOMAIN commands /\ commands[commands[key]] = commands[key]
    /\ Cardinality(DOMAIN commands) <= MaxKeys
=============================================================================

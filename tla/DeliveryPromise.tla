-------------------------- MODULE DeliveryPromise --------------------------
(***************************************************************************)
(* What the plugin host promises about the events it delivers to one       *)
(* plugin instance: whatever is retried, interrupted, restarted or         *)
(* recovered, an event settles on at most one invocation of the plugin,    *)
(* for ever, and every command of that invocation, and of no other, is     *)
(* performed at most once.                                                 *)
(***************************************************************************)
EXTENDS Naturals

CONSTANTS
  Deliverable, \* the events, those that report the result of a command too
  Invocations, \* the identifiers of invocations; none of them is 0
  Commands     \* the commands an invocation may issue

VARIABLES
  outcome, \* of each event: "none", "open", "settled" or "dead"
  source,  \* the invocation an event settled on, or 0
  times    \* how often each command of each invocation was performed

promise == <<outcome, source, times>>

Init ==
  /\ outcome = [e \in Deliverable |-> "none"]
  /\ source = [e \in Deliverable |-> 0]
  /\ times = [i \in Invocations \X Commands |-> 0]

\* Some events become known.
Accept ==
  /\ outcome' \in [Deliverable -> {"none", "open", "settled", "dead"}]
  /\ \A e \in Deliverable :
       outcome'[e] # outcome[e] => outcome[e] = "none" /\ outcome'[e] = "open"
  /\ UNCHANGED <<source, times>>

\* The output of an invocation is committed.
Settle(e, i) ==
  /\ outcome[e] = "open"
  /\ \A d \in Deliverable : source[d] # i
  /\ outcome' = [outcome EXCEPT ![e] = "settled"]
  /\ source' = [source EXCEPT ![e] = i]
  /\ UNCHANGED times

GiveUp(e) ==
  /\ outcome[e] = "open"
  /\ outcome' = [outcome EXCEPT ![e] = "dead"]
  /\ UNCHANGED <<source, times>>

\* The operator asks for the dead letters to be delivered again.
Reopen ==
  /\ outcome' = [e \in Deliverable |->
                   IF outcome[e] = "dead" THEN "open" ELSE outcome[e]]
  /\ UNCHANGED <<source, times>>

Perform(i, c) ==
  /\ \E e \in Deliverable : source[e] = i
  /\ times[<<i, c>>] = 0
  /\ times' = [times EXCEPT ![<<i, c>>] = 1]
  /\ UNCHANGED <<outcome, source>>

Next ==
  \/ Accept
  \/ Reopen
  \/ \E e \in Deliverable : GiveUp(e)
  \/ \E e \in Deliverable, i \in Invocations : Settle(e, i)
  \/ \E i \in Invocations, c \in Commands : Perform(i, c)

Spec == Init /\ [][Next]_promise
=============================================================================

---------------------------- MODULE DedupContract ----------------------------
(***************************************************************************)
(* What DedupStore promises its callers (the trait of dedup.rs), with      *)
(* pinning, tokens and signals left out: at most one caller processes an   *)
(* event at a time, a claim is answered for the event it asked for, None   *)
(* only if that event was committed and is still retained, and a committed *)
(* event is forgotten only to make room for a new claim in a full store.   *)
(***************************************************************************)
EXTENDS Integers, FiniteSets

CONSTANTS Keys, NoKey, Callers, Capacity, Answers

VARIABLES
  held,    \* the pairs of a caller and an event it has claimed
  done,    \* the committed events the store still retains
  asked,   \* the event of each caller's claim that waits for its answer
  answer   \* the last answer each caller got, and the event it is about

vars == <<held, done, asked, answer>>

Claimed == {h[2] : h \in held}

\* Only None says something about an event.
Plain(a) == [is |-> a, event |-> NoKey]

Init ==
  /\ held = {}
  /\ done = {}
  /\ asked = [p \in Callers |-> NoKey]
  /\ answer \in [Callers -> {Plain(a) : a \in Answers}]

\* A claim of the caller that waits, if there is one, is for this event.
AsksFor(p, k) == asked[p] \in {NoKey, k}

Answered(p, a) ==
  /\ answer' = [answer EXCEPT ![p] = a]
  /\ asked' = [asked EXCEPT ![p] = NoKey]

\* claim() waits.
Wait(p, k) ==
  /\ AsksFor(p, k)
  /\ asked' = [asked EXCEPT ![p] = k]
  /\ answer' = [answer EXCEPT ![p] = Plain("none")]
  /\ UNCHANGED <<held, done>>

\* claim() answers Some.
Grant(p, k) ==
  /\ k \notin Claimed \cup done
  /\ AsksFor(p, k)
  /\ held' = held \cup {<<p, k>>}
  /\ IF Cardinality(Claimed \cup done) < Capacity
     THEN done' = done
     ELSE \E victim \in done : done' = done \ {victim}
  /\ Answered(p, Plain("none"))

\* claim() answers None: this event was already committed.
Duplicate(p, k) ==
  /\ AsksFor(p, k)
  /\ Answered(p, [is |-> "duplicate", event |-> k])
  /\ UNCHANGED <<held, done>>

\* The first commit() of a claim, a pair of a caller and an event.
Complete(h) ==
  /\ held' = held \ {h}
  /\ done' = done \cup {h[2]}
  /\ Answered(h[1], Plain("ok"))

\* The first release() of a claim; it answers later.
Abandon(h) ==
  /\ held' = held \ {h}
  /\ UNCHANGED <<done, asked, answer>>

\* Any other answer: an error, a repeated finalisation, a cancelled call.
Reply(p, a) ==
  /\ a # "duplicate"
  /\ Answered(p, Plain(a))
  /\ UNCHANGED <<held, done>>

Next ==
  \/ \E p \in Callers :
       \/ \E k \in Keys : Wait(p, k) \/ Grant(p, k)
       \/ \E k \in done : Duplicate(p, k)
       \/ \E a \in Answers : Reply(p, a)
  \/ \E h \in held : Complete(h) \/ Abandon(h)

Spec == Init /\ [][Next]_vars
=============================================================================

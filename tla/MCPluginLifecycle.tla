------------------------- MODULE MCPluginLifecycle -------------------------
(* PluginLifecycle for TLC: two messages of one chat, a schedule of its own   *)
(* partition, and two updates of the configuration, which may overlap.        *)
EXTENDS PluginLifecycle, TLC

CONSTANTS chat, other, configure

Partitions == [p \in Callers \cup Tasks |-> IF p \in Callers THEN chat ELSE other]

\* The bounds taken together: a behaviour with two changes has two calls at
\* most, but no schedule and no restart; configure is never the first.
MCNext ==
  /\ Next
  /\ spent'.changes = 2 => /\ spent'.starts = 1
                           /\ \A t \in Tasks : spent'.creations[t] = 0
  /\ spent'.changes < 2 => changer'[configure] = "idle"

MCSpec == Init /\ [][MCNext]_vars /\ Fairness
=============================================================================

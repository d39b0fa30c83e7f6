-------------------------- MODULE MCPluginDelivery --------------------------
EXTENDS PluginDelivery, TLC

CONSTANTS e1, e2, loop, w1, w2, c1, c2, k1

MCKey == (c1 :> k1) @@ (c2 :> NoKey)

MCOutputs ==
  {[commands |-> <<>>, operation |-> "none"],
   [commands |-> <<c1, c2>>, operation |-> "put"],
   [commands |-> <<c1>>, operation |-> "compare_and_swap"],
   [commands |-> <<c2>>, operation |-> "none"]}

Symmetry == Permutations({w1, w2}) \cup Permutations({e1, e2})
=============================================================================

----------------------------- MODULE MCDisjoint -----------------------------
(***************************************************************************)
(* Instances of DisjointProducers: keys are numbers, dealt out in turn.    *)
(***************************************************************************)
EXTENDS DisjointProducers

DealtKeys == [p \in Producers |-> {k \in Keys : k % NProducers = p}]

=============================================================================

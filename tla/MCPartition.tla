----------------------------- MODULE MCPartition -----------------------------
(***************************************************************************)
(* The operators of Partition on every configuration up to a bound: a      *)
(* state is a configuration, a step goes to any other.                     *)
(***************************************************************************)
EXTENDS Partition

CONSTANTS MaxProducers, MaxEvaluators, MaxNodes  \* bounds of the inputs

ASSUME BoundsAssumption == {MaxProducers, MaxEvaluators, MaxNodes} \subseteq Nat

VARIABLES producers, evaluators, nodes, bound

vars == <<producers, evaluators, nodes, bound>>

Init == producers = 1 /\ evaluators = 1 /\ nodes = 1 /\ bound = FALSE

Next ==
    /\ producers' \in 1 .. MaxProducers
    /\ evaluators' \in 1 .. MaxEvaluators
    /\ nodes' \in 1 .. MaxNodes
    /\ bound' \in BOOLEAN

Spec == Init /\ [][Next]_vars

\* In every configuration each producer is drained by exactly one evaluator:
\* the slices and, with evaluators bound, the round robin of nodes leave no
\* chain to nobody and none to two (evaluator_loop).
ProducersArePartitioned == EachProducerOwnedOnce(bound, evaluators, nodes, producers)

\* In every configuration F3-K's slots keep the producers in order, so that
\* replaying slot by slot is replaying producer by producer
\* (apply_key_partitioned).
SlotsAreOrdered == SlotsKeepOrder(producers, evaluators)

=============================================================================

------------------------------ MODULE Partition ------------------------------
(***************************************************************************)
(* How FutureBTree divides its producers and NUMA nodes among evaluator    *)
(* workers and evaluator slots (src/src/f3tree.cpp).  Pure arithmetic: the *)
(* vectors the code builds are given as the sets of their elements, which  *)
(* it always builds in ascending order.                                    *)
(***************************************************************************)
EXTENDS Integers

\* Mutation: nobody takes the remainder.
producers_for_evaluator_NoRemainder(worker_id, worker_count, total_producers) ==
    LET chunk == total_producers \div worker_count
    IN  (worker_id * chunk) .. (worker_id * chunk + chunk - 1)

\* The producers that evaluator worker_id of worker_count owns: a contiguous
\* slice of chunk ids, the last worker taking the remainder as well.
producers_for_evaluator(worker_id, worker_count, total_producers) ==
    IF worker_count = 0 \/ total_producers = 0
    THEN {}
    ELSE LET chunk == total_producers \div worker_count
             start == worker_id * chunk
             end   == IF worker_id + 1 = worker_count
                      THEN total_producers
                      ELSE start + chunk
         IN  start .. (end - 1)

\* The NUMA nodes an evaluator owns when evaluators are bound: round robin.
nodes_for_worker(worker_id, worker_count, node_count) ==
    IF worker_count = 0 \/ node_count = 0
    THEN {}
    ELSE {node \in 0 .. (node_count - 1) : node % worker_count = worker_id}

\* The NUMA node a producer's PTFO lives on, fixed by the constructor.
home_node(producer, node_count) == producer % node_count

\* The number of evaluators the constructor starts: with evaluators bound to
\* nodes never more than there are nodes.
worker_count_for(bound, evaluator_threads, node_count) ==
    IF bound /\ node_count < evaluator_threads
    THEN node_count
    ELSE evaluator_threads

\* The nodes, and from them or directly the producers, that one of
\* worker_count evaluators drains.
owned_nodes(worker_id, bound, worker_count, node_count) ==
    IF bound THEN nodes_for_worker(worker_id, worker_count, node_count) ELSE {}

owned_producers(worker_id, bound, worker_count, node_count, total_producers) ==
    LET nodes == owned_nodes(worker_id, bound, worker_count, node_count)
    IN  IF nodes # {}
        THEN {p \in 0 .. (total_producers - 1) : home_node(p, node_count) \in nodes}
        ELSE producers_for_evaluator(worker_id, worker_count, total_producers)

\* Mutation: producers are dealt to the slots in turn.
slot_of_RoundRobin(i, n, evaluator_slots) ==
    i % (IF evaluator_slots = 0 THEN 1 ELSE evaluator_slots)

\* The slot that an F3-K drain gives the i-th (from 0) of n producers.
slot_of(i, n, evaluator_slots) ==
    LET slots == IF evaluator_slots = 0 THEN 1 ELSE evaluator_slots
        chunk == IF n > 0 THEN (n + slots - 1) \div slots ELSE 1
        slot  == i \div chunk
    IN  IF slot >= slots THEN slots - 1 ELSE slot

-----------------------------------------------------------------------------
\* Every producer has exactly one evaluator that drains it, whether the
\* evaluators divide the producers or, bound, the NUMA nodes: no chain is
\* left to nobody and none to two.
EachProducerOwnedOnce(bound, evaluator_threads, node_count, total_producers) ==
    LET worker_count == worker_count_for(bound, evaluator_threads, node_count)
    IN  \A p \in 0 .. (total_producers - 1) :
            \E w \in 0 .. (worker_count - 1) : \A v \in 0 .. (worker_count - 1) :
                p \in owned_producers(v, bound, worker_count, node_count, total_producers)
                    <=> v = w

\* F3-K's slots exist, and taken one after the other they yield the producers
\* in ascending order: the number of slots does not change what a drain does.
SlotsKeepOrder(n, evaluator_slots) ==
    \A i, j \in 0 .. (n - 1) :
        /\ slot_of(i, n, evaluator_slots) \in
              0 .. ((IF evaluator_slots = 0 THEN 1 ELSE evaluator_slots) - 1)
        /\ i <= j => slot_of(i, n, evaluator_slots) <= slot_of(j, n, evaluator_slots)

=============================================================================

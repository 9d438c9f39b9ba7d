----------------------------- MODULE MCPlacement -----------------------------
(***************************************************************************)
(* MCPartition on machines: the nodes are those of a directory listing,    *)
(* and evaluators are bound if the placement policy says so.               *)
(***************************************************************************)
EXTENDS MCPartition, NumaTopology, TLC

VARIABLES dir, policy, topology

Node(index, cpulist) == [is_node |-> TRUE, index |-> index, readable |-> TRUE, cpulist |-> cpulist]
Other   == [is_node |-> FALSE, index |-> 0, readable |-> TRUE, cpulist |-> << <<0, 1>> >>]
Denied  == [Node(1, << <<7>> >>) EXCEPT !.readable = FALSE]

\* Listings: no directory, one node, two in both orders, a node without CPUs
\* between two others, one that cannot be read, split and reversed ranges, a
\* CPU that no mask has room for, three and four nodes.
Listings == {
    << >>,
    << Other, Node(0, << <<0, 3>> >>) >>,
    << Node(0, << <<0, 1>> >>), Other, Node(1, << <<2, 3>> >>) >>,
    << Node(1, << <<2, 3>>, << >>, <<6, 7>> >>), Node(0, << <<0, 1>>, <<5, 4>> >>) >>,
    << Node(0, << <<0, 1>> >>), Node(1, << >>), Node(2, << <<2, 3>> >>) >>,
    << Node(2, << <<2>>, <<5>> >>), Denied, Node(0, << <<0>>, <<4>> >>) >>,
    << Node(2, << <<3>>, <<9>> >>), Node(0, << <<0, 1>> >>), Node(1, << <<2>> >>) >>,
    << Node(3, << <<3>> >>), Node(2, << <<2>> >>), Node(1, << <<1>> >>), Node(0, << <<0>> >>) >> }

PlacementInit == Init /\ dir = << >> /\ policy = "kDefault" /\ topology = << >>

\* The constructor, on any machine with any configuration; what it has found
\* and decided stays.
PlacementNext ==
    /\ dir = << >> /\ policy = "kDefault"
    /\ dir' \in Listings
    /\ policy' \in Policies
    /\ topology' = detect_numa_topology(dir')
    /\ nodes' = NodeCount(topology')
    /\ bound' = (evaluator_binding_enabled(policy') /\ available(topology'))
    /\ Next

PlacementSpec == PlacementInit /\ [][PlacementNext]_<<vars, dir, policy, topology>>

-----------------------------------------------------------------------------
workers == worker_count_for(bound, evaluators, nodes)

\* The CPUs evaluator w runs on, once it is bound.
EvaluatorCpus(w) ==
    bind_current_thread_to_cpus(cpus_for_nodes(topology, owned_nodes(w, bound, workers, nodes)))

\* Bound threads are where their data is: no CPU of an evaluator is unknown
\* to the statistics or belongs to a node it does not own; of every producer
\* it drains it has a CPU on the home node, and with an evaluator for each
\* node no checkpoint is ever counted as remote.
CheckpointsAreLocal ==
    bound => \A w \in 0 .. (workers - 1) :
        LET home(p) == home_node(p, nodes)
            from(p, cpu) == checkpoint_source(topology, home(p), cpu)
        IN  \A p \in owned_producers(w, bound, workers, nodes, producers) :
                /\ \E cpu \in EvaluatorCpus(w) : from(p, cpu) = "local"
                /\ \A cpu \in EvaluatorCpus(w) :
                       from(p, cpu) = "local" \/ (from(p, cpu) = "remote" /\ evaluators < nodes)

\* The nodes with CPUs have the kernel numbers 0, 1, 2, ...
KernelNumbersAreDense ==
    {NodeEntries(dir)[i].index : i \in DOMAIN NodeEntries(dir)} = 0 .. (Len(topology) - 1)

\* kHardNumaBind: on a machine whose nodes are numbered without gaps, the
\* node a producer allocates from is the one whose CPUs it is bound to, in
\* whatever order the directory lists the nodes.
MemoryIsAtHome ==
    bound /\ hard_numa_bind_enabled(policy) /\ KernelNumbersAreDense =>
        \A p \in 0 .. (producers - 1) :
            \A i \in DOMAIN NodeEntries(dir) :
                NodeEntries(dir)[i].index \in set_thread_mempolicy_bind(home_node(p, nodes)) =>
                    /\ producer_binding_enabled(policy)
                    /\ bind_current_thread_to_node(topology, home_node(p, nodes))
                           \subseteq ToSet(parse_cpu_list(NodeEntries(dir)[i].cpulist))

\* kHardNumaBind: the node a producer allocates from is the one whose CPUs it
\* is bound to, on every machine.
AllocationsLandAtHome ==
    bound /\ hard_numa_bind_enabled(policy) =>
        \A p \in 0 .. (producers - 1) :
            \E i \in DOMAIN NodeEntries(dir) :
                /\ NodeEntries(dir)[i].index \in set_thread_mempolicy_bind(home_node(p, nodes))
                /\ bind_current_thread_to_node(topology, home_node(p, nodes))
                       \subseteq ToSet(parse_cpu_list(NodeEntries(dir)[i].cpulist))
=============================================================================

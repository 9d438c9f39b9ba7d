----------------------------- MODULE NumaTopology -----------------------------
(***************************************************************************)
(* How FutureBTree finds the NUMA nodes of the machine, and which CPUs and *)
(* which memory it binds its threads to (src/src/f3tree.cpp).              *)
(*                                                                         *)
(* A listing of /sys/devices/system/node is a sequence of entries in the   *)
(* order readdir yields them; a cpulist is a sequence of tokens: << >>, a  *)
(* CPU or a range.  Node n of a topology, from 0, is its n+1-st element.   *)
(***************************************************************************)
EXTENDS Partition, Sequences, SequencesExt, FiniteSets, FiniteSetsExt, TLC

CONSTANTS
    CPU_SETSIZE     \* CPUs an affinity mask has room for, 1024 in glibc

ASSUME TopologyAssumption == CPU_SETSIZE \in Nat \ {0}

\* Bits of an unsigned long.
LongBits == 64

Policies == {"kDefault", "kBindEvaluatorsByNode", "kBindEvaluatorsAndProducersByNode",
             "kHardNumaBind"}

evaluator_binding_enabled(policy) == policy # "kDefault"

producer_binding_enabled(policy) ==
    policy \in {"kBindEvaluatorsAndProducersByNode", "kHardNumaBind"}

hard_numa_bind_enabled(policy) == policy = "kHardNumaBind"

-----------------------------------------------------------------------------
\* An empty token and a range that runs backwards are passed over.
parse_cpu_list(cpulist) ==
    FlattenSeq([i \in DOMAIN cpulist |->
        LET token == cpulist[i]
        IN  IF Len(token) < 2 THEN token
            ELSE [j \in 1 .. (token[2] - token[1] + 1) |-> token[1] + j - 1]])

\* Entries that are nodes with a readable list of at least one CPU.
NodeEntries(dir) ==
    SelectSeq(dir, LAMBDA e : e.is_node /\ e.readable /\ parse_cpu_list(e.cpulist) # << >>)

\* Mutation: the nodes stay in the order of the listing.
detect_numa_topology_Unsorted(dir) ==
    [i \in DOMAIN NodeEntries(dir) |-> parse_cpu_list(NodeEntries(dir)[i].cpulist)]

\* The CPUs of each node, by ascending kernel number; the numbers themselves
\* are not kept.
detect_numa_topology(dir) ==
    LET indexed == SortSeq(NodeEntries(dir), LAMBDA lhs, rhs : lhs.index < rhs.index)
    IN  [i \in DOMAIN indexed |-> parse_cpu_list(indexed[i].cpulist)]

available(topology) == topology # << >>

NodeCount(topology) == IF available(topology) THEN Len(topology) ELSE 1

CpusOf(topology) == UNION {ToSet(topology[n]) : n \in DOMAIN topology}

\* Mutation: no room for the last CPU.
build_cpu_to_node_map_Short(topology) ==
    [cpu \in 0 .. (Max(CpusOf(topology) \cup {0}) - 1) |->
        Max({-1} \cup {n - 1 : n \in {x \in DOMAIN topology : Contains(topology[x], cpu)}})]

\* A vector up to the largest CPU: its node, the last that lists it, or -1.
build_cpu_to_node_map(topology) ==
    [cpu \in 0 .. Max(CpusOf(topology) \cup {-1}) |->
        Max({-1} \cup {n - 1 : n \in {x \in DOMAIN topology : Contains(topology[x], cpu)}})]

\* The node of a thread that sched_getcpu() finds on cpu.
current_thread_numa_node(cpu_to_node, cpu) ==
    IF cpu \in DOMAIN cpu_to_node THEN cpu_to_node[cpu] ELSE -1

-----------------------------------------------------------------------------
(* Binding.  A mask is the set of CPUs the thread may run on afterwards;   *)
(* {} means that the call has failed and the thread runs anywhere.         *)

bind_current_thread_to_cpus(cpus) == {cpu \in cpus : cpu \in 0 .. (CPU_SETSIZE - 1)}

bind_current_thread_to_node(topology, node_index) ==
    IF ~available(topology) THEN {}
    ELSE bind_current_thread_to_cpus(ToSet(topology[(node_index % Len(topology)) + 1]))

cpus_for_nodes(topology, node_ids) ==
    UNION {ToSet(topology[n + 1]) : n \in {x \in node_ids : x < Len(topology)}}

\* What set_mempolicy is told: the kernel number of the one node to allocate
\* from.
set_thread_mempolicy_bind(node_index) == IF node_index >= LongBits THEN {} ELSE {node_index}

\* How a drain that runs on cpu counts the operations of a producer.
checkpoint_source(topology, home, cpu) ==
    LET drainer_node == current_thread_numa_node(build_cpu_to_node_map(topology), cpu)
    IN  IF drainer_node < 0 THEN "unknown"
        ELSE IF drainer_node = home THEN "local" ELSE "remote"
=============================================================================

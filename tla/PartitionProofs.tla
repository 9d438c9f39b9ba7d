--------------------------- MODULE PartitionProofs ---------------------------
(***************************************************************************)
(* Theorems about Partition, for any number of producers, evaluators and   *)
(* NUMA nodes, and the invariants of MCPartition for any bounds.           *)
(***************************************************************************)
EXTENDS MCPartition, NatSetTheorems

\* The evaluator that a producer falls to when producers are sliced.
SliceOwner(p, count, total) ==
    LET chunk == total \div count
    IN  IF p < (count - 1) * chunk THEN p \div chunk ELSE count - 1

LEMMA SliceOwnerIsUnique ==
    ASSUME NEW count \in Nat \ {0}, NEW total \in Nat, NEW p \in 0 .. (total - 1)
    PROVE  /\ SliceOwner(p, count, total) \in 0 .. (count - 1)
           /\ \A v \in 0 .. (count - 1) :
                 p \in producers_for_evaluator(v, count, total)
                     <=> v = SliceOwner(p, count, total)
<1> DEFINE chunk == total \div count
           last  == (count - 1) * chunk
           owner == SliceOwner(p, count, total)
<1>1. chunk \in Nat /\ count * chunk <= total
  BY DivFacts
<1>2. p \in Nat /\ p < total /\ total # 0 /\ last \in Nat
  BY <1>1
<1>3. CASE p < last
  <2>1. chunk # 0
    BY <1>1, <1>3
  <2> DEFINE q == p \div chunk
  <2>2. owner = q
    BY <1>3 DEF SliceOwner
  <2>3. q \in Nat /\ chunk * q <= p /\ p < chunk * q + chunk
    BY <1>1, <1>2, <2>1, DivFacts
  <2> HIDE DEF chunk, q
  <2>4. q < count - 1
    <3> SUFFICES ASSUME count - 1 <= q PROVE FALSE
      BY <2>3
    <3>1. (count - 1) * chunk <= q * chunk
      BY <1>1, <2>3, MulMono
    <3>2. q * chunk = chunk * q /\ q * chunk \in Nat
      BY <1>1, <2>3
    <3> QED
      BY <1>2, <1>3, <2>3, <3>1, <3>2
  <2>5. ASSUME NEW v \in 0 .. (count - 1)
        PROVE  p \in producers_for_evaluator(v, count, total) <=> v = q
    <3>1. v * chunk \in Nat /\ q * chunk \in Nat /\ q * chunk = chunk * q
      BY <1>1, <2>3
    <3>2. CASE v = q
      <4>1. v + 1 # count
        BY <2>4, <3>2
      <4>2. producers_for_evaluator(v, count, total) = (v * chunk) .. (v * chunk + chunk - 1)
        BY <1>2, <4>1 DEF producers_for_evaluator, chunk
      <4> QED
        BY <1>1, <1>2, <2>3, <3>1, <3>2, <4>2
    <3>3. CASE v < q
      <4>1. (v + 1) * chunk <= q * chunk /\ (v + 1) * chunk = v * chunk + chunk
        BY <1>1, <2>3, <3>3, MulMono
      <4>2. v + 1 # count
        BY <2>3, <2>4, <3>3
      <4>3. producers_for_evaluator(v, count, total) = (v * chunk) .. (v * chunk + chunk - 1)
        BY <1>2, <4>2 DEF producers_for_evaluator, chunk
      <4> QED
        BY <1>1, <1>2, <2>3, <3>1, <3>3, <4>1, <4>3
    <3>4. CASE v > q
      <4>1. (q + 1) * chunk <= v * chunk /\ (q + 1) * chunk = q * chunk + chunk
        BY <1>1, <2>3, <3>4, MulMono
      <4>2. \A x \in producers_for_evaluator(v, count, total) : v * chunk <= x
        BY <1>1, <1>2, <3>1 DEF producers_for_evaluator, chunk
      <4> QED
        BY <1>1, <1>2, <2>3, <3>1, <3>4, <4>1, <4>2
    <3> QED
      BY <2>3, <3>2, <3>3, <3>4
  <2> QED
    BY <2>2, <2>3, <2>4, <2>5
<1>4. CASE last <= p
  <2>1. owner = count - 1
    BY <1>2, <1>4 DEF SliceOwner
  <2> HIDE DEF chunk
  <2>2. ASSUME NEW v \in 0 .. (count - 1)
        PROVE  p \in producers_for_evaluator(v, count, total) <=> v = count - 1
    <3>1. CASE v = count - 1
      <4>1. producers_for_evaluator(v, count, total) = last .. (total - 1)
        BY <1>2, <3>1 DEF producers_for_evaluator, chunk
      <4> QED
        BY <1>2, <1>4, <3>1, <4>1
    <3>2. CASE v < count - 1
      <4>1. (v + 1) * chunk <= last /\ (v + 1) * chunk = v * chunk + chunk
        BY <1>1, <3>2, MulMono
      <4>2. producers_for_evaluator(v, count, total) = (v * chunk) .. (v * chunk + chunk - 1)
        BY <1>2, <3>2 DEF producers_for_evaluator, chunk
      <4>3. v * chunk \in Nat
        BY <1>1
      <4> QED
        BY <1>1, <1>2, <1>4, <3>2, <4>1, <4>2, <4>3
    <3> QED
      BY <3>1, <3>2
  <2> QED
    BY <2>1, <2>2
<1> QED
  BY <1>2, <1>3, <1>4

\* Every producer has exactly one evaluator that drains it, in any
\* configuration with an evaluator (evaluator_loop: producers_for_evaluator,
\* nodes_for_worker and collect_producers_for_nodes).
THEOREM OwnedOnce ==
    ASSUME NEW pinned \in BOOLEAN, NEW workers \in Nat \ {0},
           NEW node_count \in Nat \ {0}, NEW total \in Nat
    PROVE  EachProducerOwnedOnce(pinned, workers, node_count, total)
<1> DEFINE count == worker_count_for(pinned, workers, node_count)
<1>1. count \in Nat \ {0} /\ (pinned => count <= node_count)
  BY DEF worker_count_for
<1> HIDE DEF count
<1> SUFFICES ASSUME NEW p \in 0 .. (total - 1)
             PROVE  \E w \in 0 .. (count - 1) : \A v \in 0 .. (count - 1) :
                       p \in owned_producers(v, pinned, count, node_count, total) <=> v = w
  BY DEF EachProducerOwnedOnce, count
<1>2. CASE pinned
  <2> DEFINE home == p % node_count
             owner == home % count
  <2>1. home \in 0 .. (node_count - 1) /\ owner \in 0 .. (count - 1)
    BY <1>1, ModFacts
  <2>2. ASSUME NEW v \in 0 .. (count - 1)
        PROVE  p \in owned_producers(v, pinned, count, node_count, total) <=> v = owner
    <3>1. owned_nodes(v, pinned, count, node_count) = {n \in 0 .. (node_count - 1) : n % count = v}
      BY <1>1, <1>2 DEF owned_nodes, nodes_for_worker
    <3>2. v \in 0 .. (node_count - 1) /\ v % count = v
      BY <1>1, <1>2, ModFacts
    <3>3. owned_nodes(v, pinned, count, node_count) # {}
      BY <3>1, <3>2
    <3>4. p \in owned_producers(v, pinned, count, node_count, total)
             <=> home \in owned_nodes(v, pinned, count, node_count)
      BY <3>3 DEF owned_producers, home_node
    <3> QED
      BY <2>1, <3>1, <3>4
  <2> QED
    BY <2>1, <2>2
<1>3. CASE ~pinned
  <2>1. \A v : owned_producers(v, pinned, count, node_count, total)
                 = producers_for_evaluator(v, count, total)
    BY <1>3 DEF owned_producers, owned_nodes
  <2> DEFINE owner == SliceOwner(p, count, total)
  <2>2. /\ owner \in 0 .. (count - 1)
        /\ \A v \in 0 .. (count - 1) :
              p \in producers_for_evaluator(v, count, total) <=> v = owner
    BY <1>1, SliceOwnerIsUnique
  <2> HIDE DEF owner
  <2> QED
    BY <2>1, <2>2
<1> QED
  BY <1>2, <1>3

\* F3-K's slots exist and keep the producers in ascending order, for any
\* number of producers and slots (apply_key_partitioned).
THEOREM SlotsOrdered ==
    ASSUME NEW n \in Nat, NEW evaluator_slots \in Nat
    PROVE  SlotsKeepOrder(n, evaluator_slots)
<1> DEFINE slots == IF evaluator_slots = 0 THEN 1 ELSE evaluator_slots
           chunk == IF n > 0 THEN (n + slots - 1) \div slots ELSE 1
<1> SUFFICES ASSUME NEW i \in 0 .. (n - 1), NEW j \in 0 .. (n - 1)
             PROVE  /\ slot_of(i, n, evaluator_slots) \in 0 .. (slots - 1)
                    /\ i <= j => slot_of(i, n, evaluator_slots) <= slot_of(j, n, evaluator_slots)
  BY DEF SlotsKeepOrder
<1>1. slots \in Nat \ {0}
  OBVIOUS
<1>2. n > 0 /\ i \in Nat /\ j \in Nat
  OBVIOUS
<1> DEFINE top == n + slots - 1
<1>3. top \in Nat /\ top >= slots
  BY <1>1, <1>2
<1>4. chunk = top \div slots
  BY <1>2
<1>5. chunk \in Nat \ {0}
  <2> HIDE DEF top, slots, chunk
  <2>1. top \div slots \in Nat /\ top < slots * (top \div slots) + slots
    BY <1>1, <1>3, DivFacts
  <2>2. top \div slots # 0
    BY <1>1, <1>3, <2>1
  <2> QED
    BY <1>4, <2>1, <2>2
<1>6. /\ slot_of(i, n, evaluator_slots) = (IF i \div chunk >= slots THEN slots - 1 ELSE i \div chunk)
      /\ slot_of(j, n, evaluator_slots) = (IF j \div chunk >= slots THEN slots - 1 ELSE j \div chunk)
  BY DEF slot_of
<1> HIDE DEF slots, chunk
<1>7. /\ i \div chunk \in Nat /\ chunk * (i \div chunk) <= i /\ i < chunk * (i \div chunk) + chunk
      /\ j \div chunk \in Nat /\ chunk * (j \div chunk) <= j /\ j < chunk * (j \div chunk) + chunk
  BY <1>2, <1>5, DivFacts
<1>8. i <= j => i \div chunk <= j \div chunk
  <2> DEFINE a == i \div chunk
             b == j \div chunk
  <2> SUFFICES ASSUME i <= j, b < a PROVE FALSE
    BY <1>7
  <2> HIDE DEF a, b
  <2>1. a \in Nat /\ chunk * a <= i /\ b \in Nat /\ j < chunk * b + chunk
    BY <1>7 DEF a, b
  <2>2. (b + 1) * chunk <= a * chunk
    BY <1>5, <2>1, MulMono
  <2>3. /\ (b + 1) * chunk = chunk * b + chunk /\ a * chunk = chunk * a
        /\ chunk * a \in Nat /\ chunk * b \in Nat
    BY <1>5, <2>1
  <2> QED
    BY <1>2, <1>5, <2>1, <2>2, <2>3
<1> QED
  BY <1>1, <1>6, <1>7, <1>8

-----------------------------------------------------------------------------
\* A state is a configuration that validate_runtime_config accepts.
Configured ==
    /\ producers \in Nat \ {0}
    /\ evaluators \in Nat \ {0}
    /\ nodes \in Nat \ {0}
    /\ bound \in BOOLEAN

LEMMA AlwaysConfigured == Spec => []Configured
<1>1. Init => Configured
  <2> SUFFICES ASSUME Init PROVE Configured
    OBVIOUS
  <2>1. bound \in BOOLEAN
    BY Zenon DEF Init
  <2>2. producers = 1 /\ evaluators = 1 /\ nodes = 1
    BY Zenon DEF Init
  <2>3. 1 \in Nat \ {0}
    OBVIOUS
  <2> QED
    BY <2>1, <2>2, <2>3 DEF Configured
<1>2. Configured /\ [Next]_vars => Configured'
  BY BoundsAssumption DEF Configured, Next, vars
<1> QED
  BY <1>1, <1>2, PTL DEF Spec

\* In every configuration each producer is drained by exactly one evaluator
\* (ProducersArePartitioned).
THEOREM PartitionedAlways == Spec => []ProducersArePartitioned
<1>1. Configured => ProducersArePartitioned
  BY OwnedOnce DEF Configured, ProducersArePartitioned
<1> QED
  BY <1>1, AlwaysConfigured, PTL

\* In every configuration F3-K's slots keep the producers in order
\* (SlotsAreOrdered).
THEOREM OrderedAlways == Spec => []SlotsAreOrdered
<1>1. Configured => SlotsAreOrdered
  BY SlotsOrdered DEF Configured, SlotsAreOrdered
<1> QED
  BY <1>1, AlwaysConfigured, PTL

==============================================================================

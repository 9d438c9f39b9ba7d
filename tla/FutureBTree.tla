----------------------------- MODULE FutureBTree -----------------------------
(***************************************************************************)
(* The concurrent core of F3-tree in its DRAM build: src/src/f3tree.cpp    *)
(* (FutureBTree) over the PTFO half of src/core/btree.h.                   *)
(*                                                                         *)
(* Producers append operations to their own chain (local_fut), evaluators  *)
(* and clients drain chains into the global tree, readers look for a key   *)
(* in the chains and then in the tree.  Each action is one critical        *)
(* section of the code.  Sections that hold a mutex and touch nothing that *)
(* anyone can read without it are one step; a drain, which holds mu from   *)
(* its start to its end and takes the other locks on the way, is several.  *)
(*                                                                         *)
(* The global tree is the number of records it holds for each key          *)
(* (copies): btree_insert never looks for an existing record, btree_delete *)
(* removes one, btree_search finds any.                                    *)
(***************************************************************************)
EXTENDS Integers, Sequences, FiniteSets, FiniteSetsExt, Partition

CONSTANTS
    NProducers,          \* config.producer_threads
    Keys,                \* the keys clients use
    Readers,             \* threads that call contains
    NoOp,                \* no operation in hand
    Policy,              \* config.evaluator_policy
    EvaluatorThreads,    \* config.evaluator_threads
    Threshold,           \* config.checkpoint_threshold_ops, 0 = off
    Interval,            \* config.checkpoint_interval_us > 0
    ClientDrains,        \* do clients call drain_pending or scan_range
    NumaNodes,           \* topology.node_cpus.size(), 1 when unavailable
    EvaluatorsBound,     \* placement policy binds evaluators to nodes
    HashCapacity,        \* config.hash_capacity
    cardinality,         \* entries of one future_Node
    kFutureNodeCapacity, \* what the wrapper takes cardinality to be
    KeysOf,              \* KeysOf[p]: the keys producer p writes
    MaxOps               \* bound: operations issued in a behaviour

Producers == 0 .. (NProducers - 1)
Nodes     == 0 .. (NumaNodes - 1)

WorkerCount == worker_count_for(EvaluatorsBound, EvaluatorThreads, NumaNodes)
Workers     == 0 .. (WorkerCount - 1)

Policies == {"F3K", "F3N", "DeterministicReplay"}

\* A buffered operation; a slot of a lookup directory holds the same fields
\* (owner is the producer, state is PRESENT or TOMBSTONE by is_delete).
Ops == [key : Keys, is_delete : BOOLEAN, sequence : Nat, producer_id : Producers]

ASSUME ConstantsAssumption ==
    /\ NProducers \in Nat \ {0}
    /\ NoOp \notin Ops
    /\ Policy \in Policies
    /\ EvaluatorThreads \in Nat \ {0}
    /\ Threshold \in Nat
    /\ {Interval, ClientDrains, EvaluatorsBound} \subseteq BOOLEAN
    /\ NumaNodes \in Nat \ {0}
    /\ HashCapacity \in Nat \ {0}
    /\ cardinality \in Nat \ {0}
    /\ kFutureNodeCapacity \in Nat \ {0}
    /\ KeysOf \in [Producers -> SUBSET Keys]
    /\ MaxOps \in Nat

VARIABLES
    next_ptfo_sequence,  \* the atomic counter
    pc,                  \* where each producer is in its current call
    cur,                 \* the operation each producer has in hand
    local_fut,           \* per producer, its chain of nodes, newest node first
    lookup_directory,    \* per producer, the latest entry of each key
    hash,                \* per producer, the keys its hashtable holds
    copies,              \* records of each key in the global tree
    node_count,          \* ptfo_threads[p].node_count
    entry_count,         \* ptfo_threads[p].entry_count
    pending,             \* pending_operation_count
    pending_by_node,     \* pending_operation_count_by_node
    drain,               \* the drain in progress; mu is held iff there is one
    ptfo_mu,             \* the producers whose ptfo_mu the drain holds
    reader               \* where each reader is in contains

producerVars == <<next_ptfo_sequence, pc, cur>>
ptfoVars     == <<local_fut, lookup_directory, hash>>
counterVars  == <<node_count, entry_count, pending, pending_by_node>>
drainVars    == <<drain, ptfo_mu>>
vars == <<producerVars, ptfoVars, copies, counterVars, drainVars, reader>>

-----------------------------------------------------------------------------
(* Operations, chains and the tree *)

\* The operations of S that no other operation of S outranks by sequence.
Latest(S) == {o \in S : \A x \in S : x.sequence <= o.sequence}

\* Mutation: the head node takes one entry more than it has room for.
PtfoAppend_Overfull(chain, o) ==
    IF chain = <<>> \/ Len(Head(chain)) = cardinality + 1
    THEN <<<<o>>>> \o chain
    ELSE <<Append(Head(chain), o)>> \o Tail(chain)

\* Mutation: a new node goes behind the old ones.
PtfoAppend_Behind(chain, o) ==
    IF chain = <<>> \/ Len(Head(chain)) = cardinality
    THEN Append(chain, <<o>>)
    ELSE <<Append(Head(chain), o)>> \o Tail(chain)

\* future_insert: a full head node, or none, means a new node at the head.
PtfoAppend(chain, o) ==
    IF chain = <<>> \/ Len(Head(chain)) = cardinality
    THEN <<<<o>>>> \o chain
    ELSE <<Append(Head(chain), o)>> \o Tail(chain)

\* HashMapTable::Insert: when all slots are taken by other keys the one the
\* key hashes to is overwritten; which key that is depends on the hash.
HashInsert(table, key) ==
    IF key \in table \/ Cardinality(table) < HashCapacity
    THEN {table \cup {key}}
    ELSE {(table \ {victim}) \cup {key} : victim \in table}

\* The directory half of future_insert: the key's slot is overwritten, a free
\* one is taken, and when there is none the operation is left out.
DirectoryUpsert(dir, o) ==
    IF (\E e \in dir : e.key = o.key) \/ Cardinality(dir) < HashCapacity
    THEN {e \in dir : e.key # o.key} \cup {o}
    ELSE dir

\* Mutation: a delete does not look for the key first.
apply_buffered_op_Unchecked(tree, o) ==
    [tree EXCEPT ![o.key] = IF o.is_delete THEN @ - 1 ELSE @ + 1]

\* One operation applied to the tree.
apply_buffered_op(tree, o) ==
    IF o.is_delete
    THEN [tree EXCEPT ![o.key] = IF @ > 0 THEN @ - 1 ELSE 0]
    ELSE [tree EXCEPT ![o.key] = @ + 1]

\* Where p's buffered operations are: producer, node from the head, slot.
Positions(p) == UNION {{<<p, i, j>> : j \in DOMAIN local_fut[p][i]} : i \in DOMAIN local_fut[p]}

OpAt(pos) == local_fut[pos[1]][pos[2]][pos[3]]

Buffered(p, k) == {o \in {OpAt(pos) : pos \in Positions(p)} : o.key = k}

\* F3-K replays producer by producer, each chain from its tail.
BeforeInChains(x, y) ==
    \/ x[1] < y[1]
    \/ x[1] = y[1] /\ x[2] > y[2]
    \/ x[1] = y[1] /\ x[2] = y[2] /\ x[3] <= y[3]

\* F3-N replays node by node, in the order of their first operations.
BeforeByNode(x, y) ==
    LET first(pos) == local_fut[pos[1]][pos[2]][1].sequence
    IN  \/ first(x) < first(y)
        \/ first(x) = first(y) /\ x[1] < y[1]
        \/ first(x) = first(y) /\ x[1] = y[1] /\ x[3] <= y[3]

\* Mutation: by producer, as if their keys were disjoint.
BeforeBySequence_ByProducer(x, y) ==
    \/ x[1] < y[1]
    \/ x[1] = y[1] /\ OpAt(x).sequence <= OpAt(y).sequence

\* Deterministic replay goes by sequence alone.
BeforeBySequence(x, y) ==
    \/ OpAt(x).sequence < OpAt(y).sequence
    \/ OpAt(x).sequence = OpAt(y).sequence /\ x[1] <= y[1]

Before(x, y) ==
    CASE Policy = "F3K" -> BeforeInChains(x, y)
      [] Policy = "F3N" -> BeforeByNode(x, y)
      [] Policy = "DeterministicReplay" -> BeforeBySequence(x, y)

\* The globally latest directory entry of each key.
collect_latest_lookup_entries(entries) ==
    {e \in entries : \A x \in entries : x.key = e.key => x.sequence <= e.sequence}

\* Mutation: nothing is stale.
is_latest_buffered_op_Always(o, latest) == TRUE

is_latest_buffered_op(o, latest) ==
    \E e \in latest : /\ e.key = o.key
                      /\ e.sequence = o.sequence
                      /\ e.is_delete = o.is_delete

\* What a drain of ids applies; F3-N leaves out what the snapshot of the
\* directories does not name as the latest operation of its key.
ToReplay(ids, snapshot) ==
    LET buffered == UNION {Positions(p) : p \in ids}
        latest   == collect_latest_lookup_entries(snapshot)
    IN  IF Policy = "F3N"
        THEN {pos \in buffered : is_latest_buffered_op(OpAt(pos), latest)}
        ELSE buffered

-----------------------------------------------------------------------------
(* Locks and counters *)

MuFree     == drain.phase = "idle"
TreeMuFree == drain.phase \notin {"lock", "snapshot", "collect", "replay"}

\* Mutation: one operation is taken off for each producer.
EntriesOf_Producers(S) == Cardinality(S)

EntriesOf(S) == MapThenSumSet(LAMBDA p : entry_count[p], S)

Active(S) == {p \in S : entry_count[p] > 0}

HomeNode(p) == home_node(p, NumaNodes)

OwnedNodes(w) == owned_nodes(w, EvaluatorsBound, WorkerCount, NumaNodes)

OwnedProducers(w) ==
    owned_producers(w, EvaluatorsBound, WorkerCount, NumaNodes, NProducers)

PendingOf(w) ==
    IF OwnedNodes(w) # {}
    THEN MapThenSumSet(LAMBDA n : pending_by_node[n], OwnedNodes(w))
    ELSE EntriesOf(OwnedProducers(w))

should_checkpoint(w) ==
    /\ PendingOf(w) > 0
    /\ Threshold > 0
    /\ PendingOf(w) >= Threshold

-----------------------------------------------------------------------------
Idle == [phase |-> "idle", full |-> FALSE, ids |-> {}, snapshot |-> {},
         tid |-> 0, todo |-> {}]

Init ==
    /\ next_ptfo_sequence = 1
    /\ pc = [p \in Producers |-> "idle"]
    /\ cur = [p \in Producers |-> NoOp]
    /\ local_fut = [p \in Producers |-> <<>>]
    /\ lookup_directory = [p \in Producers |-> {}]
    /\ hash = [p \in Producers |-> {}]
    /\ copies = [k \in Keys |-> 0]
    /\ node_count = [p \in Producers |-> 0]
    /\ entry_count = [p \in Producers |-> 0]
    /\ pending = 0
    /\ pending_by_node = [n \in Nodes |-> 0]
    /\ drain = Idle
    /\ ptfo_mu = {}
    /\ reader = [r \in Readers |-> [phase |-> "idle", key |-> NoOp, tid |-> 0,
                                    best |-> {}, result |-> FALSE]]

-----------------------------------------------------------------------------
(* Writers *)

\* Load the tree directly; clients do it before they buffer anything.
warmup_insert(k) ==
    /\ TreeMuFree
    /\ next_ptfo_sequence = 1
    /\ copies[k] = 0
    /\ copies' = apply_buffered_op(copies, [key |-> k, is_delete |-> FALSE])
    /\ UNCHANGED <<producerVars, ptfoVars, counterVars, drainVars, reader>>

\* buffered_insert (is_delete = FALSE) and erase_buffered (TRUE) begin: the
\* operation gets its sequence number, no lock is taken.
FetchSequence(p, k, is_delete) ==
    /\ pc[p] = "idle"
    /\ next_ptfo_sequence <= MaxOps
    /\ k \in KeysOf[p]
    /\ cur' = [cur EXCEPT ![p] = [key |-> k, is_delete |-> is_delete,
                                  sequence |-> next_ptfo_sequence,
                                  producer_id |-> p]]
    /\ next_ptfo_sequence' = next_ptfo_sequence + 1
    /\ pc' = [pc EXCEPT ![p] = "sequenced"]
    /\ UNCHANGED <<ptfoVars, copies, counterVars, drainVars, reader>>

\* Mutation: the PTFO write does not wait for ptfo_mu[p].
future_insert_Unlocked(p) ==
    /\ pc[p] = "sequenced"
    /\ local_fut' = [local_fut EXCEPT ![p] = PtfoAppend(@, cur[p])]
    /\ \E table \in HashInsert(hash[p], cur[p].key) :
          hash' = [hash EXCEPT ![p] = table]
    /\ lookup_directory' = [lookup_directory EXCEPT ![p] = DirectoryUpsert(@, cur[p])]
    /\ pc' = [pc EXCEPT ![p] = "inserted"]
    /\ UNCHANGED <<next_ptfo_sequence, cur, copies, counterVars, drainVars, reader>>

\* The PTFO write, under ptfo_mu[p]: chain, hashtable and directory.
future_insert(p) ==
    /\ pc[p] = "sequenced"
    /\ p \notin ptfo_mu
    /\ local_fut' = [local_fut EXCEPT ![p] = PtfoAppend(@, cur[p])]
    /\ \E table \in HashInsert(hash[p], cur[p].key) :
          hash' = [hash EXCEPT ![p] = table]
    /\ lookup_directory' = [lookup_directory EXCEPT ![p] = DirectoryUpsert(@, cur[p])]
    /\ pc' = [pc EXCEPT ![p] = "inserted"]
    /\ UNCHANGED <<next_ptfo_sequence, cur, copies, counterVars, drainVars, reader>>

\* The accounting, under mu; the call returns.  cv.notify_one is the matter
\* of EvaluatorLoop.
Account(p) ==
    /\ pc[p] = "inserted"
    /\ MuFree
    /\ node_count' = [node_count EXCEPT ![p] =
                         IF entry_count[p] % kFutureNodeCapacity = 0 THEN @ + 1 ELSE @]
    /\ entry_count' = [entry_count EXCEPT ![p] = @ + 1]
    /\ pending' = pending + 1
    /\ pending_by_node' = [pending_by_node EXCEPT ![HomeNode(p)] = @ + 1]
    /\ pc' = [pc EXCEPT ![p] = "idle"]
    /\ cur' = [cur EXCEPT ![p] = NoOp]
    /\ UNCHANGED <<next_ptfo_sequence, ptfoVars, copies, drainVars, reader>>

-----------------------------------------------------------------------------
(* Drains.  mu is held from StartDrain to FinishDrain, tree_mu from        *)
(* StartDrain to ClearAndRelease, each ptfo_mu from AcquirePtfoLock to it.  *)

StartDrain(full, ids) ==
    /\ MuFree
    /\ drain' = [Idle EXCEPT !.phase = "lock", !.full = full, !.ids = ids]
    /\ UNCHANGED <<producerVars, ptfoVars, copies, counterVars, ptfo_mu, reader>>

\* drain_locked, for drain_pending, scan_range and the destructor.
drain_pending ==
    /\ ClientDrains
    /\ pending > 0
    /\ StartDrain(TRUE, Active(Producers))

\* An evaluator past its threshold, or woken by its interval, drains the
\* producers it owns: drain_locked_for_producers and drain_locked_for_nodes.
EvaluatorDrain(w) ==
    /\ should_checkpoint(w) \/ (Interval /\ pending > 0)
    /\ Active(OwnedProducers(w)) # {}
    /\ StartDrain(FALSE, Active(OwnedProducers(w)))

\* Mutation: an evaluator's drain takes in all producers, as drain_locked does.
LockSet_All == Producers

\* The producers a drain locks and, in the end, resets.
LockSet == IF drain.full THEN Producers ELSE drain.ids

\* acquire_ptfo_locks: one at a time, in ascending order.
AcquirePtfoLock(p) ==
    /\ drain.phase = "lock"
    /\ p \in LockSet \ ptfo_mu
    /\ \A q \in LockSet \ ptfo_mu : p <= q
    /\ ptfo_mu' = ptfo_mu \cup {p}
    /\ drain' = IF LockSet \subseteq ptfo_mu'
                THEN [drain EXCEPT !.phase = IF Policy = "F3N" THEN "snapshot" ELSE "collect"]
                ELSE drain
    /\ UNCHANGED <<producerVars, ptfoVars, copies, counterVars, reader>>

\* future_collect_lookup_entries: every directory in turn, each under its own
\* lookup_dir_mu only, so producers outside LockSet keep writing meanwhile.
CollectLookupEntries ==
    /\ drain.phase = "snapshot"
    /\ drain' = [drain EXCEPT !.snapshot = @ \cup lookup_directory[drain.tid],
                              !.tid = @ + 1,
                              !.phase = IF drain.tid + 1 = NProducers THEN "collect" ELSE @]
    /\ UNCHANGED <<producerVars, ptfoVars, copies, counterVars, ptfo_mu, reader>>

\* future_collect_ops, future_collect_nodes: what the chains hold now.
CollectOps ==
    /\ drain.phase = "collect"
    /\ drain' = [drain EXCEPT !.phase = "replay", !.snapshot = {}, !.tid = 0,
                              !.todo = ToReplay(drain.ids, drain.snapshot)]
    /\ UNCHANGED <<producerVars, ptfoVars, copies, counterVars, ptfo_mu, reader>>

\* The next operation in the policy's order goes to the tree.
ReplayOp ==
    /\ drain.phase = "replay"
    /\ \E pos \in drain.todo :
          /\ \A other \in drain.todo : Before(pos, other)
          /\ copies' = apply_buffered_op(copies, OpAt(pos))
          /\ drain' = [drain EXCEPT !.todo = @ \ {pos}]
    /\ UNCHANGED <<producerVars, ptfoVars, counterVars, ptfo_mu, reader>>

\* Empty the drained chains, clear the directories (a full drain: all of
\* them), release the PTFO locks and tree_mu.
ClearAndRelease ==
    /\ drain.phase = "replay"
    /\ drain.todo = {}
    /\ local_fut' = [p \in Producers |-> IF p \in drain.ids THEN <<>> ELSE local_fut[p]]
    /\ lookup_directory' = [p \in Producers |-> IF p \in LockSet THEN {} ELSE lookup_directory[p]]
    /\ ptfo_mu' = {}
    /\ drain' = [drain EXCEPT !.phase = "account"]
    /\ UNCHANGED <<producerVars, hash, copies, counterVars, reader>>

\* The counters: a full drain resets them all, a partial one subtracts the
\* drained producers' share (subtract_pending_counts_locked).  mu is released.
FinishDrain ==
    /\ drain.phase = "account"
    /\ entry_count' = [p \in Producers |-> IF p \in LockSet THEN 0 ELSE entry_count[p]]
    /\ node_count' = [p \in Producers |-> IF p \in LockSet THEN 0 ELSE node_count[p]]
    /\ pending' = IF drain.full THEN 0
                  ELSE pending - EntriesOf(drain.ids)
    /\ pending_by_node' =
          [n \in Nodes |->
             IF drain.full THEN 0
             ELSE pending_by_node[n] - EntriesOf({p \in drain.ids : HomeNode(p) = n})]
    /\ drain' = Idle
    /\ UNCHANGED <<producerVars, ptfoVars, copies, ptfo_mu, reader>>

-----------------------------------------------------------------------------
(* contains: the chains of the producers in turn, each under its ptfo_mu,  *)
(* then the tree under tree_mu.                                            *)

ContainsBegin(r, k) ==
    /\ reader[r].phase \in {"idle", "returned"}
    /\ reader' = [reader EXCEPT ![r] = [phase |-> "scan", key |-> k, tid |-> 0,
                                        best |-> {}, result |-> FALSE]]
    /\ UNCHANGED <<producerVars, ptfoVars, copies, counterVars, drainVars>>

Returned(result) == [phase |-> "returned", key |-> NoOp, tid |-> 0,
                     best |-> {}, result |-> result]

\* Where the scan goes after producer tid, with the best operation so far:
\* once all chains are read that operation decides, and without one the tree.
AfterTid(rd, best) ==
    IF rd.tid + 1 < NProducers
    THEN [rd EXCEPT !.tid = @ + 1, !.best = best]
    ELSE IF best = {}
    THEN [rd EXCEPT !.tid = @ + 1, !.phase = "tree"]
    ELSE Returned(\E o \in best : ~o.is_delete)

\* Tier 1: the hashtable of tid does not know the key; no lock is taken.
ContainsSkip(r) ==
    /\ reader[r].phase = "scan"
    /\ reader[r].key \notin hash[reader[r].tid]
    /\ reader' = [reader EXCEPT ![r] = AfterTid(@, @.best)]
    /\ UNCHANGED <<producerVars, ptfoVars, copies, counterVars, drainVars>>

\* Tier 2: walk the chain of tid under its lock.
ContainsWalk(r) ==
    /\ reader[r].phase = "scan"
    /\ reader[r].key \in hash[reader[r].tid]
    /\ reader[r].tid \notin ptfo_mu
    /\ LET found == Buffered(reader[r].tid, reader[r].key)
       IN  reader' = [reader EXCEPT ![r] = AfterTid(@, Latest(@.best \cup found))]
    /\ UNCHANGED <<producerVars, ptfoVars, copies, counterVars, drainVars>>

\* Tier 3: the global tree.
ContainsTree(r) ==
    /\ reader[r].phase = "tree"
    /\ TreeMuFree
    /\ reader' = [reader EXCEPT ![r] = Returned(copies[@.key] > 0)]
    /\ UNCHANGED <<producerVars, ptfoVars, copies, counterVars, drainVars>>

\* What contains(k) answers when it runs with nothing in between.
View(k) ==
    LET known  == {p \in Producers : k \in hash[p]}
        newest == Latest(UNION {Buffered(p, k) : p \in known})
    IN  IF newest # {} THEN \E o \in newest : ~o.is_delete ELSE copies[k] > 0

-----------------------------------------------------------------------------
Write == \E p \in Producers :
            \/ \E k \in Keys, d \in BOOLEAN : FetchSequence(p, k, d)
            \/ future_insert(p)
            \/ Account(p)

Drain == \/ drain_pending
         \/ \E w \in Workers : EvaluatorDrain(w)
         \/ \E p \in Producers : AcquirePtfoLock(p)
         \/ CollectLookupEntries
         \/ CollectOps
         \/ ReplayOp
         \/ ClearAndRelease
         \/ FinishDrain

Read == \E r \in Readers :
            \/ \E k \in Keys : ContainsBegin(r, k)
            \/ ContainsSkip(r)
            \/ ContainsWalk(r)
            \/ ContainsTree(r)

Next == (\E k \in Keys : warmup_insert(k)) \/ Write \/ Drain \/ Read

Spec == Init /\ [][Next]_vars

-----------------------------------------------------------------------------
DrainStates ==
    [phase : {"idle", "lock", "snapshot", "collect", "replay", "account"},
     full : BOOLEAN, ids : SUBSET Producers, snapshot : SUBSET Ops,
     tid : Nat, todo : SUBSET (Producers \X Nat \X Nat)]

ReaderStates ==
    [phase : {"idle", "scan", "tree", "returned"}, key : Keys \cup {NoOp},
     tid : Nat, best : SUBSET Ops, result : BOOLEAN]

\* The state is well formed: in particular no delete takes the records of a
\* key below none, and what a drain or a reader holds are operations.
TypeOK ==
    /\ next_ptfo_sequence \in Nat \ {0}
    /\ pc \in [Producers -> {"idle", "sequenced", "inserted"}]
    /\ cur \in [Producers -> Ops \cup {NoOp}]
    /\ local_fut \in [Producers -> Seq(Seq(Ops))]
    /\ lookup_directory \in [Producers -> SUBSET Ops]
    /\ hash \in [Producers -> SUBSET Keys]
    /\ copies \in [Keys -> Nat]
    /\ node_count \in [Producers -> Nat]
    /\ entry_count \in [Producers -> Nat]
    /\ drain \in DrainStates
    /\ ptfo_mu \in SUBSET Producers
    /\ reader \in [Readers -> ReaderStates]

\* A producer between calls whose chain is not empty has a positive
\* entry_count: every drain looks at entry_count to find what to apply, so a
\* chain it takes for empty would never be drained.
NoForgottenChain ==
    \A p \in Producers : pc[p] = "idle" /\ local_fut[p] # <<>> => entry_count[p] > 0

\* pending_operation_count and its split by node, which drains subtract from
\* (they are unsigned), stay the sums of the entry counts they stand for.
CountersAgree ==
    /\ pending = MapThenSumSet(LAMBDA p : entry_count[p], Producers)
    /\ \A n \in Nodes : pending_by_node[n] =
          MapThenSumSet(LAMBDA p : entry_count[p], {p \in Producers : HomeNode(p) = n})

\* No node of a chain holds more entries than its arrays, or none.
NodesFit ==
    \A p \in Producers : \A i \in DOMAIN local_fut[p] :
        Len(local_fut[p][i]) \in 1 .. cardinality

\* Walked from the tail as F3-K drains it, a chain yields its operations in
\* the order of their sequence numbers: the last one replayed is the newest.
ChainIsOrdered ==
    \A p \in Producers : \A i, m \in DOMAIN local_fut[p] :
        \A j \in DOMAIN local_fut[p][i], n \in DOMAIN local_fut[p][m] :
            i > m \/ (i = m /\ j < n)
                => local_fut[p][i][j].sequence < local_fut[p][m][n].sequence

=============================================================================

---------------------------- MODULE PtfoRecovery ----------------------------
(***************************************************************************)
(* The PMDK build: one producer's chain of future_Nodes in a pool, store   *)
(* by store and flush by flush, with crashes and reopening                 *)
(* (src/core/btree.h).                                                     *)
(*                                                                         *)
(* Each word has a value the process sees (mem) and one that is durable    *)
(* (pmem).  clflush makes words durable; the cache may write back any      *)
(* other dirty word on its own.  A crash of the process (std::_Exit in     *)
(* restart_test.cpp) leaves every store in the pool, a power failure only  *)
(* the flushed words and any of the dirty ones.  pmemobj's allocations and *)
(* frees are atomic and durable.                                           *)
(*                                                                         *)
(* A call is the sequence of its memory steps; a crash may come between    *)
(* any two.  Chains of different producers share nothing but the tree.     *)
(***************************************************************************)
EXTENDS Integers, Sequences, SequencesExt, FiniteSets, FiniteSetsExt

CONSTANTS
    Keys,
    Policy,             \* "F3K" drains from the tail, "F3N" clears from the head
    cardinality,        \* entries of one future_Node
    SequenceGap,        \* what recovery leaves free, 1000000 in the code
    CrashInDrain,       \* may a crash come while a drain runs
    PowerAfterDrain,    \* may power fail once a drain has run
    MaxOps,             \* bound: operations issued
    MaxCrashes          \* bound: crashes

ASSUME RecoveryAssumption ==
    /\ Policy \in {"F3K", "F3N"}
    /\ cardinality \in Nat \ {0}
    /\ SequenceGap \in Nat
    /\ {CrashInDrain, PowerAfterDrain} \subseteq BOOLEAN
    /\ MaxOps \in Nat
    /\ MaxCrashes \in Nat

\* A node per operation is more than a chain needs.
Nodes == 1 .. MaxOps

Null == 0

Fields == {"ops", "count", "prev", "next"}

\* head and tail are local_fut[tid].next and local_fut_tail[tid].next.  A
\* node's prev is Null when it is the dummy head.
Words == {<<0, "head">>, <<0, "tail">>} \cup (Nodes \X Fields)

head == <<0, "head">>
tail == <<0, "tail">>

VARIABLES
    mem,                \* the words as the process sees them
    pmem,               \* the words that are durable
    allocated,          \* nodes pmemobj has handed out
    copies,             \* records of each key in the global tree (durable)
    seq_counter,        \* PmemRoot::seq_counter
    next_ptfo_sequence, \* the wrapper's counter
    pending,            \* the wrapper's entry_count
    todo,               \* steps the call in progress has yet to make
    call,               \* the call in progress
    up,                 \* is there a process
    drained,            \* sequence numbers of nodes the tail has moved past
    everDrained,
    expected,           \* reference: what each key should look like
    issued, crashes

vars == <<mem, pmem, allocated, copies, seq_counter, next_ptfo_sequence, pending,
          todo, call, up, drained, everDrained, expected, issued, crashes>>

Idle == [kind |-> "idle"]

-----------------------------------------------------------------------------
(* Chains *)

\* The nodes reached from the head, newest first; recovery and readers walk
\* them this way.  MaxOps steps are enough for any chain.
Chain(m) ==
    LET follow[i \in 0 .. MaxOps] ==
            IF i = 0 THEN << >>
            ELSE LET from == IF follow[i - 1] = << >> THEN m[head]
                             ELSE m[<<Last(follow[i - 1]), "next">>]
                 IN  IF from = Null \/ Contains(follow[i - 1], from) THEN follow[i - 1]
                     ELSE Append(follow[i - 1], from)
    IN  follow[MaxOps]

\* From the tail towards the head, oldest first, as a drain goes.
FromTail(m) ==
    LET follow[i \in 0 .. MaxOps] ==
            IF i = 0 THEN << >>
            ELSE LET from == IF follow[i - 1] = << >> THEN m[tail]
                             ELSE m[<<Last(follow[i - 1]), "prev">>]
                 IN  IF from = Null \/ Contains(follow[i - 1], from) THEN follow[i - 1]
                     ELSE Append(follow[i - 1], from)
    IN  follow[MaxOps]

\* What a walk reads of a node: entry_count entries of its arrays.
Entries(m, n) == SubSeq(m[<<n, "ops">>], 1, m[<<n, "count">>])

ChainOps(m) == UNION {ToSet(Entries(m, n)) : n \in ToSet(Chain(m))}

\* contains: the latest buffered operation on k, else the tree.
Visible(k) ==
    LET buffered == {o \in ChainOps(mem) : o.key = k}
    IN  IF buffered = {} THEN copies[k] > 0
        ELSE ~(CHOOSE o \in buffered : \A x \in buffered : x.sequence <= o.sequence).is_delete

-----------------------------------------------------------------------------
(* Calls as sequences of steps *)

Store(w, v) == [do |-> "store", word |-> w, value |-> v]
Flush(ws)   == [do |-> "flush", words |-> ws]
Free(n)     == [do |-> "free", node |-> n]
ApplyOp(o)  == [do |-> "apply", op |-> o]
Passed(n)   == [do |-> "passed", node |-> n]
Skip        == [do |-> "skip"]

NodeWords(n) == {n} \X Fields

NewNode(n, o, next) ==
    << [do |-> "alloc", node |-> n],
       Store(<<n, "ops">>, <<o>>), Store(<<n, "count">>, 1),
       Store(<<n, "prev">>, Null), Store(<<n, "next">>, next) >>

\* Mutation: the count is not flushed behind the entry.
future_insert_CountUnflushed(o) ==
    LET n == Min(Nodes \ allocated)
        h == mem[head]
    IN  IF h = Null
        THEN NewNode(n, o, Null) \o
             << Flush(NodeWords(n)), Store(head, n), Store(tail, n), Flush({head}), Flush({tail}) >>
        ELSE << Store(<<h, "ops">>, Append(Entries(mem, h), o)), Flush(NodeWords(h)),
                Store(<<h, "count">>, mem[<<h, "count">>] + 1) >>

\* Mutation: the first node is linked before it is flushed.
future_insert_LinkFirst(o) ==
    LET n == Min(Nodes \ allocated)
        h == mem[head]
    IN  IF h = Null
        THEN NewNode(n, o, Null) \o
             << Store(head, n), Flush({head}), Flush(NodeWords(n)), Store(tail, n), Flush({tail}) >>
        ELSE << Store(<<h, "ops">>, Append(Entries(mem, h), o)), Flush(NodeWords(h)),
                Store(<<h, "count">>, mem[<<h, "count">>] + 1), Flush({<<h, "count">>}) >>

\* future_insert: a first node, a new node before a full one, or an entry of
\* the head node; contents are flushed before what makes them reachable.
future_insert(o) ==
    LET n == Min(Nodes \ allocated)
        h == mem[head]
    IN  IF h = Null
        THEN NewNode(n, o, Null) \o
             << Flush(NodeWords(n)), Store(head, n), Store(tail, n), Flush({head}), Flush({tail}) >>
        ELSE IF mem[<<h, "count">>] = cardinality
        THEN NewNode(n, o, h) \o
             << Flush(NodeWords(n)), Store(<<h, "prev">>, n), Flush({<<h, "prev">>}),
                Store(head, n), Flush({head}) >>
        ELSE << Store(<<h, "ops">>, Append(Entries(mem, h), o)), Flush(NodeWords(h)),
                Store(<<h, "count">>, mem[<<h, "count">>] + 1), Flush({<<h, "count">>}) >>

\* future_drain_thread_from_tail (F3-K): node by node, apply, move the tail
\* towards the head, free; in the end reset the head.  No flush.
future_drain_thread_from_tail ==
    LET nodes == FromTail(mem)
        one(i) == [j \in 1 .. mem[<<nodes[i], "count">>] |-> ApplyOp(mem[<<nodes[i], "ops">>][j])] \o
                  << Store(tail, mem[<<nodes[i], "prev">>]), Passed(nodes[i]), Free(nodes[i]) >>
    IN  FlattenSeq([i \in DOMAIN nodes |-> one(i)]) \o << Store(head, Null) >>

\* Frees the chain from its head and resets both ends.
future_clear_thread ==
    [i \in DOMAIN Chain(mem) |-> Free(Chain(mem)[i])] \o
    << Store(head, Null), Store(tail, Null) >>

\* F3-N: of the operations, oldest node first, the latest one of each key is
\* applied; then the chain is cleared.
apply_node_ordered_ptfo_replay ==
    LET nodes == Reverse(Chain(mem))
        ops   == FlattenSeq([i \in DOMAIN nodes |-> Entries(mem, nodes[i])])
        latest(o) == \A x \in ToSet(ops) : x.key = o.key => x.sequence <= o.sequence
    IN  [i \in DOMAIN ops |-> IF latest(ops[i]) THEN ApplyOp(ops[i]) ELSE Skip] \o
        future_clear_thread

-----------------------------------------------------------------------------
Init ==
    /\ mem = [w \in Words |-> IF w[2] = "ops" THEN << >> ELSE 0]
    /\ pmem = mem
    /\ allocated = {}
    /\ copies = [k \in Keys |-> 0]
    /\ seq_counter = 0
    /\ next_ptfo_sequence = 1
    /\ pending = 0
    /\ todo = << >>
    /\ call = Idle
    /\ up = TRUE
    /\ drained = {}
    /\ everDrained = FALSE
    /\ expected = [k \in Keys |-> FALSE]
    /\ issued = 0 /\ crashes = 0

\* One insert or erase.  A key is inserted only while the tree has no record
\* of it: a second record of a live key, which one erase does not remove, is
\* a question of replay and not of recovery (see FutureBTree).
buffered_op(k, is_delete) ==
    LET o == [key |-> k, is_delete |-> is_delete, sequence |-> next_ptfo_sequence]
    IN  /\ up /\ call = Idle
        /\ issued < MaxOps
        /\ is_delete \/ copies[k] = 0
        /\ call' = [kind |-> "insert", op |-> o]
        /\ todo' = future_insert(o)
        /\ next_ptfo_sequence' = next_ptfo_sequence + 1
        /\ issued' = issued + 1
        /\ UNCHANGED <<mem, pmem, allocated, copies, seq_counter, pending, up, drained,
                       everDrained, expected, crashes>>

\* A drain takes a producer in only if the wrapper has counted something for
\* it since the pool was opened.
drain ==
    /\ up /\ call = Idle
    /\ pending > 0
    /\ call' = [kind |-> "drain"]
    /\ todo' = IF Policy = "F3K" THEN future_drain_thread_from_tail
               ELSE apply_node_ordered_ptfo_replay
    /\ everDrained' = TRUE
    /\ UNCHANGED <<mem, pmem, allocated, copies, seq_counter, next_ptfo_sequence, pending,
                   up, drained, expected, issued, crashes>>

\* The next memory step of the call.
Step ==
    LET s == Head(todo)
    IN  /\ up /\ todo # << >>
        /\ todo' = Tail(todo)
        /\ mem' = IF s.do = "store" THEN [mem EXCEPT ![s.word] = s.value] ELSE mem
        /\ pmem' = IF s.do = "flush"
                   THEN [w \in Words |-> IF w \in s.words THEN mem[w] ELSE pmem[w]]
                   ELSE pmem
        /\ allocated' = CASE s.do = "alloc" -> allocated \cup {s.node}
                          [] s.do = "free"  -> allocated \ {s.node}
                          [] OTHER -> allocated
        /\ copies' = IF s.do = "apply"
                     THEN [copies EXCEPT ![s.op.key] =
                              IF ~s.op.is_delete THEN @ + 1 ELSE IF @ > 0 THEN @ - 1 ELSE 0]
                     ELSE copies
        /\ drained' = IF s.do = "passed"
                      THEN drained \cup {o.sequence : o \in ToSet(Entries(mem, s.node))}
                      ELSE drained
        /\ UNCHANGED <<seq_counter, next_ptfo_sequence, pending, call, up, everDrained,
                       expected, issued, crashes>>

\* The call returns: an operation is acknowledged and counted.
Return ==
    /\ up /\ todo = << >> /\ call # Idle
    /\ call' = Idle
    /\ IF call.kind = "insert"
       THEN /\ pending' = pending + 1
            /\ expected' = [expected EXCEPT ![call.op.key] = ~call.op.is_delete]
       ELSE /\ pending' = 0
            /\ UNCHANGED expected
    /\ UNCHANGED <<mem, pmem, allocated, copies, seq_counter, next_ptfo_sequence, todo, up,
                   drained, everDrained, issued, crashes>>

MayCrash == /\ up /\ crashes < MaxCrashes
            /\ CrashInDrain \/ call.kind # "drain"

Die(image) ==
    /\ mem' = image /\ pmem' = image
    /\ up' = FALSE
    /\ todo' = << >>
    /\ crashes' = crashes + 1
    /\ UNCHANGED <<allocated, copies, seq_counter, next_ptfo_sequence, pending, call,
                   drained, everDrained, expected, issued>>

\* The process ends; the pool keeps all it has stored.
ProcessCrash == MayCrash /\ Die(mem)

\* What the pool may hold after a power failure.
Dirty  == {w \in Words : mem[w] # pmem[w]}
Images == {[w \in Words |-> IF w \in S THEN mem[w] ELSE pmem[w]] : S \in SUBSET Dirty}

PowerFailure ==
    /\ MayCrash
    /\ PowerAfterDrain \/ ~everDrained
    /\ \E image \in Images : Die(image)

\* Mutation: the counter resumes from the durable one alone.
Resume_FromCounter == seq_counter + SequenceGap

\* Above the durable counter and every sequence number in the chain.
Resume == Max({seq_counter} \cup {o.sequence : o \in ChainOps(mem)}) + SequenceGap

\* The constructor on an existing pool: hashtable and directory are rebuilt
\* from the chain, so the chain is what readers see; the wrapper's counters
\* start from zero.  Of a call that was cut off either outcome is right.
Reopen ==
    /\ ~up
    /\ up' = TRUE
    /\ seq_counter' = Resume
    /\ next_ptfo_sequence' = Max({1, Resume + 1})
    /\ pending' = 0
    /\ call' = Idle
    /\ expected' = IF call.kind = "insert"
                   THEN [expected EXCEPT ![call.op.key] = Visible(call.op.key)]
                   ELSE expected
    /\ UNCHANGED <<mem, pmem, allocated, copies, todo, drained, everDrained, issued, crashes>>

Next ==
    \/ \E k \in Keys, d \in BOOLEAN : buffered_op(k, d)
    \/ drain
    \/ Step
    \/ Return
    \/ ProcessCrash
    \/ PowerFailure
    \/ Reopen

Spec == Init /\ [][Next]_vars

-----------------------------------------------------------------------------
(* Properties *)

\* Between calls every key looks as its last acknowledged operation left it,
\* in the process that issued it and in every one that reopens the pool.
AckedSurvives == up /\ call = Idle => \A k \in Keys : Visible(k) = expected[k]

\* Whatever the caches have written back, the pool can be recovered at any
\* moment of an insert: every node that can be reached is allocated, and no
\* count goes past the entries that are there.
EveryImageRecovers ==
    up /\ call.kind # "drain" /\ (PowerAfterDrain \/ ~everDrained) =>
        \A m \in Images :
            \A n \in ToSet(Chain(m)) : /\ n \in allocated
                                       /\ m[<<n, "count">>] \in 1 .. Len(m[<<n, "ops">>])

\* A sequence number drawn after any number of restarts is above all that
\* the chain holds.
SequencesDominate == up => \A o \in ChainOps(mem) : o.sequence < next_ptfo_sequence

\* The tail pointer marks the recovery point of F3-K's drain: operations of a
\* node it has moved past are not in the chain the recovery constructor walks
\* after a crash (and from which it fills hashtable and directory again).
PassedIsNotRecovered ==
    up /\ call = Idle => \A o \in ChainOps(mem) : o.sequence \notin drained
=============================================================================

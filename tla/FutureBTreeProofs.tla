-------------------------- MODULE FutureBTreeProofs --------------------------
(***************************************************************************)
(* Theorems about FutureBTree, for any number of producers, keys, readers, *)
(* evaluators and operations, any policy and any configuration.            *)
(***************************************************************************)
EXTENDS FutureBTree, NatSetTheorems, SequenceTheorems

-----------------------------------------------------------------------------
(* The type invariant, strengthened: one part for each group of variables. *)

\* A producer inside a call has an operation in hand.
WritersOK ==
    /\ next_ptfo_sequence \in Nat \ {0}
    /\ pc \in [Producers -> {"idle", "sequenced", "inserted"}]
    /\ cur \in [Producers -> Ops \cup {NoOp}]
    /\ \A p \in Producers : pc[p] # "idle" => cur[p] \in Ops

ChainsOK ==
    /\ local_fut \in [Producers -> Seq(Seq(Ops))]
    /\ lookup_directory \in [Producers -> SUBSET Ops]
    /\ hash \in [Producers -> SUBSET Keys]

TreeOK == copies \in [Keys -> Nat]

CountersOK ==
    /\ node_count \in [Producers -> Nat]
    /\ entry_count \in [Producers -> Nat]

\* A drain reads only directories that exist.
DrainOK ==
    /\ drain \in DrainStates
    /\ drain.phase = "lock" => drain.tid = 0
    /\ drain.phase = "snapshot" => drain.tid \in Producers
    /\ ptfo_mu \in SUBSET Producers

\* So does a reader, of chains, and it has a key.
ReadersOK ==
    /\ reader \in [Readers -> ReaderStates]
    /\ \A r \in Readers :
          /\ reader[r].phase = "scan" => reader[r].tid \in Producers
          /\ reader[r].phase \in {"scan", "tree"} => reader[r].key \in Keys

TypeInv == WritersOK /\ ChainsOK /\ TreeOK /\ CountersOK /\ DrainOK /\ ReadersOK

\* Each part depends on its own variables only.
LEMMA Frame ==
    ASSUME TypeInv
    PROVE  /\ UNCHANGED producerVars => WritersOK'
           /\ UNCHANGED ptfoVars => ChainsOK'
           /\ UNCHANGED copies => TreeOK'
           /\ UNCHANGED <<node_count, entry_count>> => CountersOK'
           /\ UNCHANGED counterVars => CountersOK'
           /\ UNCHANGED drainVars => DrainOK'
           /\ UNCHANGED reader => ReadersOK'
<1>1. UNCHANGED producerVars => WritersOK'
  BY DEF TypeInv, WritersOK, producerVars
<1>2. UNCHANGED ptfoVars => ChainsOK'
  BY DEF TypeInv, ChainsOK, ptfoVars
<1>3. UNCHANGED copies => TreeOK'
  BY DEF TypeInv, TreeOK
<1>4. UNCHANGED <<node_count, entry_count>> => CountersOK'
  BY DEF TypeInv, CountersOK
<1>5. UNCHANGED counterVars => CountersOK'
  BY DEF TypeInv, CountersOK, counterVars
<1>6. UNCHANGED drainVars => DrainOK'
  BY DEF TypeInv, DrainOK, drainVars
<1>7. UNCHANGED reader => ReadersOK'
  BY DEF TypeInv, ReadersOK
<1> QED
  BY <1>1, <1>2, <1>3, <1>4, <1>5, <1>6, <1>7

-----------------------------------------------------------------------------
\* Appending an operation to a chain gives a chain of operations.
LEMMA PtfoAppendType ==
    ASSUME NEW chain \in Seq(Seq(Ops)), NEW o \in Ops
    PROVE  PtfoAppend(chain, o) \in Seq(Seq(Ops))
<1>1. <<o>> \in Seq(Ops) /\ <<<<o>>>> \in Seq(Seq(Ops))
  OBVIOUS
<1>2. CASE chain = <<>> \/ Len(Head(chain)) = cardinality
  BY <1>1, <1>2 DEF PtfoAppend
<1>3. CASE ~(chain = <<>> \/ Len(Head(chain)) = cardinality)
  <2>1. Head(chain) \in Seq(Ops) /\ Tail(chain) \in Seq(Seq(Ops))
    BY <1>3
  <2>2. Append(Head(chain), o) \in Seq(Ops)
    BY <2>1
  <2>3. <<Append(Head(chain), o)>> \in Seq(Seq(Ops))
    BY <2>2
  <2> QED
    BY <1>3, <2>1, <2>3 DEF PtfoAppend
<1> QED
  BY <1>2, <1>3

\* What a chain holds are operations.
LEMMA BufferedType ==
    ASSUME ChainsOK, NEW p \in Producers, NEW k
    PROVE  /\ Buffered(p, k) \subseteq Ops
           /\ Positions(p) \subseteq Producers \X Nat \X Nat
<1>1. local_fut[p] \in Seq(Seq(Ops))
  BY DEF ChainsOK
<1>2. ASSUME NEW i \in DOMAIN local_fut[p], NEW j \in DOMAIN local_fut[p][i]
      PROVE  local_fut[p][i][j] \in Ops /\ i \in Nat /\ j \in Nat
  <2>1. local_fut[p][i] \in Seq(Ops)
    BY <1>1
  <2> QED
    BY <1>1, <2>1
<1> QED
  BY <1>2 DEF Buffered, Positions, OpAt

\* A reader goes on to a producer that exists, to the tree, or returns.
LEMMA AfterTidType ==
    ASSUME NEW rd \in ReaderStates, rd.phase = "scan", rd.tid \in Producers,
           rd.key \in Keys, NEW best \in SUBSET Ops
    PROVE  /\ AfterTid(rd, best) \in ReaderStates
           /\ AfterTid(rd, best).phase = "scan" => AfterTid(rd, best).tid \in Producers
           /\ AfterTid(rd, best).phase \in {"scan", "tree"} => AfterTid(rd, best).key \in Keys
<1> USE DEF AfterTid, ReaderStates
<1>1. CASE rd.tid + 1 < NProducers
  <2>1. rd.tid + 1 \in Producers /\ rd.tid + 1 \in Nat
    BY <1>1, ConstantsAssumption DEF Producers
  <2> QED
    BY <1>1, <2>1
<1>2. CASE ~(rd.tid + 1 < NProducers) /\ best = {}
  <2>1. rd.tid + 1 \in Nat
    BY DEF Producers
  <2> QED
    BY <1>2, <2>1
<1>3. CASE ~(rd.tid + 1 < NProducers) /\ best # {}
  <2>1. AfterTid(rd, best) = Returned(\E o \in best : ~o.is_delete)
    BY <1>3
  <2>2. (\E o \in best : ~o.is_delete) \in BOOLEAN
    OBVIOUS
  <2> QED
    BY <2>1, <2>2 DEF Returned
<1> QED
  BY <1>1, <1>2, <1>3

\* An evaluator drains producers.
LEMMA OwnedProducersType ==
    ASSUME NEW w \in Workers
    PROVE  OwnedProducers(w) \subseteq Producers
<1>1. WorkerCount \in Nat /\ NumaNodes \in Nat
  BY ConstantsAssumption DEF WorkerCount, worker_count_for
<1>2. WorkerCount \in Nat \ {0} /\ w \in 0 .. (WorkerCount - 1)
  BY <1>1 DEF Workers
<1> QED
  BY <1>2, OwnedInRange, ConstantsAssumption DEF OwnedProducers, Producers

-----------------------------------------------------------------------------
LEMMA TypeInit == Init => TypeInv
<1> SUFFICES ASSUME Init PROVE TypeInv
  OBVIOUS
<1>1. WritersOK
  BY DEF Init, WritersOK
<1>2. ChainsOK
  <2>1. <<>> \in Seq(Seq(Ops))
    OBVIOUS
  <2> QED
    BY <2>1 DEF Init, ChainsOK
<1>3. TreeOK /\ CountersOK
  BY DEF Init, TreeOK, CountersOK
<1>4. DrainOK
  BY DEF Init, DrainOK, DrainStates, Idle
<1>5. ReadersOK
  BY DEF Init, ReadersOK, ReaderStates
<1> QED
  BY <1>1, <1>2, <1>3, <1>4, <1>5 DEF TypeInv

\* A drain may begin with any set of producers.
LEMMA TypeStartDrain ==
    ASSUME TypeInv, NEW full \in BOOLEAN, NEW S \in SUBSET Producers, StartDrain(full, S)
    PROVE  TypeInv'
<1>1. DrainOK'
  BY DEF StartDrain, TypeInv, DrainOK, DrainStates, Idle
<1> QED
  BY <1>1, Frame DEF StartDrain, TypeInv

LEMMA TypeWrite == TypeInv /\ Write => TypeInv'
<1> SUFFICES ASSUME TypeInv, NEW p \in Producers,
                    \/ \E k \in Keys, d \in BOOLEAN : FetchSequence(p, k, d)
                    \/ future_insert(p)
                    \/ Account(p)
             PROVE  TypeInv'
  BY DEF Write
<1>1. ASSUME NEW k \in Keys, NEW d \in BOOLEAN, FetchSequence(p, k, d) PROVE TypeInv'
  <2>1. WritersOK'
    BY <1>1 DEF FetchSequence, TypeInv, WritersOK, Ops
  <2> QED
    BY <1>1, <2>1, Frame DEF FetchSequence, TypeInv
<1>2. CASE future_insert(p)
  <2>1. cur[p] \in Ops /\ cur[p].key \in Keys
    BY <1>2 DEF future_insert, TypeInv, WritersOK, Ops
  <2>2. ChainsOK'
    <3>1. local_fut[p] \in Seq(Seq(Ops)) /\ hash[p] \subseteq Keys /\ lookup_directory[p] \subseteq Ops
      BY DEF TypeInv, ChainsOK
    <3>2. PtfoAppend(local_fut[p], cur[p]) \in Seq(Seq(Ops))
      BY <2>1, <3>1, PtfoAppendType
    <3>3. HashInsert(hash[p], cur[p].key) \subseteq SUBSET Keys
      BY <2>1, <3>1 DEF HashInsert
    <3>4. DirectoryUpsert(lookup_directory[p], cur[p]) \subseteq Ops
      BY <2>1, <3>1 DEF DirectoryUpsert
    <3>5. local_fut' \in [Producers -> Seq(Seq(Ops))]
      BY <1>2, <3>2 DEF future_insert, TypeInv, ChainsOK
    <3>6. lookup_directory' \in [Producers -> SUBSET Ops]
      BY <1>2, <3>4 DEF future_insert, TypeInv, ChainsOK
    <3>7. hash' \in [Producers -> SUBSET Keys]
      BY <1>2, <3>3 DEF future_insert, TypeInv, ChainsOK
    <3> QED
      BY <3>5, <3>6, <3>7 DEF ChainsOK
  <2>3. WritersOK'
    BY <1>2, <2>1 DEF future_insert, TypeInv, WritersOK
  <2> QED
    BY <1>2, <2>2, <2>3, Frame DEF future_insert, TypeInv
<1>3. CASE Account(p)
  <2>1. WritersOK'
    BY <1>3 DEF Account, TypeInv, WritersOK
  <2>2. CountersOK'
    BY <1>3 DEF Account, TypeInv, CountersOK
  <2> QED
    BY <1>3, <2>1, <2>2, Frame DEF Account, TypeInv
<1> QED
  BY <1>1, <1>2, <1>3

LEMMA TypeDrain == TypeInv /\ Drain => TypeInv'
<1> SUFFICES ASSUME TypeInv, Drain PROVE TypeInv'
  OBVIOUS
<1>1. CASE drain_pending
  BY <1>1, TypeStartDrain DEF drain_pending, Active
<1>2. ASSUME NEW w \in Workers, EvaluatorDrain(w) PROVE TypeInv'
  <2>1. Active(OwnedProducers(w)) \in SUBSET Producers
    BY OwnedProducersType DEF Active
  <2> QED
    BY <1>2, <2>1, TypeStartDrain DEF EvaluatorDrain
<1>3. ASSUME NEW p \in Producers, AcquirePtfoLock(p) PROVE TypeInv'
  <2>1. DrainOK'
    <3>1. drain \in DrainStates /\ drain.phase = "lock" /\ drain.tid = 0 /\ 0 \in Producers
      BY <1>3, ConstantsAssumption DEF AcquirePtfoLock, TypeInv, DrainOK, Producers
    <3>2. ptfo_mu' \in SUBSET Producers
      BY <1>3 DEF AcquirePtfoLock, TypeInv, DrainOK
    <3>3. \/ drain' = drain
          \/ drain' = [drain EXCEPT !.phase = "snapshot"]
          \/ drain' = [drain EXCEPT !.phase = "collect"]
      BY <1>3 DEF AcquirePtfoLock
    <3> QED
      BY <3>1, <3>2, <3>3 DEF DrainOK, DrainStates
  <2> QED
    BY <1>3, <2>1, Frame DEF AcquirePtfoLock, TypeInv
<1>4. CASE CollectLookupEntries
  <2>1. DrainOK'
    <3>1. drain \in DrainStates /\ drain.tid \in Producers /\ drain.phase = "snapshot"
      BY <1>4 DEF CollectLookupEntries, TypeInv, DrainOK
    <3>2. lookup_directory[drain.tid] \subseteq Ops
      BY <3>1 DEF TypeInv, ChainsOK
    <3>3. /\ drain.tid + 1 \in Nat
          /\ drain.tid + 1 # NProducers => drain.tid + 1 \in Producers
      BY <3>1, ConstantsAssumption DEF Producers
    <3>4. ptfo_mu' \in SUBSET Producers
      BY <1>4 DEF CollectLookupEntries, TypeInv, DrainOK
    <3> QED
      BY <1>4, <3>1, <3>2, <3>3, <3>4 DEF CollectLookupEntries, DrainOK, DrainStates
  <2> QED
    BY <1>4, <2>1, Frame DEF CollectLookupEntries, TypeInv
<1>5. CASE CollectOps
  <2>1. DrainOK'
    <3>1. drain \in DrainStates /\ drain.ids \in SUBSET Producers
      BY DEF TypeInv, DrainOK, DrainStates
    <3>2. ToReplay(drain.ids, drain.snapshot) \subseteq Producers \X Nat \X Nat
      BY <3>1, BufferedType DEF ToReplay, TypeInv
    <3> QED
      BY <1>5, <3>1, <3>2 DEF CollectOps, TypeInv, DrainOK, DrainStates
  <2> QED
    BY <1>5, <2>1, Frame DEF CollectOps, TypeInv
<1>6. CASE ReplayOp
  <2>1. TreeOK'
    <3>1. PICK pos \in drain.todo : copies' = apply_buffered_op(copies, OpAt(pos))
      BY <1>6 DEF ReplayOp
    <3> DEFINE o == OpAt(pos)
    <3>2. \/ copies' = [copies EXCEPT ![o.key] = IF copies[o.key] > 0 THEN copies[o.key] - 1 ELSE 0]
          \/ copies' = [copies EXCEPT ![o.key] = copies[o.key] + 1]
      BY <3>1 DEF apply_buffered_op
    <3> HIDE DEF o
    <3> QED
      BY <3>2 DEF TypeInv, TreeOK
  <2>2. DrainOK'
    BY <1>6 DEF ReplayOp, TypeInv, DrainOK, DrainStates
  <2> QED
    BY <1>6, <2>1, <2>2, Frame DEF ReplayOp, TypeInv
<1>7. CASE ClearAndRelease
  <2>1. ChainsOK'
    <3>1. local_fut' \in [Producers -> Seq(Seq(Ops))]
      BY <1>7 DEF ClearAndRelease, TypeInv, ChainsOK
    <3>2. lookup_directory' \in [Producers -> SUBSET Ops] /\ hash' \in [Producers -> SUBSET Keys]
      BY <1>7 DEF ClearAndRelease, TypeInv, ChainsOK
    <3> QED
      BY <3>1, <3>2 DEF ChainsOK
  <2>2. DrainOK'
    BY <1>7 DEF ClearAndRelease, TypeInv, DrainOK, DrainStates
  <2> QED
    BY <1>7, <2>1, <2>2, Frame DEF ClearAndRelease, TypeInv
<1>8. CASE FinishDrain
  <2>1. CountersOK'
    BY <1>8 DEF FinishDrain, TypeInv, CountersOK
  <2>2. DrainOK'
    BY <1>8 DEF FinishDrain, TypeInv, DrainOK, DrainStates, Idle
  <2> QED
    BY <1>8, <2>1, <2>2, Frame DEF FinishDrain, TypeInv
<1> QED
  BY <1>1, <1>2, <1>3, <1>4, <1>5, <1>6, <1>7, <1>8 DEF Drain

LEMMA TypeRead == TypeInv /\ Read => TypeInv'
<1> SUFFICES ASSUME TypeInv, NEW r \in Readers,
                    \/ \E k \in Keys : ContainsBegin(r, k)
                    \/ ContainsSkip(r)
                    \/ ContainsWalk(r)
                    \/ ContainsTree(r)
             PROVE  TypeInv'
  BY DEF Read
<1> DEFINE rd == reader[r]
<1>1. rd \in ReaderStates
  BY DEF TypeInv, ReadersOK
<1>2. ASSUME NEW new \in ReaderStates, reader' = [reader EXCEPT ![r] = new],
             new.phase = "scan" => new.tid \in Producers,
             new.phase \in {"scan", "tree"} => new.key \in Keys
      PROVE  ReadersOK'
  BY <1>2 DEF TypeInv, ReadersOK
<1>3. ASSUME NEW k \in Keys, ContainsBegin(r, k) PROVE TypeInv'
  <2>1. 0 \in Producers
    BY ConstantsAssumption DEF Producers
  <2>2. ReadersOK'
    BY <1>2, <1>3, <2>1 DEF ContainsBegin, ReaderStates
  <2> QED
    BY <1>3, <2>2, Frame DEF ContainsBegin, TypeInv
<1>4. ASSUME NEW best \in SUBSET Ops, rd.phase = "scan",
             reader' = [reader EXCEPT ![r] = AfterTid(rd, best)]
      PROVE  ReadersOK'
  <2>1. rd.tid \in Producers /\ rd.key \in Keys
    BY <1>4 DEF TypeInv, ReadersOK
  <2> HIDE DEF rd
  <2>2. /\ AfterTid(rd, best) \in ReaderStates
        /\ AfterTid(rd, best).phase = "scan" => AfterTid(rd, best).tid \in Producers
        /\ AfterTid(rd, best).phase \in {"scan", "tree"} => AfterTid(rd, best).key \in Keys
    BY <1>1, <1>4, <2>1, AfterTidType
  <2> QED
    BY <1>2, <1>4, <2>2
<1>5. CASE ContainsSkip(r)
  <2>1. rd.best \in SUBSET Ops /\ rd.phase = "scan"
    BY <1>1, <1>5 DEF ContainsSkip, ReaderStates
  <2>2. reader' = [reader EXCEPT ![r] = AfterTid(rd, rd.best)]
    BY <1>5 DEF ContainsSkip
  <2>3. ReadersOK'
    BY <1>4, <2>1, <2>2
  <2> QED
    BY <1>5, <2>3, Frame DEF ContainsSkip, TypeInv
<1>6. CASE ContainsWalk(r)
  <2> DEFINE best == Latest(rd.best \cup Buffered(rd.tid, rd.key))
  <2>1. rd.phase = "scan" /\ rd.tid \in Producers
    BY <1>6 DEF ContainsWalk, TypeInv, ReadersOK
  <2>2. rd.best \in SUBSET Ops
    BY <1>1 DEF ReaderStates
  <2>3. best \in SUBSET Ops
    BY <2>1, <2>2, BufferedType DEF Latest, TypeInv
  <2>4. reader' = [reader EXCEPT ![r] = AfterTid(rd, best)]
    BY <1>6 DEF ContainsWalk
  <2>5. ReadersOK'
    BY <1>4, <2>1, <2>3, <2>4
  <2> QED
    BY <1>6, <2>5, Frame DEF ContainsWalk, TypeInv
<1>7. CASE ContainsTree(r)
  <2> DEFINE found == copies[rd.key] > 0
  <2>1. reader' = [reader EXCEPT ![r] = Returned(found)]
    BY <1>7 DEF ContainsTree
  <2>2. found \in BOOLEAN
    OBVIOUS
  <2> HIDE DEF found
  <2>3. Returned(found) \in ReaderStates /\ Returned(found).phase = "returned"
    BY <2>2 DEF Returned, ReaderStates
  <2>4. ReadersOK'
    BY <1>2, <2>1, <2>3
  <2> QED
    BY <1>7, <2>4, Frame DEF ContainsTree, TypeInv
<1> QED
  BY <1>3, <1>5, <1>6, <1>7

LEMMA TypeStep == TypeInv /\ [Next]_vars => TypeInv'
<1> SUFFICES ASSUME TypeInv, [Next]_vars PROVE TypeInv'
  OBVIOUS
<1>1. ASSUME NEW k \in Keys, warmup_insert(k) PROVE TypeInv'
  <2>1. TreeOK'
    BY <1>1 DEF warmup_insert, apply_buffered_op, TypeInv, TreeOK
  <2> QED
    BY <1>1, <2>1, Frame DEF warmup_insert, TypeInv
<1>2. CASE UNCHANGED vars
  BY <1>2, Frame DEF vars, TypeInv
<1> QED
  BY <1>1, <1>2, TypeWrite, TypeDrain, TypeRead DEF Next

\* The state stays well formed (TypeOK): in particular a drain and a reader
\* only ever look at chains and directories of producers that exist, and no
\* delete drives the record count of a key below zero.
THEOREM TypeCorrect == Spec => []TypeOK
<1>1. TypeInv => TypeOK
  BY DEF TypeInv, WritersOK, ChainsOK, TreeOK, CountersOK, DrainOK, ReadersOK, TypeOK
<1> QED
  BY <1>1, TypeInit, TypeStep, PTL DEF Spec

-----------------------------------------------------------------------------
(* NoForgottenChain.  By itself it is not inductive: a full drain resets   *)
(* the counters of all producers although it emptied only the chains of    *)
(* those it found counted, and it does so after it has released their      *)
(* locks.                                                                  *)

\* A chain with something in it is counted, or its producer is about to.
ChainCounted ==
    \A p \in Producers :
        local_fut[p] # <<>> => entry_count[p] > 0 \/ pc[p] = "inserted"

\* A full drain empties the chains of all producers that are counted.
FullDrainIsFull ==
    drain.phase # "idle" /\ drain.full =>
        \A p \in Producers \ drain.ids : entry_count[p] = 0

\* When a drain comes to reset counters, what is in the chains again is
\* not counted yet.
ResetIsSafe ==
    drain.phase = "account" =>
        \A p \in LockSet : local_fut[p] # <<>> => pc[p] = "inserted"

CountInv == ChainCounted /\ FullDrainIsFull /\ ResetIsSafe

LEMMA CountInit == Init => CountInv
BY DEF Init, CountInv, ChainCounted, FullDrainIsFull, ResetIsSafe, Idle

LEMMA CountWrite == TypeInv /\ CountInv /\ Write => CountInv'
<1> SUFFICES ASSUME TypeInv, CountInv, NEW p \in Producers,
                    \/ \E k \in Keys, d \in BOOLEAN : FetchSequence(p, k, d)
                    \/ future_insert(p)
                    \/ Account(p)
             PROVE  CountInv'
  BY DEF Write
<1> USE DEF CountInv, ChainCounted, FullDrainIsFull, ResetIsSafe, LockSet
<1>1. ASSUME NEW k \in Keys, NEW d \in BOOLEAN, FetchSequence(p, k, d) PROVE CountInv'
  BY <1>1 DEF FetchSequence, TypeInv, WritersOK, DrainOK, DrainStates,
              ptfoVars, counterVars, drainVars
<1>2. CASE future_insert(p)
  BY <1>2 DEF future_insert, TypeInv, WritersOK, ChainsOK, DrainOK, DrainStates,
              counterVars, drainVars
<1>3. CASE Account(p)
  BY <1>3 DEF Account, MuFree, TypeInv, WritersOK, CountersOK, ptfoVars, drainVars
<1> QED
  BY <1>1, <1>2, <1>3

LEMMA CountDrain == TypeInv /\ CountInv /\ Drain => CountInv'
<1> SUFFICES ASSUME TypeInv, CountInv, Drain PROVE CountInv'
  OBVIOUS
<1> USE DEF CountInv, ChainCounted, FullDrainIsFull, ResetIsSafe, LockSet
<1>1. CASE drain_pending
  BY <1>1 DEF drain_pending, StartDrain, Active, Idle, TypeInv, CountersOK,
              producerVars, ptfoVars, counterVars
<1>2. ASSUME NEW w \in Workers, EvaluatorDrain(w) PROVE CountInv'
  BY <1>2 DEF EvaluatorDrain, StartDrain, Idle, producerVars, ptfoVars, counterVars
<1>3. ASSUME UNCHANGED <<producerVars, ptfoVars, counterVars>>,
             drain.phase # "idle", drain'.phase # "account",
             drain'.full = drain.full, drain'.ids = drain.ids
      PROVE  CountInv'
  BY <1>3 DEF producerVars, ptfoVars, counterVars
<1>4. ASSUME NEW p \in Producers, AcquirePtfoLock(p) PROVE CountInv'
  BY <1>3, <1>4 DEF AcquirePtfoLock, TypeInv, DrainOK, DrainStates
<1>5. CASE CollectLookupEntries
  BY <1>3, <1>5 DEF CollectLookupEntries, TypeInv, DrainOK, DrainStates
<1>6. CASE CollectOps
  BY <1>3, <1>6 DEF CollectOps, TypeInv, DrainOK, DrainStates
<1>7. CASE ReplayOp
  BY <1>3, <1>7 DEF ReplayOp, TypeInv, DrainOK, DrainStates
<1>8. CASE ClearAndRelease
  BY <1>8 DEF ClearAndRelease, TypeInv, DrainOK, DrainStates, ChainsOK, CountersOK,
              producerVars, counterVars
<1>9. CASE FinishDrain
  BY <1>9 DEF FinishDrain, TypeInv, DrainOK, DrainStates, CountersOK, Idle,
              producerVars, ptfoVars
<1> QED
  BY <1>1, <1>2, <1>4, <1>5, <1>6, <1>7, <1>8, <1>9 DEF Drain

LEMMA CountStep == TypeInv /\ CountInv /\ [Next]_vars => CountInv'
<1> SUFFICES ASSUME TypeInv, CountInv, [Next]_vars PROVE CountInv'
  OBVIOUS
<1>1. ASSUME UNCHANGED <<producerVars, ptfoVars, counterVars, drainVars>>
      PROVE  CountInv'
  BY <1>1 DEF CountInv, ChainCounted, FullDrainIsFull, ResetIsSafe, LockSet,
              producerVars, ptfoVars, counterVars, drainVars
<1>2. ASSUME NEW k \in Keys, warmup_insert(k) PROVE CountInv'
  BY <1>1, <1>2 DEF warmup_insert
<1>3. CASE Read
  BY <1>1, <1>3 DEF Read, ContainsBegin, ContainsSkip, ContainsWalk, ContainsTree
<1>4. CASE UNCHANGED vars
  BY <1>1, <1>4 DEF vars
<1> QED
  BY <1>2, <1>3, <1>4, CountWrite, CountDrain DEF Next

\* No chain is forgotten (NoForgottenChain): although drain_locked resets the
\* counters of all producers after their locks are released, a producer
\* between calls whose chain holds anything has a positive entry_count, for
\* which the next drain looks.
THEOREM ChainsAreCounted == Spec => []NoForgottenChain
<1>1. TypeInv /\ CountInv => NoForgottenChain
  BY DEF CountInv, ChainCounted, NoForgottenChain
<1> QED
  BY <1>1, TypeInit, TypeStep, CountInit, CountStep, PTL DEF Spec

-----------------------------------------------------------------------------
(* NodesFit and ChainIsOrdered: the shape of one chain, and what           *)
(* PtfoAppend makes of it.                                                 *)

FittingChain(chain) == \A i \in DOMAIN chain : Len(chain[i]) \in 1 .. cardinality

OrderedChain(chain) ==
    \A i, m \in DOMAIN chain : \A j \in DOMAIN chain[i], n \in DOMAIN chain[m] :
        i > m \/ (i = m /\ j < n) => chain[i][j].sequence < chain[m][n].sequence

\* All operations of the chain have a sequence number below the limit.
BelowChain(chain, limit) ==
    \A i \in DOMAIN chain : \A j \in DOMAIN chain[i] : chain[i][j].sequence < limit

\* The new operation ends the head node: of its own, or of what was there.
LEMMA PtfoAppendShape ==
    ASSUME NEW chain \in Seq(Seq(Ops)), NEW o \in Ops
    PROVE  \/ /\ Len(PtfoAppend(chain, o)) = Len(chain) + 1
              /\ PtfoAppend(chain, o)[1] = <<o>>
              /\ \A i \in 1 .. Len(chain) : PtfoAppend(chain, o)[i + 1] = chain[i]
           \/ /\ Len(PtfoAppend(chain, o)) = Len(chain)
              /\ Len(chain) >= 1
              /\ Len(chain[1]) # cardinality
              /\ PtfoAppend(chain, o)[1] = Append(chain[1], o)
              /\ \A i \in 2 .. Len(chain) : PtfoAppend(chain, o)[i] = chain[i]
<1>1. CASE chain = <<>> \/ Len(Head(chain)) = cardinality
  <2>1. PtfoAppend(chain, o) = <<<<o>>>> \o chain
    BY <1>1 DEF PtfoAppend
  <2> DEFINE one == <<<<o>>>>
  <2>2. one \in Seq(Seq(Ops)) /\ Len(one) = 1 /\ one[1] = <<o>>
    OBVIOUS
  <2> HIDE DEF one
  <2>3. /\ Len(one \o chain) = 1 + Len(chain)
        /\ \A i \in 1 .. (1 + Len(chain)) :
              (one \o chain)[i] = IF i <= 1 THEN one[i] ELSE chain[i - 1]
    <3>1. /\ Len(one \o chain) = Len(one) + Len(chain)
          /\ \A i \in 1 .. (Len(one) + Len(chain)) :
                (one \o chain)[i] = IF i <= Len(one) THEN one[i] ELSE chain[i - Len(one)]
      BY <2>2, ConcatProperties, Zenon
    <3> QED
      BY <2>2, <3>1
  <2>4. Len(chain) \in Nat
    OBVIOUS
  <2>5. ASSUME NEW i \in 1 .. Len(chain) PROVE (one \o chain)[i + 1] = chain[i]
    <3>1. i + 1 \in 1 .. (1 + Len(chain)) /\ ~(i + 1 <= 1) /\ (i + 1) - 1 = i
      BY <2>4
    <3> QED
      BY <2>3, <3>1
  <2> QED
    BY <2>1, <2>2, <2>3, <2>4, <2>5 DEF one
<1>2. CASE ~(chain = <<>> \/ Len(Head(chain)) = cardinality)
  <2> DEFINE one == <<Append(Head(chain), o)>>
             rest == Tail(chain)
  <2>1. PtfoAppend(chain, o) = one \o rest
    BY <1>2 DEF PtfoAppend
  <2>2. /\ Head(chain) = chain[1] /\ chain[1] \in Seq(Ops) /\ Len(chain) >= 1
        /\ rest \in Seq(Seq(Ops)) /\ Len(rest) = Len(chain) - 1
        /\ \A i \in 2 .. Len(chain) : rest[i - 1] = chain[i]
    BY <1>2
  <2>3. one \in Seq(Seq(Ops)) /\ Len(one) = 1 /\ one[1] = Append(chain[1], o)
    <3>1. Append(Head(chain), o) \in Seq(Ops)
      BY <2>2
    <3> QED
      BY <2>2, <3>1
  <2> HIDE DEF one, rest
  <2>4. /\ Len(one \o rest) = 1 + Len(rest)
        /\ \A i \in 1 .. (1 + Len(rest)) :
              (one \o rest)[i] = IF i <= 1 THEN one[i] ELSE rest[i - 1]
    <3>1. /\ Len(one \o rest) = Len(one) + Len(rest)
          /\ \A i \in 1 .. (Len(one) + Len(rest)) :
                (one \o rest)[i] = IF i <= Len(one) THEN one[i] ELSE rest[i - Len(one)]
      BY <2>2, <2>3, ConcatProperties, Zenon
    <3> QED
      BY <2>2, <2>3, <3>1
  <2>5. Len(one \o rest) = Len(chain) /\ Len(chain) \in Nat
    BY <2>2, <2>4
  <2>6. ASSUME NEW i \in 2 .. Len(chain) PROVE (one \o rest)[i] = chain[i]
    <3>1. i \in 1 .. (1 + Len(rest)) /\ ~(i <= 1)
      BY <2>2, <2>5
    <3> QED
      BY <2>2, <2>4, <3>1
  <2>7. (one \o rest)[1] = Append(chain[1], o)
    <3>1. 1 \in 1 .. (1 + Len(rest)) /\ 1 <= 1
      BY <2>2, <2>5
    <3> QED
      BY <2>3, <2>4, <3>1
  <2> QED
    BY <1>2, <2>1, <2>2, <2>5, <2>6, <2>7
<1> QED
  BY <1>1, <1>2

\* Every position of the new chain is an old one or that of the operation.
LEMMA PtfoAppendAt ==
    ASSUME NEW chain \in Seq(Seq(Ops)), NEW o \in Ops
    PROVE  LET new == PtfoAppend(chain, o)
           IN  \E shift \in {0, 1} :
                 /\ Len(new) = Len(chain) + shift
                 /\ shift = 0 => Len(chain) >= 1 /\ Len(chain[1]) # cardinality
                 /\ new[1] = IF shift = 1 THEN <<o>> ELSE Append(chain[1], o)
                 /\ \A i \in 2 .. Len(new) :
                       i - shift \in 1 .. Len(chain) /\ new[i] = chain[i - shift]
<1> DEFINE new == PtfoAppend(chain, o)
<1>1. new \in Seq(Seq(Ops))
  BY PtfoAppendType
<1>2. CASE /\ Len(new) = Len(chain) + 1
           /\ new[1] = <<o>>
           /\ \A i \in 1 .. Len(chain) : new[i + 1] = chain[i]
  <2> HIDE DEF new
  <2>1. ASSUME NEW i \in 2 .. Len(new)
        PROVE  i - 1 \in 1 .. Len(chain) /\ new[i] = chain[i - 1]
    <3>1. i - 1 \in 1 .. Len(chain) /\ (i - 1) + 1 = i
      BY <1>1, <1>2
    <3> QED
      BY <1>2, <3>1
  <2> QED
    BY <1>2, <2>1 DEF new
<1>3. CASE /\ Len(new) = Len(chain)
           /\ Len(chain) >= 1
           /\ Len(chain[1]) # cardinality
           /\ new[1] = Append(chain[1], o)
           /\ \A i \in 2 .. Len(chain) : new[i] = chain[i]
  <2> HIDE DEF new
  <2>1. ASSUME NEW i \in 2 .. Len(new)
        PROVE  i - 0 \in 1 .. Len(chain) /\ new[i] = chain[i - 0]
    BY <1>1, <1>3
  <2> QED
    BY <1>3, <2>1 DEF new
<1> QED
  BY <1>2, <1>3, PtfoAppendShape

LEMMA AppendFits ==
    ASSUME NEW chain \in Seq(Seq(Ops)), NEW o \in Ops, FittingChain(chain)
    PROVE  FittingChain(PtfoAppend(chain, o))
<1> DEFINE new == PtfoAppend(chain, o)
<1>1. new \in Seq(Seq(Ops))
  BY PtfoAppendType
<1>2. PICK shift \in {0, 1} :
        /\ Len(new) = Len(chain) + shift
        /\ shift = 0 => Len(chain) >= 1 /\ Len(chain[1]) # cardinality
        /\ new[1] = IF shift = 1 THEN <<o>> ELSE Append(chain[1], o)
        /\ \A i \in 2 .. Len(new) :
              i - shift \in 1 .. Len(chain) /\ new[i] = chain[i - shift]
  BY PtfoAppendAt
<1> HIDE DEF new
<1> SUFFICES ASSUME NEW i \in DOMAIN new PROVE Len(new[i]) \in 1 .. cardinality
  BY DEF FittingChain, new
<1>3. CASE i = 1
  <2>1. CASE shift = 1
    <3>1. new[i] = <<o>> /\ Len(<<o>>) = 1
      BY <1>2, <1>3, <2>1
    <3>2. 1 \in 1 .. cardinality
      BY ConstantsAssumption
    <3> QED
      BY <3>1, <3>2
  <2>2. CASE shift = 0
    <3>1. chain[1] \in Seq(Ops) /\ Len(chain[1]) \in 1 .. cardinality
      BY <1>2, <2>2 DEF FittingChain
    <3>2. Len(Append(chain[1], o)) = Len(chain[1]) + 1
      BY <3>1
    <3> QED
      BY <1>2, <1>3, <2>2, <3>1, <3>2, ConstantsAssumption
  <2> QED
    BY <2>1, <2>2
<1>4. CASE i # 1
  <2>1. i \in 2 .. Len(new)
    BY <1>1, <1>4
  <2> QED
    BY <1>2, <2>1 DEF FittingChain
<1> QED
  BY <1>3, <1>4

\* o is at the end of new's head node, all others are where they were in
\* chain, counted from the tail.
Appended(chain, new, o, shift) ==
    \A i \in DOMAIN new : \A j \in DOMAIN new[i] :
        /\ i \in Nat \ {0} /\ j \in 1 .. Len(new[i]) /\ Len(new[i]) \in Nat
        /\ i = 1 /\ j = Len(new[1]) => new[i][j] = o
        /\ ~(i = 1 /\ j = Len(new[1])) =>
              /\ i - shift \in DOMAIN chain
              /\ j \in DOMAIN chain[i - shift]
              /\ new[i][j] = chain[i - shift][j]

\* The operations of the chain future_insert leaves.
LEMMA PtfoAppendOps ==
    ASSUME NEW chain \in Seq(Seq(Ops)), NEW o \in Ops
    PROVE  \E shift \in {0, 1} : Appended(chain, PtfoAppend(chain, o), o, shift)
<1> DEFINE new == PtfoAppend(chain, o)
<1>1. new \in Seq(Seq(Ops))
  BY PtfoAppendType
<1>2. PICK shift \in {0, 1} :
        /\ Len(new) = Len(chain) + shift
        /\ shift = 0 => Len(chain) >= 1 /\ Len(chain[1]) # cardinality
        /\ new[1] = IF shift = 1 THEN <<o>> ELSE Append(chain[1], o)
        /\ \A i \in 2 .. Len(new) :
              i - shift \in 1 .. Len(chain) /\ new[i] = chain[i - shift]
  BY PtfoAppendAt
<1> HIDE DEF new
<1>3. ASSUME NEW i \in DOMAIN new, NEW j \in DOMAIN new[i]
      PROVE  /\ i \in Nat \ {0} /\ j \in 1 .. Len(new[i]) /\ Len(new[i]) \in Nat
             /\ i = 1 /\ j = Len(new[1]) => new[i][j] = o
             /\ ~(i = 1 /\ j = Len(new[1])) =>
                   /\ i - shift \in DOMAIN chain
                   /\ j \in DOMAIN chain[i - shift]
                   /\ new[i][j] = chain[i - shift][j]
  <2>1. new[i] \in Seq(Ops) /\ i \in 1 .. Len(new)
    BY <1>1
  <2>2. i \in Nat \ {0} /\ j \in 1 .. Len(new[i]) /\ Len(new[i]) \in Nat
    BY <2>1
  <2>3. CASE i = 1 /\ shift = 1
    <3>1. new[i] = <<o>>
      BY <1>2, <2>3
    <3> QED
      BY <2>2, <2>3, <3>1
  <2>4. CASE i = 1 /\ shift = 0
    <3>1. new[i] = Append(chain[1], o) /\ chain[1] \in Seq(Ops) /\ 1 \in DOMAIN chain
      BY <1>2, <2>4
    <3>2. /\ Len(Append(chain[1], o)) = Len(chain[1]) + 1
          /\ Append(chain[1], o)[Len(chain[1]) + 1] = o
          /\ \A x \in 1 .. Len(chain[1]) : Append(chain[1], o)[x] = chain[1][x]
      BY <3>1
    <3>3. i - shift = 1 /\ DOMAIN chain[1] = 1 .. Len(chain[1]) /\ Len(chain[1]) \in Nat
      BY <2>4, <3>1
    <3>4. CASE j = Len(new[1])
      BY <2>2, <2>4, <3>1, <3>2, <3>4
    <3>5. CASE j # Len(new[1])
      <4>1. j \in 1 .. Len(chain[1])
        BY <2>2, <2>4, <3>1, <3>2, <3>3, <3>5
      <4> QED
        BY <2>2, <2>4, <3>1, <3>2, <3>3, <3>5, <4>1
    <3> QED
      BY <3>4, <3>5
  <2>5. CASE i # 1
    <3>1. i \in 2 .. Len(new)
      BY <2>1, <2>2, <2>5
    <3>2. i - shift \in 1 .. Len(chain) /\ new[i] = chain[i - shift]
      BY <1>2, <3>1
    <3> QED
      BY <2>2, <2>5, <3>2
  <2> QED
    BY <2>3, <2>4, <2>5
<1>4. Appended(chain, new, o, shift)
  BY <1>3 DEF Appended
<1> QED
  BY <1>2, <1>4 DEF new

LEMMA AppendOrdered ==
    ASSUME NEW chain \in Seq(Seq(Ops)), NEW o \in Ops, NEW limit \in Nat,
           OrderedChain(chain), BelowChain(chain, o.sequence), o.sequence < limit
    PROVE  /\ OrderedChain(PtfoAppend(chain, o))
           /\ BelowChain(PtfoAppend(chain, o), limit)
<1> DEFINE new == PtfoAppend(chain, o)
           Last(i, j) == i = 1 /\ j = Len(new[1])
<1> HIDE DEF new
<1>0. PICK shift \in {0, 1} : Appended(chain, new, o, shift)
  BY PtfoAppendOps DEF new
<1>1. \A i \in DOMAIN new : \A j \in DOMAIN new[i] :
            /\ i \in Nat \ {0} /\ j \in 1 .. Len(new[i]) /\ Len(new[i]) \in Nat
            /\ Last(i, j) => new[i][j] = o
            /\ ~Last(i, j) =>
                  /\ i - shift \in DOMAIN chain
                  /\ j \in DOMAIN chain[i - shift]
                  /\ new[i][j] = chain[i - shift][j]
  BY <1>0 DEF Appended
<1>2. \A i \in DOMAIN chain : \A j \in DOMAIN chain[i] : chain[i][j] \in Ops
  <2> TAKE i \in DOMAIN chain
  <2>1. chain[i] \in Seq(Ops)
    OBVIOUS
  <2> QED
    BY <2>1
<1>3. o.sequence \in Nat /\ \A x \in Ops : x.sequence \in Nat
  BY DEF Ops
<1>4. ASSUME NEW i \in DOMAIN new, NEW j \in DOMAIN new[i]
      PROVE  /\ new[i][j].sequence < limit
             /\ ~Last(i, j) => new[i][j].sequence < o.sequence
  <2>1. CASE Last(i, j)
    BY <1>1, <2>1
  <2>2. CASE ~Last(i, j)
    <3>1. new[i][j].sequence < o.sequence /\ new[i][j] \in Ops
      BY <1>1, <1>2, <2>2 DEF BelowChain
    <3>2. new[i][j].sequence \in Nat
      BY <1>3, <3>1
    <3> QED
      BY <1>3, <3>1, <3>2
  <2> QED
    BY <2>1, <2>2
<1>5. ASSUME NEW i \in DOMAIN new, NEW m \in DOMAIN new,
             NEW j \in DOMAIN new[i], NEW n \in DOMAIN new[m],
             i > m \/ (i = m /\ j < n)
      PROVE  new[i][j].sequence < new[m][n].sequence
  <2>1. /\ i \in Nat \ {0} /\ m \in Nat \ {0}
        /\ j \in 1 .. Len(new[i]) /\ Len(new[i]) \in Nat
        /\ n \in 1 .. Len(new[m]) /\ Len(new[m]) \in Nat
    BY <1>1
  <2>2. ~Last(i, j)
    BY <1>5, <2>1
  <2>3. CASE Last(m, n)
    <3>1. new[m][n] = o
      BY <1>1, <2>3
    <3> QED
      BY <1>4, <2>2, <3>1
  <2>4. CASE ~Last(m, n)
    <3>1. /\ i - shift \in DOMAIN chain /\ j \in DOMAIN chain[i - shift]
          /\ m - shift \in DOMAIN chain /\ n \in DOMAIN chain[m - shift]
          /\ new[i][j] = chain[i - shift][j] /\ new[m][n] = chain[m - shift][n]
      BY <1>1, <2>2, <2>4
    <3>2. i - shift > m - shift \/ (i - shift = m - shift /\ j < n)
      BY <1>5, <2>1
    <3>3. chain[i - shift][j].sequence < chain[m - shift][n].sequence
      BY <3>1, <3>2 DEF OrderedChain
    <3> QED
      BY <3>1, <3>3
  <2> QED
    BY <2>3, <2>4
<1> QED
  BY <1>4, <1>5 DEF OrderedChain, BelowChain, new

-----------------------------------------------------------------------------
\* A producer's operation in hand is newer than all that its chain holds,
\* whatever the other producers do to the counter.
ChainShape(p) ==
    /\ FittingChain(local_fut[p])
    /\ OrderedChain(local_fut[p])
    /\ BelowChain(local_fut[p], next_ptfo_sequence)
    /\ pc[p] = "sequenced" => /\ BelowChain(local_fut[p], cur[p].sequence)
                              /\ cur[p].sequence < next_ptfo_sequence

ShapeInv == \A p \in Producers : ChainShape(p)

LEMMA EmptyShape ==
    ASSUME NEW limit
    PROVE  FittingChain(<<>>) /\ OrderedChain(<<>>) /\ BelowChain(<<>>, limit)
BY DEF FittingChain, OrderedChain, BelowChain

LEMMA ShapeInit == Init => ShapeInv
BY EmptyShape DEF Init, ShapeInv, ChainShape

\* A limit may be raised.
LEMMA BelowMono ==
    ASSUME NEW chain \in Seq(Seq(Ops)), NEW a \in Nat, NEW b \in Nat, a <= b,
           BelowChain(chain, a)
    PROVE  BelowChain(chain, b)
<1> SUFFICES ASSUME NEW i \in DOMAIN chain, NEW j \in DOMAIN chain[i]
             PROVE  chain[i][j].sequence < b
  BY DEF BelowChain
<1>1. chain[i] \in Seq(Ops)
  OBVIOUS
<1>2. chain[i][j] \in Ops
  BY <1>1
<1>3. chain[i][j].sequence \in Nat
  BY <1>2 DEF Ops
<1> QED
  BY <1>3 DEF BelowChain

LEMMA ShapeStep == TypeInv /\ TypeInv' /\ ShapeInv /\ [Next]_vars => ShapeInv'
<1> SUFFICES ASSUME TypeInv, TypeInv', ShapeInv, [Next]_vars, NEW q \in Producers
             PROVE  ChainShape(q)'
  BY DEF ShapeInv
<1>1. /\ ChainShape(q)
      /\ local_fut[q] \in Seq(Seq(Ops))
      /\ next_ptfo_sequence \in Nat
  BY DEF ShapeInv, TypeInv, ChainsOK, WritersOK
<1>2. ASSUME local_fut'[q] = local_fut[q], next_ptfo_sequence' = next_ptfo_sequence,
             pc'[q] = "sequenced" => pc[q] = "sequenced" /\ cur'[q] = cur[q]
      PROVE  ChainShape(q)'
  BY <1>1, <1>2 DEF ChainShape
<1>3. ASSUME NEW p \in Producers, NEW k \in Keys, NEW d \in BOOLEAN, FetchSequence(p, k, d)
      PROVE  ChainShape(q)'
  <2>1. local_fut' = local_fut /\ next_ptfo_sequence' = next_ptfo_sequence + 1
    BY <1>3 DEF FetchSequence, ptfoVars
  <2>2. BelowChain(local_fut[q], next_ptfo_sequence')
    BY <1>1, <2>1, BelowMono DEF ChainShape
  <2>3. CASE p = q
    <3>1. cur'[q].sequence = next_ptfo_sequence
      BY <1>3, <2>3 DEF FetchSequence, TypeInv, WritersOK
    <3> QED
      BY <1>1, <2>1, <2>2, <3>1 DEF ChainShape
  <2>4. CASE p # q
    <3>1. pc'[q] = pc[q] /\ cur'[q] = cur[q]
      BY <1>3, <2>4 DEF FetchSequence, TypeInv, WritersOK
    <3>2. pc[q] = "sequenced" => cur[q].sequence \in Nat
      BY DEF TypeInv, WritersOK, Ops
    <3> QED
      BY <1>1, <2>1, <2>2, <3>1, <3>2 DEF ChainShape
  <2> QED
    BY <2>3, <2>4
<1>4. ASSUME NEW p \in Producers, future_insert(p) PROVE ChainShape(q)'
  <2>1. CASE p = q
    <3>1. cur[q] \in Ops /\ pc[q] = "sequenced"
      BY <1>4, <2>1 DEF future_insert, TypeInv, WritersOK
    <3>2. /\ local_fut'[q] = PtfoAppend(local_fut[q], cur[q])
          /\ next_ptfo_sequence' = next_ptfo_sequence
          /\ pc'[q] = "inserted"
      BY <1>4, <2>1 DEF future_insert, TypeInv, ChainsOK, WritersOK
    <3>3. FittingChain(local_fut'[q])
      BY <1>1, <3>1, <3>2, AppendFits DEF ChainShape
    <3>4. OrderedChain(local_fut'[q]) /\ BelowChain(local_fut'[q], next_ptfo_sequence)
      BY <1>1, <3>1, <3>2, AppendOrdered DEF ChainShape
    <3> QED
      BY <3>2, <3>3, <3>4 DEF ChainShape
  <2>2. CASE p # q
    BY <1>2, <1>4, <2>2 DEF future_insert, TypeInv, ChainsOK, WritersOK
  <2> QED
    BY <2>1, <2>2
<1>5. ASSUME NEW p \in Producers, Account(p) PROVE ChainShape(q)'
  BY <1>2, <1>5 DEF Account, TypeInv, WritersOK, ptfoVars
<1>6. CASE ClearAndRelease
  <2>1. CASE q \in drain.ids
    <3>1. /\ local_fut'[q] = <<>> /\ next_ptfo_sequence' = next_ptfo_sequence
          /\ pc' = pc /\ cur' = cur
      BY <1>6, <2>1 DEF ClearAndRelease, producerVars
    <3> QED
      BY <1>1, <3>1, EmptyShape DEF ChainShape
  <2>2. CASE q \notin drain.ids
    BY <1>2, <1>6, <2>2 DEF ClearAndRelease, producerVars
  <2> QED
    BY <2>1, <2>2
<1>7. ASSUME UNCHANGED <<producerVars, ptfoVars>> PROVE ChainShape(q)'
  BY <1>2, <1>7 DEF producerVars, ptfoVars
<1>8. ASSUME NEW k \in Keys, warmup_insert(k) PROVE ChainShape(q)'
  BY <1>7, <1>8 DEF warmup_insert
<1>9. CASE Read
  BY <1>7, <1>9 DEF Read, ContainsBegin, ContainsSkip, ContainsWalk, ContainsTree
<1>10. CASE UNCHANGED vars
  BY <1>7, <1>10 DEF vars
<1>11. CASE \/ drain_pending
            \/ \E w \in Workers : EvaluatorDrain(w)
            \/ \E p \in Producers : AcquirePtfoLock(p)
            \/ CollectLookupEntries
            \/ CollectOps
            \/ ReplayOp
            \/ FinishDrain
  BY <1>7, <1>11 DEF drain_pending, EvaluatorDrain, StartDrain, AcquirePtfoLock,
                     CollectLookupEntries, CollectOps, ReplayOp, FinishDrain
<1> QED
  BY <1>3, <1>4, <1>5, <1>6, <1>8, <1>9, <1>10, <1>11 DEF Next, Write, Drain

\* future_insert never writes past the arrays of a node and never leaves an
\* empty node in a chain (NodesFit).
THEOREM NodesAlwaysFit == Spec => []NodesFit
<1>1. ShapeInv => NodesFit
  BY DEF ShapeInv, ChainShape, FittingChain, NodesFit
<1> QED
  BY <1>1, TypeInit, TypeStep, ShapeInit, ShapeStep, PTL DEF Spec

\* From tail to head a chain is in the order of its sequence numbers
\* (ChainIsOrdered), although the numbers are drawn before the PTFO lock is
\* taken and the counter is shared with all other producers.
THEOREM ChainsAreOrdered == Spec => []ChainIsOrdered
<1>1. ShapeInv => ChainIsOrdered
  BY DEF ShapeInv, ChainShape, OrderedChain, ChainIsOrdered
<1> QED
  BY <1>1, TypeInit, TypeStep, ShapeInit, ShapeStep, PTL DEF Spec

-----------------------------------------------------------------------------
(* CountersAgree is inductive once it is known that a drain names          *)
(* producers that exist and that the per-node counters are a function on   *)
(* the nodes; what it needs is that sums behave (NatSetTheorems).          *)

AtNode(n) == {p \in Producers : HomeNode(p) = n}

SumsOK ==
    /\ pending_by_node \in [Nodes -> Nat]
    /\ pending = Total(entry_count, Producers)
    /\ \A n \in Nodes : pending_by_node[n] = Total(entry_count, AtNode(n))

\* Producers are finitely many and each has a home.
LEMMA HomesExist ==
    /\ IsFiniteSet(Producers)
    /\ \A n : AtNode(n) \subseteq Producers /\ IsFiniteSet(AtNode(n))
    /\ \A p \in Producers : HomeNode(p) \in Nodes /\ p \in AtNode(HomeNode(p))
<1>1. IsFiniteSet(Producers)
  BY ConstantsAssumption, FS_Interval DEF Producers
<1>2. ASSUME NEW p \in Producers PROVE HomeNode(p) \in Nodes
  BY ConstantsAssumption, ModFacts DEF HomeNode, home_node, Nodes, Producers
<1> QED
  BY <1>1, <1>2, FS_Subset DEF AtNode

\* All counters start at zero.
LEMMA SumsInit == Init => SumsOK
<1> SUFFICES ASSUME Init PROVE SumsOK
  OBVIOUS
<1>1. entry_count = [p \in Producers |-> 0]
  BY DEF Init
<1>2. ASSUME NEW S \in SUBSET Producers PROVE Total(entry_count, S) = 0
  <2>1. IsFiniteSet(S) /\ \A p \in S : entry_count[p] = 0
    BY <1>1, HomesExist, FS_Subset
  <2>2. Total(entry_count, S) = Total(entry_count, S) - Total(entry_count, S)
    BY <2>1, TotalClear
  <2>3. Total(entry_count, S) \in Nat
    BY <2>1, TotalSplit
  <2> QED
    BY <2>2, <2>3
<1>3. Total(entry_count, Producers) = 0 /\ \A n \in Nodes : Total(entry_count, AtNode(n)) = 0
  BY <1>2, HomesExist
<1> QED
  BY <1>3 DEF Init, SumsOK

\* One operation more, in total and at the home of its producer.
LEMMA SumsAccount ==
    ASSUME TypeInv, SumsOK, NEW p \in Producers, Account(p)
    PROVE  SumsOK'
<1>1. /\ entry_count \in [Producers -> Nat]
      /\ entry_count' = [entry_count EXCEPT ![p] = @ + 1]
      /\ pending' = pending + 1
      /\ pending_by_node' = [pending_by_node EXCEPT ![HomeNode(p)] = @ + 1]
  BY DEF Account, TypeInv, CountersOK
<1>2. ASSUME NEW S \in SUBSET Producers
      PROVE  Total(entry_count', S) = IF p \in S THEN Total(entry_count, S) + 1
                                      ELSE Total(entry_count, S)
  <2>1. IsFiniteSet(S) /\ \A x \in S : entry_count[x] \in Nat
    BY <1>1, HomesExist, FS_Subset
  <2>2. CASE p \in S
    <3>1. entry_count'[p] = entry_count[p] + 1 /\ \A x \in S \ {p} : entry_count'[x] = entry_count[x]
      BY <1>1, <2>2
    <3> QED
      BY <2>1, <2>2, <3>1, TotalIncrement
  <2>3. CASE p \notin S
    <3>1. \A x \in S : entry_count'[x] = entry_count[x]
      BY <1>1, <2>3
    <3> QED
      BY <2>1, <2>3, <3>1, TotalSame
  <2> QED
    BY <2>2, <2>3
<1>3. Total(entry_count', Producers) = pending'
  BY <1>1, <1>2 DEF SumsOK
<1>4. pending_by_node' \in [Nodes -> Nat]
  BY <1>1, HomesExist DEF SumsOK
<1>5. ASSUME NEW n \in Nodes PROVE pending_by_node'[n] = Total(entry_count', AtNode(n))
  <2>1. AtNode(n) \in SUBSET Producers /\ (p \in AtNode(n) <=> n = HomeNode(p))
    BY DEF AtNode
  <2> QED
    BY <1>1, <1>2, <2>1, HomesExist DEF SumsOK
<1> QED
  BY <1>3, <1>4, <1>5 DEF SumsOK, AtNode

\* What a drain takes off is what the drained producers had.
LEMMA SumsFinish ==
    ASSUME TypeInv, SumsOK, FinishDrain
    PROVE  SumsOK'
<1>1. /\ entry_count \in [Producers -> Nat]
      /\ entry_count' = [p \in Producers |-> IF p \in LockSet THEN 0 ELSE entry_count[p]]
      /\ drain.ids \in SUBSET Producers /\ drain.full \in BOOLEAN
  BY DEF FinishDrain, TypeInv, CountersOK, DrainOK, DrainStates
<1>2. LockSet \in SUBSET Producers
  BY <1>1 DEF LockSet
<1>3. \A S : EntriesOf(S) = Total(entry_count, S)
  BY DEF EntriesOf, Total
<1>4. ASSUME NEW S \in SUBSET Producers
      PROVE  /\ Total(entry_count', S) = Total(entry_count, S) - Total(entry_count, LockSet \cap S)
             /\ Total(entry_count', S) \in Nat /\ Total(entry_count, S) \in Nat
  <2>1. IsFiniteSet(S) /\ \A x \in S : entry_count[x] \in Nat /\ entry_count'[x] \in Nat
    BY <1>1, HomesExist, FS_Subset
  <2>2. \A x \in S : entry_count'[x] = IF x \in LockSet \cap S THEN 0 ELSE entry_count[x]
    BY <1>1
  <2> QED
    BY <2>1, <2>2, TotalClear, TotalSplit
<1>5. ASSUME NEW S \in SUBSET Producers
      PROVE  Total(entry_count', S) = IF drain.full THEN 0
                 ELSE Total(entry_count, S) - EntriesOf(drain.ids \cap S)
  <2>1. CASE drain.full
    <3>1. LockSet \cap S = S
      BY <2>1 DEF LockSet
    <3> QED
      BY <1>4, <2>1, <3>1
  <2>2. CASE ~drain.full
    <3>1. LockSet = drain.ids
      BY <2>2 DEF LockSet
    <3> QED
      BY <1>3, <1>4, <2>2, <3>1
  <2> QED
    BY <2>1, <2>2
<1>6. drain.ids \cap Producers = drain.ids
  BY <1>1
<1>7. \A n : drain.ids \cap AtNode(n) = {p \in drain.ids : HomeNode(p) = n}
  BY <1>1 DEF AtNode
<1>8. pending' = Total(entry_count', Producers)
  BY <1>5, <1>6 DEF FinishDrain, SumsOK
<1>9. ASSUME NEW n \in Nodes
      PROVE  pending_by_node'[n] = Total(entry_count', AtNode(n)) /\ pending_by_node'[n] \in Nat
  <2>1. AtNode(n) \in SUBSET Producers
    BY DEF AtNode
  <2>2. pending_by_node'[n] = IF drain.full THEN 0
            ELSE Total(entry_count, AtNode(n)) - EntriesOf(drain.ids \cap AtNode(n))
    BY <1>7 DEF FinishDrain, SumsOK
  <2> QED
    BY <1>4, <1>5, <2>1, <2>2
<1>10. pending_by_node' \in [Nodes -> Nat]
  BY <1>9 DEF FinishDrain
<1> QED
  BY <1>8, <1>9, <1>10 DEF SumsOK, AtNode

\* No other step touches the counters.
LEMMA SumsStep == TypeInv /\ SumsOK /\ [Next]_vars => SumsOK'
<1> SUFFICES ASSUME TypeInv, SumsOK, [Next]_vars PROVE SumsOK'
  OBVIOUS
<1>1. CASE UNCHANGED counterVars
  BY <1>1 DEF SumsOK, AtNode, counterVars
<1>2. ASSUME NEW p \in Producers, Account(p) PROVE SumsOK'
  BY <1>2, SumsAccount
<1>3. CASE FinishDrain
  BY <1>3, SumsFinish
<1>4. CASE \E p \in Producers :
              \/ \E k \in Keys, d \in BOOLEAN : FetchSequence(p, k, d)
              \/ future_insert(p)
  BY <1>1, <1>4 DEF FetchSequence, future_insert
<1>5. CASE Drain /\ ~FinishDrain
  BY <1>1, <1>5 DEF Drain, drain_pending, EvaluatorDrain, StartDrain, AcquirePtfoLock,
              CollectLookupEntries, CollectOps, ReplayOp, ClearAndRelease
<1>6. CASE Read
  BY <1>1, <1>6 DEF Read, ContainsBegin, ContainsSkip, ContainsWalk, ContainsTree
<1>7. ASSUME NEW k \in Keys, warmup_insert(k) PROVE SumsOK'
  BY <1>1, <1>7 DEF warmup_insert
<1>8. CASE UNCHANGED vars
  BY <1>1, <1>8 DEF vars
<1> QED
  BY <1>2, <1>3, <1>4, <1>5, <1>6, <1>7, <1>8 DEF Next, Write

\* The shared counters are never out of step (CountersAgree): after any
\* interleaving of accounting and of full and partial drains,
\* pending_operation_count and its split by home node are the sums of the
\* producers' entry counts; so subtract_pending_counts_locked never takes
\* more off than is there and the unsigned counters never wrap.
THEOREM CountersAlwaysAgree == Spec => []CountersAgree
<1>1. SumsOK => CountersAgree
  BY DEF SumsOK, CountersAgree, Total, AtNode
<1> QED
  BY <1>1, TypeInit, TypeStep, SumsInit, SumsStep, PTL DEF Spec

=============================================================================

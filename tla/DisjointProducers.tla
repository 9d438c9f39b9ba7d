-------------------------- MODULE DisjointProducers --------------------------
(***************************************************************************)
(* FutureBTree under the contract of F3-K (src/include/f3tree/config.h):   *)
(* no key has two producers.  A producer inserts only keys it has not in   *)
(* the index, as every insert adds a record to the tree.  One history      *)
(* variable, seen, records what a reader may answer; with it the tree is   *)
(* shown to implement AtomicIndex.                                         *)
(***************************************************************************)
EXTENDS FutureBTree

\* What a deployment has to give: keys that are not shared, a policy that
\* replays each chain in full and in order (F3-N leaves out what a directory
\* no longer names), and hash_capacity slots for all keys of a producer, as
\* a full hashtable forgets one for another.
ASSUME DisjointAssumption ==
    /\ \A p, q \in Producers : p # q => KeysOf[p] \cap KeysOf[q] = {}
    /\ Policy # "F3N"
    /\ \A p \in Producers : /\ IsFiniteSet(KeysOf[p])
                            /\ Cardinality(KeysOf[p]) <= HashCapacity
    /\ NoOp \notin Keys

VARIABLE seen  \* per reader, whether its key was in the index since its call

dvars == <<vars, seen>>

Reading(r) == reader[r].phase \in {"scan", "tree"}

Saw(k, present) ==
    [r \in Readers |-> IF Reading(r) /\ reader[r].key = k
                       THEN seen[r] \cup {present}
                       ELSE seen[r]]

DInit == Init /\ seen = [r \in Readers |-> {}]

DWrite ==
    \/ \E k \in Keys : warmup_insert(k) /\ seen' = Saw(k, TRUE)
    \/ \E p \in Producers, k \in Keys, d \in BOOLEAN :
          /\ d \/ ~View(k)
          /\ FetchSequence(p, k, d)
          /\ UNCHANGED seen
    \/ \E p \in Producers :
          /\ future_insert(p)
          /\ seen' = Saw(cur[p].key, ~cur[p].is_delete)
    \/ \E p \in Producers : Account(p) /\ UNCHANGED seen

DRead == \E r \in Readers :
    \/ \E k \in Keys : /\ ContainsBegin(r, k)
                       /\ seen' = [seen EXCEPT ![r] = {View(k)}]
    \/ /\ ContainsSkip(r) \/ ContainsWalk(r) \/ ContainsTree(r)
       /\ seen' = [seen EXCEPT ![r] = IF Reading(r)' THEN @ ELSE {}]

DNext == DWrite \/ (Drain /\ UNCHANGED seen) \/ DRead

DSpec == DInit /\ [][DNext]_dvars

-----------------------------------------------------------------------------
\* A write takes effect when future_insert has put it in the chain; what the
\* index holds is what contains would answer; a read is under way until it
\* returns.
Index == INSTANCE AtomicIndex WITH
    NoKey    <- NoOp,
    contents <- {k \in Keys : View(k)},
    reads    <- [r \in Readers |-> [key    |-> IF Reading(r) THEN reader[r].key ELSE NoOp,
                                    seen   |-> seen[r],
                                    answer |-> reader[r].result]]

\* With disjoint producers the F3-tree implements an atomic index: a write is
\* visible to all from the moment it is in its producer's chain, no step of
\* any drain changes what is visible, and contains answers with the truth of
\* some instant of its call even if drains move the key under its feet.
ImplementsAtomicIndex == Index!Spec

=============================================================================

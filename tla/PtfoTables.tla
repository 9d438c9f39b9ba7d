------------------------------ MODULE PtfoTables ------------------------------
(***************************************************************************)
(* One producer's two open-addressing tables, slot by slot: HashMapTable   *)
(* (src/core/hash.h), the lock-free filter in front of the chain, and its  *)
(* lookup directory (future_lookup_index of src/core/btree.h).             *)
(*                                                                         *)
(* The producer writes both inside future_insert, under ptfo_mu.  Readers  *)
(* call SearchKey without a lock, so a search is one step per slot it      *)
(* reads and one more for its re-read of the slot where the loop ended.    *)
(***************************************************************************)
EXTENDS Integers, FiniteSets, FiniteSetsExt

CONSTANTS
    TableKeys,      \* the keys clients use: integers, negative ones too
    Capacity,       \* config.hash_capacity: slots of each table
    MaxSequence     \* bound: operations issued

ASSUME TablesAssumption ==
    /\ TableKeys \in SUBSET Int
    /\ Capacity \in Nat \ {0}
    /\ MaxSequence \in Nat

VARIABLES
    ht,         \* the hashtable's slots
    dir,        \* the directory's slots
    buffered,   \* latest operation of each key in the chain
    issued,     \* operations issued
    overflowed, \* an insert has found the hashtable full of other keys
    search      \* the reader

tableVars == <<ht, dir, buffered, issued, overflowed, search>>

NULL    == [tag |-> "null"]
DelNode == [tag |-> "del"]
Entry(k) == [tag |-> "entry", k |-> k]

Slots == 0 .. (Capacity - 1)

Abs(n) == IF n < 0 THEN -n ELSE n

-----------------------------------------------------------------------------
(* HashMapTable *)

HashFunc(k) == Abs(k) % Capacity

\* The i-th slot (from 0) on the probe path of k.
Probe(k, i) == (HashFunc(k) + i) % Capacity

\* Where a probe for k stops: at a free slot or at k's own.
StopsAt(k, i) == ht[Probe(k, i)] \in {NULL, Entry(k)}

Stops(k) == {i \in Slots : StopsAt(k, i)}

\* Tombstones a probe for k passes before it stops; Insert takes the last.
Passed(k) == {i \in Slots : /\ ht[Probe(k, i)] = DelNode
                            /\ \A j \in Stops(k) : i < j}

\* The slot Insert writes: k's own, else the last tombstone passed, else the
\* free slot, else (a full circle) the slot k hashes to, whoever is there.
InsertSlot(k) ==
    CASE \E i \in Slots : ht[Probe(k, i)] = Entry(k) ->
             Probe(k, CHOOSE i \in Slots : ht[Probe(k, i)] = Entry(k))
      [] OTHER ->
             IF Passed(k) # {} THEN Probe(k, Max(Passed(k)))
             ELSE IF Stops(k) # {} THEN Probe(k, Min(Stops(k)))
             ELSE HashFunc(k)

Insert(k) == [ht EXCEPT ![InsertSlot(k)] = Entry(k)]

\* Mutation: the slot is freed rather than marked.
Remove_Frees(k) ==
    [s \in Slots |-> IF ht[s] = Entry(k) THEN NULL ELSE ht[s]]

\* Remove leaves a tombstone so that later probes pass the slot.
Remove(k) ==
    IF Stops(k) # {} /\ ht[Probe(k, Min(Stops(k)))] = Entry(k)
    THEN [ht EXCEPT ![Probe(k, Min(Stops(k)))] = DelNode]
    ELSE ht

\* SearchKey with nobody writing meanwhile: does it find k?
SearchKey(k) == Stops(k) # {} /\ ht[Probe(k, Min(Stops(k)))] = Entry(k)

-----------------------------------------------------------------------------
(* The lookup directory *)

Free == [occupied |-> FALSE]

DirProbe(k, i) == (((k % Capacity) + Capacity) + i) % Capacity

\* Of a slot's fields, those that tell two operations apart: the key and the
\* sequence number (owner, state and occupied are set beside them).

\* Mutation: the slot the key hashes to is the only one looked at.
future_lookup_index_NoProbe(k, allocate_slot) ==
    LET slot == DirProbe(k, 0)
    IN  IF dir[slot].occupied
        THEN IF dir[slot].key = k THEN slot ELSE Capacity
        ELSE IF allocate_slot THEN slot ELSE Capacity

\* The slot of k, or (allocating) the free slot its probe meets first, or
\* Capacity, which is dir.size(): not found, or full.
future_lookup_index(k, allocate_slot) ==
    LET ends == {i \in Slots : \/ ~dir[DirProbe(k, i)].occupied
                               \/ dir[DirProbe(k, i)].key = k}
        slot == DirProbe(k, Min(ends))
    IN  IF ends # {} /\ (dir[slot].occupied \/ allocate_slot) THEN slot ELSE Capacity

\* Mutation: a full directory overwrites the slot the key hashes to.
DirectoryUpsert_Overwrites(k, seq) ==
    LET slot == future_lookup_index(k, TRUE)
    IN  [dir EXCEPT ![IF slot = Capacity THEN DirProbe(k, 0) ELSE slot] =
            [occupied |-> TRUE, key |-> k, sequence |-> seq]]

DirectoryUpsert(k, seq) ==
    LET slot == future_lookup_index(k, TRUE)
    IN  IF slot = Capacity THEN dir
        ELSE [dir EXCEPT ![slot] = [occupied |-> TRUE, key |-> k, sequence |-> seq]]

\* future_lookup_state of one producer: its entry for k, if it has one.
future_lookup_state(k) ==
    LET slot == future_lookup_index(k, FALSE)
    IN  IF slot = Capacity THEN {} ELSE {dir[slot]}

-----------------------------------------------------------------------------
NoSearch == [phase |-> "idle", key |-> 0, at |-> 0, missing |-> FALSE]

TablesInit ==
    /\ ht = [s \in Slots |-> NULL]
    /\ dir = [s \in Slots |-> Free]
    /\ buffered = {}
    /\ issued = 0
    /\ overflowed = FALSE
    /\ search = NoSearch

\* The search remembers whether its key has been out of the table meanwhile.
Watch == search' = [search EXCEPT !.missing =
                       @ \/ (search.phase # "idle"
                             /\ \A s \in Slots : ht'[s] # Entry(search.key))]

future_insert(k) ==
    LET seq == issued + 1
    IN  /\ issued < MaxSequence
        /\ issued' = seq
        /\ overflowed' = (overflowed \/ (Stops(k) = {} /\ Passed(k) = {}))
        /\ ht' = Insert(k)
        /\ dir' = DirectoryUpsert(k, seq)
        /\ buffered' = {b \in buffered : b.key # k} \cup
                       {[key |-> k, sequence |-> seq]}
        /\ Watch

\* A drain empties the chain and the directory; the hashtable keeps its keys.
future_clear_lookup_state_for_threads ==
    /\ buffered # {}
    /\ buffered' = {}
    /\ dir' = [s \in Slots |-> Free]
    /\ UNCHANGED <<ht, issued, overflowed, search>>

\* No caller of Remove runs beside a search (it frees the entry first).
RemoveKey(k) ==
    /\ search.phase = "idle"
    /\ ht' = Remove(k)
    /\ ht' # ht
    /\ \A b \in buffered : b.key # k
    /\ UNCHANGED <<dir, buffered, issued, overflowed, search>>

StartSearch(k) ==
    /\ search.phase = "idle"
    /\ search' = [phase |-> "probe", key |-> k, at |-> 0, missing |-> ~SearchKey(k)]
    /\ UNCHANGED <<ht, dir, buffered, issued, overflowed>>

\* Mutation: a tombstone ends the probe.
ReadSlot_StopsAtTombstone ==
    /\ search.phase = "probe"
    /\ search' = IF \/ StopsAt(search.key, search.at)
                    \/ ht[Probe(search.key, search.at)] = DelNode
                 THEN [search EXCEPT !.phase = "reread"]
                 ELSE IF search.at = Capacity - 1
                 THEN [search EXCEPT !.phase = "miss"]
                 ELSE [search EXCEPT !.at = @ + 1]
    /\ UNCHANGED <<ht, dir, buffered, issued, overflowed>>

\* One round of SearchKey's loop; after a full circle the answer is -1.
ReadSlot ==
    /\ search.phase = "probe"
    /\ search' = IF StopsAt(search.key, search.at)
                 THEN [search EXCEPT !.phase = "reread"]
                 ELSE IF search.at = Capacity - 1
                 THEN [search EXCEPT !.phase = "miss"]
                 ELSE [search EXCEPT !.at = @ + 1]
    /\ UNCHANGED <<ht, dir, buffered, issued, overflowed>>

\* After the loop the slot is read again: a writer may have filled it.
Reread ==
    /\ search.phase = "reread"
    /\ search' = [search EXCEPT !.phase =
                     IF ht[Probe(search.key, search.at)] \in {NULL, DelNode}
                     THEN "miss" ELSE "hit"]
    /\ UNCHANGED <<ht, dir, buffered, issued, overflowed>>

EndSearch ==
    /\ search.phase \in {"hit", "miss"}
    /\ search' = NoSearch
    /\ UNCHANGED <<ht, dir, buffered, issued, overflowed>>

TablesNext ==
    \/ \E k \in TableKeys : future_insert(k)
    \/ future_clear_lookup_state_for_threads
    \/ \E k \in TableKeys : RemoveKey(k)
    \/ \E k \in TableKeys : StartSearch(k)
    \/ ReadSlot
    \/ Reread
    \/ EndSearch

-----------------------------------------------------------------------------
(* Properties *)

\* What the hashtable answers for and what the directory holds.
found  == {k \in TableKeys : SearchKey(k)}
latest == {[key |-> e.key, sequence |-> e.sequence] :
               e \in UNION {future_lookup_state(k) : k \in TableKeys}}

Tables == INSTANCE BoundedTables WITH Keys <- TableKeys, Sequences <- 1 .. MaxSequence

\* Probing, tombstones and overwriting implement the bounded set and the
\* bounded map FutureBTree is modelled with: no insert makes another key
\* unreachable unless the table is full, and no key is found twice.
ImplementsBoundedTables == Tables!Init /\ [][Tables!Next]_<<found, latest>>

\* SearchKey, running without a lock beside Insert, answers -1 only for a
\* key that was not in the table at some moment of the search: the filter
\* never hides a key that was there all along.
NoFalseMiss == search.phase = "miss" => search.missing

\* The filter covers the chain: while no insert has met a full table, the
\* key of every buffered operation is found.
FilterCoversChain == overflowed \/ \A b \in buffered : SearchKey(b.key)

\* An operation of the chain is left out of the directory only when the
\* directory is full of other keys; otherwise the directory names the latest
\* operation of each buffered key.
DirectoryNamesLatest ==
    \A b \in buffered :
        b \in latest \/ (Cardinality(latest) = Capacity /\ \A e \in latest : e.key # b.key)
=============================================================================

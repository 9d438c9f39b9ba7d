-------------------------- MODULE BufferedHashIndex --------------------------
(***************************************************************************)
(* src/src/buffered_hash_index.cpp: the stand-alone index of the hash      *)
(* benchmark, an open-addressing table whose cleared entries stay on their *)
(* probe paths.  Its one user gives it as many slots as it has keys, and   *)
(* so does this model (find_or_allocate_slot of a full table returns an    *)
(* index past the end).                                                    *)
(***************************************************************************)
EXTENDS Integers, FiniteSets, FiniteSetsExt

CONSTANTS
    IndexKeys,      \* the benchmark's keys
    Owners,         \* producer ids
    MaxUpdates      \* bound: upserts and erases between two clears

ASSUME IndexAssumption ==
    /\ IndexKeys \in SUBSET Int
    /\ IsFiniteSet(IndexKeys)
    /\ MaxUpdates \in Nat

VARIABLES
    slots_,
    size_,
    next_sequence_,
    model           \* reference: what each key was last set to

indexVars == <<slots_, size_, next_sequence_, model>>

Size  == Cardinality(IndexKeys)
Index == 0 .. (Size - 1)

EmptySlot == [occupied |-> FALSE, key |-> 0, owner |-> -1,
              state |-> "absent", sequence |-> 0]
Unset     == [owner |-> -1, state |-> "absent", sequence |-> 0]

normalize(key) == ((key % Size) + Size) % Size

At(key, i) == slots_[(normalize(key) + i) % Size]

\* Slots a probe for key visits up to the first that is not occupied.
find_slot(key) ==
    LET hits == {i \in Index : /\ At(key, i).occupied
                               /\ At(key, i).key = key
                               /\ \A j \in 0 .. i : At(key, j).occupied}
    IN  IF hits = {} THEN Size ELSE (normalize(key) + Min(hits)) % Size

find_or_allocate_slot(key) ==
    LET free == {i \in Index : ~At(key, i).occupied}
    IN  IF find_slot(key) # Size THEN find_slot(key)
        ELSE IF free = {} THEN Size
        ELSE (normalize(key) + Min(free)) % Size

state_for(key) ==
    IF find_slot(key) = Size THEN "absent" ELSE slots_[find_slot(key)].state

contains(key) == state_for(key) = "present"

has_entry(key) == state_for(key) # "absent"

owner_for(key) ==
    IF ~has_entry(key) THEN -1 ELSE slots_[find_slot(key)].owner

entries == {[key |-> s.key, owner |-> s.owner, state |-> s.state, sequence |-> s.sequence] :
               s \in {slots_[i] : i \in {j \in Index : /\ slots_[j].occupied
                                                       /\ slots_[j].state # "absent"}}}

-----------------------------------------------------------------------------
IndexInit ==
    /\ slots_ = [i \in Index |-> EmptySlot]
    /\ size_ = 0
    /\ next_sequence_ = 1
    /\ model = [k \in IndexKeys |-> Unset]

\* What upsert and erase share.
Set(key, owner, state) ==
    LET index == find_or_allocate_slot(key)
        was_new == ~slots_[index].occupied \/ slots_[index].state = "absent"
    IN  /\ next_sequence_ <= MaxUpdates
        /\ slots_' = [slots_ EXCEPT ![index] =
                         [occupied |-> TRUE, key |-> key, owner |-> owner,
                          state |-> state, sequence |-> next_sequence_]]
        /\ next_sequence_' = next_sequence_ + 1
        /\ size_' = IF was_new THEN size_ + 1 ELSE size_
        /\ model' = [model EXCEPT ![key] = [owner |-> owner, state |-> state,
                                            sequence |-> next_sequence_]]

upsert(key, owner) == Set(key, owner, "present")

erase(key, owner) == Set(key, owner, "tombstone")

\* Mutation: the slot is given back.
clear_entry_Frees(key) ==
    /\ has_entry(key)
    /\ slots_' = [slots_ EXCEPT ![find_slot(key)] = EmptySlot]
    /\ size_' = size_ - 1
    /\ model' = [model EXCEPT ![key] = Unset]
    /\ UNCHANGED next_sequence_

\* The slot keeps its key, so probes still pass it.
clear_entry(key) ==
    /\ has_entry(key)
    /\ slots_' = [slots_ EXCEPT ![find_slot(key)] =
                     [@ EXCEPT !.owner = -1, !.state = "absent", !.sequence = 0]]
    /\ size_' = IF size_ > 0 THEN size_ - 1 ELSE 0
    /\ model' = [model EXCEPT ![key] = Unset]
    /\ UNCHANGED next_sequence_

clear == next_sequence_ > 1 /\ slots_' = [i \in Index |-> EmptySlot]
         /\ size_' = 0 /\ next_sequence_' = 1 /\ model' = [k \in IndexKeys |-> Unset]

IndexNext ==
    \/ \E key \in IndexKeys, owner \in Owners : upsert(key, owner) \/ erase(key, owner)
    \/ \E key \in IndexKeys : clear_entry(key)
    \/ clear

-----------------------------------------------------------------------------
\* The index answers every query as a plain map from keys to their last
\* update would, through any sequence of updates, clears of single entries
\* and probe collisions; its size is the number of keys the map has.
IndexIsMap ==
    /\ \A k \in IndexKeys : /\ has_entry(k) = (model[k].state # "absent")
                            /\ contains(k) = (model[k].state = "present")
                            /\ owner_for(k) = model[k].owner
    /\ entries = {[key |-> k, owner |-> model[k].owner, state |-> model[k].state,
                   sequence |-> model[k].sequence] :
                      k \in {x \in IndexKeys : model[x].state # "absent"}}
    /\ size_ = Cardinality(entries)
=============================================================================

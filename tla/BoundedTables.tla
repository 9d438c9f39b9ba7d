---------------------------- MODULE BoundedTables ----------------------------
(***************************************************************************)
(* What FutureBTree takes a producer's hashtable and lookup directory to   *)
(* be: a set of keys of bounded size that evicts a key when it overflows,  *)
(* and a map of bounded size that leaves the newcomer out.                 *)
(***************************************************************************)
EXTENDS Naturals, FiniteSets

CONSTANTS Keys, Capacity, Sequences

VARIABLES
    found,      \* the keys the hashtable answers for
    latest      \* the directory's entries, one per key

Bounded(S) == Cardinality(S) < Capacity

InsertKey(k) ==
    IF k \in found \/ Bounded(found)
    THEN found' = found \cup {k}
    ELSE \E victim \in found : found' = (found \ {victim}) \cup {k}

Upsert(k, op) ==
    IF (\E e \in latest : e.key = k) \/ Bounded(latest)
    THEN latest' = {e \in latest : e.key # k} \cup {op}
    ELSE latest' = latest

Init == found = {} /\ latest = {}

Next == \/ \E k \in Keys : /\ InsertKey(k)
                           /\ \E n \in Sequences : Upsert(k, [key |-> k, sequence |-> n])
        \/ \E k \in found : found' = found \ {k} /\ UNCHANGED latest
        \/ latest' = {} /\ UNCHANGED found

Spec == Init /\ [][Next]_<<found, latest>>
=============================================================================

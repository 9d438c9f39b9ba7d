----------------------------- MODULE AtomicIndex -----------------------------
(***************************************************************************)
(* What an index promises its clients: a set of keys that each write       *)
(* changes at one instant, and reads that take time but answer with what   *)
(* the set held at some instant between their call and their return.       *)
(* Nothing here knows of buffers, drains or evaluators.                    *)
(***************************************************************************)
CONSTANTS Keys, Readers, NoKey

VARIABLES
    contents,  \* the keys in the index
    reads      \* per reader: its key, what it may answer, its last answer

NotReading(answer) == [key |-> NoKey, seen |-> {}, answer |-> answer]

Init ==
    /\ contents = {}
    /\ reads = [r \in Readers |-> NotReading(FALSE)]

\* k is inserted (present) or erased; readers of k under way may see it.
Write(k, present) ==
    /\ contents' = IF present THEN contents \cup {k} ELSE contents \ {k}
    /\ reads' = [r \in Readers |-> IF reads[r].key = k
                                   THEN [reads[r] EXCEPT !.seen = @ \cup {present}]
                                   ELSE reads[r]]

BeginRead(r, k) ==
    /\ reads[r].key = NoKey
    /\ reads' = [reads EXCEPT ![r] = [key |-> k, seen |-> {(k \in contents)}, answer |-> FALSE]]
    /\ UNCHANGED contents

EndRead(r) ==
    /\ \E answer \in reads[r].seen : reads' = [reads EXCEPT ![r] = NotReading(answer)]
    /\ UNCHANGED contents

Next ==
    \/ \E k \in Keys, present \in BOOLEAN : Write(k, present)
    \/ \E r \in Readers : EndRead(r) \/ \E k \in Keys : BeginRead(r, k)

Spec == Init /\ [][Next]_<<contents, reads>>

=============================================================================

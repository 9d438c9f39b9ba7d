------------------------------ MODULE F3TreeDB ------------------------------
(***************************************************************************)
(* The F3-tree adapter (src/YCSB-cpp/f3tree/f3tree_db.cc).  Its calls of   *)
(* the tree are requests to an atomic index.  That is an idealisation:     *)
(* FutureBTree implements one for F3-K and producers with keys of their    *)
(* own, while the adapter's default is F3-N and YCSB's clients share the   *)
(* keys.  Only opening, closing and the producer ids are checked through   *)
(* this module; no property is about what a read of the tree returns.  In  *)
(* DRAM (no persistent_path) the tree is gone when it is deleted.          *)
(***************************************************************************)
EXTENDS LibraryRequests

\* StringToKey of a decimal key: halved, so that it fits an int64, plus 1.
StringToKey(k) == (k \div 2) + 1

\* What the index holds for a key: that it exists.
Present == << <<"value", 0>> >>

\* BuildConfig: one producer per YCSB thread.
BuildConfig(threads) == [producer_threads |-> threads]

\* Client c has the producer id from now on.
Assign(ids, c, id) == [x \in DOMAIN ids \cup {c} |-> IF x = c THEN id ELSE ids[x]]

\* Mutation: the number of live clients as the producer id.
Init_CountAsId(s, c) ==
    LET t == IF s.handle = "open" THEN s
             ELSE [s EXCEPT !.handle = "open", !.table = [k \in DOMAIN @ |-> << >>]]
    IN  [t EXCEPT !.ids = Assign(@, c, t.ref_cnt), !.next_id = @ + 1, !.ref_cnt = @ + 1]

\* Init: the first client creates the tree; each takes the next producer id.
Init(s, c) ==
    LET t == IF s.handle = "open" THEN s
             ELSE [s EXCEPT !.handle = "open", !.table = [k \in DOMAIN @ |-> << >>]]
    IN  [t EXCEPT !.ids = Assign(@, c, t.next_id), !.next_id = @ + 1, !.ref_cnt = @ + 1]

\* Cleanup: the last client drains and deletes the tree; ids start again.
Cleanup(s, c) ==
    LET t == [s EXCEPT !.ref_cnt = @ - 1,
                       !.ids = [x \in DOMAIN @ \ {c} |-> @[x]]]
    IN  IF t.ref_cnt # 0 THEN t ELSE [Close(t, "null") EXCEPT !.next_id = 0]

\* contains.
Read(k, fields) == << Fetch(StringToKey(k), << >>) >>

\* scan_range.
Scan(k, len, fields) == << Iterate(StringToKey(k), len, << >>) >>

\* Update: "re-insert suffices for update semantics".
Update(k, values) == << Put(StringToKey(k), Present) >>

Insert(k, values) == << Put(StringToKey(k), Present) >>
=============================================================================

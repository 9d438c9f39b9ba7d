------------------------------- MODULE LmdbDB -------------------------------
(***************************************************************************)
(* The LMDB adapter (src/YCSB-cpp/lmdb/lmdb_db.cc).  LMDB lets one write   *)
(* transaction in at a time; a read transaction works on a snapshot.       *)
(***************************************************************************)
EXTENDS LibraryRequests

\* Init: the first client creates and opens the environment.
Init(s, c) == [s EXCEPT !.ref_cnt = @ + 1, !.handle = IF s.ref_cnt = 0 THEN "open" ELSE @]

\* Cleanup: the last client closes it.
Cleanup(s, c) ==
    LET t == [s EXCEPT !.ref_cnt = @ - 1]
    IN  IF t.ref_cnt # 0 THEN t ELSE Close(t, "deleted")

Read(k, fields) == << Fetch(k, fields) >>

\* The cursor runs in a write transaction that is aborted in the end.
Scan(k, len, fields) == << BeginWrite, Iterate(k, len, fields), EndWrite >>

\* Mutation: the row is read before the write transaction begins.
Update_ReadFirst(k, values) == << Get(k, "throw"), BeginWrite, PutCurrent(k, values), EndWrite >>

\* Get and put in one write transaction.
Update(k, values) == << BeginWrite, Get(k, "throw"), PutCurrent(k, values), EndWrite >>

Insert(k, values) == << BeginWrite, Put(k, values), EndWrite >>
=============================================================================

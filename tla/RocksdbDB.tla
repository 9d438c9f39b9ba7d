------------------------------ MODULE RocksdbDB ------------------------------
(***************************************************************************)
(* The RocksDB adapter (src/YCSB-cpp/rocksdb/rocksdb_db.cc).               *)
(***************************************************************************)
EXTENDS LibraryRequests

\* Init: the first client opens, the others find db_ set.
Init(s, c) ==
    LET t == [s EXCEPT !.ref_cnt = @ + 1]
    IN  IF t.handle # "null" THEN t ELSE [t EXCEPT !.handle = "open"]

\* Cleanup: the last client gives back the column families and deletes db_.
Cleanup(s, c) ==
    LET t == [s EXCEPT !.ref_cnt = @ - 1]
    IN  IF t.ref_cnt # 0 THEN t ELSE Close(t, "deleted")

ReadSingle(k, fields) == << Fetch(k, fields) >>

ScanSingle(k, len, fields) == << Iterate(k, len, fields) >>

UpdateSingle(k, values) == << Get(k, "NotFound"), PutCurrent(k, values) >>

\* With USE_MERGEUPDATE one Merge replaces the Get and the Put.
\* RocksDB then calls YCSBUpdateMerge (OverlayOrAdd) on the row.
MergeSingle(k, values) == << MergeInto(k, values, "throw") >>

InsertSingle(k, values) == << Put(k, values) >>
=============================================================================

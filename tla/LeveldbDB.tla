------------------------------ MODULE LeveldbDB ------------------------------
(***************************************************************************)
(* The LevelDB adapter (src/YCSB-cpp/leveldb/leveldb_db.cc): one string    *)
(* per row ("single" format) or one entry per field under key:field        *)
(* ("row"), with keys padded to one length.                                *)
(***************************************************************************)
EXTENDS LibraryRequests

\* Init: the first client opens, the others find db_ set.
Init(s, c) ==
    LET t == [s EXCEPT !.ref_cnt = @ + 1]
    IN  IF t.handle # "null" THEN t ELSE [t EXCEPT !.handle = "open"]

\* Mutation: every client deletes the database.
Cleanup_EveryClient(s, c) == Close([s EXCEPT !.ref_cnt = @ - 1], "deleted")

\* Cleanup: the last client deletes the database; db_ keeps the pointer.
Cleanup(s, c) ==
    LET t == [s EXCEPT !.ref_cnt = @ - 1]
    IN  IF t.ref_cnt # 0 THEN t ELSE Close(t, "deleted")

ReadSingleEntry(k, fields) == << Fetch(k, fields) >>

ScanSingleEntry(k, len, fields) == << Iterate(k, len, fields) >>

\* Get and Put are two calls: others may write the row between them.
UpdateSingleEntry(k, values) == << Get(k, "NotFound"), PutCurrent(k, values) >>

InsertSingleEntry(k, values) == << Put(k, values) >>

\* Seek the first entry at or after the key; it must be one of this key.
ReadCompKeyRM(k, fields) == << SeekRow(k, fields) >>

\* As there, the seek must land on the key.
ScanCompKeyRM(k, len, fields) == << IterateAt(k, len, fields) >>

\* Insert and update: one batch of entries.
InsertCompKey(k, values) == << MergeInto(k, values, "create") >>
=============================================================================

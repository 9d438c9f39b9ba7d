------------------------------ MODULE SqliteDB ------------------------------
(***************************************************************************)
(* The SQLite adapter (src/YCSB-cpp/sqlite/sqlite_db.cc): one connection,  *)
(* prepared statements of each client.  A statement is atomic.             *)
(***************************************************************************)
EXTENDS LibraryRequests

\* OpenDB and SetPragma.
OpenDB(s) == [s EXCEPT !.handle = "open"]

\* PrepareQueries: the client's statements, on the open connection.
PrepareQueries(s, c) ==
    [s EXCEPT !.sessions = @ \cup {c}, !.misuse = @ \/ s.handle # "open"]

\* Init: the first client opens, each prepares its own statements.
Init(s, c) ==
    PrepareQueries([(IF s.ref_cnt = 0 THEN OpenDB(s) ELSE s) EXCEPT !.ref_cnt = @ + 1], c)

\* Cleanup: finalize the client's statements; the last one closes, which
\* SQLite refuses while statements are left (the assertion behind it).
Cleanup(s, c) ==
    LET t == [s EXCEPT !.sessions = @ \ {c}, !.ref_cnt = @ - 1]
    IN  IF t.ref_cnt # 0 THEN t ELSE Close(t, "deleted")

\* SELECT fields WHERE key = ?
Read(k, fields) == << Fetch(k, fields) >>

\* SELECT ... WHERE key >= ? ORDER BY key LIMIT ?
Scan(k, len, fields) == << Iterate(k, len, fields) >>

\* UPDATE ... SET field = ? WHERE key = ?: one statement.
Update(k, values) == << MergeInto(k, values, "OK") >>

\* INSERT OR REPLACE.
Insert(k, values) == << Put(k, values) >>
=============================================================================

-------------------------------- MODULE WTDB --------------------------------
(***************************************************************************)
(* The WiredTiger adapter (src/YCSB-cpp/wiredtiger/wiredtiger_db.cc): one  *)
(* connection, a session and a cursor of each client, no transactions.     *)
(***************************************************************************)
EXTENDS LibraryRequests

\* Init: the first client opens the connection and creates the table; each
\* opens its session and cursor.
Init(s, c) ==
    LET t == IF s.handle # "null" THEN s ELSE [s EXCEPT !.handle = "open"]
    IN  [t EXCEPT !.ref_cnt = @ + 1, !.sessions = @ \cup {c}, !.misuse = @ \/ t.handle # "open"]

\* Cleanup: cursor and session first; the last client closes the connection.
Cleanup(s, c) ==
    LET t == [s EXCEPT !.sessions = @ \ {c}, !.ref_cnt = @ - 1]
    IN  IF t.ref_cnt # 0 THEN t ELSE Close(t, "deleted")

ReadSingleEntry(k, fields) == << Fetch(k, fields) >>

ScanSingleEntry(k, len, fields) == << Iterate(k, len, fields) >>

\* search and update, each its own transaction.
UpdateSingleEntry(k, values) == << Get(k, "NotFound"), PutCurrent(k, values) >>

InsertSingleEntry(k, values) == << Put(k, values) >>
=============================================================================

-------------------------- MODULE LibraryRequests --------------------------
(***************************************************************************)
(* The requests the YCSB adapters make of their database library, and the  *)
(* static members they share.  missing is what the adapter makes of a key  *)
(* that is not there: a status, or "throw".                                *)
(***************************************************************************)
EXTENDS Integers

Get(k, missing)         == [do |-> "get", key |-> k, missing |-> missing]
Fetch(k, fields)        == [do |-> "fetch", key |-> k, fields |-> fields]
Iterate(k, len, fields) == [do |-> "iterate", key |-> k, len |-> len, fields |-> fields]
IterateAt(k, len, fields) ==
    [do |-> "iterate_at", key |-> k, len |-> len, fields |-> fields]
Put(k, values)          == [do |-> "put", key |-> k, values |-> values]
PutCurrent(k, values)   == [do |-> "put_current", key |-> k, values |-> values]
SeekRow(k, fields)      == [do |-> "seek_row", key |-> k, fields |-> fields]
MergeInto(k, values, missing) ==
    [do |-> "merge", key |-> k, values |-> values, missing |-> missing]
BeginWrite == [do |-> "begin"]
EndWrite   == [do |-> "end"]

\* The record of a back end's static members and its data, before any Init.
\* sessions: clients with statements, cursors or iterators of the library.
\* writer: the client in LMDB's one write transaction, or 0.
Unopened(keys) ==
    [handle |-> "null", ref_cnt |-> 0, sessions |-> {}, next_id |-> 0,
     ids |-> << >>, writer |-> 0, misuse |-> FALSE, table |-> [k \in keys |-> << >>]]

\* Closing is right for an open handle nobody has a session on.
Close(s, after) ==
    [s EXCEPT !.handle = after, !.misuse = @ \/ s.handle # "open" \/ s.sessions # {}]
=============================================================================

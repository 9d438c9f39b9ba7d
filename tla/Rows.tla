-------------------------------- MODULE Rows --------------------------------
(***************************************************************************)
(* Rows of the YCSB back ends.                                             *)
(*                                                                         *)
(* A row is a sequence of <<field, value>> pairs (DB::Field).  LevelDB,    *)
(* RocksDB, LMDB and WiredTiger keep it as one string, here the sequence   *)
(* of what the string holds behind its length prefixes: name, value, name, *)
(* value, ...  The codec is the same in the four adapters; lines are       *)
(* those of leveldb_db.cc.                                                 *)
(***************************************************************************)
EXTENDS LibraryRequests, Sequences, SequencesExt

\* SerializeRow.
SerializeRow(values) == FlattenSeq(values)

\* DeserializeRow: from the beginning of the string to its end.
DeserializeRow(data) == [i \in 1 .. Len(data) \div 2 |-> <<data[2 * i - 1], data[2 * i]>>]

\* DeserializeRowFilter: one pass over the row and over the wanted fields.
DeserializeRowFilter(data, fields) ==
    FoldLeft(LAMBDA found, f :
                 IF Len(found) < Len(fields) /\ fields[Len(found) + 1] = f[1]
                 THEN Append(found, f) ELSE found,
             << >>, DeserializeRow(data))

\* The new value of field f, or the old one.
NewValue(f, old, values) ==
    IF \E v \in ToSet(values) : v[1] = f
    THEN (CHOOSE v \in ToSet(values) : v[1] = f)[2] ELSE old

\* The loop of the Update methods: each new field replaces its namesake.
Overlay(current, values) ==
    [i \in DOMAIN current |-> <<current[i][1], NewValue(current[i][1], current[i][2], values)>>]

\* As Overlay, and a field that is not there yet is added at the end.
OverlayOrAdd(current, values) ==
    Overlay(current, values) \o
    SelectSeq(values, LAMBDA v : \A f \in ToSet(current) : f[1] # v[1])

\* Result of a read: all fields, or those asked for (fields = << >> is NULL).
Result(data, fields) ==
    IF fields = << >> THEN DeserializeRow(data) ELSE DeserializeRowFilter(data, fields)
=============================================================================

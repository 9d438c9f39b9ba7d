----------------------------- MODULE YcsbProofs -----------------------------
(***************************************************************************)
(* Theorems about YcsbClient: for any command lines, back ends, latencies  *)
(* and numbers of threads.                                                 *)
(***************************************************************************)
EXTENDS YcsbClient, NatSetTheorems, SequenceTheorems

-----------------------------------------------------------------------------
(* Lists of a client thread. *)

Requests == {"print", "get", "fetch", "seek_row", "iterate", "iterate_at", "put", "put_current",
             "merge", "begin", "end"}

Kinds == Requests \cup {"report", "cas", "ack"}

IsList(l) == \E S : l \in Seq(S)

\* A list of requests, as an adapter's call makes one.
Calls(l) == IsList(l) /\ l # << >> /\ \A i \in 1 .. Len(l) : l[i].do \in Requests

\* Behind a request there is the report of its call.
Reported(l) ==
    \A i \in 1 .. Len(l) : l[i].do \in Requests => \E j \in i + 1 .. Len(l) : l[j].do = "report"

\* A list as an operation starts with.
Fresh(l) ==
    /\ IsList(l) /\ l # << >>
    /\ \A i \in 1 .. Len(l) : l[i].do \in Kinds \ {"cas"}
    /\ Reported(l)

\* The reports of a list; an operation other than read-modify-write has one.
ReportsAt(l) == {i \in 1 .. Len(l) : l[i].do = "report"}

OneReport(l) == \E i \in 1 .. Len(l) : ReportsAt(l) = {i}

\* A list as an operation leaves it: only the compare and exchange that the
\* thread is at is one.
WellFormed(l) ==
    /\ IsList(l)
    /\ \A i \in 1 .. Len(l) : l[i].do \in Kinds /\ (i > 1 => l[i].do # "cas")
    /\ Reported(l)

LEMMA ListFacts ==
    ASSUME NEW l, IsList(l)
    PROVE  /\ Len(l) \in Nat
           /\ DOMAIN l = 1 .. Len(l)
           /\ l = << >> <=> Len(l) = 0
           /\ l # << >> => Head(l) = l[1]
<1>1. PICK S : l \in Seq(S)
  BY DEF IsList
<1> QED
  BY <1>1

LEMMA TailFacts ==
    ASSUME NEW l, IsList(l), l # << >>
    PROVE  /\ IsList(Tail(l))
           /\ Len(Tail(l)) = Len(l) - 1
           /\ \A i \in 1 .. Len(l) - 1 : Tail(l)[i] = l[i + 1]
<1>1. PICK S : l \in Seq(S)
  BY DEF IsList
<1>2. Tail(l) \in Seq(S)
  BY <1>1
<1> QED
  BY <1>1, <1>2 DEF IsList

LEMMA ConcatFacts ==
    ASSUME NEW l, NEW m, IsList(l), IsList(m)
    PROVE  /\ IsList(l \o m)
           /\ Len(l \o m) = Len(l) + Len(m)
           /\ \A i \in 1 .. Len(l) : (l \o m)[i] = l[i]
           /\ \A i \in 1 .. Len(m) : (l \o m)[Len(l) + i] = m[i]
<1>1. PICK S : l \in Seq(S)
  BY DEF IsList
<1>2. PICK T : m \in Seq(T)
  BY DEF IsList
<1>3. l \in Seq(S \cup T) /\ m \in Seq(S \cup T)
  BY <1>1, <1>2
<1>4. l \o m \in Seq(S \cup T)
  BY <1>3
<1>5. IsList(l \o m)
  BY <1>4, Zenon DEF IsList
<1> QED
  BY <1>3, <1>5

LEMMA SingleFacts ==
    ASSUME NEW x
    PROVE  IsList(<< x >>) /\ Len(<< x >>) = 1 /\ << x >>[1] = x /\ << x >> # << >>
<1>1. << x >> \in Seq({x})
  OBVIOUS
<1> QED
  BY <1>1 DEF IsList

LEMMA SuffixFacts ==
    ASSUME NEW l, IsList(l), NEW p \in 1 .. Len(l)
    PROVE  /\ IsList(SubSeq(l, p, Len(l)))
           /\ Len(SubSeq(l, p, Len(l))) = Len(l) - p + 1
           /\ \A j \in 1 .. Len(l) - p + 1 : SubSeq(l, p, Len(l))[j] = l[j + p - 1]
<1>1. PICK S : l \in Seq(S)
  BY DEF IsList
<1>2. Len(l) \in Nat /\ p \in 1 .. Len(l) + 1 /\ Len(l) \in p - 1 .. Len(l)
  BY <1>1
<1>3. /\ SubSeq(l, p, Len(l)) \in Seq(S)
      /\ Len(SubSeq(l, p, Len(l))) = Len(l) - p + 1
      /\ \A j \in 1 .. Len(l) - p + 1 : SubSeq(l, p, Len(l))[j] = l[p + j - 1]
  BY <1>1, <1>2, SubSeqProperties
<1>4. IsList(SubSeq(l, p, Len(l)))
  BY <1>3, Zenon DEF IsList
<1>5. \A j \in 1 .. Len(l) - p + 1 : j + p - 1 = p + j - 1
  BY <1>2
<1> QED
  BY <1>3, <1>4, <1>5

\* The list of one DB call.
Single(l) == Fresh(l) /\ OneReport(l) /\ \A i \in 1 .. Len(l) : l[i].do # "ack"

LEMMA CallIsReported ==
    ASSUME NEW l, Calls(l), NEW op
    PROVE  Single(l \o ReportTo(op))
<1>m. PICK m : m = ReportTo(op)
  OBVIOUS
<1>s. PICK s : s = l \o m
  OBVIOUS
<1>1. IsList(m) /\ Len(m) = 1 /\ m[1].do = "report" /\ m # << >>
  BY <1>m, SingleFacts DEF ReportTo
<1>2. IsList(l) /\ Len(l) \in Nat \ {0} /\ \A i \in 1 .. Len(l) : l[i].do \in Requests
  BY ListFacts DEF Calls
<1>3. /\ IsList(s) /\ Len(s) = Len(l) + 1
      /\ \A i \in 1 .. Len(l) : s[i] = l[i]
      /\ \A i \in 1 .. Len(m) : s[Len(l) + i] = m[i]
  <2>1. IsList(l) /\ IsList(m)
    BY <1>1, <1>2
  <2>2. /\ IsList(s) /\ Len(s) = Len(l) + Len(m)
        /\ \A i \in 1 .. Len(l) : s[i] = l[i]
        /\ \A i \in 1 .. Len(m) : s[Len(l) + i] = m[i]
    BY <1>s, <2>1, ConcatFacts
  <2> QED
    BY <1>1, <2>2
<1>4. PICK n \in Nat : n = Len(l)
  BY <1>2
<1>5. s[n + 1].do = "report"
  BY <1>1, <1>3, <1>4
<1>6. \A i \in 1 .. n : s[i].do \in Requests
  BY <1>2, <1>3, <1>4
<1>7. Len(s) = n + 1 /\ n > 0
  BY <1>2, <1>3, <1>4
<1>8. \A i \in 1 .. n + 1 : s[i].do \in Kinds \ {"cas"} /\ s[i].do # "ack"
  BY <1>5, <1>6 DEF Requests, Kinds
<1>9. Reported(s)
  <2>1. n + 1 \in 1 .. n + 1 /\ \A i \in 1 .. n : n + 1 \in i + 1 .. n + 1
    OBVIOUS
  <2>2. s[n + 1].do \notin Requests
    BY <1>5 DEF Requests
  <2> QED
    BY <1>5, <1>7, <2>1, <2>2 DEF Reported
<1>10. OneReport(s)
  <2>1. "report" \notin Requests
    BY DEF Requests
  <2>2. ReportsAt(s) = {n + 1}
    BY <1>5, <1>6, <1>7, <2>1 DEF ReportsAt
  <2>3. n + 1 \in 1 .. Len(s)
    BY <1>7
  <2> QED
    BY <2>2, <2>3 DEF OneReport
<1>11. s # << >>
  BY <1>3, <1>7, ListFacts
<1> QED
  BY <1>m, <1>s, <1>3, <1>7, <1>8, <1>9, <1>10, <1>11 DEF Single, Fresh

\* Lists of up to four requests.
LEMMA FewCalls ==
    ASSUME NEW a, NEW b, NEW c, NEW d,
           a.do \in Requests, b.do \in Requests, c.do \in Requests, d.do \in Requests
    PROVE  Calls(<< a >>) /\ Calls(<< a, b >>) /\ Calls(<< a, b, c >>) /\ Calls(<< a, b, c, d >>)
<1>1. Calls(<< a >>)
  <2>1. << a >> \in Seq({a})
    OBVIOUS
  <2>2. IsList(<< a >>)
    BY <2>1, Zenon DEF IsList
  <2>3. << a >> # << >> /\ \A i \in 1 .. Len(<< a >>) : << a >>[i].do \in Requests
    OBVIOUS
  <2> QED
    BY <2>2, <2>3 DEF Calls
<1>2. Calls(<< a, b >>)
  <2>1. << a, b >> \in Seq({a, b})
    OBVIOUS
  <2>2. IsList(<< a, b >>)
    BY <2>1, Zenon DEF IsList
  <2>3. << a, b >> # << >> /\ \A i \in 1 .. Len(<< a, b >>) : << a, b >>[i].do \in Requests
    OBVIOUS
  <2> QED
    BY <2>2, <2>3 DEF Calls
<1>3. Calls(<< a, b, c >>)
  <2>1. << a, b, c >> \in Seq({a, b, c})
    OBVIOUS
  <2>2. IsList(<< a, b, c >>)
    BY <2>1, Zenon DEF IsList
  <2>3. << a, b, c >> # << >> /\ \A i \in 1 .. Len(<< a, b, c >>) : << a, b, c >>[i].do \in Requests
    OBVIOUS
  <2> QED
    BY <2>2, <2>3 DEF Calls
<1>4. Calls(<< a, b, c, d >>)
  <2>1. << a, b, c, d >> \in Seq({a, b, c, d})
    OBVIOUS
  <2>2. IsList(<< a, b, c, d >>)
    BY <2>1, Zenon DEF IsList
  <2>3. << a, b, c, d >> # << >> /\ \A i \in 1 .. Len(<< a, b, c, d >>) : << a, b, c, d >>[i].do \in Requests
    OBVIOUS
  <2> QED
    BY <2>2, <2>3 DEF Calls
<1> QED
  BY <1>1, <1>2, <1>3, <1>4

\* The adapters' calls are lists of requests.
LEMMA ReadCalls ==
    ASSUME dbname \in BackEnds, NEW k, NEW fields
    PROVE  Single(DbRead(k, fields))
<1> DEFINE call == CASE dbname = "basic"                        -> BasicCall
       [] dbname = "leveldb"                      -> Leveldb!ReadSingleEntry(k, fields)
       [] dbname = "leveldb.row"                  -> Leveldb!ReadCompKeyRM(k, fields)
       [] dbname \in {"rocksdb", "rocksdb.merge"} -> Rocksdb!ReadSingle(k, fields)
       [] dbname = "lmdb"                         -> Lmdb!Read(k, fields)
       [] dbname = "sqlite"                       -> Sqlite!Read(k, fields)
       [] dbname = "wiredtiger"                   -> Wiredtiger!ReadSingleEntry(k, fields)
       [] dbname = "f3tree"                       -> F3Tree!Read(k, fields)
<1>1. PICK r : call = << r >> /\ r.do \in {"print", "fetch", "seek_row"}
  <2>1. CASE dbname = "basic"
    BY <2>1 DEF BasicCall
  <2>2. CASE dbname = "leveldb"
    BY <2>2 DEF Leveldb!ReadSingleEntry, Leveldb!Fetch
  <2>3. CASE dbname = "leveldb.row"
    BY <2>3 DEF Leveldb!ReadCompKeyRM, Leveldb!SeekRow
  <2>4. CASE dbname \in {"rocksdb", "rocksdb.merge"}
    BY <2>4 DEF Rocksdb!ReadSingle, Rocksdb!Fetch
  <2>5. CASE dbname = "lmdb"
    BY <2>5 DEF Lmdb!Read, Lmdb!Fetch
  <2>6. CASE dbname = "sqlite"
    BY <2>6 DEF Sqlite!Read, Sqlite!Fetch
  <2>7. CASE dbname = "wiredtiger"
    BY <2>7 DEF Wiredtiger!ReadSingleEntry, Wiredtiger!Fetch
  <2>8. CASE dbname = "f3tree"
    BY <2>8 DEF F3Tree!Read, F3Tree!Fetch
  <2> QED
    BY <2>1, <2>2, <2>3, <2>4, <2>5, <2>6, <2>7, <2>8 DEF BackEnds
<1>2. Calls(call)
  <2>1. r.do \in Requests
    BY <1>1 DEF Requests
  <2> QED
    BY <1>1, <2>1, FewCalls
<1>3. DbRead(k, fields) = call \o ReportTo("read")
  BY DEF DbRead
<1> HIDE DEF call
<1> QED
  BY <1>2, <1>3, CallIsReported

LEMMA ScanCalls ==
    ASSUME dbname \in BackEnds, NEW k, NEW len, NEW fields
    PROVE  Single(DbScan(k, len, fields))
<1> DEFINE call ==
         CASE dbname = "basic" -> BasicCall
           [] dbname = "leveldb" -> Leveldb!ScanSingleEntry(k, len, fields)
           [] dbname = "leveldb.row" -> Leveldb!ScanCompKeyRM(k, len, fields)
           [] dbname \in {"rocksdb", "rocksdb.merge"} -> Rocksdb!ScanSingle(k, len, fields)
           [] dbname = "lmdb" -> Lmdb!Scan(k, len, fields)
           [] dbname = "sqlite" -> Sqlite!Scan(k, len, fields)
           [] dbname = "wiredtiger" -> Wiredtiger!ScanSingleEntry(k, len, fields)
           [] dbname = "f3tree" -> F3Tree!Scan(k, len, fields)
<1>1. Calls(call)
  <2>1. CASE dbname = "basic"
    <3>1. call = << [do |-> "print"] >>
      BY <2>1 DEF BasicCall
    <3>2. [do |-> "print"].do \in Requests
      BY DEF Requests
    <3> QED
      BY <3>1, <3>2, FewCalls
  <2>2. CASE dbname = "leveldb"
    <3>1. call = << Leveldb!Iterate(k, len, fields) >>
      BY <2>2 DEF Leveldb!ScanSingleEntry
    <3>2. Leveldb!Iterate(k, len, fields).do \in Requests
      BY DEF Requests, Leveldb!Iterate
    <3> QED
      BY <3>1, <3>2, FewCalls
  <2>3. CASE dbname = "leveldb.row"
    <3>1. call = << Leveldb!IterateAt(k, len, fields) >>
      BY <2>3 DEF Leveldb!ScanCompKeyRM
    <3>2. Leveldb!IterateAt(k, len, fields).do \in Requests
      BY DEF Requests, Leveldb!IterateAt
    <3> QED
      BY <3>1, <3>2, FewCalls
  <2>4. CASE dbname \in {"rocksdb", "rocksdb.merge"}
    <3>1. call = << Rocksdb!Iterate(k, len, fields) >>
      BY <2>4 DEF Rocksdb!ScanSingle
    <3>2. Rocksdb!Iterate(k, len, fields).do \in Requests
      BY DEF Requests, Rocksdb!Iterate
    <3> QED
      BY <3>1, <3>2, FewCalls
  <2>5. CASE dbname = "lmdb"
    <3>1. call = << Lmdb!BeginWrite, Lmdb!Iterate(k, len, fields), Lmdb!EndWrite >>
      BY <2>5 DEF Lmdb!Scan
    <3>2. Lmdb!BeginWrite.do \in Requests /\ Lmdb!Iterate(k, len, fields).do \in Requests /\ Lmdb!EndWrite.do \in Requests
      BY DEF Requests, Lmdb!BeginWrite, Lmdb!EndWrite, Lmdb!Iterate
    <3> QED
      BY <3>1, <3>2, FewCalls
  <2>6. CASE dbname = "sqlite"
    <3>1. call = << Sqlite!Iterate(k, len, fields) >>
      BY <2>6 DEF Sqlite!Scan
    <3>2. Sqlite!Iterate(k, len, fields).do \in Requests
      BY DEF Requests, Sqlite!Iterate
    <3> QED
      BY <3>1, <3>2, FewCalls
  <2>7. CASE dbname = "wiredtiger"
    <3>1. call = << Wiredtiger!Iterate(k, len, fields) >>
      BY <2>7 DEF Wiredtiger!ScanSingleEntry
    <3>2. Wiredtiger!Iterate(k, len, fields).do \in Requests
      BY DEF Requests, Wiredtiger!Iterate
    <3> QED
      BY <3>1, <3>2, FewCalls
  <2>8. CASE dbname = "f3tree"
    <3>1. call = << F3Tree!Iterate(F3Tree!StringToKey(k), len, << >>) >>
      BY <2>8 DEF F3Tree!Scan
    <3>2. F3Tree!Iterate(F3Tree!StringToKey(k), len, << >>).do \in Requests
      BY DEF Requests, F3Tree!Iterate
    <3> QED
      BY <3>1, <3>2, FewCalls
  <2> QED
    BY <2>1, <2>2, <2>3, <2>4, <2>5, <2>6, <2>7, <2>8 DEF BackEnds
<1>2. DbScan(k, len, fields) = call \o ReportTo("scan")
  BY DEF DbScan
<1> HIDE DEF call
<1> QED
  BY <1>1, <1>2, CallIsReported

LEMMA UpdateCalls ==
    ASSUME dbname \in BackEnds, NEW k, NEW values
    PROVE  Single(DbUpdate(k, values))
<1> DEFINE call ==
         CASE dbname = "basic" -> BasicCall
           [] dbname = "leveldb" -> Leveldb!UpdateSingleEntry(k, values)
           [] dbname = "leveldb.row" -> Leveldb!InsertCompKey(k, values)
           [] dbname = "rocksdb" -> Rocksdb!UpdateSingle(k, values)
           [] dbname = "rocksdb.merge" -> Rocksdb!MergeSingle(k, values)
           [] dbname = "lmdb" -> Lmdb!Update(k, values)
           [] dbname = "sqlite" -> Sqlite!Update(k, values)
           [] dbname = "wiredtiger" -> Wiredtiger!UpdateSingleEntry(k, values)
           [] dbname = "f3tree" -> F3Tree!Update(k, values)
<1>1. Calls(call)
  <2>1. CASE dbname = "basic"
    <3>1. call = << [do |-> "print"] >>
      BY <2>1 DEF BasicCall
    <3>2. [do |-> "print"].do \in Requests
      BY DEF Requests
    <3> QED
      BY <3>1, <3>2, FewCalls
  <2>2. CASE dbname = "leveldb"
    <3>1. call = << Leveldb!Get(k, "NotFound"), Leveldb!PutCurrent(k, values) >>
      BY <2>2 DEF Leveldb!UpdateSingleEntry
    <3>2. Leveldb!Get(k, "NotFound").do \in Requests /\ Leveldb!PutCurrent(k, values).do \in Requests
      BY DEF Requests, Leveldb!Get, Leveldb!PutCurrent
    <3> QED
      BY <3>1, <3>2, FewCalls
  <2>3. CASE dbname = "leveldb.row"
    <3>1. call = << Leveldb!MergeInto(k, values, "create") >>
      BY <2>3 DEF Leveldb!InsertCompKey
    <3>2. Leveldb!MergeInto(k, values, "create").do \in Requests
      BY DEF Requests, Leveldb!MergeInto
    <3> QED
      BY <3>1, <3>2, FewCalls
  <2>4. CASE dbname = "rocksdb"
    <3>1. call = << Rocksdb!Get(k, "NotFound"), Rocksdb!PutCurrent(k, values) >>
      BY <2>4 DEF Rocksdb!UpdateSingle
    <3>2. Rocksdb!Get(k, "NotFound").do \in Requests /\ Rocksdb!PutCurrent(k, values).do \in Requests
      BY DEF Requests, Rocksdb!Get, Rocksdb!PutCurrent
    <3> QED
      BY <3>1, <3>2, FewCalls
  <2>5. CASE dbname = "rocksdb.merge"
    <3>1. call = << Rocksdb!MergeInto(k, values, "throw") >>
      BY <2>5 DEF Rocksdb!MergeSingle
    <3>2. Rocksdb!MergeInto(k, values, "throw").do \in Requests
      BY DEF Requests, Rocksdb!MergeInto
    <3> QED
      BY <3>1, <3>2, FewCalls
  <2>6. CASE dbname = "lmdb"
    <3>1. call = << Lmdb!BeginWrite, Lmdb!Get(k, "throw"), Lmdb!PutCurrent(k, values), Lmdb!EndWrite >>
      BY <2>6 DEF Lmdb!Update
    <3>2. Lmdb!BeginWrite.do \in Requests /\ Lmdb!Get(k, "throw").do \in Requests /\ Lmdb!PutCurrent(k, values).do \in Requests /\ Lmdb!EndWrite.do \in Requests
      BY DEF Requests, Lmdb!BeginWrite, Lmdb!EndWrite, Lmdb!Get, Lmdb!PutCurrent
    <3> QED
      BY <3>1, <3>2, FewCalls
  <2>7. CASE dbname = "sqlite"
    <3>1. call = << Sqlite!MergeInto(k, values, "OK") >>
      BY <2>7 DEF Sqlite!Update
    <3>2. Sqlite!MergeInto(k, values, "OK").do \in Requests
      BY DEF Requests, Sqlite!MergeInto
    <3> QED
      BY <3>1, <3>2, FewCalls
  <2>8. CASE dbname = "wiredtiger"
    <3>1. call = << Wiredtiger!Get(k, "NotFound"), Wiredtiger!PutCurrent(k, values) >>
      BY <2>8 DEF Wiredtiger!UpdateSingleEntry
    <3>2. Wiredtiger!Get(k, "NotFound").do \in Requests /\ Wiredtiger!PutCurrent(k, values).do \in Requests
      BY DEF Requests, Wiredtiger!Get, Wiredtiger!PutCurrent
    <3> QED
      BY <3>1, <3>2, FewCalls
  <2>9. CASE dbname = "f3tree"
    <3>1. call = << F3Tree!Put(F3Tree!StringToKey(k), F3Tree!Present) >>
      BY <2>9 DEF F3Tree!Update
    <3>2. F3Tree!Put(F3Tree!StringToKey(k), F3Tree!Present).do \in Requests
      BY DEF Requests, F3Tree!Put
    <3> QED
      BY <3>1, <3>2, FewCalls
  <2> QED
    BY <2>1, <2>2, <2>3, <2>4, <2>5, <2>6, <2>7, <2>8, <2>9 DEF BackEnds
<1>2. DbUpdate(k, values) = call \o ReportTo("update")
  BY DEF DbUpdate
<1> HIDE DEF call
<1> QED
  BY <1>1, <1>2, CallIsReported

LEMMA InsertCalls ==
    ASSUME dbname \in BackEnds, NEW k, NEW values
    PROVE  Single(DbInsert(k, values))
<1> DEFINE call ==
         CASE dbname = "basic" -> BasicCall
           [] dbname = "leveldb" -> Leveldb!InsertSingleEntry(k, values)
           [] dbname = "leveldb.row" -> Leveldb!InsertCompKey(k, values)
           [] dbname \in {"rocksdb", "rocksdb.merge"} -> Rocksdb!InsertSingle(k, values)
           [] dbname = "lmdb" -> Lmdb!Insert(k, values)
           [] dbname = "sqlite" -> Sqlite!Insert(k, values)
           [] dbname = "wiredtiger" -> Wiredtiger!InsertSingleEntry(k, values)
           [] dbname = "f3tree" -> F3Tree!Insert(k, values)
<1>1. Calls(call)
  <2>1. CASE dbname = "basic"
    <3>1. call = << [do |-> "print"] >>
      BY <2>1 DEF BasicCall
    <3>2. [do |-> "print"].do \in Requests
      BY DEF Requests
    <3> QED
      BY <3>1, <3>2, FewCalls
  <2>2. CASE dbname = "leveldb"
    <3>1. call = << Leveldb!Put(k, values) >>
      BY <2>2 DEF Leveldb!InsertSingleEntry
    <3>2. Leveldb!Put(k, values).do \in Requests
      BY DEF Requests, Leveldb!Put
    <3> QED
      BY <3>1, <3>2, FewCalls
  <2>3. CASE dbname = "leveldb.row"
    <3>1. call = << Leveldb!MergeInto(k, values, "create") >>
      BY <2>3 DEF Leveldb!InsertCompKey
    <3>2. Leveldb!MergeInto(k, values, "create").do \in Requests
      BY DEF Requests, Leveldb!MergeInto
    <3> QED
      BY <3>1, <3>2, FewCalls
  <2>4. CASE dbname \in {"rocksdb", "rocksdb.merge"}
    <3>1. call = << Rocksdb!Put(k, values) >>
      BY <2>4 DEF Rocksdb!InsertSingle
    <3>2. Rocksdb!Put(k, values).do \in Requests
      BY DEF Requests, Rocksdb!Put
    <3> QED
      BY <3>1, <3>2, FewCalls
  <2>5. CASE dbname = "lmdb"
    <3>1. call = << Lmdb!BeginWrite, Lmdb!Put(k, values), Lmdb!EndWrite >>
      BY <2>5 DEF Lmdb!Insert
    <3>2. Lmdb!BeginWrite.do \in Requests /\ Lmdb!Put(k, values).do \in Requests /\ Lmdb!EndWrite.do \in Requests
      BY DEF Requests, Lmdb!BeginWrite, Lmdb!EndWrite, Lmdb!Put
    <3> QED
      BY <3>1, <3>2, FewCalls
  <2>6. CASE dbname = "sqlite"
    <3>1. call = << Sqlite!Put(k, values) >>
      BY <2>6 DEF Sqlite!Insert
    <3>2. Sqlite!Put(k, values).do \in Requests
      BY DEF Requests, Sqlite!Put
    <3> QED
      BY <3>1, <3>2, FewCalls
  <2>7. CASE dbname = "wiredtiger"
    <3>1. call = << Wiredtiger!Put(k, values) >>
      BY <2>7 DEF Wiredtiger!InsertSingleEntry
    <3>2. Wiredtiger!Put(k, values).do \in Requests
      BY DEF Requests, Wiredtiger!Put
    <3> QED
      BY <3>1, <3>2, FewCalls
  <2>8. CASE dbname = "f3tree"
    <3>1. call = << F3Tree!Put(F3Tree!StringToKey(k), F3Tree!Present) >>
      BY <2>8 DEF F3Tree!Insert
    <3>2. F3Tree!Put(F3Tree!StringToKey(k), F3Tree!Present).do \in Requests
      BY DEF Requests, F3Tree!Put
    <3> QED
      BY <3>1, <3>2, FewCalls
  <2> QED
    BY <2>1, <2>2, <2>3, <2>4, <2>5, <2>6, <2>7, <2>8 DEF BackEnds
<1>2. DbInsert(k, values) = call \o ReportTo("insert")
  BY DEF DbInsert
<1> HIDE DEF call
<1> QED
  BY <1>1, <1>2, CallIsReported

\* An operation's list ends with the report, or with the acknowledgement
\* behind it.
LEMMA TwoCalls ==
    ASSUME NEW l, NEW m, Single(l), Single(m)
    PROVE  Fresh(l \o m)
<1>1. IsList(l) /\ IsList(m) /\ Len(l) \in Nat /\ Len(m) \in Nat \ {0}
  BY ListFacts DEF Single, Fresh
<1>2. PICK a \in Nat : a = Len(l)
  BY <1>1
<1>3. PICK b \in Nat \ {0} : b = Len(m)
  BY <1>1
<1>4. PICK s : s = l \o m
  OBVIOUS
<1>5. /\ IsList(s) /\ Len(s) = a + b
      /\ \A i \in 1 .. a : s[i] = l[i]
      /\ \A i \in 1 .. b : s[a + i] = m[i]
  BY <1>1, <1>2, <1>3, <1>4, ConcatFacts
<1>6. \A i \in 1 .. a + b : \/ i \in 1 .. a
                            \/ \E j \in 1 .. b : i = a + j
  <2> SUFFICES ASSUME NEW i \in 1 .. a + b, i > a PROVE \E j \in 1 .. b : i = a + j
    OBVIOUS
  <2>1. i - a \in 1 .. b /\ i = a + (i - a)
    OBVIOUS
  <2> QED
    BY <2>1
<1>7. /\ \A i \in 1 .. a : l[i].do \in Kinds \ {"cas"}
      /\ \A i \in 1 .. b : m[i].do \in Kinds \ {"cas"}
  BY <1>2, <1>3 DEF Single, Fresh
<1>8. \A i \in 1 .. a + b : s[i].do \in Kinds \ {"cas"}
  BY <1>5, <1>6, <1>7
<1>9. Reported(s)
  <2> SUFFICES ASSUME NEW i \in 1 .. a + b, s[i].do \in Requests
               PROVE  \E j \in i + 1 .. a + b : s[j].do = "report"
    BY <1>5 DEF Reported
  <2>1. CASE i \in 1 .. a
    <3>1. PICK j \in i + 1 .. a : l[j].do = "report"
      BY <1>2, <1>5, <2>1 DEF Single, Fresh, Reported
    <3>2. s[j] = l[j] /\ j \in i + 1 .. a + b
      BY <1>5, <2>1
    <3> QED
      BY <3>1, <3>2
  <2>2. CASE i \notin 1 .. a
    <3>1. PICK h \in 1 .. b : i = a + h
      BY <1>6, <2>2
    <3>2. PICK j \in h + 1 .. b : m[j].do = "report"
      BY <1>3, <1>5, <3>1 DEF Single, Fresh, Reported
    <3>3. s[a + j] = m[j] /\ a + j \in i + 1 .. a + b
      BY <1>5, <3>1
    <3> QED
      BY <3>2, <3>3
  <2> QED
    BY <2>1, <2>2
<1>10. s # << >>
  BY <1>5, ListFacts
<1> QED
  BY <1>4, <1>5, <1>8, <1>9, <1>10 DEF Fresh

LEMMA CallAndAck ==
    ASSUME NEW l, Single(l), NEW r, r.do = "ack"
    PROVE  /\ Fresh(l \o << r >>) /\ OneReport(l \o << r >>)
           /\ Len(l \o << r >>) = Len(l) + 1 /\ (l \o << r >>)[Len(l) + 1] = r
           /\ \A i \in 1 .. Len(l) : (l \o << r >>)[i].do # "ack"
<1>1. IsList(l) /\ Len(l) \in Nat
  BY ListFacts DEF Single, Fresh
<1>2. PICK a \in Nat : a = Len(l)
  BY <1>1
<1>3. PICK m : m = << r >>
  OBVIOUS
<1>4. IsList(m) /\ Len(m) = 1 /\ m[1] = r
  BY <1>3, SingleFacts
<1>5. PICK s : s = l \o m
  OBVIOUS
<1>6. /\ IsList(s) /\ Len(s) = a + 1
      /\ \A i \in 1 .. a : s[i] = l[i]
      /\ s[a + 1] = r
  <2>1. IsList(l) /\ IsList(m)
    BY <1>1, <1>4
  <2>2. /\ IsList(s) /\ Len(s) = Len(l) + Len(m)
        /\ \A i \in 1 .. Len(l) : s[i] = l[i]
        /\ \A i \in 1 .. Len(m) : s[Len(l) + i] = m[i]
    BY <1>5, <2>1, ConcatFacts
  <2> QED
    BY <1>2, <1>4, <2>2
<1>7. \A i \in 1 .. a : l[i].do \in Kinds \ {"cas"} /\ l[i].do # "ack"
  BY <1>2 DEF Single, Fresh
<1>8. \A i \in 1 .. a + 1 : s[i].do \in Kinds \ {"cas"}
  BY <1>6, <1>7 DEF Kinds
<1>9. Reported(s)
  <2> SUFFICES ASSUME NEW i \in 1 .. a + 1, s[i].do \in Requests
               PROVE  \E j \in i + 1 .. a + 1 : s[j].do = "report"
    BY <1>6 DEF Reported
  <2>1. i \in 1 .. a
    BY <1>6 DEF Requests
  <2>2. PICK j \in i + 1 .. a : l[j].do = "report"
    BY <1>2, <1>6, <2>1 DEF Single, Fresh, Reported
  <2>3. s[j] = l[j] /\ j \in i + 1 .. a + 1
    BY <1>6, <2>1
  <2> QED
    BY <2>2, <2>3
<1>10. s # << >>
  BY <1>6, ListFacts
<1>11. OneReport(s)
  <2>1. PICK i \in 1 .. a : ReportsAt(l) = {i}
    BY <1>2 DEF Single, OneReport
  <2>2. ReportsAt(s) = ReportsAt(l)
    BY <1>2, <1>6 DEF ReportsAt
  <2>3. i \in 1 .. Len(s)
    BY <1>6
  <2> QED
    BY <2>1, <2>2, <2>3 DEF OneReport
<1>12. \A i \in 1 .. a : s[i].do # "ack"
  BY <1>6, <1>7
<1> QED
  BY <1>2, <1>3, <1>5, <1>6, <1>8, <1>9, <1>10, <1>11, <1>12 DEF Fresh

LEMMA LoadLists ==
    ASSUME dbname \in BackEnds, NEW k, NEW c
    PROVE  Single(DoInsert(k, c))
BY InsertCalls DEF DoInsert

\* The lists of the transactions: one report, but for read-modify-write.
LEMMA TransactionLists ==
    ASSUME dbname \in BackEnds, NEW c, NEW l \in Transactions(c)
    PROVE  /\ Fresh(l)
           /\ \A i \in 1 .. Len(l) : l[i].do # "ack"
           /\ "readmodifywriteproportion" \notin op_chooser(props) => OneReport(l)
<1> DEFINE some == NextTransactionKeyNum(props, keys.limit)
           mix == op_chooser(props)
<1>1. \/ \E k \in some, f \in ReadFields(props) : l = TransactionRead(k, f)
      \/ \E k \in some, n \in ScanLengths(props), f \in ReadFields(props) :
            l = TransactionScan(k, n, f)
      \/ \E k \in some, v \in UpdateValues(props, c) : l = TransactionUpdate(k, v)
      \/ /\ "readmodifywriteproportion" \in mix
         /\ \E k \in some, f \in ReadFields(props), v \in UpdateValues(props, c) :
               l = TransactionReadModifyWrite(k, f, v)
  <2>1. \/ l \in {TransactionRead(k, f) : k \in some, f \in ReadFields(props)}
        \/ l \in {TransactionScan(k, n, f) : k \in some, n \in ScanLengths(props),
                                             f \in ReadFields(props)}
        \/ l \in {TransactionUpdate(k, v) : k \in some, v \in UpdateValues(props, c)}
        \/ /\ "readmodifywriteproportion" \in mix
           /\ l \in {TransactionReadModifyWrite(k, f, v) : k \in some, f \in ReadFields(props),
                                                           v \in UpdateValues(props, c)}
    BY DEF Transactions
  <2> QED
    BY <2>1
<1> HIDE DEF some, mix
<1>2. ASSUME NEW k, NEW f, l = TransactionRead(k, f) PROVE Single(l)
  BY <1>2, ReadCalls DEF TransactionRead
<1>3. ASSUME NEW k, NEW n, NEW f, l = TransactionScan(k, n, f) PROVE Single(l)
  BY <1>3, ScanCalls DEF TransactionScan
<1>4. ASSUME NEW k, NEW v, l = TransactionUpdate(k, v) PROVE Single(l)
  BY <1>4, UpdateCalls DEF TransactionUpdate
<1>5. ASSUME NEW k, NEW f, NEW v, l = TransactionReadModifyWrite(k, f, v)
      PROVE  Fresh(l) /\ \A i \in 1 .. Len(l) : l[i].do # "ack"
  <2>1. PICK a : a = TransactionRead(k, f)
    OBVIOUS
  <2>2. PICK b : b = TransactionUpdate(k, v)
    OBVIOUS
  <2>3. Single(a)
    BY <2>1, ReadCalls DEF TransactionRead
  <2>4. Single(b)
    BY <2>2, UpdateCalls DEF TransactionUpdate
  <2>5. l = a \o b
    BY <1>5, <2>1, <2>2 DEF TransactionReadModifyWrite
  <2>6. Fresh(l)
    BY <2>3, <2>4, <2>5, TwoCalls
  <2>7. /\ IsList(a) /\ IsList(b)
        /\ \A i \in 1 .. Len(a) : a[i].do # "ack"
        /\ \A i \in 1 .. Len(b) : b[i].do # "ack"
    BY <2>3, <2>4 DEF Single, Fresh
  <2>8. /\ Len(l) = Len(a) + Len(b)
        /\ \A i \in 1 .. Len(a) : l[i] = a[i]
        /\ \A i \in 1 .. Len(b) : l[Len(a) + i] = b[i]
    BY <2>5, <2>7, ConcatFacts
  <2>9. PICK x \in Nat : x = Len(a)
    BY <2>7, ListFacts
  <2>10. PICK y \in Nat : y = Len(b)
    BY <2>7, ListFacts
  <2>11. ASSUME NEW i \in 1 .. x + y PROVE l[i].do # "ack"
    <3>1. CASE i <= x
      BY <2>7, <2>8, <2>9, <3>1
    <3>2. CASE i > x
      <4>1. i - x \in 1 .. y /\ x + (i - x) = i
        BY <3>2
      <4>2. l[x + (i - x)] = b[i - x] /\ b[i - x].do # "ack"
        BY <2>7, <2>8, <2>9, <2>10, <4>1
      <4> QED
        BY <4>1, <4>2
    <3> QED
      BY <3>1, <3>2
  <2> QED
    BY <2>6, <2>8, <2>9, <2>10, <2>11
<1> QED
  BY <1>1, <1>2, <1>3, <1>4, <1>5 DEF Single, mix

LEMMA InsertLists ==
    ASSUME dbname \in BackEnds, NEW k, NEW c
    PROVE  /\ Fresh(TransactionInsert(k, c)) /\ OneReport(TransactionInsert(k, c))
           /\ \A i \in 1 .. Len(TransactionInsert(k, c)) :
                 TransactionInsert(k, c)[i].do = "ack" =>
                     TransactionInsert(k, c)[i] = [do |-> "ack", key |-> k]
           /\ \E i \in 1 .. Len(TransactionInsert(k, c)) :
                 TransactionInsert(k, c)[i].do = "ack"
<1>1. PICK l : l = DbInsert(BuildKeyName(props, k), BuildValues(props, c))
  OBVIOUS
<1>2. PICK r : r = [do |-> "ack", key |-> k]
  OBVIOUS
<1>3. PICK s : s = l \o << r >>
  OBVIOUS
<1>4. s = TransactionInsert(k, c)
  BY <1>1, <1>2, <1>3 DEF TransactionInsert
<1>5. Single(l) /\ r.do = "ack"
  BY <1>1, <1>2, InsertCalls
<1>6. /\ Fresh(s) /\ OneReport(s)
      /\ Len(s) = Len(l) + 1 /\ s[Len(l) + 1] = r
      /\ \A i \in 1 .. Len(l) : s[i].do # "ack"
  BY <1>3, <1>5, CallAndAck
<1>7. PICK a \in Nat : a = Len(l)
  BY <1>5, ListFacts DEF Single, Fresh
<1>8. \A i \in 1 .. a + 1 : i \in 1 .. a \/ i = a + 1
  OBVIOUS
<1>9. a + 1 \in 1 .. a + 1
  OBVIOUS
<1>10. \A i \in 1 .. Len(s) : s[i].do = "ack" => s[i] = r
  BY <1>6, <1>7, <1>8
<1>11. \E i \in 1 .. Len(s) : s[i].do = "ack"
  BY <1>5, <1>6, <1>7, <1>9
<1> QED
  BY <1>2, <1>4, <1>6, <1>10, <1>11, Zenon

-----------------------------------------------------------------------------
(* What is left of a list. *)

\* Reports still to come, when there is at most one.
AtMostOne(l) == \A i, j \in ReportsAt(l) : i = j

Owed(l) == IF ReportsAt(l) = {} THEN 0 ELSE 1

HasCas(l) == \E i \in 1 .. Len(l) : l[i].do = "cas"

LEMMA FreshIsWellFormed ==
    ASSUME NEW l, Fresh(l)
    PROVE  WellFormed(l) /\ ~HasCas(l)
BY DEF Fresh, WellFormed, HasCas

LEMMA OneIsOwed ==
    ASSUME NEW l, OneReport(l)
    PROVE  AtMostOne(l) /\ Owed(l) = 1
BY DEF OneReport, AtMostOne, Owed

LEMMA NothingOwed ==
    WellFormed(<< >>) /\ AtMostOne(<< >>) /\ Owed(<< >>) = 0 /\ ~HasCas(<< >>)
<1>1. << >> \in Seq({})
  OBVIOUS
<1>2. IsList(<< >>)
  BY <1>1, Zenon DEF IsList
<1>3. 1 .. Len(<< >>) = {}
  OBVIOUS
<1>4. ReportsAt(<< >>) = {}
  BY <1>3 DEF ReportsAt
<1> QED
  BY <1>2, <1>3, <1>4 DEF WellFormed, Reported, AtMostOne, Owed, HasCas

\* A suffix of a list, from any place on.
LEMMA Suffix ==
    ASSUME NEW l, WellFormed(l), NEW p \in 1 .. Len(l)
    PROVE  LET s == SubSeq(l, p, Len(l))
           IN  /\ WellFormed(s) /\ s # << >>
               /\ Len(s) = Len(l) - p + 1
               /\ \A j \in 1 .. Len(s) : s[j] = l[j + p - 1]
               /\ AtMostOne(l) => AtMostOne(s)
<1>1. IsList(l) /\ Len(l) \in Nat
  BY ListFacts DEF WellFormed
<1>2. PICK n \in Nat : n = Len(l)
  BY <1>1
<1>3. PICK s : s = SubSeq(l, p, Len(l))
  OBVIOUS
<1>4. IsList(s) /\ Len(s) = n - p + 1 /\ \A j \in 1 .. n - p + 1 : s[j] = l[j + p - 1]
  BY <1>1, <1>2, <1>3, SuffixFacts
<1>5. s # << >>
  BY <1>2, <1>4, ListFacts
<1>6. \A j \in 1 .. n - p + 1 : j + p - 1 \in 1 .. n /\ (j > 1 => j + p - 1 > 1)
  BY <1>2
<1>7. \A j \in 1 .. n - p + 1 : s[j].do \in Kinds /\ (j > 1 => s[j].do # "cas")
  BY <1>2, <1>4, <1>6 DEF WellFormed
<1>8. Reported(s)
  <2> SUFFICES ASSUME NEW i \in 1 .. n - p + 1, s[i].do \in Requests
               PROVE  \E j \in i + 1 .. n - p + 1 : s[j].do = "report"
    BY <1>4 DEF Reported
  <2>1. PICK h \in i + p - 1 + 1 .. n : l[h].do = "report"
    BY <1>2, <1>4, <1>6 DEF WellFormed, Reported
  <2>2. h - p + 1 \in i + 1 .. n - p + 1 /\ (h - p + 1) + p - 1 = h
    BY <1>2, <2>1
  <2>3. h - p + 1 \in 1 .. n - p + 1
    BY <2>2
  <2>4. s[h - p + 1] = l[h]
    BY <1>4, <2>2, <2>3
  <2> QED
    BY <2>1, <2>2, <2>4
<1>9. ASSUME AtMostOne(l) PROVE AtMostOne(s)
  <2> SUFFICES ASSUME NEW i \in 1 .. n - p + 1, NEW j \in 1 .. n - p + 1,
                      s[i].do = "report", s[j].do = "report"
               PROVE  i = j
    BY <1>4 DEF AtMostOne, ReportsAt
  <2>1. i + p - 1 \in ReportsAt(l) /\ j + p - 1 \in ReportsAt(l)
    BY <1>2, <1>4, <1>6 DEF ReportsAt
  <2>2. i + p - 1 = j + p - 1
    BY <1>9, <2>1 DEF AtMostOne
  <2> QED
    BY <1>2, <2>2
<1>10. WellFormed(s)
  BY <1>4, <1>7, <1>8 DEF WellFormed
<1> QED
  BY <1>2, <1>3, <1>4, <1>5, <1>9, <1>10

\* The list without its head.
LEMMA TailOfList ==
    ASSUME NEW l, WellFormed(l), l # << >>
    PROVE  /\ WellFormed(Tail(l)) /\ ~HasCas(Tail(l))
           /\ AtMostOne(l) => AtMostOne(Tail(l))
           /\ AtMostOne(l) => Owed(Tail(l)) = IF Head(l).do = "report" THEN 0 ELSE Owed(l)
           /\ Head(l) = l[1] /\ Len(l) \in Nat \ {0}
           /\ AtMostOne(l) /\ Head(l).do = "report" => Owed(l) = 1
<1>1. IsList(l) /\ Len(l) \in Nat \ {0} /\ Head(l) = l[1]
  BY ListFacts DEF WellFormed
<1>2. PICK n \in Nat \ {0} : n = Len(l)
  BY <1>1
<1>3. PICK s : s = Tail(l)
  OBVIOUS
<1>4. IsList(s) /\ Len(s) = n - 1 /\ \A j \in 1 .. n - 1 : s[j] = l[j + 1]
  BY <1>1, <1>2, <1>3, TailFacts
<1>5. \A j \in 1 .. n - 1 : j + 1 \in 1 .. n /\ j + 1 > 1
  BY <1>2
<1>6. \A j \in 1 .. n - 1 : s[j].do \in Kinds /\ s[j].do # "cas"
  BY <1>2, <1>4, <1>5 DEF WellFormed
<1>7. Reported(s)
  <2> SUFFICES ASSUME NEW i \in 1 .. n - 1, s[i].do \in Requests
               PROVE  \E j \in i + 1 .. n - 1 : s[j].do = "report"
    BY <1>4 DEF Reported
  <2>1. PICK h \in i + 1 + 1 .. n : l[h].do = "report"
    BY <1>2, <1>4, <1>5 DEF WellFormed, Reported
  <2>2. h - 1 \in i + 1 .. n - 1 /\ h - 1 \in 1 .. n - 1 /\ (h - 1) + 1 = h
    BY <1>2, <2>1
  <2>3. s[h - 1] = l[h]
    BY <1>4, <2>2
  <2> QED
    BY <2>1, <2>2, <2>3
<1>8. WellFormed(s) /\ ~HasCas(s)
  BY <1>4, <1>6, <1>7 DEF WellFormed, HasCas
<1>9. \A j \in ReportsAt(s) : j \in 1 .. n - 1 /\ j + 1 \in ReportsAt(l)
  BY <1>2, <1>4, <1>5 DEF ReportsAt
<1>10. \A i \in ReportsAt(l) : i \in 1 .. n /\ (i # 1 => i - 1 \in ReportsAt(s))
  <2> SUFFICES ASSUME NEW i \in 1 .. n, l[i].do = "report", i # 1
               PROVE  i - 1 \in 1 .. n - 1 /\ s[i - 1].do = "report"
    BY <1>2, <1>4 DEF ReportsAt
  <2>1. i - 1 \in 1 .. n - 1 /\ (i - 1) + 1 = i
    OBVIOUS
  <2>2. s[i - 1] = l[i]
    BY <1>4, <2>1
  <2> QED
    BY <2>1, <2>2
<1>11. ASSUME AtMostOne(l)
       PROVE  AtMostOne(s) /\ Owed(s) = IF Head(l).do = "report" THEN 0 ELSE Owed(l)
  <2>1. AtMostOne(s)
    <3> SUFFICES ASSUME NEW i \in ReportsAt(s), NEW j \in ReportsAt(s) PROVE i = j
      BY DEF AtMostOne
    <3>1. i + 1 = j + 1 /\ i \in 1 .. n - 1 /\ j \in 1 .. n - 1
      BY <1>9, <1>11 DEF AtMostOne
    <3> QED
      BY <3>1
  <2>2. CASE Head(l).do = "report"
    <3>1. 1 \in ReportsAt(l)
      BY <1>1, <2>2 DEF ReportsAt
    <3>2. ReportsAt(s) = {}
      <4> SUFFICES ASSUME NEW j \in ReportsAt(s) PROVE FALSE
        OBVIOUS
      <4>1. j \in 1 .. n - 1 /\ j + 1 = 1
        BY <1>9, <1>11, <3>1 DEF AtMostOne
      <4> QED
        BY <4>1
    <3> QED
      BY <2>1, <2>2, <3>2 DEF Owed
  <2>3. CASE Head(l).do # "report"
    <3>1. 1 \notin ReportsAt(l)
      BY <1>1, <2>3 DEF ReportsAt
    <3>2. ReportsAt(s) = {} <=> ReportsAt(l) = {}
      BY <1>9, <1>10, <3>1
    <3> QED
      BY <2>1, <2>3, <3>2 DEF Owed
  <2> QED
    BY <2>2, <2>3
<1>12. Head(l).do = "report" => Owed(l) = 1
  BY <1>1 DEF Owed, ReportsAt
<1> QED
  BY <1>1, <1>3, <1>8, <1>11, <1>12

\* AfterCall goes on at the first report.
LEMMA AfterCallIsSuffix ==
    ASSUME NEW l, IsList(l), NEW r \in ReportsAt(l)
    PROVE  \E p \in 1 .. Len(l) : /\ l[p].do = "report"
                                  /\ \A j \in 1 .. Len(l) : l[j].do = "report" => p <= j
                                  /\ AfterCall(l) = SubSeq(l, p, Len(l))
<1>1. ReportsAt(l) \in SUBSET Nat /\ ReportsAt(l) # {}
  BY DEF ReportsAt
<1>2. PICK p \in ReportsAt(l) : \A j \in ReportsAt(l) : p <= j
  BY <1>1, LeastNatural
<1>3. Min(ReportsAt(l)) \in ReportsAt(l) /\ \A j \in ReportsAt(l) : Min(ReportsAt(l)) <= j
  <2>1. \E x \in ReportsAt(l) : \A y \in ReportsAt(l) : x =< y
    BY <1>2
  <2> QED
    BY <2>1 DEF Min
<1>4. PICK m : m = Min(ReportsAt(l))
  OBVIOUS
<1>5. SelectInSeq(l, LAMBDA x : x.do = "report") = m
  BY <1>1, <1>4 DEF SelectInSeq, ReportsAt
<1>6. AfterCall(l) = SubSeq(l, m, Len(l))
  BY <1>5 DEF AfterCall
<1> QED
  BY <1>3, <1>4, <1>6 DEF ReportsAt

\* At a request, what is left behind the call starts with its report.
LEMMA RestOfCall ==
    ASSUME NEW l, WellFormed(l), l # << >>, Head(l).do \in Requests
    PROVE  /\ WellFormed(AfterCall(l)) /\ AfterCall(l) # << >> /\ ~HasCas(AfterCall(l))
           /\ AtMostOne(l) => AtMostOne(AfterCall(l))
           /\ Owed(l) = 1 /\ Owed(AfterCall(l)) = 1
           /\ \E p \in 1 .. Len(l) :
                 /\ Len(AfterCall(l)) = Len(l) - p + 1
                 /\ \A j \in 1 .. Len(l) - p + 1 : AfterCall(l)[j] = l[j + p - 1]
                 /\ \A j \in 1 .. p - 1 : l[j].do # "report"
<1>1. IsList(l) /\ Len(l) \in Nat \ {0} /\ Head(l) = l[1]
  BY ListFacts DEF WellFormed
<1>2. 1 \in 1 .. Len(l) /\ l[1].do \in Requests
  BY <1>1
<1>3. PICK r \in ReportsAt(l) : TRUE
  <2>1. \E j \in 1 + 1 .. Len(l) : l[j].do = "report"
    BY <1>2 DEF WellFormed, Reported
  <2>2. \A j \in 1 + 1 .. Len(l) : j \in 1 .. Len(l)
    BY <1>1
  <2> QED
    BY <2>1, <2>2 DEF ReportsAt
<1>4. PICK p \in 1 .. Len(l) : /\ l[p].do = "report"
                               /\ \A j \in 1 .. Len(l) : l[j].do = "report" => p <= j
                               /\ AfterCall(l) = SubSeq(l, p, Len(l))
  BY <1>1, <1>3, AfterCallIsSuffix
<1>5. PICK s : s = SubSeq(l, p, Len(l))
  OBVIOUS
<1>6. /\ WellFormed(s) /\ s # << >>
      /\ Len(s) = Len(l) - p + 1
      /\ \A j \in 1 .. Len(s) : s[j] = l[j + p - 1]
      /\ AtMostOne(l) => AtMostOne(s)
  BY <1>5, Suffix
<1>7. PICK n \in Nat : n = Len(l)
  BY <1>1
<1>8. 1 \in 1 .. Len(s) /\ 1 + p - 1 = p
  BY <1>6, <1>7
<1>9. s[1].do = "report"
  BY <1>4, <1>6, <1>8
<1>10. ~HasCas(s)
  <2> SUFFICES ASSUME NEW i \in 1 .. Len(s), s[i].do = "cas" PROVE FALSE
    BY DEF HasCas
  <2>1. i > 1
    BY <1>6, <1>7, <1>9
  <2> QED
    BY <1>6, <2>1 DEF WellFormed
<1>11. Owed(s) = 1 /\ Owed(l) = 1
  BY <1>3, <1>8, <1>9 DEF Owed, ReportsAt
<1>12. \A j \in 1 .. p - 1 : l[j].do # "report"
  <2> SUFFICES ASSUME NEW j \in 1 .. p - 1, l[j].do = "report" PROVE FALSE
    OBVIOUS
  <2>1. j \in 1 .. Len(l) /\ ~(p <= j)
    BY <1>1, <1>4
  <2> QED
    BY <1>4, <2>1
<1> QED
  BY <1>4, <1>5, <1>6, <1>10, <1>11, <1>12

\* The list with a compare and exchange in place of its head.
LEMMA CasOfList ==
    ASSUME NEW l, WellFormed(l), l # << >>, NEW r, r.do = "cas"
    PROVE  LET s == << r >> \o Tail(l)
           IN  /\ WellFormed(s) /\ s # << >>
               /\ Head(s) = r /\ s[1] = r
               /\ AtMostOne(l) => AtMostOne(s) /\ Owed(s) = Owed(Tail(l))
               /\ Len(s) = Len(l)
               /\ \A i \in 1 .. Len(l) - 1 : s[i + 1] = l[i + 1]
<1>1. PICK t : t = Tail(l)
  OBVIOUS
<1>2. /\ WellFormed(t) /\ ~HasCas(t)
      /\ AtMostOne(l) => AtMostOne(t)
  BY <1>1, TailOfList
<1>3. IsList(l) /\ Len(l) \in Nat \ {0}
  BY ListFacts DEF WellFormed
<1>4. PICK n \in Nat : n = Len(l) - 1
  BY <1>3
<1>5. Len(t) = n /\ IsList(t) /\ \A i \in 1 .. n : t[i] = l[i + 1]
  BY <1>1, <1>3, <1>4, TailFacts
<1>6. PICK h : h = << r >>
  OBVIOUS
<1>7. IsList(h) /\ Len(h) = 1 /\ h[1] = r
  BY <1>6, SingleFacts
<1>8. PICK s : s = h \o t
  OBVIOUS
<1>9. IsList(s) /\ Len(s) = n + 1 /\ s[1] = r /\ \A i \in 1 .. n : s[i + 1] = t[i]
  <2>1. /\ IsList(s) /\ Len(s) = Len(h) + Len(t)
        /\ \A i \in 1 .. Len(h) : s[i] = h[i]
        /\ \A i \in 1 .. Len(t) : s[Len(h) + i] = t[i]
    <3>1. IsList(h) /\ IsList(t)
      BY <1>5, <1>7
    <3> QED
      BY <1>8, <3>1, ConcatFacts
  <2> QED
    BY <1>5, <1>7, <2>1
<1>10. s # << >> /\ Head(s) = s[1]
  BY <1>9, ListFacts
<1>11. \A i \in 1 .. n + 1 : i # 1 => i - 1 \in 1 .. n /\ (i - 1) + 1 = i
  OBVIOUS
<1>12. \A i \in 1 .. n + 1 : i # 1 => i - 1 \in 1 .. n /\ s[i] = t[i - 1]
  BY <1>9, <1>11
<1>13. \A i \in 1 .. n + 1 : s[i].do \in Kinds /\ (i > 1 => s[i].do # "cas")
  <2>1. "cas" \in Kinds
    BY DEF Kinds
  <2>2. \A i \in 1 .. n : t[i].do \in Kinds /\ t[i].do # "cas"
    BY <1>2, <1>5 DEF WellFormed, HasCas
  <2> QED
    BY <1>9, <1>12, <2>1, <2>2
<1>14. Reported(s)
  <2> SUFFICES ASSUME NEW i \in 1 .. n + 1, s[i].do \in Requests
               PROVE  \E j \in i + 1 .. n + 1 : s[j].do = "report"
    BY <1>9 DEF Reported
  <2>1. i # 1
    BY <1>9 DEF Requests
  <2>2. i - 1 \in 1 .. n /\ t[i - 1].do \in Requests
    BY <1>12, <2>1
  <2>3. PICK j \in (i - 1) + 1 .. n : t[j].do = "report"
    BY <1>2, <1>5, <2>2 DEF WellFormed, Reported
  <2>4. j + 1 \in i + 1 .. n + 1 /\ j \in 1 .. n
    BY <2>2, <2>3
  <2> QED
    BY <1>9, <2>3, <2>4
<1>15. WellFormed(s)
  BY <1>9, <1>13, <1>14 DEF WellFormed
<1>16. \A i \in ReportsAt(s) : i \in 1 .. n + 1 /\ i - 1 \in ReportsAt(t)
  BY <1>5, <1>9, <1>12 DEF ReportsAt
<1>17. \A i \in ReportsAt(t) : i + 1 \in ReportsAt(s)
  BY <1>5, <1>9 DEF ReportsAt
<1>18. AtMostOne(l) => AtMostOne(s)
  <2> SUFFICES ASSUME AtMostOne(t), NEW i \in ReportsAt(s), NEW j \in ReportsAt(s) PROVE i = j
    BY <1>2 DEF AtMostOne
  <2>1. i - 1 = j - 1 /\ i \in 1 .. n + 1 /\ j \in 1 .. n + 1
    BY <1>16 DEF AtMostOne
  <2> QED
    BY <2>1
<1>19. Owed(s) = Owed(t)
  BY <1>16, <1>17 DEF Owed
<1>20. Len(s) = Len(l) /\ \A i \in 1 .. Len(l) - 1 : s[i + 1] = l[i + 1]
  <2>1. n + 1 = Len(l)
    BY <1>3, <1>4
  <2>2. \A i \in 1 .. n : s[i + 1] = l[i + 1]
    BY <1>5, <1>9
  <2> QED
    BY <1>4, <1>9, <2>1, <2>2
<1> QED
  BY <1>1, <1>6, <1>8, <1>9, <1>10, <1>15, <1>18, <1>19, <1>20

-----------------------------------------------------------------------------
(* The threads. *)

MainFields == {"phase", "exit", "latch", "status", "printed", "rate", "next", "setting", "limiter",
               "faulty"}

ClientFields == {"pc", "list", "current", "status", "left"}

MeasurementFields == {"count", "failed", "latency_min", "least"}

Pcs == {"off", "init", "next", "sleep", "awake", "work", "countdown", "done"}

Busy == main.phase \in {"load", "run"}

ClientOK(c) ==
    /\ DOMAIN cl[c] = ClientFields
    /\ cl[c].pc \in Pcs
    /\ WellFormed(cl[c].list)
    /\ cl[c].pc = "work" <=> cl[c].list # << >>
    /\ cl[c].left \in Nat
    /\ cl[c].pc \in {"countdown", "done"} => cl[c].left = 0
    /\ ~Busy => cl[c].pc \in {"off", "done"}
    /\ Busy => cl[c].pc # "off"

\* What every proof needs to know of the state.
Threads ==
    /\ num_threads \in Nat \ {0}
    /\ do_load => props["recordcount"] \in Nat
    /\ do_transaction => props["operationcount"] \in Nat
    /\ DOMAIN main = MainFields
    /\ main.phase \in {"start", "load", "between", "run", "end"}
    /\ Busy => dbname \in BackEnds
    /\ DOMAIN cl = Clients
    /\ \A c \in Clients : ClientOK(c)
    /\ DOMAIN measurements = MeasurementFields
    /\ measurements.count \in Nat
    /\ main.phase = "between" => dbname \in BackEnds

LEMMA InitThreads == Init => Threads
<1> SUFFICES ASSUME Init PROVE Threads
  OBVIOUS
<1>1. PICK argv \in CommandLines : ParseCommandLine(argv).ok /\ props = ParseCommandLine(argv).props
  BY DEF Init
<1>2. /\ num_threads \in 1 .. MaxThreads
      /\ do_load => props["recordcount"] \in Nat
      /\ do_transaction => props["operationcount"] \in Nat
  BY <1>1, CommandLineAssumption DEF num_threads, do_load, do_transaction
<1>3. num_threads \in Nat \ {0}
  BY <1>2, YcsbAssumption
<1>4. /\ DOMAIN main = MainFields /\ main.phase = "start"
  BY DEF Init, MainFields
<1>5. ~Busy /\ main.phase \in {"start", "load", "between", "run", "end"} /\ main.phase # "between"
  BY <1>4 DEF Busy
<1>6. DOMAIN cl = Clients /\ \A c \in Clients : cl[c] = IdleClient
  BY DEF Init
<1>7. /\ DOMAIN IdleClient = ClientFields /\ IdleClient.pc = "off" /\ IdleClient.list = << >>
      /\ IdleClient.left = 0
  BY DEF IdleClient, ClientFields
<1>8. \A c \in Clients : ClientOK(c)
  <2> SUFFICES ASSUME NEW c \in Clients PROVE ClientOK(c)
    OBVIOUS
  <2>1. /\ DOMAIN cl[c] = ClientFields /\ cl[c].pc = "off" /\ cl[c].list = << >> /\ cl[c].left = 0
    BY <1>6, <1>7
  <2> QED
    BY <2>1, <1>5, NothingOwed DEF ClientOK, Pcs
<1>9. DOMAIN measurements = MeasurementFields /\ measurements.count = 0
  BY DEF Init, NoMeasurements, MeasurementFields
<1> QED
  BY <1>2, <1>3, <1>4, <1>5, <1>6, <1>8, <1>9 DEF Threads

\* Everything but the thread of c, the counts and what the database holds.
Apart(c) ==
    /\ props' = props
    /\ DOMAIN main' = MainFields
    /\ main'.phase = main.phase /\ main'.status = main.status /\ main'.printed = main.printed
    /\ DOMAIN cl' = Clients
    /\ \A d \in Clients \ {c} : cl'[d] = cl[d]
    /\ DOMAIN cl'[c] = ClientFields

\* A step of c that works on its list.
Works(c) ==
    /\ Running /\ cl[c].pc = "work"
    /\ cl'[c].pc = IF cl'[c].list = << >> THEN "next" ELSE "work"
    /\ cl'[c].left = cl[c].left

LEMMA WorkIsBusy ==
    ASSUME Threads, NEW c \in Clients, cl[c].pc \notin {"off", "done"}
    PROVE  Busy /\ dbname \in BackEnds
BY DEF Threads, ClientOK

LEMMA GoOnIs ==
    ASSUME Threads, NEW c \in Clients, NEW l
    PROVE  /\ DOMAIN GoOn(c, l) = ClientFields
           /\ GoOn(c, l).list = l
           /\ GoOn(c, l).pc = IF l = << >> THEN "next" ELSE "work"
           /\ GoOn(c, l).left = cl[c].left
           /\ GoOn(c, l).status = cl[c].status
<1>1. DOMAIN cl[c] = ClientFields
  BY DEF Threads, ClientOK
<1> QED
  BY <1>1 DEF GoOn, ClientFields

LEMMA ClientInitEffect ==
    ASSUME Threads, NEW c \in Clients, ClientInit(c)
    PROVE  /\ Apart(c) /\ main' = main /\ UNCHANGED <<keys, measurements>>
           /\ cl[c].pc = "init" /\ cl'[c].pc = "next"
           /\ cl'[c].list = cl[c].list /\ cl'[c].left = cl[c].left
           /\ db' = DbInit(db, c)
<1>1. DOMAIN cl[c] = ClientFields /\ DOMAIN cl = Clients /\ DOMAIN main = MainFields
  BY DEF Threads, ClientOK
<1> QED
  BY <1>1 DEF ClientInit, Apart, ClientFields

LEMMA WaitEffect ==
    ASSUME Threads, NEW c \in Clients, Consume(c) \/ Awake(c)
    PROVE  /\ Apart(c) /\ UNCHANGED <<db, keys, measurements>> /\ Running
           /\ main'.latch = main.latch
           /\ cl[c].pc \in {"next", "sleep"} /\ cl'[c].pc \in {"sleep", "awake"}
           /\ cl'[c].list = cl[c].list /\ cl'[c].left = cl[c].left
<1>1. DOMAIN cl[c] = ClientFields /\ DOMAIN cl = Clients /\ DOMAIN main = MainFields
  BY DEF Threads, ClientOK
<1>2. CASE Consume(c)
  <2>1. PICK pc \in {"sleep", "awake"} : cl' = [cl EXCEPT ![c].pc = pc]
    BY <1>2 DEF Consume
  <2>2. /\ DOMAIN cl' = Clients /\ \A d \in Clients \ {c} : cl'[d] = cl[d]
        /\ DOMAIN cl'[c] = ClientFields /\ cl'[c].pc = pc
        /\ cl'[c].list = cl[c].list /\ cl'[c].left = cl[c].left
    BY <1>1, <2>1 DEF ClientFields
  <2> QED
    BY <1>1, <1>2, <2>2 DEF Consume, Apart
<1>3. CASE Awake(c)
  <2>1. /\ DOMAIN cl' = Clients /\ \A d \in Clients \ {c} : cl'[d] = cl[d]
        /\ DOMAIN cl'[c] = ClientFields /\ cl'[c].pc = "awake"
        /\ cl'[c].list = cl[c].list /\ cl'[c].left = cl[c].left
    BY <1>1, <1>3 DEF ClientFields, Awake
  <2>2. /\ DOMAIN main' = MainFields
        /\ main'.phase = main.phase /\ main'.status = main.status /\ main'.printed = main.printed
        /\ main'.latch = main.latch
    BY <1>1, <1>3 DEF MainFields, Awake
  <2> QED
    BY <1>3, <2>1, <2>2 DEF Awake, Apart
<1> QED
  BY <1>2, <1>3

LEMMA BeginIs ==
    ASSUME Threads, NEW c \in Clients, NEW l, Begin(c, l)
    PROVE  /\ DOMAIN cl' = Clients /\ \A d \in Clients \ {c} : cl'[d] = cl[d]
           /\ DOMAIN cl'[c] = ClientFields
           /\ cl'[c].pc = "work" /\ cl'[c].list = l /\ cl'[c].left = cl[c].left - 1
<1>1. DOMAIN cl[c] = ClientFields /\ DOMAIN cl = Clients
  BY DEF Threads, ClientOK
<1> QED
  BY <1>1 DEF Begin, ClientFields

\* A new operation; an insert of the transaction phase takes the next key.
NewInsert(c) ==
    /\ main.phase = "run" /\ "insertproportion" \in op_chooser(props)
    /\ cl'[c].list = TransactionInsert(keys.counter, c)
    /\ keys' = [keys EXCEPT !.counter = @ + 1]

NewOther(c) ==
    /\ \A i \in 1 .. Len(cl'[c].list) : cl'[c].list[i].do # "ack"
    /\ keys' = keys \/ keys' = [keys EXCEPT !.load = @ + 1]

LEMMA ClientNextEffect ==
    ASSUME Threads, NEW c \in Clients, ClientNext(c)
    PROVE  /\ Apart(c) /\ main' = main /\ UNCHANGED <<db, measurements>> /\ Running
           /\ cl[c].pc \in {"next", "awake"} /\ cl'[c].pc = "work"
           /\ cl[c].left > 0 /\ cl'[c].left = cl[c].left - 1
           /\ Fresh(cl'[c].list)
           /\ \/ main.phase = "load"
              \/ "readmodifywriteproportion" \notin op_chooser(props)
              => OneReport(cl'[c].list)
           /\ NewInsert(c) \/ NewOther(c)
<1>1. dbname \in BackEnds /\ DOMAIN main = MainFields
  BY WorkIsBusy DEF ClientNext, Threads
<1>2. /\ Running /\ cl[c].left > 0 /\ cl[c].pc \in {"next", "awake"}
      /\ UNCHANGED <<props, main, db, measurements>>
  BY DEF ClientNext
<1>3. CASE /\ main.phase = "load"
           /\ Begin(c, DoInsert(keys.load, c))
           /\ keys' = [keys EXCEPT !.load = @ + 1]
  <2>1. PICK l : l = DoInsert(keys.load, c)
    OBVIOUS
  <2>2. Single(l)
    BY <1>1, <2>1, LoadLists
  <2>3. /\ DOMAIN cl' = Clients /\ \A d \in Clients \ {c} : cl'[d] = cl[d]
        /\ DOMAIN cl'[c] = ClientFields
        /\ cl'[c].pc = "work" /\ cl'[c].list = l /\ cl'[c].left = cl[c].left - 1
    BY <1>3, <2>1, BeginIs
  <2> QED
    BY <1>1, <1>2, <1>3, <2>2, <2>3 DEF Apart, Single, NewOther
<1>4. CASE /\ main.phase = "run"
           /\ \E list \in Transactions(c) : Begin(c, list)
           /\ UNCHANGED keys
  <2>1. PICK l \in Transactions(c) : Begin(c, l)
    BY <1>4
  <2>2. /\ Fresh(l)
        /\ \A i \in 1 .. Len(l) : l[i].do # "ack"
        /\ "readmodifywriteproportion" \notin op_chooser(props) => OneReport(l)
    BY <1>1, TransactionLists
  <2>3. /\ DOMAIN cl' = Clients /\ \A d \in Clients \ {c} : cl'[d] = cl[d]
        /\ DOMAIN cl'[c] = ClientFields
        /\ cl'[c].pc = "work" /\ cl'[c].list = l /\ cl'[c].left = cl[c].left - 1
    BY <2>1, BeginIs
  <2> QED
    BY <1>1, <1>2, <1>4, <2>2, <2>3 DEF Apart, NewOther
<1>5. CASE /\ main.phase = "run" /\ "insertproportion" \in op_chooser(props)
           /\ Begin(c, TransactionInsert(keys.counter, c))
           /\ keys' = [keys EXCEPT !.counter = @ + 1]
  <2>1. PICK l : l = TransactionInsert(keys.counter, c)
    OBVIOUS
  <2>2. Fresh(l) /\ OneReport(l)
    BY <1>1, <2>1, InsertLists
  <2>3. /\ DOMAIN cl' = Clients /\ \A d \in Clients \ {c} : cl'[d] = cl[d]
        /\ DOMAIN cl'[c] = ClientFields
        /\ cl'[c].pc = "work" /\ cl'[c].list = l /\ cl'[c].left = cl[c].left - 1
    BY <1>5, <2>1, BeginIs
  <2> QED
    BY <1>1, <1>2, <1>5, <2>1, <2>2, <2>3 DEF Apart, NewInsert
<1> QED
  BY <1>3, <1>4, <1>5 DEF ClientNext

\* A request, answered or refused.
LEMMA LibraryEffect ==
    ASSUME Threads, NEW c \in Clients, Library(c)
    PROVE  /\ Apart(c) /\ UNCHANGED <<keys, measurements>> /\ Works(c)
           /\ main'.latch = main.latch
           /\ Head(cl[c].list).do \in Requests
           /\ \/ cl'[c].list = Tail(cl[c].list)
              \/ cl'[c].list = AfterCall(cl[c].list)
           /\ db' = Answer(Head(cl[c].list), c).s
<1>1. DOMAIN cl[c] = ClientFields /\ DOMAIN cl = Clients /\ DOMAIN main = MainFields
  BY DEF Threads, ClientOK
<1>2. Running /\ cl[c].pc = "work" /\ IsRequest(Head(cl[c].list))
  BY DEF Library
<1>3. PICK a : a = Answer(Head(cl[c].list), c)
  OBVIOUS
<1>4. /\ db' = a.s /\ UNCHANGED <<props, keys, measurements>>
      /\ main' = [main EXCEPT !.exit = IF a.status = "throw" THEN "1" ELSE @]
  BY <1>3 DEF Library
<1>5. PICK l : l = IF a.status = "OK" THEN Tail(cl[c].list) ELSE AfterCall(cl[c].list)
  OBVIOUS
<1>6. cl' = [cl EXCEPT ![c] = [GoOn(c, l) EXCEPT !.current = a.current, !.status = a.status]]
  BY <1>3, <1>5 DEF Library
<1>7. PICK g : g = GoOn(c, l)
  OBVIOUS
<1>8. /\ DOMAIN g = ClientFields
      /\ g.list = l
      /\ g.pc = IF l = << >> THEN "next" ELSE "work"
      /\ g.left = cl[c].left
  BY <1>7, GoOnIs
<1>9. /\ DOMAIN cl' = Clients /\ \A d \in Clients \ {c} : cl'[d] = cl[d]
      /\ cl'[c] = [g EXCEPT !.current = a.current, !.status = a.status]
  BY <1>1, <1>6, <1>7
<1>10. /\ DOMAIN cl'[c] = ClientFields /\ cl'[c].list = l /\ cl'[c].left = cl[c].left
       /\ cl'[c].pc = IF l = << >> THEN "next" ELSE "work"
  BY <1>8, <1>9 DEF ClientFields
<1>11. /\ DOMAIN main' = MainFields
       /\ main'.phase = main.phase /\ main'.status = main.status /\ main'.printed = main.printed
       /\ main'.latch = main.latch
  BY <1>1, <1>4 DEF MainFields
<1>12. Head(cl[c].list).do \in Requests
  <2>1. WellFormed(cl[c].list) /\ cl[c].list # << >>
    BY <1>2 DEF Threads, ClientOK
  <2>2. Head(cl[c].list) = cl[c].list[1] /\ 1 \in 1 .. Len(cl[c].list)
    BY <2>1, TailOfList
  <2>3. Head(cl[c].list).do \in Kinds
    BY <2>1, <2>2 DEF WellFormed
  <2> QED
    BY <1>2, <2>3 DEF IsRequest, Kinds
<1> QED
  BY <1>2, <1>3, <1>4, <1>5, <1>9, <1>10, <1>11, <1>12 DEF Apart, Works

\* The process ends, or the list goes on behind the call.
LEMMA LibraryErrorEffect ==
    ASSUME Threads, NEW c \in Clients, LibraryError(c)
    PROVE  /\ Apart(c) /\ UNCHANGED <<db, keys, measurements>>
           /\ main'.latch = main.latch /\ dbname # "f3tree"
           /\ \/ cl' = cl
              \/ /\ Works(c) /\ Head(cl[c].list).do \in Requests
                 /\ cl'[c].list = AfterCall(cl[c].list)
<1>1. DOMAIN cl[c] = ClientFields /\ DOMAIN cl = Clients /\ DOMAIN main = MainFields
  BY DEF Threads, ClientOK
<1>2. Running /\ UNCHANGED <<props, db, keys, measurements>> /\ dbname # "f3tree"
  BY DEF LibraryError
<1>3. /\ DOMAIN main' = MainFields
      /\ main'.phase = main.phase /\ main'.status = main.status /\ main'.printed = main.printed
      /\ main'.latch = main.latch
  BY <1>1 DEF MainFields, LibraryError
<1>4. CASE dbname = "sqlite" /\ cl[c].pc = "work"
  <2>1. cl' = [cl EXCEPT ![c] = [GoOn(c, AfterCall(cl[c].list)) EXCEPT !.status = "Error"]]
    BY <1>1, <1>4 DEF LibraryError
  <2>2. PICK g : g = GoOn(c, AfterCall(cl[c].list))
    OBVIOUS
  <2>3. PICK l : l = AfterCall(cl[c].list)
    OBVIOUS
  <2>4. /\ DOMAIN g = ClientFields
        /\ g.list = l
        /\ g.pc = IF l = << >> THEN "next" ELSE "work"
        /\ g.left = cl[c].left
    BY <2>2, <2>3, GoOnIs
  <2>5. /\ DOMAIN cl' = Clients /\ \A d \in Clients \ {c} : cl'[d] = cl[d]
        /\ cl'[c] = [g EXCEPT !.status = "Error"]
    BY <1>1, <2>1, <2>2
  <2>6. /\ DOMAIN cl'[c] = ClientFields /\ cl'[c].list = l /\ cl'[c].left = cl[c].left
        /\ cl'[c].pc = IF l = << >> THEN "next" ELSE "work"
    BY <2>4, <2>5 DEF ClientFields
  <2>7. Head(cl[c].list).do \in Requests
    <3>1. WellFormed(cl[c].list) /\ cl[c].list # << >>
      BY <1>4 DEF Threads, ClientOK
    <3>2. Head(cl[c].list) = cl[c].list[1] /\ 1 \in 1 .. Len(cl[c].list)
      BY <3>1, TailOfList
    <3>3. Head(cl[c].list).do \in Kinds
      BY <3>1, <3>2 DEF WellFormed
    <3>4. IsRequest(Head(cl[c].list))
      BY <1>4 DEF LibraryError
    <3> QED
      BY <3>3, <3>4 DEF IsRequest, Kinds
  <2> QED
    BY <1>2, <1>3, <1>4, <2>3, <2>5, <2>6, <2>7 DEF Apart, Works
<1>5. CASE ~(dbname = "sqlite" /\ cl[c].pc = "work")
  <2>1. cl' = cl
    BY <1>5 DEF LibraryError
  <2> QED
    BY <1>1, <1>2, <1>3, <2>1 DEF Apart
<1> QED
  BY <1>4, <1>5

\* A step that leaves the list l to client c.
LEMMA GoesOn ==
    ASSUME Threads, NEW c \in Clients, cl[c].pc = "work", Running, NEW l,
           cl' = [cl EXCEPT ![c] = GoOn(c, l)], UNCHANGED <<props, main>>
    PROVE  Apart(c) /\ Works(c) /\ cl'[c].list = l /\ main' = main
<1>1. DOMAIN cl[c] = ClientFields /\ DOMAIN cl = Clients /\ DOMAIN main = MainFields
  BY DEF Threads, ClientOK
<1>2. PICK g : g = GoOn(c, l)
  OBVIOUS
<1>3. /\ DOMAIN g = ClientFields
      /\ g.list = l
      /\ g.pc = IF l = << >> THEN "next" ELSE "work"
      /\ g.left = cl[c].left
  BY <1>2, GoOnIs
<1>4. DOMAIN cl' = Clients /\ (\A d \in Clients \ {c} : cl'[d] = cl[d]) /\ cl'[c] = g
  BY <1>1, <1>2
<1> QED
  BY <1>1, <1>3, <1>4 DEF Apart, Works

\* The compare and exchange of a report.
CasOf(latency, prev) == [do |-> "cas", latency |-> latency, prev |-> prev]

LEMMA ReportEffect ==
    ASSUME Threads, NEW c \in Clients, Report(c)
    PROVE  \E latency \in Latencies :
             /\ Apart(c) /\ Works(c) /\ main' = main /\ UNCHANGED <<db, keys>>
             /\ Head(cl[c].list).do = "report"
             /\ cl'[c].list = IF measurements.latency_min > latency
                              THEN << CasOf(latency, measurements.latency_min) >> \o Tail(cl[c].list)
                              ELSE Tail(cl[c].list)
             /\ DOMAIN measurements' = MeasurementFields
             /\ measurements'.count = measurements.count + 1
             /\ measurements'.latency_min = measurements.latency_min
             /\ measurements'.least = Least(measurements.least, latency)
<1>1. PICK latency \in Latencies :
        LET prev == measurements.latency_min
            cas  == [do |-> "cas", latency |-> latency, prev |-> prev]
        IN  /\ Running /\ cl[c].pc = "work" /\ Head(cl[c].list).do = "report"
            /\ measurements' = [measurements EXCEPT !.count = @ + 1,
                                     !.failed = IF cl[c].status = "OK" THEN @ ELSE @ + 1,
                                     !.least = Least(@, latency)]
            /\ cl' = [cl EXCEPT ![c] = GoOn(c, IF prev > latency THEN <<cas>> \o Tail(@.list)
                                              ELSE Tail(@.list))]
            /\ UNCHANGED <<props, main, db, keys, written>>
  BY DEF Report
<1>2. PICK l : l = IF measurements.latency_min > latency
                   THEN << CasOf(latency, measurements.latency_min) >> \o Tail(cl[c].list)
                   ELSE Tail(cl[c].list)
  OBVIOUS
<1>3. DOMAIN cl = Clients /\ DOMAIN measurements = MeasurementFields
  BY DEF Threads
<1>4. cl' = [cl EXCEPT ![c] = GoOn(c, l)]
  BY <1>1, <1>2, <1>3 DEF CasOf
<1>5. /\ DOMAIN measurements' = MeasurementFields
      /\ measurements'.count = measurements.count + 1
      /\ measurements'.latency_min = measurements.latency_min
      /\ measurements'.least = Least(measurements.least, latency)
  BY <1>1, <1>3 DEF MeasurementFields
<1>6. Apart(c) /\ Works(c) /\ cl'[c].list = l /\ main' = main
  BY <1>1, <1>4, GoesOn
<1> QED
  BY <1>1, <1>2, <1>5, <1>6

LEMMA CasEffect ==
    ASSUME Threads, NEW c \in Clients, Cas(c)
    PROVE  LET r   == Head(cl[c].list)
               now == measurements.latency_min
           IN  /\ Apart(c) /\ Works(c) /\ main' = main /\ UNCHANGED <<db, keys>>
               /\ r.do = "cas"
               /\ DOMAIN measurements' = MeasurementFields
               /\ measurements'.count = measurements.count
               /\ measurements'.least = measurements.least
               /\ measurements'.latency_min = IF now = r.prev THEN r.latency ELSE now
               /\ cl'[c].list = IF now # r.prev /\ now > r.latency
                                THEN << [r EXCEPT !.prev = now] >> \o Tail(cl[c].list)
                                ELSE Tail(cl[c].list)
<1>1. PICK r : r = Head(cl[c].list)
  OBVIOUS
<1>2. PICK now : now = measurements.latency_min
  OBVIOUS
<1>3. DOMAIN cl = Clients /\ DOMAIN measurements = MeasurementFields
  BY DEF Threads
<1>4. Running /\ cl[c].pc = "work" /\ r.do = "cas" /\ UNCHANGED <<props, main, db, keys>>
  BY <1>1 DEF Cas
<1>5. PICK l : l = IF now # r.prev /\ now > r.latency
                   THEN << [r EXCEPT !.prev = now] >> \o Tail(cl[c].list)
                   ELSE Tail(cl[c].list)
  OBVIOUS
<1>6. cl' = [cl EXCEPT ![c] = GoOn(c, l)]
  BY <1>1, <1>2, <1>3, <1>5 DEF Cas
<1>7. measurements' = IF now = r.prev THEN [measurements EXCEPT !.latency_min = r.latency]
                      ELSE measurements
  BY <1>1, <1>2 DEF Cas
<1>8. /\ DOMAIN measurements' = MeasurementFields
      /\ measurements'.count = measurements.count
      /\ measurements'.least = measurements.least
      /\ measurements'.latency_min = IF now = r.prev THEN r.latency ELSE now
  BY <1>2, <1>3, <1>7 DEF MeasurementFields
<1>9. Apart(c) /\ Works(c) /\ cl'[c].list = l /\ main' = main
  BY <1>4, <1>6, GoesOn
<1> QED
  BY <1>1, <1>2, <1>4, <1>5, <1>8, <1>9

LEMMA AckEffect ==
    ASSUME Threads, NEW c \in Clients, Ack(c)
    PROVE  /\ Apart(c) /\ UNCHANGED <<db, measurements>>
           /\ Running /\ cl[c].pc = "work" /\ Head(cl[c].list).do = "ack"
           /\ main'.latch = main.latch
           /\ \/ /\ WindowIsFull(keys, Head(cl[c].list).key)
                 /\ cl' = cl /\ keys' = keys /\ main'.exit = "1"
              \/ /\ ~WindowIsFull(keys, Head(cl[c].list).key)
                 /\ Works(c) /\ main' = main /\ cl'[c].list = Tail(cl[c].list)
                 /\ keys' = Acknowledge(keys, Head(cl[c].list).key)
<1>1. DOMAIN cl[c] = ClientFields /\ DOMAIN cl = Clients /\ DOMAIN main = MainFields
  BY DEF Threads, ClientOK
<1>2. /\ Running /\ cl[c].pc = "work" /\ Head(cl[c].list).do = "ack"
      /\ UNCHANGED <<props, db, measurements>>
  BY DEF Ack
<1>3. CASE WindowIsFull(keys, Head(cl[c].list).key)
  <2>1. main' = [main EXCEPT !.exit = "1"] /\ cl' = cl /\ keys' = keys
    BY <1>3 DEF Ack
  <2>2. /\ DOMAIN main' = MainFields /\ main'.exit = "1"
        /\ main'.phase = main.phase /\ main'.status = main.status /\ main'.printed = main.printed
        /\ main'.latch = main.latch
    BY <1>1, <2>1 DEF MainFields
  <2> QED
    BY <1>1, <1>2, <1>3, <2>1, <2>2 DEF Apart
<1>4. CASE ~WindowIsFull(keys, Head(cl[c].list).key)
  <2>1. /\ main' = main /\ cl' = [cl EXCEPT ![c] = GoOn(c, Tail(cl[c].list))]
        /\ keys' = Acknowledge(keys, Head(cl[c].list).key)
    BY <1>1, <1>4 DEF Ack
  <2>2. Apart(c) /\ Works(c) /\ cl'[c].list = Tail(cl[c].list)
    BY <1>2, <2>1, GoesOn
  <2> QED
    BY <1>1, <1>2, <1>4, <2>1, <2>2 DEF Apart
<1> QED
  BY <1>3, <1>4

LEMMA ClientCleanupEffect ==
    ASSUME Threads, NEW c \in Clients, ClientCleanup(c)
    PROVE  /\ Apart(c) /\ main' = main /\ UNCHANGED <<keys, measurements>>
           /\ cl[c].pc = "next" /\ cl[c].left = 0 /\ cl'[c].pc = "countdown"
           /\ cl'[c].list = cl[c].list /\ cl'[c].left = cl[c].left
           /\ db' = IF main.phase = "run" \/ ~do_transaction THEN DbCleanup(db, c) ELSE db
<1>1. DOMAIN cl[c] = ClientFields /\ DOMAIN cl = Clients /\ DOMAIN main = MainFields
  BY DEF Threads, ClientOK
<1>2. /\ DOMAIN cl' = Clients /\ \A d \in Clients \ {c} : cl'[d] = cl[d]
      /\ DOMAIN cl'[c] = ClientFields /\ cl'[c].pc = "countdown"
      /\ cl'[c].list = cl[c].list /\ cl'[c].left = cl[c].left
  BY <1>1 DEF ClientCleanup, ClientFields
<1> QED
  BY <1>1, <1>2 DEF ClientCleanup, Apart

LEMMA CountDownEffect ==
    ASSUME Threads, NEW c \in Clients, CountDown(c)
    PROVE  /\ Apart(c) /\ UNCHANGED <<db, keys, measurements>>
           /\ main'.latch = main.latch - 1
           /\ cl[c].pc = "countdown" /\ cl'[c].pc = "done"
           /\ cl'[c].list = cl[c].list /\ cl'[c].left = cl[c].left
<1>1. DOMAIN cl[c] = ClientFields /\ DOMAIN cl = Clients /\ DOMAIN main = MainFields
  BY DEF Threads, ClientOK
<1>2. /\ DOMAIN cl' = Clients /\ \A d \in Clients \ {c} : cl'[d] = cl[d]
      /\ DOMAIN cl'[c] = ClientFields /\ cl'[c].pc = "done"
      /\ cl'[c].list = cl[c].list /\ cl'[c].left = cl[c].left
  BY <1>1 DEF CountDown, ClientFields
<1>3. /\ DOMAIN main' = MainFields /\ main'.latch = main.latch - 1
      /\ main'.phase = main.phase /\ main'.status = main.status /\ main'.printed = main.printed
  BY <1>1 DEF CountDown, MainFields
<1> QED
  BY <1>1, <1>2, <1>3 DEF CountDown, Apart

\* A phase starts: its threads are made, nothing has been counted.
Starts(phase, total, init_db) ==
    /\ props' = props /\ keys' = keys /\ db' = db
    /\ DOMAIN main' = MainFields
    /\ main'.phase = phase /\ main'.latch = num_threads /\ main'.status \in {"print", "off"}
    /\ DOMAIN cl' = Clients
    /\ \A c \in Clients : /\ DOMAIN cl'[c] = ClientFields
                          /\ cl'[c].pc = (IF init_db THEN "init" ELSE "next")
                          /\ cl'[c].list = << >> /\ cl'[c].left = ThreadOps(total, c)

LEMMA StartPhaseEffect ==
    ASSUME Threads, NEW phase, NEW total, NEW init_db, StartPhase(phase, total, init_db)
    PROVE  Starts(phase, total, init_db)
<1>1. DOMAIN main = MainFields
  BY DEF Threads
<1>2. /\ DOMAIN main' = MainFields
      /\ main'.phase = phase /\ main'.latch = num_threads /\ main'.status \in {"print", "off"}
  BY <1>1 DEF StartPhase, MainFields
<1>3. DOMAIN IdleClient = ClientFields /\ IdleClient.list = << >>
  BY DEF IdleClient, ClientFields
<1>4. DOMAIN cl' = Clients
  BY DEF StartPhase
<1>5. ASSUME NEW c \in Clients
      PROVE  /\ DOMAIN cl'[c] = ClientFields
             /\ cl'[c].pc = (IF init_db THEN "init" ELSE "next")
             /\ cl'[c].list = << >> /\ cl'[c].left = ThreadOps(total, c)
  <2>1. cl'[c] = [IdleClient EXCEPT !.pc = IF init_db THEN "init" ELSE "next",
                                    !.left = ThreadOps(total, c)]
    BY DEF StartPhase
  <2> QED
    BY <1>3, <2>1 DEF ClientFields
<1> QED
  BY <1>2, <1>4, <1>5 DEF StartPhase, Starts

\* main goes on without threads to start.
Turns(phase) ==
    /\ UNCHANGED <<props, cl, db, keys>>
    /\ DOMAIN main' = MainFields /\ main'.phase = phase
    /\ main'.status = main.status /\ main'.printed = main.printed /\ main'.latch = main.latch

LEMMA MainEffect ==
    ASSUME Threads, Main
    PROVE  \/ /\ main.phase = "start" /\ do_load /\ dbname \in BackEnds
              /\ Starts("load", props["recordcount"], TRUE) /\ UNCHANGED measurements
           \/ /\ main.phase = "start" /\ ~do_load /\ dbname \in BackEnds
              /\ Turns("between") /\ UNCHANGED measurements
           \/ main.phase = "start" /\ Turns("start") /\ UNCHANGED measurements
           \/ main.phase = "load" /\ Joined /\ Turns("between") /\ UNCHANGED measurements
           \/ /\ main.phase = "between" /\ do_transaction /\ measurements' = NoMeasurements
              /\ Starts("run", props["operationcount"], ~do_load)
           \/ main.phase = "between" /\ Turns("between") /\ measurements' = NoMeasurements
           \/ main.phase = "run" /\ Joined /\ Turns("end") /\ UNCHANGED measurements
<1>1. DOMAIN main = MainFields
  BY DEF Threads
<1>2. CASE MainStart
  <2>1. main.phase = "start" /\ UNCHANGED measurements
    BY <1>2 DEF MainStart
  <2>2. CASE ~((do_load \/ do_transaction) /\ dbname \in BackEnds /\ InitSucceeds(props))
    <3>1. main' = [main EXCEPT !.exit = "1"] /\ UNCHANGED <<props, cl, db, keys, written>>
      BY <1>2, <2>2 DEF MainStart
    <3>2. Turns("start")
      BY <1>1, <2>1, <3>1 DEF Turns, MainFields
    <3> QED
      BY <2>1, <3>2
  <2>3. CASE ((do_load \/ do_transaction) /\ dbname \in BackEnds /\ InitSucceeds(props)) /\ do_load
    <3>1. StartPhase("load", props["recordcount"], TRUE)
      BY <1>2, <2>3 DEF MainStart
    <3>2. Starts("load", props["recordcount"], TRUE)
      BY <3>1, StartPhaseEffect
    <3> QED
      BY <2>1, <2>3, <3>2
  <2>4. CASE ((do_load \/ do_transaction) /\ dbname \in BackEnds /\ InitSucceeds(props)) /\ ~do_load
    <3>1. main' = [main EXCEPT !.phase = "between"] /\ UNCHANGED <<props, cl, db, keys, written>>
      BY <1>2, <2>4 DEF MainStart
    <3>2. Turns("between")
      BY <1>1, <3>1 DEF Turns, MainFields
    <3> QED
      BY <2>1, <2>4, <3>2
  <2> QED
    BY <2>2, <2>3, <2>4
<1>3. CASE MainLoaded
  <2>1. Turns("between")
    BY <1>1, <1>3 DEF MainLoaded, Turns, MainFields
  <2> QED
    BY <1>3, <2>1 DEF MainLoaded
<1>4. CASE MainBetween
  <2>1. main.phase = "between" /\ measurements' = NoMeasurements
    BY <1>4 DEF MainBetween
  <2>2. CASE do_transaction /\ (rate_schedule = << >> \/ RateFileIsValid(rate_schedule))
    <3>1. StartPhase("run", props["operationcount"], ~do_load)
      BY <1>4, <2>2 DEF MainBetween
    <3>2. Starts("run", props["operationcount"], ~do_load)
      BY <3>1, StartPhaseEffect
    <3> QED
      BY <2>1, <2>2, <3>2
  <2>3. CASE ~(do_transaction /\ (rate_schedule = << >> \/ RateFileIsValid(rate_schedule)))
    <3>1. /\ main' = [main EXCEPT !.exit = IF do_transaction THEN "1" ELSE "0"]
          /\ UNCHANGED <<props, cl, db, keys, written>>
      BY <1>4, <2>3 DEF MainBetween
    <3>2. Turns("between")
      BY <1>1, <2>1, <3>1 DEF Turns, MainFields
    <3> QED
      BY <2>1, <3>2
  <2> QED
    BY <2>2, <2>3
<1>5. CASE MainEnd
  <2>1. Turns("end")
    BY <1>1, <1>5 DEF MainEnd, Turns, MainFields
  <2> QED
    BY <1>5, <2>1 DEF MainEnd
<1> QED
  BY <1>2, <1>3, <1>4, <1>5 DEF Main

LEMMA HelpersEffect ==
    ASSUME Threads, StatusThread \/ RateLimitThread
    PROVE  /\ UNCHANGED <<props, cl, db, keys, measurements>>
           /\ DOMAIN main' = MainFields /\ main'.phase = main.phase /\ main'.latch = main.latch
           /\ \/ main'.status = main.status /\ main'.printed = main.printed
              \/ main.status = "print" /\ main'.status = "await"
              \/ main.status = "await" /\ AwaitFor /\ main'.status = "last"
              \/ main.status = "await" /\ main'.status = "print"
              \/ /\ main.status = "last" /\ main'.status = "ended"
                 /\ main'.printed = measurements.count
<1>1. DOMAIN main = MainFields
  BY DEF Threads
<1>2. CASE StatusThread
  <2>1. /\ UNCHANGED <<props, cl, db, keys, measurements>>
        /\ DOMAIN main' = MainFields /\ main'.phase = main.phase /\ main'.latch = main.latch
    BY <1>1, <1>2 DEF StatusThread, MainFields
  <2>2. CASE main.status = "print"
    BY <1>1, <1>2, <2>1, <2>2 DEF StatusThread, MainFields
  <2>3. CASE main.status = "await"
    <3>1. main'.status = IF AwaitFor THEN "last" ELSE "print"
      BY <1>1, <1>2, <2>3 DEF StatusThread, MainFields
    <3> QED
      BY <2>1, <2>3, <3>1
  <2>4. CASE main.status = "last"
    BY <1>1, <1>2, <2>1, <2>4 DEF StatusThread, MainFields
  <2> QED
    BY <1>2, <2>2, <2>3, <2>4 DEF StatusThread
<1>3. CASE RateLimitThread
  BY <1>1, <1>3 DEF RateLimitThread, MainFields
<1> QED
  BY <1>2, <1>3

LEMMA SameProps ==
    ASSUME props' = props
    PROVE  /\ num_threads' = num_threads /\ Clients' = Clients /\ dbname' = dbname
           /\ do_load' = do_load /\ do_transaction' = do_transaction
           /\ op_chooser(props)' = op_chooser(props)
BY DEF num_threads, Clients, dbname, do_load, do_transaction

\* A client's share is a number.
LEMMA ShareIsNat ==
    ASSUME Threads, NEW total \in Nat, NEW c \in Clients
    PROVE  ThreadOps(total, c) \in Nat
<1>1. PICK n \in Nat \ {0} : n = num_threads
  BY DEF Threads
<1>2. total \div n \in Nat /\ total % n \in Nat /\ c \in Int
  BY <1>1 DEF Clients
<1> QED
  BY <1>1, <1>2 DEF ThreadOps

LEMMA ThreadsKept ==
    ASSUME Threads, NEW c \in Clients, Apart(c), Busy,
           cl'[c].pc \in Pcs \ {"off"}, WellFormed(cl'[c].list),
           cl'[c].pc = "work" <=> cl'[c].list # << >>,
           cl'[c].left \in Nat, cl'[c].pc \in {"countdown", "done"} => cl'[c].left = 0,
           DOMAIN measurements' = MeasurementFields, measurements'.count \in Nat
    PROVE  Threads'
<1>1. /\ num_threads' = num_threads /\ Clients' = Clients /\ dbname' = dbname
      /\ do_load' = do_load /\ do_transaction' = do_transaction
  BY SameProps DEF Apart
<1>2. main'.phase = main.phase /\ DOMAIN main' = MainFields /\ DOMAIN cl' = Clients /\ props' = props
  BY DEF Apart
<1>3. Busy' = Busy
  BY <1>2 DEF Busy
<1>4. \A d \in Clients : ClientOK(d)'
  <2> SUFFICES ASSUME NEW d \in Clients PROVE ClientOK(d)'
    OBVIOUS
  <2>1. CASE d = c
    BY <1>3, <2>1 DEF ClientOK, Apart
  <2>2. CASE d # c
    <3>1. cl'[d] = cl[d] /\ ClientOK(d)
      BY <2>2 DEF Apart, Threads
    <3> QED
      BY <1>3, <3>1 DEF ClientOK
  <2> QED
    BY <2>1, <2>2
<1> QED
  BY <1>1, <1>2, <1>3, <1>4 DEF Threads

\* The list moves on.
LEMMA ThreadsWork ==
    ASSUME Threads, NEW c \in Clients, Apart(c), Works(c), WellFormed(cl'[c].list),
           DOMAIN measurements' = MeasurementFields, measurements'.count \in Nat
    PROVE  Threads'
<1>1. Busy
  BY WorkIsBusy DEF Works
<1>2. cl[c].left \in Nat
  BY DEF Threads, ClientOK
<1>3. cl'[c].pc \in {"next", "work"} /\ (cl'[c].pc = "work" <=> cl'[c].list # << >>)
  BY DEF Works
<1>4. cl'[c].left \in Nat
  BY <1>2 DEF Works
<1> QED
  BY <1>1, <1>3, <1>4, ThreadsKept DEF Pcs

\* Other steps of a client leave the list alone, which is empty.
LEMMA ThreadsMove ==
    ASSUME Threads, NEW c \in Clients, Apart(c), cl[c].pc \notin {"off", "work", "done"},
           cl'[c].pc \in Pcs \ {"off", "work"}, cl'[c].list = cl[c].list,
           cl'[c].left = cl[c].left, cl'[c].pc \in {"countdown", "done"} => cl[c].left = 0,
           UNCHANGED measurements
    PROVE  Threads'
<1>1. Busy
  BY WorkIsBusy
<1>2. cl[c].left \in Nat /\ cl[c].list = << >> /\ WellFormed(cl[c].list)
  BY DEF Threads, ClientOK
<1>3. DOMAIN measurements' = MeasurementFields /\ measurements'.count \in Nat
  BY DEF Threads
<1>4. /\ cl'[c].pc \in Pcs \ {"off"} /\ WellFormed(cl'[c].list)
      /\ cl'[c].pc = "work" <=> cl'[c].list # << >>
      /\ cl'[c].left \in Nat /\ (cl'[c].pc \in {"countdown", "done"} => cl'[c].left = 0)
  BY <1>2
<1> QED
  BY <1>1, <1>3, <1>4, ThreadsKept

LEMMA ListAtWork ==
    ASSUME Threads, NEW c \in Clients, cl[c].pc = "work"
    PROVE  WellFormed(cl[c].list) /\ cl[c].list # << >>
BY DEF Threads, ClientOK

LEMMA MainThreads ==
    ASSUME Threads, Main
    PROVE  Threads'
<1>1. ASSUME Starts("load", props["recordcount"], TRUE), do_load, dbname \in BackEnds,
             UNCHANGED measurements
      PROVE  Threads'
  <2>1. PICK total : total = props["recordcount"]
    OBVIOUS
  <2>2. total \in Nat /\ props' = props /\ main'.phase = "load" /\ DOMAIN main' = MainFields
        /\ DOMAIN cl' = Clients
    BY <1>1, <2>1 DEF Threads, Starts
  <2>3. /\ num_threads' = num_threads /\ Clients' = Clients /\ dbname' = dbname
        /\ do_load' = do_load /\ do_transaction' = do_transaction
    BY <2>2, SameProps
  <2>4. Busy'
    BY <2>2 DEF Busy
  <2>5. \A c \in Clients : ClientOK(c)'
    <3> SUFFICES ASSUME NEW c \in Clients PROVE ClientOK(c)'
      OBVIOUS
    <3>1. /\ DOMAIN cl'[c] = ClientFields /\ cl'[c].pc = "init"
          /\ cl'[c].list = << >> /\ cl'[c].left = ThreadOps(total, c)
      BY <1>1, <2>1 DEF Starts
    <3>2. cl'[c].left \in Nat
      BY <2>2, <3>1, ShareIsNat
    <3> QED
      BY <2>4, <3>1, <3>2, NothingOwed DEF ClientOK, Pcs
  <2> QED
    BY <1>1, <2>2, <2>3, <2>5 DEF Threads
<1>2. ASSUME Starts("run", props["operationcount"], ~do_load), do_transaction, main.phase = "between",
             measurements' = NoMeasurements
      PROVE  Threads'
  <2>1. PICK total : total = props["operationcount"]
    OBVIOUS
  <2>2. total \in Nat /\ props' = props /\ main'.phase = "run" /\ DOMAIN main' = MainFields
        /\ DOMAIN cl' = Clients /\ dbname \in BackEnds
    BY <1>2, <2>1 DEF Threads, Starts
  <2>3. /\ num_threads' = num_threads /\ Clients' = Clients /\ dbname' = dbname
        /\ do_load' = do_load /\ do_transaction' = do_transaction
    BY <2>2, SameProps
  <2>4. Busy'
    BY <2>2 DEF Busy
  <2>5. \A c \in Clients : ClientOK(c)'
    <3> SUFFICES ASSUME NEW c \in Clients PROVE ClientOK(c)'
      OBVIOUS
    <3>1. /\ DOMAIN cl'[c] = ClientFields /\ cl'[c].pc \in {"init", "next"}
          /\ cl'[c].list = << >> /\ cl'[c].left = ThreadOps(total, c)
      BY <1>2, <2>1 DEF Starts
    <3>2. cl'[c].left \in Nat
      BY <2>2, <3>1, ShareIsNat
    <3> QED
      BY <2>4, <3>1, <3>2, NothingOwed DEF ClientOK, Pcs
  <2>6. DOMAIN measurements' = MeasurementFields /\ measurements'.count \in Nat
    BY <1>2 DEF NoMeasurements, MeasurementFields
  <2> QED
    BY <2>2, <2>3, <2>5, <2>6 DEF Threads
<1>3. ASSUME NEW phase \in {"start", "between", "end"}, Turns(phase),
             phase = "between" => dbname \in BackEnds,
             phase \in {"between", "end"} /\ Busy => Joined,
             Busy => phase # "start",
             measurements' = measurements \/ measurements' = NoMeasurements
      PROVE  Threads'
  <2>1. props' = props /\ main'.phase = phase /\ DOMAIN main' = MainFields /\ cl' = cl
    BY <1>3 DEF Turns
  <2>2. /\ num_threads' = num_threads /\ Clients' = Clients /\ dbname' = dbname
        /\ do_load' = do_load /\ do_transaction' = do_transaction
    BY <2>1, SameProps
  <2>3. ~Busy'
    BY <2>1 DEF Busy
  <2>4. \A c \in Clients : ClientOK(c)'
    <3> SUFFICES ASSUME NEW c \in Clients PROVE ClientOK(c)'
      OBVIOUS
    <3>1. cl[c].pc \in {"off", "done"}
      BY <1>3 DEF Threads, ClientOK, Joined
    <3> QED
      BY <2>1, <2>3, <3>1 DEF Threads, ClientOK
  <2>5. DOMAIN measurements' = MeasurementFields /\ measurements'.count \in Nat
    BY <1>3 DEF NoMeasurements, MeasurementFields, Threads
  <2> QED
    BY <1>3, <2>1, <2>2, <2>3, <2>4, <2>5 DEF Threads
<1>4. CASE main.phase = "start" /\ ~do_load /\ dbname \in BackEnds
              /\ Turns("between") /\ UNCHANGED measurements
  BY <1>3, <1>4 DEF Busy
<1>5. CASE main.phase = "start" /\ Turns("start") /\ UNCHANGED measurements
  BY <1>3, <1>5 DEF Busy
<1>6. CASE main.phase = "load" /\ Joined /\ Turns("between") /\ UNCHANGED measurements
  BY <1>3, <1>6 DEF Busy, Threads
<1>7. CASE main.phase = "between" /\ Turns("between") /\ measurements' = NoMeasurements
  BY <1>3, <1>7 DEF Busy, Threads
<1>8. CASE main.phase = "run" /\ Joined /\ Turns("end") /\ UNCHANGED measurements
  BY <1>3, <1>8 DEF Busy
<1> QED
  BY <1>1, <1>2, <1>4, <1>5, <1>6, <1>7, <1>8, MainEffect

LEMMA ClientThreads ==
    ASSUME Threads, NEW c \in Clients, ClientThread(c) \/ LibraryError(c)
    PROVE  Threads'
<1>1. DOMAIN measurements = MeasurementFields /\ measurements.count \in Nat
  BY DEF Threads
<1>2. CASE ClientInit(c)
  BY <1>2, ClientInitEffect, ThreadsMove DEF Pcs
<1>3. CASE Consume(c) \/ Awake(c)
  BY <1>3, WaitEffect, ThreadsMove DEF Pcs
<1>4. CASE ClientNext(c)
  <2>1. /\ Apart(c) /\ UNCHANGED measurements
        /\ cl[c].pc \in {"next", "awake"} /\ cl'[c].pc = "work"
        /\ cl[c].left > 0 /\ cl'[c].left = cl[c].left - 1
        /\ Fresh(cl'[c].list)
    BY <1>4, ClientNextEffect
  <2>2. WellFormed(cl'[c].list) /\ cl'[c].list # << >>
    BY <2>1, FreshIsWellFormed DEF Fresh
  <2>3. cl'[c].left \in Nat
    BY <2>1 DEF Threads, ClientOK
  <2>4. Busy
    BY <2>1, WorkIsBusy
  <2> QED
    BY <1>1, <2>1, <2>2, <2>3, <2>4, ThreadsKept DEF Pcs
<1>5. CASE Library(c)
  <2>1. /\ Apart(c) /\ Works(c) /\ UNCHANGED measurements
        /\ Head(cl[c].list).do \in Requests
        /\ cl'[c].list \in {Tail(cl[c].list), AfterCall(cl[c].list)}
    BY <1>5, LibraryEffect
  <2>2. WellFormed(cl'[c].list)
    BY <2>1, ListAtWork, TailOfList, RestOfCall DEF Works
  <2> QED
    BY <1>1, <2>1, <2>2, ThreadsWork
<1>6. CASE LibraryError(c)
  <2>1. Apart(c) /\ UNCHANGED measurements
    BY <1>6, LibraryErrorEffect
  <2>2. CASE cl' = cl
    <3>1. cl[c].pc \in {"init", "work"}
      BY <1>6 DEF LibraryError
    <3>2. Busy
      BY <3>1, WorkIsBusy
    <3>3. ClientOK(c)
      BY DEF Threads
    <3>4. /\ cl'[c].pc \in Pcs \ {"off"} /\ WellFormed(cl'[c].list)
          /\ cl'[c].pc = "work" <=> cl'[c].list # << >>
          /\ cl'[c].left \in Nat /\ (cl'[c].pc \in {"countdown", "done"} => cl'[c].left = 0)
      BY <2>2, <3>1, <3>3 DEF ClientOK
    <3> QED
      BY <1>1, <2>1, <3>2, <3>4, ThreadsKept
  <2>3. CASE /\ Works(c) /\ Head(cl[c].list).do \in Requests
             /\ cl'[c].list = AfterCall(cl[c].list)
    <3>1. WellFormed(cl'[c].list)
      BY <2>3, ListAtWork, RestOfCall DEF Works
    <3> QED
      BY <1>1, <2>1, <2>3, <3>1, ThreadsWork
  <2> QED
    BY <1>6, <2>2, <2>3, LibraryErrorEffect
<1>7. CASE Report(c)
  <2>1. PICK latency \in Latencies :
             /\ Apart(c) /\ Works(c)
             /\ cl'[c].list = IF measurements.latency_min > latency
                              THEN << CasOf(latency, measurements.latency_min) >> \o Tail(cl[c].list)
                              ELSE Tail(cl[c].list)
             /\ DOMAIN measurements' = MeasurementFields
             /\ measurements'.count = measurements.count + 1
    BY <1>7, ReportEffect
  <2>2. PICK r : r = CasOf(latency, measurements.latency_min)
    OBVIOUS
  <2>3. r.do = "cas"
    BY <2>2 DEF CasOf
  <2>4. WellFormed(cl[c].list) /\ cl[c].list # << >>
    BY <2>1, ListAtWork DEF Works
  <2>5. WellFormed(Tail(cl[c].list)) /\ WellFormed(<< r >> \o Tail(cl[c].list))
    BY <2>3, <2>4, TailOfList, CasOfList
  <2>6. WellFormed(cl'[c].list)
    BY <2>1, <2>2, <2>5
  <2> QED
    BY <1>1, <2>1, <2>6, ThreadsWork
<1>8. CASE Cas(c)
  <2>1. PICK r : r = Head(cl[c].list)
    OBVIOUS
  <2>2. PICK q : q = [r EXCEPT !.prev = measurements.latency_min]
    OBVIOUS
  <2>3. /\ Apart(c) /\ Works(c) /\ r.do = "cas"
        /\ DOMAIN measurements' = MeasurementFields
        /\ measurements'.count = measurements.count
        /\ \/ cl'[c].list = << q >> \o Tail(cl[c].list)
           \/ cl'[c].list = Tail(cl[c].list)
    BY <1>8, <2>1, <2>2, CasEffect
  <2>4. q.do = "cas"
    BY <2>2, <2>3
  <2>5. WellFormed(cl[c].list) /\ cl[c].list # << >>
    BY <2>3, ListAtWork DEF Works
  <2>6. WellFormed(Tail(cl[c].list)) /\ WellFormed(<< q >> \o Tail(cl[c].list))
    BY <2>4, <2>5, TailOfList, CasOfList
  <2>7. WellFormed(cl'[c].list)
    BY <2>3, <2>6
  <2> QED
    BY <1>1, <2>3, <2>7, ThreadsWork
<1>9. CASE Ack(c)
  <2>1. Apart(c) /\ UNCHANGED measurements /\ cl[c].pc = "work"
    BY <1>9, AckEffect
  <2>2. CASE cl' = cl
    <3>1. Busy
      BY <2>1, WorkIsBusy
    <3>2. ClientOK(c)
      BY DEF Threads
    <3>3. /\ cl'[c].pc \in Pcs \ {"off"} /\ WellFormed(cl'[c].list)
          /\ cl'[c].pc = "work" <=> cl'[c].list # << >>
          /\ cl'[c].left \in Nat /\ (cl'[c].pc \in {"countdown", "done"} => cl'[c].left = 0)
      BY <2>1, <2>2, <3>2 DEF ClientOK
    <3> QED
      BY <1>1, <2>1, <3>1, <3>3, ThreadsKept
  <2>3. CASE Works(c) /\ cl'[c].list = Tail(cl[c].list)
    <3>1. WellFormed(cl'[c].list)
      BY <2>1, <2>3, ListAtWork, TailOfList
    <3> QED
      BY <1>1, <2>1, <2>3, <3>1, ThreadsWork
  <2> QED
    BY <1>9, <2>2, <2>3, AckEffect
<1>10. CASE ClientCleanup(c)
  BY <1>10, ClientCleanupEffect, ThreadsMove DEF Pcs
<1>11. CASE CountDown(c)
  <2>1. cl[c].left = 0
    BY <1>11 DEF CountDown, Threads, ClientOK
  <2> QED
    BY <1>11, <2>1, CountDownEffect, ThreadsMove DEF Pcs
<1> QED
  BY <1>2, <1>3, <1>4, <1>5, <1>6, <1>7, <1>8, <1>9, <1>10, <1>11 DEF ClientThread

\* Steps that leave the clients and the counts alone.
LEMMA ThreadsStay ==
    ASSUME Threads, UNCHANGED <<props, cl, measurements>>,
           DOMAIN main' = MainFields, main'.phase = main.phase
    PROVE  Threads'
<1>1. /\ num_threads' = num_threads /\ Clients' = Clients /\ dbname' = dbname
      /\ do_load' = do_load /\ do_transaction' = do_transaction
  BY SameProps
<1>2. Busy' = Busy
  BY DEF Busy
<1>3. \A d \in Clients : ClientOK(d)'
  BY <1>2 DEF Threads, ClientOK
<1> QED
  BY <1>1, <1>2, <1>3 DEF Threads

\* What each client thread still has to do is well formed in every state: lists of steps the
\* adapters make, every request of the back end followed by the report of its call.
THEOREM ThreadsAlways == Spec => []Threads
<1>1. Threads /\ [Next]_vars => Threads'
  <2> SUFFICES ASSUME Threads, [Next]_vars PROVE Threads'
    OBVIOUS
  <2>1. CASE Main
    BY <2>1, MainThreads
  <2>2. CASE \E c \in Clients : ClientThread(c) \/ LibraryError(c)
    BY <2>2, ClientThreads
  <2>3. CASE StatusThread \/ RateLimitThread
    BY <2>3, HelpersEffect, ThreadsStay
  <2>4. CASE Ended \/ UNCHANGED vars
    <3>1. UNCHANGED vars
      BY <2>4 DEF Ended
    <3>2. UNCHANGED <<props, cl, measurements>> /\ main' = main /\ DOMAIN main = MainFields
      BY <3>1 DEF vars, Threads
    <3> QED
      BY <3>2, ThreadsStay
  <2> QED
    BY <2>1, <2>2, <2>3, <2>4 DEF Next
<1> QED
  BY <1>1, InitThreads, PTL DEF Spec

-----------------------------------------------------------------------------
(* The status thread. *)

\* Every step of a client is one of a thread that runs; only CountDown ends it.
LEMMA ClientStepFacts ==
    ASSUME Threads, NEW c \in Clients, ClientThread(c) \/ LibraryError(c)
    PROVE  /\ Apart(c) /\ cl[c].pc \notin {"off", "done"}
           /\ \/ CountDown(c)
              \/ main'.latch = main.latch /\ cl'[c].pc # "done"
<1>1. CASE ClientInit(c)
  BY <1>1, ClientInitEffect
<1>2. CASE Consume(c) \/ Awake(c)
  BY <1>2, WaitEffect
<1>3. CASE ClientNext(c)
  BY <1>3, ClientNextEffect
<1>4. CASE Library(c)
  BY <1>4, LibraryEffect DEF Works
<1>5. CASE LibraryError(c)
  <2>1. cl[c].pc \in {"init", "work"}
    BY <1>5 DEF LibraryError
  <2> QED
    BY <1>5, <2>1, LibraryErrorEffect DEF Works
<1>6. CASE Report(c)
  BY <1>6, ReportEffect DEF Works
<1>7. CASE Cas(c)
  BY <1>7, CasEffect DEF Works
<1>8. CASE Ack(c)
  BY <1>8, AckEffect DEF Works
<1>9. CASE ClientCleanup(c)
  BY <1>9, ClientCleanupEffect
<1>10. CASE CountDown(c)
  BY <1>10, CountDownEffect
<1> QED
  BY <1>1, <1>2, <1>3, <1>4, <1>5, <1>6, <1>7, <1>8, <1>9, <1>10 DEF ClientThread

NotDone == {c \in Clients : cl[c].pc # "done"}

\* The latch counts the threads that run, so that no thread runs once the
\* status thread has seen it open.
StatusInv ==
    /\ Busy => main.latch = Cardinality(NotDone)
    /\ ~Busy => main.status \in {"off", "ended"}
    /\ main.status \in {"last", "ended"} => NotDone = {}
    /\ LastStatusCountsAll

LEMMA ClientsFinite ==
    ASSUME Threads
    PROVE  /\ IsFiniteSet(Clients) /\ Cardinality(Clients) = num_threads
           /\ \A S \in SUBSET Clients : IsFiniteSet(S) /\ Cardinality(S) \in Nat
<1>1. num_threads \in Nat \ {0}
  BY DEF Threads
<1>2. IsFiniteSet(Clients) /\ Cardinality(Clients) = num_threads
  BY <1>1, FS_Interval DEF Clients
<1> QED
  BY <1>2, FS_Subset, FS_CardinalityType

LEMMA StatusStep == Threads /\ StatusInv /\ [Next]_vars => StatusInv'
<1> SUFFICES ASSUME Threads, StatusInv, [Next]_vars PROVE StatusInv'
  OBVIOUS
<1>1. ASSUME NEW phase \in {"load", "run"}, NEW total, NEW init_db, Starts(phase, total, init_db)
      PROVE  StatusInv'
  <2>1. /\ main'.latch = num_threads /\ main'.status \in {"print", "off"}
        /\ props' = props /\ main'.phase = phase
    BY <1>1 DEF Starts
  <2>2. Busy'
    BY <2>1 DEF Busy
  <2>3. Clients' = Clients
    BY <2>1, SameProps
  <2>4. NotDone' = Clients
    BY <1>1, <2>3 DEF Starts, NotDone
  <2>5. main'.latch = Cardinality(NotDone')
    BY <2>1, <2>4, ClientsFinite
  <2> QED
    BY <2>1, <2>2, <2>5 DEF StatusInv, LastStatusCountsAll
<1>2. ASSUME NEW phase \in {"start", "between", "end"}, Turns(phase),
             Busy => Joined,
             phase = "between" \/ measurements' = measurements,
             main.phase # "between" \/ phase = "between"
      PROVE  StatusInv'
  <2>1. /\ cl' = cl /\ props' = props /\ main'.phase = phase
        /\ main'.status = main.status /\ main'.printed = main.printed
    BY <1>2 DEF Turns
  <2>2. ~Busy' /\ NotDone' = NotDone
    BY <2>1, SameProps DEF Busy, NotDone
  <2>3. main.status \in {"off", "ended"}
    BY <1>2 DEF StatusInv, Joined
  <2> QED
    BY <1>2, <2>1, <2>2, <2>3 DEF StatusInv, LastStatusCountsAll
<1>3. CASE Main
  <2>1. CASE /\ main.phase = "start" /\ do_load /\ dbname \in BackEnds
             /\ Starts("load", props["recordcount"], TRUE) /\ UNCHANGED measurements
    BY <1>1, <2>1
  <2>2. CASE /\ main.phase = "start" /\ ~do_load /\ dbname \in BackEnds
             /\ Turns("between") /\ UNCHANGED measurements
    BY <1>2, <2>2 DEF Busy
  <2>3. CASE main.phase = "start" /\ Turns("start") /\ UNCHANGED measurements
    BY <1>2, <2>3 DEF Busy
  <2>4. CASE main.phase = "load" /\ Joined /\ Turns("between") /\ UNCHANGED measurements
    BY <1>2, <2>4
  <2>5. CASE /\ main.phase = "between" /\ do_transaction /\ measurements' = NoMeasurements
             /\ Starts("run", props["operationcount"], ~do_load)
    BY <1>1, <2>5
  <2>6. CASE main.phase = "between" /\ Turns("between") /\ measurements' = NoMeasurements
    BY <1>2, <2>6 DEF Busy
  <2>7. CASE main.phase = "run" /\ Joined /\ Turns("end") /\ UNCHANGED measurements
    BY <1>2, <2>7
  <2> QED
    BY <1>3, <2>1, <2>2, <2>3, <2>4, <2>5, <2>6, <2>7, MainEffect
<1>4. ASSUME NEW c \in Clients, ClientThread(c) \/ LibraryError(c) PROVE StatusInv'
  <2>1. /\ Apart(c) /\ cl[c].pc \notin {"off", "done"}
        /\ CountDown(c) \/ (main'.latch = main.latch /\ cl'[c].pc # "done")
    BY <1>4, ClientStepFacts
  <2>2. Busy /\ c \in NotDone
    BY <2>1, WorkIsBusy DEF NotDone
  <2>3. main.status \notin {"last", "ended"}
    BY <2>2 DEF StatusInv
  <2>4. /\ main'.status = main.status /\ Busy' = Busy /\ Clients' = Clients
    BY <2>1, SameProps DEF Apart, Busy
  <2>5. main'.latch = Cardinality(NotDone')
    <3>1. CASE CountDown(c)
      <4>1. NotDone' = NotDone \ {c}
        BY <2>1, <2>4, <3>1, CountDownEffect DEF NotDone, Apart
      <4>2. IsFiniteSet(NotDone)
        BY ClientsFinite DEF NotDone
      <4>3. Cardinality(NotDone \ {c}) = Cardinality(NotDone) - 1
        BY <2>2, <4>2, FS_RemoveElement
      <4>4. main'.latch = main.latch - 1
        BY <3>1, CountDownEffect
      <4> QED
        BY <2>2, <4>1, <4>3, <4>4 DEF StatusInv
    <3>2. CASE main'.latch = main.latch /\ cl'[c].pc # "done"
      <4>1. NotDone' = NotDone
        BY <2>1, <2>4, <3>2 DEF NotDone, Apart
      <4> QED
        BY <2>2, <3>2, <4>1 DEF StatusInv
    <3> QED
      BY <2>1, <3>1, <3>2
  <2> QED
    BY <2>2, <2>3, <2>4, <2>5 DEF StatusInv, LastStatusCountsAll
<1>5. CASE StatusThread \/ RateLimitThread
  <2>1. /\ UNCHANGED <<props, cl, measurements>>
        /\ main'.phase = main.phase /\ main'.latch = main.latch
    BY <1>5, HelpersEffect
  <2>2. Busy' = Busy /\ NotDone' = NotDone
    BY <2>1, SameProps DEF Busy, NotDone
  <2>3. ASSUME main.status = "await", AwaitFor PROVE NotDone = {}
    <3>1. Busy
      BY <2>3 DEF StatusInv
    <3>2. Cardinality(NotDone) <= 0
      BY <2>3, <3>1 DEF StatusInv, AwaitFor
    <3>3. IsFiniteSet(NotDone) /\ Cardinality(NotDone) \in Nat
      BY ClientsFinite DEF NotDone
    <3> QED
      BY <3>2, <3>3, FS_EmptySet
  <2>4. CASE main'.status = main.status /\ main'.printed = main.printed
    BY <2>1, <2>2, <2>4 DEF StatusInv, LastStatusCountsAll
  <2>5. CASE \/ main.status = "print" /\ main'.status = "await"
             \/ main.status = "await" /\ main'.status = "print"
    <3>1. Busy
      BY <2>5 DEF StatusInv
    <3> QED
      BY <2>1, <2>2, <2>5, <3>1 DEF StatusInv, LastStatusCountsAll
  <2>6. CASE main.status = "await" /\ AwaitFor /\ main'.status = "last"
    <3>1. Busy
      BY <2>6 DEF StatusInv
    <3> QED
      BY <2>1, <2>2, <2>3, <2>6, <3>1 DEF StatusInv, LastStatusCountsAll
  <2>7. CASE /\ main.status = "last" /\ main'.status = "ended"
             /\ main'.printed = measurements.count
    <3>1. Busy
      BY <2>7 DEF StatusInv
    <3> QED
      BY <2>1, <2>2, <2>7, <3>1 DEF StatusInv, LastStatusCountsAll
  <2> QED
    BY <1>5, <2>4, <2>5, <2>6, <2>7, HelpersEffect
<1>6. CASE Ended \/ UNCHANGED vars
  <2>1. UNCHANGED vars
    BY <1>6 DEF Ended
  <2>2. UNCHANGED <<props, main, cl, measurements>>
    BY <2>1 DEF vars
  <2>3. NotDone' = NotDone /\ Busy' = Busy
    BY <2>2, SameProps DEF NotDone, Busy
  <2> QED
    BY <2>2, <2>3 DEF StatusInv, LastStatusCountsAll
<1> QED
  BY <1>3, <1>4, <1>5, <1>6 DEF Next

\* The last line of the status thread counts every call of the phase
\* (LastStatusCountsAll): the latch opens when no client runs any more
\* (StatusThread, CountDownLatch).
THEOREM StatusIsLast == Spec => []LastStatusCountsAll
<1>1. Init => StatusInv
  <2> SUFFICES ASSUME Init PROVE StatusInv
    OBVIOUS
  <2>1. main.phase = "start" /\ main.status = "off"
    BY DEF Init
  <2> QED
    BY <2>1 DEF StatusInv, LastStatusCountsAll, Busy
<1>2. StatusInv => LastStatusCountsAll
  BY DEF StatusInv
<1> QED
  BY <1>1, <1>2, StatusStep, ThreadsAlways, PTL DEF Spec

-----------------------------------------------------------------------------
(* The least latency. *)

\* Client c is about to replace latency_min_.
Replacing(c) == cl[c].list # << >> /\ cl[c].list[1].do = "cas"

\* Whoever is about to replace latency_min_ has found it too large, and the
\* least latency is there or on its way.
MinimumInv ==
    /\ measurements.latency_min \in Nat /\ measurements.least \in Nat
    /\ measurements.least <= measurements.latency_min
    /\ \A c \in Clients : Replacing(c) =>
          \E latency \in Nat, prev \in Nat : /\ cl[c].list[1] = CasOf(latency, prev)
                                             /\ measurements.least <= latency /\ latency < prev
    /\ \/ measurements.latency_min = measurements.least
       \/ \E c \in Clients, prev \in Nat :
             cl[c].list # << >> /\ cl[c].list[1] = CasOf(measurements.least, prev)

\* Steps that touch neither the measurements nor a compare and exchange.
LEMMA MinimumStays ==
    ASSUME MinimumInv, Clients' = Clients, UNCHANGED measurements,
           \A c \in Clients : \/ cl'[c].list = cl[c].list
                              \/ ~Replacing(c) /\ ~Replacing(c)'
    PROVE  MinimumInv'
<1>1. \A c \in Clients : Replacing(c)' => Replacing(c) /\ cl'[c].list = cl[c].list
  BY DEF Replacing
<1>2. ASSUME NEW c \in Clients, Replacing(c)'
      PROVE  \E latency \in Nat, prev \in Nat : /\ cl'[c].list[1] = CasOf(latency, prev)
                                                /\ measurements.least <= latency /\ latency < prev
  BY <1>1, <1>2 DEF MinimumInv
<1>3. \/ measurements.latency_min = measurements.least
      \/ \E c \in Clients, prev \in Nat :
             cl'[c].list # << >> /\ cl'[c].list[1] = CasOf(measurements.least, prev)
  <2> SUFFICES ASSUME NEW c \in Clients, NEW prev \in Nat,
                      cl[c].list # << >>, cl[c].list[1] = CasOf(measurements.least, prev)
               PROVE  \E d \in Clients, q \in Nat :
                         cl'[d].list # << >> /\ cl'[d].list[1] = CasOf(measurements.least, q)
    BY DEF MinimumInv
  <2>1. Replacing(c)
    BY DEF Replacing, CasOf
  <2>2. cl'[c].list = cl[c].list
    BY <2>1
  <2> QED
    BY <2>2
<1> QED
  BY <1>2, <1>3 DEF MinimumInv

\* A list without a compare and exchange.
LEMMA NotReplacing ==
    ASSUME NEW c, WellFormed(cl[c].list), ~HasCas(cl[c].list)
    PROVE  ~Replacing(c)
<1> SUFFICES ASSUME Replacing(c) PROVE FALSE
  OBVIOUS
<1>1. Len(cl[c].list) \in Nat \ {0}
  BY ListFacts DEF WellFormed, Replacing
<1>2. 1 \in 1 .. Len(cl[c].list)
  BY <1>1
<1> QED
  BY <1>2 DEF HasCas, Replacing

LEMMA NotReplacingNext ==
    ASSUME NEW c, WellFormed(cl'[c].list), ~HasCas(cl'[c].list)
    PROVE  ~Replacing(c)'
<1> SUFFICES ASSUME Replacing(c)' PROVE FALSE
  OBVIOUS
<1>1. Len(cl'[c].list) \in Nat \ {0}
  BY ListFacts DEF WellFormed, Replacing
<1>2. 1 \in 1 .. Len(cl'[c].list)
  BY <1>1
<1> QED
  BY <1>2 DEF HasCas, Replacing

\* A thread whose head is no compare and exchange moves on to a list without.
LEMMA MinimumPasses ==
    ASSUME Threads, MinimumInv, NEW c \in Clients, Apart(c), UNCHANGED measurements,
           cl[c].pc = "work", Head(cl[c].list).do # "cas",
           WellFormed(cl'[c].list), ~HasCas(cl'[c].list)
    PROVE  MinimumInv'
<1>1. WellFormed(cl[c].list) /\ cl[c].list # << >>
  BY ListAtWork
<1>2. Head(cl[c].list) = cl[c].list[1]
  BY <1>1, TailOfList
<1>3. ~Replacing(c) /\ ~Replacing(c)'
  BY <1>2, NotReplacingNext DEF Replacing
<1>4. Clients' = Clients
  BY SameProps DEF Apart
<1> QED
  BY <1>3, <1>4, MinimumStays DEF Apart

LEMMA MinimumReport ==
    ASSUME Threads, MinimumInv, NEW c \in Clients, Report(c)
    PROVE  MinimumInv'
<1>1. PICK latency \in Latencies :
             /\ Apart(c) /\ Works(c)
             /\ Head(cl[c].list).do = "report"
             /\ cl'[c].list = IF measurements.latency_min > latency
                              THEN << CasOf(latency, measurements.latency_min) >> \o Tail(cl[c].list)
                              ELSE Tail(cl[c].list)
             /\ measurements'.latency_min = measurements.latency_min
             /\ measurements'.least = Least(measurements.least, latency)
  BY ReportEffect
<1>2. PICK min : min = measurements.latency_min
  OBVIOUS
<1>3. PICK least : least = measurements.least
  OBVIOUS
<1>4. min \in Nat /\ least \in Nat /\ latency \in Nat /\ least <= min
  BY <1>2, <1>3, YcsbAssumption DEF MinimumInv
<1>5. WellFormed(cl[c].list) /\ cl[c].list # << >>
  BY <1>1, ListAtWork DEF Works
<1>6. Head(cl[c].list) = cl[c].list[1] /\ WellFormed(Tail(cl[c].list)) /\ ~HasCas(Tail(cl[c].list))
  BY <1>5, TailOfList
<1>7. ~Replacing(c)
  BY <1>1, <1>6 DEF Replacing
<1>8. Clients' = Clients
  BY <1>1, SameProps DEF Apart
<1>9. PICK now : now = measurements'.least
  OBVIOUS
<1>10. now \in Nat /\ now <= least /\ now <= latency /\ (now = least \/ now = latency)
  BY <1>1, <1>3, <1>4, <1>9 DEF Least
<1>11. min > latency => cl'[c].list # << >> /\ cl'[c].list[1] = CasOf(latency, min)
  <2> SUFFICES ASSUME min > latency PROVE cl'[c].list # << >> /\ cl'[c].list[1] = CasOf(latency, min)
    OBVIOUS
  <2>1. PICK r : r = CasOf(latency, min)
    OBVIOUS
  <2>2. r.do = "cas" /\ cl'[c].list = << r >> \o Tail(cl[c].list)
    BY <1>1, <1>2, <2>1 DEF CasOf
  <2> QED
    BY <1>5, <2>1, <2>2, CasOfList
<1>12. ~(min > latency) => ~Replacing(c)'
  <2> SUFFICES ASSUME ~(min > latency) PROVE ~Replacing(c)'
    OBVIOUS
  <2>1. cl'[c].list = Tail(cl[c].list)
    BY <1>1, <1>2
  <2> QED
    BY <1>6, <2>1, NotReplacingNext
<1>13. ASSUME NEW d \in Clients, Replacing(d)'
       PROVE  \E l \in Nat, prev \in Nat : cl'[d].list[1] = CasOf(l, prev) /\ now <= l /\ l < prev
  <2>1. CASE d = c
    BY <1>4, <1>10, <1>11, <1>12, <1>13, <2>1
  <2>2. CASE d # c
    <3>1. cl'[d] = cl[d] /\ Replacing(d)
      BY <1>1, <1>13, <2>2 DEF Apart, Replacing
    <3>2. PICK l \in Nat, prev \in Nat : cl[d].list[1] = CasOf(l, prev) /\ least <= l /\ l < prev
      BY <1>3, <3>1 DEF MinimumInv
    <3>3. now <= l
      BY <1>4, <1>10, <3>2
    <3> QED
      BY <3>1, <3>2, <3>3
  <2> QED
    BY <2>1, <2>2
<1>14. \/ min = now
       \/ \E d \in Clients, prev \in Nat : cl'[d].list # << >> /\ cl'[d].list[1] = CasOf(now, prev)
  <2>1. CASE latency < least
    <3>1. now = latency /\ min > latency
      BY <1>4, <1>10, <2>1
    <3> QED
      BY <1>4, <1>11, <3>1
  <2>2. CASE ~(latency < least)
    <3>1. now = least
      BY <1>4, <1>10, <2>2
    <3>2. CASE min = least
      BY <3>1, <3>2
    <3>3. CASE min # least
      <4>1. PICK d \in Clients, prev \in Nat :
               cl[d].list # << >> /\ cl[d].list[1] = CasOf(least, prev)
        BY <1>2, <1>3, <3>3 DEF MinimumInv
      <4>2. Replacing(d)
        BY <4>1 DEF Replacing, CasOf
      <4>3. d # c
        BY <1>7, <4>2
      <4>4. cl'[d] = cl[d]
        BY <1>1, <4>3 DEF Apart
      <4> QED
        BY <3>1, <4>1, <4>4
    <3> QED
      BY <3>2, <3>3
  <2> QED
    BY <2>1, <2>2
<1>15. measurements'.latency_min = min /\ now <= min
  BY <1>1, <1>2, <1>4, <1>10
<1> QED
  BY <1>4, <1>8, <1>9, <1>10, <1>13, <1>14, <1>15 DEF MinimumInv

LEMMA MinimumCas ==
    ASSUME Threads, MinimumInv, NEW c \in Clients, Cas(c)
    PROVE  MinimumInv'
<1>1. PICK r : r = Head(cl[c].list)
  OBVIOUS
<1>2. PICK min : min = measurements.latency_min
  OBVIOUS
<1>3. PICK least : least = measurements.least
  OBVIOUS
<1>4. /\ Apart(c) /\ Works(c) /\ r.do = "cas"
      /\ measurements'.least = least
      /\ measurements'.latency_min = IF min = r.prev THEN r.latency ELSE min
      /\ cl'[c].list = IF min # r.prev /\ min > r.latency
                       THEN << [r EXCEPT !.prev = min] >> \o Tail(cl[c].list)
                       ELSE Tail(cl[c].list)
  BY <1>1, <1>2, <1>3, CasEffect
<1>5. min \in Nat /\ least \in Nat /\ least <= min
  BY <1>2, <1>3 DEF MinimumInv
<1>6. WellFormed(cl[c].list) /\ cl[c].list # << >>
  BY <1>4, ListAtWork DEF Works
<1>7. r = cl[c].list[1] /\ WellFormed(Tail(cl[c].list)) /\ ~HasCas(Tail(cl[c].list))
  BY <1>1, <1>6, TailOfList
<1>8. Replacing(c)
  BY <1>4, <1>6, <1>7 DEF Replacing
<1>9. PICK latency \in Nat, prev \in Nat : r = CasOf(latency, prev) /\ least <= latency /\ latency < prev
  BY <1>3, <1>7, <1>8 DEF MinimumInv
<1>10. r.latency = latency /\ r.prev = prev /\ [r EXCEPT !.prev = min] = CasOf(latency, min)
  BY <1>9 DEF CasOf
<1>11. Clients' = Clients
  BY <1>4, SameProps DEF Apart
<1>12. ASSUME NEW d \in Clients, d # c, Replacing(d)'
       PROVE  /\ cl'[d] = cl[d]
              /\ \E l \in Nat, p \in Nat : cl'[d].list[1] = CasOf(l, p) /\ least <= l /\ l < p
  <2>1. cl'[d] = cl[d] /\ Replacing(d)
    BY <1>4, <1>12 DEF Apart, Replacing
  <2> QED
    BY <1>3, <2>1 DEF MinimumInv
<1>13. ASSUME NEW d \in Clients, d # c, NEW p \in Nat,
              cl[d].list # << >>, cl[d].list[1] = CasOf(least, p)
       PROVE  cl'[d].list # << >> /\ cl'[d].list[1] = CasOf(least, p)
  BY <1>4, <1>13 DEF Apart
<1>14. CASE min # prev /\ min > latency
  <2>1. PICK q : q = CasOf(latency, min)
    OBVIOUS
  <2>2. q.do = "cas" /\ cl'[c].list = << q >> \o Tail(cl[c].list)
    BY <1>4, <1>10, <1>14, <2>1 DEF CasOf
  <2>3. cl'[c].list # << >> /\ cl'[c].list[1] = CasOf(latency, min)
    BY <1>6, <2>1, <2>2, CasOfList
  <2>4. ASSUME NEW d \in Clients, Replacing(d)'
        PROVE  \E l \in Nat, p \in Nat : cl'[d].list[1] = CasOf(l, p) /\ least <= l /\ l < p
    BY <1>5, <1>9, <1>12, <1>14, <2>3, <2>4
  <2>5. measurements'.latency_min = min
    BY <1>4, <1>10, <1>14
  <2>6. \/ min = least
        \/ \E d \in Clients, p \in Nat : cl'[d].list # << >> /\ cl'[d].list[1] = CasOf(least, p)
    <3>1. CASE min = least
      BY <3>1
    <3>2. CASE min # least
      <4>1. PICK d \in Clients, p \in Nat : cl[d].list # << >> /\ cl[d].list[1] = CasOf(least, p)
        BY <1>2, <1>3, <3>2 DEF MinimumInv
      <4>2. CASE d # c
        BY <1>13, <4>1, <4>2
      <4>3. CASE d = c
        <5>1. latency = least
          BY <1>7, <1>10, <4>1, <4>3 DEF CasOf
        <5> QED
          BY <1>5, <2>3, <5>1
      <4> QED
        BY <4>2, <4>3
    <3> QED
      BY <3>1, <3>2
  <2> QED
    BY <1>4, <1>5, <1>11, <2>4, <2>5, <2>6 DEF MinimumInv
<1>15. CASE ~(min # prev /\ min > latency)
  <2>1. cl'[c].list = Tail(cl[c].list)
    BY <1>4, <1>10, <1>15
  <2>2. ~Replacing(c)'
    BY <1>7, <2>1, NotReplacingNext
  <2>3. ASSUME NEW d \in Clients, Replacing(d)'
        PROVE  \E l \in Nat, p \in Nat : cl'[d].list[1] = CasOf(l, p) /\ least <= l /\ l < p
    BY <1>12, <2>2, <2>3
  <2>4. PICK now : now = measurements'.latency_min
    OBVIOUS
  <2>5. now \in Nat /\ least <= now /\ now = IF min = prev THEN latency ELSE min
    BY <1>4, <1>5, <1>9, <1>10, <2>4
  <2>6. ASSUME now # least
        PROVE  \E d \in Clients, p \in Nat : cl'[d].list # << >> /\ cl'[d].list[1] = CasOf(least, p)
    <3>1. latency # least
      <4> SUFFICES ASSUME latency = least PROVE now = least
        BY <2>6
      <4> QED
        BY <1>5, <1>9, <1>15, <2>5
    <3>2. \A p \in Nat : r # CasOf(least, p)
      BY <1>10, <3>1 DEF CasOf
    <3>3. CASE min # least
      <4>1. PICK d \in Clients, p \in Nat : cl[d].list # << >> /\ cl[d].list[1] = CasOf(least, p)
        BY <1>2, <1>3, <3>3 DEF MinimumInv
      <4>2. d # c
        BY <1>7, <3>2, <4>1
      <4> QED
        BY <1>13, <4>1, <4>2
    <3>4. CASE min = least
      <4>1. FALSE
        BY <1>5, <1>9, <1>15, <2>5, <2>6, <3>1, <3>4
      <4> QED
        BY <4>1
    <3> QED
      BY <3>3, <3>4
  <2> QED
    BY <1>4, <1>5, <1>11, <2>3, <2>4, <2>5, <2>6 DEF MinimumInv
<1> QED
  BY <1>14, <1>15

LEMMA MinimumClient ==
    ASSUME Threads, MinimumInv, NEW c \in Clients, ClientThread(c) \/ LibraryError(c)
    PROVE  MinimumInv'
<1>1. /\ Apart(c) /\ Clients' = Clients
  BY ClientStepFacts, SameProps DEF Apart
<1>2. ASSUME cl'[c].list = cl[c].list, UNCHANGED measurements PROVE MinimumInv'
  <2>1. \A d \in Clients : cl'[d].list = cl[d].list
    BY <1>1, <1>2 DEF Apart
  <2> QED
    BY <1>1, <1>2, <2>1, MinimumStays
<1>3. CASE ClientInit(c)
  BY <1>2, <1>3, ClientInitEffect
<1>4. CASE Consume(c) \/ Awake(c)
  BY <1>2, <1>4, WaitEffect
<1>5. CASE ClientCleanup(c)
  BY <1>2, <1>5, ClientCleanupEffect
<1>6. CASE CountDown(c)
  BY <1>2, <1>6, CountDownEffect
<1>7. CASE ClientNext(c)
  <2>1. /\ cl[c].pc \in {"next", "awake"} /\ Fresh(cl'[c].list) /\ UNCHANGED measurements
    BY <1>7, ClientNextEffect
  <2>2. ~Replacing(c)'
    BY <2>1, FreshIsWellFormed, NotReplacingNext
  <2>3. ~Replacing(c)
    BY <2>1 DEF Threads, ClientOK, Replacing
  <2>4. \A d \in Clients : \/ cl'[d].list = cl[d].list
                           \/ ~Replacing(d) /\ ~Replacing(d)'
    BY <1>1, <2>2, <2>3 DEF Apart
  <2> QED
    BY <1>1, <2>1, <2>4, MinimumStays
<1>8. CASE Library(c)
  <2>1. /\ Works(c) /\ UNCHANGED measurements
        /\ Head(cl[c].list).do \in Requests
        /\ cl'[c].list \in {Tail(cl[c].list), AfterCall(cl[c].list)}
    BY <1>8, LibraryEffect
  <2>2. WellFormed(cl'[c].list) /\ ~HasCas(cl'[c].list)
    BY <2>1, ListAtWork, TailOfList, RestOfCall DEF Works
  <2>3. Head(cl[c].list).do # "cas"
    BY <2>1 DEF Requests
  <2> QED
    BY <1>1, <2>1, <2>2, <2>3, MinimumPasses DEF Works
<1>9. CASE LibraryError(c)
  <2>1. UNCHANGED measurements
    BY <1>9, LibraryErrorEffect
  <2>2. CASE cl' = cl
    BY <1>2, <2>1, <2>2
  <2>3. CASE /\ Works(c) /\ Head(cl[c].list).do \in Requests
             /\ cl'[c].list = AfterCall(cl[c].list)
    <3>1. WellFormed(cl'[c].list) /\ ~HasCas(cl'[c].list)
      BY <2>3, ListAtWork, RestOfCall DEF Works
    <3>2. Head(cl[c].list).do # "cas"
      BY <2>3 DEF Requests
    <3> QED
      BY <1>1, <2>1, <2>3, <3>1, <3>2, MinimumPasses DEF Works
  <2> QED
    BY <1>9, <2>2, <2>3, LibraryErrorEffect
<1>10. CASE Report(c)
  BY <1>10, MinimumReport
<1>11. CASE Cas(c)
  BY <1>11, MinimumCas
<1>12. CASE Ack(c)
  <2>1. UNCHANGED measurements /\ cl[c].pc = "work" /\ Head(cl[c].list).do # "cas"
    BY <1>12, AckEffect
  <2>2. CASE cl' = cl
    BY <1>2, <2>1, <2>2
  <2>3. CASE cl'[c].list = Tail(cl[c].list)
    <3>1. WellFormed(cl'[c].list) /\ ~HasCas(cl'[c].list)
      BY <2>1, <2>3, ListAtWork, TailOfList
    <3> QED
      BY <1>1, <2>1, <3>1, MinimumPasses
  <2> QED
    BY <1>12, <2>2, <2>3, AckEffect
<1> QED
  BY <1>3, <1>4, <1>5, <1>6, <1>7, <1>8, <1>9, <1>10, <1>11, <1>12 DEF ClientThread

\* The measurements of a new phase, with all lists empty.
LEMMA MinimumFresh ==
    ASSUME Threads, Clients' = Clients, measurements' = NoMeasurements,
           \A c \in Clients : cl'[c].list = << >>
    PROVE  MinimumInv'
<1>1. measurements'.latency_min = 99 /\ measurements'.least = 99
  BY DEF NoMeasurements, UINT64_MAX
<1>2. \A c \in Clients : ~Replacing(c)'
  BY DEF Replacing
<1> QED
  BY <1>1, <1>2 DEF MinimumInv

LEMMA MinimumStep == Threads /\ MinimumInv /\ [Next]_vars => MinimumInv'
<1> SUFFICES ASSUME Threads, MinimumInv, [Next]_vars PROVE MinimumInv'
  OBVIOUS
<1>1. ASSUME UNCHANGED <<props, cl, measurements>> PROVE MinimumInv'
  <2>1. Clients' = Clients /\ \A c \in Clients : cl'[c].list = cl[c].list
    BY <1>1, SameProps
  <2> QED
    BY <1>1, <2>1, MinimumStays
<1>2. ASSUME ~Busy PROVE \A c \in Clients : cl[c].list = << >>
  BY <1>2 DEF Threads, ClientOK
<1>3. CASE Main
  <2>1. CASE /\ main.phase = "start"
             /\ Starts("load", props["recordcount"], TRUE) /\ UNCHANGED measurements
    <3>1. Clients' = Clients /\ \A c \in Clients : cl'[c].list = << >>
      BY <2>1, SameProps DEF Starts
    <3>2. \A c \in Clients : cl'[c].list = cl[c].list
      BY <1>2, <2>1, <3>1 DEF Busy
    <3> QED
      BY <2>1, <3>1, <3>2, MinimumStays
  <2>2. CASE /\ main.phase = "between" /\ measurements' = NoMeasurements
             /\ Starts("run", props["operationcount"], ~do_load)
    <3>1. Clients' = Clients /\ \A c \in Clients : cl'[c].list = << >>
      BY <2>2, SameProps DEF Starts
    <3> QED
      BY <2>2, <3>1, MinimumFresh
  <2>3. CASE main.phase = "between" /\ Turns("between") /\ measurements' = NoMeasurements
    <3>1. Clients' = Clients /\ cl' = cl
      BY <2>3, SameProps DEF Turns
    <3>2. \A c \in Clients : cl'[c].list = << >>
      BY <1>2, <2>3, <3>1 DEF Busy
    <3> QED
      BY <2>3, <3>1, <3>2, MinimumFresh
  <2>4. CASE \E phase : Turns(phase) /\ UNCHANGED measurements
    BY <1>1, <2>4 DEF Turns
  <2> QED
    BY <1>3, <2>1, <2>2, <2>3, <2>4, MainEffect
<1>4. CASE \E c \in Clients : ClientThread(c) \/ LibraryError(c)
  BY <1>4, MinimumClient
<1>5. CASE StatusThread \/ RateLimitThread
  BY <1>1, <1>5, HelpersEffect
<1>6. CASE Ended \/ UNCHANGED vars
  BY <1>1, <1>6 DEF Ended, vars
<1> QED
  BY <1>3, <1>4, <1>5, <1>6 DEF Next

\* With no report under way latency_min_ is the least latency reported
\* (MinimumIsExact): the compare and exchange of BasicMeasurements::Report
\* loses none, however many threads report at once.
THEOREM MinimumAlways == Spec => []MinimumIsExact
<1>1. Init => MinimumInv
  <2> SUFFICES ASSUME Init PROVE MinimumInv
    OBVIOUS
  <2>1. measurements.latency_min = 99 /\ measurements.least = 99
    BY DEF Init, NoMeasurements, UINT64_MAX
  <2>2. \A c \in Clients : cl[c].list = << >>
    BY DEF Init, IdleClient
  <2>3. \A c \in Clients : ~Replacing(c)
    BY <2>2 DEF Replacing
  <2> QED
    BY <2>1, <2>3 DEF MinimumInv
<1>2. Threads /\ MinimumInv => MinimumIsExact
  <2> SUFFICES ASSUME Threads, MinimumInv,
                      \A c \in Clients : \A r \in ToSet(cl[c].list) : r.do # "cas",
                      measurements.latency_min # measurements.least
               PROVE  FALSE
    BY DEF MinimumIsExact
  <2>1. PICK c \in Clients, prev \in Nat :
           cl[c].list # << >> /\ cl[c].list[1] = CasOf(measurements.least, prev)
    BY DEF MinimumInv
  <2>2. WellFormed(cl[c].list)
    BY DEF Threads, ClientOK
  <2>3. 1 \in DOMAIN cl[c].list
    BY <2>1, <2>2, ListFacts DEF WellFormed
  <2>4. cl[c].list[1] \in ToSet(cl[c].list)
    BY <2>3, Zenon DEF ToSet
  <2> QED
    BY <2>1, <2>4 DEF CasOf
<1> QED
  BY <1>1, <1>2, MinimumStep, ThreadsAlways, PTL DEF Spec

-----------------------------------------------------------------------------
(* Producer ids. *)

DbFields == {"handle", "ref_cnt", "sessions", "next_id", "ids", "writer", "misuse", "table"}

\* F3TreeDB::Init gives out the next id.
LEMMA IdTaken ==
    ASSUME NEW s, NEW c, DOMAIN s = DbFields, c \notin DOMAIN s.ids
    PROVE  LET t == F3Tree!Init(s, c)
           IN  /\ DOMAIN t = DbFields /\ t.next_id = s.next_id + 1 /\ t.ref_cnt = s.ref_cnt + 1
               /\ DOMAIN t.ids = DOMAIN s.ids \cup {c} /\ t.ids[c] = s.next_id
               /\ \A d \in DOMAIN s.ids : t.ids[d] = s.ids[d]
<1>1. PICK u : u = IF s.handle = "open" THEN s
                   ELSE [s EXCEPT !.handle = "open", !.table = [k \in DOMAIN @ |-> << >>]]
  OBVIOUS
<1>2. DOMAIN u = DbFields /\ u.next_id = s.next_id /\ u.ref_cnt = s.ref_cnt /\ u.ids = s.ids
  BY <1>1 DEF DbFields
<1>3. PICK f : f = F3Tree!Assign(u.ids, c, u.next_id)
  OBVIOUS
<1>4. F3Tree!Init(s, c) = [u EXCEPT !.ids = f, !.next_id = u.next_id + 1, !.ref_cnt = u.ref_cnt + 1]
  BY <1>1, <1>2, <1>3 DEF F3Tree!Init, DbFields
<1>5. /\ DOMAIN f = DOMAIN u.ids \cup {c} /\ f[c] = u.next_id
      /\ \A d \in DOMAIN u.ids : d # c => f[d] = u.ids[d]
  BY <1>3 DEF F3Tree!Assign
<1> QED
  BY <1>2, <1>4, <1>5 DEF DbFields

\* F3TreeDB::Cleanup gives an id back; after the last one ids start again.
LEMMA IdGivenBack ==
    ASSUME NEW s, NEW c, DOMAIN s = DbFields
    PROVE  LET t == F3Tree!Cleanup(s, c)
           IN  /\ DOMAIN t = DbFields /\ t.ref_cnt = s.ref_cnt - 1
               /\ t.next_id = IF s.ref_cnt - 1 = 0 THEN 0 ELSE s.next_id
               /\ DOMAIN t.ids = DOMAIN s.ids \ {c}
               /\ \A d \in DOMAIN t.ids : t.ids[d] = s.ids[d]
<1>1. PICK f : f = [x \in DOMAIN s.ids \ {c} |-> s.ids[x]]
  OBVIOUS
<1>2. PICK t : t = [s EXCEPT !.ref_cnt = s.ref_cnt - 1, !.ids = f]
  OBVIOUS
<1>3. /\ DOMAIN t = DbFields /\ t.ref_cnt = s.ref_cnt - 1 /\ t.ids = f /\ t.next_id = s.next_id
  BY <1>2 DEF DbFields
<1>4. PICK u : u = F3Tree!Close(t, "null")
  OBVIOUS
<1>5. /\ DOMAIN u = DbFields /\ u.ref_cnt = t.ref_cnt /\ u.ids = f
  BY <1>3, <1>4 DEF F3Tree!Close, DbFields
<1>6. F3Tree!Cleanup(s, c) = IF t.ref_cnt # 0 THEN t ELSE [u EXCEPT !.next_id = 0]
  BY <1>1, <1>2, <1>4 DEF F3Tree!Cleanup, DbFields
<1>7. DOMAIN f = DOMAIN s.ids \ {c} /\ \A d \in DOMAIN s.ids \ {c} : f[d] = s.ids[d]
  BY <1>1
<1>8. CASE t.ref_cnt # 0
  BY <1>3, <1>6, <1>7, <1>8
<1>9. CASE t.ref_cnt = 0
  <2>1. PICK v : v = [u EXCEPT !.next_id = 0]
    OBVIOUS
  <2>2. DOMAIN v = DbFields /\ v.ref_cnt = u.ref_cnt /\ v.ids = f /\ v.next_id = 0
    BY <1>5, <2>1 DEF DbFields
  <2> QED
    BY <1>3, <1>5, <1>6, <1>7, <1>9, <2>1, <2>2
<1> QED
  BY <1>8, <1>9

SameIds(t) ==
    /\ DOMAIN t = DbFields
    /\ t.ids = db.ids /\ t.next_id = db.next_id /\ t.ref_cnt = db.ref_cnt

\* A request leaves the ids alone.
LEMMA AnswerKeepsIds ==
    ASSUME DOMAIN db = DbFields, NEW r, r.do \in Requests, NEW c
    PROVE  SameIds(Answer(r, c).s)
<1> DEFINE s == [db EXCEPT !.misuse = @ \/ db.handle # "open"]
           row(k) == s.table[k]
           at == {k \in KeyNames : k >= r.key /\ row(k) # << >>}
           wanted == IF r.fields = << >> THEN field_count(props) ELSE Len(r.fields)
           read(some) == [s EXCEPT !.misuse = @ \/ (dbname # "f3tree" /\
                              \E k \in some : Len(R!Result(row(k), r.fields)) # wanted)]
           scanned == {k \in at : Cardinality({j \in at : j < k}) < r.len}
           ok(t, current)  == [s |-> t, current |-> current, status |-> "OK"]
           not_ok(t, what) == [s |-> t, current |-> << >>, status |-> what]
           put(values) == [s EXCEPT !.table[r.key] = R!SerializeRow(values)]
<1>1. SameIds(s)
  BY DEF SameIds, DbFields
<1> HIDE DEF s
<1>2. \A some : SameIds(read(some))
  BY <1>1 DEF SameIds, DbFields
<1>3. \A values : SameIds(put(values))
  BY <1>1 DEF SameIds, DbFields
<1> HIDE DEF read, put, row, at, wanted, scanned
<1>4. \A t, x : ok(t, x).s = t /\ not_ok(t, x).s = t
  OBVIOUS
<1> HIDE DEF ok, not_ok
<1>5. SameIds(db)
  BY DEF SameIds
<1>6. /\ SameIds([s EXCEPT !.sessions = @ \cup {c}])
      /\ SameIds([s EXCEPT !.writer = c]) /\ SameIds([s EXCEPT !.writer = 0])
  BY <1>1 DEF SameIds, DbFields
<1>7. CASE r.do = "print"
  <2>1. Answer(r, c) = ok(db, << >>)
    BY <1>7 DEF Answer, ok
  <2> QED
    BY <1>4, <1>5, <2>1
<1>8. CASE r.do = "get"
  <2>1. \E x : Answer(r, c) = not_ok(s, x) \/ Answer(r, c) = ok(s, x)
    BY <1>8 DEF Answer, ok, not_ok, s
  <2> QED
    BY <1>1, <1>4, <2>1
<1>9. CASE r.do = "fetch"
  <2>1. Answer(r, c) = not_ok(s, "NotFound") \/ Answer(r, c) = ok(read({r.key}), << >>)
    BY <1>9 DEF Answer, ok, not_ok, s, read, row, wanted
  <2> QED
    BY <1>1, <1>2, <1>4, <2>1
<1>10. CASE r.do = "seek_row"
  <2>1. \/ Answer(r, c) = not_ok([s EXCEPT !.sessions = @ \cup {c}], "NotFound")
        \/ Answer(r, c) = ok(read({r.key}), << >>)
    BY <1>10 DEF Answer, ok, not_ok, s, read, row, wanted, at
  <2> QED
    BY <1>2, <1>4, <1>6, <2>1
<1>11. CASE r.do = "iterate"
  <2>1. Answer(r, c) = ok(read(scanned), << >>)
    BY <1>11 DEF Answer, ok, s, read, row, wanted, at, scanned
  <2> QED
    BY <1>2, <1>4, <2>1
<1>11a. CASE r.do = "iterate_at"
  <2>1. Answer(r, c) = ok([read(scanned) EXCEPT !.misuse = @ \/ at = {} \/ Min(at) # r.key], << >>)
    BY <1>11a DEF Answer, ok, s, read, row, wanted, at, scanned
  <2>2. \A t, x : SameIds(t) => SameIds([t EXCEPT !.misuse = x])
    BY DEF SameIds, DbFields
  <2>3. SameIds(read(scanned))
    BY <1>2
  <2>4. SameIds([read(scanned) EXCEPT !.misuse = @ \/ at = {} \/ Min(at) # r.key])
    BY <2>2, <2>3
  <2> QED
    BY <1>4, <2>1, <2>4
<1>12. CASE r.do = "put"
  <2>1. Answer(r, c) = ok(put(r.values), << >>)
    BY <1>12 DEF Answer, ok, s, put
  <2> QED
    BY <1>3, <1>4, <2>1
<1>13. CASE r.do = "put_current"
  <2>1. Answer(r, c) = ok(put(R!Overlay(cl[c].current, r.values)), << >>)
    BY <1>13 DEF Answer, ok, s, put
  <2> QED
    BY <1>3, <1>4, <2>1
<1>14. CASE r.do = "merge"
  <2>1. \E x, y : Answer(r, c) = not_ok(s, x) \/ Answer(r, c) = ok(put(y), x)
    BY <1>14 DEF Answer, ok, not_ok, s, put, row
  <2> QED
    BY <1>1, <1>3, <1>4, <2>1
<1>15. CASE r.do = "begin"
  <2>1. Answer(r, c) = ok([s EXCEPT !.writer = c], cl[c].current)
    BY <1>15 DEF Answer, ok, s
  <2> QED
    BY <1>4, <1>6, <2>1
<1>16. CASE r.do = "end"
  <2>1. Answer(r, c) = ok([s EXCEPT !.writer = 0], << >>)
    BY <1>16 DEF Answer, ok, s
  <2> QED
    BY <1>4, <1>6, <2>1
<1> QED
  BY <1>7, <1>8, <1>9, <1>10, <1>11, <1>12, <1>13, <1>14, <1>15, <1>16, <1>11a DEF Requests

\* Clients that called Init, and those of them that did not call Cleanup yet:
\* it is left out between the load and the transactions.
Begun == {c \in Clients : cl[c].pc \notin {"off", "init"}}

Cleaned == main.phase \in {"run", "end"} \/ ~do_transaction

HasId(c) ==
    \/ cl[c].pc \in {"next", "sleep", "awake", "work"}
    \/ cl[c].pc \in {"countdown", "done"} /\ ~Cleaned

\* Ids are those of the clients that have the tree open, given out in order
\* since it was last closed.
IdsInv ==
    /\ DOMAIN db = DbFields
    /\ DOMAIN db.ids = {c \in Clients : HasId(c)}
    /\ db.ref_cnt = Cardinality(DOMAIN db.ids)
    /\ db.next_id \in Nat
    /\ \A c \in DOMAIN db.ids : db.ids[c] \in Nat /\ db.ids[c] < db.next_id
    /\ \A c, d \in DOMAIN db.ids : db.ids[c] = db.ids[d] => c = d
    /\ db.next_id <= Cardinality(Begun)

\* Where the threads are between the phases.
PhaseInv ==
    /\ main.phase = "load" => do_load
    /\ main.phase = "start" => \A c \in Clients : cl[c].pc = "off"
    /\ main.phase = "between" => \A c \in Clients : cl[c].pc = IF do_load THEN "done" ELSE "off"

LEMMA PhaseStep == Threads /\ PhaseInv /\ [Next]_vars => PhaseInv'
<1> SUFFICES ASSUME Threads, PhaseInv, [Next]_vars PROVE PhaseInv'
  OBVIOUS
<1>1. ASSUME UNCHANGED <<props, cl>>, main'.phase = main.phase PROVE PhaseInv'
  BY <1>1, SameProps DEF PhaseInv
<1>2. CASE Main
  <2>1. ASSUME NEW phase \in {"load", "run"}, NEW total, NEW init_db,
               Starts(phase, total, init_db), phase = "load" => do_load
        PROVE  PhaseInv'
    <3>1. main'.phase = phase /\ do_load' = do_load
      BY <2>1, SameProps DEF Starts
    <3> QED
      BY <2>1, <3>1 DEF PhaseInv
  <2>2. CASE main.phase = "start" /\ ~do_load /\ Turns("between")
    <3>1. main'.phase = "between" /\ do_load' = do_load /\ cl' = cl /\ Clients' = Clients
      BY <2>2, SameProps DEF Turns
    <3> QED
      BY <2>2, <3>1 DEF PhaseInv
  <2>3. CASE main.phase = "load" /\ Joined /\ Turns("between")
    <3>1. main'.phase = "between" /\ do_load' = do_load /\ cl' = cl /\ Clients' = Clients
      BY <2>3, SameProps DEF Turns
    <3> QED
      BY <2>3, <3>1 DEF PhaseInv, Joined
  <2>4. CASE main.phase = "run" /\ Joined /\ Turns("end")
    <3>1. main'.phase = "end"
      BY <2>4 DEF Turns
    <3> QED
      BY <3>1 DEF PhaseInv
  <2>5. CASE main.phase \in {"start", "between"} /\ Turns(main.phase)
    BY <1>1, <2>5 DEF Turns
  <2> QED
    BY <1>2, <2>1, <2>2, <2>3, <2>4, <2>5, MainEffect
<1>3. CASE \E c \in Clients : ClientThread(c) \/ LibraryError(c)
  <2>1. PICK c \in Clients : ClientThread(c) \/ LibraryError(c)
    BY <1>3
  <2>2. Apart(c) /\ cl[c].pc \notin {"off", "done"}
    BY <2>1, ClientStepFacts
  <2>3. main'.phase = main.phase /\ main.phase \in {"load", "run"} /\ do_load' = do_load
    BY <2>2, WorkIsBusy, SameProps DEF Apart, Busy
  <2> QED
    BY <2>3 DEF PhaseInv
<1>4. CASE StatusThread \/ RateLimitThread
  BY <1>1, <1>4, HelpersEffect
<1>5. CASE Ended \/ UNCHANGED vars
  BY <1>1, <1>5 DEF Ended, vars
<1> QED
  BY <1>2, <1>3, <1>4, <1>5 DEF Next

\* Steps that neither give out an id nor take one back.
LEMMA IdsStay ==
    ASSUME IdsInv, props' = props, SameIds(db'), \A c \in Clients : (HasId(c)' <=> HasId(c)),
           Begun' = Begun
    PROVE  IdsInv'
<1>1. Clients' = Clients
  BY SameProps
<1>2. {c \in Clients : HasId(c)}' = {c \in Clients : HasId(c)}
  BY <1>1
<1> QED
  BY <1>2 DEF IdsInv, SameIds

LEMMA IdsInit ==
    ASSUME Threads, IdsInv, NEW c \in Clients, ClientInit(c), dbname = "f3tree"
    PROVE  IdsInv'
<1>1. /\ Apart(c) /\ cl[c].pc = "init" /\ cl'[c].pc = "next" /\ db' = DbInit(db, c) /\ main' = main
  BY ClientInitEffect
<1>2. db' = F3Tree!Init(db, c)
  BY <1>1 DEF DbInit
<1>3. ~HasId(c) /\ c \notin DOMAIN db.ids
  BY <1>1 DEF HasId, IdsInv
<1>4. PICK t : t = db'
  OBVIOUS
<1>5. /\ DOMAIN t = DbFields /\ t.next_id = db.next_id + 1 /\ t.ref_cnt = db.ref_cnt + 1
      /\ DOMAIN t.ids = DOMAIN db.ids \cup {c} /\ t.ids[c] = db.next_id
      /\ \A d \in DOMAIN db.ids : t.ids[d] = db.ids[d]
  BY <1>2, <1>3, <1>4, IdTaken DEF IdsInv
<1>6. Clients' = Clients /\ do_transaction' = do_transaction /\ main'.phase = main.phase
  BY <1>1, SameProps DEF Apart
<1>7. HasId(c)' /\ \A d \in Clients \ {c} : (HasId(d)' <=> HasId(d))
  BY <1>1, <1>6 DEF HasId, Apart, Cleaned
<1>8. DOMAIN t.ids = {d \in Clients : HasId(d)'}
  BY <1>3, <1>5, <1>7 DEF IdsInv
<1>9. Begun' = Begun \cup {c} /\ c \notin Begun
  BY <1>1, <1>6 DEF Begun, Apart
<1>10. IsFiniteSet(Begun) /\ IsFiniteSet(DOMAIN db.ids)
  BY ClientsFinite DEF Begun, IdsInv
<1>11. /\ Cardinality(Begun') = Cardinality(Begun) + 1
       /\ Cardinality(DOMAIN t.ids) = Cardinality(DOMAIN db.ids) + 1
  BY <1>3, <1>5, <1>9, <1>10, FS_AddElement
<1>12. Cardinality(Begun) \in Nat /\ db.next_id \in Nat /\ db.next_id <= Cardinality(Begun)
  BY <1>10, FS_CardinalityType DEF IdsInv
<1>13. \A d \in DOMAIN t.ids : t.ids[d] \in Nat /\ t.ids[d] < t.next_id
  <2> SUFFICES ASSUME NEW d \in DOMAIN t.ids PROVE t.ids[d] \in Nat /\ t.ids[d] < t.next_id
    OBVIOUS
  <2>1. CASE d = c
    BY <1>5, <1>12, <2>1
  <2>2. CASE d # c
    <3>1. t.ids[d] = db.ids[d] /\ db.ids[d] \in Nat /\ db.ids[d] < db.next_id
      BY <1>5, <2>2 DEF IdsInv
    <3> QED
      BY <1>5, <1>12, <3>1
  <2> QED
    BY <2>1, <2>2
<1>14. \A d, e \in DOMAIN t.ids : t.ids[d] = t.ids[e] => d = e
  <2> SUFFICES ASSUME NEW d \in DOMAIN t.ids, NEW e \in DOMAIN t.ids, t.ids[d] = t.ids[e], d # e
               PROVE  FALSE
    OBVIOUS
  <2>1. \A x \in DOMAIN db.ids : t.ids[x] \in Nat /\ t.ids[x] < db.next_id
    BY <1>5 DEF IdsInv
  <2>2. \A x \in DOMAIN db.ids : t.ids[x] # t.ids[c]
    BY <1>5, <1>12, <2>1
  <2>3. d \in DOMAIN db.ids /\ e \in DOMAIN db.ids
    BY <1>5, <2>2
  <2> QED
    BY <1>5, <2>3 DEF IdsInv
<1>15. t.next_id \in Nat /\ t.next_id <= Cardinality(Begun') /\ t.ref_cnt = Cardinality(DOMAIN t.ids)
  BY <1>5, <1>11, <1>12 DEF IdsInv
<1> QED
  BY <1>4, <1>5, <1>6, <1>8, <1>13, <1>14, <1>15 DEF IdsInv

LEMMA IdsCleanup ==
    ASSUME Threads, IdsInv, NEW c \in Clients, ClientCleanup(c), dbname = "f3tree"
    PROVE  IdsInv'
<1>1. /\ Apart(c) /\ main' = main /\ cl[c].pc = "next" /\ cl'[c].pc = "countdown"
      /\ db' = IF main.phase = "run" \/ ~do_transaction THEN DbCleanup(db, c) ELSE db
  BY ClientCleanupEffect
<1>2. Busy
  BY <1>1, WorkIsBusy
<1>3. Clients' = Clients /\ do_transaction' = do_transaction /\ main'.phase = main.phase /\ props' = props
  BY <1>1, SameProps DEF Apart
<1>4. \A d \in Clients \ {c} : (HasId(d)' <=> HasId(d))
  BY <1>3, <1>1 DEF HasId, Apart, Cleaned
<1>5. HasId(c) /\ c \in DOMAIN db.ids
  BY <1>1 DEF HasId, IdsInv
<1>6. Begun' = Begun
  BY <1>1, <1>3 DEF Begun, Apart
<1>7. CASE ~Cleaned
  <2>1. db' = db
    BY <1>1, <1>7 DEF Cleaned
  <2>2. HasId(c)'
    BY <1>1, <1>3, <1>7 DEF HasId, Cleaned
  <2>3. SameIds(db')
    BY <2>1 DEF SameIds, IdsInv
  <2> QED
    BY <1>3, <1>4, <1>5, <1>6, <2>2, <2>3, IdsStay
<1>8. CASE Cleaned
  <2>1. db' = F3Tree!Cleanup(db, c)
    <3>1. main.phase = "run" \/ ~do_transaction
      BY <1>2, <1>8 DEF Cleaned, Busy
    <3> QED
      BY <1>1, <3>1 DEF DbCleanup
  <2>2. ~HasId(c)'
    BY <1>1, <1>3, <1>8 DEF HasId, Cleaned
  <2>3. PICK t : t = db'
    OBVIOUS
  <2>4. /\ DOMAIN t = DbFields /\ t.ref_cnt = db.ref_cnt - 1
        /\ t.next_id = IF db.ref_cnt - 1 = 0 THEN 0 ELSE db.next_id
        /\ DOMAIN t.ids = DOMAIN db.ids \ {c}
        /\ \A d \in DOMAIN t.ids : t.ids[d] = db.ids[d]
    BY <2>1, <2>3, IdGivenBack DEF IdsInv
  <2>5. DOMAIN t.ids = {d \in Clients : HasId(d)'}
    BY <1>4, <2>2, <2>4 DEF IdsInv
  <2>6. IsFiniteSet(DOMAIN db.ids) /\ IsFiniteSet(DOMAIN t.ids) /\ Cardinality(Begun) \in Nat
    BY <2>4, ClientsFinite DEF IdsInv, Begun
  <2>7. Cardinality(DOMAIN t.ids) = Cardinality(DOMAIN db.ids) - 1
    BY <1>5, <2>4, <2>6, FS_RemoveElement
  <2>8. t.ref_cnt = Cardinality(DOMAIN t.ids)
    BY <2>4, <2>7 DEF IdsInv
  <2>9. t.next_id \in Nat /\ t.next_id <= Cardinality(Begun)
    BY <2>4, <2>6 DEF IdsInv
  <2>10. \A d \in DOMAIN t.ids : t.ids[d] \in Nat /\ t.ids[d] < t.next_id
    <3>1. CASE t.ref_cnt = 0
      <4>1. DOMAIN t.ids = {}
        BY <2>6, <2>8, <3>1, FS_EmptySet
      <4> QED
        BY <4>1
    <3>2. CASE t.ref_cnt # 0
      BY <2>4, <3>2 DEF IdsInv
    <3> QED
      BY <3>1, <3>2
  <2>11. \A d, e \in DOMAIN t.ids : t.ids[d] = t.ids[e] => d = e
    BY <2>4 DEF IdsInv
  <2> QED
    BY <1>3, <1>6, <2>3, <2>4, <2>5, <2>8, <2>9, <2>10, <2>11 DEF IdsInv
<1> QED
  BY <1>7, <1>8

LEMMA IdsClient ==
    ASSUME Threads, IdsInv, NEW c \in Clients, ClientThread(c) \/ LibraryError(c), dbname = "f3tree"
    PROVE  IdsInv'
<1>1. Apart(c)
  BY ClientStepFacts
<1>2. SameIds(db) /\ DOMAIN db = DbFields
  BY DEF SameIds, IdsInv
<1>3. Clients' = Clients /\ do_transaction' = do_transaction /\ main'.phase = main.phase /\ props' = props
  BY <1>1, SameProps DEF Apart
<1>4. ASSUME SameIds(db'),
             \/ cl[c].pc = "countdown" /\ cl'[c].pc = "done"
             \/ /\ cl[c].pc \in {"next", "sleep", "awake", "work"}
                /\ cl'[c].pc \in {"next", "sleep", "awake", "work"}
      PROVE  IdsInv'
  <2>1. \A d \in Clients : (HasId(d)' <=> HasId(d))
    BY <1>1, <1>3, <1>4 DEF HasId, Apart, Cleaned
  <2>2. Begun' = Begun
    BY <1>1, <1>3, <1>4 DEF Begun, Apart
  <2> QED
    BY <1>3, <1>4, <2>1, <2>2, IdsStay
<1>5. CASE ClientInit(c)
  BY <1>5, IdsInit
<1>6. CASE Consume(c) \/ Awake(c)
  BY <1>2, <1>4, <1>6, WaitEffect
<1>7. CASE ClientNext(c)
  BY <1>2, <1>4, <1>7, ClientNextEffect
<1>8. CASE Library(c)
  <2>1. SameIds(db')
    BY <1>2, <1>8, LibraryEffect, AnswerKeepsIds
  <2> QED
    BY <1>4, <1>8, <2>1, LibraryEffect DEF Works
<1>9. CASE LibraryError(c)
  BY <1>9, LibraryErrorEffect
<1>10. CASE Report(c)
  BY <1>2, <1>4, <1>10, ReportEffect DEF Works
<1>11. CASE Cas(c)
  BY <1>2, <1>4, <1>11, CasEffect DEF Works
<1>12. CASE Ack(c)
  <2>1. SameIds(db') /\ cl[c].pc = "work"
    BY <1>2, <1>12, AckEffect
  <2>2. cl'[c].pc \in {"next", "work"}
    BY <1>12, <2>1, AckEffect DEF Works
  <2> QED
    BY <1>4, <2>1, <2>2
<1>13. CASE ClientCleanup(c)
  BY <1>13, IdsCleanup
<1>14. CASE CountDown(c)
  BY <1>2, <1>4, <1>14, CountDownEffect
<1> QED
  BY <1>5, <1>6, <1>7, <1>8, <1>9, <1>10, <1>11, <1>12, <1>13, <1>14 DEF ClientThread

LEMMA IdsStep ==
    Threads /\ PhaseInv /\ (dbname = "f3tree" => IdsInv) /\ [Next]_vars => (dbname = "f3tree" => IdsInv)'
<1> SUFFICES ASSUME Threads, PhaseInv, dbname = "f3tree" => IdsInv, [Next]_vars, dbname' = "f3tree"
             PROVE  IdsInv'
  OBVIOUS
<1>1. ASSUME UNCHANGED <<props, cl, db>>, Cleaned' <=> Cleaned PROVE IdsInv'
  <2>1. Clients' = Clients /\ dbname = "f3tree"
    BY <1>1, SameProps
  <2>2. IdsInv /\ SameIds(db')
    BY <1>1, <2>1 DEF IdsInv, SameIds
  <2>3. \A d \in Clients : (HasId(d)' <=> HasId(d))
    BY <1>1 DEF HasId
  <2>4. Begun' = Begun
    BY <1>1, <2>1 DEF Begun
  <2> QED
    BY <1>1, <2>2, <2>3, <2>4, IdsStay
<1>2. CASE Main
  <2>1. CASE main.phase = "start" /\ Starts("load", props["recordcount"], TRUE)
    <3>1. /\ Clients' = Clients /\ dbname = "f3tree" /\ db' = db /\ props' = props
          /\ \A c \in Clients : cl'[c].pc = "init"
      BY <2>1, SameProps DEF Starts
    <3>2. IdsInv /\ SameIds(db')
      BY <3>1 DEF IdsInv, SameIds
    <3>3. \A c \in Clients : cl[c].pc = "off"
      BY <2>1 DEF PhaseInv
    <3>4. \A d \in Clients : (HasId(d)' <=> HasId(d))
      BY <3>1, <3>3 DEF HasId
    <3>5. Begun' = Begun
      BY <3>1, <3>3 DEF Begun
    <3> QED
      BY <3>1, <3>2, <3>4, <3>5, IdsStay
  <2>2. CASE /\ main.phase = "between" /\ do_transaction
             /\ Starts("run", props["operationcount"], ~do_load)
    <3>1. /\ Clients' = Clients /\ dbname = "f3tree" /\ db' = db /\ props' = props
          /\ \A c \in Clients : cl'[c].pc = IF ~do_load THEN "init" ELSE "next"
      BY <2>2, SameProps DEF Starts
    <3>2. IdsInv /\ SameIds(db')
      BY <3>1 DEF IdsInv, SameIds
    <3>3. \A c \in Clients : cl[c].pc = IF do_load THEN "done" ELSE "off"
      BY <2>2 DEF PhaseInv
    <3>4. ~Cleaned
      BY <2>2 DEF Cleaned
    <3>5. \A d \in Clients : (HasId(d)' <=> HasId(d))
      BY <3>1, <3>3, <3>4 DEF HasId
    <3>6. Begun' = Begun
      BY <3>1, <3>3 DEF Begun
    <3> QED
      BY <3>1, <3>2, <3>5, <3>6, IdsStay
  <2>3. ASSUME NEW phase, Turns(phase), main.phase \in {"run", "end"} <=> phase \in {"run", "end"}
        PROVE  IdsInv'
    <3>1. UNCHANGED <<props, cl, db>> /\ main'.phase = phase
      BY <2>3 DEF Turns
    <3>2. Cleaned' <=> Cleaned
      BY <2>3, <3>1, SameProps DEF Cleaned
    <3> QED
      BY <1>1, <3>1, <3>2
  <2> QED
    BY <1>2, <2>1, <2>2, <2>3, MainEffect
<1>3. CASE \E c \in Clients : ClientThread(c) \/ LibraryError(c)
  <2>1. PICK c \in Clients : ClientThread(c) \/ LibraryError(c)
    BY <1>3
  <2>2. dbname = "f3tree"
    BY <2>1, ClientStepFacts, SameProps DEF Apart
  <2> QED
    BY <2>1, <2>2, IdsClient
<1>4. CASE StatusThread \/ RateLimitThread
  <2>1. UNCHANGED <<props, cl, db>> /\ main'.phase = main.phase
    BY <1>4, HelpersEffect
  <2> QED
    BY <1>1, <2>1, SameProps DEF Cleaned
<1>5. CASE Ended \/ UNCHANGED vars
  <2>1. UNCHANGED <<props, cl, db, main>>
    BY <1>5 DEF Ended, vars
  <2> QED
    BY <1>1, <2>1, SameProps DEF Cleaned
<1> QED
  BY <1>2, <1>3, <1>4, <1>5 DEF Next

\* Live clients of the tree have producer ids of their own below the number
\* of producers (ProducerIdsAreDistinct): a client takes one id in a run, and
\* ids start again only when nobody has one (F3TreeDB::Init, Cleanup).
THEOREM IdsAreDistinct == Spec => []ProducerIdsAreDistinct
<1>1. Init => PhaseInv /\ (dbname = "f3tree" => IdsInv)
  <2> SUFFICES ASSUME Init PROVE PhaseInv /\ IdsInv
    OBVIOUS
  <2>1. main.phase = "start" /\ \A c \in Clients : cl[c].pc = "off"
    BY DEF Init, IdleClient
  <2>2. PhaseInv
    BY <2>1 DEF PhaseInv
  <2>3. DOMAIN db = DbFields /\ db.ids = << >> /\ db.next_id = 0 /\ db.ref_cnt = 0
    BY DEF Init, R!Unopened, DbFields
  <2>4. {c \in Clients : HasId(c)} = {} /\ Begun = {}
    BY <2>1 DEF HasId, Begun
  <2>5. DOMAIN db.ids = {}
    BY <2>3
  <2>6. Cardinality({}) = 0
    BY FS_EmptySet
  <2> QED
    BY <2>2, <2>3, <2>4, <2>5, <2>6 DEF IdsInv
<1>2. Threads /\ (dbname = "f3tree" => IdsInv) => ProducerIdsAreDistinct
  <2> SUFFICES ASSUME Threads, IdsInv PROVE ProducerIdsAreDistinct
    BY DEF ProducerIdsAreDistinct
  <2>1. IsInjective(db.ids)
    BY DEF IsInjective, IdsInv
  <2>2. Cardinality(Begun) <= num_threads /\ num_threads \in Nat /\ Cardinality(Begun) \in Nat
    BY ClientsFinite, FS_Subset DEF Begun, Threads
  <2>3. F3Tree!BuildConfig(num_threads).producer_threads = num_threads
    BY DEF F3Tree!BuildConfig
  <2>4. \A c \in DOMAIN db.ids : db.ids[c] < num_threads
    BY <2>2 DEF IdsInv
  <2> QED
    BY <2>1, <2>3, <2>4 DEF ProducerIdsAreDistinct
<1> QED
  BY <1>1, <1>2, PhaseStep, IdsStep, ThreadsAlways, PTL DEF Spec

-----------------------------------------------------------------------------
(* Operations. *)

\* A total of zeros.
LEMMA TotalOfZeros ==
    ASSUME NEW S, IsFiniteSet(S), NEW f, \A x \in S : f[x] = 0
    PROVE  Total(f, S) = 0
<1>1. \A x \in S : f[x] \in Nat
  OBVIOUS
<1>2. S \in SUBSET S /\ \A x \in S : f[x] = IF x \in S THEN 0 ELSE f[x]
  OBVIOUS
<1>3. Total(f, S) = Total(f, S) - Total(f, S)
  BY <1>1, <1>2, TotalClear
<1>4. Total(f, S) \in Nat
  BY <1>1, TotalSplit
<1> QED
  BY <1>3, <1>4

\* q for each of n clients, and one more for the first r of them.
Shared(f, n, q, r) == \A c \in 1 .. n : f[c] = q + (IF c - 1 < r THEN 1 ELSE 0)

\* The shares of the first k of n clients.
LEMMA SharesOfSome ==
    ASSUME NEW n \in Nat, NEW q \in Nat, NEW r \in Nat, NEW f, Shared(f, n, q, r)
    PROVE  \A k \in 0 .. n : Total(f, 1 .. k) = k * q + (IF k < r THEN k ELSE r)
<1> DEFINE Holds(k) == Total(f, 1 .. k) = k * q + (IF k < r THEN k ELSE r)
           Bad == {k \in 0 .. n : ~Holds(k)}
<1> SUFFICES ASSUME Bad # {} PROVE FALSE
  OBVIOUS
<1>0. Bad \in SUBSET Nat
  OBVIOUS
<1>1. PICK k \in Bad : \A j \in Bad : k <= j
  <2> HIDE DEF Bad
  <2> QED
    BY <1>0, LeastNatural
<1>2. k \in 0 .. n /\ ~Holds(k)
  BY <1>1
<1>3. \A c \in 1 .. k : f[c] \in Nat
  BY <1>2 DEF Shared
<1>4. IsFiniteSet(1 .. k)
  BY <1>2, FS_Interval
<1>5. k # 0
  <2> SUFFICES ASSUME k = 0 PROVE Holds(k)
    BY <1>2
  <2>1. 1 .. k = {}
    OBVIOUS
  <2>2. Total(f, 1 .. k) = 0
    BY <1>3, <1>4, <2>1, TotalSplit
  <2>3. k * q = 0
    OBVIOUS
  <2> QED
    BY <2>2, <2>3
<1>6. PICK j \in 0 .. n : k = j + 1
  <2>1. k - 1 \in 0 .. n /\ k = (k - 1) + 1
    BY <1>2, <1>5
  <2> QED
    BY <2>1
<1>7. Holds(j)
  <2>1. j \notin Bad
    <3> HIDE DEF Bad
    <3> QED
      BY <1>1, <1>2, <1>6
  <2> QED
    BY <2>1
<1>8. (1 .. k) \ {k} = 1 .. j /\ k \in 1 .. k
  BY <1>2, <1>6
<1>9. Total(f, 1 .. k) = f[k] + Total(f, 1 .. j)
  <2> HIDE DEF Holds, Bad
  <2>1. Total(f, 1 .. k) = f[k] + Total(f, (1 .. k) \ {k})
    BY <1>3, <1>4, <1>8, TotalSplit
  <2> QED
    BY <1>8, <2>1
<1>10. f[k] = q + (IF j < r THEN 1 ELSE 0)
  BY <1>2, <1>6 DEF Shared
<1>11. k * q = j * q + q /\ j * q \in Nat
  BY <1>6
<1>12. PICK a : a = j * q
  OBVIOUS
<1>13. PICK b : b = k * q
  OBVIOUS
<1>14. Total(f, 1 .. k) = b + (IF k < r THEN k ELSE r)
  <2>1. Total(f, 1 .. j) = a + (IF j < r THEN j ELSE r)
    BY <1>7, <1>12
  <2>2. b = a + q /\ a \in Nat
    BY <1>11, <1>12, <1>13
  <2>3. j \in Nat
    BY <1>6
  <2> HIDE DEF Holds, Bad
  <2> QED
    BY <1>6, <1>9, <1>10, <2>1, <2>2, <2>3
<1> QED
  BY <1>2, <1>13, <1>14

\* The clients' shares add up to the operations asked for.
LEMMA SharesAddUp ==
    ASSUME Threads, NEW total \in Nat, NEW f, \A c \in Clients : f[c] = ThreadOps(total, c)
    PROVE  Total(f, Clients) = total
<1>1. PICK n \in Nat \ {0} : n = num_threads
  BY DEF Threads
<1>2. PICK q \in Nat : q = total \div n
  BY <1>1
<1>3. PICK r \in Nat : r = total % n
  BY <1>1
<1>4. total = n * q + r /\ r < n
  BY <1>1, <1>2, <1>3
<1>5. Shared(f, n, q, r)
  BY <1>1, <1>2, <1>3 DEF ThreadOps, Clients, Shared
<1>6. Total(f, 1 .. n) = n * q + (IF n < r THEN n ELSE r)
  <2>1. \A k \in 0 .. n : Total(f, 1 .. k) = k * q + (IF k < r THEN k ELSE r)
    BY <1>5, SharesOfSome
  <2>2. n \in 0 .. n
    OBVIOUS
  <2> QED
    BY <2>1, <2>2
<1>7. PICK a : a = n * q
  OBVIOUS
<1> QED
  BY <1>1, <1>4, <1>6, <1>7 DEF Clients

-----------------------------------------------------------------------------
\* Every operation of the workload is one DB call.
OneCall == "readmodifywriteproportion" \notin op_chooser(props)

\* The calls client c has still to report.
Remaining(c) == cl[c].left + Owed(cl[c].list)

AllRemaining == Total([c \in Clients |-> Remaining(c)], Clients)

\* What is counted and what remains are the operations asked for.
OperationsInv ==
    OneCall =>
        /\ main.phase = "run" =>
              /\ \A c \in Clients : AtMostOne(cl[c].list)
              /\ measurements.count + AllRemaining = props["operationcount"]
        /\ main.phase = "end" => measurements.count = props["operationcount"]

LEMMA RemainingIsNat ==
    ASSUME Threads
    PROVE  /\ \A c \in Clients : Remaining(c) \in Nat
           /\ AllRemaining \in Nat
<1>1. \A c \in Clients : Remaining(c) \in Nat
  BY DEF Threads, ClientOK, Remaining, Owed
<1>2. PICK f : f = [c \in Clients |-> Remaining(c)]
  OBVIOUS
<1>3. \A c \in Clients : f[c] \in Nat
  BY <1>1, <1>2
<1>4. IsFiniteSet(Clients)
  BY ClientsFinite
<1>5. Total(f, Clients) \in Nat
  BY <1>3, <1>4, TotalSplit
<1> QED
  BY <1>1, <1>2, <1>5 DEF AllRemaining

\* A step of a client reports one of the calls that remain, or none.
LEMMA CallOfStep ==
    ASSUME Threads, NEW c \in Clients, ClientThread(c) \/ LibraryError(c),
           OneCall, AtMostOne(cl[c].list)
    PROVE  /\ AtMostOne(cl'[c].list)
           /\ \/ Remaining(c)' = Remaining(c) /\ measurements'.count = measurements.count
              \/ Remaining(c) = Remaining(c)' + 1 /\ measurements'.count = measurements.count + 1
<1> DEFINE Same == Remaining(c)' = Remaining(c) /\ measurements'.count = measurements.count
<1>0. cl[c].left \in Nat /\ WellFormed(cl[c].list) /\ (cl[c].pc # "work" => cl[c].list = << >>)
  BY DEF Threads, ClientOK
<1>1. ASSUME cl'[c].list = cl[c].list, cl'[c].left = cl[c].left, UNCHANGED measurements
      PROVE  AtMostOne(cl'[c].list) /\ Same
  BY <1>1 DEF Remaining
<1>2. CASE ClientInit(c)
  BY <1>1, <1>2, ClientInitEffect
<1>3. CASE Consume(c) \/ Awake(c)
  BY <1>1, <1>3, WaitEffect
<1>4. CASE ClientNext(c)
  <2>1. /\ cl[c].pc \in {"next", "awake"} /\ cl'[c].left = cl[c].left - 1
        /\ OneReport(cl'[c].list) /\ UNCHANGED measurements
    BY <1>4, ClientNextEffect DEF OneCall
  <2>2. AtMostOne(cl'[c].list) /\ Owed(cl'[c].list) = 1
    BY <2>1, OneIsOwed
  <2>3. Owed(cl[c].list) = 0
    BY <1>0, <2>1, NothingOwed
  <2> QED
    BY <1>0, <2>1, <2>2, <2>3 DEF Remaining
<1>5. ASSUME Works(c), UNCHANGED measurements, Head(cl[c].list).do # "report",
             \/ cl'[c].list = Tail(cl[c].list)
             \/ Head(cl[c].list).do \in Requests /\ cl'[c].list = AfterCall(cl[c].list)
      PROVE  AtMostOne(cl'[c].list) /\ Same
  <2>1. cl'[c].left = cl[c].left /\ cl[c].list # << >>
    BY <1>5, ListAtWork DEF Works
  <2>2. AtMostOne(cl'[c].list) /\ Owed(cl'[c].list) = Owed(cl[c].list)
    BY <1>0, <1>5, <2>1, TailOfList, RestOfCall
  <2> QED
    BY <1>5, <2>1, <2>2 DEF Remaining
<1>6. CASE Library(c)
  <2>1. /\ Works(c) /\ UNCHANGED measurements /\ Head(cl[c].list).do \in Requests
        /\ cl'[c].list = Tail(cl[c].list) \/ cl'[c].list = AfterCall(cl[c].list)
    BY <1>6, LibraryEffect
  <2>2. Head(cl[c].list).do # "report"
    BY <2>1 DEF Requests
  <2> QED
    BY <1>5, <2>1, <2>2
<1>7. CASE LibraryError(c)
  <2>1. /\ UNCHANGED measurements
        /\ \/ cl' = cl
           \/ /\ Works(c) /\ Head(cl[c].list).do \in Requests
              /\ cl'[c].list = AfterCall(cl[c].list)
    BY <1>7, LibraryErrorEffect
  <2>2. CASE cl' = cl
    BY <1>1, <2>1, <2>2
  <2>3. CASE Works(c) /\ Head(cl[c].list).do \in Requests /\ cl'[c].list = AfterCall(cl[c].list)
    <3>1. Head(cl[c].list).do # "report"
      BY <2>3 DEF Requests
    <3> QED
      BY <1>5, <2>1, <2>3, <3>1
  <2> QED
    BY <2>1, <2>2, <2>3
<1>8. CASE Report(c)
  <2>1. PICK latency \in Latencies :
             /\ Works(c) /\ Head(cl[c].list).do = "report"
             /\ cl'[c].list = IF measurements.latency_min > latency
                              THEN << CasOf(latency, measurements.latency_min) >> \o Tail(cl[c].list)
                              ELSE Tail(cl[c].list)
             /\ measurements'.count = measurements.count + 1
    BY <1>8, ReportEffect
  <2>2. cl'[c].left = cl[c].left /\ cl[c].list # << >>
    BY <2>1, ListAtWork DEF Works
  <2>3. Owed(cl[c].list) = 1 /\ Owed(Tail(cl[c].list)) = 0 /\ AtMostOne(Tail(cl[c].list))
    BY <1>0, <2>1, <2>2, TailOfList
  <2>4. PICK r : r = CasOf(latency, measurements.latency_min)
    OBVIOUS
  <2>5. r.do = "cas"
    BY <2>4 DEF CasOf
  <2>6. PICK s : s = << r >> \o Tail(cl[c].list)
    OBVIOUS
  <2>7. AtMostOne(s) /\ Owed(s) = 0
    BY <1>0, <2>2, <2>3, <2>5, <2>6, CasOfList
  <2>8. AtMostOne(cl'[c].list) /\ Owed(cl'[c].list) = 0
    BY <2>1, <2>3, <2>4, <2>6, <2>7
  <2> QED
    BY <1>0, <2>1, <2>2, <2>3, <2>8 DEF Remaining
<1>9. CASE Cas(c)
  <2>1. PICK r : r = Head(cl[c].list)
    OBVIOUS
  <2>2. PICK now : now = measurements.latency_min
    OBVIOUS
  <2>3. PICK t : t = Tail(cl[c].list)
    OBVIOUS
  <2>4. /\ Works(c) /\ r.do = "cas" /\ measurements'.count = measurements.count
        /\ cl'[c].list = IF now # r.prev /\ now > r.latency
                         THEN << [r EXCEPT !.prev = now] >> \o t ELSE t
    BY <1>9, <2>1, <2>2, <2>3, CasEffect
  <2>5. cl'[c].left = cl[c].left /\ cl[c].list # << >>
    BY <2>4, ListAtWork DEF Works
  <2>6. AtMostOne(t) /\ Owed(t) = Owed(cl[c].list)
    BY <1>0, <2>1, <2>3, <2>4, <2>5, TailOfList
  <2>7. PICK again : again = [r EXCEPT !.prev = now]
    OBVIOUS
  <2>8. again.do = "cas"
    BY <2>4, <2>7
  <2>9. PICK s : s = << again >> \o t
    OBVIOUS
  <2>10. AtMostOne(s) /\ Owed(s) = Owed(t)
    BY <1>0, <2>3, <2>5, <2>8, <2>9, CasOfList
  <2>11. cl'[c].list = s \/ cl'[c].list = t
    BY <2>4, <2>7, <2>9
  <2>12. AtMostOne(cl'[c].list) /\ Owed(cl'[c].list) = Owed(cl[c].list)
    BY <2>6, <2>10, <2>11
  <2> QED
    BY <2>4, <2>5, <2>12 DEF Remaining
<1>10. CASE Ack(c)
  <2>1. /\ UNCHANGED measurements /\ Head(cl[c].list).do = "ack"
        /\ cl' = cl \/ (Works(c) /\ cl'[c].list = Tail(cl[c].list))
    BY <1>10, AckEffect
  <2> QED
    BY <1>1, <1>5, <2>1
<1>11. CASE ClientCleanup(c)
  BY <1>1, <1>11, ClientCleanupEffect
<1>12. CASE CountDown(c)
  BY <1>1, <1>12, CountDownEffect
<1> QED
  BY <1>2, <1>3, <1>4, <1>6, <1>7, <1>8, <1>9, <1>10, <1>11, <1>12 DEF ClientThread

\* Clients and counts that stay leave the sum alone.
LEMMA OperationsStay ==
    ASSUME OperationsInv, UNCHANGED <<props, cl>>, measurements'.count = measurements.count,
           main'.phase = main.phase
    PROVE  OperationsInv'
<1>1. Clients' = Clients /\ OneCall' = OneCall
  BY SameProps DEF OneCall
<1>2. AllRemaining' = AllRemaining
  BY <1>1 DEF AllRemaining, Remaining
<1> QED
  BY <1>1, <1>2 DEF OperationsInv

LEMMA OperationsStep == Threads /\ OperationsInv /\ [Next]_vars => OperationsInv'
<1> SUFFICES ASSUME Threads, OperationsInv, [Next]_vars PROVE OperationsInv'
  OBVIOUS
<1>1. ASSUME main'.phase \in {"start", "load", "between"} PROVE OperationsInv'
  BY <1>1 DEF OperationsInv
<1>2. ASSUME do_transaction, measurements' = NoMeasurements,
             Starts("run", props["operationcount"], ~do_load)
      PROVE  OperationsInv'
  <2>1. PICK total : total = props["operationcount"]
    OBVIOUS
  <2>2. total \in Nat /\ props' = props /\ main'.phase = "run"
    BY <1>2, <2>1 DEF Threads, Starts
  <2>3. Clients' = Clients
    BY <2>2, SameProps
  <2>4. \A c \in Clients : cl'[c].list = << >> /\ cl'[c].left = ThreadOps(total, c)
    BY <1>2, <2>1 DEF Starts
  <2>5. \A c \in Clients : AtMostOne(cl'[c].list) /\ Remaining(c)' = ThreadOps(total, c)
    BY <2>2, <2>4, NothingOwed, ShareIsNat DEF Remaining
  <2>6. PICK f : f = [c \in Clients |-> Remaining(c)']
    OBVIOUS
  <2>7. \A c \in Clients : f[c] = ThreadOps(total, c)
    BY <2>5, <2>6
  <2>8. Total(f, Clients) = total
    BY <2>2, <2>7, SharesAddUp
  <2>9. AllRemaining' = total
    BY <2>3, <2>6, <2>8 DEF AllRemaining
  <2>10. measurements'.count = 0
    BY <1>2 DEF NoMeasurements
  <2>11. props'["operationcount"] = total
    BY <2>1, <2>2
  <2> QED
    BY <2>2, <2>3, <2>5, <2>9, <2>10, <2>11 DEF OperationsInv
<1>3. ASSUME main.phase = "run", Joined, Turns("end"), UNCHANGED measurements
      PROVE  OperationsInv'
  <2>1. main'.phase = "end" /\ props' = props /\ measurements'.count = measurements.count
    BY <1>3 DEF Turns
  <2>2. OneCall' = OneCall /\ props'["operationcount"] = props["operationcount"]
    BY <2>1, SameProps DEF OneCall
  <2>3. \A c \in Clients : cl[c].list = << >> /\ cl[c].left = 0
    BY <1>3 DEF Joined, Threads, ClientOK
  <2>4. \A c \in Clients : Remaining(c) = 0
    BY <2>3, NothingOwed DEF Remaining
  <2>5. PICK f : f = [c \in Clients |-> Remaining(c)]
    OBVIOUS
  <2>6. \A c \in Clients : f[c] = 0
    BY <2>4, <2>5
  <2>7. Total(f, Clients) = 0
    BY <2>6, ClientsFinite, TotalOfZeros
  <2>8. AllRemaining = 0 /\ measurements.count \in Nat
    BY <2>5, <2>7 DEF AllRemaining, Threads
  <2>9. OneCall => measurements.count = props["operationcount"]
    BY <1>3, <2>8 DEF OperationsInv
  <2> QED
    BY <2>1, <2>2, <2>9 DEF OperationsInv
<1>4. CASE Main
  BY <1>1, <1>2, <1>3, <1>4, MainEffect DEF Starts, Turns
<1>5. ASSUME NEW c \in Clients, ClientThread(c) \/ LibraryError(c) PROVE OperationsInv'
  <2>1. Apart(c) /\ cl[c].pc \notin {"off", "done"}
    BY <1>5, ClientStepFacts
  <2>2. /\ main'.phase = main.phase /\ props' = props /\ Clients' = Clients /\ OneCall' = OneCall
        /\ \A d \in Clients \ {c} : cl'[d] = cl[d]
    BY <2>1, SameProps DEF Apart, OneCall
  <2>3. main.phase \in {"load", "run"}
    BY <2>1, WorkIsBusy DEF Busy
  <2> SUFFICES ASSUME OneCall, main.phase = "run"
               PROVE  /\ \A d \in Clients : AtMostOne(cl'[d].list)
                      /\ measurements'.count + AllRemaining' = props["operationcount"]
    BY <2>2, <2>3 DEF OperationsInv
  <2>4. /\ \A d \in Clients : AtMostOne(cl[d].list)
        /\ measurements.count + AllRemaining = props["operationcount"]
    BY DEF OperationsInv
  <2>5. /\ AtMostOne(cl'[c].list)
        /\ \/ Remaining(c)' = Remaining(c) /\ measurements'.count = measurements.count
           \/ Remaining(c) = Remaining(c)' + 1 /\ measurements'.count = measurements.count + 1
    BY <1>5, <2>4, CallOfStep
  <2>6. \A d \in Clients : AtMostOne(cl'[d].list)
    BY <2>2, <2>4, <2>5
  <2>7. \A d \in Clients \ {c} : Remaining(d)' = Remaining(d)
    BY <2>2 DEF Remaining
  <2>8. PICK f : f = [d \in Clients |-> Remaining(d)]
    OBVIOUS
  <2>9. PICK h : h = [d \in Clients |-> Remaining(d)']
    OBVIOUS
  <2>10. AllRemaining = Total(f, Clients) /\ AllRemaining' = Total(h, Clients)
    BY <2>2, <2>8, <2>9 DEF AllRemaining
  <2>11. /\ \A d \in Clients : f[d] \in Nat
         /\ \A d \in Clients \ {c} : h[d] = f[d]
         /\ IsFiniteSet(Clients) /\ measurements.count \in Nat /\ AllRemaining \in Nat
    BY <2>7, <2>8, <2>9, RemainingIsNat, ClientsFinite DEF Threads
  <2>12. CASE Remaining(c)' = Remaining(c) /\ measurements'.count = measurements.count
    <3>1. \A d \in Clients : h[d] = f[d]
      BY <2>8, <2>9, <2>11, <2>12
    <3>2. Total(h, Clients) = Total(f, Clients)
      BY <2>11, <3>1, TotalSame
    <3> QED
      BY <2>4, <2>6, <2>10, <2>12, <3>2
  <2>13. CASE Remaining(c) = Remaining(c)' + 1 /\ measurements'.count = measurements.count + 1
    <3>0. cl'[c].left \in Nat
      <4>1. Threads'
        BY <1>5, ClientThreads
      <4> QED
        BY <2>2, <4>1 DEF Threads, ClientOK
    <3>1. h[c] \in Nat /\ f[c] = h[c] + 1
      BY <2>8, <2>9, <2>13, <3>0 DEF Remaining, Owed
    <3>2. \A d \in Clients : h[d] \in Nat
      BY <2>11, <3>1
    <3>3. Total(f, Clients) = Total(h, Clients) + 1
      BY <2>11, <3>1, <3>2, TotalIncrement
    <3>4. Total(h, Clients) \in Nat
      BY <2>11, <3>2, TotalSplit
    <3> QED
      BY <2>4, <2>6, <2>10, <2>11, <2>13, <3>3, <3>4
  <2> QED
    BY <2>5, <2>12, <2>13
<1>6. CASE StatusThread \/ RateLimitThread
  BY <1>6, HelpersEffect, OperationsStay
<1>7. CASE Ended \/ UNCHANGED vars
  <2>1. UNCHANGED <<props, cl, measurements, main>>
    BY <1>7 DEF Ended, vars
  <2> QED
    BY <2>1, OperationsStay
<1> QED
  BY <1>4, <1>5, <1>6, <1>7 DEF Next

\* Unless operations are read-modify-writes, which are two calls, every
\* operation asked for is done and counted once when the process ends well
\* (AllOperationsDone): the shares of the threads add up to the operations
\* (ycsbc.cc, main), and a thread leaves its loop when its share is done and
\* the call of its last operation reported (ClientThread, DBWrapper).
THEOREM AllAreDone == Spec => []AllOperationsDone
<1>1. Init => OperationsInv
  <2> SUFFICES ASSUME Init PROVE OperationsInv
    OBVIOUS
  <2>1. main.phase = "start"
    BY DEF Init
  <2> QED
    BY <2>1 DEF OperationsInv
<1>2. OperationsInv => AllOperationsDone
  BY DEF OperationsInv, AllOperationsDone, OneCall
<1> QED
  BY <1>1, <1>2, OperationsStep, ThreadsAlways, PTL DEF Spec

-----------------------------------------------------------------------------
(* The acknowledged keys. *)

\* A key sequence with the keys of O taken and not yet acknowledged: the
\* window holds the slots of the others ahead of the limit.
KeysOK(s, O) ==
    /\ DOMAIN s = {"load", "counter", "limit", "window"}
    /\ s.counter \in Nat /\ s.limit \in Int /\ 0 <= s.limit + 1 /\ s.limit < s.counter
    /\ O \subseteq s.limit + 1 .. s.counter - 1
    /\ s.window = {k % kWindowSize : k \in (s.limit + 1 .. s.counter - 1) \ O}
    /\ s.limit + 1 = s.counter \/ s.limit + 1 \in O

\* Fewer keys than the window has slots are ahead of the limit.
InWindow(s) == s.counter - s.limit <= kWindowSize

\* Numbers less than n apart have slots of their own.
LEMMA SlotsDiffer ==
    ASSUME NEW n \in Nat \ {0}, NEW a \in Nat, NEW b \in Nat, a % n = b % n, a <= b, b - a < n
    PROVE  a = b
<1>1. PICK q \in Nat : q = a \div n
  BY DivFacts
<1>2. PICK p \in Nat : p = b \div n
  BY DivFacts
<1>3. PICK r \in Nat : r = a % n
  BY ModFacts
<1>4. a = n * q + r /\ b = n * p + r
  BY <1>1, <1>2, <1>3
<1>5. PICK x : x = n * q
  OBVIOUS
<1>6. PICK y : y = n * p
  OBVIOUS
<1>7. q + 1 <= p => x + n <= y
  <2> SUFFICES ASSUME q + 1 <= p PROVE x + n <= y
    OBVIOUS
  <2>1. (q + 1) * n <= p * n
    BY <1>1, <1>2, MulMono
  <2>2. (q + 1) * n = n * q + n /\ p * n = n * p
    BY <1>1, <1>2
  <2> QED
    BY <1>5, <1>6, <2>1, <2>2
<1>8. p + 1 <= q => y + n <= x
  <2> SUFFICES ASSUME p + 1 <= q PROVE y + n <= x
    OBVIOUS
  <2>1. (p + 1) * n <= q * n
    BY <1>1, <1>2, MulMono
  <2>2. (p + 1) * n = n * p + n /\ q * n = n * q
    BY <1>1, <1>2
  <2> QED
    BY <1>5, <1>6, <2>1, <2>2
<1>9. p = q
  <2>1. x \in Nat /\ y \in Nat
    BY <1>5, <1>6
  <2>2. a = x + r /\ b = y + r
    BY <1>4, <1>5, <1>6
  <2>3. x - y < n /\ y - x < n
    BY <2>1, <2>2
  <2> QED
    BY <1>7, <1>8, <2>1, <2>3
<1> QED
  BY <1>4, <1>5, <1>6, <1>9

\* Slots tell the keys of a window apart.
LEMMA SlotsOf ==
    ASSUME NEW n \in Nat \ {0}, NEW l \in Int, 0 <= l + 1, NEW A \in SUBSET (l + 1 .. l + n),
           NEW j \in l + 1 .. l + n
    PROVE  j % n \in {k % n : k \in A} <=> j \in A
<1> SUFFICES ASSUME NEW k \in A, j % n = k % n PROVE j = k
  OBVIOUS
<1>1. j \in Nat /\ k \in Nat /\ k \in l + 1 .. l + n
  OBVIOUS
<1>0. k - j < n /\ j - k < n
  BY <1>1
<1>2. CASE j <= k
  BY <1>0, <1>1, <1>2, SlotsDiffer
<1>3. CASE k <= j
  BY <1>0, <1>1, <1>3, SlotsDiffer
<1> QED
  BY <1>1, <1>2, <1>3

\* An acknowledgement moves the limit right before the first key that is
\* still being inserted.
LEMMA Acknowledged ==
    ASSUME NEW s, NEW O, KeysOK(s, O), InWindow(s), NEW k \in O
    PROVE  /\ ~WindowIsFull(s, k)
           /\ KeysOK(Acknowledge(s, k), O \ {k})
           /\ Acknowledge(s, k).counter = s.counter
           /\ s.limit <= Acknowledge(s, k).limit
<1>1. PICK n \in Nat \ {0} : n = kWindowSize
  BY YcsbAssumption
<1>2. PICK c \in Nat : c = s.counter
  BY DEF KeysOK
<1>3. PICK l \in Int : l = s.limit
  BY DEF KeysOK
<1>4. 0 <= l + 1 /\ l < c /\ c - l <= n
  BY <1>1, <1>2, <1>3 DEF KeysOK, InWindow
<1>5. O \subseteq l + 1 .. c - 1
  BY <1>2, <1>3 DEF KeysOK
<1>6. PICK A : A = (l + 1 .. c - 1) \ O
  OBVIOUS
<1>7. PICK B : B = (l + 1 .. c - 1) \ (O \ {k})
  OBVIOUS
<1>8. /\ B = A \cup {k} /\ k \notin A
      /\ A \in SUBSET (l + 1 .. l + n) /\ B \in SUBSET (l + 1 .. l + n)
      /\ k \in l + 1 .. l + n
  BY <1>4, <1>5, <1>6, <1>7
<1>9. s.window = {x % n : x \in A}
  BY <1>1, <1>2, <1>3, <1>6 DEF KeysOK
<1>10. ~WindowIsFull(s, k)
  <2>1. k % n \notin {x % n : x \in A}
    BY <1>4, <1>8, SlotsOf
  <2> QED
    BY <1>1, <1>9, <2>1 DEF WindowIsFull
<1>11. PICK window : window = s.window \cup {k % n}
  OBVIOUS
<1>12. window = {x % n : x \in B}
  BY <1>8, <1>9, <1>11
<1>13. \A j \in l + 1 .. l + n : j % n \in window <=> j \in B
  BY <1>4, <1>8, <1>12, SlotsOf
<1> DEFINE First(j) == /\ j % n \notin window \/ j = l + n
                       /\ \A h \in l + 1 .. j - 1 : h % n \in window
<1>14. PICK i \in l + 1 .. l + n : /\ i = CHOOSE j \in l + 1 .. l + n : First(j)
                                   /\ First(i)
  <2>1. PICK T : T = {j \in l + 1 .. l + n : j \notin B}
    OBVIOUS
  <2>2. c \in T /\ T \in SUBSET Nat
    BY <1>4, <1>7, <2>1
  <2>3. PICK m \in T : \A j \in T : m <= j
    BY <2>2, LeastNatural
  <2>4. m \in l + 1 .. l + n /\ m \notin B
    BY <2>1, <2>3
  <2>5. m % n \notin window
    BY <1>13, <2>4
  <2>6. ASSUME NEW h \in l + 1 .. m - 1 PROVE h % n \in window
    <3>1. h \in l + 1 .. l + n /\ ~(m <= h)
      BY <2>4
    <3>2. h \in B
      BY <2>1, <2>3, <3>1
    <3> QED
      BY <1>13, <3>1, <3>2
  <2>7. First(m)
    BY <2>5, <2>6
  <2> HIDE DEF First
  <2> QED
    BY <2>4, <2>7
<1>15. i \notin B
  <2>1. i % n \notin window \/ i = l + n
    BY <1>14
  <2>2. CASE i % n \notin window
    BY <1>13, <1>14, <2>2
  <2>3. CASE i = l + n
    BY <1>4, <1>7, <2>3
  <2> QED
    BY <2>1, <2>2, <2>3
<1>16. \A h \in l + 1 .. i - 1 : h \in B
  <2> SUFFICES ASSUME NEW h \in l + 1 .. i - 1 PROVE h \in B
    OBVIOUS
  <2>1. h % n \in window
    BY <1>14
  <2>2. h \in l + 1 .. l + n
    BY <1>14
  <2> HIDE DEF First
  <2> QED
    BY <1>13, <2>1, <2>2
<1> HIDE DEF First
<1>17. i <= c
  <2> SUFFICES ASSUME c < i PROVE FALSE
    BY <1>14
  <2>1. c \in l + 1 .. i - 1
    BY <1>4, <1>14
  <2> QED
    BY <1>7, <1>16, <2>1
<1>18. PICK t : t = Acknowledge(s, k)
  OBVIOUS
<1>19. t = [s EXCEPT !.window = window \ {h % n : h \in l + 1 .. i - 1}, !.limit = i - 1]
  BY <1>1, <1>3, <1>11, <1>14, <1>18 DEF Acknowledge, First
<1>20. /\ DOMAIN t = {"load", "counter", "limit", "window"}
       /\ t.counter = c /\ t.limit = i - 1
       /\ t.window = window \ {h % n : h \in l + 1 .. i - 1}
  BY <1>2, <1>19 DEF KeysOK
<1>21. PICK D : D = (i .. c - 1) \ (O \ {k})
  OBVIOUS
<1>22. t.window = {x % n : x \in D}
  <2>1. D = {x \in B : i <= x}
    BY <1>7, <1>14, <1>21
  <2>2. PICK E : E = l + 1 .. i - 1
    OBVIOUS
  <2>3. E \in SUBSET (l + 1 .. l + n) /\ B = D \cup E /\ D \cap E = {}
    <3>1. i \in Int /\ l + 1 <= i /\ i <= l + n
      BY <1>14
    <3>2. \A x \in B : x \in Int /\ l + 1 <= x
      BY <1>8
    <3>3. \A x \in B : i <= x \/ x \in E
      BY <2>2, <3>1, <3>2
    <3>4. E \subseteq B /\ \A x \in E : ~(i <= x)
      BY <1>16, <2>2, <3>1
    <3> QED
      BY <1>8, <2>1, <3>3, <3>4
  <2>4. D \in SUBSET (l + 1 .. l + n)
    BY <1>8, <2>3
  <2>5. \A x \in D : x % n \notin {h % n : h \in E}
    BY <1>4, <2>3, <2>4, SlotsOf
  <2>6. window = {x % n : x \in D} \cup {h % n : h \in E}
    BY <1>12, <2>3
  <2> QED
    BY <1>20, <2>2, <2>5, <2>6
<1>23. O \ {k} \subseteq i .. c - 1
  <2> SUFFICES ASSUME NEW o \in O \ {k} PROVE o \in i .. c - 1
    OBVIOUS
  <2>1. o \in l + 1 .. c - 1 /\ o \notin B
    BY <1>5, <1>7
  <2>2. ~(o \in l + 1 .. i - 1)
    BY <1>16, <2>1
  <2>3. i \in Int
    BY <1>14
  <2> QED
    BY <2>1, <2>2, <2>3
<1>24. i = c \/ i \in O \ {k}
  BY <1>7, <1>14, <1>15, <1>17
<1>25. KeysOK(t, O \ {k})
  <2>1. (i - 1) + 1 = i /\ i \in Nat
    BY <1>4, <1>14
  <2> QED
    <3>1. t.limit + 1 = i /\ t.limit \in Int /\ 0 <= t.limit + 1 /\ t.limit < t.counter
      BY <1>17, <1>20, <2>1
    <3>2. t.window = {x % kWindowSize : x \in (t.limit + 1 .. t.counter - 1) \ (O \ {k})}
      BY <1>1, <1>20, <1>21, <1>22, <3>1
    <3> QED
      BY <1>20, <1>23, <1>24, <3>1, <3>2 DEF KeysOK
<1> QED
  BY <1>2, <1>3, <1>10, <1>14, <1>18, <1>20, <1>25

-----------------------------------------------------------------------------
\* The keys a list will acknowledge; an acknowledgement ends its list.
AckKeys(l) == {l[i].key : i \in {j \in 1 .. Len(l) : l[j].do = "ack"}}

AckLast(l) == \A i \in 1 .. Len(l) : l[i].do = "ack" => i = Len(l)

\* The m elements of s are those of l behind its first p, which are no
\* acknowledgements.
Follows(s, l, m, p) ==
    /\ \A j \in 1 .. m : s[j] = l[j + p]
    /\ \A j \in 1 .. p : l[j].do # "ack"

LEMMA AckOfRest ==
    ASSUME NEW l, NEW n \in Nat, Len(l) = n, NEW s, NEW m \in Nat, Len(s) = m, NEW p \in Nat,
           m + p = n, AckLast(l), Follows(s, l, m, p)
    PROVE  AckLast(s) /\ AckKeys(s) = AckKeys(l)
<1>1. \A j \in 1 .. m : j + p \in 1 .. n
  OBVIOUS
<1>2. ASSUME NEW j \in 1 .. m, s[j].do = "ack" PROVE j = m
  <2>1. j + p = n
    BY <1>1, <1>2 DEF AckLast, Follows
  <2> QED
    BY <2>1
<1>3. AckKeys(s) \subseteq AckKeys(l)
  BY <1>1 DEF AckKeys, Follows
<1>4. ASSUME NEW i \in 1 .. n, l[i].do = "ack" PROVE l[i].key \in AckKeys(s)
  <2>0. ~(i \in 1 .. p)
    BY <1>4 DEF Follows
  <2>1. i - p \in 1 .. m /\ (i - p) + p = i
    BY <2>0
  <2>2. s[i - p].do = "ack" /\ s[i - p] = l[i]
    BY <1>4, <2>1 DEF Follows
  <2> QED
    BY <2>1, <2>2 DEF AckKeys
<1>5. AckKeys(l) \subseteq AckKeys(s)
  BY <1>4 DEF AckKeys
<1> QED
  BY <1>2, <1>3, <1>5 DEF AckLast

LEMMA AckOfNone ==
    ASSUME NEW l, \A i \in 1 .. Len(l) : l[i].do # "ack"
    PROVE  AckLast(l) /\ AckKeys(l) = {}
BY DEF AckLast, AckKeys

LEMMA AckOfEmpty == AckLast(<< >>) /\ AckKeys(<< >>) = {}
<1>1. \A i \in 1 .. Len(<< >>) : << >>[i].do # "ack"
  OBVIOUS
<1> QED
  BY <1>1, AckOfNone

\* The list of an insert acknowledges its key.
LEMMA AckOfInsert ==
    ASSUME dbname \in BackEnds, NEW k, NEW c
    PROVE  AckLast(TransactionInsert(k, c)) /\ AckKeys(TransactionInsert(k, c)) = {k}
<1>1. PICK l : l = DbInsert(BuildKeyName(props, k), BuildValues(props, c))
  OBVIOUS
<1>2. PICK r : r = [do |-> "ack", key |-> k]
  OBVIOUS
<1>3. PICK s : s = l \o << r >>
  OBVIOUS
<1>4. s = TransactionInsert(k, c)
  BY <1>1, <1>2, <1>3 DEF TransactionInsert
<1>5. Single(l) /\ r.do = "ack" /\ r.key = k
  BY <1>1, <1>2, InsertCalls
<1>6. /\ Len(s) = Len(l) + 1 /\ s[Len(l) + 1] = r
      /\ \A i \in 1 .. Len(l) : s[i].do # "ack"
  BY <1>3, <1>5, CallAndAck
<1>7. PICK a \in Nat : a = Len(l)
  BY <1>5, ListFacts DEF Single, Fresh
<1>8. \A i \in 1 .. a + 1 : s[i].do = "ack" <=> i = a + 1
  BY <1>5, <1>6, <1>7
<1>9. {j \in 1 .. Len(s) : s[j].do = "ack"} = {a + 1}
  BY <1>6, <1>7, <1>8
<1>10. AckKeys(s) = {k}
  BY <1>5, <1>6, <1>7, <1>9 DEF AckKeys
<1>11. AckLast(s)
  BY <1>6, <1>7, <1>8 DEF AckLast
<1> QED
  BY <1>4, <1>10, <1>11

\* The list without its head.
LEMMA AckOfTail ==
    ASSUME NEW l, WellFormed(l), l # << >>, AckLast(l)
    PROVE  /\ AckLast(Tail(l))
           /\ Head(l).do # "ack" => AckKeys(Tail(l)) = AckKeys(l)
           /\ Head(l).do = "ack" => AckKeys(l) = {Head(l).key} /\ AckKeys(Tail(l)) = {}
<1>1. IsList(l) /\ Len(l) \in Nat \ {0} /\ Head(l) = l[1]
  BY ListFacts DEF WellFormed
<1>2. PICK n \in Nat \ {0} : n = Len(l)
  BY <1>1
<1>3. PICK s : s = Tail(l)
  OBVIOUS
<1>4. Len(s) = n - 1 /\ \A j \in 1 .. n - 1 : s[j] = l[j + 1]
  BY <1>1, <1>2, <1>3, TailFacts
<1>5. CASE l[1].do = "ack"
  <2>1. n = 1
    BY <1>2, <1>5 DEF AckLast
  <2>2. {j \in 1 .. Len(l) : l[j].do = "ack"} = {1}
    BY <1>2, <1>5, <2>1
  <2>3. AckKeys(l) = {l[1].key}
    BY <2>2 DEF AckKeys
  <2>4. AckLast(s) /\ AckKeys(s) = {}
    BY <1>4, <2>1 DEF AckLast, AckKeys
  <2> QED
    BY <1>1, <1>3, <1>5, <2>3, <2>4
<1>6. CASE l[1].do # "ack"
  <2>1. PICK m \in Nat : m = n - 1
    OBVIOUS
  <2>2. /\ Len(l) = n /\ Len(s) = m /\ 1 \in Nat /\ m + 1 = n
        /\ \A j \in 1 .. m : s[j] = l[j + 1]
        /\ \A j \in 1 .. 1 : l[j].do # "ack"
    BY <1>2, <1>4, <1>6, <2>1
  <2>3. Follows(s, l, m, 1)
    BY <2>2 DEF Follows
  <2>4. AckLast(s) /\ AckKeys(s) = AckKeys(l)
    BY <2>2, <2>3, AckOfRest
  <2> QED
    BY <1>1, <1>3, <1>6, <2>4
<1> QED
  BY <1>5, <1>6

\* The list behind a call.
LEMMA AckOfCall ==
    ASSUME NEW l, WellFormed(l), l # << >>, AckLast(l), Head(l).do \in Requests
    PROVE  AckLast(AfterCall(l)) /\ AckKeys(AfterCall(l)) = AckKeys(l)
<1>1. Len(l) \in Nat \ {0}
  BY ListFacts DEF WellFormed
<1>2. PICK n \in Nat \ {0} : n = Len(l)
  BY <1>1
<1>3. PICK s : s = AfterCall(l)
  OBVIOUS
<1>4. PICK q \in 1 .. n : /\ Len(s) = n - q + 1
                          /\ \A j \in 1 .. n - q + 1 : s[j] = l[j + q - 1]
  BY <1>2, <1>3, RestOfCall
<1>5. PICK p \in Nat : p = q - 1
  BY <1>4
<1>6. PICK m \in Nat : m = n - p
  BY <1>4, <1>5
<1>7. /\ Len(s) = m /\ m + p = n
      /\ \A j \in 1 .. m : s[j] = l[j + p]
  <2>1. \A j \in 1 .. m : j \in 1 .. n - q + 1 /\ j + q - 1 = j + p
    BY <1>4, <1>5, <1>6
  <2> QED
    BY <1>4, <1>5, <1>6, <2>1
<1>8. \A j \in 1 .. p : l[j].do # "ack"
  <2>1. \A j \in 1 .. p : j \in 1 .. n /\ j # n
    BY <1>4, <1>5
  <2> QED
    BY <1>2, <2>1 DEF AckLast
<1>9. Follows(s, l, m, p)
  BY <1>7, <1>8 DEF Follows
<1>10. AckLast(s) /\ AckKeys(s) = AckKeys(l)
  <2>1. n \in Nat /\ Len(l) = n /\ Len(s) = m /\ m + p = n
    BY <1>2, <1>7
  <2> QED
    BY <1>9, <2>1, AckOfRest
<1> QED
  BY <1>3, <1>10

\* The list with a compare and exchange in place of its head.
LEMMA AckOfCas ==
    ASSUME NEW l, WellFormed(l), l # << >>, AckLast(l), NEW r, r.do = "cas",
           Head(l).do \in {"report", "cas"}
    PROVE  AckLast(<< r >> \o Tail(l)) /\ AckKeys(<< r >> \o Tail(l)) = AckKeys(l)
<1>1. Len(l) \in Nat \ {0} /\ Head(l) = l[1]
  BY ListFacts DEF WellFormed
<1>2. PICK n \in Nat \ {0} : n = Len(l)
  BY <1>1
<1>3. PICK s : s = << r >> \o Tail(l)
  OBVIOUS
<1>4. s[1] = r /\ Len(s) = n /\ \A i \in 1 .. n - 1 : s[i + 1] = l[i + 1]
  BY <1>2, <1>3, CasOfList
<1>5. \A i \in 2 .. n : s[i] = l[i]
  <2> SUFFICES ASSUME NEW i \in 2 .. n PROVE s[i] = l[i]
    OBVIOUS
  <2>1. i - 1 \in 1 .. n - 1 /\ (i - 1) + 1 = i
    BY <1>2
  <2> QED
    BY <1>4, <2>1
<1>6. PICK A : A = {j \in 1 .. n : l[j].do = "ack"}
  OBVIOUS
<1>7. \A i \in 1 .. n : i = 1 \/ i \in 2 .. n
  OBVIOUS
<1>8. l[1].do # "ack" /\ s[1].do # "ack"
  BY <1>1, <1>4
<1>9. A = {j \in 1 .. n : s[j].do = "ack"} /\ \A j \in A : s[j] = l[j]
  BY <1>5, <1>6, <1>7, <1>8
<1>10. AckKeys(s) = {s[j].key : j \in A} /\ AckKeys(l) = {l[j].key : j \in A}
  BY <1>2, <1>4, <1>6, <1>9 DEF AckKeys
<1>11. AckKeys(s) = AckKeys(l)
  BY <1>9, <1>10
<1>12. AckLast(s)
  BY <1>2, <1>4, <1>6, <1>9 DEF AckLast
<1> QED
  BY <1>3, <1>11, <1>12

-----------------------------------------------------------------------------
\* The keys that are being inserted.
Open == UNION {AckKeys(cl[c].list) : c \in Clients}

Asked == do_load \/ do_transaction

\* The key sequence fits the lists, which hold a key each.
KeysInv ==
    /\ \A c \in Clients : AckLast(cl[c].list)
    /\ \A c, d \in Clients : c # d => AckKeys(cl[c].list) \cap AckKeys(cl[d].list) = {}
    /\ IF Asked THEN KeysOK(keys, Open)
       ELSE main.phase = "start" /\ keys.limit = keys.counter - 1

\* What a step of client c does to the keys.
Keeps(c) ==
    /\ AckKeys(cl'[c].list) = AckKeys(cl[c].list)
    /\ keys' = keys \/ keys' = [keys EXCEPT !.load = @ + 1]

Takes(c) ==
    /\ main.phase = "run" /\ AckKeys(cl[c].list) = {} /\ AckKeys(cl'[c].list) = {keys.counter}
    /\ keys' = [keys EXCEPT !.counter = @ + 1]
    /\ cl[c].left > 0 /\ cl'[c].left = cl[c].left - 1

Acks(c) ==
    \E k : /\ AckKeys(cl[c].list) = {k} /\ AckKeys(cl'[c].list) = {}
           /\ keys' = Acknowledge(keys, k)

LEMMA KeysOfStep ==
    ASSUME Threads, NEW c \in Clients, ClientThread(c) \/ LibraryError(c), AckLast(cl[c].list)
    PROVE  /\ AckLast(cl'[c].list)
           /\ Keeps(c) \/ Takes(c) \/ Acks(c)
<1>0. WellFormed(cl[c].list) /\ (cl[c].pc # "work" => cl[c].list = << >>)
  BY DEF Threads, ClientOK
<1>1. ASSUME cl'[c].list = cl[c].list, UNCHANGED keys
      PROVE  AckLast(cl'[c].list) /\ Keeps(c)
  BY <1>1 DEF Keeps
<1>2. CASE ClientInit(c)
  BY <1>1, <1>2, ClientInitEffect
<1>3. CASE Consume(c) \/ Awake(c)
  BY <1>1, <1>3, WaitEffect
<1>4. CASE ClientNext(c)
  <2>1. /\ cl[c].pc \in {"next", "awake"} /\ (NewInsert(c) \/ NewOther(c))
        /\ cl[c].left > 0 /\ cl'[c].left = cl[c].left - 1
    BY <1>4, ClientNextEffect
  <2>2. AckKeys(cl[c].list) = {}
    BY <1>0, <2>1, AckOfEmpty
  <2>3. dbname \in BackEnds
    BY <2>1, WorkIsBusy
  <2>4. CASE NewInsert(c)
    <3>1. PICK k : k = keys.counter
      OBVIOUS
    <3>2. cl'[c].list = TransactionInsert(k, c)
      BY <2>4, <3>1 DEF NewInsert
    <3>3. AckLast(cl'[c].list) /\ AckKeys(cl'[c].list) = {k}
      BY <2>3, <3>2, AckOfInsert
    <3> QED
      BY <2>1, <2>2, <2>4, <3>1, <3>3 DEF NewInsert, Takes
  <2>5. CASE NewOther(c)
    <3>1. AckLast(cl'[c].list) /\ AckKeys(cl'[c].list) = {}
      BY <2>5, AckOfNone DEF NewOther
    <3> QED
      BY <2>2, <2>5, <3>1 DEF NewOther, Keeps
  <2> QED
    BY <2>1, <2>4, <2>5
<1>5. ASSUME Works(c), UNCHANGED keys, Head(cl[c].list).do # "ack",
             \/ cl'[c].list = Tail(cl[c].list)
             \/ Head(cl[c].list).do \in Requests /\ cl'[c].list = AfterCall(cl[c].list)
      PROVE  AckLast(cl'[c].list) /\ Keeps(c)
  <2>1. cl[c].list # << >>
    BY <1>5, ListAtWork DEF Works
  <2>2. AckLast(cl'[c].list) /\ AckKeys(cl'[c].list) = AckKeys(cl[c].list)
    BY <1>0, <1>5, <2>1, AckOfTail, AckOfCall
  <2> QED
    BY <1>5, <2>2 DEF Keeps
<1>6. CASE Library(c)
  <2>1. /\ Works(c) /\ UNCHANGED keys /\ Head(cl[c].list).do \in Requests
        /\ cl'[c].list = Tail(cl[c].list) \/ cl'[c].list = AfterCall(cl[c].list)
    BY <1>6, LibraryEffect
  <2>2. Head(cl[c].list).do # "ack"
    BY <2>1 DEF Requests
  <2> QED
    BY <1>5, <2>1, <2>2
<1>7. CASE LibraryError(c)
  <2>1. /\ UNCHANGED keys
        /\ \/ cl' = cl
           \/ /\ Works(c) /\ Head(cl[c].list).do \in Requests
              /\ cl'[c].list = AfterCall(cl[c].list)
    BY <1>7, LibraryErrorEffect
  <2>2. CASE cl' = cl
    BY <1>1, <2>1, <2>2
  <2>3. CASE Works(c) /\ Head(cl[c].list).do \in Requests /\ cl'[c].list = AfterCall(cl[c].list)
    <3>1. Head(cl[c].list).do # "ack"
      BY <2>3 DEF Requests
    <3> QED
      BY <1>5, <2>1, <2>3, <3>1
  <2> QED
    BY <2>1, <2>2, <2>3
<1>8. CASE Report(c) \/ Cas(c)
  <2>1. PICK t : t = Tail(cl[c].list)
    OBVIOUS
  <2>2. PICK r : /\ Works(c) /\ UNCHANGED keys /\ Head(cl[c].list).do \in {"report", "cas"}
                 /\ r.do = "cas" /\ cl'[c].list = << r >> \o t
              \/ /\ Works(c) /\ UNCHANGED keys /\ Head(cl[c].list).do \in {"report", "cas"}
                 /\ cl'[c].list = t
    <3>1. CASE Report(c)
      <4>1. PICK latency \in Latencies :
               /\ Works(c) /\ UNCHANGED keys /\ Head(cl[c].list).do = "report"
               /\ cl'[c].list = IF measurements.latency_min > latency
                                THEN << CasOf(latency, measurements.latency_min) >> \o t ELSE t
        BY <2>1, <3>1, ReportEffect
      <4>2. PICK x : x = CasOf(latency, measurements.latency_min)
        OBVIOUS
      <4>3. x.do = "cas" /\ (cl'[c].list = << x >> \o t \/ cl'[c].list = t)
        BY <4>1, <4>2 DEF CasOf
      <4> QED
        BY <4>1, <4>3, Zenon
    <3>2. CASE Cas(c)
      <4>1. PICK h : h = Head(cl[c].list)
        OBVIOUS
      <4>2. PICK now : now = measurements.latency_min
        OBVIOUS
      <4>3. /\ Works(c) /\ UNCHANGED keys /\ h.do = "cas"
            /\ cl'[c].list = IF now # h.prev /\ now > h.latency
                             THEN << [h EXCEPT !.prev = now] >> \o t ELSE t
        BY <2>1, <3>2, <4>1, <4>2, CasEffect
      <4>4. PICK x : x = [h EXCEPT !.prev = now]
        OBVIOUS
      <4>5. x.do = "cas" /\ (cl'[c].list = << x >> \o t \/ cl'[c].list = t)
        BY <4>3, <4>4
      <4> QED
        BY <4>1, <4>3, <4>5, Zenon
    <3> QED
      BY <1>8, <3>1, <3>2
  <2>3. cl[c].list # << >> /\ Head(cl[c].list).do # "ack"
    BY <2>2, ListAtWork DEF Works
  <2>4. CASE r.do = "cas" /\ cl'[c].list = << r >> \o t
    <3>1. AckLast(cl'[c].list) /\ AckKeys(cl'[c].list) = AckKeys(cl[c].list)
      BY <1>0, <2>1, <2>2, <2>3, <2>4, AckOfCas
    <3> QED
      BY <2>2, <3>1 DEF Keeps
  <2>5. CASE cl'[c].list = t
    BY <1>5, <2>1, <2>2, <2>3, <2>5
  <2> QED
    BY <2>2, <2>4, <2>5
<1>9. CASE Ack(c)
  <2>1. PICK h : h = Head(cl[c].list)
    OBVIOUS
  <2>2. /\ cl[c].pc = "work" /\ h.do = "ack"
        /\ \/ cl' = cl /\ keys' = keys
           \/ cl'[c].list = Tail(cl[c].list) /\ keys' = Acknowledge(keys, h.key)
    BY <1>9, <2>1, AckEffect
  <2>3. cl[c].list # << >>
    BY <2>2, ListAtWork
  <2>4. CASE cl' = cl /\ keys' = keys
    BY <1>1, <2>4
  <2>5. CASE cl'[c].list = Tail(cl[c].list) /\ keys' = Acknowledge(keys, h.key)
    <3>1. /\ AckLast(cl'[c].list) /\ AckKeys(cl'[c].list) = {} /\ AckKeys(cl[c].list) = {h.key}
      BY <1>0, <2>1, <2>2, <2>3, <2>5, AckOfTail
    <3> QED
      BY <2>5, <3>1, Zenon DEF Acks
  <2> QED
    BY <2>2, <2>4, <2>5
<1>10. CASE ClientCleanup(c)
  BY <1>1, <1>10, ClientCleanupEffect
<1>11. CASE CountDown(c)
  BY <1>1, <1>11, CountDownEffect
<1> QED
  BY <1>2, <1>3, <1>4, <1>6, <1>7, <1>8, <1>9, <1>10, <1>11 DEF ClientThread

\* Steps that leave the lists and the sequence alone.
LEMMA KeysStay ==
    ASSUME KeysInv, props' = props, \A c \in Clients : AckKeys(cl'[c].list) = AckKeys(cl[c].list),
           \A c \in Clients : AckLast(cl'[c].list), keys' = keys,
           Asked \/ main'.phase = "start"
    PROVE  KeysInv'
<1>1. Clients' = Clients /\ Asked' = Asked
  BY SameProps DEF Asked
<1>2. Open' = Open
  BY <1>1 DEF Open
<1>3. KeysOK(keys, Open)' <=> KeysOK(keys, Open)
  BY <1>2 DEF KeysOK
<1> QED
  BY <1>1, <1>3 DEF KeysInv

\* The next load key is not one of the transactions.
LEMMA KeysLoad ==
    ASSUME NEW s, NEW O, KeysOK(s, O)
    PROVE  KeysOK([s EXCEPT !.load = @ + 1], O)
BY DEF KeysOK

\* The next key of the transactions is taken.
LEMMA KeysTake ==
    ASSUME NEW s, NEW O, KeysOK(s, O)
    PROVE  KeysOK([s EXCEPT !.counter = @ + 1], O \cup {s.counter})
<1>1. PICK t : t = [s EXCEPT !.counter = @ + 1]
  OBVIOUS
<1>2. PICK c \in Nat : c = s.counter
  BY DEF KeysOK
<1>3. PICK l \in Int : l = s.limit
  BY DEF KeysOK
<1>4. /\ DOMAIN t = {"load", "counter", "limit", "window"}
      /\ t.counter = c + 1 /\ t.limit = l /\ t.window = s.window
  BY <1>1, <1>2, <1>3 DEF KeysOK
<1>5. 0 <= l + 1 /\ l < c /\ O \subseteq l + 1 .. c - 1 /\ (l + 1 = c \/ l + 1 \in O)
  BY <1>2, <1>3 DEF KeysOK
<1>6. c + 1 - 1 = c /\ c \in l + 1 .. c /\ O \cup {c} \subseteq l + 1 .. c
  BY <1>5
<1>7. (l + 1 .. c) \ (O \cup {c}) = (l + 1 .. c - 1) \ O
  BY <1>5
<1>8. t.window = {k % kWindowSize : k \in (l + 1 .. c) \ (O \cup {c})}
  BY <1>2, <1>3, <1>4, <1>7 DEF KeysOK
<1>9. t.counter \in Nat /\ t.limit \in Int /\ 0 <= t.limit + 1 /\ t.limit < t.counter
  BY <1>4, <1>5
<1>10. l + 1 = c + 1 \/ l + 1 \in O \cup {c}
  BY <1>5
<1>11. t.counter - 1 = c
  BY <1>4, <1>6
<1>12. KeysOK(t, O \cup {c})
  BY <1>4, <1>6, <1>8, <1>9, <1>10, <1>11 DEF KeysOK
<1> QED
  BY <1>1, <1>2, <1>12

\* A step of a client, while its keys are in the window.
LEMMA KeysClient ==
    ASSUME Threads, KeysInv, NEW c \in Clients, ClientThread(c) \/ LibraryError(c), InWindow(keys)
    PROVE  /\ KeysInv'
           /\ \/ keys' = keys \/ keys' = [keys EXCEPT !.load = @ + 1]
              \/ Takes(c)
              \/ keys'.counter = keys.counter /\ keys.limit <= keys'.limit
<1>1. AckLast(cl'[c].list) /\ (Keeps(c) \/ Takes(c) \/ Acks(c))
  BY KeysOfStep DEF KeysInv
<1>2. /\ Apart(c) /\ cl[c].pc \notin {"off", "done"}
  BY ClientStepFacts
<1>3. /\ props' = props /\ Clients' = Clients /\ Asked' = Asked
      /\ \A d \in Clients \ {c} : cl'[d] = cl[d]
  BY <1>2, SameProps DEF Apart, Asked
<1>4. Asked
  BY <1>2, WorkIsBusy DEF KeysInv, Busy
<1>5. KeysOK(keys, Open)
  BY <1>4 DEF KeysInv
<1>6. \A d \in Clients : AckLast(cl'[d].list)
  BY <1>1, <1>3 DEF KeysInv
<1>7. PICK O : O = UNION {AckKeys(cl[d].list) : d \in Clients \ {c}}
  OBVIOUS
<1>8. Open = O \cup AckKeys(cl[c].list) /\ Open' = O \cup AckKeys(cl'[c].list)
  BY <1>3, <1>7 DEF Open
<1>9. O \cap AckKeys(cl[c].list) = {}
  BY <1>7 DEF KeysInv
<1>10. ASSUME AckKeys(cl'[c].list) \cap O = {} 
       PROVE  \A a, b \in Clients : a # b => AckKeys(cl'[a].list) \cap AckKeys(cl'[b].list) = {}
  <2> SUFFICES ASSUME NEW a \in Clients, NEW b \in Clients, a # b
               PROVE  AckKeys(cl'[a].list) \cap AckKeys(cl'[b].list) = {}
    OBVIOUS
  <2>1. CASE a # c /\ b # c
    BY <1>3, <2>1 DEF KeysInv
  <2>2. CASE a = c \/ b = c
    BY <1>3, <1>7, <1>10, <2>2
  <2> QED
    BY <2>1, <2>2
<1>11. ASSUME AckKeys(cl'[c].list) \cap O = {}, KeysOK(keys', Open') PROVE KeysInv'
  <2>1. KeysOK(keys, Open)'
    BY <1>11 DEF KeysOK
  <2> QED
    BY <1>3, <1>4, <1>6, <1>10, <1>11, <2>1 DEF KeysInv
<1>12. CASE Keeps(c)
  <2>1. Open' = Open /\ AckKeys(cl'[c].list) \cap O = {}
    BY <1>8, <1>9, <1>12 DEF Keeps
  <2>2. KeysOK(keys', Open')
    BY <1>5, <1>12, <2>1, KeysLoad DEF Keeps
  <2> QED
    BY <1>11, <1>12, <2>1, <2>2 DEF Keeps
<1>13. CASE Takes(c)
  <2>1. Open = O /\ Open' = O \cup {keys.counter}
    BY <1>8, <1>13 DEF Takes
  <2>2. KeysOK(keys', Open')
    BY <1>5, <1>13, <2>1, KeysTake DEF Takes
  <2>3. keys.counter \notin Open
    BY <1>5 DEF KeysOK
  <2>4. AckKeys(cl'[c].list) \cap O = {}
    BY <1>13, <2>1, <2>3 DEF Takes
  <2> QED
    BY <1>11, <1>13, <2>2, <2>4
<1>14. CASE Acks(c)
  <2>1. PICK k : /\ AckKeys(cl[c].list) = {k} /\ AckKeys(cl'[c].list) = {}
                 /\ keys' = Acknowledge(keys, k)
    BY <1>14 DEF Acks
  <2>2. k \in Open /\ Open' = Open \ {k}
    BY <1>8, <1>9, <2>1
  <2>3. /\ KeysOK(Acknowledge(keys, k), Open \ {k})
        /\ Acknowledge(keys, k).counter = keys.counter
        /\ keys.limit <= Acknowledge(keys, k).limit
    BY <1>5, <2>2, Acknowledged
  <2> QED
    BY <1>11, <2>1, <2>2, <2>3
<1> QED
  BY <1>1, <1>12, <1>13, <1>14

LEMMA KeysStep == Threads /\ KeysInv /\ (Asked => InWindow(keys)) /\ [Next]_vars => KeysInv'
<1> SUFFICES ASSUME Threads, KeysInv, Asked => InWindow(keys), [Next]_vars PROVE KeysInv'
  OBVIOUS
<1>1. ASSUME NEW phase, NEW total, NEW init_db, Starts(phase, total, init_db), ~Busy, Asked
      PROVE  KeysInv'
  <2>1. props' = props /\ keys' = keys /\ \A c \in Clients : cl'[c].list = << >>
    BY <1>1 DEF Starts
  <2>2. \A c \in Clients : cl[c].list = << >>
    BY <1>1 DEF Threads, ClientOK
  <2>3. \A c \in Clients : /\ AckKeys(cl'[c].list) = AckKeys(cl[c].list)
                           /\ AckLast(cl'[c].list)
    BY <2>1, <2>2, AckOfEmpty
  <2> QED
    BY <1>1, <2>1, <2>3, KeysStay
<1>2. ASSUME UNCHANGED <<props, cl, keys>>, Asked \/ main'.phase = "start" PROVE KeysInv'
  <2>1. \A c \in Clients : /\ AckKeys(cl'[c].list) = AckKeys(cl[c].list)
                           /\ AckLast(cl'[c].list)
    BY <1>2 DEF KeysInv
  <2> QED
    BY <1>2, <2>1, KeysStay
<1>3. CASE Main
  <2>1. CASE Asked
    <3>1. \/ \E phase, total, init_db : Starts(phase, total, init_db) /\ ~Busy
          \/ UNCHANGED <<props, cl, keys>>
      BY <1>3, MainEffect DEF Turns, Busy
    <3> QED
      BY <1>1, <1>2, <2>1, <3>1
  <2>2. CASE ~Asked
    <3>1. main.phase = "start" /\ DOMAIN main = MainFields
      BY <2>2 DEF KeysInv, Threads
    <3>2. main' = [main EXCEPT !.exit = "1"] /\ UNCHANGED <<props, cl, keys>>
      BY <1>3, <2>2, <3>1 DEF Main, MainStart, MainLoaded, MainBetween, MainEnd, Asked
    <3> QED
      BY <1>2, <3>1, <3>2 DEF MainFields
  <2> QED
    BY <2>1, <2>2
<1>4. CASE \E c \in Clients : ClientThread(c) \/ LibraryError(c)
  <2>1. PICK c \in Clients : ClientThread(c) \/ LibraryError(c)
    BY <1>4
  <2>2. Asked
    BY <2>1, ClientStepFacts, WorkIsBusy DEF KeysInv, Busy
  <2> QED
    BY <2>1, <2>2, KeysClient
<1>5. CASE StatusThread \/ RateLimitThread
  BY <1>2, <1>5, HelpersEffect DEF KeysInv
<1>6. CASE Ended \/ UNCHANGED vars
  BY <1>2, <1>6 DEF Ended, vars, KeysInv
<1> QED
  BY <1>3, <1>4, <1>5, <1>6 DEF Next

\* Nothing is inserted yet.
LEMMA KeysInit == Init => KeysInv
<1> SUFFICES ASSUME Init PROVE KeysInv
  OBVIOUS
<1>1. PICK argv \in CommandLines : ParseCommandLine(argv).ok /\ props = ParseCommandLine(argv).props
  BY DEF Init
<1>2. Asked => props["recordcount"] \in Nat
  BY <1>1, CommandLineAssumption DEF Asked, do_load, do_transaction
<1>3. main.phase = "start" /\ keys = Sequences_(props) /\ cl = [c \in Clients |-> IdleClient]
  BY DEF Init
<1>4. \A c \in Clients : cl[c].list = << >>
  BY <1>3 DEF IdleClient
<1>5. \A c \in Clients : AckLast(cl[c].list) /\ AckKeys(cl[c].list) = {}
  BY <1>4, AckOfEmpty
<1>6. Open = {}
  BY <1>5 DEF Open
<1>7. PICK n : n = props["recordcount"]
  OBVIOUS
<1>8. /\ DOMAIN keys = {"load", "counter", "limit", "window"}
      /\ keys.counter = n /\ keys.limit = n - 1 /\ keys.window = {}
  BY <1>3, <1>7 DEF Sequences_
<1>9. ASSUME n \in Nat PROVE KeysOK(keys, {})
  <2>1. (n - 1) + 1 = n /\ (n .. n - 1) = {}
    BY <1>9
  <2>2. {k % kWindowSize : k \in (n .. n - 1) \ {}} = {}
    BY <2>1
  <2> QED
    BY <1>8, <1>9, <2>1, <2>2 DEF KeysOK
<1> QED
  BY <1>2, <1>3, <1>5, <1>6, <1>7, <1>8, <1>9 DEF KeysInv

\* The keys of the acknowledgements in the lists.
LEMMA OpenIs ==
    ASSUME Threads
    PROVE  Open = {r.key : r \in UNION {{x \in ToSet(cl[c].list) : x.do = "ack"} : c \in Clients}}
<1>1. ASSUME NEW c \in Clients
      PROVE  AckKeys(cl[c].list) = {r.key : r \in {x \in ToSet(cl[c].list) : x.do = "ack"}}
  <2>1. PICK l : l = cl[c].list
    OBVIOUS
  <2>2. IsList(l)
    BY <2>1 DEF Threads, ClientOK, WellFormed
  <2>3. PICK n \in Nat : n = Len(l)
    BY <2>2, ListFacts
  <2>4. ToSet(l) = {l[i] : i \in 1 .. n}
    BY <2>2, <2>3, ListFacts DEF ToSet
  <2> QED
    BY <2>1, <2>3, <2>4 DEF AckKeys
<1> QED
  BY <1>1 DEF Open

\* The invariant says where the limit is.
LEMMA LimitFromKeys == Threads /\ KeysInv => LimitIsExact
<1> SUFFICES ASSUME Threads, KeysInv
             PROVE  keys.limit = IF Open = {} THEN keys.counter - 1 ELSE Min(Open) - 1
  BY OpenIs DEF LimitIsExact
<1>1. CASE Asked
  <2>1. PICK l \in Int : l = keys.limit
    BY <1>1 DEF KeysInv, KeysOK
  <2>2. PICK c \in Nat : c = keys.counter
    BY <1>1 DEF KeysInv, KeysOK
  <2>3. Open \subseteq l + 1 .. c - 1 /\ (l + 1 = c \/ l + 1 \in Open)
    BY <1>1, <2>1, <2>2 DEF KeysInv, KeysOK
  <2>4. CASE Open = {}
    BY <2>1, <2>2, <2>3, <2>4
  <2>5. CASE Open # {}
    <3>1. l + 1 \in Open
      <4> SUFFICES ASSUME l + 1 = c PROVE FALSE
        BY <2>3
      <4>1. l + 1 .. c - 1 = {}
        OBVIOUS
      <4> QED
        BY <2>3, <2>5, <4>1
    <3>2. \A y \in Open : y \in Int /\ l + 1 <= y
      BY <2>3
    <3>3. \A x \in Open : (\A y \in Open : x <= y) => x = l + 1
      BY <3>1, <3>2
    <3>4. Min(Open) = l + 1
      BY <3>1, <3>2, <3>3 DEF Min
    <3> QED
      BY <2>1, <2>5, <3>4
  <2> QED
    BY <2>4, <2>5
<1>2. CASE ~Asked
  <2>1. \A c \in Clients : cl[c].list = << >>
    BY <1>2 DEF KeysInv, Threads, ClientOK, Busy
  <2>2. Open = {}
    BY <2>1, AckOfEmpty DEF Open
  <2> QED
    BY <1>2, <2>2 DEF KeysInv
<1> QED
  BY <1>1, <1>2

\* While fewer keys than the window has slots are ahead of it, limit_ stands
\* right before the first key that is still being inserted (LimitIsExact), in
\* whatever order the clients finish their inserts: no key a client may pick
\* is missing, no finished insert is held back (Acknowledge, Last).
THEOREM LimitInWindow == Spec /\ []InWindow(keys) => []LimitIsExact
BY KeysInit, KeysStep, LimitFromKeys, ThreadsAlways, PTL DEF Spec

-----------------------------------------------------------------------------
\* The operations the clients have still to start.
AllLeft == Total([c \in Clients |-> cl[c].left], Clients)

\* A client inserts at most one key for each operation of its share.
InsertsInv ==
    /\ main.phase \in {"run", "end"} => do_transaction
    /\ Asked =>
          /\ props["recordcount"] \in Nat /\ props["recordcount"] <= keys.limit + 1
          /\ main.phase \in {"start", "load", "between"} => keys.counter = props["recordcount"]
          /\ main.phase = "run" =>
                keys.counter + AllLeft <= props["recordcount"] + props["operationcount"]
          /\ main.phase = "end" =>
                keys.counter <= props["recordcount"] + props["operationcount"]

\* The operations fit the acknowledgement window.
FewOperations == do_transaction => props["operationcount"] < kWindowSize

LEMMA LeftIsNat ==
    ASSUME Threads
    PROVE  AllLeft \in Nat
<1>1. PICK f : f = [c \in Clients |-> cl[c].left]
  OBVIOUS
<1>2. \A c \in Clients : f[c] \in Nat
  BY <1>1 DEF Threads, ClientOK
<1>3. Total(f, Clients) \in Nat
  BY <1>2, ClientsFinite, TotalSplit
<1> QED
  BY <1>1, <1>3 DEF AllLeft

\* The inserts keep within the window.
LEMMA InsertsFit ==
    ASSUME Threads, KeysInv, InsertsInv, FewOperations
    PROVE  Asked => InWindow(keys)
<1> SUFFICES ASSUME Asked PROVE InWindow(keys)
  OBVIOUS
<1>1. PICK n \in Nat \ {0} : n = kWindowSize
  BY YcsbAssumption
<1>2. PICK c \in Nat : c = keys.counter
  BY DEF KeysInv, KeysOK
<1>3. PICK l \in Int : l = keys.limit
  BY DEF KeysInv, KeysOK
<1>4. PICK r \in Nat : r = props["recordcount"]
  BY DEF InsertsInv
<1>5. r <= l + 1
  BY <1>3, <1>4 DEF InsertsInv
<1>6. CASE main.phase \in {"start", "load", "between"}
  BY <1>1, <1>2, <1>3, <1>4, <1>5, <1>6 DEF InsertsInv, InWindow
<1>7. CASE main.phase \in {"run", "end"}
  <2>1. PICK o \in Nat : o = props["operationcount"]
    BY <1>7 DEF InsertsInv, Threads
  <2>2. o < n
    BY <1>1, <1>7, <2>1 DEF FewOperations, InsertsInv
  <2>3. c <= r + o
    BY <1>2, <1>4, <1>7, <2>1, LeftIsNat DEF InsertsInv
  <2> QED
    BY <1>1, <1>2, <1>3, <1>5, <2>2, <2>3 DEF InWindow
<1> QED
  BY <1>6, <1>7 DEF Threads

\* Only the start of an operation takes one from a share.
LEMMA LeftOfStep ==
    ASSUME Threads, NEW c \in Clients, ClientThread(c) \/ LibraryError(c)
    PROVE  \/ cl'[c].left = cl[c].left
           \/ cl[c].left > 0 /\ cl'[c].left = cl[c].left - 1
<1>1. CASE ClientInit(c)
  BY <1>1, ClientInitEffect
<1>2. CASE Consume(c) \/ Awake(c)
  BY <1>2, WaitEffect
<1>3. CASE ClientNext(c)
  BY <1>3, ClientNextEffect
<1>4. CASE Library(c)
  BY <1>4, LibraryEffect DEF Works
<1>5. CASE LibraryError(c)
  BY <1>5, LibraryErrorEffect DEF Works
<1>6. CASE Report(c)
  BY <1>6, ReportEffect DEF Works
<1>7. CASE Cas(c)
  BY <1>7, CasEffect DEF Works
<1>8. CASE Ack(c)
  BY <1>8, AckEffect DEF Works
<1>9. CASE ClientCleanup(c)
  BY <1>9, ClientCleanupEffect
<1>10. CASE CountDown(c)
  BY <1>10, CountDownEffect
<1> QED
  BY <1>1, <1>2, <1>3, <1>4, <1>5, <1>6, <1>7, <1>8, <1>9, <1>10 DEF ClientThread

LEMMA AllLeftOfStep ==
    ASSUME Threads, NEW c \in Clients, ClientThread(c) \/ LibraryError(c)
    PROVE  /\ AllLeft' \in Nat
           /\ cl'[c].left = cl[c].left => AllLeft' = AllLeft
           /\ cl[c].left > 0 /\ cl'[c].left = cl[c].left - 1 => AllLeft = AllLeft' + 1
<1>1. Apart(c)
  BY ClientStepFacts
<1>2. Clients' = Clients /\ \A d \in Clients \ {c} : cl'[d] = cl[d]
  BY <1>1, SameProps DEF Apart
<1>3. PICK f : f = [d \in Clients |-> cl[d].left]
  OBVIOUS
<1>4. PICK h : h = [d \in Clients |-> cl'[d].left]
  OBVIOUS
<1>5. AllLeft = Total(f, Clients) /\ AllLeft' = Total(h, Clients)
  BY <1>2, <1>3, <1>4 DEF AllLeft
<1>6. /\ \A d \in Clients : f[d] \in Nat
      /\ \A d \in Clients \ {c} : h[d] = f[d]
  BY <1>2, <1>3, <1>4 DEF Threads, ClientOK
<1>7. h[c] = cl'[c].left /\ f[c] = cl[c].left /\ IsFiniteSet(Clients)
  BY <1>3, <1>4, ClientsFinite
<1>8. CASE cl'[c].left = cl[c].left
  <2>1. \A d \in Clients : h[d] = f[d]
    BY <1>6, <1>7, <1>8
  <2>2. Total(h, Clients) = Total(f, Clients) /\ Total(f, Clients) \in Nat
    BY <1>6, <1>7, <2>1, TotalSame, TotalSplit
  <2>3. cl'[c].left # cl[c].left - 1
    BY <1>6, <1>7, <1>8
  <2> QED
    BY <1>5, <1>8, <2>2, <2>3
<1>9. CASE cl[c].left > 0 /\ cl'[c].left = cl[c].left - 1
  <2>1. f[c] \in Nat /\ h[c] \in Nat /\ f[c] = h[c] + 1
    BY <1>6, <1>7, <1>9
  <2>2. \A d \in Clients : h[d] \in Nat
    BY <1>6, <2>1
  <2>3. Total(f, Clients) = Total(h, Clients) + 1
    BY <1>6, <1>7, <2>1, <2>2, TotalIncrement
  <2>4. Total(h, Clients) \in Nat
    BY <1>7, <2>2, TotalSplit
  <2>5. cl'[c].left # cl[c].left
    <3>1. \A n \in Nat : n + 1 # n
      OBVIOUS
    <3>2. h[c] # f[c]
      BY <2>1, <3>1, Zenon
    <3> QED
      BY <1>7, <3>2, Zenon
  <2> QED
    BY <1>5, <2>3, <2>4, <2>5
<1> QED
  BY <1>8, <1>9, LeftOfStep

\* Nobody changes the properties.
LEMMA PropsStay == [Next]_vars => props' = props
BY Zenon DEF Next, vars, Main, MainStart, MainLoaded, MainBetween, MainEnd, StartPhase, ClientThread,
       ClientInit, Consume, Awake, ClientNext, Library, LibraryError, Report, Cas, Ack,
       ClientCleanup, CountDown, StatusThread, RateLimitThread, Ended

LEMMA InsertsClient ==
    ASSUME Threads, KeysInv, InsertsInv, InWindow(keys), Asked,
           NEW c \in Clients, ClientThread(c) \/ LibraryError(c)
    PROVE  InsertsInv'
<1>1. \/ keys' = keys \/ keys' = [keys EXCEPT !.load = @ + 1]
      \/ Takes(c)
      \/ keys'.counter = keys.counter /\ keys.limit <= keys'.limit
  BY KeysClient
<1>2. Apart(c) /\ cl[c].pc \notin {"off", "done"} /\ KeysInv'
  BY ClientStepFacts, KeysClient
<1>3. /\ props' = props /\ Asked' = Asked /\ do_transaction' = do_transaction
      /\ main'.phase = main.phase
  BY <1>2, SameProps DEF Apart, Asked
<1>4. main.phase \in {"load", "run"}
  BY <1>2, WorkIsBusy DEF Busy
<1>5. KeysOK(keys, Open) /\ KeysOK(keys, Open)'
  BY <1>2, <1>3 DEF KeysInv
<1>6. PICK r \in Nat : r = props["recordcount"]
  BY DEF InsertsInv
<1>7. PICK l \in Int : l = keys.limit
  BY <1>5 DEF KeysOK
<1>8. PICK m \in Int : m = keys'.limit
  BY <1>5 DEF KeysOK
<1>9. PICK n \in Nat : n = keys.counter
  BY <1>5 DEF KeysOK
<1>10. PICK p \in Nat : p = keys'.counter
  BY <1>5 DEF KeysOK
<1>11. DOMAIN keys = {"load", "counter", "limit", "window"}
  BY <1>5 DEF KeysOK
<1>12. l <= m
  <2>1. CASE keys' = keys \/ keys' = [keys EXCEPT !.load = @ + 1]
    BY <1>7, <1>8, <1>11, <2>1
  <2>2. CASE Takes(c)
    BY <1>7, <1>8, <1>11, <2>2 DEF Takes
  <2>3. CASE keys'.counter = keys.counter /\ keys.limit <= keys'.limit
    BY <1>7, <1>8, <2>3
  <2> QED
    BY <1>1, <2>1, <2>2, <2>3
<1>13. r <= m + 1
  <2>1. r <= l + 1
    BY <1>6, <1>7 DEF InsertsInv
  <2> QED
    BY <1>12, <2>1
<1>14. PICK a \in Nat : a = AllLeft
  BY LeftIsNat
<1>15. PICK b \in Nat : b = AllLeft'
  BY AllLeftOfStep
<1>16. /\ p + b <= n + a
       /\ main.phase = "load" => p = n
  <2>1. b <= a
    <3>1. a = b \/ a = b + 1
      BY <1>14, <1>15, AllLeftOfStep, LeftOfStep
    <3> QED
      BY <3>1
  <2>2. CASE keys' = keys \/ keys' = [keys EXCEPT !.load = @ + 1]
    <3>1. p = n
      BY <1>9, <1>10, <1>11, <2>2
    <3> QED
      BY <2>1, <3>1
  <2>3. CASE Takes(c)
    <3>1. p = n + 1 /\ main.phase = "run"
      BY <1>9, <1>10, <1>11, <2>3 DEF Takes
    <3>2. a = b + 1
      BY <1>14, <1>15, <2>3, AllLeftOfStep DEF Takes
    <3> QED
      BY <3>1, <3>2
  <2>4. CASE keys'.counter = keys.counter /\ keys.limit <= keys'.limit
    <3>1. p = n
      BY <1>9, <1>10, <2>4
    <3> QED
      BY <2>1, <3>1
  <2> QED
    BY <1>1, <2>2, <2>3, <2>4
<1>17. CASE main.phase = "load"
  BY <1>3, <1>6, <1>8, <1>9, <1>10, <1>13, <1>16, <1>17 DEF InsertsInv
<1>18. CASE main.phase = "run"
  <2>1. PICK o \in Nat : o = props["operationcount"]
    BY <1>18 DEF InsertsInv, Threads
  <2>2. n + a <= r + o
    BY <1>6, <1>9, <1>14, <1>18, <2>1 DEF InsertsInv
  <2>3. p + b <= r + o
    BY <1>16, <2>2
  <2> QED
    BY <1>3, <1>6, <1>8, <1>10, <1>13, <1>15, <1>18, <2>1, <2>3 DEF InsertsInv
<1> QED
  BY <1>4, <1>17, <1>18

LEMMA InsertsStep ==
    Threads /\ KeysInv /\ InsertsInv /\ FewOperations /\ [Next]_vars => InsertsInv'
<1> SUFFICES ASSUME Threads, KeysInv, InsertsInv, FewOperations, [Next]_vars PROVE InsertsInv'
  OBVIOUS
<1>0. Asked => InWindow(keys)
  BY InsertsFit
<1>1. props' = props
  BY PropsStay
<1>2. /\ Clients' = Clients /\ Asked' = Asked /\ do_transaction' = do_transaction
      /\ props'["recordcount"] = props["recordcount"]
      /\ props'["operationcount"] = props["operationcount"]
  BY <1>1, SameProps DEF Asked
<1>3. ASSUME UNCHANGED <<cl, keys>>, main'.phase = main.phase PROVE InsertsInv'
  <2>1. AllLeft' = AllLeft
    BY <1>2, <1>3 DEF AllLeft
  <2> QED
    BY <1>2, <1>3, <2>1 DEF InsertsInv
<1>4. ASSUME UNCHANGED keys, main.phase \in {"start", "load", "between"},
             main'.phase \in {"start", "load", "between"}
      PROVE  InsertsInv'
  BY <1>2, <1>4 DEF InsertsInv
<1>5. ASSUME do_transaction, main.phase = "between", Starts("run", props["operationcount"], ~do_load)
      PROVE  InsertsInv'
  <2>1. PICK o \in Nat : o = props["operationcount"]
    BY <1>5 DEF Threads
  <2>2. keys' = keys /\ main'.phase = "run" /\ Asked
    BY <1>5 DEF Starts, Asked
  <2>3. PICK r \in Nat : r = props["recordcount"]
    BY <2>2 DEF InsertsInv
  <2>4. PICK f : f = [c \in Clients |-> cl'[c].left]
    OBVIOUS
  <2>5. \A c \in Clients : f[c] = ThreadOps(o, c)
    BY <1>5, <2>1, <2>4 DEF Starts
  <2>6. Total(f, Clients) = o
    BY <2>1, <2>5, SharesAddUp
  <2>7. AllLeft' = o
    BY <1>2, <2>4, <2>6 DEF AllLeft
  <2>8. keys'.counter = r /\ r <= keys'.limit + 1
    BY <1>5, <2>2, <2>3 DEF InsertsInv
  <2>9. r + o <= r + o
    BY <2>1, <2>3
  <2> QED
    BY <1>2, <1>5, <2>1, <2>2, <2>3, <2>7, <2>8, <2>9 DEF InsertsInv
<1>6. ASSUME main.phase = "run", Turns("end") PROVE InsertsInv'
  <2>1. keys' = keys /\ main'.phase = "end" /\ do_transaction
    BY <1>6 DEF Turns, InsertsInv
  <2>2. Asked
    BY <2>1 DEF Asked
  <2>3. PICK n \in Nat : n = keys.counter
    BY <2>2 DEF KeysInv, KeysOK
  <2>4. PICK o \in Nat : o = props["operationcount"]
    BY <2>1 DEF Threads
  <2>5. PICK r \in Nat : r = props["recordcount"]
    BY <2>2 DEF InsertsInv
  <2>6. PICK a \in Nat : a = AllLeft
    BY LeftIsNat
  <2>7. n + a <= r + o
    BY <1>6, <2>2, <2>3, <2>4, <2>5, <2>6 DEF InsertsInv
  <2>8. n <= r + o
    BY <2>7
  <2> QED
    BY <1>2, <2>1, <2>2, <2>3, <2>4, <2>5, <2>8 DEF InsertsInv
<1>7. CASE Main
  <2>1. CASE main.phase = "run"
    BY <1>6, <1>7, <2>1, MainEffect
  <2>2. CASE main.phase = "between" /\ do_transaction
             /\ Starts("run", props["operationcount"], ~do_load)
    BY <1>5, <2>2
  <2>3. CASE /\ keys' = keys /\ main.phase \in {"start", "load", "between"}
             /\ main'.phase \in {"start", "load", "between"}
    BY <1>4, <2>3
  <2> QED
    BY <1>7, <2>1, <2>2, <2>3, MainEffect DEF Turns, Starts
<1>8. CASE \E c \in Clients : ClientThread(c) \/ LibraryError(c)
  <2>1. PICK c \in Clients : ClientThread(c) \/ LibraryError(c)
    BY <1>8
  <2>2. Asked
    BY <2>1, ClientStepFacts, WorkIsBusy DEF KeysInv, Busy
  <2> QED
    BY <1>0, <2>1, <2>2, InsertsClient
<1>9. CASE StatusThread \/ RateLimitThread
  BY <1>3, <1>9, HelpersEffect
<1>10. CASE Ended \/ UNCHANGED vars
  BY <1>3, <1>10 DEF Ended, vars
<1> QED
  BY <1>7, <1>8, <1>9, <1>10 DEF Next

LEMMA InsertsInit == Init => InsertsInv
<1> SUFFICES ASSUME Init PROVE InsertsInv
  OBVIOUS
<1>1. PICK argv \in CommandLines : ParseCommandLine(argv).ok /\ props = ParseCommandLine(argv).props
  BY DEF Init
<1>2. Asked => props["recordcount"] \in Nat
  BY <1>1, CommandLineAssumption DEF Asked, do_load, do_transaction
<1>3. main.phase = "start" /\ keys = Sequences_(props)
  BY DEF Init
<1>4. keys.counter = props["recordcount"] /\ keys.limit = props["recordcount"] - 1
  BY <1>3 DEF Sequences_
<1> QED
  BY <1>2, <1>3, <1>4 DEF InsertsInv

\* A workload with fewer operations than the window has slots never outruns
\* it: limit_ always stands right before the first key that is still being
\* inserted (LimitIsExact; AcknowledgedCounterGenerator, TransactionInsert).
THEOREM LimitAlways ==
    ASSUME \A argv \in CommandLines :
               LET p == ParseCommandLine(argv).props
               IN  ParseCommandLine(argv).ok /\ GetProperty(p, "dotransaction", FALSE)
                       => p["operationcount"] < kWindowSize
    PROVE  Spec => []LimitIsExact
<1>1. Init => FewOperations
  BY DEF Init, FewOperations, do_transaction
<1>2. FewOperations /\ [Next]_vars => FewOperations'
  BY PropsStay, SameProps DEF FewOperations
<1>3. Threads /\ KeysInv /\ InsertsInv /\ FewOperations /\ [Next]_vars => KeysInv'
  BY InsertsFit, KeysStep
<1> QED
  BY <1>1, <1>2, <1>3, KeysInit, InsertsInit, InsertsStep, LimitFromKeys, ThreadsAlways, PTL DEF Spec

=============================================================================

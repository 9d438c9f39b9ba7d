----------------------------- MODULE YcsbClient -----------------------------
(***************************************************************************)
(* A run of the YCSB program (src/YCSB-cpp/core/ycsbc.cc, client.h): the   *)
(* load phase and the transaction phase with their client threads, the     *)
(* status and the rate limit thread, the measurements, the workload's key  *)
(* sequences and the adapters' calls of their library.                     *)
(*                                                                         *)
(* A client thread works off a list: requests to the library, the report   *)
(* to the measurements behind each DB call, the acknowledgement of an      *)
(* inserted key.  Between any two of these other threads run.              *)
(***************************************************************************)
EXTENDS CoreWorkload, FiniteSetsExt, Functions

CONSTANTS
    CommandLines,       \* the command lines of the instance
    Latencies,          \* what an operation may take
    LibraryMayFail,     \* may a library call return an error
    MaxThreads          \* bound: threads of a command line

ASSUME YcsbAssumption ==
    /\ kWindowSize \in Nat \ {0}
    /\ MaxThreads \in Nat
    /\ Latencies \subseteq Nat \ {0}

\* stoi gives numbers, and at least one thread runs.
ASSUME CommandLineAssumption ==
    \A argv \in CommandLines : ParseCommandLine(argv).ok =>
        LET p == ParseCommandLine(argv).props
        IN  /\ GetProperty(p, "threadcount", 1) \in 1 .. MaxThreads
            /\ GetProperty(p, "doload", FALSE) \/ GetProperty(p, "dotransaction", FALSE)
                  => p["recordcount"] \in Nat
            /\ GetProperty(p, "dotransaction", FALSE) => p["operationcount"] \in Nat

Leveldb    == INSTANCE LeveldbDB
Rocksdb    == INSTANCE RocksdbDB
Lmdb       == INSTANCE LmdbDB
Sqlite     == INSTANCE SqliteDB
Wiredtiger == INSTANCE WTDB
F3Tree     == INSTANCE F3TreeDB
R          == INSTANCE Rows

VARIABLES
    props,              \* the properties of this run
    main,               \* phase, exit code and the threads main waits for
    cl,                 \* the client threads
    db,                 \* static members and data of the back end
    keys,               \* the workload's key sequences
    measurements,       \* BasicMeasurements
    written             \* reference: each field as its last write left it

vars == <<props, main, cl, db, keys, measurements, written>>

UINT64_MAX == 99

num_threads    == GetProperty(props, "threadcount", 1)
do_load        == GetProperty(props, "doload", FALSE)
do_transaction == GetProperty(props, "dotransaction", FALSE)
dbname         == GetProperty(props, "dbname", "basic")
Clients        == 1 .. num_threads

KeyNames == DOMAIN HashOf

-----------------------------------------------------------------------------
(* Calls of the back end the factory made.  DBWrapper reports each call to *)
(* the measurements.                                                       *)

BackEnds == {"basic", "leveldb", "leveldb.row", "rocksdb", "rocksdb.merge", "lmdb", "sqlite",
             "wiredtiger", "f3tree"}

\* BasicDB prints each call under its mutex and is done.
BasicCall == << [do |-> "print"] >>

ReportTo(op) == << [do |-> "report", op |-> op] >>

DbInit(s, c) ==
    CASE dbname = "basic"                        -> s
      [] dbname \in {"leveldb", "leveldb.row"}   -> Leveldb!Init(s, c)
      [] dbname \in {"rocksdb", "rocksdb.merge"} -> Rocksdb!Init(s, c)
      [] dbname = "lmdb"                         -> Lmdb!Init(s, c)
      [] dbname = "sqlite"                       -> Sqlite!Init(s, c)
      [] dbname = "wiredtiger"                   -> Wiredtiger!Init(s, c)
      [] dbname = "f3tree"                       -> F3Tree!Init(s, c)

DbCleanup(s, c) ==
    CASE dbname = "basic"                        -> s
      [] dbname \in {"leveldb", "leveldb.row"}   -> Leveldb!Cleanup(s, c)
      [] dbname \in {"rocksdb", "rocksdb.merge"} -> Rocksdb!Cleanup(s, c)
      [] dbname = "lmdb"                         -> Lmdb!Cleanup(s, c)
      [] dbname = "sqlite"                       -> Sqlite!Cleanup(s, c)
      [] dbname = "wiredtiger"                   -> Wiredtiger!Cleanup(s, c)
      [] dbname = "f3tree"                       -> F3Tree!Cleanup(s, c)

DbRead(k, fields) ==
    (CASE dbname = "basic"                        -> BasicCall
       [] dbname = "leveldb"                      -> Leveldb!ReadSingleEntry(k, fields)
       [] dbname = "leveldb.row"                  -> Leveldb!ReadCompKeyRM(k, fields)
       [] dbname \in {"rocksdb", "rocksdb.merge"} -> Rocksdb!ReadSingle(k, fields)
       [] dbname = "lmdb"                         -> Lmdb!Read(k, fields)
       [] dbname = "sqlite"                       -> Sqlite!Read(k, fields)
       [] dbname = "wiredtiger"                   -> Wiredtiger!ReadSingleEntry(k, fields)
       [] dbname = "f3tree"                       -> F3Tree!Read(k, fields)) \o
    ReportTo("read")

DbScan(k, len, fields) ==
    (CASE dbname = "basic"                        -> BasicCall
       [] dbname = "leveldb"                      -> Leveldb!ScanSingleEntry(k, len, fields)
       [] dbname = "leveldb.row"                  -> Leveldb!ScanCompKeyRM(k, len, fields)
       [] dbname \in {"rocksdb", "rocksdb.merge"} -> Rocksdb!ScanSingle(k, len, fields)
       [] dbname = "lmdb"                         -> Lmdb!Scan(k, len, fields)
       [] dbname = "sqlite"                       -> Sqlite!Scan(k, len, fields)
       [] dbname = "wiredtiger"                   -> Wiredtiger!ScanSingleEntry(k, len, fields)
       [] dbname = "f3tree"                       -> F3Tree!Scan(k, len, fields)) \o
    ReportTo("scan")

DbUpdate(k, values) ==
    (CASE dbname = "basic"         -> BasicCall
       [] dbname = "leveldb"       -> Leveldb!UpdateSingleEntry(k, values)
       [] dbname = "leveldb.row"   -> Leveldb!InsertCompKey(k, values)
       [] dbname = "rocksdb"       -> Rocksdb!UpdateSingle(k, values)
       [] dbname = "rocksdb.merge" -> Rocksdb!MergeSingle(k, values)
       [] dbname = "lmdb"          -> Lmdb!Update(k, values)
       [] dbname = "sqlite"        -> Sqlite!Update(k, values)
       [] dbname = "wiredtiger"    -> Wiredtiger!UpdateSingleEntry(k, values)
       [] dbname = "f3tree"        -> F3Tree!Update(k, values)) \o
    ReportTo("update")

DbInsert(k, values) ==
    (CASE dbname = "basic"                        -> BasicCall
       [] dbname = "leveldb"                      -> Leveldb!InsertSingleEntry(k, values)
       [] dbname = "leveldb.row"                  -> Leveldb!InsertCompKey(k, values)
       [] dbname \in {"rocksdb", "rocksdb.merge"} -> Rocksdb!InsertSingle(k, values)
       [] dbname = "lmdb"                         -> Lmdb!Insert(k, values)
       [] dbname = "sqlite"                       -> Sqlite!Insert(k, values)
       [] dbname = "wiredtiger"                   -> Wiredtiger!InsertSingleEntry(k, values)
       [] dbname = "f3tree"                       -> F3Tree!Insert(k, values)) \o
    ReportTo("insert")

\* Back ends that update a row in one step or one transaction.
AtomicUpdate == dbname \in {"leveldb.row", "rocksdb.merge", "lmdb", "sqlite"}

-----------------------------------------------------------------------------
(* Lists of a client thread *)

\* DoInsert, with the next key of the load sequence.
DoInsert(k, c) == DbInsert(BuildKeyName(props, k), BuildValues(props, 0))

TransactionRead(k, fields) == DbRead(BuildKeyName(props, k), fields)

TransactionScan(k, len, fields) == DbScan(BuildKeyName(props, k), len, fields)

TransactionUpdate(k, values) == DbUpdate(BuildKeyName(props, k), values)

TransactionReadModifyWrite(k, fields, values) ==
    TransactionRead(k, fields) \o TransactionUpdate(k, values)

\* Mutation: acknowledged before it is inserted.
TransactionInsert_AckFirst(k, c) ==
    << [do |-> "ack", key |-> k] >> \o
    DbInsert(BuildKeyName(props, k), BuildValues(props, c))

TransactionInsert(k, c) ==
    DbInsert(BuildKeyName(props, k), BuildValues(props, c)) \o
    << [do |-> "ack", key |-> k] >>

\* DoTransaction: the operations the workload may choose now.
Transactions(c) ==
    LET some == NextTransactionKeyNum(props, keys.limit)
        mix  == op_chooser(props)
    IN  {l \in {TransactionRead(k, f) : k \in some, f \in ReadFields(props)} : "readproportion" \in mix} \cup
        {l \in {TransactionScan(k, n, f) : k \in some, n \in ScanLengths(props),
                                           f \in ReadFields(props)} : "scanproportion" \in mix} \cup
        {l \in {TransactionUpdate(k, v) : k \in some, v \in UpdateValues(props, c)} :
            "updateproportion" \in mix} \cup
        {l \in {TransactionReadModifyWrite(k, f, v) : k \in some, f \in ReadFields(props),
                                                      v \in UpdateValues(props, c)} :
            "readmodifywriteproportion" \in mix}

-----------------------------------------------------------------------------
\* BasicMeasurements: counts and the least latency; least is the reference.
\* The rows of the arrays are independent of each other and kept as one;
\* latency_max_ is replaced as latency_min_ is.
NoMeasurements == [count |-> 0, failed |-> 0, latency_min |-> UINT64_MAX, least |-> UINT64_MAX]

IdleClient == [pc |-> "off", list |-> << >>, current |-> << >>, status |-> "OK", left |-> 0]

Init ==
    /\ props \in {ParseCommandLine(argv).props :
                     argv \in {a \in CommandLines : ParseCommandLine(a).ok}}
    /\ main = [phase |-> "start", exit |-> "", latch |-> 0, status |-> "off", printed |-> 0,
               rate |-> [c \in Clients |-> 0], next |-> 1, setting |-> 1, limiter |-> "off",
               faulty |-> FALSE]
    /\ cl = [c \in Clients |-> IdleClient]
    /\ db = R!Unopened(KeyNames)
    /\ keys = Sequences_(props)
    /\ measurements = NoMeasurements
    /\ written = [k \in KeyNames |-> << >>]

Running == main.exit = ""

\* Mutation: the remainder of the division is not handed out.
ThreadOps_NoRemainder(total, c) == total \div num_threads

\* The share of one client.
ThreadOps(total, c) ==
    total \div num_threads + IF c - 1 < total % num_threads THEN 1 ELSE 0

rate_schedule == GetProperty(props, "limit.file", << >>)

\* main, first: nothing to do ends the program, a phase starts its threads.
\* Load clients open the database; transaction clients do if none has.
StartPhase(phase, total, init_db) ==
    /\ main' = [main EXCEPT !.phase = phase, !.latch = num_threads,
                            !.rate = [c \in Clients |->
                                         IF phase = "run"
                                         THEN GetProperty(props, "limit.ops", 0) \div num_threads
                                         ELSE 0],
                            !.status = IF GetProperty(props, "status", FALSE) THEN "print" ELSE "off",
                            !.limiter = IF phase = "run" /\ rate_schedule # << >>
                                        THEN "await" ELSE "off"]
    /\ cl' = [c \in Clients |-> [IdleClient EXCEPT !.pc = IF init_db THEN "init" ELSE "next",
                                                   !.left = ThreadOps(total, c)]]
    /\ UNCHANGED <<props, db, keys, written>>

MainStart ==
    /\ Running /\ main.phase = "start"
    /\ UNCHANGED measurements
    /\ IF (do_load \/ do_transaction) /\ dbname \in BackEnds /\ InitSucceeds(props)
       THEN IF do_load THEN StartPhase("load", props["recordcount"], TRUE)
            ELSE /\ main' = [main EXCEPT !.phase = "between"]
                 /\ UNCHANGED <<props, cl, db, keys, written>>
       ELSE /\ main' = [main EXCEPT !.exit = "1"]
            /\ UNCHANGED <<props, cl, db, keys, written>>

\* All futures of the phase are there.
Joined ==
    /\ \A c \in Clients : cl[c].pc = "done"
    /\ main.status \in {"off", "ended"}
    /\ main.limiter \in {"off", "ended"}

MainLoaded ==
    /\ Running /\ main.phase = "load" /\ Joined
    /\ main' = [main EXCEPT !.phase = "between"]
    /\ UNCHANGED <<props, cl, db, keys, measurements, written>>

\* Reset the measurements; start the transactions unless the rate file is bad.
MainBetween ==
    /\ Running /\ main.phase = "between"
    /\ measurements' = NoMeasurements
    /\ IF do_transaction /\ (rate_schedule = << >> \/ RateFileIsValid(rate_schedule))
       THEN StartPhase("run", props["operationcount"], ~do_load)
       ELSE /\ main' = [main EXCEPT !.exit = IF do_transaction THEN "1" ELSE "0"]
            /\ UNCHANGED <<props, cl, db, keys, written>>

MainEnd ==
    /\ Running /\ main.phase = "run" /\ Joined
    /\ main' = [main EXCEPT !.phase = "end", !.exit = "0"]
    /\ UNCHANGED <<props, cl, db, keys, measurements, written>>

-----------------------------------------------------------------------------
(* Client threads *)

ClientInit(c) ==
    /\ Running /\ cl[c].pc = "init"
    /\ db' = DbInit(db, c)
    /\ cl' = [cl EXCEPT ![c].pc = "next"]
    /\ UNCHANGED <<props, main, keys, measurements, written>>

\* RateLimiter::Consume: with a rate, take a token or sleep for it.  The time
\* to sleep is computed from rate_ after the lock is released.
Consume(c) ==
    /\ Running /\ cl[c].pc = "next" /\ cl[c].left > 0
    /\ main.rate[c] > 0
    /\ \E pc \in {"sleep", "awake"} : cl' = [cl EXCEPT ![c].pc = pc]
    /\ UNCHANGED <<props, main, db, keys, measurements, written>>

Awake(c) ==
    /\ Running /\ cl[c].pc = "sleep"
    /\ cl' = [cl EXCEPT ![c].pc = "awake"]
    /\ main' = [main EXCEPT !.exit = IF main.rate[c] = 0 THEN "undefined" ELSE @]
    /\ UNCHANGED <<props, db, keys, measurements, written>>

\* The loop of ClientThread: one more operation.
Begin(c, list) ==
    cl' = [cl EXCEPT ![c].pc = "work", ![c].list = list, ![c].left = @ - 1, ![c].status = "OK"]

ClientNext(c) ==
    /\ Running /\ cl[c].left > 0
    /\ \/ cl[c].pc = "awake"
       \/ cl[c].pc = "next" /\ main.rate[c] <= 0
    /\ \/ /\ main.phase = "load"
          /\ Begin(c, DoInsert(keys.load, c))
          /\ keys' = [keys EXCEPT !.load = @ + 1]
       \/ /\ main.phase = "run"
          /\ \E list \in Transactions(c) : Begin(c, list)
          /\ UNCHANGED keys
       \/ /\ main.phase = "run" /\ "insertproportion" \in op_chooser(props)
          /\ Begin(c, TransactionInsert(keys.counter, c))
          /\ keys' = [keys EXCEPT !.counter = @ + 1]
    /\ UNCHANGED <<props, main, db, measurements, written>>

\* The thread goes on with its list.
GoOn(c, list) == [cl[c] EXCEPT !.list = list, !.pc = IF list = << >> THEN "next" ELSE "work"]

\* What is left once the call in progress has returned.
AfterCall(list) ==
    LET i == SelectInSeq(list, LAMBDA r : r.do = "report") IN SubSeq(list, i, Len(list))

\* The library's answer to request r: the back end afterwards, what the
\* adapter holds, and how the call goes on.
Answer(r, c) ==
    LET s      == [db EXCEPT !.misuse = @ \/ db.handle # "open"]
        row(k) == s.table[k]
        at     == {k \in KeyNames : k >= r.key /\ row(k) # << >>}
        wanted == IF r.fields = << >> THEN field_count(props) ELSE Len(r.fields)
        read(some) == [s EXCEPT !.misuse = @ \/ (dbname # "f3tree" /\
                           \E k \in some : Len(R!Result(row(k), r.fields)) # wanted)]
        scanned == {k \in at : Cardinality({j \in at : j < k}) < r.len}
        ok(t, current)  == [s |-> t, current |-> current, status |-> "OK"]
        not_ok(t, what) == [s |-> t, current |-> << >>, status |-> what]
        put(values) == [s EXCEPT !.table[r.key] = R!SerializeRow(values)]
    IN  CASE r.do = "print" -> ok(db, << >>)
          [] r.do = "get"   -> IF row(r.key) = << >> THEN not_ok(s, r.missing)
                               ELSE ok(s, R!DeserializeRow(row(r.key)))
          [] r.do = "fetch" -> IF row(r.key) = << >> THEN not_ok(s, "NotFound")
                               ELSE ok(read({r.key}), << >>)
          [] r.do = "seek_row" ->
                 IF at = {} \/ Min(at) # r.key
                 THEN not_ok([s EXCEPT !.sessions = @ \cup {c}], "NotFound")
                 ELSE ok(read({r.key}), << >>)
          [] r.do = "iterate" -> ok(read(scanned), << >>)
          [] r.do = "iterate_at" ->
                 ok([read(scanned) EXCEPT !.misuse = @ \/ at = {} \/ Min(at) # r.key], << >>)
          [] r.do = "put" -> ok(put(r.values), << >>)
          [] r.do = "put_current" -> ok(put(R!Overlay(cl[c].current, r.values)), << >>)
          [] r.do = "merge" ->
                 IF row(r.key) = << >> /\ r.missing # "create" THEN not_ok(s, r.missing)
                 ELSE ok(put(R!OverlayOrAdd(R!DeserializeRow(row(r.key)), r.values)), << >>)
          [] r.do = "begin" -> ok([s EXCEPT !.writer = c], cl[c].current)
          [] r.do = "end"   -> ok([s EXCEPT !.writer = 0], << >>)

\* Reference: a write leaves its fields, others stay as they are; an update
\* of a row that is not there writes nothing.
Reference(r) ==
    CASE r.do = "put" -> [written EXCEPT ![r.key] = r.values]
      [] r.do \in {"put_current", "merge"} ->
             IF r.do = "merge" /\ written[r.key] = << >> /\ r.missing # "create" THEN written
             ELSE [written EXCEPT ![r.key] = R!OverlayOrAdd(@, r.values)]
      [] OTHER -> written

IsRequest(r) == r.do \notin {"report", "cas", "ack"}

\* The next request.  A missing key may end the call, or throw: exit(1).
Library(c) ==
    LET r == Head(cl[c].list)
        a == Answer(r, c)
    IN  /\ Running /\ cl[c].pc = "work" /\ IsRequest(r)
        /\ r.do = "begin" => db.writer = 0
        /\ db' = a.s
        /\ written' = IF AtomicUpdate /\ a.status = "OK" THEN Reference(r) ELSE written
        /\ main' = [main EXCEPT !.exit = IF a.status = "throw" THEN "1" ELSE @]
        /\ cl' = [cl EXCEPT ![c] =
                     [GoOn(c, IF a.status = "OK" THEN Tail(cl[c].list) ELSE AfterCall(cl[c].list))
                         EXCEPT !.current = a.current, !.status = a.status]]
        /\ UNCHANGED <<props, keys, measurements>>

\* The library reports an error.  The adapters throw, which ends the process;
\* but a call of the SQLite adapter returns an error and the client goes on.
LibraryError(c) ==
    /\ LibraryMayFail /\ dbname \notin {"basic", "f3tree"}
    /\ Running
    /\ \/ cl[c].pc = "init"
       \/ cl[c].pc = "work" /\ IsRequest(Head(cl[c].list))
    /\ IF dbname = "sqlite" /\ cl[c].pc = "work"
       THEN /\ cl' = [cl EXCEPT ![c] = [GoOn(c, AfterCall(@.list)) EXCEPT !.status = "Error"]]
            /\ main' = [main EXCEPT !.faulty = TRUE]
       ELSE /\ main' = [main EXCEPT !.exit = "1"]
            /\ UNCHANGED cl
    /\ UNCHANGED <<props, db, keys, measurements, written>>

Least(a, b) == IF a < b THEN a ELSE b

\* BasicMeasurements::Report: count, then load latency_min_ and start the
\* loop that replaces it.
Report(c) ==
    \E latency \in Latencies :
        LET prev == measurements.latency_min
            cas  == [do |-> "cas", latency |-> latency, prev |-> prev]
        IN  /\ Running /\ cl[c].pc = "work" /\ Head(cl[c].list).do = "report"
            /\ measurements' = [measurements EXCEPT !.count = @ + 1,
                                     !.failed = IF cl[c].status = "OK" THEN @ ELSE @ + 1,
                                     !.least = Least(@, latency)]
            /\ cl' = [cl EXCEPT ![c] = GoOn(c, IF prev > latency THEN <<cas>> \o Tail(@.list)
                                              ELSE Tail(@.list))]
            /\ UNCHANGED <<props, main, db, keys, written>>

\* Mutation: latency_min_ is stored, not compared and exchanged.
Cas_Store(c) ==
    LET r == Head(cl[c].list)
    IN  /\ Running /\ cl[c].pc = "work" /\ r.do = "cas"
        /\ measurements' = [measurements EXCEPT !.latency_min = r.latency]
        /\ cl' = [cl EXCEPT ![c] = GoOn(c, Tail(@.list))]
        /\ UNCHANGED <<props, main, db, keys, written>>

\* compare_exchange: done, or again with the value found, while it is larger.
Cas(c) ==
    LET r   == Head(cl[c].list)
        now == measurements.latency_min
        again == [r EXCEPT !.prev = now]
    IN  /\ Running /\ cl[c].pc = "work" /\ r.do = "cas"
        /\ IF now = r.prev
           THEN /\ measurements' = [measurements EXCEPT !.latency_min = r.latency]
                /\ cl' = [cl EXCEPT ![c] = GoOn(c, Tail(@.list))]
           ELSE /\ cl' = [cl EXCEPT ![c] = GoOn(c, IF now > r.latency THEN <<again>> \o Tail(@.list)
                                                  ELSE Tail(@.list))]
                /\ UNCHANGED measurements
        /\ UNCHANGED <<props, main, db, keys, written>>

\* Acknowledge; "Not enough window size" is an exception: exit(1).
Ack(c) ==
    LET r == Head(cl[c].list)
    IN  /\ Running /\ cl[c].pc = "work" /\ r.do = "ack"
        /\ IF WindowIsFull(keys, r.key)
           THEN /\ main' = [main EXCEPT !.exit = "1"]
                /\ UNCHANGED <<cl, keys>>
           ELSE /\ keys' = Acknowledge(keys, r.key)
                /\ cl' = [cl EXCEPT ![c] = GoOn(c, Tail(@.list))]
                /\ UNCHANGED main
        /\ UNCHANGED <<props, db, measurements, written>>

\* The loop is over: clean up, unless transactions follow the load.
ClientCleanup(c) ==
    /\ Running /\ cl[c].pc = "next" /\ cl[c].left = 0
    /\ cl' = [cl EXCEPT ![c].pc = "countdown"]
    /\ db' = IF main.phase = "run" \/ ~do_transaction THEN DbCleanup(db, c) ELSE db
    /\ UNCHANGED <<props, main, keys, measurements, written>>

CountDown(c) ==
    /\ Running /\ cl[c].pc = "countdown"
    /\ main' = [main EXCEPT !.latch = @ - 1]
    /\ cl' = [cl EXCEPT ![c].pc = "done"]
    /\ UNCHANGED <<props, db, keys, measurements, written>>

-----------------------------------------------------------------------------
(* Status and rate limit threads *)

\* Mutation: the count must go below zero.
AwaitFor_BelowZero == main.latch < 0

\* CountDownLatch::AwaitFor returns true once the count is zero.
AwaitFor == main.latch <= 0

\* Mutation: the loop ends before it prints once more.
StatusThread_EndsFirst ==
    /\ Running
    /\ \/ /\ main.status = "print"
          /\ main' = [main EXCEPT !.printed = measurements.count, !.status = "await"]
       \/ /\ main.status = "await"
          /\ main' = [main EXCEPT !.status = IF AwaitFor THEN "ended" ELSE "print"]
    /\ UNCHANGED <<props, cl, db, keys, measurements, written>>

\* StatusThread: print, leave if done, wait for the latch or the interval.
StatusThread ==
    /\ Running
    /\ \/ /\ main.status = "print"
          /\ main' = [main EXCEPT !.printed = measurements.count, !.status = "await"]
       \/ /\ main.status = "await"
          /\ main' = [main EXCEPT !.status = IF AwaitFor THEN "last" ELSE "print"]
       \/ /\ main.status = "last"
          /\ main' = [main EXCEPT !.printed = measurements.count, !.status = "ended"]
    /\ UNCHANGED <<props, cl, db, keys, measurements, written>>

\* RateLimitThread: at each time of the schedule SetRate of one limiter after
\* the other, until the schedule or the phase is over.
RateLimitThread ==
    /\ Running
    /\ \/ /\ main.limiter = "await"
          /\ main' = [main EXCEPT !.setting = 1,
                        !.limiter = IF AwaitFor \/ main.next > Len(rate_schedule)
                                    THEN "ended" ELSE "set"]
       \/ /\ main.limiter = "set"
          /\ main' = [main EXCEPT
                        !.rate[main.setting] = rate_schedule[main.next][2] \div num_threads,
                        !.setting = @ + 1,
                        !.next    = IF main.setting = num_threads THEN @ + 1 ELSE @,
                        !.limiter = IF main.setting = num_threads THEN "await" ELSE "set"]
    /\ UNCHANGED <<props, cl, db, keys, measurements, written>>

\* The process has ended.
Ended == ~Running /\ UNCHANGED vars

ClientThread(c) ==
    \/ ClientInit(c) \/ Consume(c) \/ Awake(c) \/ ClientNext(c)
    \/ Library(c) \/ Report(c) \/ Cas(c) \/ Ack(c)
    \/ ClientCleanup(c) \/ CountDown(c)

Main == MainStart \/ MainLoaded \/ MainBetween \/ MainEnd

Next ==
    \/ Main
    \/ \E c \in Clients : ClientThread(c) \/ LibraryError(c)
    \/ StatusThread
    \/ RateLimitThread
    \/ Ended

\* Every thread that can run does, sooner or later; waits have an end.
Fairness ==
    /\ WF_vars(Main) /\ WF_vars(StatusThread) /\ WF_vars(RateLimitThread)
    /\ \A c \in 1 .. MaxThreads : WF_vars(c \in Clients /\ ClientThread(c))

Spec == Init /\ [][Next]_vars /\ Fairness

-----------------------------------------------------------------------------
(* Properties *)

\* After a load, no transaction misses: every key a client may pick is in the
\* store, however inserts and their acknowledgements of other clients
\* interleave (NextTransactionKeyNum, TransactionInsert, Acknowledge).  The
\* f3tree line reads nothing, so it says nothing about that back end.  A
\* SQLite error is reported as a failure too, and acknowledged all the same.
TransactionsHit == do_load /\ ~main.faulty => measurements.failed = 0

\* limit_ stands right before the first key that is still being inserted.
LimitIsExact ==
    LET open == {r.key : r \in UNION {{x \in ToSet(cl[c].list) : x.do = "ack"} : c \in Clients}}
    IN  Running => keys.limit = IF open = {} THEN keys.counter - 1 ELSE Min(open) - 1

\* No request goes to a database that is not open, no database is closed
\* under a session, no adapter's assertion on a row fails.
NoMisuse == ~db.misuse

\* Live clients of the tree have producer ids of their own, all of them
\* below the number of producers it was made for.
ProducerIdsAreDistinct ==
    dbname = "f3tree" =>
        /\ IsInjective(db.ids)
        /\ \A c \in DOMAIN db.ids : db.ids[c] < F3Tree!BuildConfig(num_threads).producer_threads

\* Back ends that update in one step or transaction lose no field that was
\* written.
NoLostUpdate ==
    AtomicUpdate => \A k \in KeyNames : R!DeserializeRow(db.table[k]) = written[k]

\* The last line of the status thread counts every call of the phase.
LastStatusCountsAll ==
    main.status = "ended" /\ main.phase # "between" => main.printed = measurements.count

\* With no report under way latency_min_ is the least latency reported.
MinimumIsExact ==
    (\A c \in Clients : \A r \in ToSet(cl[c].list) : r.do # "cas") =>
        measurements.latency_min = measurements.least

\* Every operation asked for is done when the process ends well.
AllOperationsDone ==
    main.phase = "end" /\ "readmodifywriteproportion" \notin op_chooser(props) =>
        measurements.count = props["operationcount"]

\* main returns, or the process exits.
Terminates == <>~Running
=============================================================================

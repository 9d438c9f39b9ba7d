---------------------------- MODULE CoreWorkload ----------------------------
(***************************************************************************)
(* The YCSB command line, its properties and the choices of a workload     *)
(* (src/YCSB-cpp/core, utils): what the client threads of YcsbClient do.   *)
(*                                                                         *)
(* A random generator is the set of values it may return.  Proportions are *)
(* percentages.  Key numbers stand for key names: ordered, or scattered by *)
(* a hash that the model takes as given.                                   *)
(***************************************************************************)
EXTENDS Integers, Sequences, SequencesExt, FiniteSets, TLC

CONSTANTS
    kWindowSize,        \* slots of the acknowledgement window, 65536 in the code
    HashOf              \* utils::Hash on the key numbers of the instance

-----------------------------------------------------------------------------
(* Properties and command line *)

GetProperty(props, key, default) == IF key \in DOMAIN props THEN props[key] ELSE default

SetProperty(props, key, value) == (key :> value) @@ props

\* Properties::Load: the assignments of a file, in order.
Load(props, file) == FoldLeft(LAMBDA p, a : SetProperty(p, a[1], a[2]), props, file)

\* Options with a value, and what they set.
ValueOption(opt) == opt \in {"-threads", "-db", "-P", "-p"}

\* ParseCommandLine: options left to right, a later one over an earlier one.
\* A missing value, an unknown option or no option at all ends the program.
\* The value of -P is the content of the file, that of -p a pair.
ParseCommandLine(argv) ==
    LET start == [props |-> << >>, opt |-> "", bad |-> argv = << >>]
        set(st, key, value) == [st EXCEPT !.props = SetProperty(@, key, value), !.opt = ""]
        take(st, arg) ==
            IF st.bad THEN st
            ELSE CASE st.opt = "-threads" -> set(st, "threadcount", arg)
                   [] st.opt = "-db"      -> set(st, "dbname", arg)
                   [] st.opt = "-P"       -> [st EXCEPT !.props = Load(@, arg), !.opt = ""]
                   [] st.opt = "-p"       -> set(st, arg[1], arg[2])
                   [] OTHER ->
                        CASE arg = "-load"         -> set(st, "doload", TRUE)
                          [] arg \in {"-run", "-t"} -> set(st, "dotransaction", TRUE)
                          [] arg = "-s"            -> set(st, "status", TRUE)
                          [] ValueOption(arg)      -> [st EXCEPT !.opt = arg]
                          [] OTHER                 -> [st EXCEPT !.bad = TRUE]
        end == FoldLeft(take, start, argv)
    IN  [props |-> end.props, ok |-> ~end.bad /\ end.opt = ""]

\* LoadRateSchedule: lines of a time and a rate, times growing, at least one.
RateFileIsValid(schedule) ==
    /\ schedule # << >>
    /\ \A i \in DOMAIN schedule : schedule[i][1] > (IF i = 1 THEN 0 ELSE schedule[i - 1][1])

-----------------------------------------------------------------------------
(* CoreWorkload::Init *)

field_count(p) == GetProperty(p, "fieldcount", 10)

FieldNames(p) == [i \in 1 .. field_count(p) |-> i - 1]

\* op_chooser_: the operations with a proportion above 0.
op_chooser(p) ==
    LET default == [readproportion |-> 95, updateproportion |-> 5, insertproportion |-> 0,
                    scanproportion |-> 0, readmodifywriteproportion |-> 0]
    IN  {op \in DOMAIN default : GetProperty(p, op, default[op]) > 0}

\* CoreWorkload::Init throws for a distribution it does not know.
InitSucceeds(p) ==
    /\ GetProperty(p, "requestdistribution", "uniform") \in {"uniform", "zipfian", "latest"}
    /\ GetProperty(p, "scanlengthdistribution", "uniform") \in {"uniform", "zipfian"}
    /\ GetProperty(p, "field_len_dist", "constant") \in {"constant", "uniform", "zipfian"}

\* The generators; latest counts down from the last acknowledged key.
UniformGenerator(min, max) == min .. max

ZipfianGenerator(num_items) == 0 .. num_items - 1

ScrambledZipfianGenerator(num_items) == {HashOf[z] % num_items : z \in DOMAIN HashOf}

SkewedLatestGenerator(last) == {last - z : z \in ZipfianGenerator(last)}

\* key_chooser_; zipfian leaves room for keys the transactions will insert.
key_chooser(p, last) ==
    LET record_count == p["recordcount"]
        new_keys == (GetProperty(p, "operationcount", 0) * GetProperty(p, "insertproportion", 0) * 2) \div 100
    IN  CASE GetProperty(p, "requestdistribution", "uniform") = "uniform" ->
                  UniformGenerator(0, record_count - 1)
          [] p["requestdistribution"] = "zipfian" ->
                  ScrambledZipfianGenerator(record_count + new_keys)
          [] p["requestdistribution"] = "latest" -> SkewedLatestGenerator(last)

\* NextTransactionKeyNum: picks again until the key is acknowledged.
NextTransactionKeyNum(p, last) == {k \in key_chooser(p, last) : k <= last}

\* BuildKeyName.
BuildKeyName(p, k) ==
    IF GetProperty(p, "insertorder", "hashed") = "hashed" THEN HashOf[k] ELSE k

\* BuildValues and BuildSingleValue: values that tell who wrote them.
BuildValues(p, v) == [i \in 1 .. field_count(p) |-> <<FieldNames(p)[i], v>>]

BuildSingleValue(p, v) == {<< <<f, v>> >> : f \in ToSet(FieldNames(p))}

\* What an update writes, what a read asks for (<< >> is all fields).
UpdateValues(p, v) ==
    IF GetProperty(p, "writeallfields", FALSE) THEN {BuildValues(p, v)} ELSE BuildSingleValue(p, v)

ReadFields(p) ==
    IF GetProperty(p, "readallfields", TRUE) THEN {<< >>}
    ELSE {<<f>> : f \in ToSet(FieldNames(p))}

\* scan_len_chooser_.
ScanLengths(p) ==
    UniformGenerator(GetProperty(p, "minscanlength", 1), GetProperty(p, "maxscanlength", 1000))

-----------------------------------------------------------------------------
(* Key sequences *)

\* insert_key_sequence_ and transaction_insert_key_sequence_ (counter, limit_
\* and the slots of ack_window_ that are true).
Sequences_(p) ==
    [load |-> GetProperty(p, "insertstart", 0), counter |-> p["recordcount"],
     limit |-> p["recordcount"] - 1, window |-> {}]

\* Mutation: the scan for the new limit passes one slot without looking.
Acknowledge_SkipsOne(s, value) ==
    LET window == s.window \cup {value % kWindowSize}
        i == CHOOSE j \in s.limit + 2 .. s.limit + kWindowSize :
                 /\ j % kWindowSize \notin window \/ j = s.limit + kWindowSize
                 /\ \A h \in s.limit + 2 .. j - 1 : h % kWindowSize \in window
    IN  [s EXCEPT !.window = window \ {h % kWindowSize : h \in s.limit + 1 .. i - 1},
                  !.limit = i - 1]

\* AcknowledgedCounterGenerator::Acknowledge, under its mutex: the limit
\* moves over the acknowledged slots behind it.  A slot still in use throws.
Acknowledge(s, value) ==
    LET window == s.window \cup {value % kWindowSize}
        i == CHOOSE j \in s.limit + 1 .. s.limit + kWindowSize :
                 /\ j % kWindowSize \notin window \/ j = s.limit + kWindowSize
                 /\ \A h \in s.limit + 1 .. j - 1 : h % kWindowSize \in window
    IN  [s EXCEPT !.window = window \ {h % kWindowSize : h \in s.limit + 1 .. i - 1},
                  !.limit = i - 1]

WindowIsFull(s, value) == value % kWindowSize \in s.window
=============================================================================

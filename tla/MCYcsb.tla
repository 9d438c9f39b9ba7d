------------------------------- MODULE MCYcsb -------------------------------
(* Instances of YcsbClient: small workloads on each back end. *)
EXTENDS YcsbClient

Hash == [k \in 0 .. 7 |-> (3 * k + 2) % 8]

\* A property file: two records, two fields.
File == << <<"recordcount", 2>>, <<"operationcount", 3>>, <<"fieldcount", 2>>,
           <<"maxscanlength", 2>>, <<"readproportion", 0>>, <<"updateproportion", 50>> >>

P(name, value) == << "-p", <<name, value>> >>

Both(name) == << "-load", "-run", "-threads", 2, "-db", name, "-P", File >>

\* The command lines: each back end with a mix that it is interesting for,
\* phases alone and together, and lines that end the program at once.
Lines ==
    {Both("leveldb") \o P("requestdistribution", "zipfian") \o P("insertproportion", 50)}
    \cup {Both("rocksdb") \o P("requestdistribution", "latest") \o P("recordcount", 3)
             \o P("insertproportion", 50) \o P("readproportion", 50)}
    \cup {Both("wiredtiger") \o P("scanproportion", 50) \o << "-s" >>}
    \cup {Both("rocksdb.merge") \o P("readmodifywriteproportion", 50) \o P("updateproportion", 0)}
    \cup {Both("leveldb.row") \o P("readmodifywriteproportion", 50) \o P("updateproportion", 0)
             \o P("scanproportion", 50)}
    \cup {Both("lmdb") \o P("insertorder", "ordered") \o P("scanproportion", 50)}
    \cup {Both("sqlite") \o P("insertproportion", 50) \o P("readallfields", FALSE)
             \o P("readproportion", 50) \o P("operationcount", 2)}
    \cup {<< "-load", "-threads", 3, "-db", n, "-P", File >> : n \in {"f3tree", "sqlite", "lmdb"}}
    \cup {<< "-t", "-threads", 2, "-db", "basic", "-P", File >>
             \o P("limit.file", << <<1, 4>>, <<3, 2>> >>)}
    \cup {Both("f3tree") \o P("insertproportion", 50) \o P("requestdistribution", "zipfian")}
    \cup {<< "-load", "-db" >>, << "-x" >>, << >>, << "-P", File >>,
          << "-load", "-P", File, "-db", "none" >>,
          << "-run", "-P", File >> \o P("requestdistribution", "hotspot"),
          << "-run", "-P", File >> \o P("field_len_dist", "normal"),
          << "-run", "-P", File >> \o P("limit.file", << <<2, 4>>, <<1, 2>> >>)}
=============================================================================

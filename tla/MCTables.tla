------------------------------- MODULE MCTables -------------------------------
(***************************************************************************)
(* The open-addressing tables, one at a time: a producer's two tables with *)
(* a lock-free reader, and the benchmark's index.                          *)
(***************************************************************************)
EXTENDS PtfoTables, BufferedHashIndex

VARIABLE subject

\* Keys that collide in different ways in the three hash functions.
MCTableKeys == {-2, 1, 3, 4}
MCIndexKeys == {-2, 1, 4}

Init == /\ subject \in {"ptfo", "index"}
        /\ TablesInit
        /\ IndexInit

Next == /\ UNCHANGED subject
        /\ \/ subject = "ptfo" /\ TablesNext /\ UNCHANGED indexVars
           \/ subject = "index" /\ IndexNext /\ UNCHANGED tableVars

Spec == Init /\ [][Next]_<<subject, tableVars, indexVars>>
=============================================================================

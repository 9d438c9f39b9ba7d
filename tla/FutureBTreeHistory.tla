-------------------------- MODULE FutureBTreeHistory --------------------------
(***************************************************************************)
(* FutureBTree with history variables that say which writes a reader may   *)
(* still see.  A write spans its call: it begins when it fetches its       *)
(* sequence number and completes when it has done its accounting.  A       *)
(* completed write is overwritten once a write of the same key that began  *)
(* after it has completed too; until then it is live.  No step of the      *)
(* implementation depends on the history, except that clients may choose   *)
(* their inserts by it (Discipline).                                       *)
(***************************************************************************)
EXTENDS FutureBTree

CONSTANT
    Discipline  \* what clients insert: "any", "absent" keys, each key "once"

ASSUME DisciplineAssumption == Discipline \in {"any", "absent", "once"}

VARIABLES
    live,      \* the live writes of each key, those in flight among them
    kills,     \* the writes that the write in flight of each producer ends
    inserted,  \* the keys that some insert was issued for
    allowed    \* the answers each reader may give

historyVars == <<live, kills, inserted, allowed>>
hvars == <<vars, historyVars>>

\* The tree starts empty: every key begins with an erase that has completed.
Initially(k) == [key |-> k, is_delete |-> TRUE, sequence |-> 0, producer_id |-> 0]

Loaded(k) == [Initially(k) EXCEPT !.is_delete = FALSE]

HInit ==
    /\ Init
    /\ live = [k \in Keys |-> {Initially(k)}]
    /\ kills = [p \in Producers |-> {}]
    /\ inserted = {}
    /\ allowed = [r \in Readers |-> {}]

\* A client's choice to insert k.
MayInsert(k) ==
    CASE Discipline = "any"    -> TRUE
      [] Discipline = "absent" -> \A w \in live[k] : w.is_delete
      [] Discipline = "once"   -> k \notin inserted

InFlight == {cur[p] : p \in Producers}

\* A write of k begins while readers of k are under way.
Admit(k, answer) ==
    [r \in Readers |-> IF reader[r].phase \in {"scan", "tree"} /\ reader[r].key = k
                       THEN allowed[r] \cup {answer}
                       ELSE allowed[r]]

Warmup(k) ==
    /\ warmup_insert(k)
    /\ live' = [live EXCEPT ![k] = {Loaded(k)}]
    /\ inserted' = inserted \cup {k}
    /\ allowed' = Admit(k, TRUE)
    /\ UNCHANGED kills

Begin(p, k, is_delete) ==
    /\ is_delete \/ MayInsert(k)
    /\ FetchSequence(p, k, is_delete)
    /\ kills' = [kills EXCEPT ![p] = live[k] \ InFlight]
    /\ live' = [live EXCEPT ![k] = @ \cup {cur'[p]}]
    /\ inserted' = IF is_delete THEN inserted ELSE inserted \cup {k}
    /\ allowed' = Admit(k, ~is_delete)

Complete(p) ==
    /\ Account(p)
    /\ live' = [live EXCEPT ![cur[p].key] = @ \ kills[p]]
    /\ kills' = [kills EXCEPT ![p] = {}]
    /\ UNCHANGED <<inserted, allowed>>

ReadBegin(r, k) ==
    /\ ContainsBegin(r, k)
    /\ allowed' = [allowed EXCEPT ![r] = {~w.is_delete : w \in live[k]}]
    /\ UNCHANGED <<live, kills, inserted>>

HWrite == \E p \in Producers :
            \/ \E k \in Keys, d \in BOOLEAN : Begin(p, k, d)
            \/ future_insert(p) /\ UNCHANGED historyVars
            \/ Complete(p)

HDrain == Drain /\ UNCHANGED historyVars

HRead == \E r \in Readers :
            \/ \E k \in Keys : ReadBegin(r, k)
            \/ ContainsSkip(r) /\ UNCHANGED historyVars
            \/ ContainsWalk(r) /\ UNCHANGED historyVars
            \/ ContainsTree(r) /\ UNCHANGED historyVars

HNext == (\E k \in Keys : Warmup(k)) \/ HWrite \/ HDrain \/ HRead

HSpec == HInit /\ [][HNext]_hvars

-----------------------------------------------------------------------------
\* At every moment the chains and the tree together show, for every key, the
\* effect of a write that is live: draining neither loses a completed write
\* nor revives one that a later write overwrote.
VisibleIsLive == \A k \in Keys : View(k) \in {~w.is_delete : w \in live[k]}

\* contains, which reads the chains one after the other and then the tree
\* while producers and drains go on, answers with the effect of a write that
\* was live when it began or began while it ran.
ReadIsRegular ==
    \A r \in Readers : reader[r].phase = "returned" => reader[r].result \in allowed[r]

=============================================================================

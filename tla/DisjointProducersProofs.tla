----------------------- MODULE DisjointProducersProofs -----------------------
(***************************************************************************)
(* The F3-tree with disjoint producers implements AtomicIndex, for any     *)
(* number of producers, keys, readers, evaluators and operations.          *)
(***************************************************************************)
EXTENDS DisjointProducers, FutureBTreeProofs, NatSetTheorems, FiniteSetTheorems

-----------------------------------------------------------------------------
(* The inductive invariant. *)

InChain(p) == {OpAt(pos) : pos \in Positions(p)}

\* A producer writes its own keys, numbered from 1, and its hashtable knows
\* every key its chain holds.
OwnKeysOf(p) ==
    /\ hash[p] \subseteq KeysOf[p]
    /\ pc[p] # "idle" => cur[p].key \in KeysOf[p] /\ cur[p].sequence > 0
    /\ \A o \in InChain(p) : o.key \in hash[p] /\ o.sequence > 0

OwnKeys == \A p \in Producers : OwnKeysOf(p)

\* Once a drain has its locks no producer it drains can append, and what it
\* has still to replay is in their chains.
DrainHoldsLocks ==
    /\ drain.phase \in {"snapshot", "collect", "replay"} => drain.ids \subseteq ptfo_mu
    /\ drain.phase = "replay" => drain.todo \subseteq UNION {Positions(p) : p \in drain.ids}

\* The operations on k in p's chain that have not reached the tree.
Remaining(p, k) ==
    IF drain.phase = "replay" /\ p \in drain.ids
    THEN {o \in {OpAt(pos) : pos \in drain.todo \cap Positions(p)} : o.key = k}
    ELSE Buffered(p, k)

\* Replayed in the order of their sequence numbers on n records, each insert
\* of S finds none: right before it comes a delete, or it is the first.
InsertsFindNone(S, n) ==
    \A o \in S : ~o.is_delete =>
        \/ /\ n = 0
           /\ \A x \in S : o.sequence <= x.sequence
        \/ \E y \in S : /\ y.is_delete
                        /\ y.sequence < o.sequence
                        /\ \A x \in S : x.sequence < o.sequence => x.sequence <= y.sequence

\* The newest operation of S, if it has one, leaves its key in the index.
Leaves(S) == \E o \in Latest(S) : ~o.is_delete

\* A replay that has begun ends with the newest operation; when it is over
\* the tree says what that operation did.
KeyOK(p, k) ==
    /\ InsertsFindNone(Remaining(p, k), copies[k])
    /\ Remaining(p, k) # {} => Latest(Buffered(p, k)) \subseteq Remaining(p, k)
    /\ Remaining(p, k) = {} /\ Buffered(p, k) # {} =>
          (copies[k] > 0) = Leaves(Buffered(p, k))
    /\ pc[p] = "sequenced" /\ cur[p].key = k /\ ~cur[p].is_delete => ~View(k)

KeysOK ==
    /\ \A k \in Keys : copies[k] \in {0, 1}
    /\ \A p \in Producers : \A k \in KeysOf[p] : KeyOK(p, k)

\* The reader is past the chain of the producer of its key.
Past(r, p) == reader[r].phase = "tree" \/ reader[r].tid > p

Owns(p, k) == k \in KeysOf[p]

\* The drain in progress may be moving k.
Moving(k) == ~TreeMuFree /\ \E p \in drain.ids : Owns(p, k)

\* What the reader of k would answer now from what it has found is a truth
\* of its call, unless the tree is being written under a lock it waits for.
Truthful(r, k) ==
    /\ reader[r].result = FALSE
    /\ reader[r].phase = "tree" => reader[r].best = {}
    /\ View(k) \in seen[r]
    /\ \A o \in reader[r].best : reader[r].best = {o} /\ (~o.is_delete) \in seen[r]
    /\ reader[r].best # {} => \E p \in Producers : Owns(p, k) /\ Past(r, p)
    /\ /\ reader[r].best = {}
       /\ \A p \in Producers : Owns(p, k) => Past(r, p)
       /\ ~Moving(k)
       => (copies[k] > 0) \in seen[r]

ReaderOK(r) ==
    /\ ~Reading(r) => seen[r] = {}
    /\ Reading(r) => \A k \in Keys : k = reader[r].key => Truthful(r, k)

ReadsOK == \A r \in Readers : ReaderOK(r)

SeenOK == seen \in [Readers -> SUBSET BOOLEAN]

\* The part of the invariant that speaks of writers and drains alone, and
\* the whole of it.
BaseInv == TypeInv /\ ShapeInv /\ OwnKeys /\ DrainHoldsLocks

RefineInv == BaseInv /\ KeysOK /\ SeenOK /\ ReadsOK

-----------------------------------------------------------------------------
(* Sets of operations. *)

\* No two operations of S have the same sequence number.
Distinct(S) == \A x, y \in S : x.sequence = y.sequence => x = y

\* An operation newer than all others is the only latest one.
LEMMA LatestIs ==
    ASSUME NEW S \in SUBSET Ops, NEW o \in S, \A x \in S : x # o => x.sequence < o.sequence
    PROVE  Latest(S) = {o}
<1>1. \A x \in S : x.sequence \in Nat
  BY DEF Ops
<1>2. \A x \in S : x.sequence <= o.sequence
  BY <1>1
<1>3. \A y \in S : (\A x \in S : x.sequence <= y.sequence) => y = o
  BY <1>1
<1> QED
  BY <1>2, <1>3, Zenon DEF Latest

\* Below a limit there is one.
LEMMA LatestExists ==
    ASSUME NEW S \in SUBSET Ops, S # {}, Distinct(S),
           NEW limit \in Nat, \A x \in S : x.sequence < limit
    PROVE  \E o \in S : /\ Latest(S) = {o}
                        /\ \A x \in S : x # o => x.sequence < o.sequence
<1> DEFINE T == {x.sequence : x \in S}
<1>1. \A x \in S : x.sequence \in Nat
  BY DEF Ops
<1>2. T \in SUBSET Nat /\ T # {}
  BY <1>1, Zenon
<1>3. \A n \in T : n <= limit
  BY <1>1
<1>4. PICK n \in T : \A m \in T : m <= n
  BY <1>2, <1>3, GreatestNatural
<1>5. PICK o \in S : o.sequence = n
  BY <1>4
<1>6. ASSUME NEW x \in S, x # o PROVE x.sequence < o.sequence
  <2>1. x.sequence <= n /\ x.sequence # o.sequence
    BY <1>4, <1>5, <1>6 DEF Distinct
  <2> QED
    BY <1>1, <1>5, <2>1
<1> QED
  BY <1>5, <1>6, LatestIs

\* An insert appended to S, which leaves its key absent, finds none.
LEMMA AppendedFindsNone ==
    ASSUME NEW S \in SUBSET Ops, Distinct(S), NEW o \in Ops, NEW n \in Nat,
           \A x \in S : x.sequence < o.sequence,
           InsertsFindNone(S, n),
           ~o.is_delete => IF S # {} THEN ~Leaves(S) ELSE n = 0
    PROVE  InsertsFindNone(S \cup {o}, n)
<1>1. o.sequence \in Nat /\ \A x \in S : x.sequence \in Nat
  BY DEF Ops
<1> SUFFICES ASSUME NEW i \in S \cup {o}, ~i.is_delete
             PROVE  \/ /\ n = 0
                       /\ \A x \in S \cup {o} : i.sequence <= x.sequence
                    \/ \E y \in S \cup {o} :
                          /\ y.is_delete
                          /\ y.sequence < i.sequence
                          /\ \A x \in S \cup {o} : x.sequence < i.sequence => x.sequence <= y.sequence
  BY DEF InsertsFindNone
<1>2. CASE i \in S
  <2>1. \/ /\ n = 0
           /\ \A x \in S : i.sequence <= x.sequence
        \/ \E y \in S : /\ y.is_delete
                        /\ y.sequence < i.sequence
                        /\ \A x \in S : x.sequence < i.sequence => x.sequence <= y.sequence
    BY <1>2 DEF InsertsFindNone
  <2>2. i.sequence < o.sequence
    BY <1>2
  <2> QED
    BY <1>1, <1>2, <2>1, <2>2
<1>3. CASE i = o /\ S = {}
  BY <1>1, <1>3
<1>4. CASE i = o /\ S # {}
  <2>1. PICK l \in S : Latest(S) = {l} /\ \A x \in S : x # l => x.sequence < l.sequence
    BY <1>1, <1>4, LatestExists
  <2>2. l.is_delete
    BY <1>4, <2>1 DEF Leaves
  <2>3. l.sequence < o.sequence
    BY <2>1
  <2>4. \A x \in S \cup {o} : x.sequence < i.sequence => x.sequence <= l.sequence
    BY <1>1, <1>4, <2>1
  <2> QED
    BY <1>4, <2>2, <2>3, <2>4
<1> QED
  BY <1>2, <1>3, <1>4

\* The oldest operation of S is applied to n records: it leaves one record or
\* none, as it says, and the inserts that remain find none.
LEMMA AppliedFindsNone ==
    ASSUME NEW S \in SUBSET Ops, Distinct(S), NEW m \in S,
           \A x \in S : m.sequence <= x.sequence,
           NEW n \in {0, 1}, InsertsFindNone(S, n)
    PROVE  LET left == IF m.is_delete THEN 0 ELSE n + 1
           IN  /\ left \in {0, 1}
               /\ (left > 0) = ~m.is_delete
               /\ InsertsFindNone(S \ {m}, left)
<1> DEFINE left == IF m.is_delete THEN 0 ELSE n + 1
<1>1. \A x \in S : x.sequence \in Nat
  BY DEF Ops
<1>2. \A x \in S : x # m => m.sequence < x.sequence
  BY <1>1 DEF Distinct
<1>3. ~m.is_delete => n = 0
  BY <1>1 DEF InsertsFindNone
<1>4. left \in {0, 1} /\ (left > 0) = ~m.is_delete
  <2>1. m.is_delete \in BOOLEAN
    BY DEF Ops
  <2> QED
    BY <1>3, <2>1
<1>5. ASSUME NEW o \in S \ {m}, ~o.is_delete
      PROVE  \/ /\ left = 0
                /\ \A x \in S \ {m} : o.sequence <= x.sequence
             \/ \E y \in S \ {m} :
                   /\ y.is_delete
                   /\ y.sequence < o.sequence
                   /\ \A x \in S \ {m} : x.sequence < o.sequence => x.sequence <= y.sequence
  <2>1. ~(\A x \in S : o.sequence <= x.sequence)
    BY <1>1, <1>2
  <2>2. PICK y \in S : /\ y.is_delete
                      /\ y.sequence < o.sequence
                      /\ \A x \in S : x.sequence < o.sequence => x.sequence <= y.sequence
    BY <1>5, <2>1 DEF InsertsFindNone
  <2>3. CASE y # m
    BY <2>2, <2>3
  <2>4. CASE y = m
    <3>1. left = 0
      BY <2>2, <2>4
    <3>2. \A x \in S \ {m} : ~(x.sequence < o.sequence)
      BY <1>1, <1>2, <2>2, <2>4
    <3> QED
      BY <1>1, <3>1, <3>2
  <2> QED
    BY <2>3, <2>4
<1> QED
  BY <1>4, <1>5 DEF InsertsFindNone

-----------------------------------------------------------------------------
(* Chains. *)

\* What an entry of a position is.
LEMMA PositionParts ==
    ASSUME ChainsOK, NEW p \in Producers, NEW x \in Positions(p)
    PROVE  /\ x = <<x[1], x[2], x[3]>> /\ x[1] = p
           /\ x[2] \in DOMAIN local_fut[p] /\ x[2] \in Nat
           /\ x[3] \in DOMAIN local_fut[p][x[2]] /\ x[3] \in Nat
           /\ OpAt(x) = local_fut[p][x[2]][x[3]]
           /\ OpAt(x) \in Ops
<1>1. PICK i \in DOMAIN local_fut[p] : x \in {<<p, i, j>> : j \in DOMAIN local_fut[p][i]}
  BY DEF Positions
<1>2. PICK j \in DOMAIN local_fut[p][i] : x = <<p, i, j>>
  BY <1>1
<1>3. local_fut[p] \in Seq(Seq(Ops))
  BY DEF ChainsOK
<1>4. local_fut[p][i] \in Seq(Ops) /\ i \in Nat
  BY <1>3
<1>5. local_fut[p][i][j] \in Ops /\ j \in Nat
  BY <1>4
<1> QED
  BY <1>2, <1>4, <1>5 DEF OpAt

\* An entry has a position.
LEMMA PositionOf ==
    ASSUME NEW p \in Producers, NEW i \in DOMAIN local_fut[p],
           NEW j \in DOMAIN local_fut[p][i]
    PROVE  <<p, i, j>> \in Positions(p) /\ local_fut[p][i][j] \in InChain(p)
<1>1. <<p, i, j>> \in Positions(p)
  BY DEF Positions
<1>2. OpAt(<<p, i, j>>) = local_fut[p][i][j]
  BY DEF OpAt
<1> QED
  BY <1>1, <1>2 DEF InChain

\* Entries of a chain differ in their numbers, and a drain replays the older
\* one first.
LEMMA PositionOrder ==
    ASSUME ChainsOK, ShapeInv, NEW p \in Producers,
           NEW x \in Positions(p), NEW y \in Positions(p)
    PROVE  /\ OpAt(x).sequence = OpAt(y).sequence => x = y
           /\ Before(x, y) => OpAt(x).sequence <= OpAt(y).sequence
           /\ OpAt(x).sequence < next_ptfo_sequence
<1> DEFINE chain == local_fut[p]
<1>1. /\ x = <<x[1], x[2], x[3]>> /\ x[1] = p
      /\ x[2] \in DOMAIN chain /\ x[2] \in Nat
      /\ x[3] \in DOMAIN chain[x[2]] /\ x[3] \in Nat
      /\ OpAt(x) = chain[x[2]][x[3]]
      /\ OpAt(x).sequence \in Nat
  BY PositionParts DEF Ops
<1>2. /\ y = <<y[1], y[2], y[3]>> /\ y[1] = p
      /\ y[2] \in DOMAIN chain /\ y[2] \in Nat
      /\ y[3] \in DOMAIN chain[y[2]] /\ y[3] \in Nat
      /\ OpAt(y) = chain[y[2]][y[3]]
      /\ OpAt(y).sequence \in Nat
  BY PositionParts DEF Ops
<1>3. OrderedChain(chain) /\ BelowChain(chain, next_ptfo_sequence)
  BY DEF ShapeInv, ChainShape
<1> HIDE DEF chain
<1>4. x[2] > y[2] \/ (x[2] = y[2] /\ x[3] < y[3]) => OpAt(x).sequence < OpAt(y).sequence
  BY <1>1, <1>2, <1>3 DEF OrderedChain
<1>5. y[2] > x[2] \/ (y[2] = x[2] /\ y[3] < x[3]) => OpAt(y).sequence < OpAt(x).sequence
  BY <1>1, <1>2, <1>3 DEF OrderedChain
<1>6. OpAt(x).sequence = OpAt(y).sequence => x = y
  <2>1. OpAt(x).sequence = OpAt(y).sequence => x[2] = y[2] /\ x[3] = y[3]
    BY <1>1, <1>2, <1>4, <1>5
  <2> QED
    BY <1>1, <1>2, <2>1
<1>7. BeforeInChains(x, y) => OpAt(x).sequence <= OpAt(y).sequence
  <2>1. p \in Int
    BY DEF Producers
  <2>2. x[2] = y[2] /\ x[3] = y[3] => OpAt(x) = OpAt(y)
    BY <1>1, <1>2
  <2> QED
    BY <1>1, <1>2, <1>4, <2>1, <2>2 DEF BeforeInChains
<1>8. BeforeBySequence(x, y) => OpAt(x).sequence <= OpAt(y).sequence
  BY <1>1, <1>2 DEF BeforeBySequence
<1>9. Before(x, y) = BeforeInChains(x, y) \/ Before(x, y) = BeforeBySequence(x, y)
  BY ConstantsAssumption, DisjointAssumption DEF Before, Policies
<1> QED
  BY <1>1, <1>3, <1>6, <1>7, <1>8, <1>9 DEF BelowChain

\* What a chain holds of a key.
LEMMA BufferedIs ==
    ASSUME ChainsOK, ShapeInv, NEW p \in Producers, NEW k
    PROVE  /\ Buffered(p, k) = {o \in InChain(p) : o.key = k}
           /\ InChain(p) \subseteq Ops
           /\ Distinct(InChain(p))
           /\ Distinct(Buffered(p, k))
           /\ \A o \in InChain(p) : o.sequence < next_ptfo_sequence
<1>1. Buffered(p, k) = {o \in InChain(p) : o.key = k}
  BY DEF Buffered, InChain
<1>2. InChain(p) \subseteq Ops
  BY PositionParts DEF InChain
<1>3. Distinct(InChain(p))
  BY PositionOrder DEF InChain, Distinct
<1>4. \A o \in InChain(p) : o.sequence < next_ptfo_sequence
  BY PositionOrder DEF InChain
<1> QED
  BY <1>1, <1>2, <1>3, <1>4 DEF Distinct

\* The entries of a chain, wherever they are.
Entries(chain) == UNION {{chain[i][j] : j \in DOMAIN chain[i]} : i \in DOMAIN chain}

InChainIsEntries == ChainsOK => \A p \in Producers : InChain(p) = Entries(local_fut[p])

\* The positions of a chain reach every entry of it and nothing else.
LEMMA InChainIs == InChainIsEntries
<1> SUFFICES ASSUME ChainsOK, NEW p \in Producers
             PROVE  InChain(p) = Entries(local_fut[p])
  BY DEF InChainIsEntries
<1>1. ASSUME NEW o \in InChain(p) PROVE o \in Entries(local_fut[p])
  BY <1>1, PositionParts DEF InChain, Entries
<1>2. ASSUME NEW o \in Entries(local_fut[p]) PROVE o \in InChain(p)
  <2>1. PICK i \in DOMAIN local_fut[p] : o \in {local_fut[p][i][j] : j \in DOMAIN local_fut[p][i]}
    BY <1>2 DEF Entries
  <2>2. PICK j \in DOMAIN local_fut[p][i] : o = local_fut[p][i][j]
    BY <2>1
  <2> QED
    BY <2>2, PositionOf
<1> QED
  BY <1>1, <1>2

\* The same after a step.
LEMMA InChainIsNext == InChainIsEntries'
BY InChainIs, PTL

\* future_insert adds one entry and loses none.
LEMMA AppendEntries ==
    ASSUME NEW chain \in Seq(Seq(Ops)), NEW o \in Ops
    PROVE  Entries(PtfoAppend(chain, o)) = Entries(chain) \cup {o}
<1> DEFINE new == PtfoAppend(chain, o)
<1>1. new \in Seq(Seq(Ops))
  BY PtfoAppendType
<1>2. ASSUME NEW e \in Entries(new) PROVE e \in Entries(chain) \cup {o}
  <2>1. PICK i \in DOMAIN new : e \in {new[i][j] : j \in DOMAIN new[i]}
    BY <1>2 DEF Entries
  <2>2. PICK j \in DOMAIN new[i] : e = new[i][j]
    BY <2>1
  <2>3. PICK shift \in {0, 1} : Appended(chain, new, o, shift)
    BY PtfoAppendOps
  <2> HIDE DEF new
  <2>4. CASE i = 1 /\ j = Len(new[1])
    BY <2>2, <2>3, <2>4 DEF Appended
  <2>5. CASE ~(i = 1 /\ j = Len(new[1]))
    <3>1. /\ i - shift \in DOMAIN chain
          /\ j \in DOMAIN chain[i - shift]
          /\ e = chain[i - shift][j]
      BY <2>2, <2>3, <2>5 DEF Appended
    <3> QED
      BY <3>1 DEF Entries
  <2> QED
    BY <2>4, <2>5
<1>3. PICK shift \in {0, 1} :
        /\ Len(new) = Len(chain) + shift
        /\ shift = 0 => Len(chain) >= 1 /\ Len(chain[1]) # cardinality
        /\ new[1] = IF shift = 1 THEN <<o>> ELSE Append(chain[1], o)
        /\ \A i \in 2 .. Len(new) :
              i - shift \in 1 .. Len(chain) /\ new[i] = chain[i - shift]
  BY PtfoAppendAt
<1> HIDE DEF new
<1>4. Len(chain) \in Nat /\ DOMAIN chain = 1 .. Len(chain) /\ DOMAIN new = 1 .. Len(new)
  BY <1>1
<1>5. o \in Entries(new)
  <2>1. 1 \in DOMAIN new
    BY <1>3, <1>4
  <2>2. \E j \in DOMAIN new[1] : new[1][j] = o
    <3>1. CASE shift = 1
      <4>1. new[1] = <<o>>
        BY <1>3, <3>1
      <4>2. 1 \in DOMAIN <<o>> /\ <<o>>[1] = o
        OBVIOUS
      <4> QED
        BY <4>1, <4>2
    <3>2. CASE shift = 0
      <4>1. chain[1] \in Seq(Ops) /\ new[1] = Append(chain[1], o)
        BY <1>3, <1>4, <3>2
      <4>2. Len(chain[1]) + 1 \in DOMAIN new[1] /\ new[1][Len(chain[1]) + 1] = o
        BY <4>1
      <4> QED
        BY <4>2
    <3> QED
      BY <3>1, <3>2
  <2> QED
    BY <2>1, <2>2 DEF Entries
<1>6. ASSUME NEW e \in Entries(chain) PROVE e \in Entries(new)
  <2>1. PICK i \in DOMAIN chain : e \in {chain[i][j] : j \in DOMAIN chain[i]}
    BY <1>6 DEF Entries
  <2>2. PICK j \in DOMAIN chain[i] : e = chain[i][j]
    BY <2>1
  <2>3. i + shift \in DOMAIN new
    BY <1>3, <1>4
  <2>4. j \in DOMAIN new[i + shift] /\ new[i + shift][j] = chain[i][j]
    <3>1. CASE i + shift = 1
      <4>1. i = 1 /\ shift = 0 /\ chain[1] \in Seq(Ops) /\ new[1] = Append(chain[1], o)
        BY <1>3, <1>4, <3>1
      <4>2. j \in 1 .. Len(chain[1]) /\ Len(chain[1]) \in Nat
        BY <4>1
      <4>3. /\ Len(Append(chain[1], o)) = Len(chain[1]) + 1
            /\ \A x \in 1 .. Len(chain[1]) : Append(chain[1], o)[x] = chain[1][x]
            /\ DOMAIN Append(chain[1], o) = 1 .. (Len(chain[1]) + 1)
        BY <4>1
      <4>4. j \in 1 .. (Len(chain[1]) + 1)
        BY <4>2
      <4> QED
        BY <3>1, <4>1, <4>2, <4>3, <4>4
    <3>2. CASE i + shift # 1
      <4>1. i + shift \in 2 .. Len(new) /\ (i + shift) - shift = i
        BY <1>3, <1>4, <3>2
      <4>2. new[i + shift] = chain[i]
        BY <1>3, <4>1
      <4> QED
        BY <4>2
    <3> QED
      BY <3>1, <3>2
  <2> QED
    BY <2>2, <2>3, <2>4 DEF Entries
<1> QED
  BY <1>2, <1>5, <1>6 DEF new

\* What depends on the chain of p only.
LEMMA InChainSame ==
    ASSUME NEW p, local_fut'[p] = local_fut[p]
    PROVE  /\ Positions(p)' = Positions(p)
           /\ InChain(p)' = InChain(p)
           /\ \A k : Buffered(p, k)' = Buffered(p, k)
           /\ \A x \in Positions(p) : OpAt(x)' = OpAt(x)
<1>1. Positions(p)' = Positions(p)
  BY DEF Positions
<1>2. \A x \in Positions(p) : x[1] = p
  BY DEF Positions
<1>3. \A x \in Positions(p) : OpAt(x)' = OpAt(x)
  BY <1>2 DEF OpAt
<1>4. InChain(p)' = InChain(p)
  BY <1>1, <1>3 DEF InChain
<1>5. \A k : Buffered(p, k)' = Buffered(p, k)
  BY <1>4 DEF Buffered, InChain
<1> QED
  BY <1>1, <1>3, <1>4, <1>5

\* future_insert on the chains.
LEMMA InChainAppend ==
    ASSUME TypeInv, TypeInv', NEW p \in Producers, future_insert(p)
    PROVE  /\ cur[p] \in Ops
           /\ InChain(p)' = InChain(p) \cup {cur[p]}
           /\ \A q \in Producers \ {p} : local_fut'[q] = local_fut[q]
<1>1. cur[p] \in Ops
  BY DEF future_insert, TypeInv, WritersOK
<1>2. /\ local_fut[p] \in Seq(Seq(Ops))
      /\ local_fut'[p] = PtfoAppend(local_fut[p], cur[p])
      /\ \A q \in Producers \ {p} : local_fut'[q] = local_fut[q]
  BY DEF future_insert, TypeInv, ChainsOK
<1>3. InChain(p) = Entries(local_fut[p]) /\ InChain(p)' = Entries(local_fut'[p])
  BY InChainIs, InChainIsNext DEF TypeInv, InChainIsEntries
<1>4. Entries(local_fut'[p]) = Entries(local_fut[p]) \cup {cur[p]}
  BY <1>1, <1>2, AppendEntries
<1> QED
  BY <1>1, <1>2, <1>3, <1>4

-----------------------------------------------------------------------------
(* What contains would answer. *)

\* The chain of the producer of k decides, and the tree when that has none.
ViewOf(p, k) == IF Buffered(p, k) # {} THEN Leaves(Buffered(p, k)) ELSE copies[k] > 0

ViewIsOwners ==
    ChainsOK /\ next_ptfo_sequence \in Nat /\ ShapeInv /\ OwnKeys =>
        \A k \in Keys :
            /\ \A p \in Producers : Owns(p, k) => View(k) = ViewOf(p, k)
            /\ (\A p \in Producers : ~Owns(p, k)) => View(k) = (copies[k] > 0)

\* What a read may answer for a key is decided by the chain of its owner.
LEMMA ViewIs == ViewIsOwners
<1> SUFFICES ASSUME ChainsOK, next_ptfo_sequence \in Nat, ShapeInv, OwnKeys, NEW k \in Keys
             PROVE  /\ \A p \in Producers : Owns(p, k) => View(k) = ViewOf(p, k)
                    /\ (\A p \in Producers : ~Owns(p, k)) => View(k) = (copies[k] > 0)
  BY DEF ViewIsOwners
<1> DEFINE known == {p \in Producers : k \in hash[p]}
           found == UNION {Buffered(p, k) : p \in known}
<1>1. View(k) = IF Latest(found) # {} THEN Leaves(found) ELSE copies[k] > 0
  BY DEF View, Leaves
<1>2. ASSUME NEW p \in known PROVE Owns(p, k)
  BY <1>2 DEF OwnKeys, OwnKeysOf, Owns
<1>3. ASSUME NEW p \in Producers, Owns(p, k) PROVE View(k) = ViewOf(p, k)
  <2>1. known \subseteq {p}
    BY <1>2, <1>3, DisjointAssumption DEF Owns
  <2>2. Buffered(p, k) # {} => p \in known
    BY <1>3, BufferedIs DEF OwnKeys, OwnKeysOf
  <2>3. found = Buffered(p, k)
    <3>1. CASE p \in known
      BY <2>1, <3>1
    <3>2. CASE p \notin known
      BY <2>1, <2>2, <3>2
    <3> QED
      BY <3>1, <3>2
  <2>4. Latest(Buffered(p, k)) # {} <=> Buffered(p, k) # {}
    <3>1. CASE Buffered(p, k) = {}
      BY <3>1 DEF Latest
    <3>2. CASE Buffered(p, k) # {}
      <4>1. /\ Buffered(p, k) \in SUBSET Ops /\ Distinct(Buffered(p, k))
            /\ \A o \in Buffered(p, k) : o.sequence < next_ptfo_sequence
        BY BufferedIs
      <4> QED
        BY <3>2, <4>1, LatestExists
    <3> QED
      BY <3>1, <3>2
  <2> QED
    BY <1>1, <2>3, <2>4 DEF ViewOf
<1>4. ASSUME \A p \in Producers : ~Owns(p, k) PROVE View(k) = (copies[k] > 0)
  <2>1. known = {}
    BY <1>2, <1>4
  <2>2. found = {} /\ Latest(found) = {}
    BY <2>1 DEF Latest
  <2> QED
    BY <1>1, <2>2
<1> QED
  BY <1>3, <1>4

\* The same after a step.
LEMMA ViewIsNext == ViewIsOwners'
BY ViewIs, PTL

\* What the index says of a key is a Boolean.
LEMMA ViewType ==
    ASSUME NEW k
    PROVE  View(k) \in BOOLEAN
<1> DEFINE newest == Latest(UNION {Buffered(p, k) : p \in {q \in Producers : k \in hash[q]}})
<1>1. View(k) = IF newest # {} THEN \E o \in newest : ~o.is_delete ELSE copies[k] > 0
  BY DEF View
<1>2. (\E o \in newest : ~o.is_delete) \in BOOLEAN /\ (copies[k] > 0) \in BOOLEAN
  OBVIOUS
<1> QED
  BY <1>1, <1>2, Zenon

\* As long as chains, hashtables and tree stay, so does the answer.
LEMMA ViewSame ==
    ASSUME UNCHANGED <<ptfoVars, copies>>, NEW k
    PROVE  View(k)' = View(k)
<1>1. hash' = hash /\ copies' = copies /\ \A p : Buffered(p, k)' = Buffered(p, k)
  BY InChainSame DEF ptfoVars
<1> QED
  BY <1>1 DEF View

-----------------------------------------------------------------------------
(* OwnKeys and DrainHoldsLocks. *)

\* With room for all keys of its producer a hashtable forgets none.
LEMMA HashGrows ==
    ASSUME NEW p \in Producers, NEW table \in SUBSET KeysOf[p], NEW k \in KeysOf[p]
    PROVE  HashInsert(table, k) = {table \cup {k}}
<1>1. IsFiniteSet(KeysOf[p]) /\ Cardinality(KeysOf[p]) <= HashCapacity
  BY DisjointAssumption
<1>2. Cardinality(KeysOf[p]) \in Nat /\ HashCapacity \in Nat
  BY <1>1, FS_CardinalityType, ConstantsAssumption
<1>3. /\ IsFiniteSet(table) /\ Cardinality(table) <= Cardinality(KeysOf[p])
      /\ Cardinality(KeysOf[p]) = Cardinality(table) => KeysOf[p] = table
  BY <1>1, FS_Subset
<1>4. Cardinality(table) \in Nat
  BY <1>3, FS_CardinalityType
<1>5. k \in table \/ Cardinality(table) < HashCapacity
  BY <1>1, <1>2, <1>3, <1>4
<1> QED
  BY <1>5 DEF HashInsert

\* Producers start with empty chains and hashtables.
LEMMA OwnKeysInit == Init => OwnKeys
<1> SUFFICES ASSUME Init, NEW p \in Producers
             PROVE  hash[p] = {} /\ pc[p] = "idle" /\ InChain(p) = {}
  BY DEF OwnKeys, OwnKeysOf
<1>1. local_fut[p] = <<>>
  BY DEF Init
<1>2. Positions(p) = {}
  BY <1>1 DEF Positions
<1> QED
  BY <1>2 DEF Init, InChain

\* Producers keep to their keys: future_insert enters its key in the
\* hashtable before anyone can see the chain with it, and a clear empties both.
LEMMA OwnKeysStep == TypeInv /\ TypeInv' /\ OwnKeys /\ [Next]_vars => OwnKeys'
<1> SUFFICES ASSUME TypeInv, TypeInv', OwnKeys, [Next]_vars, NEW q \in Producers
             PROVE  OwnKeysOf(q)'
  BY DEF OwnKeys
<1>1. OwnKeysOf(q)
  BY DEF OwnKeys
<1>2. ASSUME local_fut'[q] = local_fut[q], hash'[q] = hash[q],
             pc'[q] # "idle" => pc[q] # "idle" /\ cur'[q] = cur[q]
      PROVE  OwnKeysOf(q)'
  BY <1>1, <1>2, InChainSame DEF OwnKeysOf
<1>3. ASSUME NEW p \in Producers, NEW k \in Keys, NEW d \in BOOLEAN, FetchSequence(p, k, d)
      PROVE  OwnKeysOf(q)'
  <2>1. local_fut' = local_fut /\ hash' = hash
    BY <1>3 DEF FetchSequence, ptfoVars
  <2>2. CASE p = q
    <3>1. cur'[q].key \in KeysOf[q] /\ cur'[q].sequence > 0
      BY <1>3, <2>2 DEF FetchSequence, TypeInv, WritersOK
    <3> QED
      BY <1>1, <2>1, <3>1, InChainSame DEF OwnKeysOf
  <2>3. CASE p # q
    BY <1>2, <1>3, <2>1, <2>3 DEF FetchSequence, TypeInv, WritersOK
  <2> QED
    BY <2>2, <2>3
<1>4. ASSUME NEW p \in Producers, future_insert(p) PROVE OwnKeysOf(q)'
  <2>1. CASE p = q
    <3>1. /\ pc[q] = "sequenced" /\ pc'[q] = "inserted" /\ cur'[q] = cur[q]
          /\ hash'[q] \in HashInsert(hash[q], cur[q].key)
      BY <1>4, <2>1 DEF future_insert, TypeInv, WritersOK, ChainsOK
    <3>2. hash'[q] = hash[q] \cup {cur[q].key}
      BY <1>1, <3>1, HashGrows DEF OwnKeysOf
    <3>3. InChain(q)' = InChain(q) \cup {cur[q]}
      BY <1>4, <2>1, InChainAppend
    <3> QED
      BY <1>1, <3>1, <3>2, <3>3 DEF OwnKeysOf
  <2>2. CASE p # q
    BY <1>2, <1>4, <2>2 DEF future_insert, TypeInv, WritersOK, ChainsOK
  <2> QED
    BY <2>1, <2>2
<1>5. ASSUME NEW p \in Producers, Account(p) PROVE OwnKeysOf(q)'
  BY <1>2, <1>5 DEF Account, TypeInv, WritersOK, ptfoVars
<1>6. CASE ClearAndRelease
  <2>1. hash' = hash /\ pc' = pc /\ cur' = cur
    BY <1>6 DEF ClearAndRelease, producerVars
  <2>2. CASE q \in drain.ids
    <3>1. local_fut'[q] = <<>>
      BY <1>6, <2>2 DEF ClearAndRelease
    <3>2. InChain(q)' = {}
      BY <3>1 DEF InChain, Positions
    <3> QED
      BY <1>1, <2>1, <3>2 DEF OwnKeysOf
  <2>3. CASE q \notin drain.ids
    BY <1>2, <1>6, <2>1, <2>3 DEF ClearAndRelease
  <2> QED
    BY <2>2, <2>3
<1>7. ASSUME UNCHANGED <<producerVars, ptfoVars>> PROVE OwnKeysOf(q)'
  BY <1>2, <1>7 DEF producerVars, ptfoVars
<1>8. ASSUME NEW k \in Keys, warmup_insert(k) PROVE OwnKeysOf(q)'
  BY <1>7, <1>8 DEF warmup_insert
<1>9. CASE Read
  BY <1>7, <1>9 DEF Read, ContainsBegin, ContainsSkip, ContainsWalk, ContainsTree
<1>10. CASE UNCHANGED vars
  BY <1>7, <1>10 DEF vars
<1>11. CASE \/ drain_pending
            \/ \E w \in Workers : EvaluatorDrain(w)
            \/ \E p \in Producers : AcquirePtfoLock(p)
            \/ CollectLookupEntries
            \/ CollectOps
            \/ ReplayOp
            \/ FinishDrain
  BY <1>7, <1>11 DEF drain_pending, EvaluatorDrain, StartDrain, AcquirePtfoLock,
                     CollectLookupEntries, CollectOps, ReplayOp, FinishDrain
<1> QED
  BY <1>3, <1>4, <1>5, <1>6, <1>8, <1>9, <1>10, <1>11 DEF Next, Write, Drain

\* A drain keeps its locks until it clears the chains it has replayed.
LEMMA LocksStep == TypeInv /\ TypeInv' /\ DrainHoldsLocks /\ [Next]_vars => DrainHoldsLocks'
<1> SUFFICES ASSUME TypeInv, TypeInv', DrainHoldsLocks, [Next]_vars
             PROVE  DrainHoldsLocks'
  OBVIOUS
<1>1. drain \in DrainStates /\ drain.ids \subseteq Producers /\ ptfo_mu \subseteq Producers
  BY DEF TypeInv, DrainOK, DrainStates
<1>2. ASSUME NEW p \in Producers, future_insert(p) PROVE DrainHoldsLocks'
  <2>1. drain' = drain /\ ptfo_mu' = ptfo_mu /\ p \notin ptfo_mu
    BY <1>2 DEF future_insert, drainVars
  <2>2. \A q \in Producers \ {p} : Positions(q)' = Positions(q)
    BY <1>2, InChainAppend, InChainSame
  <2>3. drain.phase = "replay" => \A q \in drain.ids : Positions(q)' = Positions(q)
    BY <1>1, <2>1, <2>2 DEF DrainHoldsLocks
  <2> QED
    BY <2>1, <2>3 DEF DrainHoldsLocks
<1>3. ASSUME NEW p \in Producers, AcquirePtfoLock(p) PROVE DrainHoldsLocks'
  <2>1. \/ drain' = drain
        \/ /\ LockSet \subseteq ptfo_mu'
           /\ \E x \in {"snapshot", "collect"} : drain' = [drain EXCEPT !.phase = x]
    BY <1>3 DEF AcquirePtfoLock
  <2>2. drain.ids \subseteq LockSet
    BY <1>1 DEF LockSet
  <2>3. drain.phase = "lock"
    BY <1>3 DEF AcquirePtfoLock
  <2>4. CASE drain' = drain
    BY <2>3, <2>4 DEF DrainHoldsLocks
  <2>5. ASSUME LockSet \subseteq ptfo_mu', NEW x \in {"snapshot", "collect"},
               drain' = [drain EXCEPT !.phase = x]
        PROVE  DrainHoldsLocks'
    <3>1. drain'.ids = drain.ids /\ drain'.phase = x
      BY <1>1, <2>5 DEF DrainStates
    <3> QED
      BY <2>2, <2>5, <3>1 DEF DrainHoldsLocks
  <2> QED
    BY <2>1, <2>4, <2>5
<1>4. CASE CollectLookupEntries
  <2>1. /\ drain'.ids = drain.ids /\ drain'.phase \in {"snapshot", "collect"}
        /\ drain.phase = "snapshot" /\ ptfo_mu' = ptfo_mu
    BY <1>1, <1>4 DEF CollectLookupEntries, DrainStates
  <2> QED
    BY <2>1 DEF DrainHoldsLocks
<1>5. CASE CollectOps
  <2>1. /\ drain'.ids = drain.ids /\ drain'.phase = "replay"
        /\ drain.phase = "collect" /\ ptfo_mu' = ptfo_mu /\ local_fut' = local_fut
        /\ drain'.todo = ToReplay(drain.ids, drain.snapshot)
    BY <1>1, <1>5 DEF CollectOps, DrainStates, ptfoVars
  <2>2. ToReplay(drain.ids, drain.snapshot) = UNION {Positions(p) : p \in drain.ids}
    BY DisjointAssumption DEF ToReplay
  <2>3. \A p : Positions(p)' = Positions(p)
    BY <2>1, InChainSame
  <2> QED
    BY <2>1, <2>2, <2>3 DEF DrainHoldsLocks
<1>6. CASE ReplayOp
  <2>1. /\ drain'.ids = drain.ids /\ drain'.phase = drain.phase
        /\ ptfo_mu' = ptfo_mu /\ local_fut' = local_fut
        /\ drain'.todo \subseteq drain.todo
    BY <1>1, <1>6 DEF ReplayOp, DrainStates, ptfoVars
  <2>2. \A p : Positions(p)' = Positions(p)
    BY <2>1, InChainSame
  <2> QED
    BY <2>1, <2>2 DEF DrainHoldsLocks
<1>7. ASSUME drain'.phase \in {"idle", "lock", "account"} PROVE DrainHoldsLocks'
  BY <1>7 DEF DrainHoldsLocks
<1>8. CASE drain_pending \/ \E w \in Workers : EvaluatorDrain(w)
  BY <1>7, <1>8 DEF drain_pending, EvaluatorDrain, StartDrain, Idle
<1>9. CASE ClearAndRelease
  BY <1>1, <1>7, <1>9 DEF ClearAndRelease, DrainStates
<1>10. CASE FinishDrain
  BY <1>7, <1>10 DEF FinishDrain, Idle
<1>11. ASSUME UNCHANGED <<drainVars, ptfoVars>> PROVE DrainHoldsLocks'
  BY <1>11, InChainSame DEF DrainHoldsLocks, drainVars, ptfoVars
<1>12. ASSUME NEW p \in Producers,
              \/ \E k \in Keys, d \in BOOLEAN : FetchSequence(p, k, d)
              \/ Account(p)
       PROVE  DrainHoldsLocks'
  BY <1>11, <1>12 DEF FetchSequence, Account
<1>13. CASE (\E k \in Keys : warmup_insert(k)) \/ Read \/ UNCHANGED vars
  BY <1>11, <1>13 DEF warmup_insert, Read, ContainsBegin, ContainsSkip, ContainsWalk,
                      ContainsTree, vars
<1> QED
  BY <1>2, <1>3, <1>4, <1>5, <1>6, <1>8, <1>9, <1>10, <1>12, <1>13 DEF Next, Write, Drain

\* The base of the invariant holds at first.
LEMMA BaseInit == Init => BaseInv
BY TypeInit, ShapeInit, OwnKeysInit DEF BaseInv, DrainHoldsLocks, Init, Idle

\* Every step keeps the base of the invariant.
LEMMA BaseStep == BaseInv /\ [Next]_vars => BaseInv'
BY TypeStep, ShapeStep, OwnKeysStep, LocksStep DEF BaseInv

-----------------------------------------------------------------------------
(* The steps that move an operation: into a chain, from a chain into the   *)
(* tree, out of the chain.  What each makes of Buffered, Remaining, copies *)
(* and View.                                                               *)

\* What remains is buffered; what is buffered are distinct operations of the owner.
LEMMA RemainingIs ==
    ASSUME BaseInv, NEW p \in Producers, NEW k
    PROVE  /\ Remaining(p, k) \subseteq Buffered(p, k)
           /\ Buffered(p, k) \subseteq Ops
           /\ Distinct(Buffered(p, k))
           /\ \A o \in Buffered(p, k) : /\ o.sequence < next_ptfo_sequence
                                        /\ o.sequence > 0
                                        /\ o.key = k
                                        /\ Owns(p, k)
<1>1. /\ Buffered(p, k) = {o \in InChain(p) : o.key = k}
      /\ InChain(p) \subseteq Ops
      /\ Distinct(Buffered(p, k))
      /\ \A o \in InChain(p) : o.sequence < next_ptfo_sequence
  BY BufferedIs DEF BaseInv, TypeInv
<1>2. Remaining(p, k) \subseteq Buffered(p, k)
  BY <1>1 DEF Remaining, InChain
<1>3. \A o \in InChain(p) : o.sequence > 0 /\ Owns(p, o.key)
  BY DEF BaseInv, OwnKeys, OwnKeysOf, Owns
<1> QED
  BY <1>1, <1>2, <1>3

\* In this state and in the next, the owner's chain and the tree decide.
LEMMA ViewBoth ==
    ASSUME BaseInv, BaseInv', NEW k \in Keys
    PROVE  /\ \A p \in Producers : Owns(p, k) => /\ View(k) = ViewOf(p, k)
                                                 /\ View(k)' = ViewOf(p, k)'
           /\ (\A p \in Producers : ~Owns(p, k)) => /\ View(k) = (copies[k] > 0)
                                                    /\ View(k)' = (copies'[k] > 0)
<1>1. /\ ChainsOK /\ next_ptfo_sequence \in Nat /\ ShapeInv /\ OwnKeys
      /\ ChainsOK' /\ next_ptfo_sequence' \in Nat /\ ShapeInv' /\ OwnKeys'
  BY DEF BaseInv, TypeInv, WritersOK
<1>2. /\ \A p \in Producers : Owns(p, k) => View(k) = ViewOf(p, k)
      /\ (\A p \in Producers : ~Owns(p, k)) => View(k) = (copies[k] > 0)
  BY <1>1, ViewIs DEF ViewIsOwners
<1>3. /\ \A p \in Producers : Owns(p, k) => View(k)' = ViewOf(p, k)'
      /\ (\A p \in Producers : ~Owns(p, k)) => View(k)' = (copies'[k] > 0)
  BY <1>1, ViewIsNext DEF ViewIsOwners, Owns
<1> QED
  BY <1>2, <1>3

\* A write to the chain is visible at once, to its key only.
LEMMA ViewAppend ==
    ASSUME BaseInv, BaseInv', NEW p \in Producers, future_insert(p), NEW k \in Keys
    PROVE  View(k)' = IF k = cur[p].key THEN ~cur[p].is_delete ELSE View(k)
<1>1. /\ cur[p] \in Ops
      /\ InChain(p)' = InChain(p) \cup {cur[p]}
      /\ \A q \in Producers \ {p} : local_fut'[q] = local_fut[q]
      /\ copies' = copies
      /\ pc[p] = "sequenced"
  BY InChainAppend DEF BaseInv, future_insert
<1>2. Owns(p, cur[p].key)
  BY <1>1 DEF BaseInv, OwnKeys, OwnKeysOf, Owns
<1>3. \A q \in Producers : \A x : /\ Buffered(q, x) = {o \in InChain(q) : o.key = x}
                              /\ Buffered(q, x)' = {o \in InChain(q)' : o.key = x}
  BY DEF Buffered, InChain
<1>4. CASE k = cur[p].key
  <2>1. Buffered(p, k)' = Buffered(p, k) \cup {cur[p]}
    BY <1>1, <1>3, <1>4
  <2>2. \A o \in Buffered(p, k) : o.sequence < cur[p].sequence
    <3>1. BelowChain(local_fut[p], cur[p].sequence)
      BY <1>1 DEF BaseInv, ShapeInv, ChainShape
    <3>2. \A x \in Positions(p) : OpAt(x).sequence < cur[p].sequence
      BY <3>1, PositionParts DEF BelowChain, BaseInv, TypeInv
    <3> QED
      BY <3>2 DEF Buffered
  <2>3. Buffered(p, k) \subseteq Ops
    BY RemainingIs
  <2>4. Latest(Buffered(p, k)') = {cur[p]}
    BY <1>1, <2>1, <2>2, <2>3, LatestIs
  <2>5. View(k)' = ViewOf(p, k)'
    BY <1>2, <1>4, ViewBoth
  <2>6. ViewOf(p, k)' = (\E o \in Latest(Buffered(p, k)') : ~o.is_delete)
    BY <2>1 DEF ViewOf, Leaves, Latest
  <2>7. cur[p].is_delete \in BOOLEAN
    BY <1>1 DEF Ops
  <2> QED
    BY <1>4, <2>4, <2>5, <2>6, <2>7
<1>5. CASE k # cur[p].key
  <2>1. ASSUME NEW q \in Producers PROVE Buffered(q, k)' = Buffered(q, k)
    <3>1. Buffered(p, k)' = Buffered(p, k)
      <4>1. /\ Buffered(p, k) = {o \in InChain(p) : o.key = k}
            /\ Buffered(p, k)' = {o \in InChain(p) \cup {cur[p]} : o.key = k}
        BY <1>1, <1>3
      <4> QED
        BY <1>5, <4>1
    <3>2. CASE q # p
      BY <1>1, <3>2, InChainSame
    <3> QED
      BY <3>1, <3>2, Zenon
  <2>2. CASE \E q \in Producers : Owns(q, k)
    <3>1. PICK q \in Producers : Owns(q, k)
      BY <2>2
    <3>2. ViewOf(q, k)' = ViewOf(q, k)
      BY <1>1, <2>1 DEF ViewOf, Leaves, Latest
    <3> QED
      BY <1>5, <3>1, <3>2, ViewBoth
  <2>3. CASE \A q \in Producers : ~Owns(q, k)
    BY <1>1, <1>5, <2>3, ViewBoth
  <2> QED
    BY <2>2, <2>3
<1> QED
  BY <1>4, <1>5

\* One operation of a chain goes to the tree: the oldest that remains of its
\* key, which has one producer, and the records of other keys stay.
LEMMA ReplayEffect ==
    ASSUME BaseInv, KeysOK, ReplayOp
    PROVE  \E p \in Producers, o \in Ops :
              /\ Owns(p, o.key)
              /\ o \in Remaining(p, o.key)
              /\ \A x \in Remaining(p, o.key) : o.sequence <= x.sequence
              /\ Remaining(p, o.key)' = Remaining(p, o.key) \ {o}
              /\ \A q \in Producers, k \in Keys \ {o.key} : Remaining(q, k)' = Remaining(q, k)
              /\ copies'[o.key] = IF o.is_delete THEN 0 ELSE copies[o.key] + 1
              /\ \A k \in Keys \ {o.key} : copies'[k] = copies[k]
              /\ p \in drain.ids
<1>1. PICK pos \in drain.todo :
          /\ \A other \in drain.todo : Before(pos, other)
          /\ copies' = apply_buffered_op(copies, OpAt(pos))
          /\ drain' = [drain EXCEPT !.todo = @ \ {pos}]
  BY DEF ReplayOp
<1>2. /\ drain.phase = "replay" /\ drain \in DrainStates
      /\ drain.ids \subseteq Producers
      /\ drain'.phase = "replay" /\ drain'.ids = drain.ids
      /\ drain'.todo = drain.todo \ {pos}
      /\ local_fut' = local_fut
  BY <1>1 DEF ReplayOp, BaseInv, TypeInv, DrainOK, DrainStates, ptfoVars
<1>3. PICK p \in drain.ids : pos \in Positions(p)
  BY <1>2 DEF BaseInv, DrainHoldsLocks
<1> DEFINE Left(q) == {OpAt(x) : x \in drain.todo \cap Positions(q)}
<1>4. PICK o \in Ops : o = OpAt(pos)
  BY <1>2, <1>3, PositionParts DEF BaseInv, TypeInv
<1>5. /\ p \in Producers /\ o \in Ops /\ o \in InChain(p)
      /\ ChainsOK /\ ShapeInv /\ copies \in [Keys -> Nat]
  BY <1>2, <1>3, <1>4 DEF BaseInv, TypeInv, TreeOK, InChain
<1>6. Owns(p, o.key) /\ o.key \in Keys
  BY <1>5 DEF BaseInv, OwnKeys, OwnKeysOf, Owns, Ops
<1>7. /\ \A q : Positions(q)' = Positions(q)
      /\ \A x : OpAt(x)' = OpAt(x)
  BY <1>2, InChainSame DEF OpAt
<1>8. ASSUME NEW q \in Producers, NEW k
      PROVE  /\ Remaining(q, k) = IF q \in drain.ids THEN {x \in Left(q) : x.key = k}
                                  ELSE Buffered(q, k)
             /\ Remaining(q, k)' =
                   IF q \in drain.ids
                   THEN {x \in {OpAt(y) : y \in (drain.todo \ {pos}) \cap Positions(q)} : x.key = k}
                   ELSE Buffered(q, k)
  <2>1. Buffered(q, k)' = Buffered(q, k)
    BY <1>2, InChainSame
  <2> QED
    BY <1>2, <1>7, <2>1 DEF Remaining
<1>9. o \in Remaining(p, o.key)
  BY <1>3, <1>5, <1>8, <1>4
<1>10. ASSUME NEW x \in Remaining(p, o.key) PROVE o.sequence <= x.sequence
  <2>1. PICK y \in drain.todo \cap Positions(p) : x = OpAt(y)
    BY <1>3, <1>5, <1>8
  <2> QED
    BY <1>1, <1>3, <1>5, <1>4, <2>1, PositionOrder
<1>11. Remaining(p, o.key)' = Remaining(p, o.key) \ {o}
  <2>1. \A y \in drain.todo \cap Positions(p) : OpAt(y) = o => y = pos
    BY <1>3, <1>5, <1>4, PositionOrder
  <2>2. /\ Remaining(p, o.key) = {x \in Left(p) : x.key = o.key}
        /\ Remaining(p, o.key)' =
              {x \in {OpAt(y) : y \in (drain.todo \ {pos}) \cap Positions(p)} : x.key = o.key}
    BY <1>3, <1>5, <1>8
  <2>3. {OpAt(y) : y \in (drain.todo \ {pos}) \cap Positions(p)} = Left(p) \ {o}
    BY <1>4, <2>1
  <2> HIDE DEF Left
  <2> QED
    BY <2>2, <2>3
<1>12. ASSUME NEW q \in Producers, NEW k \in Keys \ {o.key}
       PROVE  Remaining(q, k)' = Remaining(q, k)
  <2>1. CASE q \notin drain.ids
    BY <1>8, <2>1
  <2>2. CASE q \in drain.ids
    <3>1. /\ Remaining(q, k) = {x \in Left(q) : x.key = k}
          /\ Remaining(q, k)' =
                {x \in {OpAt(y) : y \in (drain.todo \ {pos}) \cap Positions(q)} : x.key = k}
      BY <1>8, <2>2
    <3>2. ASSUME NEW x \in Remaining(q, k) PROVE x \in Remaining(q, k)'
      <4>1. PICK y \in drain.todo \cap Positions(q) : x = OpAt(y) /\ x.key = k
        BY <3>1, <3>2
      <4>2. y # pos
        BY <1>4, <4>1
      <4> QED
        BY <3>1, <4>1, <4>2
    <3>3. ASSUME NEW x \in Remaining(q, k)' PROVE x \in Remaining(q, k)
      BY <3>1, <3>3
    <3> QED
      BY <3>2, <3>3
  <2> QED
    BY <2>1, <2>2
<1>13. /\ copies'[o.key] = IF o.is_delete THEN 0 ELSE copies[o.key] + 1
       /\ \A k \in Keys \ {o.key} : copies'[k] = copies[k]
  <2>1. copies[o.key] \in {0, 1}
    BY <1>6 DEF KeysOK
  <2>2. copies' = IF o.is_delete
                  THEN [copies EXCEPT ![o.key] = IF copies[o.key] > 0 THEN copies[o.key] - 1 ELSE 0]
                  ELSE [copies EXCEPT ![o.key] = copies[o.key] + 1]
    BY <1>1, <1>4 DEF apply_buffered_op
  <2> QED
    BY <1>5, <1>6, <2>1, <2>2
<1> QED
  BY <1>3, <1>5, <1>6, <1>9, <1>10, <1>11, <1>12, <1>13

\* The chains of drained producers go when all of them is in the tree.
LEMMA ClearEffect ==
    ASSUME BaseInv, ClearAndRelease, NEW p \in Producers, NEW k
    PROVE  /\ p \in drain.ids => Remaining(p, k) = {} /\ Buffered(p, k)' = {}
           /\ p \notin drain.ids => Buffered(p, k)' = Buffered(p, k)
           /\ p \notin drain.ids => Remaining(p, k) = Buffered(p, k)
           /\ Remaining(p, k)' = Buffered(p, k)'
           /\ copies' = copies
<1>1. /\ drain.phase = "replay" /\ drain.todo = {} /\ drain'.phase = "account" /\ copies' = copies
  BY DEF ClearAndRelease, BaseInv, TypeInv, DrainOK, DrainStates
<1>2. Remaining(p, k)' = Buffered(p, k)'
  BY <1>1 DEF Remaining
<1>3. ASSUME p \in drain.ids PROVE Remaining(p, k) = {} /\ Buffered(p, k)' = {}
  <2>1. local_fut'[p] = <<>>
    BY <1>3 DEF ClearAndRelease
  <2>2. Buffered(p, k)' = {}
    BY <2>1 DEF Buffered, Positions
  <2> QED
    BY <1>1, <1>3, <2>2 DEF Remaining
<1>4. ASSUME p \notin drain.ids PROVE Buffered(p, k)' = Buffered(p, k) /\ Remaining(p, k) = Buffered(p, k)
  <2>1. local_fut'[p] = local_fut[p]
    BY <1>4 DEF ClearAndRelease
  <2> QED
    BY <1>4, <2>1, InChainSame DEF Remaining
<1> QED
  BY <1>1, <1>2, <1>3, <1>4

\* No step of a drain changes what contains would answer.
LEMMA ViewDrain ==
    ASSUME BaseInv, BaseInv', KeysOK, Drain, NEW k \in Keys
    PROVE  View(k)' = View(k)
<1>1. CASE ReplayOp
  <2>1. PICK p \in Producers, o \in Ops :
          /\ Owns(p, o.key)
          /\ o \in Remaining(p, o.key)
          /\ \A x \in Keys \ {o.key} : copies'[x] = copies[x]
    BY <1>1, ReplayEffect
  <2>2. \A q : Buffered(q, k)' = Buffered(q, k)
    BY <1>1, InChainSame DEF ReplayOp, ptfoVars
  <2>3. CASE k = o.key
    <3>1. Buffered(p, k) # {}
      BY <2>1, <2>3, RemainingIs
    <3>2. ViewOf(p, k)' = ViewOf(p, k)
      BY <2>2, <3>1 DEF ViewOf, Leaves, Latest
    <3> QED
      BY <2>1, <2>3, <3>2, ViewBoth
  <2>4. CASE k # o.key
    <3>1. copies'[k] = copies[k]
      BY <2>1, <2>4
    <3>2. \A q : ViewOf(q, k)' = ViewOf(q, k)
      BY <2>2, <3>1 DEF ViewOf, Leaves, Latest
    <3> QED
      BY <3>1, <3>2, ViewBoth
  <2> QED
    BY <2>3, <2>4
<1>2. CASE ClearAndRelease
  <2>1. CASE \A p \in Producers : ~Owns(p, k)
    BY <1>2, <2>1, ViewBoth DEF ClearAndRelease
  <2>2. ASSUME NEW p \in Producers, Owns(p, k) PROVE View(k)' = View(k)
    <3>1. /\ p \in drain.ids => Remaining(p, k) = {} /\ Buffered(p, k)' = {}
          /\ p \notin drain.ids => Buffered(p, k)' = Buffered(p, k)
          /\ copies' = copies
      BY <1>2, ClearEffect
    <3>2. KeyOK(p, k)
      BY <2>2 DEF KeysOK, Owns
    <3>3. ViewOf(p, k)' = IF Buffered(p, k)' # {}
                          THEN \E o \in Latest(Buffered(p, k)') : ~o.is_delete
                          ELSE copies[k] > 0
      BY <3>1 DEF ViewOf, Leaves, Latest
    <3>4. ViewOf(p, k)' = ViewOf(p, k)
      <4>1. CASE p \in drain.ids
        BY <3>1, <3>2, <3>3, <4>1 DEF KeyOK, ViewOf
      <4>2. CASE p \notin drain.ids
        BY <3>1, <3>3, <4>2 DEF ViewOf, Leaves
      <4> QED
        BY <4>1, <4>2
    <3> QED
      BY <2>2, <3>4, ViewBoth
  <2> QED
    BY <2>1, <2>2
<1>3. CASE \/ drain_pending
           \/ \E w \in Workers : EvaluatorDrain(w)
           \/ \E p \in Producers : AcquirePtfoLock(p)
           \/ CollectLookupEntries
           \/ CollectOps
           \/ FinishDrain
  <2>1. UNCHANGED <<ptfoVars, copies>>
    BY <1>3 DEF drain_pending, EvaluatorDrain, StartDrain, AcquirePtfoLock,
                CollectLookupEntries, CollectOps, FinishDrain
  <2> QED
    BY <2>1, ViewSame
<1> QED
  BY <1>1, <1>2, <1>3 DEF Drain

\* Before the first buffered write nothing is buffered or about to be, and a
\* record loaded into the tree shows.
LEMMA WarmupEffect ==
    ASSUME BaseInv, BaseInv', NEW x \in Keys, warmup_insert(x)
    PROVE  /\ \A p \in Producers : /\ pc[p] # "sequenced"
                                   /\ \A k : Buffered(p, k) = {} /\ Remaining(p, k) = {}
           /\ \A k \in Keys : copies'[k] = IF k = x THEN 1 ELSE copies[k]
           /\ \A k \in Keys : View(k) = (copies[k] > 0) /\ View(k)' = (copies'[k] > 0)
<1>1. next_ptfo_sequence = 1
  BY DEF warmup_insert
<1>2. ASSUME NEW p \in Producers, NEW k
      PROVE  /\ pc[p] # "sequenced"
             /\ Buffered(p, k) = {} /\ Remaining(p, k) = {}
  <2>1. pc[p] # "sequenced"
    <3>1. pc[p] = "sequenced" => /\ cur[p].sequence > 0 /\ cur[p].sequence < 1
                                 /\ cur[p].sequence \in Nat
      BY <1>1 DEF BaseInv, ShapeInv, ChainShape, OwnKeys, OwnKeysOf, TypeInv, WritersOK, Ops
    <3> QED
      BY <3>1
  <2>2. \A o \in Buffered(p, k) : o.sequence < 1 /\ o.sequence > 0 /\ o \in Ops
    BY <1>1, RemainingIs
  <2>3. \A o \in Buffered(p, k) : FALSE
    BY <2>2 DEF Ops
  <2> QED
    BY <2>1, <2>3, RemainingIs
<1>3. \A k \in Keys : copies'[k] = IF k = x THEN 1 ELSE copies[k]
  BY DEF warmup_insert, apply_buffered_op, BaseInv, TypeInv, TreeOK
<1>4. ASSUME NEW k \in Keys PROVE View(k) = (copies[k] > 0) /\ View(k)' = (copies'[k] > 0)
  <2>1. \A p \in Producers : Buffered(p, k) = {} /\ Buffered(p, k)' = {}
    BY <1>2, InChainSame DEF warmup_insert, ptfoVars
  <2>2. \A p \in Producers : ViewOf(p, k) = (copies[k] > 0) /\ ViewOf(p, k)' = (copies'[k] > 0)
    BY <2>1 DEF ViewOf
  <2> QED
    BY <2>2, ViewBoth
<1> QED
  BY <1>2, <1>3, <1>4

\* DisjointProducers takes only steps of FutureBTree.
LEMMA StepIsStep == [DNext]_dvars => [Next]_vars
<1>1. DWrite => (\E k \in Keys : warmup_insert(k)) \/ Write
  BY DEF DWrite, Write
<1>2. DRead => Read
  BY DEF DRead, Read
<1> QED
  BY <1>1, <1>2 DEF DNext, Next, dvars

-----------------------------------------------------------------------------
(* KeysOK. *)

\* What remains depends on the chain and the drain only.
LEMMA RemainingSame ==
    ASSUME NEW p, NEW k, local_fut'[p] = local_fut[p], drain' = drain
    PROVE  Remaining(p, k)' = Remaining(p, k)
<1>1. /\ Buffered(p, k)' = Buffered(p, k)
      /\ Positions(p)' = Positions(p)
      /\ \A x \in Positions(p) : OpAt(x)' = OpAt(x)
  BY InChainSame
<1>2. {OpAt(x) : x \in drain.todo \cap Positions(p)}' = {OpAt(x) : x \in drain.todo \cap Positions(p)}
  BY <1>1
<1> QED
  BY <1>1, <1>2 DEF Remaining

\* A key that the step leaves alone.
LEMMA KeySame ==
    ASSUME NEW p, NEW k, KeyOK(p, k),
           Buffered(p, k)' = Buffered(p, k), Remaining(p, k)' = Remaining(p, k),
           copies'[k] = copies[k], View(k)' = View(k),
           pc'[p] = "sequenced" => pc[p] = "sequenced" /\ cur'[p] = cur[p]
    PROVE  KeyOK(p, k)'
BY DEF KeyOK, InsertsFindNone, Leaves, Latest

\* An append of future_insert keeps what each key needs.
LEMMA KeysAppend ==
    ASSUME BaseInv, BaseInv', KeysOK, NEW p \in Producers, future_insert(p)
    PROVE  KeysOK'
<1>1. /\ cur[p] \in Ops
      /\ InChain(p)' = InChain(p) \cup {cur[p]}
      /\ \A q \in Producers \ {p} : local_fut'[q] = local_fut[q]
      /\ copies' = copies /\ drain' = drain /\ p \notin ptfo_mu
      /\ pc[p] = "sequenced" /\ cur' = cur
  BY InChainAppend DEF BaseInv, future_insert, drainVars
<1>2. pc' = [pc EXCEPT ![p] = "inserted"] /\ pc'[p] = "inserted"
  BY DEF future_insert, BaseInv, TypeInv, WritersOK
<1>3. \A k : Remaining(p, k) = Buffered(p, k) /\ Remaining(p, k)' = Buffered(p, k)'
  BY <1>1 DEF Remaining, BaseInv, DrainHoldsLocks
<1>4. ASSUME NEW q \in Producers, NEW k \in KeysOf[q] PROVE KeyOK(q, k)'
  <2>1. KeyOK(q, k) /\ k \in Keys
    BY ConstantsAssumption DEF KeysOK
  <2>2. CASE q # p
    <3>1. /\ Buffered(q, k)' = Buffered(q, k)
          /\ Positions(q)' = Positions(q)
          /\ \A x \in Positions(q) : OpAt(x)' = OpAt(x)
      BY <1>1, <2>2, InChainSame
    <3>2. Remaining(q, k)' = Remaining(q, k)
      BY <1>1, <2>2, RemainingSame
    <3>3. cur[p].key \in KeysOf[p]
      BY <1>1 DEF BaseInv, OwnKeys, OwnKeysOf
    <3>4. k # cur[p].key
      BY <2>2, <3>3, DisjointAssumption
    <3>5. View(k)' = View(k)
      BY <2>1, <3>4, ViewAppend
    <3>6. pc'[q] = "sequenced" => pc[q] = "sequenced" /\ cur'[q] = cur[q]
      BY <1>1, <1>2, <2>2 DEF BaseInv, TypeInv, WritersOK
    <3> QED
      BY <1>1, <2>1, <3>1, <3>2, <3>5, <3>6, KeySame
  <2>3. CASE q = p /\ k # cur[p].key
    <3>1. /\ Buffered(p, k) = {o \in InChain(p) : o.key = k}
          /\ Buffered(p, k)' = {o \in InChain(p) \cup {cur[p]} : o.key = k}
      BY <1>1 DEF Buffered, InChain
    <3>2. Buffered(p, k)' = Buffered(p, k)
      BY <2>3, <3>1
    <3>3. View(k)' = View(k)
      BY <2>1, <2>3, ViewAppend
    <3>4. KeyOK(p, k)
      BY <2>1, <2>3
    <3>5. KeyOK(p, k)'
      BY <1>1, <1>2, <1>3, <3>2, <3>3, <3>4, KeySame
    <3> QED
      BY <2>3, <3>5
  <2>4. CASE q = p /\ k = cur[p].key
    <3>1. /\ Buffered(p, k) = {o \in InChain(p) : o.key = k}
          /\ Buffered(p, k)' = {o \in InChain(p) \cup {cur[p]} : o.key = k}
      BY <1>1 DEF Buffered, InChain
    <3>2. Buffered(p, k)' = Buffered(p, k) \cup {cur[p]}
      BY <2>4, <3>1
    <3>3. \A o \in Buffered(p, k) : o.sequence < cur[p].sequence
      <4>1. BelowChain(local_fut[p], cur[p].sequence)
        BY <1>1 DEF BaseInv, ShapeInv, ChainShape
      <4>2. \A x \in Positions(p) : OpAt(x).sequence < cur[p].sequence
        BY <4>1, PositionParts DEF BelowChain, BaseInv, TypeInv
      <4> QED
        BY <4>2 DEF Buffered
    <3>4. Buffered(p, k) \subseteq Ops /\ Distinct(Buffered(p, k)) /\ copies[k] \in Nat
      BY <2>1, RemainingIs DEF BaseInv, TypeInv, TreeOK
    <3>5. KeyOK(p, k) /\ Owns(p, k)
      BY <2>1, <2>4 DEF Owns
    <3>6. View(k) = ViewOf(p, k)
      BY <2>1, <3>5, ViewBoth
    <3>7. ~cur[p].is_delete => IF Buffered(p, k) # {} THEN ~Leaves(Buffered(p, k)) ELSE copies[k] = 0
      <4>1. ~cur[p].is_delete => ~ViewOf(p, k)
        BY <1>1, <2>4, <3>5, <3>6 DEF KeyOK
      <4>2. Buffered(p, k) # {} => ViewOf(p, k) = Leaves(Buffered(p, k))
        BY DEF ViewOf
      <4>3. Buffered(p, k) = {} => ViewOf(p, k) = (copies[k] > 0)
        BY DEF ViewOf
      <4>4. ~(copies[k] > 0) => copies[k] = 0
        BY <3>4
      <4> QED
        BY <4>1, <4>2, <4>3, <4>4, Zenon
    <3>8. InsertsFindNone(Buffered(p, k), copies[k])
      BY <1>3, <3>5 DEF KeyOK
    <3>9. InsertsFindNone(Buffered(p, k) \cup {cur[p]}, copies[k])
      BY <1>1, <3>3, <3>4, <3>7, <3>8, AppendedFindsNone
    <3>10. InsertsFindNone(Remaining(p, k), copies[k])'
      BY <1>1, <1>3, <3>2, <3>9 DEF InsertsFindNone
    <3>11. KeyOK(p, k)'
      BY <1>2, <1>3, <3>10 DEF KeyOK, Latest
    <3> QED
      BY <2>4, <3>11
  <2> QED
    BY <2>2, <2>3, <2>4
<1> QED
  BY <1>1, <1>4 DEF KeysOK

\* One replayed operation keeps it.
LEMMA KeysReplay ==
    ASSUME BaseInv, BaseInv', KeysOK, ReplayOp
    PROVE  KeysOK'
<1>1. PICK p \in Producers, o \in Ops :
        /\ Owns(p, o.key)
        /\ o \in Remaining(p, o.key)
        /\ \A x \in Remaining(p, o.key) : o.sequence <= x.sequence
        /\ Remaining(p, o.key)' = Remaining(p, o.key) \ {o}
        /\ \A q \in Producers, k \in Keys \ {o.key} : Remaining(q, k)' = Remaining(q, k)
        /\ copies'[o.key] = IF o.is_delete THEN 0 ELSE copies[o.key] + 1
        /\ \A k \in Keys \ {o.key} : copies'[k] = copies[k]
        /\ p \in drain.ids
  BY ReplayEffect
<1>2. \A q, k : Buffered(q, k)' = Buffered(q, k)
  BY InChainSame DEF ReplayOp, ptfoVars
<1>3. \A k \in Keys : View(k)' = View(k)
  BY ViewDrain DEF Drain
<1>4. pc' = pc /\ cur' = cur
  BY DEF ReplayOp, producerVars
<1>5. ASSUME NEW q \in Producers, NEW k \in KeysOf[q], k # o.key PROVE KeyOK(q, k)'
  <2>1. KeyOK(q, k) /\ k \in Keys
    BY ConstantsAssumption DEF KeysOK
  <2> QED
    BY <1>1, <1>2, <1>3, <1>4, <1>5, <2>1, KeySame
<1> DEFINE k == o.key
           R == Remaining(p, k)
           B == Buffered(p, k)
<1>6. k \in Keys /\ k \in KeysOf[p] /\ copies[k] \in {0, 1} /\ KeyOK(p, k)
  BY <1>1, ConstantsAssumption DEF Owns, KeysOK
<1>7. /\ R \subseteq B /\ B \subseteq Ops /\ Distinct(B) /\ Distinct(R)
      /\ \A x \in B : x.sequence < next_ptfo_sequence
      /\ next_ptfo_sequence \in Nat
  BY RemainingIs DEF Distinct, BaseInv, TypeInv, WritersOK
<1>8. o \in R /\ \A x \in R : o.sequence <= x.sequence
  BY <1>1
<1>9. InsertsFindNone(R, copies[k]) /\ Latest(B) \subseteq R
  BY <1>6, <1>8 DEF KeyOK
<1>10. /\ copies'[k] \in {0, 1}
       /\ (copies'[k] > 0) = ~o.is_delete
       /\ InsertsFindNone(R \ {o}, copies'[k])
  <2> HIDE DEF R, k
  <2> DEFINE n == copies[k]
             left == IF o.is_delete THEN 0 ELSE n + 1
  <2>1. R \in SUBSET Ops /\ Distinct(R) /\ n \in {0, 1} /\ InsertsFindNone(R, n)
    BY <1>6, <1>7, <1>9
  <2> HIDE DEF n
  <2>2. left \in {0, 1} /\ (left > 0) = ~o.is_delete /\ InsertsFindNone(R \ {o}, left)
    BY <1>8, <2>1, AppliedFindsNone
  <2>3. copies'[k] = left
    BY <1>1 DEF k, n
  <2> QED
    BY <2>2, <2>3
<1>11. PICK l \in B : Latest(B) = {l} /\ \A x \in B : x # l => x.sequence < l.sequence
  BY <1>7, <1>8, LatestExists
<1>12. KeyOK(p, k)'
  <2>1. InsertsFindNone(Remaining(p, k), copies[k])'
    BY <1>1, <1>10 DEF InsertsFindNone
  <2>2. R \ {o} # {} => l \in R \ {o}
    <3>1. ASSUME NEW x \in R \ {o} PROVE l # o
      <4>1. o.sequence # x.sequence
        BY <1>7, <1>8 DEF Distinct
      <4>2. o.sequence \in Nat /\ x.sequence \in Nat /\ l.sequence \in Nat
        BY <1>7 DEF Ops
      <4> QED
        BY <1>7, <1>8, <1>11, <4>1, <4>2
    <3> QED
      BY <1>9, <1>11, <3>1
  <2>3. R \ {o} = {} => l = o
    BY <1>9, <1>11
  <2>4. Leaves(B) = ~l.is_delete
    <3>1. l.is_delete \in BOOLEAN
      BY <1>7 DEF Ops
    <3> QED
      BY <1>11, <3>1 DEF Leaves
  <2>5. /\ Remaining(p, k)' = R \ {o}
        /\ Buffered(p, k)' = B
        /\ Latest(Buffered(p, k))' = Latest(B)
        /\ Leaves(Buffered(p, k))' = Leaves(B)
    BY <1>1, <1>2 DEF Latest, Leaves
  <2>6. pc'[p] = "sequenced" /\ cur'[p].key = k /\ ~cur'[p].is_delete => ~View(k)'
    BY <1>3, <1>4, <1>6 DEF KeyOK
  <2> QED
    BY <1>10, <1>11, <2>1, <2>2, <2>3, <2>4, <2>5, <2>6 DEF KeyOK
<1>13. ASSUME NEW q \in Producers, k \in KeysOf[q] PROVE KeyOK(q, k)'
  BY <1>6, <1>12, <1>13, DisjointAssumption
<1>14. \A x \in Keys : copies'[x] \in {0, 1}
  BY <1>1, <1>10 DEF KeysOK
<1> QED
  BY <1>5, <1>13, <1>14 DEF KeysOK

\* Clearing the replayed chains keeps it.
LEMMA KeysClear ==
    ASSUME BaseInv, BaseInv', KeysOK, ClearAndRelease
    PROVE  KeysOK'
<1>1. ASSUME NEW p \in Producers, NEW k \in KeysOf[p] PROVE KeyOK(p, k)'
  <2>1. KeyOK(p, k) /\ k \in Keys
    BY ConstantsAssumption DEF KeysOK
  <2>2. View(k)' = View(k)
    BY <2>1, ViewDrain DEF Drain
  <2>3. pc' = pc /\ cur' = cur
    BY DEF ClearAndRelease, producerVars
  <2>4. /\ p \in drain.ids => Remaining(p, k) = {} /\ Buffered(p, k)' = {}
        /\ p \notin drain.ids => Buffered(p, k)' = Buffered(p, k)
        /\ p \notin drain.ids => Remaining(p, k) = Buffered(p, k)
        /\ Remaining(p, k)' = Buffered(p, k)'
        /\ copies' = copies
    BY ClearEffect
  <2>5. CASE p \notin drain.ids
    BY <2>1, <2>2, <2>3, <2>4, <2>5, KeySame
  <2>6. CASE p \in drain.ids
    <3>1. InsertsFindNone(Remaining(p, k), copies[k])'
      BY <2>4, <2>6 DEF InsertsFindNone
    <3> QED
      BY <2>1, <2>2, <2>3, <2>4, <2>6, <3>1 DEF KeyOK
  <2> QED
    BY <2>5, <2>6
<1> QED
  BY <1>1 DEF KeysOK, ClearAndRelease

\* A step that moves no operation: the drain may change its phase.
LEMMA KeysStay ==
    ASSUME BaseInv, KeysOK, UNCHANGED <<ptfoVars, copies>>,
           \A p \in Producers, k \in Keys : Remaining(p, k)' = Remaining(p, k),
           \A p \in Producers :
              pc'[p] = "sequenced" => \/ pc[p] = "sequenced" /\ cur'[p] = cur[p]
                                      \/ cur'[p].is_delete
                                      \/ ~View(cur'[p].key)
    PROVE  KeysOK'
<1>1. ASSUME NEW p \in Producers, NEW k \in KeysOf[p] PROVE KeyOK(p, k)'
  <2>1. KeyOK(p, k) /\ k \in Keys
    BY ConstantsAssumption DEF KeysOK
  <2>2. View(k)' = View(k)
    BY ViewSame
  <2>3. Buffered(p, k)' = Buffered(p, k) /\ copies' = copies
    BY InChainSame DEF ptfoVars
  <2>4. CASE pc'[p] = "sequenced" => pc[p] = "sequenced" /\ cur'[p] = cur[p]
    BY <2>1, <2>2, <2>3, <2>4, KeySame
  <2>5. CASE cur'[p].is_delete \/ ~View(cur'[p].key)
    <3>1. cur'[p].key = k /\ ~cur'[p].is_delete => ~View(k)'
      BY <2>2, <2>5
    <3> QED
      BY <2>1, <2>3, <3>1 DEF KeyOK, InsertsFindNone, Leaves, Latest
  <2> QED
    BY <2>4, <2>5
<1> QED
  BY <1>1 DEF KeysOK

\* So does every step of a drain.
LEMMA KeysDrain ==
    ASSUME BaseInv, BaseInv', KeysOK, Drain
    PROVE  KeysOK'
<1>1. drain \in DrainStates
  BY DEF BaseInv, TypeInv, DrainOK
<1>2. ASSUME UNCHANGED <<producerVars, ptfoVars, copies>>,
             drain.phase # "replay", drain'.phase # "replay"
      PROVE  KeysOK'
  <2>1. \A p \in Producers, k \in Keys : Remaining(p, k)' = Remaining(p, k)
    BY <1>2, InChainSame DEF Remaining, ptfoVars
  <2> QED
    BY <1>2, <2>1, KeysStay DEF producerVars
<1>3. CASE drain_pending \/ \E w \in Workers : EvaluatorDrain(w)
  BY <1>2, <1>3 DEF drain_pending, EvaluatorDrain, StartDrain, MuFree, Idle
<1>4. ASSUME NEW p \in Producers, AcquirePtfoLock(p) PROVE KeysOK'
  BY <1>1, <1>2, <1>4 DEF AcquirePtfoLock, DrainStates
<1>5. CASE CollectLookupEntries
  BY <1>1, <1>2, <1>5 DEF CollectLookupEntries, DrainStates
<1>6. CASE FinishDrain
  BY <1>1, <1>2, <1>6 DEF FinishDrain, Idle
<1>7. CASE CollectOps
  <2>1. /\ drain.phase = "collect" /\ drain'.phase = "replay" /\ drain'.ids = drain.ids
        /\ drain'.todo = ToReplay(drain.ids, drain.snapshot)
        /\ local_fut' = local_fut
    BY <1>1, <1>7 DEF CollectOps, DrainStates, ptfoVars
  <2>2. drain'.todo = UNION {Positions(p) : p \in drain.ids}
    BY <2>1, DisjointAssumption DEF ToReplay
  <2>3. ASSUME NEW p \in Producers, NEW k \in Keys PROVE Remaining(p, k)' = Remaining(p, k)
    <3>1. /\ Buffered(p, k)' = Buffered(p, k)
          /\ Positions(p)' = Positions(p)
          /\ \A x \in Positions(p) : OpAt(x)' = OpAt(x)
      BY <2>1, InChainSame
    <3>2. Remaining(p, k) = Buffered(p, k)
      BY <2>1 DEF Remaining
    <3>3. CASE p \notin drain.ids
      BY <2>1, <3>1, <3>2, <3>3 DEF Remaining
    <3>4. CASE p \in drain.ids
      <4>1. drain'.todo \cap Positions(p) = Positions(p)
        BY <2>2, <3>4
      <4>2. {OpAt(x) : x \in drain.todo \cap Positions(p)}' = {OpAt(x) : x \in Positions(p)}
        BY <3>1, <4>1
      <4> QED
        BY <2>1, <3>2, <3>4, <4>2 DEF Remaining, Buffered
    <3> QED
      BY <3>3, <3>4
  <2> QED
    BY <1>7, <2>3, KeysStay DEF CollectOps, producerVars
<1> QED
  BY <1>3, <1>4, <1>5, <1>6, <1>7, KeysReplay, KeysClear DEF Drain

\* So does every step of a writer.
LEMMA KeysWrite ==
    ASSUME BaseInv, BaseInv', KeysOK, DWrite
    PROVE  KeysOK'
<1>1. ASSUME NEW x \in Keys, warmup_insert(x) PROVE KeysOK'
  <2>1. /\ \A p \in Producers : /\ pc[p] # "sequenced"
                                /\ \A k : Buffered(p, k) = {} /\ Remaining(p, k) = {}
        /\ \A k \in Keys : copies'[k] = IF k = x THEN 1 ELSE copies[k]
    BY <1>1, WarmupEffect
  <2>2. pc' = pc /\ local_fut' = local_fut /\ drain' = drain
    BY <1>1 DEF warmup_insert, producerVars, ptfoVars, drainVars
  <2>3. ASSUME NEW p \in Producers, NEW k \in KeysOf[p] PROVE KeyOK(p, k)'
    <3>1. Buffered(p, k)' = {} /\ Remaining(p, k)' = {}
      BY <2>1, <2>2, InChainSame, RemainingSame
    <3>2. InsertsFindNone(Remaining(p, k), copies[k])'
      BY <3>1 DEF InsertsFindNone
    <3> QED
      BY <2>1, <2>2, <3>1, <3>2 DEF KeyOK
  <2>4. \A k \in Keys : copies'[k] \in {0, 1}
    BY <2>1 DEF KeysOK
  <2> QED
    BY <2>3, <2>4 DEF KeysOK
<1>2. ASSUME NEW p \in Producers, NEW k \in Keys, NEW d \in BOOLEAN,
             d \/ ~View(k), FetchSequence(p, k, d)
      PROVE  KeysOK'
  <2>1. UNCHANGED <<ptfoVars, copies>> /\ local_fut' = local_fut /\ drain' = drain
    BY <1>2 DEF FetchSequence, ptfoVars, drainVars
  <2>2. \A q \in Producers, x \in Keys : Remaining(q, x)' = Remaining(q, x)
    BY <2>1, RemainingSame
  <2>3. ASSUME NEW q \in Producers, pc'[q] = "sequenced"
        PROVE  \/ pc[q] = "sequenced" /\ cur'[q] = cur[q]
               \/ cur'[q].is_delete
               \/ ~View(cur'[q].key)
    <3>1. CASE q = p
      <4>1. cur'[p].key = k /\ cur'[p].is_delete = d
        BY <1>2 DEF FetchSequence, BaseInv, TypeInv, WritersOK
      <4> QED
        BY <1>2, <3>1, <4>1
    <3>2. CASE q # p
      BY <1>2, <2>3, <3>2 DEF FetchSequence, BaseInv, TypeInv, WritersOK
    <3> QED
      BY <3>1, <3>2
  <2> QED
    BY <2>1, <2>2, <2>3, KeysStay
<1>3. ASSUME NEW p \in Producers, Account(p) PROVE KeysOK'
  <2>1. UNCHANGED <<ptfoVars, copies>> /\ local_fut' = local_fut /\ drain' = drain
    BY <1>3 DEF Account, ptfoVars, drainVars
  <2>2. \A q \in Producers, x \in Keys : Remaining(q, x)' = Remaining(q, x)
    BY <2>1, RemainingSame
  <2>3. \A q \in Producers : pc'[q] = "sequenced" => pc[q] = "sequenced" /\ cur'[q] = cur[q]
    BY <1>3 DEF Account, BaseInv, TypeInv, WritersOK
  <2> QED
    BY <2>1, <2>2, <2>3, KeysStay
<1> QED
  BY <1>1, <1>2, <1>3, KeysAppend DEF DWrite

\* So does every step.
LEMMA KeysStep == BaseInv /\ BaseInv' /\ KeysOK /\ [DNext]_dvars => KeysOK'
<1> SUFFICES ASSUME BaseInv, BaseInv', KeysOK, [DNext]_dvars PROVE KeysOK'
  OBVIOUS
<1>1. ASSUME UNCHANGED <<producerVars, ptfoVars, copies, drainVars>> PROVE KeysOK'
  <2>1. \A q \in Producers, x \in Keys : Remaining(q, x)' = Remaining(q, x)
    BY <1>1, RemainingSame DEF ptfoVars, drainVars
  <2> QED
    BY <1>1, <2>1, KeysStay DEF producerVars
<1>2. CASE DRead
  BY <1>1, <1>2 DEF DRead, ContainsBegin, ContainsSkip, ContainsWalk, ContainsTree
<1>3. CASE UNCHANGED dvars
  BY <1>1, <1>3 DEF dvars, vars
<1> QED
  BY <1>2, <1>3, KeysWrite, KeysDrain DEF DNext

\* It holds of empty chains and an empty tree.
LEMMA KeysInit == Init => KeysOK
<1> SUFFICES ASSUME Init PROVE KeysOK
  OBVIOUS
<1>1. \A p \in Producers : \A k : Buffered(p, k) = {}
  BY DEF Init, Buffered, Positions
<1>2. \A p \in Producers : \A k : Remaining(p, k) = {}
  BY <1>1 DEF Init, Remaining, Idle
<1> QED
  BY <1>1, <1>2 DEF Init, KeysOK, KeyOK, InsertsFindNone

-----------------------------------------------------------------------------
(* ReadsOK. *)

\* A step of a writer or a drain: readers stay where they are and may have
\* seen more.
LEMMA ReadsStay ==
    ASSUME TypeInv, ReadsOK, reader' = reader,
           \A r \in Readers : ~Reading(r) => seen'[r] = seen[r],
           \A r \in Readers, k \in Keys : Reading(r) /\ k = reader[r].key =>
              /\ seen[r] \subseteq seen'[r]
              /\ View(k)' \in seen'[r]
              /\ ~Moving(k)' => \/ ~Moving(k) /\ copies'[k] = copies[k]
                                \/ (copies'[k] > 0) \in seen'[r]
    PROVE  ReadsOK'
<1> SUFFICES ASSUME NEW r \in Readers PROVE ReaderOK(r)'
  BY DEF ReadsOK
<1>1. ReaderOK(r) /\ Reading(r)' = Reading(r)
  BY DEF ReadsOK, Reading
<1>2. CASE ~Reading(r)
  BY <1>1, <1>2 DEF ReaderOK
<1>3. ASSUME Reading(r), NEW k \in Keys, k = reader[r].key PROVE Truthful(r, k)'
  <2>1. Truthful(r, k)
    BY <1>1, <1>3 DEF ReaderOK
  <2>2. /\ seen[r] \subseteq seen'[r]
        /\ View(k)' \in seen'[r]
        /\ ~Moving(k)' => \/ ~Moving(k) /\ copies'[k] = copies[k]
                          \/ (copies'[k] > 0) \in seen'[r]
    BY <1>3
  <2>3. \A p : Past(r, p)' = Past(r, p)
    BY DEF Past
  <2> QED
    BY <2>1, <2>2, <2>3 DEF Truthful, Owns
<1> QED
  BY <1>1, <1>2, <1>3 DEF ReaderOK

\* Saw adds to what readers of the key have seen.
LEMMA SawIs ==
    ASSUME NEW k, NEW present, NEW r \in Readers, seen' = Saw(k, present)
    PROVE  /\ seen[r] \subseteq seen'[r]
           /\ Reading(r) /\ reader[r].key = k => seen'[r] = seen[r] \cup {present}
           /\ ~(Reading(r) /\ reader[r].key = k) => seen'[r] = seen[r]
BY DEF Saw

\* A write adds its value to what the readers of its key may answer.
LEMMA ReadsWrite ==
    ASSUME BaseInv, BaseInv', ReadsOK, DWrite
    PROVE  ReadsOK'
<1>1. TypeInv
  BY DEF BaseInv
<1>2. ASSUME NEW r \in Readers, NEW k \in Keys, Reading(r), k = reader[r].key
      PROVE  View(k) \in seen[r]
  BY <1>2 DEF ReadsOK, ReaderOK, Truthful
<1>3. ASSUME NEW x \in Keys, warmup_insert(x), seen' = Saw(x, TRUE) PROVE ReadsOK'
  <2>1. reader' = reader /\ drain' = drain
    BY <1>3 DEF warmup_insert, drainVars
  <2>2. \A k \in Keys : /\ copies'[k] = IF k = x THEN 1 ELSE copies[k]
                        /\ View(k) = (copies[k] > 0) /\ View(k)' = (copies'[k] > 0)
    BY <1>3, WarmupEffect
  <2>3. ASSUME NEW r \in Readers, NEW k \in Keys, Reading(r), k = reader[r].key
        PROVE  /\ seen[r] \subseteq seen'[r]
               /\ View(k)' \in seen'[r]
               /\ (copies'[k] > 0) \in seen'[r]
    <3>1. View(k) \in seen[r] /\ seen[r] \subseteq seen'[r]
      BY <1>2, <1>3, <2>3, SawIs
    <3>2. CASE k = x
      <4>1. TRUE \in seen'[r]
        <5>1. seen'[r] = seen[r] \cup {TRUE}
          BY <1>3, <2>3, <3>2 DEF Saw
        <5> QED
          BY <5>1
      <4>2. (copies'[k] > 0) = TRUE
        BY <2>2, <3>2
      <4> QED
        BY <2>2, <3>1, <4>1, <4>2
    <3>3. CASE k # x
      BY <2>2, <3>1, <3>3
    <3> QED
      BY <3>2, <3>3
  <2>4. \A r \in Readers : ~Reading(r) => seen'[r] = seen[r]
    BY <1>3, SawIs
  <2> QED
    BY <1>1, <2>1, <2>3, <2>4, ReadsStay
<1>4. ASSUME NEW p \in Producers, future_insert(p), seen' = Saw(cur[p].key, ~cur[p].is_delete)
      PROVE  ReadsOK'
  <2>1. reader' = reader /\ drain' = drain /\ copies' = copies
    BY <1>4 DEF future_insert, drainVars
  <2>2. \A k \in Keys : View(k)' = IF k = cur[p].key THEN ~cur[p].is_delete ELSE View(k)
    BY <1>4, ViewAppend
  <2>3. \A k : Moving(k)' = Moving(k)
    BY <2>1 DEF Moving, TreeMuFree, Owns
  <2>4. ASSUME NEW r \in Readers, NEW k \in Keys, Reading(r), k = reader[r].key
        PROVE  /\ seen[r] \subseteq seen'[r]
               /\ View(k)' \in seen'[r]
    <3>1. View(k) \in seen[r] /\ seen[r] \subseteq seen'[r]
      BY <1>2, <1>4, <2>4, SawIs
    <3>2. CASE k = cur[p].key
      <4>1. (~cur[p].is_delete) \in seen'[r]
        <5>1. seen'[r] = seen[r] \cup {~cur[p].is_delete}
          BY <1>4, <2>4, <3>2 DEF Saw
        <5> QED
          BY <5>1
      <4> QED
        BY <2>2, <3>1, <3>2, <4>1
    <3>3. CASE k # cur[p].key
      BY <2>2, <3>1, <3>3
    <3> QED
      BY <3>2, <3>3
  <2>5. \A r \in Readers : ~Reading(r) => seen'[r] = seen[r]
    BY <1>4, SawIs
  <2> QED
    BY <1>1, <2>1, <2>3, <2>4, <2>5, ReadsStay
<1>5. ASSUME UNCHANGED <<ptfoVars, copies, drainVars, reader, seen>> PROVE ReadsOK'
  <2>1. \A k : View(k)' = View(k) /\ Moving(k)' = Moving(k)
    BY <1>5, ViewSame DEF Moving, TreeMuFree, Owns, drainVars
  <2> QED
    BY <1>1, <1>2, <1>5, <2>1, ReadsStay
<1>6. ASSUME NEW p \in Producers, UNCHANGED seen,
             \/ \E k \in Keys, d \in BOOLEAN : FetchSequence(p, k, d)
             \/ Account(p)
      PROVE  ReadsOK'
  BY <1>5, <1>6 DEF FetchSequence, Account
<1> QED
  BY <1>3, <1>4, <1>6 DEF DWrite

\* A drain leaves the answers of readers truths of their calls.
LEMMA ReadsDrain ==
    ASSUME BaseInv, BaseInv', KeysOK, ReadsOK, Drain, UNCHANGED seen
    PROVE  ReadsOK'
<1>1. TypeInv /\ drain \in DrainStates
  BY DEF BaseInv, TypeInv, DrainOK
<1>2. \A k \in Keys : View(k)' = View(k)
  BY ViewDrain
<1>3. reader' = reader
  BY DEF Drain, drain_pending, EvaluatorDrain, StartDrain, AcquirePtfoLock,
         CollectLookupEntries, CollectOps, ReplayOp, ClearAndRelease, FinishDrain
<1>4. ASSUME NEW r \in Readers, NEW k \in Keys, Reading(r), k = reader[r].key
      PROVE  View(k) \in seen[r] /\ View(k)' \in seen'[r]
  BY <1>2, <1>4 DEF ReadsOK, ReaderOK, Truthful
<1>5. SUFFICES ASSUME NEW r \in Readers, NEW k \in Keys, Reading(r), k = reader[r].key, ~Moving(k)'
               PROVE  \/ ~Moving(k) /\ copies'[k] = copies[k]
                      \/ (copies'[k] > 0) \in seen[r]
  BY <1>1, <1>3, <1>4, ReadsStay
<1>6. CASE drain_pending \/ \E w \in Workers : EvaluatorDrain(w)
  BY <1>6 DEF drain_pending, EvaluatorDrain, StartDrain, MuFree, Moving, TreeMuFree
<1>7. ASSUME ~TreeMuFree', drain'.ids = drain.ids PROVE ~Moving(k)
  BY <1>5, <1>7 DEF Moving, Owns
<1>8. ASSUME NEW p \in Producers, AcquirePtfoLock(p) PROVE ~Moving(k) /\ copies'[k] = copies[k]
  <2>1. drain'.phase \in {"lock", "snapshot", "collect"} /\ drain'.ids = drain.ids
    BY <1>1, <1>8 DEF AcquirePtfoLock, DrainStates
  <2> QED
    BY <1>7, <1>8, <2>1 DEF TreeMuFree, AcquirePtfoLock
<1>9. CASE CollectLookupEntries
  <2>1. drain'.phase \in {"snapshot", "collect"} /\ drain'.ids = drain.ids
    BY <1>1, <1>9 DEF CollectLookupEntries, DrainStates
  <2> QED
    BY <1>7, <1>9, <2>1 DEF TreeMuFree, CollectLookupEntries
<1>10. CASE CollectOps
  <2>1. drain'.phase = "replay" /\ drain'.ids = drain.ids
    BY <1>1, <1>10 DEF CollectOps, DrainStates
  <2> QED
    BY <1>7, <1>10, <2>1 DEF TreeMuFree, CollectOps
<1>11. CASE ReplayOp
  <2>1. drain'.phase = "replay" /\ drain.phase = "replay" /\ drain'.ids = drain.ids
    BY <1>1, <1>11 DEF ReplayOp, DrainStates
  <2>2. ~Moving(k) /\ ~TreeMuFree
    BY <1>7, <2>1 DEF TreeMuFree
  <2>3. PICK p \in Producers, o \in Ops :
          /\ Owns(p, o.key)
          /\ \A x \in Keys \ {o.key} : copies'[x] = copies[x]
          /\ p \in drain.ids
    BY <1>11, ReplayEffect
  <2>4. k # o.key
    BY <2>2, <2>3 DEF Moving
  <2> QED
    BY <2>2, <2>3, <2>4
<1>12. CASE ClearAndRelease
  <2>1. CASE ~Moving(k)
    BY <1>12, <2>1 DEF ClearAndRelease
  <2>2. CASE Moving(k)
    <3>1. PICK p \in drain.ids : Owns(p, k)
      BY <2>2 DEF Moving
    <3>2. p \in Producers
      BY <1>1 DEF DrainStates
    <3>3. Buffered(p, k)' = {}
      BY <1>12, <3>2, ClearEffect
    <3>4. View(k)' = (copies'[k] > 0)
      BY <3>1, <3>2, <3>3, ViewBoth DEF ViewOf
    <3>5. View(k)' \in seen[r]
      BY <1>4, <1>5
    <3> QED
      BY <3>4, <3>5
  <2> QED
    BY <2>1, <2>2
<1>13. CASE FinishDrain
  BY <1>13 DEF FinishDrain, Moving, TreeMuFree
<1> QED
  BY <1>6, <1>8, <1>9, <1>10, <1>11, <1>12, <1>13 DEF Drain

\* What a reader of k has found once it is past the chain of t.
Found(r, k, t, best) ==
    /\ \A o \in best : best = {o} /\ (~o.is_delete) \in seen[r]
    /\ best # {} => \E p \in Producers : Owns(p, k) /\ p <= t
    /\ best = {} => reader[r].best = {}
    /\ /\ best = {}
       /\ \A p \in Producers : Owns(p, k) => p <= t
       /\ ~Moving(k)
       => (copies[k] > 0) \in seen[r]

\* What one chain adds to a scan keeps the answer true.
LEMMA ScanResult ==
    ASSUME BaseInv, ReadsOK, NEW r \in Readers, reader[r].phase = "scan",
           NEW k \in Keys, k = reader[r].key, NEW t \in Producers, t = reader[r].tid, NEW best,
           \/ k \notin hash[t] /\ best = reader[r].best
           \/ best = Latest(reader[r].best \cup Buffered(t, k))
    PROVE  Found(r, k, t, best)
<1> DEFINE old == reader[r].best
<1>1. Truthful(r, k)
  BY DEF ReadsOK, ReaderOK, Reading
<1>2. old \subseteq Ops /\ \A p \in Producers : p \in Int
  BY DEF BaseInv, TypeInv, ReadersOK, ReaderStates, Producers
<1>3. \A p \in Producers : Past(r, p) <=> p < t
  BY <1>2 DEF Past
<1>4. Buffered(t, k) # {} => k \in hash[t] /\ Owns(t, k)
  <2>1. \A o \in Buffered(t, k) : o.key = k /\ o \in InChain(t)
    BY DEF Buffered, InChain
  <2> QED
    BY <2>1 DEF BaseInv, OwnKeys, OwnKeysOf, Owns
<1>5. \A o \in old : old = {o} /\ (~o.is_delete) \in seen[r]
  BY <1>1 DEF Truthful
<1>6. CASE ~Owns(t, k)
  <2>1. Latest(old) = old
    <3>1. CASE old = {}
      BY <3>1 DEF Latest
    <3>2. CASE old # {}
      <4>1. PICK o \in old : TRUE
        BY <3>2
      <4>2. old = {o} /\ o \in Ops
        BY <1>2, <1>5, <4>1
      <4>3. \A x \in old : x # o => x.sequence < o.sequence
        BY <4>2
      <4> HIDE DEF old
      <4>4. Latest(old) = {o}
        BY <1>2, <4>1, <4>3, LatestIs
      <4> QED
        BY <4>2, <4>4
    <3> QED
      BY <3>1, <3>2
  <2>2. best = old
    <3>1. Buffered(t, k) = {}
      BY <1>4, <1>6
    <3> QED
      BY <2>1, <3>1
  <2>3. (\A p \in Producers : Owns(p, k) => p <= t) => \A p \in Producers : Owns(p, k) => Past(r, p)
    BY <1>2, <1>3, <1>6
  <2>4. best # {} => \E p \in Producers : Owns(p, k) /\ p <= t
    <3>1. best # {} => \E p \in Producers : Owns(p, k) /\ Past(r, p)
      BY <1>1, <2>2 DEF Truthful
    <3> QED
      BY <1>2, <1>3, <3>1
  <2>5. ASSUME best = {}, \A p \in Producers : Owns(p, k) => p <= t, ~Moving(k)
        PROVE  (copies[k] > 0) \in seen[r]
    BY <1>1, <2>2, <2>3, <2>5 DEF Truthful
  <2> QED
    BY <1>5, <2>2, <2>4, <2>5 DEF Found
<1>7. CASE Owns(t, k)
  <2>1. old = {}
    <3>1. ASSUME NEW p \in Producers, Owns(p, k), Past(r, p) PROVE FALSE
      <4>1. p = t
        BY <1>7, <3>1, DisjointAssumption DEF Owns
      <4> QED
        BY <1>2, <1>3, <3>1, <4>1
    <3> QED
      BY <1>1, <3>1 DEF Truthful
  <2>2. best = Latest(Buffered(t, k))
    <3>1. CASE k \notin hash[t] /\ best = old
      <4>1. Buffered(t, k) = {}
        BY <1>4, <3>1
      <4> QED
        BY <2>1, <3>1, <4>1 DEF Latest
    <3>2. CASE best = Latest(old \cup Buffered(t, k))
      BY <2>1, <3>2
    <3> QED
      BY <3>1, <3>2
  <2>3. /\ Buffered(t, k) \in SUBSET Ops /\ Distinct(Buffered(t, k))
        /\ \A o \in Buffered(t, k) : o.sequence < next_ptfo_sequence
        /\ next_ptfo_sequence \in Nat
    BY RemainingIs DEF BaseInv, TypeInv, WritersOK
  <2>4. View(k) = ViewOf(t, k) /\ View(k) \in seen[r]
    BY <1>1, <1>7, ViewIs DEF ViewIsOwners, BaseInv, TypeInv, WritersOK, Truthful
  <2>5. t <= t
    BY <1>2
  <2>6. CASE Buffered(t, k) = {}
    <3>1. best = {}
      BY <2>2, <2>6 DEF Latest
    <3>2. (copies[k] > 0) \in seen[r]
      BY <2>4, <2>6 DEF ViewOf
    <3> QED
      BY <2>1, <3>1, <3>2 DEF Found
  <2>7. CASE Buffered(t, k) # {}
    <3>1. PICK o \in Buffered(t, k) : Latest(Buffered(t, k)) = {o}
      BY <2>3, <2>7, LatestExists
    <3>2. o.is_delete \in BOOLEAN
      BY <2>3 DEF Ops
    <3>3. ViewOf(t, k) = ~o.is_delete
      BY <2>7, <3>1, <3>2 DEF ViewOf, Leaves
    <3>4. (~o.is_delete) \in seen[r]
      BY <2>4, <3>3
    <3>5. best = {o}
      BY <2>2, <3>1
    <3> QED
      BY <1>7, <2>5, <3>4, <3>5 DEF Found
  <2> QED
    BY <2>6, <2>7
<1> QED
  BY <1>6, <1>7

\* A reader's step leaves the other readers alone.
LEMMA ReadsOthers ==
    ASSUME BaseInv, ReadsOK, NEW r \in Readers, NEW q \in Readers \ {r},
           UNCHANGED <<ptfoVars, copies, drainVars>>,
           reader'[q] = reader[q], seen'[q] = seen[q]
    PROVE  ReaderOK(q)'
<1>1. \A k : View(k)' = View(k) /\ Moving(k)' = Moving(k)
  BY ViewSame DEF Moving, TreeMuFree, Owns, drainVars
<1>2. Reading(q)' = Reading(q) /\ \A p : Past(q, p)' = Past(q, p)
  BY DEF Reading, Past
<1>3. ReaderOK(q)
  BY DEF ReadsOK
<1> QED
  BY <1>1, <1>2, <1>3 DEF ReaderOK, Truthful, Owns

\* The steps of contains keep their own answers true.
LEMMA ReadsRead ==
    ASSUME BaseInv, BaseInv', SeenOK, ReadsOK, DRead
    PROVE  ReadsOK'
<1>1. UNCHANGED <<ptfoVars, copies, drainVars>>
  BY DEF DRead, ContainsBegin, ContainsSkip, ContainsWalk, ContainsTree
<1>2. \A k : View(k)' = View(k) /\ Moving(k)' = Moving(k)
  BY <1>1, ViewSame DEF Moving, TreeMuFree, Owns, drainVars
<1>3. /\ reader \in [Readers -> ReaderStates] /\ copies' = copies
      /\ seen \in [Readers -> SUBSET BOOLEAN]
  BY <1>1 DEF BaseInv, TypeInv, ReadersOK, SeenOK
<1>4. ASSUME NEW r \in Readers, NEW k \in Keys, ContainsBegin(r, k),
             seen' = [seen EXCEPT ![r] = {View(k)}]
      PROVE  ReadsOK'
  <2>1. /\ reader'[r] = [phase |-> "scan", key |-> k, tid |-> 0, best |-> {}, result |-> FALSE]
        /\ reader' = [reader EXCEPT ![r] = reader'[r]]
        /\ seen'[r] = {View(k)}
    BY <1>3, <1>4 DEF ContainsBegin
  <2>2. \A p \in Producers : ~Past(r, p)'
    BY <2>1 DEF Past, Producers
  <2>3. (\A p \in Producers : ~Owns(p, k)) => View(k) = (copies[k] > 0)
    BY ViewBoth
  <2>4. Truthful(r, k)'
    BY <1>2, <1>3, <2>1, <2>2, <2>3 DEF Truthful, Owns
  <2>5. ReaderOK(r)'
    BY <2>1, <2>4 DEF ReaderOK, Reading
  <2> QED
    BY <1>1, <1>3, <1>4, <2>1, <2>5, ReadsOthers DEF ReadsOK
<1>5. ASSUME NEW r \in Readers, ContainsSkip(r) \/ ContainsWalk(r) \/ ContainsTree(r),
             seen' = [seen EXCEPT ![r] = IF Reading(r)' THEN @ ELSE {}]
      PROVE  ReadsOK'
  <2>1. ReaderOK(r)'
    <3>1. seen'[r] = IF Reading(r)' THEN seen[r] ELSE {}
      BY <1>3, <1>5
    <3>2. CASE ~Reading(r)'
      BY <3>1, <3>2 DEF ReaderOK
    <3>3. CASE Reading(r)'
      <4>1. reader[r].phase = "scan" /\ reader[r].tid \in Producers /\ reader[r].key \in Keys
        BY <1>3, <1>5, <3>3 DEF ContainsSkip, ContainsWalk, ContainsTree, Returned, Reading,
                                BaseInv, TypeInv, ReadersOK
      <4>2. PICK k \in Keys, t \in Producers : k = reader[r].key /\ t = reader[r].tid
        BY <4>1
      <4>3. PICK best : /\ reader'[r] = AfterTid(reader[r], best)
                        /\ \/ k \notin hash[t] /\ best = reader[r].best
                           \/ best = Latest(reader[r].best \cup Buffered(t, k))
        BY <1>3, <1>5, <4>1, <4>2 DEF ContainsSkip, ContainsWalk, ContainsTree
      <4>4. Found(r, k, t, best)
        BY <4>1, <4>2, <4>3, ScanResult
      <4>5. Truthful(r, k) /\ reader[r] \in ReaderStates
        BY <1>3, <4>1, <4>2 DEF ReadsOK, ReaderOK, Reading
      <4>6. seen'[r] = seen[r] /\ View(k)' \in seen'[r] /\ Moving(k)' = Moving(k)
        BY <1>2, <3>1, <3>3, <4>5 DEF Truthful
      <4>7. \A p \in Producers : p \in Int /\ t \in Int /\ p < NProducers /\ NProducers \in Int
        BY ConstantsAssumption DEF Producers
      <4>8. CASE t + 1 < NProducers
        <5>1. /\ reader'[r].phase = "scan" /\ reader'[r].tid = t + 1 /\ reader'[r].best = best
              /\ reader'[r].key = k /\ reader'[r].result = FALSE
          BY <4>2, <4>3, <4>5, <4>8, <4>1 DEF AfterTid, ReaderStates, Truthful
        <5>2. \A p \in Producers : Past(r, p)' <=> p <= t
          BY <4>7, <5>1 DEF Past
        <5>3. Truthful(r, k)'
          BY <1>3, <4>4, <4>6, <5>1, <5>2 DEF Truthful, Found, Owns
        <5> QED
          BY <3>3, <5>1, <5>3 DEF ReaderOK
      <4>9. CASE ~(t + 1 < NProducers)
        <5>1. best = {}
          BY <3>3, <4>2, <4>3, <4>9 DEF AfterTid, Returned, Reading
        <5>2. /\ reader'[r].phase = "tree" /\ reader'[r].best = {}
              /\ reader'[r].key = k /\ reader'[r].result = FALSE
          BY <4>2, <4>3, <4>4, <4>5, <4>9, <5>1 DEF AfterTid, ReaderStates, Truthful, Found
        <5>3. \A p \in Producers : p <= t
          BY <4>7, <4>9
        <5>4. Truthful(r, k)'
          BY <1>3, <4>4, <4>6, <5>1, <5>2, <5>3 DEF Truthful, Found
        <5> QED
          BY <3>3, <5>2, <5>4 DEF ReaderOK
      <4> QED
        BY <4>8, <4>9
    <3> QED
      BY <3>2, <3>3
  <2>2. \A q \in Readers \ {r} : reader'[q] = reader[q] /\ seen'[q] = seen[q]
    BY <1>3, <1>5 DEF ContainsSkip, ContainsWalk, ContainsTree
  <2> QED
    BY <1>1, <2>1, <2>2, ReadsOthers DEF ReadsOK
<1> QED
  BY <1>4, <1>5 DEF DRead

\* Readers are followed with sets of Booleans.
LEMMA SeenStep == SeenOK /\ [DNext]_dvars => SeenOK'
<1> SUFFICES ASSUME SeenOK, [DNext]_dvars PROVE SeenOK'
  OBVIOUS
<1>1. ASSUME NEW k, NEW present \in BOOLEAN, seen' = Saw(k, present) PROVE SeenOK'
  BY <1>1 DEF SeenOK, Saw
<1>2. ASSUME NEW r \in Readers, NEW s \in SUBSET BOOLEAN, seen' = [seen EXCEPT ![r] = s]
      PROVE  SeenOK'
  BY <1>2 DEF SeenOK
<1>3. ASSUME UNCHANGED seen PROVE SeenOK'
  BY <1>3 DEF SeenOK
<1>4. ASSUME NEW p \in Producers, seen' = Saw(cur[p].key, ~cur[p].is_delete) PROVE SeenOK'
  <2>1. (~cur[p].is_delete) \in BOOLEAN
    OBVIOUS
  <2> QED
    BY <1>4, <2>1 DEF SeenOK, Saw
<1>5. ASSUME NEW r \in Readers, NEW k \in Keys, seen' = [seen EXCEPT ![r] = {View(k)}]
      PROVE  SeenOK'
  <2>1. View(k) \in BOOLEAN
    BY ViewType
  <2> QED
    BY <1>2, <1>5, <2>1
<1>6. ASSUME NEW r \in Readers, seen' = [seen EXCEPT ![r] = IF Reading(r)' THEN @ ELSE {}]
      PROVE  SeenOK'
  BY <1>6 DEF SeenOK
<1>7. CASE DWrite
  BY <1>1, <1>3, <1>4, <1>7 DEF DWrite
<1>8. CASE DRead
  BY <1>5, <1>6, <1>8 DEF DRead
<1> QED
  BY <1>3, <1>7, <1>8 DEF DNext, dvars

\* Every step keeps the answers of readers true.
LEMMA ReadsStep ==
    BaseInv /\ BaseInv' /\ KeysOK /\ SeenOK /\ ReadsOK /\ [DNext]_dvars => ReadsOK'
<1> SUFFICES ASSUME BaseInv, BaseInv', KeysOK, SeenOK, ReadsOK, [DNext]_dvars
             PROVE  ReadsOK'
  OBVIOUS
<1>1. CASE UNCHANGED dvars
  <2>1. /\ UNCHANGED <<ptfoVars, copies, drainVars>> /\ reader' = reader /\ seen' = seen
        /\ TypeInv
    BY <1>1 DEF dvars, vars, BaseInv
  <2>2. \A k : View(k)' = View(k) /\ Moving(k)' = Moving(k)
    BY <2>1, ViewSame DEF Moving, TreeMuFree, Owns, drainVars
  <2>3. \A r \in Readers, k \in Keys : Reading(r) /\ k = reader[r].key => View(k) \in seen[r]
    BY DEF ReadsOK, ReaderOK, Truthful
  <2> QED
    BY <2>1, <2>2, <2>3, ReadsStay
<1> QED
  BY <1>1, ReadsWrite, ReadsDrain, ReadsRead DEF DNext

\* Nobody is reading at first.
LEMMA ReadsInit == DInit => SeenOK /\ ReadsOK
BY DEF DInit, Init, SeenOK, ReadsOK, ReaderOK, Reading

\* The invariant holds throughout.
LEMMA RefineInvariant == DSpec => []RefineInv
<1>1. DInit => RefineInv
  BY BaseInit, KeysInit, ReadsInit DEF DInit, RefineInv
<1>2. RefineInv /\ [DNext]_dvars => RefineInv'
  BY StepIsStep, BaseStep, KeysStep, SeenStep, ReadsStep DEF RefineInv
<1> QED
  BY <1>1, <1>2, PTL DEF DSpec

-----------------------------------------------------------------------------
(* Every step is a step of the atomic index, or none. *)

IndexContents == {k \in Keys : View(k)}

IndexReads ==
    [r \in Readers |-> [key    |-> IF Reading(r) THEN reader[r].key ELSE NoOp,
                        seen   |-> seen[r],
                        answer |-> reader[r].result]]

\* Nothing the clients can tell apart changes.
LEMMA RefineStutter ==
    ASSUME \A k \in Keys : View(k)' = View(k), reader' = reader, seen' = seen
    PROVE  IndexContents' = IndexContents /\ IndexReads' = IndexReads
<1>1. IndexContents' = IndexContents
  BY DEF IndexContents
<1>2. IndexReads' = IndexReads
  BY DEF IndexReads, Reading
<1> QED
  BY <1>1, <1>2

\* A write: x becomes present or absent, and readers of x may see it.
LEMMA RefineWrite ==
    ASSUME NEW x \in Keys, NEW present \in BOOLEAN,
           \A k \in Keys : View(k)' = IF k = x THEN present ELSE View(k),
           reader' = reader, seen' = Saw(x, present)
    PROVE  Index!Write(x, present)
<1>1. IndexContents' = IF present THEN IndexContents \cup {x} ELSE IndexContents \ {x}
  BY DEF IndexContents
<1>2. NoOp # x
  BY DisjointAssumption
<1>3. IndexReads' = [r \in Readers |-> IF IndexReads[r].key = x
                                       THEN [IndexReads[r] EXCEPT !.seen = @ \cup {present}]
                                       ELSE IndexReads[r]]
  <2> SUFFICES ASSUME NEW r \in Readers
               PROVE  IndexReads'[r] = IF IndexReads[r].key = x
                                       THEN [IndexReads[r] EXCEPT !.seen = @ \cup {present}]
                                       ELSE IndexReads[r]
    BY DEF IndexReads
  <2>1. IndexReads[r].key = x <=> Reading(r) /\ reader[r].key = x
    BY <1>2 DEF IndexReads
  <2>2. seen'[r] = IF Reading(r) /\ reader[r].key = x THEN seen[r] \cup {present} ELSE seen[r]
    BY DEF Saw
  <2>3. IndexReads'[r] = [key |-> IF Reading(r) THEN reader[r].key ELSE NoOp,
                          seen |-> seen'[r], answer |-> reader[r].result]
    BY DEF IndexReads, Reading
  <2> QED
    BY <2>1, <2>2, <2>3 DEF IndexReads
<1> QED
  BY <1>1, <1>3 DEF Index!Write, IndexContents, IndexReads

\* contains is called.
LEMMA RefineBegin ==
    ASSUME BaseInv, SeenOK, NEW r \in Readers, NEW k \in Keys, ContainsBegin(r, k),
           seen' = [seen EXCEPT ![r] = {View(k)}]
    PROVE  Index!BeginRead(r, k)
<1>1. \A x \in Keys : View(x)' = View(x)
  BY ViewSame DEF ContainsBegin
<1>2. IndexContents' = IndexContents
  BY <1>1 DEF IndexContents
<1>3. /\ ~Reading(r)
      /\ reader' = [reader EXCEPT ![r] = [phase |-> "scan", key |-> k, tid |-> 0,
                                          best |-> {}, result |-> FALSE]]
      /\ reader \in [Readers -> ReaderStates] /\ seen \in [Readers -> SUBSET BOOLEAN]
  BY DEF ContainsBegin, Reading, BaseInv, TypeInv, ReadersOK, SeenOK
<1>4. IndexReads[r].key = NoOp
  BY <1>3 DEF IndexReads
<1>5. (k \in IndexContents) = View(k)
  <2>1. (k \in IndexContents) <=> View(k)
    BY DEF IndexContents
  <2>2. View(k) \in BOOLEAN
    BY ViewType
  <2> QED
    BY <2>1, <2>2
<1>6. IndexReads' = [IndexReads EXCEPT ![r] = [key |-> k, seen |-> {(k \in IndexContents)},
                                               answer |-> FALSE]]
  <2> SUFFICES ASSUME NEW q \in Readers
               PROVE  IndexReads'[q] = IF q = r THEN [key |-> k, seen |-> {View(k)}, answer |-> FALSE]
                                       ELSE IndexReads[q]
    BY <1>5 DEF IndexReads
  <2>1. CASE q = r
    BY <1>3, <2>1 DEF IndexReads, Reading
  <2>2. CASE q # r
    BY <1>3, <2>2 DEF IndexReads, Reading
  <2> QED
    BY <2>1, <2>2
<1> QED
  BY <1>2, <1>4, <1>6 DEF Index!BeginRead, IndexContents, IndexReads

\* contains goes on, which no client sees, or returns.
LEMMA RefineRead ==
    ASSUME BaseInv, SeenOK, ReadsOK, NEW r \in Readers,
           ContainsSkip(r) \/ ContainsWalk(r) \/ ContainsTree(r),
           seen' = [seen EXCEPT ![r] = IF Reading(r)' THEN @ ELSE {}]
    PROVE  Index!EndRead(r) \/ (IndexContents' = IndexContents /\ IndexReads' = IndexReads)
<1>1. UNCHANGED <<ptfoVars, copies>>
  BY DEF ContainsSkip, ContainsWalk, ContainsTree
<1>2. IndexContents' = IndexContents
  BY <1>1, ViewSame DEF IndexContents
<1>3. /\ reader \in [Readers -> ReaderStates] /\ seen \in [Readers -> SUBSET BOOLEAN]
      /\ seen'[r] = IF Reading(r)' THEN seen[r] ELSE {}
      /\ \A q \in Readers \ {r} : reader'[q] = reader[q] /\ seen'[q] = seen[q]
  BY DEF ContainsSkip, ContainsWalk, ContainsTree, BaseInv, TypeInv, ReadersOK, SeenOK
<1>4. PICK k \in Keys : k = reader[r].key /\ Truthful(r, k)
  BY DEF ContainsSkip, ContainsWalk, ContainsTree, BaseInv, TypeInv, ReadersOK, ReadsOK,
         ReaderOK, Reading
<1>5. Reading(r) /\ reader[r] \in ReaderStates
  BY <1>3 DEF ContainsSkip, ContainsWalk, ContainsTree, Reading
<1>6. ASSUME NEW answer \in seen[r], reader'[r] = Returned(answer) PROVE Index!EndRead(r)
  <2>1. ~Reading(r)' /\ seen'[r] = {}
    BY <1>3, <1>6 DEF Returned, Reading
  <2>2. IndexReads' = [IndexReads EXCEPT ![r] = [key |-> NoOp, seen |-> {}, answer |-> answer]]
    <3> SUFFICES ASSUME NEW q \in Readers
                 PROVE  IndexReads'[q] = IF q = r THEN [key |-> NoOp, seen |-> {}, answer |-> answer]
                                         ELSE IndexReads[q]
      BY DEF IndexReads
    <3>1. CASE q = r
      BY <1>6, <2>1, <3>1 DEF IndexReads, Returned
    <3>2. CASE q # r
      BY <1>3, <3>2 DEF IndexReads, Reading
    <3> QED
      BY <3>1, <3>2
  <2>3. IndexReads[r].seen = seen[r]
    BY DEF IndexReads
  <2> QED
    BY <1>2, <1>6, <2>2, <2>3 DEF Index!EndRead, Index!NotReading, IndexContents, IndexReads
<1>7. CASE ContainsTree(r)
  <2>1. reader[r].phase = "tree" /\ TreeMuFree /\ reader'[r] = Returned(copies[k] > 0)
    BY <1>3, <1>4, <1>7 DEF ContainsTree
  <2>2. (copies[k] > 0) \in seen[r]
    BY <1>4, <2>1 DEF Truthful, Past, Moving
  <2> QED
    BY <1>6, <2>1, <2>2
<1>8. CASE ContainsSkip(r) \/ ContainsWalk(r)
  <2>1. reader[r].phase = "scan" /\ reader[r].tid \in Producers
    BY <1>8 DEF ContainsSkip, ContainsWalk, BaseInv, TypeInv, ReadersOK
  <2>2. PICK t \in Producers : t = reader[r].tid
    BY <2>1
  <2>3. PICK best : /\ reader'[r] = AfterTid(reader[r], best)
                    /\ \/ k \notin hash[t] /\ best = reader[r].best
                       \/ best = Latest(reader[r].best \cup Buffered(t, k))
    BY <1>3, <1>4, <1>8, <2>1, <2>2 DEF ContainsSkip, ContainsWalk
  <2>4. Found(r, k, t, best)
    BY <1>4, <2>1, <2>2, <2>3, ScanResult
  <2>5. CASE ~(t + 1 < NProducers) /\ best # {}
    <3>1. PICK o \in best : best = {o} /\ (~o.is_delete) \in seen[r]
      BY <2>4, <2>5 DEF Found
    <3>2. (\E x \in best : ~x.is_delete) = ~o.is_delete
      BY <3>1
    <3>3. reader'[r] = Returned(\E x \in best : ~x.is_delete)
      BY <2>2, <2>3, <2>5 DEF AfterTid
    <3> QED
      BY <1>6, <3>1, <3>2, <3>3
  <2>6. CASE t + 1 < NProducers \/ best = {}
    <3>1. /\ reader'[r].key = reader[r].key /\ reader'[r].result = reader[r].result
          /\ reader'[r].phase \in {"scan", "tree"}
      <4>1. CASE t + 1 < NProducers
        <5>1. reader'[r] = [reader[r] EXCEPT !.tid = t + 1, !.best = best]
          BY <2>2, <2>3, <4>1 DEF AfterTid
        <5> QED
          BY <1>5, <2>1, <5>1 DEF ReaderStates
      <4>2. CASE ~(t + 1 < NProducers) /\ best = {}
        <5>1. reader'[r] = [reader[r] EXCEPT !.tid = t + 1, !.phase = "tree"]
          BY <2>2, <2>3, <4>2 DEF AfterTid
        <5> QED
          BY <1>5, <5>1 DEF ReaderStates
      <4> QED
        BY <2>6, <4>1, <4>2
    <3>2. Reading(r)' /\ seen' = seen
      BY <1>3, <3>1 DEF Reading
    <3>3. IndexReads' = IndexReads
      <4> SUFFICES ASSUME NEW q \in Readers PROVE IndexReads'[q] = IndexReads[q]
        BY DEF IndexReads
      <4>1. CASE q = r
        BY <1>5, <3>1, <3>2, <4>1 DEF IndexReads
      <4>2. CASE q # r
        BY <1>3, <4>2 DEF IndexReads, Reading
      <4> QED
        BY <4>1, <4>2
    <3> QED
      BY <1>2, <3>3
  <2> QED
    BY <2>5, <2>6
<1> QED
  BY <1>7, <1>8

\* Every step is one write, one call or return of a read, or invisible.
LEMMA RefineStep ==
    RefineInv /\ RefineInv' /\ [DNext]_dvars => [Index!Next]_<<IndexContents, IndexReads>>
<1> SUFFICES ASSUME BaseInv, BaseInv', KeysOK, SeenOK, ReadsOK, [DNext]_dvars
             PROVE  Index!Next \/ (IndexContents' = IndexContents /\ IndexReads' = IndexReads)
  BY DEF RefineInv
<1>1. ASSUME UNCHANGED <<ptfoVars, copies, reader, seen>>
      PROVE  IndexContents' = IndexContents /\ IndexReads' = IndexReads
  BY <1>1, ViewSame, RefineStutter
<1>2. CASE UNCHANGED dvars
  BY <1>1, <1>2 DEF dvars, vars
<1>3. ASSUME NEW x \in Keys, warmup_insert(x), seen' = Saw(x, TRUE) PROVE Index!Next
  <2>1. ASSUME NEW k \in Keys PROVE View(k)' = IF k = x THEN TRUE ELSE View(k)
    <3>1. /\ View(k) = (copies[k] > 0) /\ View(k)' = (copies'[k] > 0)
          /\ copies'[k] = IF k = x THEN 1 ELSE copies[k]
      BY <1>3, WarmupEffect
    <3>2. CASE k = x
      <4>1. copies'[k] = 1 /\ (copies'[k] > 0) = TRUE
        BY <3>1, <3>2
      <4> QED
        BY <3>1, <3>2, <4>1, Zenon
    <3>3. CASE k # x
      BY <3>1, <3>3, Zenon
    <3> QED
      BY <3>2, <3>3
  <2>2. Index!Write(x, TRUE)
    BY <1>3, <2>1, RefineWrite DEF warmup_insert
  <2> QED
    BY <2>2 DEF Index!Next
<1>4. ASSUME NEW p \in Producers, future_insert(p), seen' = Saw(cur[p].key, ~cur[p].is_delete)
      PROVE  Index!Next
  <2>1. cur[p].key \in Keys /\ cur[p].is_delete \in BOOLEAN
    BY <1>4 DEF future_insert, BaseInv, TypeInv, WritersOK, Ops
  <2>2. PICK x \in Keys, present \in BOOLEAN : x = cur[p].key /\ present = ~cur[p].is_delete
    BY <2>1
  <2>3. \A k \in Keys : View(k)' = IF k = x THEN present ELSE View(k)
    BY <1>4, <2>2, ViewAppend
  <2>4. Index!Write(x, present)
    BY <1>4, <2>2, <2>3, RefineWrite DEF future_insert
  <2> QED
    BY <2>4 DEF Index!Next
<1>5. CASE DWrite
  BY <1>1, <1>3, <1>4, <1>5 DEF DWrite, FetchSequence, Account
<1>6. CASE Drain /\ UNCHANGED seen
  <2>1. reader' = reader
    BY <1>6 DEF Drain, drain_pending, EvaluatorDrain, StartDrain, AcquirePtfoLock,
                CollectLookupEntries, CollectOps, ReplayOp, ClearAndRelease, FinishDrain
  <2> QED
    BY <1>6, <2>1, ViewDrain, RefineStutter
<1>7. CASE DRead
  BY <1>7, RefineBegin, RefineRead DEF DRead, Index!Next
<1> QED
  BY <1>2, <1>5, <1>6, <1>7 DEF DNext

\* The index starts empty.
LEMMA RefineInit == DInit => Index!Init
<1> SUFFICES ASSUME DInit PROVE Index!Init
  OBVIOUS
<1>1. \A k \in Keys : ~View(k)
  BY DEF DInit, Init, View, Latest
<1>2. IndexContents = {}
  BY <1>1 DEF IndexContents
<1>3. IndexReads = [r \in Readers |-> [key |-> NoOp, seen |-> {}, answer |-> FALSE]]
  BY DEF DInit, Init, IndexReads, Reading
<1> QED
  BY <1>2, <1>3 DEF Index!Init, Index!NotReading, IndexContents, IndexReads

\* With disjoint producers, hashtables that hold their keys and a policy that
\* replays whole chains, the F3-tree is an atomic index (ImplementsAtomicIndex)
\* whatever the numbers of producers, evaluators, readers, keys and
\* operations: writes show from the moment future_insert has put them in a
\* chain, drains never show, contains answers with a truth of its call.
THEOREM DisjointIsAtomic == DSpec => ImplementsAtomicIndex
<1>1. DInit => Index!Init
  BY RefineInit
<1>2. RefineInv /\ RefineInv' /\ [DNext]_dvars => [Index!Next]_<<IndexContents, IndexReads>>
  BY RefineStep
<1> QED
  BY <1>1, <1>2, RefineInvariant, PTL
  DEF DSpec, ImplementsAtomicIndex, Index!Spec, IndexContents, IndexReads

=============================================================================

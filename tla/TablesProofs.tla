----------------------------- MODULE TablesProofs -----------------------------
(***************************************************************************)
(* Theorems about the open-addressing tables of MCTables, for any number   *)
(* of slots, keys and operations.                                          *)
(***************************************************************************)
EXTENDS MCTables, FiniteSetTheorems, NatSetTheorems

-----------------------------------------------------------------------------
(* Probing.  The i-th slot from h, wrapping around at c: every slot is met *)
(* exactly once in c steps.                                                *)

Wrap(n, c) == IF n < c THEN n ELSE n - c

\* The remainder of a number that has wrapped at most twice.
LEMMA ModWrap ==
    ASSUME NEW c \in Nat \ {0}, NEW n \in Nat, n < 2 * c
    PROVE  n % c = Wrap(n, c) /\ (n + c) % c = Wrap(n, c)
<1>1. ASSUME NEW m \in Nat, NEW q \in Nat, NEW r \in 0 .. (c - 1), m = q * c + r
      PROVE  m % c = r
  BY <1>1
<1>2. CASE n < c
  BY <1>1, <1>2 DEF Wrap
<1>3. CASE ~(n < c)
  BY <1>1, <1>3 DEF Wrap
<1> QED
  BY <1>2, <1>3

\* Remainders are slots, of negative numbers too.
LEMMA ModRange ==
    ASSUME NEW c \in Nat \ {0}, NEW n \in Int
    PROVE  n % c \in 0 .. (c - 1)
OBVIOUS

\* Wrapped probing from h is a permutation of the slots.
LEMMA WrapPermutes ==
    ASSUME NEW c \in Nat \ {0}, NEW h \in 0 .. (c - 1)
    PROVE  /\ \A i \in 0 .. (c - 1) : Wrap(h + i, c) \in 0 .. (c - 1)
           /\ \A i, j \in 0 .. (c - 1) : Wrap(h + i, c) = Wrap(h + j, c) => i = j
           /\ \A s \in 0 .. (c - 1) : \E i \in 0 .. (c - 1) : s = Wrap(h + i, c)
           /\ Wrap(h + 0, c) = h
<1>1. ASSUME NEW s \in 0 .. (c - 1) PROVE \E i \in 0 .. (c - 1) : s = Wrap(h + i, c)
  <2>1. CASE s >= h
    <3>1. s - h \in 0 .. (c - 1) /\ s = Wrap(h + (s - h), c)
      BY <2>1 DEF Wrap
    <3> QED
      BY <3>1
  <2>2. CASE ~(s >= h)
    <3>1. (s + c) - h \in 0 .. (c - 1) /\ s = Wrap(h + ((s + c) - h), c)
      BY <2>2 DEF Wrap
    <3> QED
      BY <3>1
  <2> QED
    BY <2>1, <2>2
<1> QED
  BY <1>1 DEF Wrap

\* So is the probe path of a key in the hashtable.
LEMMA ProbePermutes ==
    ASSUME NEW k \in TableKeys
    PROVE  /\ \A i \in Slots : Probe(k, i) \in Slots
           /\ \A i, j \in Slots : Probe(k, i) = Probe(k, j) => i = j
           /\ \A s \in Slots : \E i \in Slots : s = Probe(k, i)
           /\ 0 \in Slots /\ Probe(k, 0) = HashFunc(k)
<1> DEFINE h == HashFunc(k)
<1>1. Capacity \in Nat \ {0} /\ k \in Int
  BY TablesAssumption
<1>2. h \in 0 .. (Capacity - 1)
  <2>1. Abs(k) \in Int
    BY <1>1 DEF Abs
  <2> QED
    BY <1>1, <2>1, ModRange DEF HashFunc
<1> HIDE DEF h
<1>3. \A i \in Slots : (h + i) % Capacity = Wrap(h + i, Capacity)
  BY <1>1, <1>2, ModWrap DEF Slots
<1>4. \A i \in Slots : Probe(k, i) = Wrap(h + i, Capacity)
  BY <1>3 DEF Probe, h
<1>5. 0 \in Slots
  BY <1>1 DEF Slots
<1>6. Probe(k, 0) = h
  BY <1>1, <1>2, <1>4, <1>5, WrapPermutes
<1>7. /\ \A i \in Slots : Wrap(h + i, Capacity) \in Slots
      /\ \A i, j \in Slots : Wrap(h + i, Capacity) = Wrap(h + j, Capacity) => i = j
      /\ \A s \in Slots : \E i \in Slots : s = Wrap(h + i, Capacity)
  BY <1>1, <1>2, WrapPermutes, Zenon DEF Slots
<1> QED
  BY <1>4, <1>5, <1>6, <1>7 DEF h

\* The same of the directory.
LEMMA DirProbePermutes ==
    ASSUME NEW k \in TableKeys
    PROVE  /\ \A i \in Slots : DirProbe(k, i) \in Slots
           /\ \A i, j \in Slots : DirProbe(k, i) = DirProbe(k, j) => i = j
           /\ \A s \in Slots : \E i \in Slots : s = DirProbe(k, i)
<1> DEFINE h == k % Capacity
<1>1. Capacity \in Nat \ {0} /\ k \in Int
  BY TablesAssumption
<1>2. h \in 0 .. (Capacity - 1)
  BY <1>1, ModRange
<1> HIDE DEF h
<1>3. \A i \in Slots : ((h + i) + Capacity) % Capacity = Wrap(h + i, Capacity)
  BY <1>1, <1>2, ModWrap DEF Slots
<1>4. \A i \in Slots : (h + Capacity) + i = (h + i) + Capacity
  BY <1>1, <1>2 DEF Slots
<1>5. \A i \in Slots : DirProbe(k, i) = Wrap(h + i, Capacity)
  BY <1>3, <1>4 DEF DirProbe, h
<1>6. /\ \A i \in Slots : Wrap(h + i, Capacity) \in Slots
      /\ \A i, j \in Slots : Wrap(h + i, Capacity) = Wrap(h + j, Capacity) => i = j
      /\ \A s \in Slots : \E i \in Slots : s = Wrap(h + i, Capacity)
  BY <1>1, <1>2, WrapPermutes, Zenon DEF Slots
<1> QED
  BY <1>5, <1>6

\* The first and the last of a set of steps of a probe.
LEMMA FirstAndLast ==
    ASSUME NEW c \in Nat, NEW T \in SUBSET (0 .. (c - 1)), T # {}
    PROVE  /\ Min(T) \in T /\ \A i \in T : Min(T) <= i
           /\ Max(T) \in T /\ \A i \in T : i <= Max(T)
<1>1. T \in SUBSET Nat /\ \A n \in T : n <= c
  OBVIOUS
<1>2. \E n \in T : \A m \in T : n <= m
  BY <1>1, LeastNatural
<1>3. \E n \in T : \A m \in T : m <= n
  BY <1>1, GreatestNatural
<1>4. Min(T) \in T /\ \A i \in T : Min(T) <= i
  BY <1>2 DEF Min
<1>5. Max(T) \in T /\ \A i \in T : Max(T) >= i
  <2>1. \E n \in T : \A m \in T : n >= m
    BY <1>1, <1>3
  <2> QED
    BY <2>1 DEF Max
<1> QED
  BY <1>1, <1>4, <1>5

-----------------------------------------------------------------------------
(* The hashtable. *)

\* Free slots, tombstones and the entries of the keys are all different.
LEMMA SlotKinds ==
    /\ NULL # DelNode
    /\ \A k : Entry(k) # NULL /\ Entry(k) # DelNode
    /\ \A k, x : Entry(k) = Entry(x) => k = x
<1>1. NULL.tag = "null" /\ DelNode.tag = "del"
  BY DEF NULL, DelNode
<1>2. \A k : Entry(k).tag = "entry" /\ Entry(k).k = k
  BY DEF Entry
<1> QED
  BY <1>1, <1>2

\* A key is in at most one slot, and its probe passes no free slot before it.
HtOK ==
    /\ ht \in [Slots -> {NULL, DelNode} \cup {Entry(k) : k \in TableKeys}]
    /\ \A k \in TableKeys : \A s, t \in Slots : ht[s] = Entry(k) /\ ht[t] = Entry(k) => s = t
    /\ \A k \in TableKeys : \A i, j \in Slots :
          ht[Probe(k, i)] = Entry(k) /\ j < i => ht[Probe(k, j)] # NULL

InTable(k) == \E s \in Slots : ht[s] = Entry(k)

SearchIsInTable == HtOK => \A k \in TableKeys : SearchKey(k) <=> InTable(k)

\* So a search with nobody writing finds what is there.
LEMMA SearchIs == SearchIsInTable
<1> SUFFICES ASSUME HtOK, NEW k \in TableKeys PROVE SearchKey(k) <=> InTable(k)
  BY DEF SearchIsInTable
<1>1. Stops(k) # {} => /\ Min(Stops(k)) \in Stops(k)
                       /\ \A i \in Stops(k) : Min(Stops(k)) <= i
  BY FirstAndLast, TablesAssumption DEF Stops, Slots
<1>2. \A i \in Slots : i \in Int /\ Probe(k, i) \in Slots
  BY ProbePermutes DEF Slots
<1>3. SearchKey(k) => InTable(k)
  BY <1>1, <1>2 DEF SearchKey, Stops, InTable
<1>4. ASSUME InTable(k) PROVE SearchKey(k)
  <2>1. PICK i \in Slots : ht[Probe(k, i)] = Entry(k)
    BY <1>4, ProbePermutes DEF InTable
  <2>2. i \in Stops(k)
    BY <2>1 DEF Stops, StopsAt
  <2> DEFINE m == Min(Stops(k))
  <2>3. m \in Slots /\ m <= i /\ ht[Probe(k, m)] \in {NULL, Entry(k)}
    BY <1>1, <2>2 DEF Stops, StopsAt
  <2> HIDE DEF m
  <2>4. ht[Probe(k, m)] = Entry(k)
    <3>1. CASE m < i
      BY <2>1, <2>3, <3>1 DEF HtOK
    <3>2. CASE m = i
      BY <2>1, <3>2
    <3> QED
      BY <1>2, <2>3, <3>1, <3>2
  <2> QED
    BY <2>2, <2>4 DEF SearchKey, m
<1> QED
  BY <1>3, <1>4

\* The same after a step.
LEMMA SearchIsNext == SearchIsInTable'
BY SearchIs, PTL

\* Insert finds no slot of its key and none it may take.
FullOfOthers(k) == Stops(k) = {} /\ Passed(k) = {}

\* No slot is free or a tombstone.
HtFull == \A t \in Slots : ht[t] \notin {NULL, DelNode}

\* Where Insert writes: over its key; or, if the key is not there, in a slot
\* nobody uses that its probe reaches; or in the first slot of a full table.
LEMMA InsertTarget ==
    ASSUME HtOK, NEW k \in TableKeys, NEW s, s = InsertSlot(k)
    PROVE  /\ s \in Slots
           /\ InTable(k) => ht[s] = Entry(k)
           /\ ~InTable(k) /\ ~FullOfOthers(k) =>
                 /\ ht[s] \in {NULL, DelNode}
                 /\ \A i, j \in Slots : s = Probe(k, i) /\ j < i => ht[Probe(k, j)] # NULL
           /\ FullOfOthers(k) <=> ~InTable(k) /\ HtFull
           /\ FullOfOthers(k) => s = Probe(k, 0)
<1>1. /\ \A i \in Slots : i \in Int /\ Probe(k, i) \in Slots
      /\ \A t \in Slots : \E i \in Slots : t = Probe(k, i)
      /\ \A i, j \in Slots : Probe(k, i) = Probe(k, j) => i = j
      /\ 0 \in Slots /\ Probe(k, 0) = HashFunc(k)
  BY ProbePermutes DEF Slots
<1>2. /\ Stops(k) # {} => Min(Stops(k)) \in Stops(k) /\ \A i \in Stops(k) : Min(Stops(k)) <= i
      /\ Passed(k) # {} => Max(Passed(k)) \in Passed(k)
  <2>1. Stops(k) \in SUBSET (0 .. (Capacity - 1)) /\ Passed(k) \in SUBSET (0 .. (Capacity - 1))
        /\ Capacity \in Nat
    BY TablesAssumption DEF Stops, Passed, Slots
  <2> QED
    BY <2>1, FirstAndLast
<1>3. InTable(k) <=> \E i \in Slots : ht[Probe(k, i)] = Entry(k)
  BY <1>1 DEF InTable
<1>4. InTable(k) => Stops(k) # {}
  BY <1>3 DEF Stops, StopsAt
<1>5. FullOfOthers(k) <=> ~InTable(k) /\ HtFull
  <2>1. ASSUME FullOfOthers(k) PROVE ~InTable(k) /\ HtFull
    <3>1. \A i \in Slots : ht[Probe(k, i)] \notin {NULL, DelNode}
      BY <2>1 DEF FullOfOthers, Stops, StopsAt, Passed
    <3> QED
      BY <1>1, <1>4, <2>1, <3>1 DEF FullOfOthers, HtFull
  <2>2. ASSUME ~InTable(k), HtFull PROVE FullOfOthers(k)
    BY <1>1, <1>3, <2>2 DEF FullOfOthers, Stops, StopsAt, Passed, HtFull
  <2> QED
    BY <2>1, <2>2
<1>6. CASE InTable(k)
  <2>1. PICK i \in Slots : ht[Probe(k, i)] = Entry(k) /\ s = Probe(k, i)
    BY <1>3, <1>6 DEF InsertSlot
  <2> QED
    BY <1>1, <1>5, <1>6, <2>1
<1>7. CASE ~InTable(k) /\ Passed(k) # {}
  <2>1. s = Probe(k, Max(Passed(k)))
    BY <1>3, <1>7 DEF InsertSlot
  <2>2. PICK m \in Passed(k) : m = Max(Passed(k))
    BY <1>2, <1>7
  <2>3. m \in Slots /\ ht[Probe(k, m)] = DelNode /\ \A j \in Stops(k) : m < j
    BY <2>2 DEF Passed
  <2>4. \A j \in Slots : j < m => ht[Probe(k, j)] # NULL
    BY <1>1, <2>3 DEF Stops, StopsAt
  <2>5. ~FullOfOthers(k)
    BY <1>7 DEF FullOfOthers
  <2> QED
    BY <1>1, <1>5, <1>7, <2>1, <2>2, <2>3, <2>4, <2>5
<1>8. CASE ~InTable(k) /\ Passed(k) = {} /\ Stops(k) # {}
  <2>1. s = Probe(k, Min(Stops(k)))
    BY <1>3, <1>8 DEF InsertSlot
  <2>2. PICK m \in Stops(k) : m = Min(Stops(k))
    BY <1>2, <1>8
  <2>3. m \in Slots /\ ht[Probe(k, m)] = NULL
    BY <1>3, <1>8, <2>2 DEF Stops, StopsAt
  <2>4. \A j \in Slots : j < m => ht[Probe(k, j)] # NULL
    <3> SUFFICES ASSUME NEW j \in Slots, j < m, ht[Probe(k, j)] = NULL PROVE FALSE
      OBVIOUS
    <3>1. j \in Stops(k)
      BY DEF Stops, StopsAt
    <3> QED
      BY <1>1, <1>2, <1>8, <2>2, <2>3, <3>1
  <2>5. ~FullOfOthers(k)
    BY <1>8 DEF FullOfOthers
  <2> QED
    BY <1>1, <1>5, <1>8, <2>1, <2>2, <2>3, <2>4, <2>5
<1>9. CASE ~InTable(k) /\ Passed(k) = {} /\ Stops(k) = {}
  <2>1. s = HashFunc(k) /\ FullOfOthers(k)
    BY <1>3, <1>9 DEF InsertSlot, FullOfOthers
  <2> QED
    BY <1>1, <1>5, <1>9, <2>1
<1> QED
  BY <1>6, <1>7, <1>8, <1>9

\* The table after Insert: the key is there, and the others still are, but
\* for the one that was overwritten in a full table.
LEMMA InsertEffect ==
    ASSUME HtOK, NEW k \in TableKeys, ht' = Insert(k)
    PROVE  /\ HtOK'
           /\ InTable(k)'
           /\ ~FullOfOthers(k) => \A x \in TableKeys : x # k => (InTable(x)' <=> InTable(x))
           /\ FullOfOthers(k) =>
                 \E victim \in TableKeys :
                    /\ InTable(victim)
                    /\ \A x \in TableKeys : x # k => (InTable(x)' <=> InTable(x) /\ x # victim)
           /\ \A x \in TableKeys : \A t \in Slots :
                 InTable(x)' /\ ht[t] = Entry(x) => ht'[t] = Entry(x)
           /\ InTable(k) => ht' = ht
<1>1. PICK s : s = InsertSlot(k)
  OBVIOUS
<1>2. /\ s \in Slots
      /\ InTable(k) => ht[s] = Entry(k)
      /\ ~InTable(k) /\ ~FullOfOthers(k) =>
            /\ ht[s] \in {NULL, DelNode}
            /\ \A i, j \in Slots : s = Probe(k, i) /\ j < i => ht[Probe(k, j)] # NULL
      /\ FullOfOthers(k) <=> ~InTable(k) /\ HtFull
      /\ FullOfOthers(k) => s = Probe(k, 0)
  BY <1>1, InsertTarget
<1>3. ht' = [ht EXCEPT ![s] = Entry(k)]
  BY <1>1 DEF Insert
<1>4. /\ ht'[s] = Entry(k)
      /\ \A t \in Slots : t # s => ht'[t] = ht[t]
      /\ ht' \in [Slots -> {NULL, DelNode} \cup {Entry(x) : x \in TableKeys}]
  BY <1>2, <1>3 DEF HtOK
<1>5. /\ \A x \in TableKeys : \A i \in Slots : Probe(x, i) \in Slots /\ i \in Int
      /\ \A x \in TableKeys : \A t \in Slots : \E i \in Slots : t = Probe(x, i)
      /\ \A x \in TableKeys : \A i, j \in Slots : Probe(x, i) = Probe(x, j) => i = j
      /\ 0 \in Slots /\ \A i \in Slots : ~(i < 0)
  <2>1. 0 \in Slots /\ \A i \in Slots : i \in Int /\ ~(i < 0)
    BY TablesAssumption DEF Slots
  <2> QED
    BY <2>1, ProbePermutes
<1>6. \A t \in Slots : ht[t] # NULL => ht'[t] # NULL
  BY <1>4, SlotKinds
<1>7. \A t \in Slots : ht'[t] = Entry(k) => t = s
  <2> SUFFICES ASSUME NEW t \in Slots, t # s, ht'[t] = Entry(k) PROVE FALSE
    OBVIOUS
  <2>1. ht[t] = Entry(k) /\ InTable(k)
    BY <1>4 DEF InTable
  <2> QED
    BY <1>2, <2>1 DEF HtOK
<1>8. \A x \in TableKeys : \A t \in Slots : x # k => (ht'[t] = Entry(x) <=> ht[t] = Entry(x) /\ t # s)
  BY <1>4, SlotKinds
<1>9. HtOK'
  <2>1. ASSUME NEW x \in TableKeys, NEW t \in Slots, NEW u \in Slots,
               ht'[t] = Entry(x), ht'[u] = Entry(x)
        PROVE  t = u
    <3>1. CASE x = k
      BY <1>7, <2>1, <3>1
    <3>2. CASE x # k
      BY <1>8, <2>1, <3>2 DEF HtOK
    <3> QED
      BY <3>1, <3>2
  <2>2. ASSUME NEW x \in TableKeys, NEW i \in Slots, NEW j \in Slots,
               ht'[Probe(x, i)] = Entry(x), j < i
        PROVE  ht'[Probe(x, j)] # NULL
    <3>1. Probe(x, i) \in Slots /\ Probe(x, j) \in Slots
      BY <1>5
    <3>2. CASE ht[Probe(x, i)] = Entry(x)
      BY <1>6, <2>2, <3>1, <3>2 DEF HtOK
    <3>3. CASE ht[Probe(x, i)] # Entry(x)
      <4>1. x = k /\ s = Probe(k, i) /\ ~InTable(k)
        BY <1>2, <1>7, <1>8, <2>2, <3>1, <3>3
      <4>2. ~FullOfOthers(k)
        BY <1>2, <1>5, <2>2, <4>1
      <4> QED
        BY <1>2, <1>6, <2>2, <3>1, <4>1, <4>2
    <3> QED
      BY <3>2, <3>3
  <2> QED
    BY <1>4, <2>1, <2>2 DEF HtOK, Slots, Probe, HashFunc
<1>10. InTable(k)'
  BY <1>2, <1>4 DEF InTable
<1>11. ASSUME ~FullOfOthers(k), NEW x \in TableKeys, x # k PROVE InTable(x)' <=> InTable(x)
  <2>1. ht[s] # Entry(x)
    BY <1>2, <1>11, SlotKinds
  <2> QED
    BY <1>8, <1>11, <2>1 DEF InTable
<1>12. ASSUME FullOfOthers(k)
       PROVE  \E victim \in TableKeys :
                 /\ InTable(victim)
                 /\ \A x \in TableKeys : x # k => (InTable(x)' <=> InTable(x) /\ x # victim)
  <2>1. PICK victim \in TableKeys : ht[s] = Entry(victim)
    BY <1>2, <1>12 DEF HtOK, HtFull
  <2>2. \A x \in TableKeys : x # k => (InTable(x)' <=> InTable(x) /\ x # victim)
    BY <1>2, <1>8, <2>1, SlotKinds DEF InTable, HtOK
  <2> QED
    BY <1>2, <2>1, <2>2 DEF InTable
<1>13. ASSUME NEW x \in TableKeys, NEW t \in Slots, InTable(x)', ht[t] = Entry(x)
       PROVE  ht'[t] = Entry(x)
  <2>1. CASE x = k
    <3>1. InTable(k)
      BY <1>13, <2>1 DEF InTable
    <3> QED
      BY <1>2, <1>4, <1>13, <2>1, <3>1
  <2>2. CASE x # k
    <3>1. PICK u \in Slots : ht'[u] = Entry(x)
      BY <1>13 DEF InTable
    <3>2. u = t
      BY <1>8, <1>13, <2>2, <3>1 DEF HtOK
    <3> QED
      BY <3>1, <3>2
  <2> QED
    BY <2>1, <2>2
<1>14. InTable(k) => ht' = ht
  BY <1>2, <1>3 DEF HtOK
<1> QED
  BY <1>9, <1>10, <1>11, <1>12, <1>13, <1>14

\* Remove takes its key out and nothing else.
LEMMA RemoveEffect ==
    ASSUME HtOK, NEW k \in TableKeys, ht' = Remove(k)
    PROVE  /\ HtOK'
           /\ ~InTable(k)'
           /\ \A x \in TableKeys : x # k => (InTable(x)' <=> InTable(x))
           /\ ht' # ht => InTable(k)
<1>1. SearchKey(k) <=> InTable(k)
  BY SearchIs DEF SearchIsInTable
<1>2. CASE ~SearchKey(k)
  <2>1. ht' = ht
    BY <1>2 DEF Remove, SearchKey
  <2>2. HtOK'
    BY <2>1 DEF HtOK, Slots, Probe, HashFunc
  <2> QED
    BY <1>1, <1>2, <2>1, <2>2 DEF InTable
<1>3. CASE SearchKey(k)
  <2>1. PICK s : s = Probe(k, Min(Stops(k)))
    OBVIOUS
  <2>2. ht[s] = Entry(k) /\ ht' = [ht EXCEPT ![s] = DelNode]
    BY <1>3, <2>1 DEF Remove, SearchKey
  <2>3. s \in Slots
    <3>1. Min(Stops(k)) \in Slots
      <4>1. Stops(k) \in SUBSET (0 .. (Capacity - 1)) /\ Stops(k) # {} /\ Capacity \in Nat
        BY <1>3, TablesAssumption DEF Stops, Slots, SearchKey
      <4>2. Min(Stops(k)) \in Stops(k)
        BY <4>1, FirstAndLast
      <4> QED
        BY <4>1, <4>2 DEF Slots
    <3> QED
      BY <2>1, <3>1, ProbePermutes
  <2>4. /\ \A t \in Slots : ht'[t] = IF t = s THEN DelNode ELSE ht[t]
        /\ ht' \in [Slots -> {NULL, DelNode} \cup {Entry(x) : x \in TableKeys}]
    BY <2>2, <2>3 DEF HtOK
  <2>5. \A x \in TableKeys : \A t \in Slots : ht'[t] = Entry(x) => ht[t] = Entry(x)
    BY <2>4, SlotKinds
  <2>6. \A t \in Slots : ht[t] # NULL => ht'[t] # NULL
    BY <2>4, SlotKinds
  <2>7. HtOK'
    <3>1. \A x \in TableKeys : \A t, u \in Slots : ht'[t] = Entry(x) /\ ht'[u] = Entry(x) => t = u
      BY <2>5 DEF HtOK
    <3>2. ASSUME NEW x \in TableKeys, NEW i \in Slots, NEW j \in Slots,
                 ht'[Probe(x, i)] = Entry(x), j < i
          PROVE  ht'[Probe(x, j)] # NULL
      <4>1. Probe(x, i) \in Slots /\ Probe(x, j) \in Slots
        BY ProbePermutes
      <4> QED
        BY <2>5, <2>6, <3>2, <4>1 DEF HtOK
    <3> QED
      BY <2>4, <3>1, <3>2 DEF HtOK, Slots, Probe, HashFunc
  <2>8. ~InTable(k)'
    BY <2>2, <2>3, <2>4, SlotKinds DEF InTable, HtOK
  <2>9. \A x \in TableKeys : x # k => (InTable(x)' <=> InTable(x))
    BY <2>2, <2>3, <2>4, SlotKinds DEF InTable
  <2> QED
    BY <1>1, <1>3, <2>7, <2>8, <2>9
<1> QED
  BY <1>2, <1>3

-----------------------------------------------------------------------------
(* A search beside the writer. *)

SearchStates ==
    [phase : {"idle", "probe", "reread", "hit", "miss"}, key : Int, at : Nat, missing : BOOLEAN]

\* As long as its key has not been out of the table, a search has not come
\* past the slot it is in.
Ahead(k, i) == \E j \in Slots : i <= j /\ ht[Probe(k, j)] = Entry(k)

SearchOK ==
    /\ search \in SearchStates
    /\ search.phase # "idle" => search.key \in TableKeys /\ search.at \in Slots
    /\ search.phase = "probe" => search.missing \/ Ahead(search.key, search.at)
    /\ search.phase = "reread" => search.missing \/ ht[Probe(search.key, search.at)] = Entry(search.key)
    /\ search.phase = "miss" => search.missing

BufferedOK == buffered \in SUBSET [key : TableKeys, sequence : 1 .. MaxSequence]

CoverOK ==
    /\ issued \in 0 .. MaxSequence
    /\ BufferedOK
    /\ overflowed \/ \A b \in buffered : InTable(b.key)

FilterInv == HtOK /\ SearchOK /\ CoverOK

\* The writer does not disturb a search without noticing.
LEMMA SearchInsert ==
    ASSUME HtOK, SearchOK, NEW k \in TableKeys, ht' = Insert(k), Watch
    PROVE  SearchOK'
<1>1. \A x \in TableKeys : \A t \in Slots :
         InTable(x)' /\ ht[t] = Entry(x) => ht'[t] = Entry(x)
  BY InsertEffect
<1>2. /\ search \in SearchStates /\ search' \in SearchStates
      /\ search'.phase = search.phase /\ search'.key = search.key /\ search'.at = search.at
      /\ search'.missing = (search.missing \/ (search.phase # "idle"
                             /\ \A s \in Slots : ht'[s] # Entry(search.key)))
  BY DEF Watch, SearchOK, SearchStates
<1>3. CASE search.phase = "idle"
  BY <1>2, <1>3 DEF SearchOK
<1>4. CASE search.phase # "idle"
  <2>1. PICK x \in TableKeys, i \in Slots : x = search.key /\ i = search.at
    BY <1>4 DEF SearchOK
  <2>2. search.missing => search'.missing
    BY <1>2
  <2>3. ASSUME ~search'.missing PROVE InTable(x)' /\ ~search.missing
    BY <1>2, <1>4, <2>1, <2>3 DEF InTable, Slots
  <2>4. \A j \in Slots : Probe(x, j) \in Slots
    BY ProbePermutes
  <2>5. ASSUME ~search'.missing, Ahead(x, i) PROVE Ahead(x, i)'
    <3>1. PICK j \in Slots : i <= j /\ ht[Probe(x, j)] = Entry(x)
      BY <2>5 DEF Ahead
    <3>2. ht'[Probe(x, j)] = Entry(x)
      BY <1>1, <2>3, <2>4, <2>5, <3>1
    <3> QED
      BY <3>1, <3>2 DEF Ahead, Slots, Probe, HashFunc
  <2>6. ASSUME ~search'.missing, ht[Probe(x, i)] = Entry(x) PROVE ht'[Probe(x, i)] = Entry(x)
    BY <1>1, <2>3, <2>4, <2>6
  <2>7. search'.phase = "probe" => search'.missing \/ Ahead(x, i)'
    BY <1>2, <2>1, <2>2, <2>5 DEF SearchOK
  <2>8. search'.phase = "reread" => search'.missing \/ ht'[Probe(x, i)] = Entry(x)
    BY <1>2, <2>1, <2>2, <2>6 DEF SearchOK
  <2>9. search'.phase = "miss" => search'.missing
    BY <1>2, <2>2 DEF SearchOK
  <2>10. search'.key = x /\ search'.at = i
    BY <1>2, <2>1
  <2>11. Ahead(search.key, search.at)' <=> Ahead(x, i)'
    BY <2>10 DEF Ahead, Slots, Probe, HashFunc
  <2> QED
    BY <1>2, <2>7, <2>8, <2>9, <2>10, <2>11 DEF SearchOK, Slots, Probe, HashFunc
<1> QED
  BY <1>3, <1>4

\* The steps of the search itself.
LEMMA SearchStep ==
    ASSUME HtOK, SearchOK, ht' = ht,
           (\E k \in TableKeys : StartSearch(k)) \/ ReadSlot \/ Reread \/ EndSearch
    PROVE  SearchOK'
<1>1. /\ \A x : \A i : Ahead(x, i)' <=> Ahead(x, i)
      /\ \A x : \A i : Probe(x, i)' = Probe(x, i)
  BY DEF Ahead, Slots, Probe, HashFunc
<1>2. 0 \in Slots /\ \A i \in Slots : i \in Nat
  BY TablesAssumption DEF Slots
<1>3. ASSUME NEW k \in TableKeys, StartSearch(k) PROVE SearchOK'
  <2>1. SearchKey(k) => Ahead(k, 0)
    <3>1. SearchKey(k) => \E s \in Slots : ht[s] = Entry(k)
      BY SearchIs DEF SearchIsInTable, InTable
    <3> QED
      BY <1>2, <3>1, ProbePermutes DEF Ahead
  <2>2. search' = [phase |-> "probe", key |-> k, at |-> 0, missing |-> ~SearchKey(k)]
    BY <1>3 DEF StartSearch
  <2>3. search' \in SearchStates
    BY <2>2, TablesAssumption DEF SearchStates, SearchKey
  <2>4. search'.missing \/ Ahead(k, 0)'
    BY <1>1, <2>1, <2>2
  <2>5. search'.phase = "probe" /\ search'.key = k /\ search'.at = 0
    BY <2>2
  <2>6. search'.missing \/ Ahead(search.key, search.at)'
    BY <2>4, <2>5 DEF Ahead, Slots, Probe, HashFunc
  <2> QED
    BY <1>2, <2>3, <2>5, <2>6 DEF SearchOK, Slots
<1>4. CASE ReadSlot
  <2>1. PICK k \in TableKeys, i \in Slots : k = search.key /\ i = search.at
    BY <1>4 DEF ReadSlot, SearchOK
  <2>2. search \in SearchStates /\ (search.missing \/ Ahead(k, i))
    BY <1>4, <2>1 DEF ReadSlot, SearchOK
  <2>3. ASSUME Ahead(k, i), StopsAt(k, i) PROVE ht[Probe(k, i)] = Entry(k)
    <3>1. PICK j \in Slots : i <= j /\ ht[Probe(k, j)] = Entry(k)
      BY <2>3 DEF Ahead
    <3>2. CASE i < j
      BY <2>3, <3>1, <3>2 DEF HtOK, StopsAt
    <3>3. CASE i = j
      BY <3>1, <3>3
    <3> QED
      BY <1>2, <3>1, <3>2, <3>3
  <2>4. ASSUME Ahead(k, i), ~StopsAt(k, i) PROVE Ahead(k, i + 1) /\ i # Capacity - 1
    <3>1. PICK j \in Slots : i <= j /\ ht[Probe(k, j)] = Entry(k)
      BY <2>4 DEF Ahead
    <3>2. i # j
      BY <2>4, <3>1 DEF StopsAt
    <3>3. i + 1 <= j /\ i # Capacity - 1
      BY <3>1, <3>2, TablesAssumption DEF Slots
    <3> QED
      BY <3>1, <3>3 DEF Ahead
  <2>5. CASE StopsAt(k, i)
    <3>1. search' = [search EXCEPT !.phase = "reread"]
      BY <1>4, <2>1, <2>5 DEF ReadSlot
    <3>2. /\ search' \in SearchStates /\ search'.phase = "reread" /\ search'.key = k
          /\ search'.at = i /\ search'.missing = search.missing
      BY <2>1, <2>2, <3>1 DEF SearchStates
    <3>3. search'.missing \/ ht'[Probe(k, i)] = Entry(k)
      BY <2>2, <2>3, <2>5, <3>2
    <3> QED
      BY <3>2, <3>3 DEF SearchOK, Slots, Probe, HashFunc
  <2>6. CASE ~StopsAt(k, i) /\ i = Capacity - 1
    <3>1. search' = [search EXCEPT !.phase = "miss"]
      BY <1>4, <2>1, <2>6 DEF ReadSlot
    <3>2. search.missing
      BY <2>2, <2>4, <2>6
    <3>3. /\ search' \in SearchStates /\ search'.phase = "miss" /\ search'.key = k
          /\ search'.at = i /\ search'.missing
      BY <2>1, <2>2, <3>1, <3>2 DEF SearchStates
    <3> QED
      BY <3>3 DEF SearchOK, Slots
  <2>7. CASE ~StopsAt(k, i) /\ i # Capacity - 1
    <3>1. search' = [search EXCEPT !.at = @ + 1]
      BY <1>4, <2>1, <2>7 DEF ReadSlot
    <3>2. /\ search' \in SearchStates /\ search'.phase = "probe" /\ search'.key = k
          /\ search'.at = i + 1 /\ search'.missing = search.missing
      BY <1>4, <2>1, <2>2, <3>1 DEF SearchStates, ReadSlot
    <3>3. i + 1 \in Slots
      BY <2>7, TablesAssumption DEF Slots
    <3>4. search'.missing \/ Ahead(k, i + 1)'
      BY <1>1, <2>2, <2>4, <2>7, <3>2
    <3>5. search'.missing \/ Ahead(search.key, search.at)'
      BY <3>2, <3>4 DEF Ahead, Slots, Probe, HashFunc
    <3> QED
      BY <3>2, <3>3, <3>5 DEF SearchOK, Slots
  <2> QED
    BY <2>5, <2>6, <2>7
<1>5. CASE Reread
  <2>1. PICK k \in TableKeys, i \in Slots : k = search.key /\ i = search.at
    BY <1>5 DEF Reread, SearchOK
  <2>2. search \in SearchStates /\ (search.missing \/ ht[Probe(k, i)] = Entry(k))
    BY <1>5, <2>1 DEF Reread, SearchOK
  <2>3. search' = [search EXCEPT !.phase = IF ht[Probe(k, i)] \in {NULL, DelNode} THEN "miss" ELSE "hit"]
    BY <1>5, <2>1 DEF Reread
  <2>4. /\ search' \in SearchStates /\ search'.phase \in {"miss", "hit"} /\ search'.key = k
        /\ search'.at = i /\ search'.missing = search.missing
        /\ search'.phase = "miss" => ht[Probe(k, i)] \in {NULL, DelNode}
    BY <2>1, <2>2, <2>3 DEF SearchStates
  <2>5. search'.phase = "miss" => search'.missing
    BY <2>2, <2>4, SlotKinds
  <2> QED
    BY <2>4, <2>5 DEF SearchOK, Slots
<1>6. CASE EndSearch
  BY <1>6 DEF EndSearch, NoSearch, SearchOK, SearchStates
<1> QED
  BY <1>3, <1>4, <1>5, <1>6

\* Every step of the tables keeps the three.
LEMMA FilterStep == FilterInv /\ (TablesNext \/ UNCHANGED tableVars) => FilterInv'
<1> SUFFICES ASSUME FilterInv, TablesNext \/ UNCHANGED tableVars PROVE FilterInv'
  OBVIOUS
<1>1. HtOK /\ SearchOK /\ CoverOK
  BY DEF FilterInv
<1>2. ASSUME ht' = ht PROVE HtOK' /\ \A k : InTable(k)' <=> InTable(k)
  BY <1>1, <1>2 DEF HtOK, InTable, Slots, Probe, HashFunc
<1>3. ASSUME ht' = ht, search' = search PROVE SearchOK'
  BY <1>1, <1>3 DEF SearchOK, Ahead, Slots, Probe, HashFunc
<1>4. ASSUME UNCHANGED <<ht, issued, overflowed>>, buffered' \subseteq buffered PROVE CoverOK'
  BY <1>1, <1>2, <1>4 DEF CoverOK, BufferedOK
<1>5. ASSUME NEW k \in TableKeys, future_insert(k) PROVE FilterInv'
  <2> DEFINE op == [key |-> k, sequence |-> issued + 1]
  <2>1. /\ ht' = Insert(k) /\ Watch /\ issued < MaxSequence /\ issued' = issued + 1
        /\ overflowed' = (overflowed \/ FullOfOthers(k))
        /\ buffered' = {b \in buffered : b.key # k} \cup {op}
    BY <1>5 DEF future_insert, FullOfOthers
  <2>2. issued' \in 1 .. MaxSequence /\ issued' \in 0 .. MaxSequence
    BY <1>1, <2>1, TablesAssumption DEF CoverOK
  <2>3. op \in [key : TableKeys, sequence : 1 .. MaxSequence]
    BY <2>1, <2>2
  <2>4. BufferedOK'
    BY <1>1, <2>1, <2>3 DEF CoverOK, BufferedOK
  <2>5. /\ InTable(k)'
        /\ ~FullOfOthers(k) => \A x \in TableKeys : x # k => (InTable(x)' <=> InTable(x))
    BY <1>1, <2>1, InsertEffect
  <2>6. ASSUME ~overflowed' PROVE \A b \in buffered' : InTable(b.key)'
    <3>1. ~overflowed /\ ~FullOfOthers(k)
      BY <2>1, <2>6
    <3>2. \A b \in buffered : b.key \in TableKeys /\ InTable(b.key)
      BY <1>1, <3>1 DEF CoverOK, BufferedOK
    <3> SUFFICES ASSUME NEW b \in buffered' PROVE InTable(b.key)'
      OBVIOUS
    <3>3. PICK x \in TableKeys : x = b.key /\ (x = k \/ InTable(x))
      BY <2>1, <3>2
    <3>4. InTable(x)'
      BY <2>5, <3>1, <3>3
    <3> QED
      BY <3>3, <3>4 DEF InTable
  <2>7. HtOK' /\ SearchOK'
    BY <1>1, <2>1, InsertEffect, SearchInsert
  <2> QED
    BY <2>2, <2>4, <2>6, <2>7 DEF FilterInv, CoverOK
<1>6. CASE future_clear_lookup_state_for_threads
  BY <1>2, <1>3, <1>4, <1>6 DEF future_clear_lookup_state_for_threads, FilterInv
<1>7. ASSUME NEW k \in TableKeys, RemoveKey(k) PROVE FilterInv'
  <2>1. /\ ht' = Remove(k) /\ search' = search /\ search.phase = "idle"
        /\ UNCHANGED <<buffered, issued, overflowed>>
        /\ \A b \in buffered : b.key # k
    BY <1>7 DEF RemoveKey
  <2>2. HtOK' /\ \A x \in TableKeys : x # k => (InTable(x)' <=> InTable(x))
    BY <1>1, <2>1, RemoveEffect
  <2>3. SearchOK'
    BY <1>1, <2>1 DEF SearchOK
  <2>4. ASSUME ~overflowed PROVE \A b \in buffered : InTable(b.key)'
    BY <1>1, <2>1, <2>2, <2>4 DEF CoverOK, BufferedOK
  <2>5. CoverOK'
    BY <1>1, <2>1, <2>4 DEF CoverOK, BufferedOK, InTable
  <2> QED
    BY <2>2, <2>3, <2>5 DEF FilterInv
<1>8. CASE (\E k \in TableKeys : StartSearch(k)) \/ ReadSlot \/ Reread \/ EndSearch
  <2>1. UNCHANGED <<ht, dir, buffered, issued, overflowed>>
    BY <1>8 DEF StartSearch, ReadSlot, Reread, EndSearch
  <2> QED
    BY <1>1, <1>2, <1>4, <1>8, <2>1, SearchStep DEF FilterInv
<1>9. CASE UNCHANGED tableVars
  BY <1>2, <1>3, <1>4, <1>9 DEF tableVars, FilterInv
<1> QED
  BY <1>5, <1>6, <1>7, <1>8, <1>9 DEF TablesNext

LEMMA FilterInit == TablesInit => FilterInv
<1> SUFFICES ASSUME TablesInit PROVE FilterInv
  OBVIOUS
<1>1. HtOK
  BY ProbePermutes, SlotKinds DEF TablesInit, HtOK
<1>2. SearchOK
  BY DEF TablesInit, SearchOK, NoSearch, SearchStates
<1>3. CoverOK
  BY TablesAssumption DEF TablesInit, CoverOK, BufferedOK
<1> QED
  BY <1>1, <1>2, <1>3 DEF FilterInv

LEMMA FilterInvariant == Spec => []FilterInv
<1>1. Init => FilterInv
  BY FilterInit DEF Init
<1>2. FilterInv /\ [Next]_<<subject, tableVars, indexVars>> => FilterInv'
  BY FilterStep DEF Next
<1> QED
  BY <1>1, <1>2, PTL DEF Spec

\* The lock-free SearchKey never misses a key that is in the table
\* throughout the search (NoFalseMiss), with any number of slots, whatever
\* inserts and overwrites run beside it between any two of its reads.
THEOREM SearchNeverMisses == Spec => []NoFalseMiss
<1>1. FilterInv => NoFalseMiss
  BY DEF FilterInv, SearchOK, NoFalseMiss
<1> QED
  BY <1>1, FilterInvariant, PTL

\* Until an insert has met a table full of other keys the filter covers the
\* chain (FilterCoversChain): tombstones, collisions and reused slots never
\* hide a buffered key.
THEOREM FilterAlwaysCovers == Spec => []FilterCoversChain
<1>1. FilterInv => FilterCoversChain
  BY SearchIs DEF FilterInv, CoverOK, BufferedOK, FilterCoversChain, SearchIsInTable
<1> QED
  BY <1>1, FilterInvariant, PTL

-----------------------------------------------------------------------------
(* The directory. *)

Records == [occupied : {TRUE}, key : TableKeys, sequence : Nat]

Taken(s) == dir[s].occupied

Names(s, k) == Taken(s) /\ dir[s].key = k

\* A key has at most one slot, and all slots before it on its path are taken.
DirOK ==
    /\ dir \in [Slots -> {Free} \cup Records]
    /\ \A s, t \in Slots : Taken(s) /\ Taken(t) /\ dir[s].key = dir[t].key => s = t
    /\ \A k \in TableKeys : \A i, j \in Slots :
          Names(DirProbe(k, i), k) /\ j < i => Taken(DirProbe(k, j))

InDir(k) == \E s \in Slots : Names(s, k)

DirFull == \A s \in Slots : Taken(s)

\* A slot is free or holds a record.
LEMMA DirSlots ==
    ASSUME DirOK, NEW s \in Slots
    PROVE  /\ Taken(s) \in BOOLEAN
           /\ Taken(s) => dir[s] \in Records
           /\ ~Taken(s) => dir[s] = Free
<1>1. dir[s] = Free \/ dir[s] \in Records
  BY DEF DirOK
<1>2. Free.occupied = FALSE /\ \A e \in Records : e.occupied = TRUE
  BY DEF Free, Records
<1> QED
  BY <1>1, <1>2, Zenon DEF Taken

\* What future_lookup_index returns.
LEMMA LookupIndex ==
    ASSUME DirOK, NEW k \in TableKeys, NEW alloc \in BOOLEAN, NEW s,
           s = future_lookup_index(k, alloc)
    PROVE  /\ InDir(k) => s \in Slots /\ Names(s, k)
           /\ ~InDir(k) /\ (~alloc \/ DirFull) => s = Capacity
           /\ ~InDir(k) /\ alloc /\ ~DirFull =>
                 /\ s \in Slots /\ ~Taken(s)
                 /\ \A i, j \in Slots : s = DirProbe(k, i) /\ j < i => Taken(DirProbe(k, j))
<1> DEFINE ends == {i \in Slots : ~Taken(DirProbe(k, i)) \/ dir[DirProbe(k, i)].key = k}
<1>1. /\ \A i \in Slots : i \in Int /\ DirProbe(k, i) \in Slots
      /\ \A t \in Slots : \E i \in Slots : t = DirProbe(k, i)
      /\ \A i, j \in Slots : DirProbe(k, i) = DirProbe(k, j) => i = j
  BY DirProbePermutes DEF Slots
<1>2. ends # {} => Min(ends) \in ends /\ \A i \in ends : Min(ends) <= i
  <2>1. ends \in SUBSET (0 .. (Capacity - 1)) /\ Capacity \in Nat
    BY TablesAssumption DEF Slots
  <2> QED
    BY <2>1, FirstAndLast
<1>3. s = IF ends # {} /\ (Taken(DirProbe(k, Min(ends))) \/ alloc)
          THEN DirProbe(k, Min(ends)) ELSE Capacity
  BY DEF future_lookup_index, Taken
<1>4. InDir(k) <=> \E i \in Slots : Names(DirProbe(k, i), k)
  BY <1>1 DEF InDir
<1>5. CASE ends = {}
  <2>1. ~InDir(k) /\ DirFull
    <3>1. \A i \in Slots : Taken(DirProbe(k, i)) /\ dir[DirProbe(k, i)].key # k
      BY <1>5
    <3> QED
      BY <1>1, <1>4, <3>1 DEF Names, DirFull
  <2> QED
    BY <1>3, <1>5, <2>1
<1>6. CASE ends # {}
  <2>1. PICK m \in ends : m = Min(ends) /\ \A i \in ends : m <= i
    BY <1>2, <1>6
  <2>2. m \in Slots /\ (~Taken(DirProbe(k, m)) \/ Names(DirProbe(k, m), k))
    BY <2>1 DEF Names
  <2>3. \A j \in Slots : j < m => Taken(DirProbe(k, j))
    <3> SUFFICES ASSUME NEW j \in Slots, j < m, ~Taken(DirProbe(k, j)) PROVE FALSE
      OBVIOUS
    <3>1. j \in ends
      OBVIOUS
    <3> QED
      BY <1>1, <2>1, <2>2, <3>1
  <2>4. InDir(k) => Names(DirProbe(k, m), k)
    <3> SUFFICES ASSUME InDir(k) PROVE Names(DirProbe(k, m), k)
      OBVIOUS
    <3>1. PICK i \in Slots : Names(DirProbe(k, i), k)
      BY <1>4
    <3>2. m <= i
      <4>1. i \in ends
        BY <3>1 DEF Names
      <4> QED
        BY <2>1, <4>1
    <3>3. CASE m < i
      BY <2>2, <3>1, <3>3 DEF DirOK
    <3>4. CASE m = i
      BY <3>1, <3>4
    <3> QED
      BY <1>1, <2>2, <3>2, <3>3, <3>4
  <2>5. ~InDir(k) => ~Taken(DirProbe(k, m)) /\ ~DirFull
    BY <1>1, <1>4, <2>2 DEF DirFull
  <2>6. s = IF Taken(DirProbe(k, m)) \/ alloc THEN DirProbe(k, m) ELSE Capacity
    BY <1>3, <1>6, <2>1
  <2>7. InDir(k) => Taken(DirProbe(k, m))
    BY <2>4 DEF Names
  <2> QED
    BY <1>1, <2>2, <2>3, <2>4, <2>5, <2>6, <2>7
<1> QED
  BY <1>5, <1>6

Shown(s) == [key |-> dir[s].key, sequence |-> dir[s].sequence]

LatestIsShown == DirOK => latest = {Shown(s) : s \in {t \in Slots : Taken(t)}}

\* Looking up all keys yields every record of the directory.
LEMMA LatestIs == LatestIsShown
<1> SUFFICES ASSUME DirOK PROVE latest = {Shown(s) : s \in {t \in Slots : Taken(t)}}
  BY DEF LatestIsShown
<1>1. Capacity \notin Slots
  BY TablesAssumption DEF Slots
<1>2. ASSUME NEW k \in TableKeys, NEW e \in future_lookup_state(k)
      PROVE  \E s \in Slots : Taken(s) /\ e = dir[s]
  <2>1. PICK s : s = future_lookup_index(k, FALSE)
    OBVIOUS
  <2>2. s # Capacity /\ e = dir[s]
    BY <1>2, <2>1 DEF future_lookup_state
  <2>3. InDir(k)
    BY <2>1, <2>2, LookupIndex
  <2>4. s \in Slots /\ Names(s, k)
    BY <2>1, <2>3, LookupIndex
  <2> QED
    BY <2>2, <2>4 DEF Names
<1>3. ASSUME NEW s \in Slots, Taken(s)
      PROVE  \E k \in TableKeys : dir[s] \in future_lookup_state(k)
  <2>1. PICK k \in TableKeys : k = dir[s].key
    BY <1>3, DirSlots DEF Records
  <2>2. PICK t : t = future_lookup_index(k, FALSE)
    OBVIOUS
  <2>3. InDir(k)
    BY <1>3, <2>1 DEF InDir, Names
  <2>4. t \in Slots /\ Names(t, k)
    BY <2>2, <2>3, LookupIndex
  <2>5. t = s
    BY <1>3, <2>1, <2>4 DEF DirOK, Names
  <2> QED
    BY <1>1, <2>2, <2>4, <2>5 DEF future_lookup_state
<1>4. ASSUME NEW e \in latest PROVE \E s \in {t \in Slots : Taken(t)} : e = Shown(s)
  BY <1>2, <1>4 DEF latest, Shown
<1>5. ASSUME NEW s \in {t \in Slots : Taken(t)} PROVE Shown(s) \in latest
  BY <1>3, <1>5 DEF latest, Shown
<1> QED
  BY <1>4, <1>5

\* The same after a step.
LEMMA LatestIsNext == LatestIsShown'
BY LatestIs, PTL

\* What an upsert makes of the directory.
LEMMA UpsertEffect ==
    ASSUME DirOK, NEW k \in TableKeys, NEW n \in Nat, dir' = DirectoryUpsert(k, n)
    PROVE  /\ DirOK'
           /\ ~InDir(k) /\ DirFull => dir' = dir
           /\ InDir(k) \/ ~DirFull =>
                 \E s \in Slots :
                    /\ Names(s, k) \/ (~InDir(k) /\ ~Taken(s))
                    /\ dir'[s] = [occupied |-> TRUE, key |-> k, sequence |-> n]
                    /\ \A t \in Slots : t # s => dir'[t] = dir[t]
<1>1. Capacity \notin Slots
  BY TablesAssumption DEF Slots
<1>2. PICK s : s = future_lookup_index(k, TRUE)
  OBVIOUS
<1>3. /\ InDir(k) => s \in Slots /\ Names(s, k)
      /\ ~InDir(k) /\ DirFull => s = Capacity
      /\ ~InDir(k) /\ ~DirFull =>
            /\ s \in Slots /\ ~Taken(s)
            /\ \A i, j \in Slots : s = DirProbe(k, i) /\ j < i => Taken(DirProbe(k, j))
  BY <1>2, LookupIndex
<1>4. dir' = IF s = Capacity THEN dir
             ELSE [dir EXCEPT ![s] = [occupied |-> TRUE, key |-> k, sequence |-> n]]
  BY <1>2 DEF DirectoryUpsert
<1>5. CASE ~InDir(k) /\ DirFull
  <2>1. dir' = dir
    BY <1>3, <1>4, <1>5
  <2> QED
    BY <1>5, <2>1 DEF DirOK, Taken, Names, Slots, DirProbe
<1>6. CASE InDir(k) \/ ~DirFull
  <2> DEFINE new == [occupied |-> TRUE, key |-> k, sequence |-> n]
  <2>1. s \in Slots /\ (Names(s, k) \/ (~InDir(k) /\ ~Taken(s)))
    BY <1>3, <1>6
  <2>2. dir' = [dir EXCEPT ![s] = new]
    BY <1>1, <1>4, <2>1
  <2>3. new \in Records /\ new.occupied /\ new.key = k
    BY DEF Records
  <2> HIDE DEF new
  <2>4. /\ dir'[s] = new
        /\ \A t \in Slots : t # s => dir'[t] = dir[t]
        /\ dir' \in [Slots -> {Free} \cup Records]
    BY <2>1, <2>2, <2>3 DEF DirOK
  <2>5. /\ Taken(s)' /\ dir'[s].key = k
        /\ \A t \in Slots : t # s => (Taken(t)' <=> Taken(t)) /\ dir'[t].key = dir[t].key
    BY <2>3, <2>4 DEF Taken
  <2>6. \A t \in Slots : Taken(t) => Taken(t)'
    BY <2>5
  <2>7. \A t \in Slots : t # s /\ Taken(t) => dir[t].key # k
    <3> SUFFICES ASSUME NEW t \in Slots, t # s, Taken(t), dir[t].key = k PROVE FALSE
      OBVIOUS
    <3>1. InDir(k)
      BY DEF InDir, Names
    <3>2. Names(s, k)
      BY <1>3, <3>1
    <3> QED
      BY <2>1, <3>2 DEF DirOK, Names
  <2>8. ASSUME NEW t \in Slots, NEW u \in Slots, Taken(t)', Taken(u)', dir'[t].key = dir'[u].key
        PROVE  t = u
    BY <2>5, <2>7, <2>8 DEF DirOK
  <2>9. ASSUME NEW x \in TableKeys, NEW i \in Slots, NEW j \in Slots,
               Names(DirProbe(x, i), x)', j < i
        PROVE  Taken(DirProbe(x, j))'
    <3>1. DirProbe(x, i) \in Slots /\ DirProbe(x, j) \in Slots /\ \A t : DirProbe(x, t)' = DirProbe(x, t)
      BY DirProbePermutes DEF DirProbe
    <3>2. PICK t \in Slots, u \in Slots : t = DirProbe(x, i) /\ u = DirProbe(x, j)
      BY <3>1
    <3>3. Taken(t)' /\ dir'[t].key = x
      BY <2>9, <3>1, <3>2 DEF Names, Taken
    <3>4. Taken(u)
      <4>1. CASE t # s \/ Names(s, k)
        <5>1. Names(t, x)
          BY <2>5, <3>3, <4>1 DEF Names
        <5> QED
          BY <2>9, <3>2, <5>1 DEF DirOK
      <4>2. CASE t = s /\ ~Names(s, k)
        <5>1. x = k /\ ~InDir(k) /\ ~DirFull
          BY <1>6, <2>1, <2>5, <3>3, <4>2
        <5> QED
          BY <1>3, <2>9, <3>2, <4>2, <5>1
      <4> QED
        BY <4>1, <4>2
    <3> QED
      BY <2>6, <3>2, <3>4 DEF Taken
  <2>10. DirOK'
    BY <2>4, <2>8, <2>9 DEF DirOK, Slots, DirProbe, Free, Records
  <2> QED
    BY <1>6, <2>1, <2>4, <2>10 DEF new
<1> QED
  BY <1>5, <1>6

\* What corresponds one to one to some of the elements of a finite set is as
\* large as the set only if it corresponds to all of them.
LEMMA OneToOneCount ==
    ASSUME NEW S, NEW T \in SUBSET S, NEW U, IsFiniteSet(S),
           ExistsBijection(T, U)
    PROVE  /\ Cardinality(U) \in Nat /\ Cardinality(U) <= Cardinality(S)
           /\ Cardinality(U) = Cardinality(S) <=> T = S
<1>1. IsFiniteSet(T) /\ Cardinality(T) <= Cardinality(S) /\ (Cardinality(S) = Cardinality(T) => S = T)
  BY FS_Subset
<1>2. IsFiniteSet(U) /\ Cardinality(U) = Cardinality(T)
  BY <1>1, FS_Bijection
<1>3. Cardinality(U) \in Nat
  BY <1>2, FS_CardinalityType
<1> QED
  BY <1>1, <1>2, <1>3

\* The hashtable answers for Capacity keys exactly when no slot is left.
LEMMA FoundCount ==
    ASSUME HtOK
    PROVE  /\ found = {k \in TableKeys : InTable(k)}
           /\ Cardinality(found) < Capacity <=> ~HtFull
<1> DEFINE T == {s \in Slots : ht[s] \notin {NULL, DelNode}}
           f == [s \in T |-> ht[s].k]
<1>1. found = {k \in TableKeys : InTable(k)}
  BY SearchIs DEF found, SearchIsInTable
<1>2. ASSUME NEW s \in T PROVE f[s] \in found /\ ht[s] = Entry(f[s])
  <2>1. PICK k \in TableKeys : ht[s] = Entry(k)
    BY DEF HtOK
  <2>2. f[s] = k
    BY <2>1 DEF Entry
  <2> QED
    BY <1>1, <2>1, <2>2 DEF InTable
<1>3. \A s, t \in T : f[s] = f[t] => s = t
  BY <1>1, <1>2 DEF HtOK
<1>4. ASSUME NEW k \in found PROVE \E s \in T : f[s] = k
  <2>1. PICK s \in Slots : ht[s] = Entry(k)
    BY <1>1 DEF InTable
  <2>2. s \in T
    BY <2>1, SlotKinds
  <2> QED
    BY <1>2, <2>1, <2>2, SlotKinds
<1>5. f \in [T -> found]
  BY <1>2
<1>6. T \in SUBSET (0 .. (Capacity - 1)) /\ Capacity \in Nat
  BY TablesAssumption DEF Slots
<1>7. HtFull <=> T = 0 .. (Capacity - 1)
  BY DEF HtFull, Slots
<1> HIDE DEF T, f
<1>8. /\ Cardinality(found) \in Nat /\ Cardinality(found) <= Capacity
      /\ Cardinality(found) = Capacity <=> T = 0 .. (Capacity - 1)
  <2>1. PICK U, V, g : U = found /\ V = T /\ g = f
    OBVIOUS
  <2>2. V \in SUBSET Slots /\ g \in [V -> U]
    BY <1>3, <1>4, <1>5, <1>6, <2>1 DEF Slots
  <2>3. (\A i, j \in V : g[i] = g[j] => i = j) /\ (\A u \in U : \E i \in V : g[i] = u)
    BY <1>3, <1>4, <1>5, <1>6, <2>1
  <2>4. ExistsBijection(V, U)
    BY <2>2, <2>3 DEF ExistsBijection, Bijection, Injection, Surjection, IsInjective
  <2>5. IsFiniteSet(Slots) /\ Cardinality(Slots) = Capacity
    BY FS_Interval, TablesAssumption DEF Slots
  <2>6. /\ Cardinality(U) \in Nat /\ Cardinality(U) <= Cardinality(Slots)
        /\ Cardinality(U) = Cardinality(Slots) <=> V = Slots
    <3>1. IsFiniteSet(Slots)
      BY <2>5
    <3> QED
      BY <2>2, <2>4, <3>1, OneToOneCount
  <2> QED
    BY <2>1, <2>5, <2>6 DEF Slots
<1> QED
  BY <1>1, <1>6, <1>7, <1>8

\* And the directory shows Capacity operations when it is full.
LEMMA LatestCount ==
    ASSUME DirOK
    PROVE  /\ latest = {Shown(s) : s \in {t \in Slots : Taken(t)}}
           /\ Cardinality(latest) < Capacity <=> ~DirFull
           /\ Cardinality(latest) = Capacity <=> DirFull
<1> DEFINE T == {s \in Slots : Taken(s)}
           f == [s \in T |-> Shown(s)]
<1>1. latest = {Shown(s) : s \in T}
  BY LatestIs DEF LatestIsShown
<1>2. \A s, t \in T : f[s] = f[t] => s = t
  BY DEF Shown, DirOK
<1>3. f \in [T -> latest] /\ \A e \in latest : \E s \in T : f[s] = e
  BY <1>1
<1>4. T \in SUBSET (0 .. (Capacity - 1)) /\ Capacity \in Nat
  BY TablesAssumption DEF Slots
<1>5. DirFull <=> T = 0 .. (Capacity - 1)
  BY DEF DirFull, Slots
<1>6. latest = {Shown(s) : s \in {t \in Slots : Taken(t)}}
  BY <1>1
<1> HIDE DEF T, f
<1>7. /\ Cardinality(latest) \in Nat /\ Cardinality(latest) <= Capacity
      /\ Cardinality(latest) = Capacity <=> T = 0 .. (Capacity - 1)
  <2>1. PICK U, V, g : U = latest /\ V = T /\ g = f
    OBVIOUS
  <2>2. V \in SUBSET Slots /\ g \in [V -> U]
    BY <1>2, <1>3, <1>4, <2>1 DEF Slots
  <2>3. (\A i, j \in V : g[i] = g[j] => i = j) /\ (\A u \in U : \E i \in V : g[i] = u)
    BY <1>2, <1>3, <1>4, <2>1
  <2>4. ExistsBijection(V, U)
    BY <2>2, <2>3 DEF ExistsBijection, Bijection, Injection, Surjection, IsInjective
  <2>5. IsFiniteSet(Slots) /\ Cardinality(Slots) = Capacity
    BY FS_Interval, TablesAssumption DEF Slots
  <2>6. /\ Cardinality(U) \in Nat /\ Cardinality(U) <= Cardinality(Slots)
        /\ Cardinality(U) = Cardinality(Slots) <=> V = Slots
    <3>1. IsFiniteSet(Slots)
      BY <2>5
    <3> QED
      BY <2>2, <2>4, <3>1, OneToOneCount
  <2> QED
    BY <2>1, <2>5, <2>6 DEF Slots
<1> QED
  BY <1>4, <1>5, <1>6, <1>7

\* A buffered operation is in the directory, or was left out of a full one.
NamedOK ==
    \A b \in buffered : \/ \E s \in Slots : Names(s, b.key) /\ dir[s].sequence = b.sequence
                        \/ DirFull /\ ~InDir(b.key)

DirInv == FilterInv /\ DirOK /\ NamedOK

\* future_insert keeps the directory in step with the chain.
LEMMA NamedInsert ==
    ASSUME DirInv, NEW k \in TableKeys, NEW n \in Nat, dir' = DirectoryUpsert(k, n),
           buffered' = {b \in buffered : b.key # k} \cup {[key |-> k, sequence |-> n]}
    PROVE  DirOK' /\ NamedOK'
<1>1. /\ DirOK'
      /\ ~InDir(k) /\ DirFull => dir' = dir
      /\ InDir(k) \/ ~DirFull =>
            \E s \in Slots :
               /\ Names(s, k) \/ (~InDir(k) /\ ~Taken(s))
               /\ dir'[s] = [occupied |-> TRUE, key |-> k, sequence |-> n]
               /\ \A t \in Slots : t # s => dir'[t] = dir[t]
  BY UpsertEffect DEF DirInv
<1>2. CASE ~InDir(k) /\ DirFull
  <2>1. dir' = dir
    BY <1>1, <1>2
  <2>2. ASSUME NEW b \in buffered'
        PROVE  \/ \E s \in Slots : Names(s, b.key) /\ dir[s].sequence = b.sequence
               \/ DirFull /\ ~InDir(b.key)
    BY <1>2, <2>2 DEF DirInv, NamedOK
  <2> QED
    BY <1>1, <2>1, <2>2 DEF NamedOK, Names, InDir, DirFull, Taken, Slots
<1>3. CASE InDir(k) \/ ~DirFull
  <2>1. PICK s \in Slots :
           /\ Names(s, k) \/ (~InDir(k) /\ ~Taken(s))
           /\ dir'[s] = [occupied |-> TRUE, key |-> k, sequence |-> n]
           /\ \A t \in Slots : t # s => dir'[t] = dir[t]
    BY <1>1, <1>3
  <2>2. dir'[s].occupied /\ dir'[s].key = k /\ dir'[s].sequence = n
    BY <2>1
  <2>3. ASSUME NEW b \in buffered', b.key = k
        PROVE  \E t \in Slots : dir'[t].occupied /\ dir'[t].key = b.key /\ dir'[t].sequence = b.sequence
    <3>1. b.sequence = n
      BY <2>3
    <3> QED
      BY <2>2, <2>3, <3>1
  <2>4. ASSUME NEW b \in buffered, b.key # k, NEW t \in Slots, Names(t, b.key), dir[t].sequence = b.sequence
        PROVE  dir'[t].occupied /\ dir'[t].key = b.key /\ dir'[t].sequence = b.sequence
    <3>1. t # s
      BY <2>1, <2>4 DEF Names
    <3> QED
      BY <2>1, <2>4, <3>1 DEF Names, Taken
  <2>5. ASSUME NEW b \in buffered, b.key # k, DirFull, ~InDir(b.key)
        PROVE  (\A t \in Slots : dir'[t].occupied) /\ ~\E t \in Slots : dir'[t].occupied /\ dir'[t].key = b.key
    <3>1. \A t \in Slots : dir[t].occupied /\ dir[t].key # b.key
      BY <2>5 DEF DirFull, InDir, Names, Taken
    <3> QED
      BY <2>1, <2>2, <2>5, <3>1
  <2>6. ASSUME NEW b \in buffered'
        PROVE  \/ \E t \in Slots : dir'[t].occupied /\ dir'[t].key = b.key /\ dir'[t].sequence = b.sequence
               \/ (\A t \in Slots : dir'[t].occupied) /\ ~\E t \in Slots : dir'[t].occupied /\ dir'[t].key = b.key
    <3>1. CASE b.key = k
      BY <2>3, <2>6, <3>1
    <3>2. CASE b.key # k
      <4>1. b \in buffered
        BY <2>6, <3>2
      <4> QED
        BY <2>4, <2>5, <3>2, <4>1 DEF DirInv, NamedOK
    <3> QED
      BY <3>1, <3>2
  <2> QED
    BY <1>1, <2>6 DEF NamedOK, Names, InDir, DirFull, Taken, Slots
<1> QED
  BY <1>2, <1>3

\* An emptied directory.
LEMMA DirEmpty ==
    ASSUME dir = [s \in Slots |-> Free]
    PROVE  DirOK /\ \A s \in Slots : ~Taken(s)
<1>1. Free.occupied = FALSE
  BY DEF Free
<1>2. \A s \in Slots : ~Taken(s)
  BY <1>1, Zenon DEF Taken
<1> QED
  BY <1>2, DirProbePermutes DEF DirOK, Names

DirEmptyIs == dir = [s \in Slots |-> Free] => DirOK /\ \A s \in Slots : ~Taken(s)

LEMMA DirEmptyNow == DirEmptyIs
BY DirEmpty DEF DirEmptyIs

\* The same after a step.
LEMMA DirEmptyNext == DirEmptyIs'
BY DirEmptyNow, PTL

LEMMA DirStep == DirInv /\ (TablesNext \/ UNCHANGED tableVars) => DirInv'
<1> SUFFICES ASSUME DirInv, TablesNext \/ UNCHANGED tableVars PROVE DirInv'
  OBVIOUS
<1>1. FilterInv'
  BY FilterStep DEF DirInv
<1>2. ASSUME dir' = dir, buffered' = buffered PROVE DirOK' /\ NamedOK'
  BY <1>2 DEF DirInv, DirOK, NamedOK, Names, InDir, DirFull, Taken, Slots, DirProbe
<1>3. ASSUME NEW k \in TableKeys, future_insert(k) PROVE DirOK' /\ NamedOK'
  <2>1. issued + 1 \in Nat
    BY TablesAssumption DEF DirInv, FilterInv, CoverOK
  <2>2. /\ dir' = DirectoryUpsert(k, issued + 1)
        /\ buffered' = {b \in buffered : b.key # k} \cup {[key |-> k, sequence |-> issued + 1]}
    BY <1>3 DEF future_insert
  <2> QED
    BY <2>1, <2>2, NamedInsert
<1>4. CASE future_clear_lookup_state_for_threads
  <2>1. buffered' = {} /\ dir' = [s \in Slots |-> Free]
    BY <1>4 DEF future_clear_lookup_state_for_threads
  <2>2. DirOK'
    BY <2>1, DirEmptyNext DEF DirEmptyIs, Slots
  <2> QED
    BY <1>1, <2>1, <2>2 DEF NamedOK, DirInv
<1>5. CASE (\E k \in TableKeys : RemoveKey(k) \/ StartSearch(k)) \/ ReadSlot \/ Reread \/ EndSearch
  <2>1. dir' = dir /\ buffered' = buffered
    BY <1>5 DEF RemoveKey, StartSearch, ReadSlot, Reread, EndSearch
  <2> QED
    BY <1>1, <1>2, <2>1 DEF DirInv
<1>6. CASE UNCHANGED tableVars
  BY <1>1, <1>2, <1>6 DEF tableVars, DirInv
<1> QED
  BY <1>1, <1>3, <1>4, <1>5, <1>6 DEF TablesNext, DirInv

LEMMA DirInvariant == Spec => []DirInv
<1>1. Init => DirInv
  <2> SUFFICES ASSUME Init PROVE DirInv
    OBVIOUS
  <2>1. FilterInv /\ buffered = {} /\ dir = [s \in Slots |-> Free]
    BY FilterInit DEF Init, TablesInit
  <2> QED
    BY <2>1, DirEmpty DEF DirInv, NamedOK
<1>2. DirInv /\ [Next]_<<subject, tableVars, indexVars>> => DirInv'
  BY DirStep DEF Next
<1> QED
  BY <1>1, <1>2, PTL DEF Spec

\* The lookup directory names the latest operation of every buffered key,
\* but for keys it had no slot for (DirectoryNamesLatest).
THEOREM DirectoryIsCurrent == Spec => []DirectoryNamesLatest
<1>1. DirInv => DirectoryNamesLatest
  <2> SUFFICES ASSUME DirInv, NEW b \in buffered
               PROVE  b \in latest \/ (Cardinality(latest) = Capacity /\ \A e \in latest : e.key # b.key)
    BY DEF DirectoryNamesLatest
  <2>1. /\ latest = {Shown(s) : s \in {t \in Slots : Taken(t)}}
        /\ DirFull => Cardinality(latest) = Capacity
    BY LatestCount DEF DirInv
  <2>2. b = [key |-> b.key, sequence |-> b.sequence]
    BY DEF DirInv, FilterInv, CoverOK, BufferedOK
  <2>3. CASE \E s \in Slots : Names(s, b.key) /\ dir[s].sequence = b.sequence
    BY <2>1, <2>2, <2>3 DEF Names, Shown
  <2>4. CASE DirFull /\ ~InDir(b.key)
    BY <2>1, <2>4 DEF InDir, Names, Shown
  <2> QED
    BY <2>3, <2>4 DEF DirInv, NamedOK
<1> QED
  BY <1>1, DirInvariant, PTL

-----------------------------------------------------------------------------
(* Slots and probes implement the bounded set and the bounded map. *)

\* The abstract tables count as these do.
LEMMA SameCount == \A S : Tables!Cardinality(S) = Cardinality(S)
BY DEF Tables!Cardinality, Cardinality, Tables!IsFiniteSet, IsFiniteSet

\* An insert is the abstract one: a key of the bounded set, evicting one of
\* them from a full table.
LEMMA FilterInserts ==
    ASSUME HtOK, NEW k \in TableKeys, ht' = Insert(k)
    PROVE  Tables!InsertKey(k)
<1>1. /\ HtOK' /\ InTable(k)'
      /\ ~FullOfOthers(k) => \A x \in TableKeys : x # k => (InTable(x)' <=> InTable(x))
      /\ FullOfOthers(k) =>
            \E victim \in TableKeys :
               /\ InTable(victim)
               /\ \A x \in TableKeys : x # k => (InTable(x)' <=> InTable(x) /\ x # victim)
  BY InsertEffect
<1>2. FullOfOthers(k) <=> ~InTable(k) /\ HtFull
  BY InsertTarget
<1>3. /\ \A x : x \in found <=> x \in TableKeys /\ InTable(x)
      /\ Cardinality(found) < Capacity <=> ~HtFull
  BY FoundCount
<1>4. \A x : x \in found' <=> x \in TableKeys /\ InTable(x)'
  BY <1>1, SearchIsNext DEF found, SearchIsInTable
<1>5. CASE ~FullOfOthers(k)
  <2>1. found' = found \cup {k}
    BY <1>1, <1>3, <1>4, <1>5
  <2>2. k \in found \/ Cardinality(found) < Capacity
    BY <1>2, <1>3, <1>5
  <2> QED
    BY <2>1, <2>2, SameCount DEF Tables!InsertKey, Tables!Bounded
<1>6. CASE FullOfOthers(k)
  <2>1. PICK victim \in TableKeys :
           /\ InTable(victim)
           /\ \A x \in TableKeys : x # k => (InTable(x)' <=> InTable(x) /\ x # victim)
    BY <1>1, <1>6
  <2>2. victim \in found /\ k \notin found /\ ~(Cardinality(found) < Capacity)
    BY <1>2, <1>3, <1>6, <2>1
  <2>3. found' = (found \ {victim}) \cup {k}
    BY <1>1, <1>3, <1>4, <2>1
  <2> QED
    BY <2>2, <2>3, SameCount DEF Tables!InsertKey, Tables!Bounded
<1> QED
  BY <1>5, <1>6

\* And an upsert leaves the newcomer out of a full map.
LEMMA DirectoryUpserts ==
    ASSUME DirOK, NEW k \in TableKeys, NEW n \in Nat, dir' = DirectoryUpsert(k, n)
    PROVE  Tables!Upsert(k, [key |-> k, sequence |-> n])
<1> DEFINE op == [key |-> k, sequence |-> n]
<1>1. /\ DirOK'
      /\ ~InDir(k) /\ DirFull => dir' = dir
      /\ InDir(k) \/ ~DirFull =>
            \E s \in Slots :
               /\ Names(s, k) \/ (~InDir(k) /\ ~Taken(s))
               /\ dir'[s] = [occupied |-> TRUE, key |-> k, sequence |-> n]
               /\ \A t \in Slots : t # s => dir'[t] = dir[t]
  BY UpsertEffect
<1>2. /\ latest = {Shown(s) : s \in {t \in Slots : Taken(t)}}
      /\ Cardinality(latest) < Capacity <=> ~DirFull
  BY LatestCount
<1>3. latest' = {[key |-> dir'[s].key, sequence |-> dir'[s].sequence] :
                     s \in {t \in Slots : dir'[t].occupied}}
  BY <1>1, LatestIsNext DEF LatestIsShown, Shown, Taken, Slots
<1>4. InDir(k) <=> \E e \in latest : e.key = k
  <2>1. \A s : Shown(s).key = dir[s].key
    BY DEF Shown
  <2>2. ASSUME InDir(k) PROVE \E e \in latest : e.key = k
    <3>1. PICK s \in Slots : Names(s, k)
      BY <2>2 DEF InDir
    <3>2. Shown(s) \in latest /\ Shown(s).key = k
      BY <1>2, <2>1, <3>1 DEF Names
    <3> QED
      BY <3>2
  <2>3. ASSUME NEW e \in latest, e.key = k PROVE InDir(k)
    <3>1. PICK s \in Slots : Taken(s) /\ e = Shown(s)
      BY <1>2
    <3> QED
      BY <2>1, <2>3, <3>1 DEF InDir, Names
  <2> QED
    BY <2>2, <2>3
<1>5. CASE ~InDir(k) /\ DirFull
  <2>1. latest' = latest
    BY <1>1, <1>2, <1>3, <1>5 DEF Shown, Taken
  <2> QED
    BY <1>2, <1>4, <1>5, <2>1, SameCount DEF Tables!Upsert, Tables!Bounded
<1>6. CASE InDir(k) \/ ~DirFull
  <2>1. PICK s \in Slots :
           /\ Names(s, k) \/ (~InDir(k) /\ ~Taken(s))
           /\ dir'[s] = [occupied |-> TRUE, key |-> k, sequence |-> n]
           /\ \A t \in Slots : t # s => dir'[t] = dir[t]
    BY <1>1, <1>6
  <2>2. dir'[s].occupied /\ dir'[s].key = k /\ dir'[s].sequence = n
    BY <2>1
  <2>3. ASSUME NEW t \in Slots, t # s, Taken(t) PROVE dir[t].key # k
    <3> SUFFICES ASSUME dir[t].key = k PROVE FALSE
      OBVIOUS
    <3>1. InDir(k) /\ Names(t, k)
      BY <2>3 DEF InDir, Names
    <3>2. Names(s, k)
      BY <2>1, <3>1
    <3> QED
      BY <2>3, <3>1, <3>2 DEF DirOK, Names
  <2>4. ASSUME NEW e \in latest' PROVE e = op \/ (e \in latest /\ e.key # k)
    <3>1. PICK t \in Slots : dir'[t].occupied /\ e = [key |-> dir'[t].key, sequence |-> dir'[t].sequence]
      BY <1>3, <2>4
    <3>2. CASE t = s
      BY <2>2, <3>1, <3>2
    <3>3. CASE t # s
      <4>1. Taken(t) /\ e = Shown(t)
        BY <2>1, <3>1, <3>3 DEF Taken, Shown
      <4> QED
        BY <1>2, <2>3, <3>3, <4>1 DEF Shown
    <3> QED
      BY <3>2, <3>3
  <2>5. op \in latest'
    BY <1>3, <2>2
  <2>6. ASSUME NEW e \in latest, e.key # k PROVE e \in latest'
    <3>1. PICK t \in Slots : Taken(t) /\ e = Shown(t)
      BY <1>2, <2>6
    <3>2. t # s
      BY <2>1, <2>6, <3>1 DEF Names, Shown
    <3>3. dir'[t].occupied /\ e = [key |-> dir'[t].key, sequence |-> dir'[t].sequence]
      BY <2>1, <3>1, <3>2 DEF Taken, Shown
    <3> QED
      BY <1>3, <3>3
  <2>7. latest' = {e \in latest : e.key # k} \cup {op}
    BY <2>4, <2>5, <2>6
  <2> QED
    BY <1>2, <1>4, <1>6, <2>7, SameCount DEF Tables!Upsert, Tables!Bounded
<1> QED
  BY <1>5, <1>6

\* Neither view changes with its table unchanged.
LEMMA ViewsUnchanged ==
    /\ UNCHANGED ht => UNCHANGED found
    /\ UNCHANGED dir => UNCHANGED latest
<1>1. UNCHANGED ht => UNCHANGED found
  BY DEF found, SearchKey, Stops, StopsAt, Slots, Probe, HashFunc
<1>2. UNCHANGED dir => UNCHANGED latest
  BY DEF latest, future_lookup_state, future_lookup_index, Slots, DirProbe
<1> QED
  BY <1>1, <1>2

\* Every step of the two tables is a step of the bounded ones or changes
\* neither.
LEMMA TablesRefine ==
    ASSUME DirInv, TablesNext \/ UNCHANGED tableVars
    PROVE  Tables!Next \/ UNCHANGED <<found, latest>>
<1>1. ASSUME NEW k \in TableKeys, future_insert(k) PROVE Tables!Next
  <2>1. issued + 1 \in 1 .. MaxSequence /\ issued + 1 \in Nat
    BY <1>1, TablesAssumption DEF future_insert, DirInv, FilterInv, CoverOK
  <2>2. Tables!InsertKey(k)
    BY <1>1, FilterInserts DEF future_insert, DirInv, FilterInv
  <2>3. Tables!Upsert(k, [key |-> k, sequence |-> issued + 1])
    BY <1>1, <2>1, DirectoryUpserts DEF future_insert, DirInv
  <2> QED
    BY <2>1, <2>2, <2>3 DEF Tables!Next
<1>2. CASE future_clear_lookup_state_for_threads
  <2>1. dir' = [s \in Slots |-> Free] /\ ht' = ht
    BY <1>2 DEF future_clear_lookup_state_for_threads
  <2>2. DirOK' /\ \A s \in Slots : ~Taken(s)'
    BY <2>1, DirEmptyNext DEF DirEmptyIs, Slots
  <2>3. latest' = {}
    BY <2>2, LatestIsNext DEF LatestIsShown, Slots
  <2> QED
    BY <2>1, <2>3, ViewsUnchanged DEF Tables!Next
<1>3. ASSUME NEW k \in TableKeys, RemoveKey(k) PROVE Tables!Next
  <2>1. ht' = Remove(k) /\ ht' # ht /\ dir' = dir
    BY <1>3 DEF RemoveKey
  <2>2. /\ HtOK' /\ ~InTable(k)' /\ InTable(k)
        /\ \A x \in TableKeys : x # k => (InTable(x)' <=> InTable(x))
    BY <2>1, RemoveEffect DEF DirInv, FilterInv
  <2>3. \A x : x \in found <=> x \in TableKeys /\ InTable(x)
    BY FoundCount DEF DirInv, FilterInv
  <2>4. \A x : x \in found' <=> x \in TableKeys /\ InTable(x)'
    BY <2>2, SearchIsNext DEF found, SearchIsInTable
  <2>5. k \in found /\ found' = found \ {k}
    BY <2>2, <2>3, <2>4
  <2> QED
    BY <2>1, <2>5, ViewsUnchanged DEF Tables!Next
<1>4. CASE (\E k \in TableKeys : StartSearch(k)) \/ ReadSlot \/ Reread \/ EndSearch
  <2>1. UNCHANGED ht /\ UNCHANGED dir
    BY <1>4 DEF StartSearch, ReadSlot, Reread, EndSearch
  <2> QED
    BY <2>1, ViewsUnchanged
<1>5. CASE UNCHANGED tableVars
  BY <1>5, ViewsUnchanged DEF tableVars
<1> QED
  BY <1>1, <1>2, <1>3, <1>4, <1>5 DEF TablesNext

\* Probing, tombstones, reused slots and wrap-around implement the bounded
\* set and the bounded map that FutureBTree is modelled with
\* (ImplementsBoundedTables), for any number of slots and any keys.
THEOREM TablesAreBounded == Spec => ImplementsBoundedTables
<1>1. Init => Tables!Init
  <2> SUFFICES ASSUME Init PROVE Tables!Init
    OBVIOUS
  <2>1. HtOK /\ (\A s \in Slots : ht[s] = NULL) /\ dir = [s \in Slots |-> Free]
    BY FilterInit DEF Init, TablesInit, FilterInv
  <2>2. found = {}
    BY <2>1, FoundCount, SlotKinds DEF InTable
  <2>3. latest = {}
    BY <2>1, DirEmpty, LatestIs DEF LatestIsShown
  <2> QED
    BY <2>2, <2>3 DEF Tables!Init
<1>2. DirInv /\ [Next]_<<subject, tableVars, indexVars>> => [Tables!Next]_<<found, latest>>
  BY TablesRefine DEF Next
<1> QED
  BY <1>1, <1>2, DirInvariant, PTL DEF Spec, ImplementsBoundedTables

-----------------------------------------------------------------------------
(* The benchmark's index. *)

\* The i-th slot on the probe path of key.
Path(key, i) == (normalize(key) + i) % Size

\* A table with a key has a slot.
LEMMA IndexSize ==
    /\ Size \in Nat
    /\ IndexKeys # {} => Size \in Nat \ {0}
    /\ IsFiniteSet(Index) /\ Cardinality(Index) = Size
<1>1. Size \in Nat
  BY IndexAssumption, FS_CardinalityType DEF Size
<1>2. IndexKeys # {} => Size # 0
  BY IndexAssumption, FS_EmptySet DEF Size
<1>3. IsFiniteSet(Index) /\ Cardinality(Index) = Size
  BY <1>1, FS_Interval DEF Index
<1> QED
  BY <1>1, <1>2, <1>3

\* The probe path of a key meets every slot once.
LEMMA PathPermutes ==
    ASSUME NEW key \in IndexKeys
    PROVE  /\ \A i \in Index : i \in Nat /\ Path(key, i) \in Index
           /\ \A i, j \in Index : Path(key, i) = Path(key, j) => i = j
           /\ \A s \in Index : \E i \in Index : s = Path(key, i)
<1> DEFINE h == normalize(key)
<1>1. Size \in Nat \ {0} /\ key \in Int
  BY IndexSize, IndexAssumption
<1>2. h \in 0 .. (Size - 1)
  <2>1. (key % Size) + Size \in Int
    BY <1>1, ModRange
  <2> QED
    BY <1>1, <2>1, ModRange DEF normalize
<1> HIDE DEF h
<1>3. \A i \in Index : (h + i) % Size = Wrap(h + i, Size)
  BY <1>1, <1>2, ModWrap DEF Index
<1>4. \A i \in Index : Path(key, i) = Wrap(h + i, Size)
  BY <1>3 DEF Path, h
<1>5. /\ \A i \in Index : Wrap(h + i, Size) \in Index
      /\ \A i, j \in Index : Wrap(h + i, Size) = Wrap(h + j, Size) => i = j
      /\ \A s \in Index : \E i \in Index : s = Wrap(h + i, Size)
  BY <1>1, <1>2, WrapPermutes, Zenon DEF Index
<1>6. \A i \in Index : i \in Nat
  BY <1>1 DEF Index
<1> QED
  BY <1>4, <1>5, <1>6

States == {"present", "tombstone", "absent"}

IndexRecords == [occupied : {TRUE}, key : IndexKeys, owner : Owners \cup {-1},
                 state : States, sequence : Nat]

Updates == [owner : Owners \cup {-1}, state : States, sequence : Nat]

Used(s) == slots_[s].occupied

Holds(s, key) == Used(s) /\ slots_[s].key = key

HasSlot(key) == \E s \in Index : Holds(s, key)

Present == {k \in IndexKeys : model[k].state # "absent"}

\* A key has at most one slot, with no free slot before it on its path.
ProbesOK ==
    /\ slots_ \in [Index -> {EmptySlot} \cup IndexRecords]
    /\ \A s, t \in Index : Used(s) /\ Used(t) /\ slots_[s].key = slots_[t].key => s = t
    /\ \A key \in IndexKeys : \A i, j \in Index :
          Holds(Path(key, i), key) /\ j < i => Used(Path(key, j))

\* The slot of a key holds its last update; a key without one was never set;
\* a cleared key is as if never set.
ModelOK ==
    /\ model \in [IndexKeys -> Updates]
    /\ \A key \in IndexKeys : \A s \in Index :
          Holds(s, key) => /\ slots_[s].owner = model[key].owner
                           /\ slots_[s].state = model[key].state
                           /\ slots_[s].sequence = model[key].sequence
    /\ \A key \in IndexKeys : ~HasSlot(key) => model[key] = Unset
    /\ \A key \in IndexKeys : model[key].state = "absent" => model[key] = Unset

IndexInv ==
    /\ ProbesOK
    /\ ModelOK
    /\ next_sequence_ \in Nat
    /\ size_ = Cardinality(Present)

\* A slot is empty or holds a record.
LEMMA IndexSlots ==
    ASSUME ProbesOK, NEW s \in Index
    PROVE  /\ Used(s) \in BOOLEAN
           /\ Used(s) => slots_[s] \in IndexRecords
           /\ ~Used(s) => slots_[s] = EmptySlot
<1>1. slots_[s] = EmptySlot \/ slots_[s] \in IndexRecords
  BY DEF ProbesOK
<1>2. EmptySlot.occupied = FALSE /\ \A e \in IndexRecords : e.occupied = TRUE
  BY DEF EmptySlot, IndexRecords
<1> QED
  BY <1>1, <1>2, Zenon DEF Used

\* With as many slots as keys, a key without a slot finds one free.
LEMMA FreeSlot ==
    ASSUME ProbesOK, NEW key \in IndexKeys, ~HasSlot(key)
    PROVE  \E s \in Index : ~Used(s)
<1> SUFFICES ASSUME \A s \in Index : Used(s) PROVE FALSE
  OBVIOUS
<1>1. PICK f : f = [s \in Index |-> slots_[s].key]
  OBVIOUS
<1>2. f \in [Index -> IndexKeys]
  BY <1>1, IndexSlots DEF IndexRecords
<1>3. \A s, t \in Index : f[s] = f[t] => s = t
  BY <1>1 DEF ProbesOK
<1>4. f \in Injection(Index, IndexKeys)
  BY <1>2, <1>3 DEF Injection, IsInjective
<1>5. f \in Surjection(Index, IndexKeys)
  <2>1. IsFiniteSet(IndexKeys) /\ Cardinality(Index) = Cardinality(IndexKeys)
    BY IndexAssumption, IndexSize DEF Size
  <2> QED
    BY <1>4, <2>1, FS_Injection
<1>6. PICK s \in Index : f[s] = key
  BY <1>5 DEF Surjection
<1> QED
  BY <1>1, <1>6 DEF HasSlot, Holds

\* What find_slot and find_or_allocate_slot return.
LEMMA FindSlot ==
    ASSUME ProbesOK, NEW key \in IndexKeys, NEW s, s = find_slot(key)
    PROVE  /\ HasSlot(key) => s \in Index /\ Holds(s, key)
           /\ ~HasSlot(key) => s = Size
<1> DEFINE hits == {i \in Index : /\ Holds(Path(key, i), key)
                                  /\ \A j \in 0 .. i : Used(Path(key, j))}
<1>1. /\ \A i \in Index : i \in Nat /\ Path(key, i) \in Index
      /\ \A t \in Index : \E i \in Index : t = Path(key, i)
  BY PathPermutes
<1>2. s = IF hits = {} THEN Size ELSE Path(key, Min(hits))
  BY DEF find_slot, At, Path, Holds, Used
<1>3. hits # {} => Min(hits) \in hits
  <2>1. hits \in SUBSET (0 .. (Size - 1)) /\ Size \in Nat
    BY IndexSize DEF Index
  <2> QED
    BY <2>1, FirstAndLast
<1>4. CASE hits = {}
  <2>1. ASSUME HasSlot(key) PROVE FALSE
    <3>1. PICK i \in Index : Holds(Path(key, i), key)
      BY <1>1, <2>1 DEF HasSlot
    <3>2. ASSUME NEW j \in 0 .. i PROVE Used(Path(key, j))
      <4>1. CASE j = i
        BY <3>1, <4>1 DEF Holds
      <4>2. CASE j < i
        <5>1. j \in Index
          BY <1>1, <3>1, <4>2, IndexSize DEF Index
        <5> QED
          BY <3>1, <4>2, <5>1 DEF ProbesOK
      <4> QED
        BY <1>1, <3>2, <4>1, <4>2
    <3> QED
      BY <1>4, <3>1, <3>2
  <2> QED
    BY <1>2, <1>4, <2>1
<1>5. CASE hits # {}
  <2>1. PICK m \in hits : m = Min(hits)
    BY <1>3, <1>5
  <2> QED
    BY <1>1, <1>2, <1>5, <2>1 DEF HasSlot
<1> QED
  BY <1>4, <1>5

LEMMA FindOrAllocate ==
    ASSUME ProbesOK, NEW key \in IndexKeys, NEW s, s = find_or_allocate_slot(key)
    PROVE  /\ s \in Index
           /\ HasSlot(key) => Holds(s, key)
           /\ ~HasSlot(key) =>
                 /\ ~Used(s)
                 /\ \A i, j \in Index : s = Path(key, i) /\ j < i => Used(Path(key, j))
<1> DEFINE free == {i \in Index : ~Used(Path(key, i))}
<1>1. /\ \A i \in Index : i \in Nat /\ Path(key, i) \in Index
      /\ \A t \in Index : \E i \in Index : t = Path(key, i)
      /\ \A i, j \in Index : Path(key, i) = Path(key, j) => i = j
  BY PathPermutes
<1>2. PICK f : f = find_slot(key)
  OBVIOUS
<1>3. /\ HasSlot(key) => f \in Index /\ Holds(f, key)
      /\ ~HasSlot(key) => f = Size
  BY <1>2, FindSlot
<1>4. Size \notin Index
  BY IndexSize DEF Index
<1>5. s = IF f # Size THEN f ELSE IF free = {} THEN Size ELSE Path(key, Min(free))
  BY <1>2 DEF find_or_allocate_slot, At, Path, Used
<1>6. CASE HasSlot(key)
  BY <1>3, <1>4, <1>5, <1>6
<1>7. CASE ~HasSlot(key)
  <2>1. free # {}
    BY <1>1, <1>7, FreeSlot
  <2>2. PICK m \in free : m = Min(free) /\ \A i \in free : m <= i
    <3>1. free \in SUBSET (0 .. (Size - 1)) /\ Size \in Nat
      BY IndexSize DEF Index
    <3> QED
      BY <2>1, <3>1, FirstAndLast
  <2>3. s = Path(key, m) /\ m \in Index /\ ~Used(s)
    BY <1>3, <1>5, <1>7, <2>1, <2>2
  <2>4. ASSUME NEW j \in Index, j < m PROVE Used(Path(key, j))
    <3>1. j \in Nat /\ m \in Nat
      BY <1>1, <2>3
    <3>2. j \in free => m <= j
      BY <2>2
    <3>3. j \notin free
      BY <2>4, <3>1, <3>2
    <3> QED
      BY <3>3
  <2> QED
    BY <1>1, <1>7, <2>3, <2>4
<1> QED
  BY <1>6, <1>7

\* Writing an update of a key to its slot, or to the free slot found for it.
LEMMA WriteSlot ==
    ASSUME ProbesOK, ModelOK, NEW key \in IndexKeys, NEW s \in Index,
           \/ Holds(s, key)
           \/ /\ ~HasSlot(key) /\ ~Used(s)
              /\ \A i, j \in Index : s = Path(key, i) /\ j < i => Used(Path(key, j)),
           NEW new \in IndexRecords, new.key = key,
           NEW update \in Updates, update.state = "absent" => update = Unset,
           new.owner = update.owner, new.state = update.state, new.sequence = update.sequence,
           slots_' = [slots_ EXCEPT ![s] = new],
           model' = [model EXCEPT ![key] = update]
    PROVE  ProbesOK' /\ ModelOK'
<1>1. new.occupied
  BY DEF IndexRecords
<1>2. /\ slots_'[s] = new
      /\ \A t \in Index : t # s => slots_'[t] = slots_[t]
      /\ slots_' \in [Index -> {EmptySlot} \cup IndexRecords]
  BY DEF ProbesOK
<1>3. /\ Used(s)' /\ slots_'[s].key = key
      /\ \A t \in Index : t # s => (Used(t)' <=> Used(t)) /\ slots_'[t].key = slots_[t].key
  BY <1>1, <1>2 DEF Used
<1>4. \A t \in Index : t # s /\ Used(t) => slots_[t].key # key
  <2> SUFFICES ASSUME NEW t \in Index, t # s, Used(t), slots_[t].key = key PROVE FALSE
    OBVIOUS
  <2>1. HasSlot(key)
    BY DEF HasSlot, Holds
  <2>2. Holds(s, key)
    BY <2>1
  <2> QED
    BY <2>2 DEF ProbesOK, Holds
<1>5. ASSUME NEW t \in Index, NEW u \in Index, Used(t)', Used(u)', slots_'[t].key = slots_'[u].key
      PROVE  t = u
  BY <1>3, <1>4, <1>5 DEF ProbesOK
<1>6. ASSUME NEW x \in IndexKeys, NEW i \in Index, NEW j \in Index, Holds(Path(x, i), x)', j < i
      PROVE  Used(Path(x, j))'
  <2>1. PICK t \in Index, u \in Index : t = Path(x, i) /\ u = Path(x, j)
    BY PathPermutes
  <2>2. Used(t)' /\ slots_'[t].key = x
    BY <1>6, <2>1 DEF Holds, Used, Path, normalize
  <2>3. Used(u)
    <3>1. CASE t # s \/ Holds(s, key)
      <4>1. Holds(t, x)
        BY <1>3, <2>2, <3>1 DEF Holds
      <4> QED
        BY <1>6, <2>1, <4>1 DEF ProbesOK
    <3>2. CASE t = s /\ ~Holds(s, key)
      <4>1. x = key
        BY <1>3, <2>2, <3>2
      <4> QED
        BY <1>6, <2>1, <3>2, <4>1
    <3> QED
      BY <3>1, <3>2
  <2>4. Used(u)'
    BY <1>3, <2>3
  <2> QED
    BY <2>1, <2>4 DEF Used, Path, normalize
<1>7. ProbesOK'
  BY <1>2, <1>5, <1>6 DEF ProbesOK, Index, Path, normalize, EmptySlot, IndexRecords
<1>8. /\ model' \in [IndexKeys -> Updates]
      /\ model'[key] = update
      /\ \A x \in IndexKeys : x # key => model'[x] = model[x]
  BY DEF ModelOK
<1>9. ASSUME NEW x \in IndexKeys, NEW t \in Index, Holds(t, x)'
      PROVE  /\ slots_'[t].owner = model'[x].owner
             /\ slots_'[t].state = model'[x].state
             /\ slots_'[t].sequence = model'[x].sequence
  <2>1. CASE t = s
    <3>1. x = key
      BY <1>3, <1>9, <2>1 DEF Holds
    <3> QED
      BY <1>2, <1>8, <2>1, <3>1
  <2>2. CASE t # s
    <3>1. Holds(t, x)
      BY <1>3, <1>9, <2>2 DEF Holds
    <3>2. x # key
      BY <1>4, <2>2, <3>1 DEF Holds
    <3> QED
      BY <1>2, <1>8, <2>2, <3>1, <3>2 DEF ModelOK
  <2> QED
    BY <2>1, <2>2
<1>10. ASSUME NEW x \in IndexKeys, ~HasSlot(x)' PROVE model'[x] = Unset
  <2>1. x # key
    BY <1>3, <1>10 DEF HasSlot, Holds
  <2>2. ~HasSlot(x)
    <3> SUFFICES ASSUME NEW t \in Index, Holds(t, x) PROVE FALSE
      BY DEF HasSlot
    <3>1. t # s
      BY <2>1 DEF Holds, HasSlot
    <3>2. Holds(t, x)'
      BY <1>3, <3>1 DEF Holds
    <3> QED
      BY <1>10, <3>2 DEF HasSlot, Index
  <2> QED
    BY <1>8, <2>1, <2>2 DEF ModelOK
<1>11. ASSUME NEW x \in IndexKeys, model'[x].state = "absent" PROVE model'[x] = Unset
  BY <1>8, <1>11 DEF ModelOK
<1>12. ModelOK'
  BY <1>8, <1>9, <1>10, <1>11 DEF ModelOK, Index, Updates, Unset
<1> QED
  BY <1>7, <1>12

\* upsert and erase.
LEMMA SetStep ==
    ASSUME IndexInv, NEW key \in IndexKeys, NEW owner \in Owners,
           NEW state \in {"present", "tombstone"}, Set(key, owner, state)
    PROVE  IndexInv'
<1> DEFINE update == [owner |-> owner, state |-> state, sequence |-> next_sequence_]
           new == [occupied |-> TRUE, key |-> key, owner |-> owner,
                   state |-> state, sequence |-> next_sequence_]
<1>1. PICK s : s = find_or_allocate_slot(key)
  OBVIOUS
<1>2. /\ s \in Index
      /\ HasSlot(key) => Holds(s, key)
      /\ ~HasSlot(key) =>
            /\ ~Used(s)
            /\ \A i, j \in Index : s = Path(key, i) /\ j < i => Used(Path(key, j))
  BY <1>1, FindOrAllocate DEF IndexInv
<1>3. /\ slots_' = [slots_ EXCEPT ![s] = new]
      /\ model' = [model EXCEPT ![key] = update]
      /\ next_sequence_' = next_sequence_ + 1
      /\ size_' = IF ~Used(s) \/ slots_[s].state = "absent" THEN size_ + 1 ELSE size_
  BY <1>1 DEF Set, Used
<1>4. new \in IndexRecords /\ update \in Updates /\ next_sequence_' \in Nat
  BY <1>3 DEF IndexInv, IndexRecords, Updates, States
<1>5. /\ new.key = key /\ new.owner = update.owner /\ new.state = update.state
      /\ new.sequence = update.sequence /\ update.state # "absent"
  OBVIOUS
<1> HIDE DEF new, update
<1>6. ProbesOK' /\ ModelOK'
  BY <1>2, <1>3, <1>4, <1>5, WriteSlot DEF IndexInv
<1>7. ~Used(s) \/ slots_[s].state = "absent" <=> key \notin Present
  <2>1. CASE HasSlot(key)
    BY <1>2, <2>1 DEF IndexInv, ModelOK, Present, Holds
  <2>2. CASE ~HasSlot(key)
    <3>1. model[key].state = "absent"
      BY <2>2 DEF IndexInv, ModelOK, Unset
    <3> QED
      BY <1>2, <2>2, <3>1 DEF Present
  <2> QED
    BY <2>1, <2>2
<1>8. Present' = Present \cup {key}
  BY <1>3, <1>5 DEF Present, IndexInv, ModelOK
<1>9. IsFiniteSet(Present) /\ Cardinality(Present) \in Nat
  BY IndexAssumption, FS_Subset, FS_CardinalityType DEF Present
<1>10. Cardinality(Present \cup {key}) =
         IF key \in Present THEN Cardinality(Present) ELSE Cardinality(Present) + 1
  BY <1>9, FS_AddElement
<1>11. size_' = Cardinality(Present')
  BY <1>3, <1>7, <1>8, <1>10 DEF IndexInv
<1> QED
  BY <1>4, <1>6, <1>11 DEF IndexInv

\* clear_entry: the slot keeps its key.
LEMMA ClearEntryStep ==
    ASSUME IndexInv, NEW key \in IndexKeys, clear_entry(key)
    PROVE  IndexInv'
<1>1. PICK s : s = find_slot(key)
  OBVIOUS
<1>2. s # Size /\ slots_[s].state # "absent"
  BY <1>1 DEF clear_entry, has_entry, state_for
<1>3. s \in Index /\ Holds(s, key) /\ slots_[s] \in IndexRecords
  BY <1>1, <1>2, FindSlot, IndexSlots DEF IndexInv, Holds
<1>4. PICK new : new = [slots_[s] EXCEPT !.owner = -1, !.state = "absent", !.sequence = 0]
  OBVIOUS
<1>5. /\ slots_' = [slots_ EXCEPT ![s] = new]
      /\ model' = [model EXCEPT ![key] = Unset]
      /\ next_sequence_' = next_sequence_
      /\ size_' = IF size_ > 0 THEN size_ - 1 ELSE 0
  BY <1>1, <1>3, <1>4 DEF clear_entry, IndexInv, ProbesOK
<1>6. /\ new \in IndexRecords /\ new.key = key
      /\ new.owner = -1 /\ new.state = "absent" /\ new.sequence = 0
  BY <1>3, <1>4 DEF IndexRecords, Holds, States
<1>7. Unset \in Updates /\ Unset.owner = -1 /\ Unset.state = "absent" /\ Unset.sequence = 0
  BY DEF Unset, Updates, States
<1>8. ProbesOK' /\ ModelOK'
  BY <1>3, <1>5, <1>6, <1>7, WriteSlot DEF IndexInv
<1>9. key \in Present
  BY <1>2, <1>3 DEF IndexInv, ModelOK, Present
<1>10. Present' = Present \ {key}
  BY <1>5, <1>7 DEF Present, IndexInv, ModelOK
<1>11. IsFiniteSet(Present) /\ Cardinality(Present) \in Nat
  BY IndexAssumption, FS_Subset, FS_CardinalityType DEF Present
<1>12. Cardinality(Present \ {key}) = Cardinality(Present) - 1 /\ Cardinality(Present \ {key}) \in Nat
  BY <1>9, <1>11, FS_RemoveElement, FS_CardinalityType
<1>13. size_' = Cardinality(Present')
  BY <1>5, <1>10, <1>11, <1>12 DEF IndexInv
<1> QED
  BY <1>5, <1>8, <1>13 DEF IndexInv

IndexEmptyIs ==
    /\ slots_ = [i \in Index |-> EmptySlot]
    /\ size_ = 0
    /\ next_sequence_ = 1
    /\ model = [k \in IndexKeys |-> Unset]
    => IndexInv

\* A new or a cleared index.
LEMMA IndexEmpty == IndexEmptyIs
<1> SUFFICES ASSUME slots_ = [i \in Index |-> EmptySlot], size_ = 0, next_sequence_ = 1,
                    model = [k \in IndexKeys |-> Unset]
             PROVE  IndexInv
  BY DEF IndexEmptyIs
<1>1. EmptySlot.occupied = FALSE /\ Unset \in Updates /\ Unset.state = "absent"
  BY DEF EmptySlot, Unset, Updates, States
<1>2. \A s \in Index : ~Used(s)
  BY <1>1, Zenon DEF Used
<1>3. ProbesOK
  BY <1>2, PathPermutes DEF ProbesOK, Holds
<1>4. ModelOK
  BY <1>1, <1>2 DEF ModelOK, Holds
<1>5. Present = {}
  BY <1>1 DEF Present
<1> QED
  BY <1>3, <1>4, <1>5, FS_EmptySet DEF IndexInv

\* The same after a step.
LEMMA IndexEmptyNext == IndexEmptyIs'
BY IndexEmpty, PTL

LEMMA IndexInvariant == Spec => []IndexInv
<1>1. Init => IndexInv
  BY IndexEmpty DEF Init, IndexInit, IndexEmptyIs
<1>2. IndexInv /\ [Next]_<<subject, tableVars, indexVars>> => IndexInv'
  <2> SUFFICES ASSUME IndexInv, IndexNext \/ UNCHANGED indexVars PROVE IndexInv'
    BY DEF Next
  <2>1. ASSUME NEW key \in IndexKeys, NEW owner \in Owners, upsert(key, owner) \/ erase(key, owner)
        PROVE  IndexInv'
    BY <2>1, SetStep DEF upsert, erase
  <2>2. ASSUME NEW key \in IndexKeys, clear_entry(key) PROVE IndexInv'
    BY <2>2, ClearEntryStep
  <2>3. CASE clear
    BY <2>3, IndexEmptyNext DEF clear, IndexEmptyIs, Index, EmptySlot, Unset
  <2>4. CASE UNCHANGED indexVars
    BY <2>4 DEF indexVars, IndexInv, ProbesOK, ModelOK, Present, HasSlot, Holds, Used,
                Path, normalize, Index
  <2> QED
    BY <2>1, <2>2, <2>3, <2>4 DEF IndexNext
<1> QED
  BY <1>1, <1>2, PTL DEF Spec

\* The entries are the model's, one for each key that has one.
LEMMA EntriesAre ==
    ASSUME IndexInv
    PROVE  /\ entries = {[key |-> k, owner |-> model[k].owner, state |-> model[k].state,
                          sequence |-> model[k].sequence] : k \in Present}
           /\ Cardinality(entries) = Cardinality(Present)
<1> DEFINE row(k) == [key |-> k, owner |-> model[k].owner, state |-> model[k].state,
                      sequence |-> model[k].sequence]
           shown(s) == [key |-> slots_[s].key, owner |-> slots_[s].owner,
                        state |-> slots_[s].state, sequence |-> slots_[s].sequence]
<1>1. entries = {shown(s) : s \in {j \in Index : Used(j) /\ slots_[j].state # "absent"}}
  BY DEF entries, Used
<1>2. ASSUME NEW s \in Index, Used(s)
      PROVE  slots_[s].key \in IndexKeys /\ shown(s) = row(slots_[s].key)
             /\ slots_[s].state = model[slots_[s].key].state
  <2>1. PICK k \in IndexKeys : k = slots_[s].key
    BY <1>2, IndexSlots DEF IndexInv, IndexRecords
  <2>2. Holds(s, k)
    BY <1>2, <2>1 DEF Holds
  <2>3. /\ slots_[s].owner = model[k].owner
        /\ slots_[s].state = model[k].state
        /\ slots_[s].sequence = model[k].sequence
    BY <2>2 DEF IndexInv, ModelOK
  <2> QED
    BY <2>1, <2>3
<1>3. ASSUME NEW k \in Present PROVE \E s \in Index : Used(s) /\ slots_[s].key = k
  <2>1. k \in IndexKeys /\ model[k].state # "absent"
    BY DEF Present
  <2>2. HasSlot(k)
    BY <2>1 DEF IndexInv, ModelOK, Unset
  <2> QED
    BY <2>2 DEF HasSlot, Holds
<1>4. ASSUME NEW e \in entries PROVE \E k \in Present : e = row(k)
  <2>1. PICK s \in Index : Used(s) /\ slots_[s].state # "absent" /\ e = shown(s)
    BY <1>1
  <2>2. slots_[s].key \in Present /\ e = row(slots_[s].key)
    BY <1>2, <2>1 DEF Present
  <2> QED
    BY <2>2
<1>5. ASSUME NEW k \in Present PROVE row(k) \in entries
  <2>1. PICK s \in Index : Used(s) /\ slots_[s].key = k
    BY <1>3
  <2>2. slots_[s].state # "absent" /\ shown(s) = row(k)
    BY <1>2, <2>1 DEF Present
  <2> QED
    BY <1>1, <2>1, <2>2
<1>6. entries = {row(k) : k \in Present}
  BY <1>4, <1>5
<1>7. \A k : row(k).key = k
  OBVIOUS
<1> HIDE DEF row
<1>8. ExistsBijection(Present, entries)
  <2>1. PICK f : f = [k \in Present |-> row(k)]
    OBVIOUS
  <2>2. f \in [Present -> entries]
    BY <1>5, <2>1
  <2>3. \A k, x \in Present : f[k] = f[x] => k = x
    BY <1>7, <2>1
  <2>4. \A e \in entries : \E k \in Present : f[k] = e
    BY <1>4, <2>1
  <2> QED
    BY <2>2, <2>3, <2>4 DEF ExistsBijection, Bijection, Injection, Surjection, IsInjective
<1>9. IsFiniteSet(Present)
  BY IndexAssumption, FS_Subset DEF Present
<1>10. Cardinality(entries) = Cardinality(Present)
  BY <1>8, <1>9, FS_Bijection
<1> QED
  BY <1>6, <1>10 DEF row

\* The benchmark's index answers as a map of its keys would, and counts its
\* entries right (IndexIsMap), for any number of keys: with as many slots as
\* keys an upsert always finds one.
THEOREM HashIndexIsMap == Spec => []IndexIsMap
<1>1. IndexInv => IndexIsMap
  <2> SUFFICES ASSUME IndexInv PROVE IndexIsMap
    OBVIOUS
  <2>1. ASSUME NEW k \in IndexKeys
        PROVE  /\ has_entry(k) = (model[k].state # "absent")
               /\ contains(k) = (model[k].state = "present")
               /\ owner_for(k) = model[k].owner
    <3>1. PICK s : s = find_slot(k)
      OBVIOUS
    <3>2. CASE HasSlot(k)
      <4>1. s \in Index /\ Holds(s, k) /\ s # Size
        BY <3>1, <3>2, FindSlot, IndexSize DEF IndexInv, Index
      <4>2. slots_[s].state = model[k].state /\ slots_[s].owner = model[k].owner
        BY <4>1 DEF IndexInv, ModelOK
      <4>3. state_for(k) = model[k].state
        BY <3>1, <4>1, <4>2 DEF state_for
      <4>4. owner_for(k) = model[k].owner
        <5>1. model[k].state = "absent" => model[k].owner = -1
          BY DEF IndexInv, ModelOK, Unset
        <5> QED
          BY <3>1, <4>2, <4>3, <5>1 DEF owner_for, has_entry
      <4> QED
        BY <4>3, <4>4 DEF has_entry, contains
    <3>3. CASE ~HasSlot(k)
      <4>1. s = Size
        BY <3>1, <3>3, FindSlot DEF IndexInv
      <4>2. model[k].state = "absent" /\ model[k].owner = -1
        BY <3>3 DEF IndexInv, ModelOK, Unset
      <4>3. state_for(k) = "absent"
        BY <3>1, <4>1 DEF state_for
      <4> QED
        BY <4>2, <4>3 DEF has_entry, contains, owner_for
    <3> QED
      BY <3>2, <3>3
  <2>2. /\ entries = {[key |-> k, owner |-> model[k].owner, state |-> model[k].state,
                       sequence |-> model[k].sequence] : k \in Present}
        /\ size_ = Cardinality(entries)
    BY EntriesAre DEF IndexInv
  <2> QED
    BY <2>1, <2>2 DEF IndexIsMap, Present
<1> QED
  BY <1>1, IndexInvariant, PTL

=============================================================================

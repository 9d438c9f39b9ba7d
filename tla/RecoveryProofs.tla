--------------------------- MODULE RecoveryProofs ---------------------------
(***************************************************************************)
(* Proofs about PtfoRecovery: whatever a crash leaves of a chain, recovery *)
(* can walk it and resumes above every sequence number in it, and in F3-N  *)
(* it finds what was acknowledged.  The faults are those the code survives *)
(* (~CrashInDrain, ~PowerAfterDrain).                                      *)
(***************************************************************************)
EXTENDS PtfoRecovery, NatSetTheorems, SequenceTheorems

-----------------------------------------------------------------------------
(* The inductive invariant.  It does not say what the chain is, only that  *)
(* there is a set of nodes no walk from the head can leave.                *)

Ops == [key : Keys, is_delete : BOOLEAN, sequence : Nat]

\* The memories a crash may take words from.
Memories == IF everDrained THEN {mem} ELSE {mem, pmem}

\* In m a walk from the head stays in G.
Closed(m, G) ==
    /\ m[head] \in G \cup {Null}
    /\ \A n \in G : m[<<n, "next">>] \in G \cup {Null}

\* The count of n in m1 fits its entries in m2, and they are older than what
\* is issued next.
Readable(m1, m2, n) ==
    /\ m2[<<n, "ops">>] \in Seq(Ops)
    /\ m1[<<n, "count">>] \in 1 .. Len(m2[<<n, "ops">>])
    /\ \A i \in 1 .. m1[<<n, "count">>] : m2[<<n, "ops">>][i].sequence < next_ptfo_sequence

Good(G) ==
    /\ G \in SUBSET Nodes
    /\ \A m \in Memories : Closed(m, G)
    /\ \A m1, m2 \in Memories : \A n \in G : Readable(m1, m2, n)
    /\ \A m \in Memories : \A n \in G : m[<<n, "count">>] <= mem[<<n, "count">>]

\* The steps of future_insert in its three cases.
FirstSteps(n, o) ==
    NewNode(n, o, Null) \o
    << Flush(NodeWords(n)), Store(head, n), Store(tail, n), Flush({head}), Flush({tail}) >>

LinkSteps(n, o, h) ==
    NewNode(n, o, h) \o
    << Flush(NodeWords(n)), Store(<<h, "prev">>, n), Flush({<<h, "prev">>}),
       Store(head, n), Flush({head}) >>

EntrySteps(h, ops, count) ==
    << Store(<<h, "ops">>, ops), Flush(NodeWords(h)),
       Store(<<h, "count">>, count), Flush({<<h, "count">>}) >>

\* What is left of the call are the last steps of all.
Rest(all) == \E k \in 0 .. Len(all) : todo = SubSeq(all, Len(all) - k + 1, Len(all))

\* A new node is not reachable before it is complete and durable.
NodeStage(k, G, n, o, h, linked) ==
    /\ n \in Nodes /\ o \in Ops /\ o.sequence < next_ptfo_sequence
    /\ h \in G \cup {Null}
    /\ k = 10 => n \notin allocated /\ Cardinality(allocated) < issued
    /\ k <= 9 => n \in allocated
    /\ k <= 8 => mem[<<n, "ops">>] = <<o>>
    /\ k <= 7 => mem[<<n, "count">>] = 1
    /\ k <= 5 => mem[<<n, "next">>] = h
    /\ k <= 4 => \A f \in {"ops", "count", "next"} : pmem[<<n, f>>] = mem[<<n, f>>]
    /\ k >= linked => n \notin G

\* An entry is durable before the count takes it in.
EntryStage(k, G, h, ops, count) ==
    /\ h \in G /\ ops \in Seq(Ops) /\ count \in Nat
    /\ Len(ops) = count + 1
    /\ \A i \in 1 .. Len(ops) : ops[i].sequence < next_ptfo_sequence
    /\ k >= 2 => mem[<<h, "count">>] = count
    /\ k <= 3 => mem[<<h, "ops">>] = ops
    /\ k <= 2 => pmem[<<h, "ops">>] = ops
    /\ k <= 1 => mem[<<h, "count">>] = count + 1

InsertStage(G) ==
    \/ \E n, o : Rest(FirstSteps(n, o)) /\ NodeStage(Len(todo), G, n, o, Null, 4)
    \/ \E n, o, h : h \in G /\ Rest(LinkSteps(n, o, h)) /\ NodeStage(Len(todo), G, n, o, h, 2)
    \/ \E h, ops, count : Rest(EntrySteps(h, ops, count + 1)) /\ EntryStage(Len(todo), G, h, ops, count)

\* A drain resets the head, and does nothing else to what the head leads to.
DrainStep(s) ==
    \/ s.do \in {"apply", "passed", "free", "skip"}
    \/ \E v \in 0 .. MaxOps : s = Store(tail, v)
    \/ s = Store(head, Null)

DrainStage ==
    /\ everDrained
    /\ \E X : todo \in Seq(X)
    /\ \A i \in DOMAIN todo : DrainStep(todo[i])
    /\ mem[head] = Null \/ \E i \in DOMAIN todo : todo[i] = Store(head, Null)

\* What the walks read is a node or Null, and counts are numbers.
Words_OK(m) ==
    /\ m = [w \in Words |-> m[w]]
    /\ m[tail] \in 0 .. MaxOps
    /\ \A n \in Nodes : m[<<n, "prev">>] \in 0 .. MaxOps /\ m[<<n, "count">>] \in Nat

\* There is a node for every operation.
Base ==
    /\ Words_OK(mem) /\ Words_OK(pmem)
    /\ seq_counter \in Nat /\ next_ptfo_sequence \in Nat
    /\ issued \in 0 .. MaxOps
    /\ allocated \in SUBSET Nodes /\ Cardinality(allocated) <= issued

RecInv ==
    /\ Base
    /\ call.kind \in {"idle", "insert", "drain"}
    /\ call.kind = "idle" => call = Idle /\ todo = << >>
    /\ ~up => todo = << >> /\ call.kind # "drain" /\ mem = pmem
    /\ \E G : /\ Good(G)
              /\ call.kind # "drain" => G \subseteq allocated
              /\ up /\ call.kind = "insert" => InsertStage(G)
    /\ call.kind = "drain" => DrainStage

-----------------------------------------------------------------------------
(* Walks. *)

\* g is the recursion over 0 .. N that begins with a and goes on with F.
Iterates(N, V, a, F, g) ==
    /\ g \in [0 .. N -> V]
    /\ g = [i \in 0 .. N |-> IF i = 0 THEN a ELSE F[<<i, g[i - 1]>>]]

\* A recursion over 0 .. N defines a function.
LEMMA Iteration ==
    ASSUME NEW N \in Nat, NEW V, NEW a \in V, NEW F \in [(0 .. N) \X V -> V]
    PROVE  \E g : Iterates(N, V, a, F, g)
<1> DEFINE Upto(n, g) == /\ g \in [0 .. n -> V]
                         /\ g[0] = a
                         /\ \A i \in 1 .. n : g[i] = F[<<i, g[i - 1]>>]
           Bad == {n \in 0 .. N : ~\E g : Upto(n, g)}
<1>1. Bad = {}
  <2> SUFFICES ASSUME Bad # {} PROVE FALSE
    OBVIOUS
  <2>1. PICK n \in Bad : \A m \in Bad : n <= m
    <3>1. Bad \in SUBSET Nat
      OBVIOUS
    <3> QED
      BY <3>1, LeastNatural
  <2>2. CASE n = 0
    <3>1. Upto(0, [i \in 0 .. 0 |-> a])
      OBVIOUS
    <3> QED
      BY <2>1, <2>2, <3>1
  <2>3. CASE n # 0
    <3>1. n - 1 \in 0 .. N /\ n \in 1 .. N /\ n - 1 \notin Bad
      <4>1. n \in 0 .. N /\ \A m \in Bad : n <= m
        BY <2>1
      <4> HIDE DEF Bad
      <4> QED
        BY <2>3, <4>1
    <3>2. PICK g : Upto(n - 1, g)
      BY <3>1
    <3> DEFINE h == [i \in 0 .. n |-> IF i = n THEN F[<<n, g[n - 1]>>] ELSE g[i]]
    <3>3. /\ h[0] = a
          /\ \A i \in 0 .. (n - 1) : h[i] = g[i] /\ g[i] \in V
          /\ h[n] = F[<<n, g[n - 1]>>]
      BY <3>1, <3>2
    <3>4. h[n] \in V
      <4>1. n \in 0 .. N /\ n - 1 \in 0 .. (n - 1)
        BY <3>1
      <4>2. <<n, g[n - 1]>> \in (0 .. N) \X V
        BY <3>3, <4>1
      <4> QED
        BY <3>3, <4>2
    <3>5. h \in [0 .. n -> V]
      <4>1. \A i \in 0 .. n : i = n \/ i \in 0 .. (n - 1)
        BY <3>1
      <4>2. \A i \in 0 .. n : h[i] \in V
        BY <3>3, <3>4, <4>1
      <4> QED
        BY <4>2
    <3>6. \A i \in 1 .. n : h[i] = F[<<i, h[i - 1]>>]
      <4> SUFFICES ASSUME NEW i \in 1 .. n PROVE h[i] = F[<<i, h[i - 1]>>]
        OBVIOUS
      <4>1. i - 1 \in 0 .. (n - 1) /\ h[i - 1] = g[i - 1]
        BY <3>1, <3>3
      <4>2. CASE i = n
        BY <3>3, <4>1, <4>2
      <4>3. CASE i # n
        <5>1. i \in 1 .. (n - 1) /\ i \in 0 .. (n - 1)
          BY <3>1, <4>3
        <5>2. g[i] = F[<<i, g[i - 1]>>]
          BY <3>2, <5>1
        <5> QED
          BY <3>3, <4>1, <5>1, <5>2
      <4> QED
        BY <4>2, <4>3
    <3>7. Upto(n, h)
      BY <3>3, <3>5, <3>6
    <3> QED
      BY <2>1, <3>7
  <2> QED
    BY <2>2, <2>3
<1>2. PICK g : Upto(N, g)
  <2>1. N \in 0 .. N
    OBVIOUS
  <2> QED
    BY <1>1, <2>1
<1>3. g = [i \in 0 .. N |-> IF i = 0 THEN a ELSE F[<<i, g[i - 1]>>]]
  BY <1>2
<1> QED
  BY <1>2, <1>3 DEF Iterates

\* One step of the walk along f that started from the word w.
WalkStep(m, w, f, s) ==
    LET from == IF s = << >> THEN m[w] ELSE m[<<Last(s), f>>]
    IN  IF from = Null \/ Contains(s, from) THEN s ELSE Append(s, from)

Walk(m, w, f) ==
    CHOOSE walk : walk = [i \in 0 .. MaxOps |-> IF i = 0 THEN << >>
                                                ELSE WalkStep(m, w, f, walk[i - 1])]

\* Both chains are walks.
LEMMA ChainIsWalk == \A m : Chain(m) = Walk(m, head, "next")[MaxOps]
BY DEF Chain, Walk, WalkStep

LEMMA FromTailIsWalk == \A m : FromTail(m) = Walk(m, tail, "prev")[MaxOps]
BY DEF FromTail, Walk, WalkStep

\* Both ends of every pointer along f are in G.
Stays(m, w, f, G) ==
    /\ G \in SUBSET Nodes
    /\ m[w] \in G \cup {Null}
    /\ \A n \in G : m[<<n, f>>] \in G \cup {Null}

\* A step of a walk does not leave G.
LEMMA StepStays ==
    ASSUME NEW m, NEW w, NEW f, NEW G, Stays(m, w, f, G), NEW s \in Seq(G)
    PROVE  WalkStep(m, w, f, s) \in Seq(G)
<1> DEFINE from == IF s = << >> THEN m[w] ELSE m[<<Last(s), f>>]
<1>1. s # << >> => Last(s) \in G
  BY DEF Last
<1>2. from \in G \cup {Null}
  BY <1>1 DEF Stays
<1>3. from # Null => Append(s, from) \in Seq(G)
  BY <1>2
<1> HIDE DEF from
<1>4. WalkStep(m, w, f, s) = IF from = Null \/ Contains(s, from) THEN s ELSE Append(s, from)
  BY DEF WalkStep, from
<1> QED
  BY <1>3, <1>4

\* The recursion that defines a walk has a solution, one step after the other.
LEMMA WalkIs ==
    ASSUME NEW m, NEW w, NEW f, NEW G, Stays(m, w, f, G)
    PROVE  /\ Walk(m, w, f)[0] = << >>
           /\ \A i \in 1 .. MaxOps : Walk(m, w, f)[i] = WalkStep(m, w, f, Walk(m, w, f)[i - 1])
           /\ \A i \in 0 .. MaxOps : Walk(m, w, f)[i] \in Seq(G)
<1> DEFINE F == [p \in (0 .. MaxOps) \X Seq(G) |-> WalkStep(m, w, f, p[2])]
           g == Walk(m, w, f)
<1>1. MaxOps \in Nat
  BY RecoveryAssumption
<1>2. << >> \in Seq(G)
  OBVIOUS
<1>3. F \in [(0 .. MaxOps) \X Seq(G) -> Seq(G)]
  BY StepStays
<1>4. PICK h : Iterates(MaxOps, Seq(G), << >>, F, h)
  <2> HIDE DEF F
  <2> QED
    BY <1>1, <1>2, <1>3, Iteration
<1>5. h = [i \in 0 .. MaxOps |-> IF i = 0 THEN << >> ELSE WalkStep(m, w, f, h[i - 1])]
  <2>1. ASSUME NEW i \in 0 .. MaxOps, i # 0
        PROVE  F[<<i, h[i - 1]>>] = WalkStep(m, w, f, h[i - 1])
    <3>1. i - 1 \in 0 .. MaxOps
      BY <1>1, <2>1
    <3>2. <<i, h[i - 1]>> \in (0 .. MaxOps) \X Seq(G)
      BY <1>4, <3>1 DEF Iterates
    <3> QED
      BY <3>2
  <2> HIDE DEF F
  <2> QED
    BY <1>4, <2>1 DEF Iterates
<1>6. g = [i \in 0 .. MaxOps |-> IF i = 0 THEN << >> ELSE WalkStep(m, w, f, g[i - 1])]
  BY <1>5 DEF Walk
<1> HIDE DEF g, F
<1>7. /\ g[0] = << >>
      /\ \A i \in 1 .. MaxOps : g[i] = WalkStep(m, w, f, g[i - 1])
  <2>1. 0 \in 0 .. MaxOps /\ \A i \in 1 .. MaxOps : i \in 0 .. MaxOps /\ i # 0
    BY <1>1
  <2> QED
    BY <1>6, <2>1
<1> DEFINE Bad == {i \in 0 .. MaxOps : g[i] \notin Seq(G)}
<1>8. Bad = {}
  <2> SUFFICES ASSUME Bad # {} PROVE FALSE
    OBVIOUS
  <2>1. PICK n \in Bad : \A k \in Bad : n <= k
    <3>1. Bad \in SUBSET Nat
      OBVIOUS
    <3> QED
      BY <3>1, LeastNatural
  <2>2. n # 0
    BY <1>2, <1>7
  <2>3. n \in 1 .. MaxOps /\ n - 1 \in 0 .. MaxOps /\ n - 1 \notin Bad
    <3>1. n \in 0 .. MaxOps
      OBVIOUS
    <3> HIDE DEF Bad
    <3> QED
      BY <1>1, <2>1, <2>2, <3>1
  <2>4. g[n - 1] \in Seq(G)
    BY <2>3
  <2> QED
    BY <1>7, <2>3, <2>4, StepStays
<1> QED
  BY <1>7, <1>8 DEF g

\* s follows the pointers from w, meets no node twice, and has either come to
\* its end or has i nodes.
Linked(m, w, f, s) ==
    /\ s # << >> => s[1] = m[w]
    /\ \A j \in 1 .. Len(s) - 1 : s[j + 1] = m[<<s[j], f>>]

OneToOne(s) == \A i, j \in 1 .. Len(s) : s[i] = s[j] => i = j

Ended(m, w, f, s) == WalkStep(m, w, f, s) = s

Walked(m, w, f, s, i) ==
    Linked(m, w, f, s) /\ OneToOne(s) /\ (Len(s) = i \/ Ended(m, w, f, s))

\* A step of a walk takes it one node further, or it has ended.
LEMMA StepWalked ==
    ASSUME NEW m, NEW w, NEW f, NEW G, NEW s \in Seq(G), NEW i \in Nat, Walked(m, w, f, s, i),
           Stays(m, w, f, G)
    PROVE  Walked(m, w, f, WalkStep(m, w, f, s), i + 1)
<1> DEFINE from == IF s = << >> THEN m[w] ELSE m[<<Last(s), f>>]
           t == Append(s, from)
<1>1. WalkStep(m, w, f, s) = IF from = Null \/ Contains(s, from) THEN s ELSE t
  BY DEF WalkStep
<1>2. CASE from = Null \/ Contains(s, from)
  BY <1>1, <1>2 DEF Walked, Ended
<1>3. CASE ~(from = Null \/ Contains(s, from))
  <2>1. from \in G
    <3>1. s # << >> => Last(s) \in G
      BY DEF Last
    <3> QED
      BY <1>3, <3>1 DEF Stays
  <2>2. /\ t \in Seq(G) /\ Len(t) = Len(s) + 1 /\ Len(s) \in Nat
        /\ t[Len(s) + 1] = from
        /\ \A j \in 1 .. Len(s) : t[j] = s[j]
    <3> HIDE DEF from
    <3> QED
      BY <2>1
  <2>3. \A j \in 1 .. Len(s) : s[j] # from
    BY <1>3 DEF Contains
  <2>4. OneToOne(t)
    <3> HIDE DEF t, from
    <3> SUFFICES ASSUME NEW a \in 1 .. Len(t), NEW b \in 1 .. Len(t), t[a] = t[b] PROVE a = b
      BY DEF OneToOne
    <3>1. \A c \in 1 .. Len(t) : c \in 1 .. Len(s) \/ c = Len(s) + 1
      BY <2>2
    <3>2. \A c, d \in 1 .. Len(s) : s[c] = s[d] => c = d
      BY DEF Walked, OneToOne
    <3> QED
      BY <2>2, <2>3, <3>1, <3>2
  <2>5. Linked(m, w, f, t)
    <3>1. t[1] = m[w]
      <4>1. CASE s = << >>
        BY <2>2, <4>1
      <4>2. CASE s # << >>
        <5>1. 1 \in 1 .. Len(s) /\ s[1] = m[w]
          BY <4>2 DEF Walked, Linked
        <5> QED
          BY <2>2, <5>1
      <4> QED
        BY <4>1, <4>2
    <3>2. ASSUME NEW j \in 1 .. Len(t) - 1 PROVE t[j + 1] = m[<<t[j], f>>]
      <4>1. CASE j = Len(s)
        <5>1. s # << >> /\ Last(s) = s[j] /\ t[j] = s[j] /\ t[j + 1] = from
          BY <2>2, <4>1 DEF Last
        <5> QED
          BY <5>1
      <4>2. CASE j # Len(s)
        <5>1. j \in 1 .. Len(s) - 1 /\ j \in 1 .. Len(s) /\ j + 1 \in 1 .. Len(s)
          BY <2>2, <4>2
        <5>2. s[j + 1] = m[<<s[j], f>>]
          BY <5>1 DEF Walked, Linked
        <5> QED
          BY <2>2, <5>1, <5>2
      <4> QED
        BY <4>1, <4>2
    <3> QED
      BY <3>1, <3>2 DEF Linked
  <2>6. Len(t) = i + 1
    <3>1. ~Ended(m, w, f, s)
      <4>1. t # s
        BY <2>2
      <4> QED
        BY <1>1, <1>3, <4>1 DEF Ended
    <3> QED
      BY <2>2, <3>1 DEF Walked
  <2> QED
    BY <1>1, <1>3, <2>4, <2>5, <2>6 DEF Walked
<1> QED
  BY <1>2, <1>3

\* A one-to-one map of a finite set into itself is onto.
LEMMA InjectionIsOnto ==
    ASSUME NEW S, IsFiniteSet(S), NEW f \in Injection(S, S)
    PROVE  f \in Surjection(S, S)
BY FS_Injection

\* A walk over all nodes has come to its end.
LEMMA FullWalkEnded ==
    ASSUME NEW m, NEW w, NEW f, NEW G, NEW s \in Seq(G), Stays(m, w, f, G),
           OneToOne(s), Len(s) = MaxOps
    PROVE  Ended(m, w, f, s)
<1> DEFINE from == IF s = << >> THEN m[w] ELSE m[<<Last(s), f>>]
<1>1. IsFiniteSet(Nodes) /\ MaxOps \in Nat
  BY RecoveryAssumption, FS_Interval DEF Nodes
<1>2. s \in [Nodes -> Nodes]
  <2>1. s \in [1 .. MaxOps -> G]
    OBVIOUS
  <2> QED
    BY <2>1 DEF Stays, Nodes
<1>3. s \in Injection(Nodes, Nodes)
  BY <1>2 DEF Injection, IsInjective, OneToOne, Nodes
<1>4. s \in Surjection(Nodes, Nodes)
  BY <1>1, <1>3, InjectionIsOnto
<1>5. from \in Nodes \cup {Null}
  <2>1. s # << >> => Last(s) \in G
    BY DEF Last
  <2> QED
    BY <2>1 DEF Stays
<1>6. from \in Nodes => Contains(s, from)
  <2> HIDE DEF from
  <2> QED
    BY <1>4 DEF Surjection, Contains, Nodes
<1> QED
  BY <1>5, <1>6 DEF Ended, WalkStep

\* Where a walk ends nothing leads out of it.
LEMMA EndedStays ==
    ASSUME NEW m, NEW w, NEW f, NEW G, NEW s \in Seq(G), Stays(m, w, f, G),
           Linked(m, w, f, s), Ended(m, w, f, s)
    PROVE  Stays(m, w, f, ToSet(s)) /\ ToSet(s) \in SUBSET G
<1> DEFINE from == IF s = << >> THEN m[w] ELSE m[<<Last(s), f>>]
<1>1. Len(s) \in Nat /\ DOMAIN s = 1 .. Len(s) /\ \A i \in 1 .. Len(s) : s[i] \in G
  OBVIOUS
<1>2. ToSet(s) \in SUBSET G
  BY <1>1 DEF ToSet
<1>3. from = Null \/ Contains(s, from)
  <2> SUFFICES ASSUME from # Null, ~Contains(s, from) PROVE FALSE
    OBVIOUS
  <2>1. from \in G
    <3>1. s # << >> => Last(s) \in G
      BY DEF Last
    <3> QED
      BY <3>1 DEF Stays
  <2>2. Append(s, from) # s
    <3> HIDE DEF from
    <3>1. Len(Append(s, from)) = Len(s) + 1 /\ Len(s) \in Nat
      BY <2>1
    <3>2. Len(Append(s, from)) # Len(s)
      BY <3>1
    <3> QED
      BY <3>2
  <2> QED
    BY <2>2 DEF Ended, WalkStep
<1>4. from \in ToSet(s) \cup {Null}
  <2> HIDE DEF from
  <2> QED
    BY <1>1, <1>3 DEF Contains, ToSet
<1>5. m[w] \in ToSet(s) \cup {Null}
  <2>1. CASE s = << >>
    BY <1>4, <2>1
  <2>2. CASE s # << >>
    <3>1. 1 \in DOMAIN s /\ s[1] = m[w]
      BY <2>2 DEF Linked
    <3> QED
      BY <3>1 DEF ToSet
  <2> QED
    BY <2>1, <2>2
<1>6. ASSUME NEW n \in ToSet(s) PROVE m[<<n, f>>] \in ToSet(s) \cup {Null}
  <2>1. PICK j \in 1 .. Len(s) : n = s[j]
    BY <1>1 DEF ToSet
  <2>2. CASE j = Len(s)
    <3>1. s # << >> /\ Last(s) = n
      BY <2>1, <2>2 DEF Last
    <3> QED
      BY <1>4, <3>1
  <2>3. CASE j # Len(s)
    <3>1. j \in 1 .. Len(s) - 1 /\ j + 1 \in 1 .. Len(s)
      <4>1. Len(s) \in Nat
        OBVIOUS
      <4> QED
        BY <2>3, <4>1
    <3>2. s[j + 1] = m[<<n, f>>]
      BY <2>1, <3>1 DEF Linked
    <3> QED
      BY <1>1, <3>1, <3>2 DEF ToSet
  <2> QED
    BY <2>2, <2>3
<1> QED
  BY <1>2, <1>5, <1>6 DEF Stays

\* The chain lies in every set no pointer leaves, and is such a set itself.
LEMMA ChainStays ==
    ASSUME NEW m, NEW G, Stays(m, head, "next", G)
    PROVE  /\ Chain(m) \in Seq(G)
           /\ ToSet(Chain(m)) \in SUBSET G
           /\ Stays(m, head, "next", ToSet(Chain(m)))
           /\ OneToOne(Chain(m))
<1> DEFINE g == Walk(m, head, "next")
           W(i) == Walked(m, head, "next", g[i], i)
           Bad == {i \in 0 .. MaxOps : ~W(i)}
<1>1. MaxOps \in Nat
  BY RecoveryAssumption
<1>2. /\ g[0] = << >>
      /\ \A i \in 1 .. MaxOps : g[i] = WalkStep(m, head, "next", g[i - 1])
      /\ \A i \in 0 .. MaxOps : g[i] \in Seq(G)
  BY WalkIs
<1> HIDE DEF g
<1>3. Bad = {}
  <2> SUFFICES ASSUME Bad # {} PROVE FALSE
    OBVIOUS
  <2>1. PICK n \in Bad : \A k \in Bad : n <= k
    <3>1. Bad \in SUBSET Nat
      OBVIOUS
    <3> QED
      BY <3>1, LeastNatural
  <2>2. n # 0
    <3>1. W(0)
      BY <1>2 DEF Walked, Linked, OneToOne
    <3> QED
      BY <3>1
  <2>3. n \in 1 .. MaxOps /\ n - 1 \in 0 .. MaxOps /\ n - 1 \notin Bad /\ n - 1 \in Nat
    <3>1. n \in 0 .. MaxOps
      OBVIOUS
    <3> HIDE DEF Bad
    <3> QED
      BY <1>1, <2>1, <2>2, <3>1
  <2>4. W(n - 1)
    BY <2>3
  <2>5. Walked(m, head, "next", WalkStep(m, head, "next", g[n - 1]), (n - 1) + 1)
    BY <1>2, <2>3, <2>4, StepWalked
  <2>6. (n - 1) + 1 = n
    BY <2>3
  <2>7. W(n)
    BY <1>2, <2>3, <2>5, <2>6
  <2> QED
    BY <2>7
<1>4. g[MaxOps] \in Seq(G) /\ W(MaxOps)
  BY <1>1, <1>2, <1>3
<1>5. Ended(m, head, "next", g[MaxOps])
  BY <1>4, FullWalkEnded DEF Walked
<1>6. Linked(m, head, "next", g[MaxOps])
  BY <1>4 DEF Walked
<1>7. /\ Stays(m, head, "next", ToSet(g[MaxOps]))
      /\ ToSet(g[MaxOps]) \in SUBSET G
  BY <1>4, <1>5, <1>6, EndedStays
<1>8. OneToOne(g[MaxOps])
  BY <1>4 DEF Walked
<1> QED
  BY <1>4, <1>7, <1>8, ChainIsWalk DEF g

\* Where the walk from the tail goes, as far as a drain needs it.
LEMMA FromTailIn ==
    ASSUME NEW m, Words_OK(m)
    PROVE  FromTail(m) \in Seq(Nodes)
<1>1. MaxOps \in Nat /\ MaxOps \in 0 .. MaxOps
  BY RecoveryAssumption
<1>2. 0 .. MaxOps = Nodes \cup {Null}
  BY <1>1 DEF Nodes, Null
<1>3. Stays(m, tail, "prev", Nodes)
  BY <1>2 DEF Stays, Words_OK
<1> QED
  BY <1>1, <1>3, WalkIs, FromTailIsWalk

\* f joins the first, the first two, ... of the sequences ss.
Joins(f, T, ss) ==
    \A i \in 1 .. Len(ss) : f[i] \in Seq(T) /\ f[i] = IF i = 1 THEN ss[i] ELSE f[i - 1] \o ss[i]

\* FlattenSeq joins sequences one after the other.
LEMMA FlattenIs ==
    ASSUME NEW T, NEW ss \in Seq(Seq(T)), Len(ss) # 0
    PROVE  \E f : Joins(f, T, ss) /\ FlattenSeq(ss) = f[Len(ss)]
<1> DEFINE N == Len(ss)
           Adds(f) == f = [i \in 1 .. N |-> IF i = 1 THEN ss[i] ELSE f[i - 1] \o ss[i]]
           flatten == CHOOSE f : Adds(f)
<1>1. N \in Nat /\ \A i \in 1 .. N : ss[i] \in Seq(T)
  OBVIOUS
<1>2. N # 0
  OBVIOUS
<1> DEFINE F == [p \in (0 .. N - 1) \X Seq(T) |->
                    IF p[1] = 0 THEN p[2] ELSE p[2] \o ss[p[1] + 1]]
<1>3. N - 1 \in Nat /\ ss[1] \in Seq(T)
  BY <1>1, <1>2
<1>4. F \in [(0 .. N - 1) \X Seq(T) -> Seq(T)]
  <2>1. ASSUME NEW i \in 0 .. N - 1, NEW s \in Seq(T)
        PROVE  (IF i = 0 THEN s ELSE s \o ss[i + 1]) \in Seq(T)
    <3>1. i + 1 \in 1 .. N
      BY <1>1
    <3>2. ss[i + 1] \in Seq(T)
      BY <1>1, <3>1
    <3> QED
      BY <3>2
  <2> QED
    BY <2>1
<1>5. PICK h : Iterates(N - 1, Seq(T), ss[1], F, h)
  <2> HIDE DEF F, N
  <2> QED
    BY <1>3, <1>4, Iteration
<1> DEFINE g == [i \in 1 .. N |-> h[i - 1]]
<1>6. ASSUME NEW i \in 1 .. N PROVE g[i] = IF i = 1 THEN ss[i] ELSE g[i - 1] \o ss[i]
  <2>1. i - 1 \in 0 .. N - 1 /\ g[i] = h[i - 1]
    BY <1>1
  <2>2. CASE i = 1
    BY <1>5, <2>1, <2>2 DEF Iterates
  <2>3. CASE i # 1
    <3>1. i - 1 # 0 /\ i - 2 \in 0 .. N - 1 /\ (i - 1) - 1 = i - 2 /\ (i - 1) + 1 = i /\ i - 1 \in 1 .. N
      BY <1>1, <2>3
    <3>2. h[i - 1] = F[<<i - 1, h[i - 2]>>]
      <4> HIDE DEF F, N, g
      <4> QED
        BY <1>5, <2>1, <3>1 DEF Iterates
    <3>3. <<i - 1, h[i - 2]>> \in (0 .. N - 1) \X Seq(T)
      <4> HIDE DEF F, N, g
      <4> QED
        BY <1>5, <2>1, <3>1 DEF Iterates
    <3>4. F[<<i - 1, h[i - 2]>>] = h[i - 2] \o ss[i]
      <4> HIDE DEF N, g
      <4> QED
        BY <3>1, <3>3, Zenon
    <3>5. g[i - 1] = h[i - 2]
      <4> HIDE DEF F, N
      <4> QED
        BY <3>1
    <3> QED
      BY <2>1, <2>3, <3>2, <3>4, <3>5
  <2> QED
    BY <2>2, <2>3
<1>7. Adds(g)
  <2> HIDE DEF N
  <2>1. g = [i \in 1 .. N |-> g[i]]
    OBVIOUS
  <2> HIDE DEF g
  <2> QED
    BY <1>6, <2>1, Zenon
<1>8. Adds(flatten)
  BY <1>7, Zenon
<1>9. FlattenSeq(ss) = flatten[N]
  BY <1>2 DEF FlattenSeq
<1> HIDE DEF flatten
<1> DEFINE Bad == {i \in 1 .. N : flatten[i] \notin Seq(T)}
<1>10. Bad = {}
  <2> SUFFICES ASSUME Bad # {} PROVE FALSE
    OBVIOUS
  <2>1. PICK n \in Bad : \A k \in Bad : n <= k
    <3>1. Bad \in SUBSET Nat
      OBVIOUS
    <3> QED
      BY <3>1, LeastNatural
  <2>2. n \in 1 .. N /\ flatten[n] = IF n = 1 THEN ss[n] ELSE flatten[n - 1] \o ss[n]
    BY <1>8
  <2>3. n # 1
    BY <1>1, <2>2
  <2>4. n - 1 \in 1 .. N /\ n - 1 \notin Bad
    <3> HIDE DEF Bad
    <3> QED
      BY <1>1, <2>1, <2>2, <2>3
  <2>5. flatten[n - 1] \in Seq(T) /\ ss[n] \in Seq(T)
    BY <1>1, <2>2, <2>4
  <2>6. flatten[n] \in Seq(T)
    BY <2>2, <2>3, <2>5
  <2> QED
    BY <2>6
<1>11. Joins(flatten, T, ss)
  <2>1. \A i \in 1 .. N : flatten[i] = IF i = 1 THEN ss[i] ELSE flatten[i - 1] \o ss[i]
    BY <1>8
  <2>2. \A i \in 1 .. N : flatten[i] \in Seq(T)
    BY <1>10
  <2> QED
    BY <2>1, <2>2 DEF Joins
<1> QED
  BY <1>9, <1>11

\* Joining sequences over T gives one over T.
LEMMA FlattenType ==
    ASSUME NEW T, NEW ss \in Seq(Seq(T))
    PROVE  FlattenSeq(ss) \in Seq(T)
<1>1. CASE Len(ss) = 0
  <2>1. FlattenSeq(ss) = ss /\ ss = << >>
    BY <1>1 DEF FlattenSeq
  <2> QED
    BY <2>1
<1>2. CASE Len(ss) # 0
  <2>1. PICK f : Joins(f, T, ss) /\ FlattenSeq(ss) = f[Len(ss)]
    BY <1>2, FlattenIs
  <2>2. Len(ss) \in 1 .. Len(ss)
    BY <1>2
  <2> QED
    BY <2>1, <2>2 DEF Joins
<1> QED
  BY <1>1, <1>2

-----------------------------------------------------------------------------
(* The steps of a call. *)

\* A list of steps, one after the other.
IsList(all, n) == \E X : all \in Seq(X) /\ Len(all) = n

FirstIs(all, n, o) ==
    /\ IsList(all, 10)
    /\ all[1] = [do |-> "alloc", node |-> n]
    /\ all[2] = Store(<<n, "ops">>, <<o>>)
    /\ all[3] = Store(<<n, "count">>, 1)
    /\ all[4] = Store(<<n, "prev">>, Null)
    /\ all[5] = Store(<<n, "next">>, Null)
    /\ all[6] = Flush(NodeWords(n))
    /\ all[7] = Store(head, n)
    /\ all[8] = Store(tail, n)
    /\ all[9] = Flush({head})
    /\ all[10] = Flush({tail})

\* The three lists of steps, element by element.
LEMMA FirstList ==
    ASSUME NEW n, NEW o
    PROVE  FirstIs(FirstSteps(n, o), n, o)
<1> DEFINE all == FirstSteps(n, o)
<1> DEFINE s1 == [do |-> "alloc", node |-> n]
           s2 == Store(<<n, "ops">>, <<o>>)
           s3 == Store(<<n, "count">>, 1)
           s4 == Store(<<n, "prev">>, Null)
           s5 == Store(<<n, "next">>, Null)
           s6 == Flush(NodeWords(n))
           s7 == Store(head, n)
           s8 == Store(tail, n)
           s9 == Flush({head})
           s10 == Flush({tail})
<1>1. all = <<s1, s2, s3, s4, s5>> \o <<s6, s7, s8, s9, s10>>
  BY DEF FirstSteps, NewNode
<1> HIDE DEF s1, s2, s3, s4, s5, s6, s7, s8, s9, s10
<1>2. all \in Seq({s1, s2, s3, s4, s5, s6, s7, s8, s9, s10}) /\ Len(all) = 10
  BY <1>1
<1>3. /\ all[1] = s1 /\ all[2] = s2 /\ all[3] = s3 /\ all[4] = s4 /\ all[5] = s5
      /\ all[6] = s6 /\ all[7] = s7 /\ all[8] = s8 /\ all[9] = s9 /\ all[10] = s10
  BY <1>1
<1>4. IsList(all, 10)
  BY <1>2, Zenon DEF IsList
<1> QED
  BY <1>3, <1>4, Zenon DEF s1, s2, s3, s4, s5, s6, s7, s8, s9, s10, FirstIs

LinkIs(all, n, o, h) ==
    /\ IsList(all, 10)
    /\ all[1] = [do |-> "alloc", node |-> n]
    /\ all[2] = Store(<<n, "ops">>, <<o>>)
    /\ all[3] = Store(<<n, "count">>, 1)
    /\ all[4] = Store(<<n, "prev">>, Null)
    /\ all[5] = Store(<<n, "next">>, h)
    /\ all[6] = Flush(NodeWords(n))
    /\ all[7] = Store(<<h, "prev">>, n)
    /\ all[8] = Flush({<<h, "prev">>})
    /\ all[9] = Store(head, n)
    /\ all[10] = Flush({head})

LEMMA LinkList ==
    ASSUME NEW n, NEW o, NEW h
    PROVE  LinkIs(LinkSteps(n, o, h), n, o, h)
<1> DEFINE all == LinkSteps(n, o, h)
<1> DEFINE s1 == [do |-> "alloc", node |-> n]
           s2 == Store(<<n, "ops">>, <<o>>)
           s3 == Store(<<n, "count">>, 1)
           s4 == Store(<<n, "prev">>, Null)
           s5 == Store(<<n, "next">>, h)
           s6 == Flush(NodeWords(n))
           s7 == Store(<<h, "prev">>, n)
           s8 == Flush({<<h, "prev">>})
           s9 == Store(head, n)
           s10 == Flush({head})
<1>1. all = <<s1, s2, s3, s4, s5>> \o <<s6, s7, s8, s9, s10>>
  BY DEF LinkSteps, NewNode
<1> HIDE DEF s1, s2, s3, s4, s5, s6, s7, s8, s9, s10
<1>2. all \in Seq({s1, s2, s3, s4, s5, s6, s7, s8, s9, s10}) /\ Len(all) = 10
  BY <1>1
<1>3. /\ all[1] = s1 /\ all[2] = s2 /\ all[3] = s3 /\ all[4] = s4 /\ all[5] = s5
      /\ all[6] = s6 /\ all[7] = s7 /\ all[8] = s8 /\ all[9] = s9 /\ all[10] = s10
  BY <1>1
<1>4. IsList(all, 10)
  BY <1>2, Zenon DEF IsList
<1> QED
  BY <1>3, <1>4, Zenon DEF s1, s2, s3, s4, s5, s6, s7, s8, s9, s10, LinkIs

EntryIs(all, h, ops, count) ==
    /\ IsList(all, 4)
    /\ all[1] = Store(<<h, "ops">>, ops)
    /\ all[2] = Flush(NodeWords(h))
    /\ all[3] = Store(<<h, "count">>, count)
    /\ all[4] = Flush({<<h, "count">>})

LEMMA EntryList ==
    ASSUME NEW h, NEW ops, NEW count
    PROVE  EntryIs(EntrySteps(h, ops, count), h, ops, count)
<1> DEFINE all == EntrySteps(h, ops, count)
<1>1. ASSUME NEW a, NEW b, NEW c, NEW d
      PROVE  <<a, b, c, d>> \in Seq({a, b, c, d}) /\ Len(<<a, b, c, d>>) = 4
  OBVIOUS
<1>2. IsList(all, 4)
  BY <1>1, Zenon DEF IsList, EntrySteps
<1> QED
  BY <1>2 DEF EntrySteps, EntryIs

\* The next step of what is left, and what is left after it.
LEMMA RestTail ==
    ASSUME NEW all, NEW n \in Nat, IsList(all, n), Rest(all), todo # << >>, todo' = Tail(todo)
    PROVE  \E k \in 1 .. n : /\ Len(todo) = k /\ Len(todo') = k - 1
                             /\ Head(todo) = all[n - k + 1]
                             /\ Rest(all)'
<1>1. PICK X : all \in Seq(X) /\ Len(all) = n
  BY DEF IsList
<1>2. PICK k \in 0 .. n : todo = SubSeq(all, n - k + 1, n)
  BY <1>1 DEF Rest
<1>3. /\ todo \in Seq(X) /\ Len(todo) = k
      /\ \A i \in 1 .. k : todo[i] = all[n - k + i]
  <2>1. n - k + 1 \in 1 .. n + 1
    BY <1>2
  <2> QED
    BY <1>1, <1>2, <2>1
<1>4. k \in 1 .. n
  BY <1>2, <1>3
<1>5. Head(todo) = all[n - k + 1]
  BY <1>3, <1>4
<1>6. todo' = SubSeq(all, n - (k - 1) + 1, n)
  <2>1. n - k + 1 \in 1 .. Len(all) /\ n \in (n - k + 1) .. Len(all)
        /\ n - (k - 1) + 1 = (n - k + 1) + 1
    BY <1>1, <1>4
  <2>2. Tail(SubSeq(all, n - k + 1, n)) = SubSeq(all, (n - k + 1) + 1, n)
    BY <1>1, <2>1, HeadTailOfSubSeq
  <2> QED
    BY <1>2, <2>1, <2>2
<1>7. k - 1 \in 0 .. n
  BY <1>4
<1>8. Rest(all)'
  BY <1>1, <1>6, <1>7 DEF Rest
<1>9. Len(todo') = k - 1
  BY <1>3, <1>4
<1> QED
  BY <1>3, <1>4, <1>5, <1>8, <1>9

\* A call begins with all of its steps left.
LEMMA RestAll ==
    ASSUME NEW all, NEW n \in Nat, IsList(all, n), todo' = all
    PROVE  Rest(all)' /\ Len(todo') = n
<1>1. PICK X : all \in Seq(X) /\ Len(all) = n
  BY DEF IsList
<1>2. all = SubSeq(all, n - n + 1, n)
  BY <1>1
<1> QED
  BY <1>1, <1>2 DEF Rest

-----------------------------------------------------------------------------
(* What a step does to the memories. *)

StoreEffect(w, v) ==
    mem' = [mem EXCEPT ![w] = v] /\ pmem' = pmem /\ allocated' = allocated

FlushEffect(ws) ==
    /\ mem' = mem /\ allocated' = allocated
    /\ pmem' = [w \in Words |-> IF w \in ws THEN mem[w] ELSE pmem[w]]

\* What each kind of step does.
LEMMA StepEffects ==
    ASSUME Step
    PROVE  /\ \A w, v : Head(todo) = Store(w, v) => StoreEffect(w, v)
           /\ \A ws : Head(todo) = Flush(ws) => FlushEffect(ws)
           /\ \A n : Head(todo) = [do |-> "alloc", node |-> n] =>
                 mem' = mem /\ pmem' = pmem /\ allocated' = allocated \cup {n}
           /\ Head(todo).do \in {"apply", "passed", "free", "skip"} =>
                 mem' = mem /\ pmem' = pmem /\ allocated' \subseteq allocated
           /\ todo' = Tail(todo) /\ todo # << >>
           /\ UNCHANGED <<seq_counter, next_ptfo_sequence, call, up, everDrained, issued>>
<1>1. \A w, v : Head(todo) = Store(w, v) => StoreEffect(w, v)
  <2> SUFFICES ASSUME NEW w, NEW v, Head(todo) = Store(w, v) PROVE StoreEffect(w, v)
    OBVIOUS
  <2>1. Head(todo).do = "store" /\ Head(todo).word = w /\ Head(todo).value = v
    BY DEF Store
  <2>2. mem' = [mem EXCEPT ![Head(todo).word] = Head(todo).value]
    BY <2>1 DEF Step
  <2>3. pmem' = pmem
    BY <2>1 DEF Step
  <2>4. allocated' = allocated
    BY <2>1 DEF Step
  <2> QED
    BY <2>1, <2>2, <2>3, <2>4 DEF StoreEffect
<1>2. \A ws : Head(todo) = Flush(ws) => FlushEffect(ws)
  BY DEF Step, Flush, FlushEffect
<1>3. \A n : Head(todo) = [do |-> "alloc", node |-> n] =>
          mem' = mem /\ pmem' = pmem /\ allocated' = allocated \cup {n}
  BY DEF Step
<1>4. Head(todo).do \in {"apply", "passed", "free", "skip"} =>
          mem' = mem /\ pmem' = pmem /\ allocated' \subseteq allocated
  BY DEF Step
<1> QED
  BY <1>1, <1>2, <1>3, <1>4 DEF Step

\* Words are told apart by node and field.
LEMMA WordFacts ==
    /\ head \in Words /\ tail \in Words /\ head # tail
    /\ \A n \in Nodes : \A f \in Fields :
          <<n, f>> \in Words /\ <<n, f>> # head /\ <<n, f>> # tail
    /\ \A n1, n2, f1, f2 : <<n1, f1>> = <<n2, f2>> => n1 = n2 /\ f1 = f2
    /\ {"ops", "count", "prev", "next"} = Fields
BY DEF Words, head, tail, Fields

\* A store changes one word.
LEMMA StoreReads ==
    ASSUME NEW w \in Words, NEW v, StoreEffect(w, v), mem = [u \in Words |-> mem[u]]
    PROVE  /\ mem'[w] = v
           /\ \A u \in Words : u # w => mem'[u] = mem[u]
           /\ mem' = [u \in Words |-> mem'[u]]
BY DEF StoreEffect

\* A flush makes its words durable and no other.
LEMMA FlushReads ==
    ASSUME NEW ws, FlushEffect(ws)
    PROVE  /\ \A u \in Words : pmem'[u] = IF u \in ws THEN mem[u] ELSE pmem[u]
           /\ pmem' = [u \in Words |-> pmem'[u]]
BY DEF FlushEffect

\* The fields recovery reads.
Read == {"ops", "count", "next"}

\* A set stays good while the words of its nodes keep values they had in one
\* of the memories, and the head stays in it.
LEMMA GoodMix ==
    ASSUME NEW G, Good(G), next_ptfo_sequence \in Nat, next_ptfo_sequence' \in Nat,
           next_ptfo_sequence <= next_ptfo_sequence',
           \A m \in Memories' : m[head] \in G \cup {Null},
           \A m \in Memories' : \A n \in G : \A f \in Read :
               \E x \in Memories : m[<<n, f>>] = x[<<n, f>>],
           \A m \in Memories' : \A n \in G : m[<<n, "count">>] <= mem'[<<n, "count">>]
    PROVE  Good(G)'
<1>1. ASSUME NEW m \in Memories' PROVE Closed(m, G)
  <2>1. ASSUME NEW n \in G PROVE m[<<n, "next">>] \in G \cup {Null}
    <3>1. PICK x \in Memories : m[<<n, "next">>] = x[<<n, "next">>]
      BY DEF Read
    <3> QED
      BY <3>1 DEF Good, Closed
  <2> QED
    BY <2>1 DEF Closed
<1>2. ASSUME NEW m1 \in Memories', NEW m2 \in Memories', NEW n \in G
      PROVE  /\ m2[<<n, "ops">>] \in Seq(Ops)
             /\ m1[<<n, "count">>] \in 1 .. Len(m2[<<n, "ops">>])
             /\ \A i \in 1 .. m1[<<n, "count">>] : m2[<<n, "ops">>][i].sequence < next_ptfo_sequence'
  <2>1. PICK x \in Memories : m1[<<n, "count">>] = x[<<n, "count">>]
    BY DEF Read
  <2>2. PICK y \in Memories : m2[<<n, "ops">>] = y[<<n, "ops">>]
    BY DEF Read
  <2>3. Readable(x, y, n)
    BY DEF Good
  <2>4. ASSUME NEW i \in 1 .. x[<<n, "count">>]
        PROVE  y[<<n, "ops">>][i].sequence < next_ptfo_sequence'
    <3>1. i \in 1 .. Len(y[<<n, "ops">>]) /\ y[<<n, "ops">>] \in Seq(Ops)
      BY <2>3 DEF Readable
    <3>2. y[<<n, "ops">>][i].sequence \in Nat
      <4>1. y[<<n, "ops">>][i] \in Ops
        BY <3>1
      <4> QED
        BY <4>1 DEF Ops
    <3>3. y[<<n, "ops">>][i].sequence < next_ptfo_sequence
      BY <2>3 DEF Readable
    <3> QED
      BY <3>2, <3>3
  <2> QED
    BY <2>1, <2>2, <2>3, <2>4 DEF Readable
<1>3. \A m1, m2 \in Memories' : \A n \in G : Readable(m1, m2, n)'
  BY <1>2 DEF Readable
<1>4. G \in SUBSET Nodes
  BY DEF Good
<1> QED
  BY <1>1, <1>3, <1>4 DEF Good, Closed

\* The words that decide whether G is good.
Watched(G) == {head} \cup (G \X Read)

\* A set stays good while the watched words keep their values.
LEMMA GoodFrame ==
    ASSUME NEW G, Good(G), next_ptfo_sequence \in Nat,
           UNCHANGED <<next_ptfo_sequence, everDrained>>,
           \A u \in Watched(G) : mem'[u] = mem[u] /\ pmem'[u] \in {mem[u], pmem[u]}
    PROVE  Good(G)'
<1>1. /\ head \in Watched(G)
      /\ \A n \in G : \A f \in Read : <<n, f>> \in Watched(G)
  BY DEF Watched
<1>2. "count" \in Read
  BY DEF Read
<1>3. mem \in Memories /\ (~everDrained => pmem \in Memories)
  BY DEF Memories
<1>4. Memories' = IF everDrained THEN {mem'} ELSE {mem', pmem'}
  BY DEF Memories
<1>5. ASSUME NEW m \in Memories', NEW u \in Watched(G) PROVE \E x \in Memories : m[u] = x[u]
  <2>1. CASE m = mem'
    BY <1>3, <2>1
  <2>2. CASE m # mem'
    <3>1. ~everDrained /\ m = pmem'
      BY <1>4, <2>2
    <3> QED
      BY <1>3, <3>1
  <2> QED
    BY <2>1, <2>2
<1>6. ASSUME NEW m \in Memories' PROVE m[head] \in G \cup {Null}
  BY <1>1, <1>5 DEF Good, Closed
<1>7. ASSUME NEW m \in Memories', NEW n \in G PROVE m[<<n, "count">>] <= mem'[<<n, "count">>]
  <2>1. PICK x \in Memories : m[<<n, "count">>] = x[<<n, "count">>]
    BY <1>1, <1>2, <1>5
  <2>2. x[<<n, "count">>] <= mem[<<n, "count">>]
    BY DEF Good
  <2> QED
    BY <1>1, <1>2, <2>1, <2>2
<1>8. next_ptfo_sequence' \in Nat /\ next_ptfo_sequence <= next_ptfo_sequence'
  OBVIOUS
<1>9. ASSUME NEW m \in Memories', NEW n \in G, NEW f \in Read
      PROVE  \E x \in Memories : m[<<n, f>>] = x[<<n, f>>]
  BY <1>1, <1>5
<1> QED
  BY <1>6, <1>7, <1>8, <1>9, GoodMix

\* Stores and flushes keep the types of the words.
LEMMA StoreWordsOK ==
    ASSUME Words_OK(mem), NEW w \in Words, NEW v, StoreEffect(w, v),
           w = tail => v \in 0 .. MaxOps,
           \A n \in Nodes : w = <<n, "prev">> => v \in 0 .. MaxOps,
           \A n \in Nodes : w = <<n, "count">> => v \in Nat
    PROVE  Words_OK(mem)'
<1>1. /\ mem'[w] = v
      /\ \A u \in Words : u # w => mem'[u] = mem[u]
      /\ mem' = [u \in Words |-> mem'[u]]
  BY StoreReads DEF Words_OK
<1>2. tail \in Words /\ \A n \in Nodes : <<n, "prev">> \in Words /\ <<n, "count">> \in Words
  BY WordFacts DEF Fields
<1>3. mem'[tail] \in 0 .. MaxOps
  BY <1>1, <1>2 DEF Words_OK
<1>4. ASSUME NEW n \in Nodes PROVE mem'[<<n, "prev">>] \in 0 .. MaxOps /\ mem'[<<n, "count">>] \in Nat
  <2>1. mem[<<n, "prev">>] \in 0 .. MaxOps /\ mem[<<n, "count">>] \in Nat
    BY DEF Words_OK
  <2>2. mem'[<<n, "prev">>] \in 0 .. MaxOps
    <3>1. CASE w = <<n, "prev">>
      BY <1>1, <3>1
    <3>2. CASE w # <<n, "prev">>
      BY <1>1, <1>2, <2>1, <3>2
    <3> QED
      BY <3>1, <3>2
  <2>3. mem'[<<n, "count">>] \in Nat
    <3>1. CASE w = <<n, "count">>
      BY <1>1, <3>1
    <3>2. CASE w # <<n, "count">>
      BY <1>1, <1>2, <2>1, <3>2
    <3> QED
      BY <3>1, <3>2
  <2> QED
    BY <2>2, <2>3
<1> QED
  BY <1>1, <1>3, <1>4 DEF Words_OK

LEMMA FlushWordsOK ==
    ASSUME Words_OK(mem), Words_OK(pmem), NEW ws, FlushEffect(ws)
    PROVE  Words_OK(mem)' /\ Words_OK(pmem)'
<1>1. /\ \A u \in Words : pmem'[u] = IF u \in ws THEN mem[u] ELSE pmem[u]
      /\ pmem' = [u \in Words |-> pmem'[u]]
      /\ mem' = mem
  BY FlushReads DEF FlushEffect
<1>2. tail \in Words /\ \A n \in Nodes : <<n, "prev">> \in Words /\ <<n, "count">> \in Words
  BY WordFacts DEF Fields
<1>3. pmem'[tail] \in 0 .. MaxOps
  BY <1>1, <1>2 DEF Words_OK
<1>4. ASSUME NEW n \in Nodes PROVE pmem'[<<n, "prev">>] \in 0 .. MaxOps /\ pmem'[<<n, "count">>] \in Nat
  BY <1>1, <1>2 DEF Words_OK
<1>5. Words_OK(mem)'
  BY <1>1 DEF Words_OK
<1> QED
  BY <1>1, <1>3, <1>4, <1>5 DEF Words_OK

-----------------------------------------------------------------------------
(* The steps of an insert that makes a new node. *)

\* What every step of a call leaves as it is.
Rests == UNCHANGED <<seq_counter, next_ptfo_sequence, call, up, everDrained, issued>>

\* A step that neither allocates nor frees keeps the number of nodes.
LEMMA BaseKept ==
    ASSUME Base, Rests, Words_OK(mem)', Words_OK(pmem)', allocated' = allocated
    PROVE  Base'
BY DEF Base, Rests

\* The words of a node that is not in G are not watched.
LEMMA Unwatched ==
    ASSUME NEW G \in SUBSET Nodes
    PROVE  /\ \A n \in Nodes \ G : \A f \in Fields : <<n, f>> \notin Watched(G)
           /\ Watched(G) \subseteq Words /\ tail \notin Watched(G)
           /\ \A h \in Nodes : <<h, "prev">> \notin Watched(G)
<1>1. Read \subseteq Fields /\ "prev" \notin Read /\ "prev" \in Fields
  BY DEF Read, Fields
<1>2. ASSUME NEW n \in Nodes \ G, NEW f \in Fields PROVE <<n, f>> \notin Watched(G)
  <2>1. <<n, f>> # head
    BY WordFacts
  <2> QED
    BY <2>1 DEF Watched
<1>3. Watched(G) \subseteq Words
  BY <1>1, WordFacts DEF Watched
<1>4. tail \notin Watched(G)
  BY <1>1, WordFacts DEF Watched
<1>5. ASSUME NEW h \in Nodes PROVE <<h, "prev">> \notin Watched(G)
  <2>1. <<h, "prev">> # head
    BY <1>1, WordFacts
  <2> QED
    BY <1>1, <2>1 DEF Watched
<1> QED
  BY <1>2, <1>3, <1>4, <1>5

\* A store to the new node, which is not reachable yet.
LEMMA NodeStore ==
    ASSUME Base, Rests, NEW G, Good(G), NEW n, NEW o, NEW h, NEW linked \in {2, 4},
           NEW k \in 6 .. 9, NodeStage(k, G, n, o, h, linked), NEW f \in Fields, NEW v,
           StoreEffect(<<n, f>>, v),
           k = 9 => f = "ops" /\ v = <<o>>,
           k = 8 => f = "count" /\ v = 1,
           k = 7 => f = "prev" /\ v = Null,
           k = 6 => f = "next" /\ v = h
    PROVE  Base' /\ Good(G)' /\ NodeStage(k - 1, G, n, o, h, linked)'
<1>1. n \in Nodes /\ n \notin G /\ G \in SUBSET Nodes /\ h \in G \cup {Null}
  BY DEF NodeStage, Good
<1>2. <<n, f>> \in Words /\ \A e \in Fields : <<n, e>> \in Words
  BY <1>1, WordFacts
<1>3. /\ mem'[<<n, f>>] = v
      /\ \A u \in Words : u # <<n, f>> => mem'[u] = mem[u]
  BY <1>2, StoreReads DEF Base, Words_OK
<1>4. Words_OK(mem)'
  <2>1. <<n, f>> # tail
    BY <1>1, WordFacts
  <2>2. \A p \in Nodes : (<<n, f>> = <<p, "prev">> => f = "prev") /\ (<<n, f>> = <<p, "count">> => f = "count")
    BY WordFacts
  <2>3. Null \in 0 .. MaxOps /\ 1 \in Nat
    BY RecoveryAssumption DEF Null
  <2>4. k = 9 \/ k = 8 \/ k = 7 \/ k = 6
    OBVIOUS
  <2>5. (f = "prev" => v \in 0 .. MaxOps) /\ (f = "count" => v \in Nat)
    BY <2>3, <2>4
  <2> QED
    BY <1>2, <2>1, <2>2, <2>5, StoreWordsOK DEF Base
<1>5. Words_OK(pmem)' /\ allocated' = allocated
  BY DEF Base, StoreEffect, Words_OK
<1>6. Base'
  BY <1>4, <1>5, BaseKept
<1>7. Good(G)'
  <2>1. <<n, f>> \notin Watched(G) /\ Watched(G) \subseteq Words
    BY <1>1, Unwatched
  <2>2. \A u \in Watched(G) : mem'[u] = mem[u] /\ pmem'[u] = pmem[u]
    BY <1>3, <2>1 DEF StoreEffect
  <2> QED
    BY <2>2, GoodFrame DEF Base, Rests
<1>8. \A e \in Fields : e # f => mem'[<<n, e>>] = mem[<<n, e>>]
  BY <1>2, <1>3, WordFacts
<1>9. "ops" \in Fields /\ "count" \in Fields /\ "next" \in Fields
  BY DEF Fields
<1>10. /\ o \in Ops /\ o.sequence < next_ptfo_sequence' /\ n \in allocated'
  BY <1>5 DEF NodeStage, Rests
<1>11. k - 1 <= 8 => mem'[<<n, "ops">>] = <<o>>
  BY <1>3, <1>8, <1>9 DEF NodeStage
<1>12. k - 1 <= 7 => mem'[<<n, "count">>] = 1
  BY <1>3, <1>8, <1>9 DEF NodeStage
<1>13. k - 1 <= 5 => mem'[<<n, "next">>] = h
  BY <1>3, <1>8, <1>9 DEF NodeStage
<1>14. ~(k - 1 = 10) /\ ~(k - 1 <= 4)
  OBVIOUS
<1>15. NodeStage(k - 1, G, n, o, h, linked)'
  BY <1>1, <1>10, <1>11, <1>12, <1>13, <1>14 DEF NodeStage
<1> QED
  BY <1>6, <1>7, <1>15

\* The node is allocated: there was one left for this operation.
LEMMA NodeAlloc ==
    ASSUME Base, Rests, NEW G, Good(G), NEW n, NEW o, NEW h, NEW linked \in {2, 4},
           NodeStage(10, G, n, o, h, linked),
           mem' = mem, pmem' = pmem, allocated' = allocated \cup {n}
    PROVE  Base' /\ Good(G)' /\ NodeStage(9, G, n, o, h, linked)'
<1>1. n \in Nodes \ allocated /\ Cardinality(allocated) < issued
  BY DEF NodeStage
<1>2. IsFiniteSet(allocated) /\ Cardinality(allocated) \in Nat
  <2>1. IsFiniteSet(Nodes)
    BY RecoveryAssumption, FS_Interval DEF Nodes
  <2>2. IsFiniteSet(allocated)
    BY <2>1, FS_Subset DEF Base
  <2> QED
    BY <2>2, FS_CardinalityType
<1>3. Cardinality(allocated') <= issued'
  <2>1. Cardinality(allocated \cup {n}) = Cardinality(allocated) + 1
    BY <1>1, <1>2, FS_AddElement
  <2>2. issued \in Int /\ issued' = issued
    BY DEF Base, Rests
  <2> QED
    BY <1>1, <1>2, <2>1, <2>2
<1>4. Base'
  BY <1>1, <1>3 DEF Base, Rests, Words_OK
<1>5. Good(G)'
  BY GoodFrame DEF Base, Rests
<1>6. NodeStage(9, G, n, o, h, linked)'
  BY <1>1 DEF NodeStage, Rests
<1> QED
  BY <1>4, <1>5, <1>6

\* A flush keeps every good set.
LEMMA FlushKeeps ==
    ASSUME Base, Rests, NEW G, Good(G), NEW ws, FlushEffect(ws)
    PROVE  Base' /\ Good(G)'
<1>1. Base'
  BY FlushWordsOK, BaseKept DEF Base, FlushEffect
<1>2. Watched(G) \subseteq Words
  BY Unwatched DEF Good
<1>3. \A u \in Watched(G) : mem'[u] = mem[u] /\ pmem'[u] \in {mem[u], pmem[u]}
  BY <1>2, FlushReads DEF FlushEffect
<1>4. Good(G)'
  BY <1>3, GoodFrame DEF Base, Rests
<1> QED
  BY <1>1, <1>4

\* The flush of the new node, before it is linked.
LEMMA NodeFlush ==
    ASSUME Base, Rests, NEW G, Good(G), NEW n, NEW o, NEW h, NEW linked \in {2, 4},
           NodeStage(5, G, n, o, h, linked), FlushEffect(NodeWords(n))
    PROVE  Base' /\ Good(G)' /\ NodeStage(4, G, n, o, h, linked)'
<1>1. Base' /\ Good(G)'
  BY FlushKeeps
<1>2. \A f \in {"ops", "count", "next"} : <<n, f>> \in Words /\ <<n, f>> \in NodeWords(n)
  BY WordFacts DEF NodeStage, NodeWords, Fields
<1>3. \A f \in {"ops", "count", "next"} : pmem'[<<n, f>>] = mem'[<<n, f>>]
  BY <1>2, FlushReads DEF FlushEffect
<1>4. NodeStage(4, G, n, o, h, linked)'
  BY <1>3 DEF NodeStage, Rests, FlushEffect
<1> QED
  BY <1>1, <1>4

\* Flushes behind the node's own, and stores to words no recovery reads.
LEMMA NodeLateFlush ==
    ASSUME Base, Rests, NEW G, Good(G), NEW n, NEW o, NEW h, NEW linked \in {2, 4},
           NEW k \in 1 .. 4, NodeStage(k, G, n, o, h, linked), NEW ws, FlushEffect(ws)
    PROVE  Base' /\ Good(G)' /\ NodeStage(k - 1, G, n, o, h, linked)'
<1>1. Base' /\ Good(G)'
  BY FlushKeeps
<1>2. \A f \in {"ops", "count", "next"} : <<n, f>> \in Words /\ pmem[<<n, f>>] = mem[<<n, f>>]
  <2>1. n \in Nodes /\ \A f \in {"ops", "count", "next"} : f \in Fields
    BY DEF NodeStage, Fields
  <2>2. \A f \in {"ops", "count", "next"} : <<n, f>> \in Words
    BY <2>1, WordFacts
  <2>3. \A f \in {"ops", "count", "next"} : pmem[<<n, f>>] = mem[<<n, f>>]
    BY DEF NodeStage
  <2> QED
    BY <2>2, <2>3
<1>3. \A f \in {"ops", "count", "next"} : pmem'[<<n, f>>] = mem'[<<n, f>>]
  BY <1>2, FlushReads DEF FlushEffect
<1>4. k - 1 >= linked => k >= linked
  OBVIOUS
<1>5. k <= 9 /\ k <= 8 /\ k <= 7 /\ k <= 5 /\ k - 1 # 10
  OBVIOUS
<1>6. NodeStage(k - 1, G, n, o, h, linked)'
  BY <1>3, <1>4, <1>5 DEF NodeStage, Rests, FlushEffect
<1> QED
  BY <1>1, <1>6

\* A store to the tail or to a prev, which recovery does not read.
LEMMA NodeSideStore ==
    ASSUME Base, Rests, NEW G, Good(G), NEW n, NEW o, NEW h, NEW linked \in {2, 4},
           NEW k \in 1 .. 4, NodeStage(k, G, n, o, h, linked),
           NEW w, w = tail \/ \E p \in Nodes : w = <<p, "prev">>, StoreEffect(w, n)
    PROVE  Base' /\ Good(G)' /\ NodeStage(k - 1, G, n, o, h, linked)'
<1>1. n \in Nodes /\ n \in 0 .. MaxOps /\ n \in Nat
  BY RecoveryAssumption DEF NodeStage, Nodes
<1>2. w \in Words /\ w \notin Watched(G) /\ Watched(G) \subseteq Words
  <2>1. "prev" \in Fields
    BY DEF Fields
  <2>2. G \in SUBSET Nodes
    BY DEF Good
  <2>3. w \in Words
    BY <2>1, WordFacts
  <2> QED
    BY <2>2, <2>3, Unwatched
<1>3. \A u \in Words : u # w => mem'[u] = mem[u]
  BY <1>2, StoreReads DEF Base, Words_OK
<1>4. Words_OK(mem)'
  BY <1>1, <1>2, StoreWordsOK DEF Base
<1>5. Base'
  <2>1. Words_OK(pmem)' /\ allocated' = allocated
    BY DEF Base, StoreEffect, Words_OK
  <2> QED
    BY <1>4, <2>1, BaseKept
<1>6. Good(G)'
  <2>1. \A u \in Watched(G) : mem'[u] = mem[u] /\ pmem'[u] = pmem[u]
    BY <1>2, <1>3 DEF StoreEffect
  <2> QED
    BY <2>1, GoodFrame DEF Base, Rests
<1>7. \A f \in {"ops", "count", "next"} : mem'[<<n, f>>] = mem[<<n, f>>]
  <2>1. \A f \in {"ops", "count", "next"} : f \in Fields /\ f # "prev"
    BY DEF Fields
  <2>2. \A f \in {"ops", "count", "next"} : <<n, f>> \in Words /\ <<n, f>> # w
    BY <1>1, <2>1, WordFacts
  <2> QED
    BY <1>3, <2>2
<1>8. k - 1 >= linked => k >= linked
  OBVIOUS
<1>9. k <= 9 /\ k <= 8 /\ k <= 7 /\ k <= 5 /\ k - 1 # 10
  OBVIOUS
<1>10. NodeStage(k - 1, G, n, o, h, linked)'
  BY <1>7, <1>8, <1>9 DEF NodeStage, Rests, StoreEffect
<1> QED
  BY <1>5, <1>6, <1>10

\* A complete node can be counted in before the head leads to it.
LEMMA GoodWithNode ==
    ASSUME Base, NEW G, Good(G), NEW n, NEW o, NEW h, NEW linked \in {2, 4},
           NEW k \in 1 .. 4, NodeStage(k, G, n, o, h, linked)
    PROVE  Good(G \cup {n})
<1>1. /\ n \in Nodes /\ o \in Ops /\ o.sequence < next_ptfo_sequence /\ h \in G \cup {Null}
      /\ mem[<<n, "ops">>] = <<o>> /\ mem[<<n, "count">>] = 1 /\ mem[<<n, "next">>] = h
      /\ pmem[<<n, "ops">>] = <<o>> /\ pmem[<<n, "count">>] = 1 /\ pmem[<<n, "next">>] = h
  BY DEF NodeStage
<1>2. \A m \in Memories : m = mem \/ m = pmem
  BY DEF Memories
<1>3. \A m \in Memories : m[<<n, "ops">>] = <<o>> /\ m[<<n, "count">>] = 1 /\ m[<<n, "next">>] = h
  BY <1>1, <1>2
<1>4. \A m \in Memories : Closed(m, G \cup {n})
  BY <1>1, <1>3 DEF Good, Closed
<1>5. ASSUME NEW m1 \in Memories, NEW m2 \in Memories, NEW p \in G \cup {n}
      PROVE  Readable(m1, m2, p)
  <2>1. CASE p = n
    <3>1. <<o>> \in Seq(Ops) /\ Len(<<o>>) = 1 /\ <<o>>[1] = o
      BY <1>1
    <3>2. m2[<<n, "ops">>] = <<o>> /\ m1[<<n, "count">>] = 1
      BY <1>3
    <3>3. /\ m2[<<n, "ops">>] \in Seq(Ops)
          /\ m1[<<n, "count">>] \in 1 .. Len(m2[<<n, "ops">>])
      BY <3>1, <3>2
    <3>4. ASSUME NEW i \in 1 .. m1[<<n, "count">>]
          PROVE  m2[<<n, "ops">>][i].sequence < next_ptfo_sequence
      <4>1. i = 1
        BY <3>2
      <4> QED
        BY <1>1, <3>1, <3>2, <4>1
    <3> QED
      BY <2>1, <3>3, <3>4 DEF Readable
  <2>2. CASE p \in G
    BY <2>2 DEF Good
  <2> QED
    BY <2>1, <2>2
<1>6. ASSUME NEW m \in Memories, NEW p \in G \cup {n} PROVE m[<<p, "count">>] <= mem[<<p, "count">>]
  <2>1. CASE p = n
    BY <1>1, <1>3, <2>1
  <2>2. CASE p \in G
    BY <2>2 DEF Good
  <2> QED
    BY <2>1, <2>2
<1> QED
  BY <1>1, <1>4, <1>5, <1>6 DEF Good

\* The store to the head that makes the complete node reachable.
LEMMA NodeLink ==
    ASSUME Base, Rests, NEW G, Good(G), NEW n, NEW o, NEW h, NEW linked \in {2, 4},
           NodeStage(linked, G, n, o, h, linked), StoreEffect(head, n)
    PROVE  Base' /\ Good(G \cup {n})' /\ NodeStage(linked - 1, G \cup {n}, n, o, h, linked)'
<1>1. n \in Nodes /\ linked \in 1 .. 4
  BY DEF NodeStage
<1>2. Good(G \cup {n})
  BY <1>1, GoodWithNode
<1> DEFINE H == G \cup {n}
<1>3. H \in SUBSET Nodes /\ n \in H
  BY <1>2 DEF Good
<1>4. /\ mem'[head] = n
      /\ \A u \in Words : u # head => mem'[u] = mem[u]
  BY WordFacts, StoreReads DEF Base, Words_OK
<1>5. \A p \in Nodes : \A f \in Fields : mem'[<<p, f>>] = mem[<<p, f>>]
  BY <1>4, WordFacts
<1>6. Base'
  <2>1. \A p \in Nodes : head # <<p, "prev">> /\ head # <<p, "count">>
    <3>1. "prev" \in Fields /\ "count" \in Fields
      BY DEF Fields
    <3> QED
      BY <3>1, WordFacts
  <2>2. Words_OK(mem)'
    BY <2>1, WordFacts, StoreWordsOK DEF Base
  <2>3. Words_OK(pmem)' /\ allocated' = allocated
    BY DEF Base, StoreEffect, Words_OK
  <2> QED
    BY <2>2, <2>3, BaseKept
<1> HIDE DEF H
<1>7. \A m \in Memories' : m = mem' \/ (m = pmem /\ pmem \in Memories)
  BY DEF Memories, Rests, StoreEffect
<1>8. mem \in Memories
  BY DEF Memories
<1>9. \A m \in Memories' : m[head] \in H \cup {Null}
  BY <1>2, <1>3, <1>4, <1>7 DEF Good, Closed, H
<1>10. ASSUME NEW m \in Memories', NEW p \in H, NEW f \in Read
       PROVE  \E x \in Memories : m[<<p, f>>] = x[<<p, f>>]
  <2>1. p \in Nodes /\ f \in Fields
    BY <1>3 DEF Read, Fields
  <2> QED
    BY <1>5, <1>7, <1>8, <2>1
<1>11. ASSUME NEW m \in Memories', NEW p \in H PROVE m[<<p, "count">>] <= mem'[<<p, "count">>]
  <2>1. p \in Nodes /\ "count" \in Fields /\ "count" \in Read
    BY <1>3 DEF Read, Fields
  <2>2. PICK x \in Memories : m[<<p, "count">>] = x[<<p, "count">>]
    BY <1>10, <2>1
  <2>3. x[<<p, "count">>] <= mem[<<p, "count">>]
    BY <1>2 DEF Good, H
  <2> QED
    BY <1>5, <2>1, <2>2, <2>3
<1>12. Good(H)'
  <2>1. next_ptfo_sequence \in Nat /\ next_ptfo_sequence' = next_ptfo_sequence
    BY DEF Base, Rests
  <2>2. next_ptfo_sequence' \in Nat /\ next_ptfo_sequence <= next_ptfo_sequence'
    BY <2>1
  <2>3. Good(H)
    BY <1>2 DEF H
  <2> QED
    BY <1>9, <1>10, <1>11, <2>1, <2>2, <2>3, GoodMix
<1>13. \A f \in {"ops", "count", "next"} : mem'[<<n, f>>] = mem[<<n, f>>]
  BY <1>1, <1>5 DEF Fields
<1>14. linked <= 9 /\ linked <= 8 /\ linked <= 7 /\ linked <= 5 /\ linked - 1 # 10
       /\ linked <= 4 /\ ~(linked - 1 >= linked)
  OBVIOUS
<1>15. NodeStage(linked - 1, H, n, o, h, linked)'
  BY <1>13, <1>14 DEF NodeStage, Rests, StoreEffect, H
<1> QED
  BY <1>6, <1>12, <1>15 DEF H

\* Steps 10 to 5 are the same whether the node is the first or not.
LEMMA NodeBuild ==
    ASSUME Base, Rests, Step, NEW G, Good(G), NEW n, NEW o, NEW h, NEW linked \in {2, 4},
           NEW k \in 5 .. 10, NodeStage(k, G, n, o, h, linked),
           k = 10 => Head(todo) = [do |-> "alloc", node |-> n],
           k = 9 => Head(todo) = Store(<<n, "ops">>, <<o>>),
           k = 8 => Head(todo) = Store(<<n, "count">>, 1),
           k = 7 => Head(todo) = Store(<<n, "prev">>, Null),
           k = 6 => Head(todo) = Store(<<n, "next">>, h),
           k = 5 => Head(todo) = Flush(NodeWords(n))
    PROVE  /\ Base' /\ Good(G)' /\ NodeStage(k - 1, G, n, o, h, linked)'
           /\ allocated \subseteq allocated'
<1>1. CASE k = 10
  <2>1. mem' = mem /\ pmem' = pmem /\ allocated' = allocated \cup {n}
    BY <1>1, StepEffects
  <2> QED
    BY <1>1, <2>1, NodeAlloc
<1>2. CASE k \in 6 .. 9
  <2>1. ASSUME NEW f \in Fields, NEW v, Head(todo) = Store(<<n, f>>, v),
               k = 9 => f = "ops" /\ v = <<o>>,
               k = 8 => f = "count" /\ v = 1,
               k = 7 => f = "prev" /\ v = Null,
               k = 6 => f = "next" /\ v = h
        PROVE  /\ Base' /\ Good(G)' /\ NodeStage(k - 1, G, n, o, h, linked)'
               /\ allocated \subseteq allocated'
    <3>1. StoreEffect(<<n, f>>, v)
      BY <2>1, StepEffects
    <3>2. allocated' = allocated
      BY <3>1 DEF StoreEffect
    <3> QED
      BY <1>2, <2>1, <3>1, <3>2, NodeStore
  <2>2. "ops" \in Fields /\ "count" \in Fields /\ "prev" \in Fields /\ "next" \in Fields
    BY DEF Fields
  <2>3. k = 9 \/ k = 8 \/ k = 7 \/ k = 6
    BY <1>2
  <2> QED
    BY <2>1, <2>2, <2>3
<1>3. CASE k = 5
  <2>1. FlushEffect(NodeWords(n))
    BY <1>3, StepEffects
  <2>2. allocated' = allocated
    BY <2>1 DEF FlushEffect
  <2> QED
    BY <1>3, <2>1, <2>2, NodeFlush
<1> QED
  BY <1>1, <1>2, <1>3

\* A step of an insert into an empty chain.
LEMMA FirstStep ==
    ASSUME Base, Rests, Step, NEW G, Good(G), G \subseteq allocated, NEW n, NEW o,
           Rest(FirstSteps(n, o)), NodeStage(Len(todo), G, n, o, Null, 4)
    PROVE  Base' /\ \E H : Good(H)' /\ H \subseteq allocated' /\ InsertStage(H)'
<1>1. PICK all : all = FirstSteps(n, o)
  OBVIOUS
<1>2. /\ IsList(all, 10)
      /\ all[1] = [do |-> "alloc", node |-> n]
      /\ all[2] = Store(<<n, "ops">>, <<o>>) /\ all[3] = Store(<<n, "count">>, 1)
      /\ all[4] = Store(<<n, "prev">>, Null) /\ all[5] = Store(<<n, "next">>, Null)
      /\ all[6] = Flush(NodeWords(n))
      /\ all[7] = Store(head, n) /\ all[8] = Store(tail, n)
      /\ all[9] = Flush({head}) /\ all[10] = Flush({tail})
  <2>1. FirstIs(all, n, o)
    BY <1>1, FirstList
  <2> QED
    BY <2>1 DEF FirstIs
<1>3. todo # << >> /\ todo' = Tail(todo)
  BY StepEffects
<1>4. PICK k \in 1 .. 10 : /\ Len(todo) = k /\ Len(todo') = k - 1
                          /\ Head(todo) = all[10 - k + 1]
                          /\ Rest(all)'
  <2>1. 10 \in Nat /\ Rest(all)
    BY <1>1
  <2> QED
    BY <1>2, <1>3, <2>1, RestTail
<1>5. NodeStage(k, G, n, o, Null, 4)
  BY <1>4
<1>6. ASSUME NEW H, NodeStage(k - 1, H, n, o, Null, 4)' PROVE InsertStage(H)'
  BY <1>1, <1>4, <1>6, Zenon DEF InsertStage
<1>7. CASE k \in 5 .. 10
  <2>1. /\ k = 10 => Head(todo) = [do |-> "alloc", node |-> n]
        /\ k = 9 => Head(todo) = Store(<<n, "ops">>, <<o>>)
        /\ k = 8 => Head(todo) = Store(<<n, "count">>, 1)
        /\ k = 7 => Head(todo) = Store(<<n, "prev">>, Null)
        /\ k = 6 => Head(todo) = Store(<<n, "next">>, Null)
        /\ k = 5 => Head(todo) = Flush(NodeWords(n))
    <3>1. /\ 10 - 10 + 1 = 1 /\ 10 - 9 + 1 = 2 /\ 10 - 8 + 1 = 3 /\ 10 - 7 + 1 = 4
          /\ 10 - 6 + 1 = 5 /\ 10 - 5 + 1 = 6
      OBVIOUS
    <3> QED
      BY <1>4, <3>1, <1>2
  <2>2. /\ Base' /\ Good(G)' /\ NodeStage(k - 1, G, n, o, Null, 4)'
        /\ allocated \subseteq allocated'
    BY <1>5, <1>7, <2>1, NodeBuild
  <2> QED
    BY <1>6, <2>2
<1>8. CASE k = 4
  <2>1. Head(todo) = Store(head, n)
    BY <1>4, <1>8, <1>2
  <2>2. StoreEffect(head, n)
    BY <2>1, StepEffects
  <2>3. Base' /\ Good(G \cup {n})' /\ NodeStage(4 - 1, G \cup {n}, n, o, Null, 4)'
    BY <1>5, <1>8, <2>2, NodeLink
  <2>4. G \cup {n} \subseteq allocated'
    BY <1>5, <1>8, <2>2 DEF NodeStage, StoreEffect
  <2> QED
    BY <1>6, <1>8, <2>3, <2>4
<1>9. CASE k = 3
  <2>1. Head(todo) = Store(tail, n)
    BY <1>4, <1>9, <1>2
  <2>2. StoreEffect(tail, n)
    BY <2>1, StepEffects
  <2>3. Base' /\ Good(G)' /\ NodeStage(k - 1, G, n, o, Null, 4)'
    BY <1>5, <1>9, <2>2, NodeSideStore
  <2> QED
    BY <1>6, <2>2, <2>3 DEF StoreEffect
<1>10. CASE k \in 1 .. 2
  <2>1. PICK ws : Head(todo) = Flush(ws)
    BY <1>4, <1>10, <1>2
  <2>2. FlushEffect(ws)
    BY <2>1, StepEffects
  <2>3. Base' /\ Good(G)' /\ NodeStage(k - 1, G, n, o, Null, 4)'
    BY <1>5, <1>10, <2>2, NodeLateFlush
  <2> QED
    BY <1>6, <2>2, <2>3 DEF FlushEffect
<1> QED
  BY <1>4, <1>7, <1>8, <1>9, <1>10

\* A step of an insert in front of a full node.
LEMMA LinkStep ==
    ASSUME Base, Rests, Step, NEW G, Good(G), G \subseteq allocated, NEW n, NEW o, NEW h \in G,
           Rest(LinkSteps(n, o, h)), NodeStage(Len(todo), G, n, o, h, 2)
    PROVE  Base' /\ \E H : Good(H)' /\ H \subseteq allocated' /\ InsertStage(H)'
<1>1. PICK all : all = LinkSteps(n, o, h)
  OBVIOUS
<1>2. /\ IsList(all, 10)
      /\ all[1] = [do |-> "alloc", node |-> n]
      /\ all[2] = Store(<<n, "ops">>, <<o>>) /\ all[3] = Store(<<n, "count">>, 1)
      /\ all[4] = Store(<<n, "prev">>, Null) /\ all[5] = Store(<<n, "next">>, h)
      /\ all[6] = Flush(NodeWords(n))
      /\ all[7] = Store(<<h, "prev">>, n) /\ all[8] = Flush({<<h, "prev">>})
      /\ all[9] = Store(head, n) /\ all[10] = Flush({head})
  <2>1. LinkIs(all, n, o, h)
    BY <1>1, LinkList
  <2> QED
    BY <2>1 DEF LinkIs
<1>3. todo # << >> /\ todo' = Tail(todo)
  BY StepEffects
<1>4. PICK k \in 1 .. 10 : /\ Len(todo) = k /\ Len(todo') = k - 1
                          /\ Head(todo) = all[10 - k + 1]
                          /\ Rest(all)'
  <2>1. 10 \in Nat /\ Rest(all)
    BY <1>1
  <2> QED
    BY <1>2, <1>3, <2>1, RestTail
<1>5. NodeStage(k, G, n, o, h, 2)
  BY <1>4
<1>6. ASSUME NEW H, h \in H, NodeStage(k - 1, H, n, o, h, 2)' PROVE InsertStage(H)'
  BY <1>1, <1>4, <1>6, Zenon DEF InsertStage
<1>7. CASE k \in 5 .. 10
  <2>1. /\ k = 10 => Head(todo) = [do |-> "alloc", node |-> n]
        /\ k = 9 => Head(todo) = Store(<<n, "ops">>, <<o>>)
        /\ k = 8 => Head(todo) = Store(<<n, "count">>, 1)
        /\ k = 7 => Head(todo) = Store(<<n, "prev">>, Null)
        /\ k = 6 => Head(todo) = Store(<<n, "next">>, h)
        /\ k = 5 => Head(todo) = Flush(NodeWords(n))
    <3>1. /\ 10 - 10 + 1 = 1 /\ 10 - 9 + 1 = 2 /\ 10 - 8 + 1 = 3 /\ 10 - 7 + 1 = 4
          /\ 10 - 6 + 1 = 5 /\ 10 - 5 + 1 = 6
      OBVIOUS
    <3> QED
      BY <1>4, <3>1, <1>2
  <2>2. /\ Base' /\ Good(G)' /\ NodeStage(k - 1, G, n, o, h, 2)'
        /\ allocated \subseteq allocated'
    BY <1>5, <1>7, <2>1, NodeBuild
  <2> QED
    BY <1>6, <2>2
<1>8. CASE k = 4
  <2>1. Head(todo) = Store(<<h, "prev">>, n)
    BY <1>4, <1>8, <1>2
  <2>2. StoreEffect(<<h, "prev">>, n)
    BY <2>1, StepEffects
  <2>3. h \in Nodes
    BY DEF Good
  <2>4. Base' /\ Good(G)' /\ NodeStage(k - 1, G, n, o, h, 2)'
    BY <1>5, <1>8, <2>2, <2>3, NodeSideStore
  <2> QED
    BY <1>6, <2>2, <2>4 DEF StoreEffect
<1>9. CASE k = 2
  <2>1. Head(todo) = Store(head, n)
    BY <1>4, <1>9, <1>2
  <2>2. StoreEffect(head, n)
    BY <2>1, StepEffects
  <2>3. Base' /\ Good(G \cup {n})' /\ NodeStage(2 - 1, G \cup {n}, n, o, h, 2)'
    BY <1>5, <1>9, <2>2, NodeLink
  <2>4. G \cup {n} \subseteq allocated'
    BY <1>5, <1>9, <2>2 DEF NodeStage, StoreEffect
  <2> QED
    BY <1>6, <1>9, <2>3, <2>4
<1>10. CASE k = 3 \/ k = 1
  <2>1. PICK ws : Head(todo) = Flush(ws)
    BY <1>4, <1>10, <1>2
  <2>2. FlushEffect(ws)
    BY <2>1, StepEffects
  <2>3. Base' /\ Good(G)' /\ NodeStage(k - 1, G, n, o, h, 2)'
    BY <1>4, <1>5, <1>10, <2>2, NodeLateFlush
  <2> QED
    BY <1>6, <2>2, <2>3 DEF FlushEffect
<1> QED
  BY <1>4, <1>7, <1>8, <1>9, <1>10

-----------------------------------------------------------------------------
(* The steps of an insert into the head node. *)

\* A store to the entries or the count of h, one of the nodes of G.
LEMMA GoodBut ==
    ASSUME Base, Rests, NEW G, Good(G), NEW h \in G, NEW f \in {"ops", "count"}, NEW v,
           StoreEffect(<<h, f>>, v),
           \A m1, m2 \in Memories' : Readable(m1, m2, h)',
           \A m \in Memories' : m[<<h, "count">>] <= mem'[<<h, "count">>]
    PROVE  Good(G)'
<1>1. G \in SUBSET Nodes /\ h \in Nodes /\ f \in Fields /\ f # "next"
  BY DEF Good, Fields
<1>2. <<h, f>> \in Words /\ <<h, f>> # head
  BY <1>1, WordFacts
<1>3. /\ mem'[<<h, f>>] = v
      /\ \A u \in Words : u # <<h, f>> => mem'[u] = mem[u]
  BY <1>2, StoreReads DEF Base, Words_OK
<1>4. mem'[head] = mem[head]
  BY <1>2, <1>3, WordFacts
<1>5. \A n \in G : mem'[<<n, "next">>] = mem[<<n, "next">>]
  <2>1. "next" \in Fields
    BY DEF Fields
  <2>2. \A n \in G : <<n, "next">> \in Words /\ <<n, "next">> # <<h, f>>
    BY <1>1, <2>1, WordFacts
  <2> QED
    BY <1>3, <2>2
<1>6. \A n \in G : n # h => mem'[<<n, "ops">>] = mem[<<n, "ops">>] /\ mem'[<<n, "count">>] = mem[<<n, "count">>]
  <2>1. "ops" \in Fields /\ "count" \in Fields
    BY DEF Fields
  <2>2. \A n \in G : /\ <<n, "ops">> \in Words /\ <<n, "count">> \in Words
                     /\ n # h => <<n, "ops">> # <<h, f>> /\ <<n, "count">> # <<h, f>>
    BY <1>1, <2>1, WordFacts
  <2> QED
    BY <1>3, <2>2
<1>7. mem \in Memories /\ (~everDrained => pmem \in Memories)
  BY DEF Memories
<1>8. /\ \A m \in Memories' : m = mem' \/ (m = pmem /\ ~everDrained)
      /\ everDrained' = everDrained /\ next_ptfo_sequence' = next_ptfo_sequence
  BY DEF Memories, Rests, StoreEffect
<1>9. ASSUME NEW m \in Memories' PROVE Closed(m, G)
  BY <1>4, <1>5, <1>7, <1>8 DEF Good, Closed
<1>10. ASSUME NEW m1 \in Memories', NEW m2 \in Memories', NEW n \in G
       PROVE  Readable(m1, m2, n)'
  <2>1. CASE n = h
    BY <2>1
  <2>2. CASE n # h
    <3>1. PICK x \in Memories : m1[<<n, "count">>] = x[<<n, "count">>]
      BY <1>6, <1>7, <1>8, <2>2
    <3>2. PICK y \in Memories : m2[<<n, "ops">>] = y[<<n, "ops">>]
      BY <1>6, <1>7, <1>8, <2>2
    <3>3. Readable(x, y, n)
      BY DEF Good
    <3> QED
      BY <1>8, <3>1, <3>2, <3>3 DEF Readable
  <2> QED
    BY <2>1, <2>2
<1>11. ASSUME NEW m \in Memories', NEW n \in G PROVE m[<<n, "count">>] <= mem'[<<n, "count">>]
  <2>1. CASE n = h
    BY <2>1
  <2>2. CASE n # h
    <3>1. PICK x \in Memories : m[<<n, "count">>] = x[<<n, "count">>]
      BY <1>6, <1>7, <1>8, <2>2
    <3>2. x[<<n, "count">>] <= mem[<<n, "count">>]
      BY DEF Good
    <3> QED
      BY <1>6, <2>2, <3>1, <3>2
  <2> QED
    BY <2>1, <2>2
<1> QED
  BY <1>1, <1>9, <1>10, <1>11 DEF Good, Closed

\* The entry is stored where no count reaches yet.
LEMMA EntryStore ==
    ASSUME Base, Rests, NEW G, Good(G), NEW h, NEW ops, NEW count,
           EntryStage(4, G, h, ops, count), StoreEffect(<<h, "ops">>, ops)
    PROVE  Base' /\ Good(G)' /\ EntryStage(3, G, h, ops, count)'
<1>1. /\ h \in G /\ ops \in Seq(Ops) /\ count \in Nat /\ Len(ops) = count + 1
      /\ \A i \in 1 .. count + 1 : ops[i].sequence < next_ptfo_sequence
      /\ mem[<<h, "count">>] = count
  BY DEF EntryStage
<1>2. h \in Nodes /\ "ops" \in Fields /\ "count" \in Fields /\ G \in SUBSET Nodes
  BY <1>1 DEF Good, Fields
<1>3. <<h, "ops">> \in Words /\ <<h, "count">> \in Words /\ <<h, "ops">> # <<h, "count">>
  BY <1>2, WordFacts
<1>4. mem'[<<h, "ops">>] = ops /\ mem'[<<h, "count">>] = mem[<<h, "count">>]
  BY <1>3, StoreReads DEF Base, Words_OK
<1>5. Base'
  <2>1. <<h, "ops">> # tail /\ \A p \in Nodes : <<h, "ops">> # <<p, "prev">> /\ <<h, "ops">> # <<p, "count">>
    BY <1>2, WordFacts
  <2>2. Words_OK(mem)'
    BY <1>3, <2>1, StoreWordsOK DEF Base
  <2>3. Words_OK(pmem)' /\ allocated' = allocated
    BY DEF Base, StoreEffect, Words_OK
  <2> QED
    BY <2>2, <2>3, BaseKept
<1>6. /\ \A m \in Memories' : m = mem' \/ (m = pmem /\ ~everDrained)
      /\ next_ptfo_sequence' = next_ptfo_sequence
      /\ mem \in Memories /\ (~everDrained => pmem \in Memories)
  BY DEF Memories, Rests, StoreEffect
<1>7. ASSUME NEW m \in Memories'
      PROVE  \E x \in Memories : m[<<h, "count">>] = x[<<h, "count">>]
  BY <1>4, <1>6
<1>8. ASSUME NEW m \in Memories' PROVE m[<<h, "count">>] \in 1 .. count
  <2>1. PICK x \in Memories : m[<<h, "count">>] = x[<<h, "count">>]
    BY <1>7
  <2>2. x[<<h, "count">>] <= count /\ Readable(x, x, h)
    BY <1>1 DEF Good
  <2>3. x[<<h, "count">>] \in 1 .. Len(x[<<h, "ops">>]) /\ x[<<h, "ops">>] \in Seq(Ops)
    BY <2>2 DEF Readable
  <2> QED
    BY <1>1, <2>1, <2>2, <2>3
<1>9. ASSUME NEW m1 \in Memories', NEW m2 \in Memories' PROVE Readable(m1, m2, h)'
  <2>1. CASE m2 = mem'
    <3>1. m2[<<h, "ops">>] = ops
      BY <1>4, <2>1
    <3>2. m1[<<h, "count">>] \in 1 .. count
      BY <1>8
    <3>3. m1[<<h, "count">>] \in 1 .. count + 1
          /\ \A i \in 1 .. m1[<<h, "count">>] : i \in 1 .. count + 1
      <4>1. count \in Nat
        BY <1>1
      <4>2. PICK x \in 1 .. count : x = m1[<<h, "count">>]
        BY <3>2
      <4>3. x \in 1 .. count + 1 /\ \A i \in 1 .. x : i \in 1 .. count + 1
        BY <4>1
      <4> QED
        BY <4>2, <4>3
    <3>4. /\ m2[<<h, "ops">>] \in Seq(Ops)
          /\ m1[<<h, "count">>] \in 1 .. Len(m2[<<h, "ops">>])
          /\ \A i \in 1 .. m1[<<h, "count">>] : m2[<<h, "ops">>][i].sequence < next_ptfo_sequence
      BY <1>1, <3>1, <3>3
    <3> QED
      BY <1>6, <3>4 DEF Readable
  <2>2. CASE m2 = pmem /\ ~everDrained
    <3>1. PICK x \in Memories : m1[<<h, "count">>] = x[<<h, "count">>]
      BY <1>7
    <3>2. Readable(x, pmem, h)
      BY <1>1, <1>6, <2>2 DEF Good
    <3> QED
      BY <1>6, <2>2, <3>1, <3>2 DEF Readable
  <2> QED
    BY <1>6, <2>1, <2>2
<1>10. ASSUME NEW m \in Memories' PROVE m[<<h, "count">>] <= mem'[<<h, "count">>]
  BY <1>1, <1>4, <1>8
<1>11. Good(G)'
  BY <1>1, <1>9, <1>10, GoodBut
<1>12. EntryStage(3, G, h, ops, count)'
  BY <1>1, <1>4, <1>6 DEF EntryStage
<1> QED
  BY <1>5, <1>11, <1>12

\* The count takes the entry in, which is durable by now.
LEMMA EntryCount ==
    ASSUME Base, Rests, NEW G, Good(G), NEW h, NEW ops, NEW count,
           EntryStage(2, G, h, ops, count), StoreEffect(<<h, "count">>, count + 1)
    PROVE  Base' /\ Good(G)' /\ EntryStage(1, G, h, ops, count)'
<1>1. /\ h \in G /\ ops \in Seq(Ops) /\ count \in Nat /\ Len(ops) = count + 1
      /\ \A i \in 1 .. count + 1 : ops[i].sequence < next_ptfo_sequence
      /\ mem[<<h, "count">>] = count /\ mem[<<h, "ops">>] = ops /\ pmem[<<h, "ops">>] = ops
  BY DEF EntryStage
<1>2. h \in Nodes /\ "ops" \in Fields /\ "count" \in Fields /\ G \in SUBSET Nodes
  BY <1>1 DEF Good, Fields
<1>3. <<h, "ops">> \in Words /\ <<h, "count">> \in Words /\ <<h, "ops">> # <<h, "count">>
  BY <1>2, WordFacts
<1>4. mem'[<<h, "ops">>] = ops /\ mem'[<<h, "count">>] = count + 1
  BY <1>1, <1>3, StoreReads DEF Base, Words_OK
<1>5. Base'
  <2>1. <<h, "count">> # tail /\ \A p \in Nodes : <<h, "count">> # <<p, "prev">>
    BY <1>2, WordFacts
  <2>2. count + 1 \in Nat
    BY <1>1
  <2>3. Words_OK(mem)'
    BY <1>3, <2>1, <2>2, StoreWordsOK DEF Base
  <2>4. Words_OK(pmem)' /\ allocated' = allocated
    BY DEF Base, StoreEffect, Words_OK
  <2> QED
    BY <2>3, <2>4, BaseKept
<1>6. /\ \A m \in Memories' : m = mem' \/ (m = pmem /\ ~everDrained)
      /\ next_ptfo_sequence' = next_ptfo_sequence
      /\ ~everDrained => pmem \in Memories
      /\ pmem' = pmem
  BY DEF Memories, Rests, StoreEffect
<1>7. ASSUME NEW m \in Memories'
      PROVE  m[<<h, "ops">>] = ops /\ m[<<h, "count">>] \in 1 .. count + 1
  <2>1. CASE m = mem'
    BY <1>1, <1>4, <2>1
  <2>2. CASE m = pmem /\ ~everDrained
    <3>1. pmem[<<h, "count">>] <= count /\ Readable(pmem, pmem, h)
      BY <1>1, <1>6, <2>2 DEF Good
    <3>2. pmem[<<h, "count">>] \in 1 .. Len(ops)
      BY <1>1, <3>1 DEF Readable
    <3> QED
      BY <1>1, <2>2, <3>2
  <2> QED
    BY <1>6, <2>1, <2>2
<1>8. ASSUME NEW m1 \in Memories', NEW m2 \in Memories' PROVE Readable(m1, m2, h)'
  <2>1. m2[<<h, "ops">>] = ops /\ m1[<<h, "count">>] \in 1 .. count + 1
    BY <1>7
  <2>2. \A i \in 1 .. m1[<<h, "count">>] : i \in 1 .. count + 1
    BY <1>1, <2>1
  <2>3. /\ m2[<<h, "ops">>] \in Seq(Ops)
        /\ m1[<<h, "count">>] \in 1 .. Len(m2[<<h, "ops">>])
        /\ \A i \in 1 .. m1[<<h, "count">>] : m2[<<h, "ops">>][i].sequence < next_ptfo_sequence
    BY <1>1, <2>1, <2>2
  <2> QED
    BY <1>6, <2>3 DEF Readable
<1>9. ASSUME NEW m \in Memories' PROVE m[<<h, "count">>] <= mem'[<<h, "count">>]
  BY <1>1, <1>4, <1>7
<1>10. Good(G)'
  BY <1>1, <1>8, <1>9, GoodBut
<1>11. EntryStage(1, G, h, ops, count)'
  BY <1>1, <1>4, <1>6 DEF EntryStage
<1> QED
  BY <1>5, <1>10, <1>11

\* The flushes behind the entry and behind the count.
LEMMA EntryFlush ==
    ASSUME Base, Rests, NEW G, Good(G), NEW h, NEW ops, NEW count, NEW k \in {1, 3},
           EntryStage(k, G, h, ops, count), NEW ws, FlushEffect(ws),
           k = 3 => ws = NodeWords(h)
    PROVE  Base' /\ Good(G)' /\ EntryStage(k - 1, G, h, ops, count)'
<1>1. Base' /\ Good(G)'
  BY FlushKeeps
<1>2. h \in Nodes /\ "ops" \in Fields
  BY DEF Good, Fields, EntryStage
<1>3. <<h, "ops">> \in Words /\ <<h, "ops">> \in NodeWords(h)
  BY <1>2, WordFacts DEF NodeWords
<1>4. mem[<<h, "ops">>] = ops /\ (k = 1 => pmem[<<h, "ops">>] = ops)
  BY DEF EntryStage
<1>5. pmem'[<<h, "ops">>] = ops
  BY <1>3, <1>4, FlushReads
<1>6. (k = 3 => k - 1 = 2) /\ (k = 1 => k - 1 = 0)
  OBVIOUS
<1>7. EntryStage(k - 1, G, h, ops, count)'
  BY <1>4, <1>5, <1>6 DEF EntryStage, FlushEffect, Rests
<1> QED
  BY <1>1, <1>7

\* A step of an insert into the head node.
LEMMA EntryStep ==
    ASSUME Base, Rests, Step, NEW G, Good(G), G \subseteq allocated, NEW h, NEW ops, NEW count,
           Rest(EntrySteps(h, ops, count + 1)), EntryStage(Len(todo), G, h, ops, count)
    PROVE  Base' /\ \E H : Good(H)' /\ H \subseteq allocated' /\ InsertStage(H)'
<1>1. PICK all : all = EntrySteps(h, ops, count + 1)
  OBVIOUS
<1>2. /\ IsList(all, 4)
      /\ all[1] = Store(<<h, "ops">>, ops) /\ all[2] = Flush(NodeWords(h))
      /\ all[3] = Store(<<h, "count">>, count + 1) /\ all[4] = Flush({<<h, "count">>})
  <2>1. EntryIs(all, h, ops, count + 1)
    BY <1>1, EntryList
  <2> QED
    BY <2>1 DEF EntryIs
<1>3. todo # << >> /\ todo' = Tail(todo)
  BY StepEffects
<1>4. PICK k \in 1 .. 4 : /\ Len(todo) = k /\ Len(todo') = k - 1
                         /\ Head(todo) = all[4 - k + 1]
                         /\ Rest(all)'
  <2>1. 4 \in Nat /\ Rest(all)
    BY <1>1
  <2> QED
    BY <1>2, <1>3, <2>1, RestTail
<1>5. EntryStage(k, G, h, ops, count)
  BY <1>4
<1>6. ASSUME EntryStage(k - 1, G, h, ops, count)' PROVE InsertStage(G)'
  BY <1>1, <1>4, <1>6, Zenon DEF InsertStage
<1>7. CASE k = 4
  <2>1. Head(todo) = Store(<<h, "ops">>, ops)
    BY <1>2, <1>4, <1>7
  <2>2. StoreEffect(<<h, "ops">>, ops)
    BY <2>1, StepEffects
  <2>3. Base' /\ Good(G)' /\ EntryStage(3, G, h, ops, count)'
    BY <1>5, <1>7, <2>2, EntryStore
  <2> QED
    BY <1>6, <1>7, <2>2, <2>3 DEF StoreEffect
<1>8. CASE k = 2
  <2>1. Head(todo) = Store(<<h, "count">>, count + 1)
    BY <1>2, <1>4, <1>8
  <2>2. StoreEffect(<<h, "count">>, count + 1)
    BY <2>1, StepEffects
  <2>3. Base' /\ Good(G)' /\ EntryStage(1, G, h, ops, count)'
    BY <1>5, <1>8, <2>2, EntryCount
  <2> QED
    BY <1>6, <1>8, <2>2, <2>3 DEF StoreEffect
<1>9. CASE k \in {1, 3}
  <2>1. PICK ws : Head(todo) = Flush(ws) /\ (k = 3 => ws = NodeWords(h))
    BY <1>2, <1>4, <1>9
  <2>2. FlushEffect(ws)
    BY <2>1, StepEffects
  <2>3. Base' /\ Good(G)' /\ EntryStage(k - 1, G, h, ops, count)'
    BY <1>5, <1>9, <2>1, <2>2, EntryFlush
  <2> QED
    BY <1>6, <2>2, <2>3 DEF FlushEffect
<1> QED
  BY <1>4, <1>7, <1>8, <1>9

-----------------------------------------------------------------------------
(* The steps of a drain. *)

\* Freeing nodes leaves enough of them.
LEMMA BaseFreed ==
    ASSUME Base, Rests, Words_OK(mem)', Words_OK(pmem)', allocated' \subseteq allocated
    PROVE  Base'
<1>1. IsFiniteSet(Nodes)
  BY RecoveryAssumption, FS_Interval DEF Nodes
<1>2. IsFiniteSet(allocated)
  BY <1>1, FS_Subset DEF Base
<1>3. /\ IsFiniteSet(allocated')
      /\ Cardinality(allocated') \in Nat /\ Cardinality(allocated) \in Nat
      /\ Cardinality(allocated') <= Cardinality(allocated)
  BY <1>2, FS_Subset, FS_CardinalityType
<1>4. issued \in Nat /\ issued' = issued
  BY RecoveryAssumption DEF Base, Rests
<1>5. Cardinality(allocated') <= issued'
  BY <1>3, <1>4 DEF Base
<1> QED
  BY <1>5 DEF Base, Rests

\* A step of a drain keeps every good set, and resets the head at most.
LEMMA DrainStepEffect ==
    ASSUME Base, Rests, Step, everDrained, NEW G, Good(G), DrainStep(Head(todo))
    PROVE  /\ Base' /\ Good(G)'
           /\ mem[head] = Null \/ Head(todo) = Store(head, Null) => mem'[head] = Null
<1>1. head \in Words /\ tail \in Words /\ head # tail
  BY WordFacts
<1>2. next_ptfo_sequence \in Nat /\ UNCHANGED <<next_ptfo_sequence, everDrained>>
  BY DEF Base, Rests
<1>3. CASE Head(todo).do \in {"apply", "passed", "free", "skip"}
  <2>1. mem' = mem /\ pmem' = pmem /\ allocated' \subseteq allocated
    BY <1>3, StepEffects
  <2>2. Words_OK(mem)' /\ Words_OK(pmem)'
    BY <2>1 DEF Base, Words_OK
  <2>3. Base'
    BY <2>1, <2>2, BaseFreed
  <2>4. Good(G)'
    BY <1>2, <2>1, GoodFrame
  <2>5. Head(todo) # Store(head, Null)
    BY <1>3 DEF Store
  <2> QED
    BY <2>1, <2>3, <2>4, <2>5
<1>4. CASE \E v \in 0 .. MaxOps : Head(todo) = Store(tail, v)
  <2>1. PICK v \in 0 .. MaxOps : Head(todo) = Store(tail, v)
    BY <1>4
  <2>2. StoreEffect(tail, v)
    BY <2>1, StepEffects
  <2>3. \A u \in Words : u # tail => mem'[u] = mem[u]
    BY <1>1, <2>2, StoreReads DEF Base, Words_OK
  <2>4. Base'
    <3>1. \A p \in Nodes : tail # <<p, "prev">> /\ tail # <<p, "count">>
      BY WordFacts DEF Fields
    <3>2. Words_OK(mem)'
      BY <1>1, <2>2, <3>1, StoreWordsOK DEF Base
    <3>3. Words_OK(pmem)' /\ allocated' = allocated
      BY <2>2 DEF Base, StoreEffect, Words_OK
    <3> QED
      BY <3>2, <3>3, BaseKept
  <2>5. ASSUME NEW u \in Watched(G) PROVE u \in Words /\ u # tail
    <3>1. G \in SUBSET Nodes /\ Read \subseteq Fields
      BY DEF Good, Read, Fields
    <3>2. \A n \in G : \A f \in Read : <<n, f>> \in Words /\ <<n, f>> # tail
      BY <3>1, WordFacts
    <3> QED
      BY <1>1, <3>2 DEF Watched
  <2>6. \A u \in Watched(G) : mem'[u] = mem[u] /\ pmem'[u] \in {mem[u], pmem[u]}
    BY <2>2, <2>3, <2>5 DEF StoreEffect
  <2>7. Good(G)'
    BY <1>2, <2>6, GoodFrame
  <2>8. Head(todo) # Store(head, Null)
    BY <1>1, <2>1 DEF Store
  <2> QED
    BY <1>1, <2>3, <2>4, <2>7, <2>8
<1>5. CASE Head(todo) = Store(head, Null)
  <2>1. StoreEffect(head, Null)
    BY <1>5, StepEffects
  <2>2. mem'[head] = Null /\ \A u \in Words : u # head => mem'[u] = mem[u]
    BY <1>1, <2>1, StoreReads DEF Base, Words_OK
  <2>3. Base'
    <3>1. \A p \in Nodes : head # <<p, "prev">> /\ head # <<p, "count">>
      BY WordFacts DEF Fields
    <3>2. Words_OK(mem)'
      BY <1>1, <2>1, <3>1, StoreWordsOK DEF Base
    <3>3. Words_OK(pmem)' /\ allocated' = allocated
      BY <2>1 DEF Base, StoreEffect, Words_OK
    <3> QED
      BY <3>2, <3>3, BaseKept
  <2>4. ASSUME NEW n \in G, NEW f \in Read PROVE mem'[<<n, f>>] = mem[<<n, f>>]
    <3>1. n \in Nodes /\ f \in Fields
      BY DEF Good, Read, Fields
    <3> QED
      BY <2>2, <3>1, WordFacts
  <2>5. Memories = {mem} /\ Memories' = {mem'}
    BY <1>2 DEF Memories
  <2>6. \A m \in Memories' : m[head] \in G \cup {Null}
    BY <2>2, <2>5
  <2>7. \A m \in Memories' : \A n \in G : \A f \in Read :
            \E x \in Memories : m[<<n, f>>] = x[<<n, f>>]
    BY <2>4, <2>5
  <2>8. ASSUME NEW m \in Memories', NEW n \in G
        PROVE  m[<<n, "count">>] <= mem'[<<n, "count">>]
    <3>1. "count" \in Read
      BY DEF Read
    <3>2. mem[<<n, "count">>] <= mem[<<n, "count">>]
      BY <2>5 DEF Good
    <3> QED
      BY <2>4, <2>5, <3>1, <3>2
  <2>9. next_ptfo_sequence' \in Nat /\ next_ptfo_sequence <= next_ptfo_sequence'
    BY <1>2
  <2>10. Good(G)'
    BY <1>2, <2>6, <2>7, <2>8, <2>9, GoodMix
  <2> QED
    BY <2>2, <2>3, <2>10
<1> QED
  BY <1>3, <1>4, <1>5 DEF DrainStep

\* A drain goes on until it has reset the head.
LEMMA DrainStepStep ==
    ASSUME Base, Rests, Step, NEW G, Good(G), DrainStage
    PROVE  Base' /\ Good(G)' /\ DrainStage'
<1>1. todo # << >> /\ todo' = Tail(todo)
  BY StepEffects
<1>2. PICK X : todo \in Seq(X)
  BY DEF DrainStage
<1>3. /\ 1 \in DOMAIN todo /\ Head(todo) = todo[1]
      /\ \A i \in DOMAIN todo : i # 1 => i - 1 \in DOMAIN todo' /\ todo'[i - 1] = todo[i]
      /\ \A i \in DOMAIN todo' : i + 1 \in DOMAIN todo /\ todo'[i] = todo[i + 1]
      /\ todo' \in Seq(X)
  BY <1>1, <1>2
<1>4. everDrained /\ DrainStep(Head(todo))
  BY <1>3 DEF DrainStage
<1>5. /\ Base' /\ Good(G)'
      /\ mem[head] = Null \/ Head(todo) = Store(head, Null) => mem'[head] = Null
  BY <1>4, DrainStepEffect
<1>6. \A i \in DOMAIN todo' : DrainStep(todo'[i])
  BY <1>3 DEF DrainStage
<1>7. mem'[head] = Null \/ \E i \in DOMAIN todo' : todo'[i] = Store(head, Null)
  <2>1. CASE mem[head] = Null
    BY <1>5, <2>1
  <2>2. CASE mem[head] # Null
    <3>1. PICK i \in DOMAIN todo : todo[i] = Store(head, Null)
      BY <2>2 DEF DrainStage
    <3> QED
      BY <1>3, <1>5, <3>1
  <2> QED
    BY <2>1, <2>2
<1>8. everDrained' /\ \E Y : todo' \in Seq(Y)
  BY <1>3, <1>4, Zenon DEF Rests
<1> QED
  BY <1>5, <1>6, <1>7, <1>8 DEF DrainStage, DrainStep

\* A step of the call in progress keeps the invariant.
LEMMA StepKeeps ==
    ASSUME RecInv, Step
    PROVE  RecInv'
<1>1. /\ todo # << >> /\ up /\ Rests
  BY StepEffects DEF Step, Rests
<1>2. PICK G : /\ Good(G)
               /\ call.kind # "drain" => G \subseteq allocated
               /\ up /\ call.kind = "insert" => InsertStage(G)
  BY DEF RecInv
<1>3. Base /\ UNCHANGED <<call, up>> /\ call.kind # "idle" /\ call.kind \in {"idle", "insert", "drain"}
  BY <1>1 DEF RecInv, Rests
<1>4. CASE call.kind = "insert"
  <2>1. Base' /\ \E H : Good(H)' /\ H \subseteq allocated' /\ InsertStage(H)'
    <3>1. InsertStage(G) /\ G \subseteq allocated
      BY <1>1, <1>2, <1>4
    <3>2. CASE \E n, o : Rest(FirstSteps(n, o)) /\ NodeStage(Len(todo), G, n, o, Null, 4)
      BY <1>1, <1>2, <1>3, <3>1, <3>2, FirstStep
    <3>3. CASE \E n, o, h : h \in G /\ Rest(LinkSteps(n, o, h)) /\ NodeStage(Len(todo), G, n, o, h, 2)
      BY <1>1, <1>2, <1>3, <3>1, <3>3, LinkStep
    <3>4. CASE \E h, ops, count :
                  Rest(EntrySteps(h, ops, count + 1)) /\ EntryStage(Len(todo), G, h, ops, count)
      BY <1>1, <1>2, <1>3, <3>1, <3>4, EntryStep
    <3> QED
      BY <3>1, <3>2, <3>3, <3>4, Zenon DEF InsertStage
  <2>2. PICK H : Good(H)' /\ H \subseteq allocated' /\ InsertStage(H)'
    BY <2>1
  <2>3. call'.kind = "insert" /\ up'
    BY <1>1, <1>3, <1>4
  <2> QED
    BY <2>1, <2>2, <2>3 DEF RecInv
<1>5. CASE call.kind = "drain"
  <2>1. DrainStage
    BY <1>5 DEF RecInv
  <2>2. Base' /\ Good(G)' /\ DrainStage'
    BY <1>1, <1>2, <1>3, <2>1, DrainStepStep
  <2>3. call'.kind = "drain" /\ up'
    BY <1>1, <1>3, <1>5
  <2> QED
    BY <2>2, <2>3 DEF RecInv
<1> QED
  BY <1>3, <1>4, <1>5

-----------------------------------------------------------------------------
(* The calls begin. *)

\* There is a node that is not allocated.
LEMMA FreshNode ==
    ASSUME Base, issued < MaxOps
    PROVE  Min(Nodes \ allocated) \in Nodes \ allocated
<1>1. MaxOps \in Nat /\ IsFiniteSet(Nodes) /\ Cardinality(Nodes) = MaxOps
  <2>1. MaxOps \in Nat /\ 1 \in Int /\ MaxOps \in Int
    BY RecoveryAssumption
  <2>2. IsFiniteSet(Nodes) /\ Cardinality(Nodes) = IF 1 > MaxOps THEN 0 ELSE MaxOps - 1 + 1
    BY <2>1, FS_Interval DEF Nodes
  <2> QED
    BY <2>1, <2>2
<1>2. Cardinality(allocated) \in Nat
  BY <1>1, FS_Subset, FS_CardinalityType DEF Base
<1>3. allocated # Nodes
  BY <1>1, <1>2 DEF Base
<1>4. Nodes \ allocated \in SUBSET Nat /\ Nodes \ allocated # {}
  <2>1. Nodes \in SUBSET Nat
    BY DEF Nodes
  <2>2. allocated \in SUBSET Nodes
    BY DEF Base
  <2> QED
    BY <1>3, <2>1, <2>2
<1>5. PICK n \in Nodes \ allocated : \A m \in Nodes \ allocated : n <= m
  BY <1>4, LeastNatural
<1> QED
  BY <1>5 DEF Min

\* What a walk reads of a node of a good set.
LEMMA GoodEntries ==
    ASSUME Base, NEW G, Good(G), NEW m \in Memories, NEW n \in G
    PROVE  /\ m[<<n, "count">>] \in Nat /\ m[<<n, "count">>] >= 1
           /\ Entries(m, n) \in Seq(Ops)
           /\ Len(Entries(m, n)) = m[<<n, "count">>]
           /\ \A i \in 1 .. Len(Entries(m, n)) : /\ Entries(m, n)[i].sequence < next_ptfo_sequence
                                                 /\ Entries(m, n)[i] = m[<<n, "ops">>][i]
<1>1. PICK ops, c : ops = m[<<n, "ops">>] /\ c = m[<<n, "count">>]
  OBVIOUS
<1>2. Readable(m, m, n)
  BY DEF Good
<1>3. /\ ops \in Seq(Ops) /\ c \in 1 .. Len(ops)
      /\ \A i \in 1 .. c : ops[i].sequence < next_ptfo_sequence
  BY <1>1, <1>2 DEF Readable
<1>4. c \in Nat /\ c >= 1
  BY <1>3
<1>5. SubSeq(ops, 1, c) \in Seq(Ops) /\ Len(SubSeq(ops, 1, c)) = c
      /\ \A i \in 1 .. c : SubSeq(ops, 1, c)[i] = ops[i]
  BY <1>3, <1>4
<1>6. Entries(m, n) = SubSeq(ops, 1, c)
  BY <1>1 DEF Entries
<1> QED
  BY <1>1, <1>3, <1>4, <1>5, <1>6

\* A set stays good when later sequence numbers are issued.
LEMMA GoodLater ==
    ASSUME Base, NEW G, Good(G), UNCHANGED <<mem, pmem, everDrained>>,
           next_ptfo_sequence' \in Nat, next_ptfo_sequence <= next_ptfo_sequence'
    PROVE  Good(G)'
<1>1. Memories' = Memories /\ mem' = mem /\ next_ptfo_sequence \in Nat
  BY DEF Memories, Base
<1>2. \A m \in Memories' : m[head] \in G \cup {Null}
  BY <1>1 DEF Good, Closed
<1>3. \A m \in Memories' : \A n \in G : \A f \in Read :
          \E x \in Memories : m[<<n, f>>] = x[<<n, f>>]
  BY <1>1
<1>4. \A m \in Memories' : \A n \in G : m[<<n, "count">>] <= mem'[<<n, "count">>]
  BY <1>1 DEF Good
<1> QED
  BY <1>1, <1>2, <1>3, <1>4, GoodMix

\* buffered_op begins one of the three inserts.
LEMMA InsertBegins ==
    ASSUME RecInv, NEW k \in Keys, NEW d \in BOOLEAN, buffered_op(k, d)
    PROVE  RecInv'
<1>1. PICK o : o = [key |-> k, is_delete |-> d, sequence |-> next_ptfo_sequence]
  OBVIOUS
<1>2. PICK n : n = Min(Nodes \ allocated)
  OBVIOUS
<1>3. PICK h : h = mem[head]
  OBVIOUS
<1>4. /\ up /\ call = Idle /\ issued < MaxOps
      /\ call' = [kind |-> "insert", op |-> o]
      /\ todo' = future_insert(o)
      /\ next_ptfo_sequence' = next_ptfo_sequence + 1
      /\ issued' = issued + 1
      /\ UNCHANGED <<mem, pmem, allocated, seq_counter, up, everDrained>>
  BY <1>1 DEF buffered_op
<1>5. Base /\ call.kind = "idle"
  BY <1>4 DEF RecInv, Idle
<1>6. PICK G : Good(G) /\ G \subseteq allocated
  BY <1>5 DEF RecInv
<1>7. next_ptfo_sequence \in Nat /\ issued \in Nat /\ MaxOps \in Nat
  BY <1>5, RecoveryAssumption DEF Base
<1>8. n \in Nodes /\ n \notin allocated
  BY <1>2, <1>4, <1>5, FreshNode
<1>9. o \in Ops /\ o.sequence = next_ptfo_sequence
  BY <1>1, <1>7 DEF Ops
<1>10. o.sequence < next_ptfo_sequence'
  BY <1>4, <1>7, <1>9
<1>11. Good(G)'
  <2>1. next_ptfo_sequence' \in Nat /\ next_ptfo_sequence <= next_ptfo_sequence'
    BY <1>4, <1>7
  <2> QED
    BY <1>4, <1>5, <1>6, <2>1, GoodLater
<1>12. Cardinality(allocated) \in Nat /\ Cardinality(allocated) <= issued
  <2>1. IsFiniteSet(Nodes)
    BY <1>7, FS_Interval DEF Nodes
  <2> QED
    BY <1>5, <2>1, FS_Subset, FS_CardinalityType DEF Base
<1>13. Base'
  <2>1. Words_OK(mem)' /\ Words_OK(pmem)'
    BY <1>4, <1>5 DEF Base, Words_OK
  <2>2. issued' \in 0 .. MaxOps /\ Cardinality(allocated') <= issued'
    BY <1>4, <1>7, <1>12
  <2> QED
    BY <1>4, <1>5, <1>7, <2>1, <2>2 DEF Base
<1>14. h \in G \cup {Null} /\ mem \in Memories
  BY <1>3, <1>6 DEF Good, Closed, Memories
<1>15. ASSUME NEW g, NEW linked \in {2, 4}, g \in G \cup {Null}
       PROVE  NodeStage(10, G, n, o, g, linked)'
  <2>1. Cardinality(allocated') < issued' /\ n \notin allocated' /\ n \notin G
    BY <1>4, <1>6, <1>7, <1>8, <1>12
  <2> QED
    BY <1>8, <1>9, <1>10, <1>15, <2>1 DEF NodeStage
<1>16. ASSUME h = Null PROVE InsertStage(G)'
  <2>1. todo' = FirstSteps(n, o)
    BY <1>2, <1>3, <1>4, <1>16 DEF future_insert, FirstSteps
  <2>2. IsList(FirstSteps(n, o), 10)
    BY FirstList DEF FirstIs
  <2>3. Rest(FirstSteps(n, o))' /\ Len(todo') = 10
    BY <2>1, <2>2, RestAll
  <2>4. NodeStage(10, G, n, o, Null, 4)'
    BY <1>15
  <2> QED
    BY <2>3, <2>4, Zenon DEF InsertStage
<1>17. ASSUME h # Null, mem[<<h, "count">>] = cardinality PROVE InsertStage(G)'
  <2>1. todo' = LinkSteps(n, o, h)
    BY <1>2, <1>3, <1>4, <1>17 DEF future_insert, LinkSteps
  <2>2. IsList(LinkSteps(n, o, h), 10)
    BY LinkList DEF LinkIs
  <2>3. Rest(LinkSteps(n, o, h))' /\ Len(todo') = 10
    BY <2>1, <2>2, RestAll
  <2>4. h \in G
    BY <1>14, <1>17
  <2>5. NodeStage(10, G, n, o, h, 2)'
    BY <1>15, <2>4
  <2> QED
    BY <2>3, <2>4, <2>5, Zenon DEF InsertStage
<1>18. ASSUME h # Null, mem[<<h, "count">>] # cardinality PROVE InsertStage(G)'
  <2>1. PICK c, before : c = mem[<<h, "count">>] /\ before = Entries(mem, h)
    OBVIOUS
  <2>2. PICK ops : ops = Append(before, o)
    OBVIOUS
  <2>3. todo' = EntrySteps(h, ops, c + 1)
    BY <1>2, <1>3, <1>4, <1>18, <2>1, <2>2 DEF future_insert, EntrySteps
  <2>4. IsList(EntrySteps(h, ops, c + 1), 4)
    BY EntryList DEF EntryIs
  <2>5. Rest(EntrySteps(h, ops, c + 1))' /\ Len(todo') = 4
    BY <2>3, <2>4, RestAll
  <2>6. h \in G
    BY <1>14, <1>18
  <2>7. /\ c \in Nat /\ before \in Seq(Ops) /\ Len(before) = c
        /\ \A i \in 1 .. Len(before) : before[i].sequence < next_ptfo_sequence
    BY <1>5, <1>6, <1>14, <2>1, <2>6, GoodEntries
  <2>8. /\ ops \in Seq(Ops) /\ Len(ops) = c + 1
        /\ ops[c + 1] = o
        /\ \A i \in 1 .. c : ops[i] = before[i] /\ ops[i] \in Ops
    BY <1>9, <2>2, <2>7
  <2>9. ASSUME NEW i \in 1 .. c + 1 PROVE ops[i].sequence < next_ptfo_sequence'
    <3>1. CASE i = c + 1
      BY <1>10, <2>8, <3>1
    <3>2. CASE i # c + 1
      <4>1. i \in 1 .. c
        BY <2>7, <3>2
      <4>2. ops[i].sequence < next_ptfo_sequence
        BY <2>7, <2>8, <4>1
      <4>3. ops[i].sequence \in Nat
        BY <2>8, <4>1 DEF Ops
      <4> QED
        BY <1>4, <1>7, <4>2, <4>3
    <3> QED
      BY <3>1, <3>2
  <2>10. EntryStage(4, G, h, ops, c)'
    <3>1. \A i \in 1 .. Len(ops) : ops[i].sequence < next_ptfo_sequence'
      BY <2>8, <2>9
    <3>2. mem'[<<h, "count">>] = c
      BY <1>4, <2>1
    <3>3. ops \in Seq(Ops) /\ Len(ops) = c + 1
      BY <2>8
    <3> QED
      BY <2>6, <2>7, <3>1, <3>2, <3>3 DEF EntryStage
  <2> QED
    BY <2>5, <2>10, Zenon DEF InsertStage
<1>19. InsertStage(G)'
  BY <1>16, <1>17, <1>18
<1>20. call'.kind = "insert" /\ up' /\ G \subseteq allocated'
  BY <1>4, <1>6
<1> QED
  BY <1>11, <1>13, <1>19, <1>20 DEF RecInv

\* The steps a drain of operations from A is made of.
DrainSteps(A) ==
    {ApplyOp(o) : o \in A} \cup {Skip} \cup {Passed(n) : n \in Nodes} \cup {Free(n) : n \in Nodes}
    \cup {Store(tail, v) : v \in 0 .. MaxOps} \cup {Store(head, Null)}

\* They are the steps the invariant admits.
LEMMA DrainStepsAre ==
    ASSUME NEW A, NEW s \in DrainSteps(A)
    PROVE  DrainStep(s)
<1>1. CASE s \in {ApplyOp(o) : o \in A}
  BY <1>1 DEF ApplyOp, DrainStep
<1>2. CASE s = Skip
  BY <1>2 DEF Skip, DrainStep
<1>3. CASE s \in {Passed(n) : n \in Nodes}
  BY <1>3 DEF Passed, DrainStep
<1>4. CASE s \in {Free(n) : n \in Nodes}
  BY <1>4 DEF Free, DrainStep
<1>5. CASE s \in {Store(tail, v) : v \in 0 .. MaxOps} \cup {Store(head, Null)}
  BY <1>5 DEF DrainStep
<1> QED
  BY <1>1, <1>2, <1>3, <1>4, <1>5 DEF DrainSteps

\* An F3-K drain is made of them and resets the head in the end.
LEMMA TailDrainSteps ==
    ASSUME Base
    PROVE  \E A : \E s \in Seq(DrainSteps(A)) :
               future_drain_thread_from_tail = s \o << Store(head, Null) >>
<1> DEFINE nodes == FromTail(mem)
           one(i) == [j \in 1 .. mem[<<nodes[i], "count">>] |-> ApplyOp(mem[<<nodes[i], "ops">>][j])] \o
                     << Store(tail, mem[<<nodes[i], "prev">>]), Passed(nodes[i]), Free(nodes[i]) >>
           ss == [i \in DOMAIN nodes |-> one(i)]
           A == {mem[<<n, "ops">>][j] : n \in Nodes, j \in Nat}
           T == DrainSteps(A)
<1>1. nodes \in Seq(Nodes)
  BY FromTailIn DEF Base
<1>2. ASSUME NEW i \in DOMAIN nodes PROVE one(i) \in Seq(T)
  <2>1. PICK n \in Nodes : n = nodes[i]
    BY <1>1
  <2>2. PICK c \in Nat : c = mem[<<n, "count">>]
    BY DEF Base, Words_OK
  <2>3. PICK p \in 0 .. MaxOps : p = mem[<<n, "prev">>]
    BY DEF Base, Words_OK
  <2>4. \A j \in 1 .. c : ApplyOp(mem[<<n, "ops">>][j]) \in T
    <3>1. \A j \in 1 .. c : mem[<<n, "ops">>][j] \in A
      BY <2>2
    <3> QED
      BY <3>1 DEF DrainSteps
  <2> DEFINE applied == [j \in 1 .. c |-> ApplyOp(mem[<<n, "ops">>][j])]
             moved == << Store(tail, p), Passed(n), Free(n) >>
  <2>5. applied \in Seq(T)
    <3> HIDE DEF T
    <3>1. applied = [j \in 1 .. c |-> applied[j]]
      OBVIOUS
    <3>2. \A j \in 1 .. c : applied[j] \in T
      BY <2>4
    <3> HIDE DEF applied
    <3> QED
      BY <3>1, <3>2
  <2>6. Store(tail, p) \in T /\ Passed(n) \in T /\ Free(n) \in T
    BY DEF DrainSteps
  <2>7. moved \in Seq(T)
    BY <2>6
  <2>8. one(i) = applied \o moved
    BY <2>1, <2>2, <2>3
  <2> HIDE DEF T, applied, moved, one
  <2> QED
    BY <2>5, <2>7, <2>8
<1>3. ss \in Seq(Seq(T))
  <2> HIDE DEF T, one
  <2>1. PICK N \in Nat : DOMAIN nodes = 1 .. N
    BY <1>1
  <2> QED
    BY <1>2, <2>1
<1>4. FlattenSeq(ss) \in Seq(T)
  BY <1>3, FlattenType
<1>5. future_drain_thread_from_tail = FlattenSeq(ss) \o << Store(head, Null) >>
  BY DEF future_drain_thread_from_tail
<1> HIDE DEF A, ss
<1>6. PICK B, s : B = A /\ s = FlattenSeq(ss)
  OBVIOUS
<1>7. s \in Seq(DrainSteps(B)) /\ future_drain_thread_from_tail = s \o << Store(head, Null) >>
  BY <1>4, <1>5, <1>6
<1> QED
  BY <1>7, Zenon

\* So is an F3-N drain.
LEMMA HeadDrainSteps ==
    ASSUME Base, NEW G, Good(G)
    PROVE  \E A : \E s \in Seq(DrainSteps(A)) :
               apply_node_ordered_ptfo_replay = s \o << Store(head, Null), Store(tail, Null) >>
<1> DEFINE chain == Chain(mem)
           nodes == Reverse(chain)
           ss == [i \in DOMAIN nodes |-> Entries(mem, nodes[i])]
           ops == FlattenSeq(ss)
           latest(o) == \A x \in ToSet(ops) : x.key = o.key => x.sequence <= o.sequence
           T == DrainSteps(Ops)
           apply == [i \in DOMAIN ops |-> IF latest(ops[i]) THEN ApplyOp(ops[i]) ELSE Skip]
           free == [i \in DOMAIN chain |-> Free(chain[i])]
           ends == << Store(head, Null), Store(tail, Null) >>
<1>1. mem \in Memories /\ G \in SUBSET Nodes
  BY DEF Memories, Good
<1>2. chain \in Seq(G)
  <2>1. Stays(mem, head, "next", G)
    <3> HIDE DEF chain, nodes, ss, ops, T, apply, free, ends
    <3> QED
      BY <1>1 DEF Good, Closed, Stays
  <2> QED
    BY <2>1, ChainStays
<1>3. PICK N \in Nat : /\ DOMAIN chain = 1 .. N /\ DOMAIN nodes = 1 .. N
                       /\ \A i \in 1 .. N : chain[i] \in G /\ nodes[i] \in G
  <2>1. Len(chain) \in Nat /\ DOMAIN chain = 1 .. Len(chain)
        /\ \A i \in 1 .. Len(chain) : chain[i] \in G
    BY <1>2
  <2>2. DOMAIN nodes = 1 .. Len(chain)
        /\ \A i \in 1 .. Len(chain) : nodes[i] = chain[(Len(chain) - i) + 1]
    <3> HIDE DEF chain
    <3> QED
      BY Zenon DEF Reverse
  <2>3. PICK N \in Nat : N = Len(chain)
    BY <2>1
  <2>4. \A i \in 1 .. N : (N - i) + 1 \in 1 .. N
    OBVIOUS
  <2> HIDE DEF chain, nodes
  <2> QED
    BY <2>1, <2>2, <2>3, <2>4, Zenon
<1>4. ops \in Seq(Ops)
  <2>1. \A i \in 1 .. N : Entries(mem, nodes[i]) \in Seq(Ops)
    BY <1>1, <1>3, GoodEntries
  <2>2. ss \in Seq(Seq(Ops))
    <3> HIDE DEF nodes
    <3> QED
      BY <1>3, <2>1
  <2> QED
    BY <2>2, FlattenType
<1>5. apply \in Seq(T)
  <2> HIDE DEF ops
  <2>1. PICK M \in Nat : DOMAIN ops = 1 .. M /\ \A i \in 1 .. M : ops[i] \in Ops
    BY <1>4
  <2>2. \A o \in Ops : ApplyOp(o) \in T
    BY DEF DrainSteps
  <2>3. Skip \in T
    BY DEF DrainSteps
  <2> HIDE DEF latest, T
  <2> QED
    BY <2>1, <2>2, <2>3
<1>6. free \in Seq(T)
  <2>1. \A i \in 1 .. N : Free(chain[i]) \in T
    BY <1>1, <1>3 DEF DrainSteps
  <2> HIDE DEF T, nodes, chain
  <2> QED
    BY <1>3, <2>1
<1>7. apply_node_ordered_ptfo_replay = apply \o (free \o ends)
  BY DEF apply_node_ordered_ptfo_replay, future_clear_thread
<1>8. ends \in Seq(T)
  <2>1. Null \in 0 .. MaxOps
    BY RecoveryAssumption DEF Null
  <2>2. Store(head, Null) \in T /\ Store(tail, Null) \in T
    BY <2>1 DEF DrainSteps
  <2> QED
    BY <2>2
<1>9. apply \o free \in Seq(T) /\ apply \o (free \o ends) = (apply \o free) \o ends
  <2> HIDE DEF apply, free, ends, T
  <2> QED
    BY <1>5, <1>6, <1>8, ConcatAssociative
<1> HIDE DEF apply, free
<1> QED
  BY <1>7, <1>9, Zenon DEF ends

\* drain begins with all of its steps left.
LEMMA DrainBegins ==
    ASSUME RecInv, drain
    PROVE  RecInv'
<1>1. /\ up /\ call = Idle /\ call' = [kind |-> "drain"]
      /\ todo' = IF Policy = "F3K" THEN future_drain_thread_from_tail ELSE apply_node_ordered_ptfo_replay
      /\ everDrained'
      /\ UNCHANGED <<mem, pmem, allocated, seq_counter, next_ptfo_sequence, up, issued>>
  BY DEF drain
<1>2. Base /\ call.kind = "idle"
  BY <1>1 DEF RecInv, Idle
<1>3. PICK G : Good(G)
  BY DEF RecInv
<1>4. Base'
  BY <1>1, <1>2 DEF Base, Words_OK
<1>5. Good(G)'
  <2>1. Memories' = {mem} /\ mem \in Memories
    BY <1>1 DEF Memories
  <2>2. next_ptfo_sequence \in Nat /\ next_ptfo_sequence' \in Nat
        /\ next_ptfo_sequence <= next_ptfo_sequence'
    BY <1>1, <1>2 DEF Base
  <2>3. \A m \in Memories' : m[head] \in G \cup {Null}
    BY <1>3, <2>1 DEF Good, Closed
  <2>4. \A m \in Memories' : \A n \in G : \A f \in Read :
            \E x \in Memories : m[<<n, f>>] = x[<<n, f>>]
    BY <2>1
  <2>5. \A m \in Memories' : \A n \in G : m[<<n, "count">>] <= mem'[<<n, "count">>]
    BY <1>1, <1>3, <2>1 DEF Good
  <2> QED
    BY <1>3, <2>2, <2>3, <2>4, <2>5, GoodMix
<1>6. PICK A, s, e : /\ s \in Seq(DrainSteps(A)) /\ e \in Seq(DrainSteps(A))
                     /\ todo' = s \o e
                     /\ Len(e) \in Nat \ {0} /\ e[1] = Store(head, Null)
  <2>1. \A B : << Store(head, Null) >> \in Seq(DrainSteps(B))
              /\ << Store(head, Null), Store(tail, Null) >> \in Seq(DrainSteps(B))
    <3>1. \A B : Store(head, Null) \in DrainSteps(B)
      BY DEF DrainSteps
    <3>2. \A B : Store(tail, Null) \in DrainSteps(B)
      <4>1. Null \in 0 .. MaxOps
        BY RecoveryAssumption DEF Null
      <4> QED
        BY <4>1 DEF DrainSteps
    <3> QED
      BY <3>1, <3>2
  <2>2. CASE Policy = "F3K"
    <3>1. PICK A, s : s \in Seq(DrainSteps(A))
                      /\ future_drain_thread_from_tail = s \o << Store(head, Null) >>
      BY <1>2, TailDrainSteps
    <3>2. PICK e : e = << Store(head, Null) >>
      OBVIOUS
    <3>3. Len(e) \in Nat \ {0} /\ e[1] = Store(head, Null)
      BY <3>2
    <3>4. e \in Seq(DrainSteps(A)) /\ todo' = s \o e
      BY <1>1, <2>1, <2>2, <3>1, <3>2
    <3> QED
      BY <3>1, <3>3, <3>4, Zenon
  <2>3. CASE Policy # "F3K"
    <3>1. PICK A, s : s \in Seq(DrainSteps(A))
                      /\ apply_node_ordered_ptfo_replay = s \o << Store(head, Null), Store(tail, Null) >>
      BY <1>2, <1>3, HeadDrainSteps
    <3>2. PICK e : e = << Store(head, Null), Store(tail, Null) >>
      OBVIOUS
    <3>3. Len(e) \in Nat \ {0} /\ e[1] = Store(head, Null)
      BY <3>2
    <3>4. e \in Seq(DrainSteps(A)) /\ todo' = s \o e
      BY <1>1, <2>1, <2>3, <3>1, <3>2
    <3> QED
      BY <3>1, <3>3, <3>4, Zenon
  <2> QED
    BY <2>2, <2>3
<1>7. PICK X : X = DrainSteps(A)
  OBVIOUS
<1>8. /\ todo' \in Seq(X)
      /\ \A i \in DOMAIN todo' : todo'[i] \in X
      /\ \E i \in DOMAIN todo' : todo'[i] = Store(head, Null)
  <2>1. s \in Seq(X) /\ e \in Seq(X)
    BY <1>6, <1>7
  <2>2. todo' \in Seq(X)
    BY <1>6, <2>1
  <2>3. Len(s) + 1 \in DOMAIN todo' /\ todo'[Len(s) + 1] = e[1]
    BY <1>6, <2>1
  <2>4. \A i \in DOMAIN todo' : todo'[i] \in X
    BY <2>2
  <2> QED
    BY <1>6, <2>2, <2>3, <2>4
<1>9. \A i \in DOMAIN todo' : DrainStep(todo'[i])
  BY <1>7, <1>8, DrainStepsAre
<1>10. DrainStage'
  BY <1>1, <1>8, <1>9 DEF DrainStage, DrainStep
<1>11. call'.kind = "drain" /\ up'
  BY <1>1
<1> QED
  BY <1>4, <1>5, <1>10, <1>11 DEF RecInv

-----------------------------------------------------------------------------
(* Calls return, processes end, pools are opened again. *)

\* A drain that returns leaves an empty chain.
LEMMA ReturnKeeps ==
    ASSUME RecInv, Return
    PROVE  RecInv'
<1>1. /\ up /\ todo = << >> /\ call # Idle /\ call' = Idle
      /\ UNCHANGED <<mem, pmem, allocated, seq_counter, next_ptfo_sequence, todo, up,
                     everDrained, issued>>
  BY DEF Return
<1>2. Base /\ Base'
  BY <1>1 DEF RecInv, Base, Words_OK
<1>3. call'.kind = "idle" /\ up' /\ todo' = << >>
  BY <1>1 DEF Idle
<1>4. \E G : Good(G)' /\ G \subseteq allocated'
  <2>1. CASE call.kind = "insert"
    <3>1. PICK G : Good(G) /\ G \subseteq allocated
      BY <2>1 DEF RecInv
    <3>2. Good(G)'
      <4>1. next_ptfo_sequence' \in Nat /\ next_ptfo_sequence <= next_ptfo_sequence'
        BY <1>1, <1>2 DEF Base
      <4> QED
        BY <1>1, <1>2, <3>1, <4>1, GoodLater
    <3> QED
      BY <1>1, <3>1, <3>2
  <2>2. CASE call.kind = "drain"
    <3>1. mem[head] = Null /\ everDrained
      BY <1>1, <2>2 DEF RecInv, DrainStage
    <3>2. Memories' = {mem} /\ mem' = mem
      BY <1>1, <3>1 DEF Memories
    <3>3. Good({})'
      BY <3>1, <3>2 DEF Good, Closed
    <3> QED
      BY <3>3
  <2> QED
    BY <1>1, <2>1, <2>2 DEF RecInv
<1> QED
  BY <1>1, <1>2, <1>3, <1>4 DEF RecInv

\* The image is made of words a crash may take.
LEMMA DieKeeps ==
    ASSUME RecInv, call.kind # "drain", NEW image, Die(image),
           image = [w \in Words |-> image[w]],
           \A w \in Words : \E x \in Memories : image[w] = x[w]
    PROVE  RecInv'
<1>1. /\ mem' = image /\ pmem' = image /\ ~up' /\ todo' = << >>
      /\ UNCHANGED <<allocated, seq_counter, next_ptfo_sequence, call, everDrained, issued>>
  BY DEF Die
<1>2. Base
  BY DEF RecInv
<1>3. \A x \in Memories : Words_OK(x)
  BY <1>2 DEF Base, Memories
<1>4. head \in Words /\ tail \in Words
      /\ \A n \in Nodes : <<n, "prev">> \in Words /\ <<n, "count">> \in Words
                          /\ <<n, "next">> \in Words /\ <<n, "ops">> \in Words
  BY WordFacts DEF Fields
<1>5. Words_OK(image)
  <2>1. image[tail] \in 0 .. MaxOps
    BY <1>3, <1>4 DEF Words_OK
  <2>2. \A n \in Nodes : image[<<n, "prev">>] \in 0 .. MaxOps
    BY <1>3, <1>4 DEF Words_OK
  <2>3. \A n \in Nodes : image[<<n, "count">>] \in Nat
    BY <1>3, <1>4 DEF Words_OK
  <2> QED
    BY <2>1, <2>2, <2>3 DEF Words_OK
<1>6. Base'
  BY <1>1, <1>2, <1>5 DEF Base, Words_OK
<1>7. PICK G : Good(G) /\ G \subseteq allocated
  BY DEF RecInv
<1>8. G \in SUBSET Nodes
  BY <1>7 DEF Good
<1>9. Memories' = {image}
  BY <1>1 DEF Memories
<1>10. Good(G)'
  <2>1. next_ptfo_sequence \in Nat /\ next_ptfo_sequence' \in Nat
        /\ next_ptfo_sequence <= next_ptfo_sequence'
    BY <1>1, <1>2 DEF Base
  <2>2. image[head] \in G \cup {Null}
    BY <1>4, <1>7 DEF Good, Closed
  <2>3. ASSUME NEW n \in G, NEW f \in Read PROVE \E x \in Memories : image[<<n, f>>] = x[<<n, f>>]
    BY <1>4, <1>8 DEF Read
  <2>4. \A n \in G : image[<<n, "count">>] <= image[<<n, "count">>]
    <3>1. \A n \in G : image[<<n, "count">>] \in Nat
      BY <1>5, <1>8, Zenon DEF Words_OK
    <3>2. \A c \in Nat : c <= c
      OBVIOUS
    <3> QED
      BY <3>1, <3>2
  <2>5. \A m \in Memories' : m[head] \in G \cup {Null}
    BY <1>9, <2>2
  <2>6. \A m \in Memories' : \A n \in G : \A f \in Read :
            \E x \in Memories : m[<<n, f>>] = x[<<n, f>>]
    BY <1>9, <2>3
  <2>7. \A m \in Memories' : \A n \in G : m[<<n, "count">>] <= mem'[<<n, "count">>]
    BY <1>1, <1>9, <2>4
  <2> QED
    BY <1>7, <2>1, <2>5, <2>6, <2>7, GoodMix
<1>11. G \subseteq allocated' /\ call'.kind # "drain" /\ mem' = pmem'
  BY <1>1, <1>7
<1> QED
  BY <1>1, <1>6, <1>10, <1>11 DEF RecInv

\* Both kinds of crash take words the invariant speaks of.
LEMMA CrashKeeps ==
    ASSUME RecInv, ~CrashInDrain, ~PowerAfterDrain, ProcessCrash \/ PowerFailure
    PROVE  RecInv'
<1>1. call.kind # "drain" /\ mem = [w \in Words |-> mem[w]]
  BY DEF ProcessCrash, PowerFailure, MayCrash, RecInv, Base, Words_OK
<1>2. CASE ProcessCrash
  <2>1. Die(mem) /\ mem \in Memories
    BY <1>2 DEF ProcessCrash, Memories
  <2> QED
    BY <1>1, <2>1, DieKeeps
<1>3. CASE PowerFailure
  <2>1. PICK image \in Images : Die(image)
    BY <1>3 DEF PowerFailure
  <2>2. mem \in Memories /\ pmem \in Memories
    BY <1>3 DEF PowerFailure, Memories
  <2>3. PICK S : image = [w \in Words |-> IF w \in S THEN mem[w] ELSE pmem[w]]
    BY DEF Images
  <2>4. image = [w \in Words |-> image[w]] /\ \A w \in Words : image[w] = mem[w] \/ image[w] = pmem[w]
    BY <2>3
  <2> QED
    BY <1>1, <2>1, <2>2, <2>4, DieKeeps
<1> QED
  BY <1>2, <1>3

\* A bounded set of numbers has a maximum.
LEMMA MaxIs ==
    ASSUME NEW T \in SUBSET Nat, T # {}, NEW limit \in Nat, \A n \in T : n <= limit
    PROVE  Max(T) \in T /\ \A n \in T : n <= Max(T)
<1>1. PICK n \in T : \A m \in T : m <= n
  BY GreatestNatural
<1>2. \A m \in T : n >= m
  BY <1>1
<1>3. Max(T) \in T /\ \A m \in T : Max(T) >= m
  BY <1>2 DEF Max
<1> QED
  BY <1>3

\* The operations a walk finds.
LEMMA ChainOpsAre ==
    ASSUME Base, NEW G, Good(G), NEW m \in Memories
    PROVE  /\ \A o \in ChainOps(m) : o.sequence \in Nat /\ o.sequence < next_ptfo_sequence
           /\ \A n \in ToSet(Chain(m)) : \A i \in 1 .. m[<<n, "count">>] :
                 m[<<n, "ops">>][i] \in ChainOps(m)
           /\ ToSet(Chain(m)) \in SUBSET G
           /\ Stays(m, head, "next", ToSet(Chain(m)))
<1>1. Stays(m, head, "next", G)
  BY DEF Good, Closed, Stays
<1>2. ToSet(Chain(m)) \in SUBSET G /\ Stays(m, head, "next", ToSet(Chain(m)))
  BY <1>1, ChainStays
<1>3. ASSUME NEW n \in ToSet(Chain(m))
      PROVE  /\ \A o \in ToSet(Entries(m, n)) : o.sequence \in Nat /\ o.sequence < next_ptfo_sequence
             /\ \A i \in 1 .. m[<<n, "count">>] : m[<<n, "ops">>][i] \in ToSet(Entries(m, n))
  <2>1. PICK e, c : e = Entries(m, n) /\ c = m[<<n, "count">>]
    OBVIOUS
  <2>2. /\ e \in Seq(Ops) /\ Len(e) = c /\ c \in Nat
        /\ \A i \in 1 .. Len(e) : e[i].sequence < next_ptfo_sequence /\ e[i] = m[<<n, "ops">>][i]
    BY <1>2, <2>1, GoodEntries
  <2>3. DOMAIN e = 1 .. c /\ \A i \in 1 .. c : e[i] \in Ops
    BY <2>2
  <2>4. \A i \in 1 .. c : e[i].sequence \in Nat
    BY <2>3 DEF Ops
  <2> QED
    BY <2>1, <2>2, <2>3, <2>4 DEF ToSet
<1> QED
  BY <1>2, <1>3 DEF ChainOps

\* The counters recovery starts from.
LEMMA ResumeIs ==
    ASSUME Base, NEW G, Good(G)
    PROVE  /\ Resume \in Nat
           /\ \A o \in ChainOps(mem) : o.sequence <= Resume
           /\ Max({1, Resume + 1}) \in Nat /\ Resume < Max({1, Resume + 1})
<1> DEFINE T == {seq_counter} \cup {o.sequence : o \in ChainOps(mem)}
<1>1. /\ seq_counter \in Nat /\ next_ptfo_sequence \in Nat /\ SequenceGap \in Nat
      /\ seq_counter + next_ptfo_sequence \in Nat
  BY RecoveryAssumption DEF Base
<1>2. mem \in Memories
  BY DEF Memories
<1>3. \A o \in ChainOps(mem) : o.sequence \in Nat /\ o.sequence < next_ptfo_sequence
  BY <1>2, ChainOpsAre
<1>4. T \in SUBSET Nat /\ T # {} /\ \A n \in T : n <= seq_counter + next_ptfo_sequence
  BY <1>1, <1>3
<1>5. Max(T) \in T /\ \A n \in T : n <= Max(T)
  <2> HIDE DEF T
  <2> QED
    BY <1>1, <1>4, MaxIs
<1>6. Max(T) \in Nat /\ \A o \in ChainOps(mem) : o.sequence <= Max(T)
  BY <1>4, <1>5
<1>7. Resume = Max(T) + SequenceGap
  BY DEF Resume
<1>8. Resume \in Nat /\ \A o \in ChainOps(mem) : o.sequence <= Resume
  <2> HIDE DEF T
  <2> QED
    BY <1>1, <1>3, <1>6, <1>7
<1>9. PICK r \in Nat : r = Resume
  BY <1>8
<1>10. Max({1, r + 1}) \in {1, r + 1} /\ \A n \in {1, r + 1} : n <= Max({1, r + 1})
  <2>1. {1, r + 1} \in SUBSET Nat /\ {1, r + 1} # {} /\ r + 1 \in Nat
        /\ \A n \in {1, r + 1} : n <= r + 1
    OBVIOUS
  <2> QED
    BY <2>1, MaxIs
<1>11. Max({1, r + 1}) \in Nat /\ r < Max({1, r + 1})
  BY <1>10
<1> QED
  BY <1>8, <1>9, <1>11

\* Recovery resumes above what it has walked over, which is a good set.
LEMMA ReopenKeeps ==
    ASSUME RecInv, Reopen
    PROVE  RecInv'
<1>1. /\ ~up /\ up' /\ call' = Idle
      /\ seq_counter' = Resume /\ next_ptfo_sequence' = Max({1, Resume + 1})
      /\ UNCHANGED <<mem, pmem, allocated, todo, everDrained, issued>>
  BY DEF Reopen
<1>2. Base /\ todo = << >> /\ call.kind # "drain" /\ mem = pmem
  BY <1>1 DEF RecInv
<1>3. PICK G : Good(G) /\ G \subseteq allocated
  BY <1>2 DEF RecInv
<1>4. PICK C : C = ToSet(Chain(mem))
  OBVIOUS
<1>5. Memories = {mem} /\ Memories' = {mem} /\ mem' = mem
  BY <1>1, <1>2 DEF Memories
<1>6. PICK next : next = Max({1, Resume + 1})
  OBVIOUS
<1>7. /\ Resume \in Nat /\ \A o \in ChainOps(mem) : o.sequence <= Resume
      /\ next \in Nat /\ Resume < next
  BY <1>2, <1>3, <1>6, ResumeIs
<1>8. /\ \A o \in ChainOps(mem) : o.sequence \in Nat
      /\ \A n \in C : \A i \in 1 .. mem[<<n, "count">>] : mem[<<n, "ops">>][i] \in ChainOps(mem)
      /\ C \in SUBSET G
      /\ Stays(mem, head, "next", C)
  BY <1>2, <1>3, <1>4, <1>5, ChainOpsAre
<1>9. ASSUME NEW n \in C PROVE Readable(mem, mem, n)'
  <2>1. Readable(mem, mem, n)
    BY <1>3, <1>5, <1>8 DEF Good
  <2>2. \A o \in ChainOps(mem) : o.sequence < next
    BY <1>7, <1>8
  <2>3. \A i \in 1 .. mem[<<n, "count">>] : mem[<<n, "ops">>][i].sequence < next
    BY <1>8, <2>2
  <2> QED
    BY <1>1, <1>6, <2>1, <2>3 DEF Readable
<1>10. Good(C)'
  <2>1. C \in SUBSET Nodes /\ Closed(mem, C)
    BY <1>8 DEF Stays, Closed
  <2>2. \A n \in C : mem[<<n, "count">>] <= mem[<<n, "count">>]
    BY <1>3, <1>5, <1>8 DEF Good
  <2>3. \A m1, m2 \in Memories' : \A n \in C : Readable(m1, m2, n)'
    BY <1>5, <1>9 DEF Readable
  <2>4. \A m \in Memories' : Closed(m, C)'
    BY <1>5, <2>1 DEF Closed
  <2>5. \A m \in Memories' : \A n \in C : m[<<n, "count">>] <= mem'[<<n, "count">>]
    BY <1>5, <2>2
  <2> QED
    BY <2>1, <2>3, <2>4, <2>5 DEF Good
<1>11. C \subseteq allocated'
  BY <1>1, <1>3, <1>8
<1>12. Base'
  BY <1>1, <1>2, <1>6, <1>7 DEF Base, Words_OK
<1>13. call'.kind = "idle"
  BY <1>1 DEF Idle
<1> QED
  BY <1>1, <1>2, <1>10, <1>11, <1>12, <1>13 DEF RecInv

-----------------------------------------------------------------------------
(* The theorems. *)

\* The invariant holds in an empty pool.
LEMMA InitRecInv ==
    ASSUME Init
    PROVE  RecInv
<1>1. /\ mem = [w \in Words |-> IF w[2] = "ops" THEN << >> ELSE 0] /\ pmem = mem
      /\ allocated = {} /\ seq_counter = 0 /\ next_ptfo_sequence = 1 /\ issued = 0
      /\ todo = << >> /\ call = Idle /\ up /\ ~everDrained
  BY DEF Init
<1>2. head \in Words /\ tail \in Words /\ head[2] = "head" /\ tail[2] = "tail"
      /\ \A n \in Nodes : <<n, "prev">> \in Words /\ <<n, "count">> \in Words
  BY WordFacts DEF Fields, head, tail
<1>3. mem[head] = 0 /\ mem[tail] = 0
      /\ \A n \in Nodes : mem[<<n, "prev">>] = 0 /\ mem[<<n, "count">>] = 0
  BY <1>1, <1>2
<1>4. MaxOps \in Nat
  BY RecoveryAssumption
<1>5. mem = [w \in Words |-> mem[w]]
  BY <1>1
<1>6. Words_OK(mem) /\ Words_OK(pmem)
  <2>1. 0 \in 0 .. MaxOps /\ 0 \in Nat
    BY <1>4
  <2>2. Words_OK(mem)
    BY <1>3, <1>5, <2>1, Zenon DEF Words_OK
  <2> QED
    BY <1>1, <2>2
<1>7. Base
  BY <1>1, <1>4, <1>6, FS_EmptySet DEF Base
<1>8. Good({})
  BY <1>1, <1>3 DEF Good, Closed, Memories, Null
<1>9. call.kind = "idle"
  BY <1>1 DEF Idle
<1> QED
  BY <1>1, <1>7, <1>8, <1>9 DEF RecInv

\* Every step keeps the invariant.
LEMMA NextRecInv ==
    ASSUME RecInv, ~CrashInDrain, ~PowerAfterDrain, [Next]_vars
    PROVE  RecInv'
<1>1. ASSUME NEW k \in Keys, NEW d \in BOOLEAN, buffered_op(k, d) PROVE RecInv'
  BY <1>1, InsertBegins
<1>2. CASE drain
  BY <1>2, DrainBegins
<1>3. CASE Step
  BY <1>3, StepKeeps
<1>4. CASE Return
  BY <1>4, ReturnKeeps
<1>5. CASE ProcessCrash \/ PowerFailure
  BY <1>5, CrashKeeps
<1>6. CASE Reopen
  BY <1>6, ReopenKeeps
<1>7. CASE UNCHANGED vars
  <2>1. /\ UNCHANGED <<mem, pmem, allocated, seq_counter, next_ptfo_sequence, todo, call, up>>
        /\ UNCHANGED <<everDrained, issued>>
    BY <1>7 DEF vars
  <2>2. Memories' = Memories
    BY <2>1 DEF Memories
  <2>3. Base' = Base /\ \A G : Good(G)' = Good(G)
    BY <2>1, <2>2 DEF Base, Words_OK, Good, Closed, Readable
  <2>4. \A G : InsertStage(G)' = InsertStage(G)
    BY <2>1 DEF InsertStage, Rest, NodeStage, EntryStage
  <2>5. DrainStage' = DrainStage
    BY <2>1 DEF DrainStage, DrainStep
  <2> QED
    BY <2>1, <2>3, <2>4, <2>5 DEF RecInv
<1> QED
  BY <1>1, <1>2, <1>3, <1>4, <1>5, <1>6, <1>7 DEF Next

\* The invariant implies both properties.
LEMMA InvDominates ==
    ASSUME RecInv
    PROVE  SequencesDominate
<1>1. PICK G : Good(G)
  BY DEF RecInv
<1>2. Base /\ mem \in Memories
  BY DEF RecInv, Memories
<1> QED
  BY <1>1, <1>2, ChainOpsAre DEF SequencesDominate

LEMMA InvRecovers ==
    ASSUME RecInv, ~PowerAfterDrain
    PROVE  EveryImageRecovers
<1> SUFFICES ASSUME up, call.kind # "drain", ~everDrained, NEW m \in Images
             PROVE  \A n \in ToSet(Chain(m)) : /\ n \in allocated
                                               /\ m[<<n, "count">>] \in 1 .. Len(m[<<n, "ops">>])
  BY DEF EveryImageRecovers
<1>1. PICK G : Good(G) /\ G \subseteq allocated
  BY DEF RecInv
<1>2. Memories = {mem, pmem} /\ G \in SUBSET Nodes
  BY <1>1 DEF Memories, Good
<1>3. PICK S : m = [w \in Words |-> IF w \in S THEN mem[w] ELSE pmem[w]]
  BY DEF Images
<1>4. \A w \in Words : \E x \in Memories : m[w] = x[w]
  BY <1>2, <1>3
<1>5. head \in Words /\ \A n \in G : <<n, "next">> \in Words /\ <<n, "ops">> \in Words /\ <<n, "count">> \in Words
  BY <1>2, WordFacts DEF Fields
<1>6. Stays(m, head, "next", G)
  BY <1>1, <1>2, <1>4, <1>5 DEF Good, Closed, Stays
<1>7. ToSet(Chain(m)) \in SUBSET G
  BY <1>6, ChainStays
<1>8. ASSUME NEW n \in G PROVE m[<<n, "count">>] \in 1 .. Len(m[<<n, "ops">>])
  <2>1. PICK x \in Memories : m[<<n, "count">>] = x[<<n, "count">>]
    BY <1>4, <1>5
  <2>2. PICK y \in Memories : m[<<n, "ops">>] = y[<<n, "ops">>]
    BY <1>4, <1>5
  <2>3. Readable(x, y, n)
    BY <1>1 DEF Good
  <2> QED
    BY <2>1, <2>2, <2>3 DEF Readable
<1> QED
  BY <1>1, <1>7, <1>8

\* However often the process crashes or power fails between drains, a
\* sequence number drawn after the restart is above all that the chain holds:
\* the counter saved in the pool may lag behind, the walk over the chain makes
\* up for it (the constructor, next_ptfo_sequence).
THEOREM RecoveredSequencesDominate ==
    ASSUME ~CrashInDrain, ~PowerAfterDrain
    PROVE  Spec => []SequencesDominate
<1>1. Init => RecInv
  BY InitRecInv
<1>2. RecInv /\ [Next]_vars => RecInv'
  BY NextRecInv
<1>3. RecInv => SequencesDominate
  BY InvDominates
<1> QED
  BY <1>1, <1>2, <1>3, PTL DEF Spec

\* At any moment of an insert, and whatever the caches have written back by
\* then, the pool can be recovered: every node a walk meets is allocated and
\* holds the entries its count promises.  This is what the order of stores and
\* flushes in future_insert is for.
THEOREM ImagesAreRecoverable ==
    ASSUME ~CrashInDrain, ~PowerAfterDrain
    PROVE  Spec => []EveryImageRecovers
<1>1. Init => RecInv
  BY InitRecInv
<1>2. RecInv /\ [Next]_vars => RecInv'
  BY NextRecInv
<1>3. RecInv => EveryImageRecovers
  BY InvRecovers
<1> QED
  BY <1>1, <1>2, <1>3, PTL DEF Spec

-----------------------------------------------------------------------------
(* What an acknowledged operation has to survive.  First, what walks over  *)
(* two memories have in common.                                            *)

\* The nodes recovery walks over.
Reach(m) == ToSet(Chain(m))

\* m is as f on the words S.
Kept(m, f, S) == \A w \in S : m[w] = f[w]

\* The nodes of a walk are the least set it cannot leave.
LEMMA ReachIs ==
    ASSUME NEW m, NEW G, Stays(m, head, "next", G)
    PROVE  Reach(m) \in SUBSET G /\ Stays(m, head, "next", Reach(m))
BY ChainStays DEF Reach

\* The same pointers, the same walk.
LEMMA SameReach ==
    ASSUME NEW f, NEW m, Stays(f, head, "next", Reach(f)),
           m[head] = f[head], \A x \in Reach(f) : m[<<x, "next">>] = f[<<x, "next">>]
    PROVE  Reach(m) = Reach(f) /\ Stays(m, head, "next", Reach(m))
<1>1. Stays(m, head, "next", Reach(f))
  BY DEF Stays
<1>2. Reach(m) \in SUBSET Reach(f) /\ Stays(m, head, "next", Reach(m))
  BY <1>1, ReachIs
<1>3. Stays(f, head, "next", Reach(m))
  BY <1>2 DEF Stays
<1>4. Reach(f) \in SUBSET Reach(m)
  BY <1>3, ReachIs
<1> QED
  BY <1>2, <1>4

\* m has node n before the walk of f.
Prepended(m, f, n) ==
    /\ n \in Nodes \ Reach(f)
    /\ m[head] = n /\ m[<<n, "next">>] = f[head]
    /\ \A x \in Reach(f) : m[<<x, "next">>] = f[<<x, "next">>]

\* A node before the head makes the walk one node longer.
LEMMA LongerReach ==
    ASSUME NEW f, NEW m, Stays(f, head, "next", Reach(f)), NEW n, Prepended(m, f, n)
    PROVE  Reach(m) = Reach(f) \cup {n} /\ Stays(m, head, "next", Reach(m))
<1> DEFINE R == Reach(f)
           H == Reach(m) \ {n}
<1> USE DEF Prepended
<1>1. Null \notin Nodes /\ R \in SUBSET Nodes /\ f[head] \in R \cup {Null}
      /\ \A x \in R : f[<<x, "next">>] \in R \cup {Null}
  BY RecoveryAssumption DEF Null, Nodes, Stays
<1>2. Stays(m, head, "next", R \cup {n})
  BY <1>1 DEF Stays
<1>3. Reach(m) \in SUBSET (R \cup {n}) /\ Stays(m, head, "next", Reach(m))
  BY <1>2, ReachIs
<1>4. /\ m[head] \in Reach(m) \cup {Null}
      /\ \A x \in Reach(m) : m[<<x, "next">>] \in Reach(m) \cup {Null}
  BY <1>3 DEF Stays
<1>5. n \in Reach(m)
  BY <1>1, <1>4
<1>6. f[head] \in H \cup {Null}
  BY <1>1, <1>4, <1>5
<1>7. ASSUME NEW x \in H PROVE f[<<x, "next">>] \in H \cup {Null}
  <2>1. x \in R /\ x \in Reach(m)
    BY <1>3
  <2>2. f[<<x, "next">>] = m[<<x, "next">>]
    BY <2>1
  <2> QED
    BY <1>1, <1>4, <2>1, <2>2
<1>8. H \in SUBSET Nodes
  BY <1>1, <1>3
<1>9. Stays(f, head, "next", H)
  BY <1>6, <1>7, <1>8 DEF Stays
<1>10. R \in SUBSET H
  BY <1>9, ReachIs
<1> QED
  BY <1>3, <1>5, <1>10

-----------------------------------------------------------------------------
(* What the walks find. *)

\* The nodes of m can be read.
Legible(m) ==
    \A n \in Reach(m) : /\ m[<<n, "ops">>] \in Seq(Ops)
                        /\ m[<<n, "count">>] \in 1 .. Len(m[<<n, "ops">>])

\* o is an entry of node n.
Holds(m, n, o) == \E i \in 1 .. m[<<n, "count">>] : o = m[<<n, "ops">>][i]

\* No two entries of the chain have one sequence number.
Distinct(m) ==
    \A n1, n2 \in Reach(m) :
        \A i \in 1 .. m[<<n1, "count">>], j \in 1 .. m[<<n2, "count">>] :
            m[<<n1, "ops">>][i].sequence = m[<<n2, "ops">>][j].sequence => n1 = n2 /\ i = j

\* The operations of a chain are the entries of its nodes.
LEMMA OpsAre ==
    ASSUME NEW m, Legible(m)
    PROVE  /\ \A o : o \in ChainOps(m) <=> \E n \in Reach(m) : Holds(m, n, o)
           /\ ChainOps(m) \in SUBSET Ops
<1>1. ASSUME NEW n \in Reach(m)
      PROVE  /\ \A o : o \in ToSet(Entries(m, n)) <=> Holds(m, n, o)
             /\ \A o : Holds(m, n, o) => o \in Ops
  <2>1. PICK ops, c : ops = m[<<n, "ops">>] /\ c = m[<<n, "count">>]
    OBVIOUS
  <2>2. ops \in Seq(Ops) /\ c \in 1 .. Len(ops)
    BY <2>1 DEF Legible
  <2>3. PICK e : e = SubSeq(ops, 1, c)
    OBVIOUS
  <2>4. e \in Seq(Ops) /\ Len(e) = c /\ \A i \in 1 .. c : e[i] = ops[i]
    BY <2>2, <2>3
  <2>5. DOMAIN e = 1 .. c
    BY <2>4
  <2>6. \A o : o \in ToSet(e) <=> \E i \in 1 .. c : o = ops[i]
    BY <2>4, <2>5 DEF ToSet
  <2>7. \A i \in 1 .. c : ops[i] \in Ops
    BY <2>2
  <2> QED
    BY <2>1, <2>3, <2>6, <2>7 DEF Entries, Holds
<1>2. \A o : o \in ChainOps(m) <=> \E n \in Reach(m) : o \in ToSet(Entries(m, n))
  BY DEF ChainOps, Reach
<1> QED
  BY <1>1, <1>2

\* The same entries, the same operations.
LEMMA SameContents ==
    ASSUME NEW f, NEW m, Stays(f, head, "next", Reach(f)), Legible(f), Legible(m), Distinct(f),
           m[head] = f[head],
           \A x \in Reach(f) : /\ m[<<x, "next">>] = f[<<x, "next">>]
                               /\ m[<<x, "count">>] = f[<<x, "count">>]
                               /\ \A i \in 1 .. f[<<x, "count">>] :
                                     m[<<x, "ops">>][i] = f[<<x, "ops">>][i]
    PROVE  ChainOps(m) = ChainOps(f) /\ Distinct(m)
<1>1. Reach(m) = Reach(f)
  BY SameReach
<1>2. \A x \in Reach(f) : \A o : Holds(m, x, o) <=> Holds(f, x, o)
  BY DEF Holds
<1>3. \A o : o \in ChainOps(m) <=> o \in ChainOps(f)
  BY <1>1, <1>2, OpsAre
<1>4. Distinct(m)
  <2> SUFFICES ASSUME NEW n1 \in Reach(f), NEW n2 \in Reach(f),
                      NEW i \in 1 .. m[<<n1, "count">>], NEW j \in 1 .. m[<<n2, "count">>],
                      m[<<n1, "ops">>][i].sequence = m[<<n2, "ops">>][j].sequence
               PROVE  n1 = n2 /\ i = j
    BY <1>1 DEF Distinct
  <2>1. i \in 1 .. f[<<n1, "count">>] /\ m[<<n1, "ops">>][i] = f[<<n1, "ops">>][i]
    OBVIOUS
  <2>2. j \in 1 .. f[<<n2, "count">>] /\ m[<<n2, "ops">>][j] = f[<<n2, "ops">>][j]
    OBVIOUS
  <2>3. f[<<n1, "ops">>][i].sequence = f[<<n2, "ops">>][j].sequence
    BY <2>1, <2>2
  <2> QED
    BY <2>1, <2>2, <2>3, Zenon DEF Distinct
<1> QED
  BY <1>3, <1>4

\* A node before the head adds its operation.
LEMMA NodeContents ==
    ASSUME NEW f, NEW m, Stays(f, head, "next", Reach(f)), Legible(f), Distinct(f),
           NEW o \in Ops, \A x \in ChainOps(f) : x.sequence < o.sequence,
           NEW n \in Nodes \ Reach(f),
           m[head] = n, m[<<n, "next">>] = f[head], m[<<n, "ops">>] = <<o>>, m[<<n, "count">>] = 1,
           \A x \in Reach(f) : /\ m[<<x, "next">>] = f[<<x, "next">>]
                               /\ m[<<x, "count">>] = f[<<x, "count">>]
                               /\ m[<<x, "ops">>] = f[<<x, "ops">>]
    PROVE  ChainOps(m) = ChainOps(f) \cup {o} /\ Distinct(m)
<1>1. Reach(m) = Reach(f) \cup {n}
  <2>1. Prepended(m, f, n)
    BY DEF Prepended
  <2> QED
    BY <2>1, LongerReach
<1>2. <<o>> \in Seq(Ops) /\ Len(<<o>>) = 1 /\ <<o>>[1] = o /\ 1 \in 1 .. 1
  OBVIOUS
<1>3. Legible(m)
  BY <1>1, <1>2 DEF Legible
<1>4. \A x \in Reach(f) : \A z : Holds(m, x, z) <=> Holds(f, x, z)
  BY DEF Holds
<1>5. \A z : Holds(m, n, z) <=> z = o
  BY <1>2 DEF Holds
<1>6. \A z : z \in ChainOps(m) <=> z \in ChainOps(f) \cup {o}
  BY <1>1, <1>3, <1>4, <1>5, OpsAre
<1>7. ASSUME NEW x \in Reach(f), NEW i \in 1 .. f[<<x, "count">>]
      PROVE  f[<<x, "ops">>][i].sequence # o.sequence
  <2>1. f[<<x, "ops">>][i] \in ChainOps(f) /\ f[<<x, "ops">>][i] \in Ops
    BY OpsAre, Zenon DEF Holds
  <2>2. f[<<x, "ops">>][i].sequence \in Nat /\ o.sequence \in Nat
    BY <2>1 DEF Ops
  <2> QED
    BY <2>1, <2>2
<1>8. Distinct(m)
  <2> SUFFICES ASSUME NEW n1 \in Reach(m), NEW n2 \in Reach(m),
                      NEW i \in 1 .. m[<<n1, "count">>], NEW j \in 1 .. m[<<n2, "count">>],
                      m[<<n1, "ops">>][i].sequence = m[<<n2, "ops">>][j].sequence
               PROVE  n1 = n2 /\ i = j
    BY DEF Distinct
  <2>1. CASE n1 \in Reach(f) /\ n2 \in Reach(f)
    <3>1. i \in 1 .. f[<<n1, "count">>] /\ m[<<n1, "ops">>][i] = f[<<n1, "ops">>][i]
      BY <2>1
    <3>2. j \in 1 .. f[<<n2, "count">>] /\ m[<<n2, "ops">>][j] = f[<<n2, "ops">>][j]
      BY <2>1
    <3>3. f[<<n1, "ops">>][i].sequence = f[<<n2, "ops">>][j].sequence
      BY <3>1, <3>2
    <3> QED
      BY <2>1, <3>1, <3>2, <3>3, Zenon DEF Distinct
  <2>2. CASE n1 = n /\ n2 = n
    BY <2>2
  <2>3. CASE n1 \in Reach(f) /\ n2 = n
    <3>1. j = 1 /\ m[<<n2, "ops">>][j] = o
      BY <1>2, <2>3
    <3> QED
      BY <1>7, <2>3, <3>1
  <2>4. CASE n1 = n /\ n2 \in Reach(f)
    <3>1. i = 1 /\ m[<<n1, "ops">>][i] = o
      BY <1>2, <2>4
    <3> QED
      BY <1>7, <2>4, <3>1
  <2> QED
    BY <1>1, <2>1, <2>2, <2>3, <2>4
<1> QED
  BY <1>6, <1>8

\* So does an entry more in node h.
LEMMA EntryContents ==
    ASSUME NEW f, NEW m, Stays(f, head, "next", Reach(f)), Legible(f), Legible(m), Distinct(f),
           NEW o \in Ops, \A x \in ChainOps(f) : x.sequence < o.sequence,
           NEW h \in Reach(f), NEW c \in Nat, c = f[<<h, "count">>],
           m[head] = f[head], m[<<h, "count">>] = c + 1, m[<<h, "ops">>][c + 1] = o,
           \A i \in 1 .. c : m[<<h, "ops">>][i] = f[<<h, "ops">>][i],
           \A x \in Reach(f) : m[<<x, "next">>] = f[<<x, "next">>],
           \A x \in Reach(f) \ {h} : /\ m[<<x, "count">>] = f[<<x, "count">>]
                                     /\ m[<<x, "ops">>] = f[<<x, "ops">>]
    PROVE  ChainOps(m) = ChainOps(f) \cup {o} /\ Distinct(m)
<1>1. Reach(m) = Reach(f)
  BY SameReach
<1>2. \A x \in Reach(f) \ {h} : \A z : Holds(m, x, z) <=> Holds(f, x, z)
  BY DEF Holds
<1>3. 1 .. (c + 1) = (1 .. c) \cup {c + 1} /\ c + 1 \notin 1 .. c
  OBVIOUS
<1>4. \A z : Holds(m, h, z) <=> Holds(f, h, z) \/ z = o
  BY <1>3 DEF Holds
<1>5. \A z : z \in ChainOps(m) <=> z \in ChainOps(f) \cup {o}
  BY <1>1, <1>2, <1>4, OpsAre
<1>6. ASSUME NEW x \in Reach(f), NEW i \in 1 .. f[<<x, "count">>]
      PROVE  f[<<x, "ops">>][i].sequence # o.sequence
  <2>1. f[<<x, "ops">>][i] \in ChainOps(f) /\ f[<<x, "ops">>][i] \in Ops
    BY OpsAre, Zenon DEF Holds
  <2>2. f[<<x, "ops">>][i].sequence \in Nat /\ o.sequence \in Nat
    BY <2>1 DEF Ops
  <2> QED
    BY <2>1, <2>2
<1>7. ASSUME NEW x \in Reach(f), NEW i \in 1 .. m[<<x, "count">>]
      PROVE  \/ i \in 1 .. f[<<x, "count">>] /\ m[<<x, "ops">>][i] = f[<<x, "ops">>][i]
             \/ x = h /\ i = c + 1 /\ m[<<x, "ops">>][i] = o
  BY <1>3
<1>8. Distinct(m)
  <2> SUFFICES ASSUME NEW n1 \in Reach(f), NEW n2 \in Reach(f),
                      NEW i \in 1 .. m[<<n1, "count">>], NEW j \in 1 .. m[<<n2, "count">>],
                      m[<<n1, "ops">>][i].sequence = m[<<n2, "ops">>][j].sequence
               PROVE  n1 = n2 /\ i = j
    BY <1>1 DEF Distinct
  <2> DEFINE Old(x, a) == a \in 1 .. f[<<x, "count">>] /\ m[<<x, "ops">>][a] = f[<<x, "ops">>][a]
             New(x, a) == x = h /\ a = c + 1 /\ m[<<x, "ops">>][a] = o
  <2>1. Old(n1, i) \/ New(n1, i)
    BY <1>7
  <2>2. Old(n2, j) \/ New(n2, j)
    BY <1>7
  <2>3. CASE Old(n1, i) /\ Old(n2, j)
    <3>1. f[<<n1, "ops">>][i].sequence = f[<<n2, "ops">>][j].sequence
      BY <2>3
    <3> QED
      BY <2>3, <3>1, Zenon DEF Distinct
  <2>4. CASE New(n1, i) /\ New(n2, j)
    BY <2>4
  <2>5. CASE Old(n1, i) /\ New(n2, j)
    BY <1>6, <2>5
  <2>6. CASE New(n1, i) /\ Old(n2, j)
    BY <1>6, <2>6
  <2> QED
    BY <2>1, <2>2, <2>3, <2>4, <2>5, <2>6
<1> QED
  BY <1>5, <1>8

-----------------------------------------------------------------------------
(* The stages of an insert once more, compared with the memory f it began  *)
(* with.                                                                   *)

\* What a crash may find is as f on the words S.
KeptBoth(f, S) == Kept(mem, f, S) /\ (~everDrained => Kept(pmem, f, S))

\* A new node: the old chain is as it was, the head moves when the node is
\* complete and durable.
NodeAck(k, f, n, o, linked, durable) ==
    /\ n \in Nodes \ Reach(f)
    /\ KeptBoth(f, Reach(f) \X Read)
    /\ k >= linked => mem[head] = f[head]
    /\ k < linked => mem[head] = n
    /\ ~everDrained => pmem[head] = f[head] \/ (k < linked /\ pmem[head] = n)
    /\ ~everDrained /\ k <= durable => pmem[head] = n
    /\ k <= 8 => mem[<<n, "ops">>] = <<o>>
    /\ k <= 7 => mem[<<n, "count">>] = 1
    /\ k <= 5 => mem[<<n, "next">>] = f[head]
    /\ k <= 4 => \A u \in Read : pmem[<<n, u>>] = mem[<<n, u>>]

\* An entry: the rest of the chain is as it was, the count grows when the
\* entry is durable.
EntryAck(k, f, h, o, c) ==
    /\ h \in Reach(f) /\ c \in Nat /\ c = f[<<h, "count">>]
    /\ KeptBoth(f, Watched(Reach(f)) \ {<<h, "ops">>, <<h, "count">>})
    /\ \A i \in 1 .. c : mem[<<h, "ops">>][i] = f[<<h, "ops">>][i]
    /\ ~everDrained => \A i \in 1 .. c : pmem[<<h, "ops">>][i] = f[<<h, "ops">>][i]
    /\ k >= 2 => mem[<<h, "count">>] = c
    /\ k < 2 => mem[<<h, "count">>] = c + 1
    /\ ~everDrained => pmem[<<h, "count">>] = c \/ (k < 2 /\ pmem[<<h, "count">>] = c + 1)
    /\ ~everDrained /\ k = 0 => pmem[<<h, "count">>] = c + 1
    /\ k <= 3 => mem[<<h, "ops">>][c + 1] = o
    /\ k <= 2 => pmem[<<h, "ops">>] = mem[<<h, "ops">>]

\* Entries of the head node before the new one, and the new one.
Longer(ops, f, h, o, c) ==
    ops[c + 1] = o /\ \A i \in 1 .. c : ops[i] = f[<<h, "ops">>][i]

AckStage(f, o) ==
    \/ \E n : /\ f[head] = Null
              /\ Rest(FirstSteps(n, o)) /\ NodeAck(Len(todo), f, n, o, 4, 1)
    \/ \E n : /\ f[head] \in Reach(f)
              /\ Rest(LinkSteps(n, o, f[head])) /\ NodeAck(Len(todo), f, n, o, 2, 0)
    \/ \E h, ops, c : /\ Longer(ops, f, h, o, c)
                      /\ Rest(EntrySteps(h, ops, c + 1)) /\ EntryAck(Len(todo), f, h, o, c)

\* Stores to other words and flushes keep what is kept.
LEMMA KeptStore ==
    ASSUME Base, Rests, NEW f, NEW S \in SUBSET Words, KeptBoth(f, S),
           NEW w \in Words, w \notin S, NEW v, StoreEffect(w, v)
    PROVE  KeptBoth(f, S)'
<1>1. mem = [u \in Words |-> mem[u]]
  BY DEF Base, Words_OK
<1>2. /\ \A u \in Words : u # w => mem'[u] = mem[u]
      /\ pmem' = pmem /\ everDrained' = everDrained
  BY <1>1, StoreReads DEF StoreEffect, Rests
<1> QED
  BY <1>2 DEF KeptBoth, Kept

\* So do flushes.
LEMMA KeptFlush ==
    ASSUME Rests, NEW f, NEW S \in SUBSET Words, KeptBoth(f, S), NEW ws, FlushEffect(ws)
    PROVE  KeptBoth(f, S)'
<1>1. /\ \A u \in Words : pmem'[u] = IF u \in ws THEN mem[u] ELSE pmem[u]
      /\ mem' = mem /\ everDrained' = everDrained
  BY FlushReads DEF FlushEffect, Rests
<1> QED
  BY <1>1 DEF KeptBoth, Kept

\* The words of nodes and of a walk.
LEMMA ReadWords ==
    ASSUME NEW R \in SUBSET Nodes
    PROVE  /\ R \X Read \in SUBSET Words /\ Watched(R) \in SUBSET Words
           /\ head \notin R \X Read
           /\ \A n \in Nodes : \A u : <<n, u>> \in R \X Read <=> n \in R /\ u \in Read
           /\ \A n \in Nodes : \A u \in Fields : <<n, u>> \in Words /\ <<n, u>> # head
<1>1. Read \in SUBSET Fields
  BY DEF Read, Fields
<1> QED
  BY <1>1, WordFacts DEF Watched

\* The new node is filled in.
LEMMA AckFill ==
    ASSUME Base, Rests, NEW f, NEW n, NEW o, NEW k \in 6 .. 9, NEW linked \in 0 .. 4, NEW durable \in 0 .. 1,
           Reach(f) \in SUBSET Nodes, NodeAck(k, f, n, o, linked, durable),
           NEW u \in Fields, NEW v, StoreEffect(<<n, u>>, v),
           k = 9 => u = "ops" /\ v = <<o>>,
           k = 8 => u = "count" /\ v = 1,
           k = 7 => u = "prev",
           k = 6 => u = "next" /\ v = f[head]
    PROVE  NodeAck(k - 1, f, n, o, linked, durable)'
<1>1. n \in Nodes /\ n \notin Reach(f)
  BY DEF NodeAck
<1>2. /\ <<n, u>> \in Words /\ <<n, u>> \notin Reach(f) \X Read /\ Reach(f) \X Read \in SUBSET Words
      /\ head \in Words /\ <<n, u>> # head
  BY <1>1, ReadWords, WordFacts
<1>3. KeptBoth(f, Reach(f) \X Read)'
  BY <1>2, KeptStore DEF NodeAck
<1>4. mem = [x \in Words |-> mem[x]]
  BY DEF Base, Words_OK
<1>5. /\ mem'[<<n, u>>] = v
      /\ \A x \in Words : x # <<n, u>> => mem'[x] = mem[x]
      /\ pmem' = pmem /\ everDrained' = everDrained
  BY <1>2, <1>4, StoreReads DEF StoreEffect, Rests
<1>6. \A x \in Fields : x # u => mem'[<<n, x>>] = mem[<<n, x>>]
  BY <1>1, <1>5, WordFacts
<1>7. mem'[head] = mem[head]
  BY <1>2, <1>5
<1>8. k >= linked /\ ~(k < linked) /\ ~(k <= durable) /\ k - 1 >= linked /\ ~(k - 1 < linked)
      /\ ~(k - 1 <= durable) /\ ~(k - 1 <= 4)
  OBVIOUS
<1>9. mem'[head] = f[head] /\ (~everDrained' => pmem'[head] = f[head])
  BY <1>5, <1>7, <1>8 DEF NodeAck
<1>10. k - 1 <= 8 => mem'[<<n, "ops">>] = <<o>>
  BY <1>5, <1>6 DEF NodeAck, Fields
<1>11. k - 1 <= 7 => mem'[<<n, "count">>] = 1
  BY <1>5, <1>6 DEF NodeAck, Fields
<1>12. k - 1 <= 5 => mem'[<<n, "next">>] = f[head]
  BY <1>5, <1>6 DEF NodeAck, Fields
<1> QED
  BY <1>1, <1>3, <1>8, <1>9, <1>10, <1>11, <1>12 DEF NodeAck

\* It becomes durable.
LEMMA AckDurable ==
    ASSUME Base, Rests, NEW f, NEW n, NEW o, NEW linked \in 0 .. 4, NEW durable \in 0 .. 1,
           Reach(f) \in SUBSET Nodes, NodeAck(5, f, n, o, linked, durable),
           FlushEffect(NodeWords(n))
    PROVE  NodeAck(4, f, n, o, linked, durable)'
<1>1. n \in Nodes /\ n \notin Reach(f)
  BY DEF NodeAck
<1>2. /\ Reach(f) \X Read \in SUBSET Words /\ head \in Words
      /\ \A u \in Fields : <<n, u>> \in Words /\ <<n, u>> # head
  BY <1>1, ReadWords, WordFacts
<1>3. KeptBoth(f, Reach(f) \X Read)'
  BY <1>2, KeptFlush DEF NodeAck
<1>4. /\ \A u \in Words : pmem'[u] = IF u \in NodeWords(n) THEN mem[u] ELSE pmem[u]
      /\ mem' = mem /\ everDrained' = everDrained
  BY FlushReads DEF FlushEffect, Rests
<1>5. head \notin NodeWords(n) /\ \A u \in Fields : <<n, u>> \in NodeWords(n)
  BY <1>2 DEF NodeWords
<1>6. pmem'[head] = pmem[head]
  BY <1>2, <1>4, <1>5
<1>7. \A u \in Read : pmem'[<<n, u>>] = mem'[<<n, u>>]
  BY <1>2, <1>4, <1>5 DEF Read, Fields
<1>8. 5 >= linked /\ ~(5 < linked) /\ 4 >= linked /\ ~(4 < linked) /\ ~(4 <= durable)
  OBVIOUS
<1> QED
  BY <1>1, <1>3, <1>4, <1>6, <1>7, <1>8 DEF NodeAck

\* The head moves to it.
LEMMA AckLinked ==
    ASSUME Base, Rests, NEW f, NEW n, NEW o, NEW linked \in 2 .. 4, NEW durable \in 0 .. 1,
           durable < linked - 1,
           Reach(f) \in SUBSET Nodes, NodeAck(linked, f, n, o, linked, durable),
           StoreEffect(head, n)
    PROVE  NodeAck(linked - 1, f, n, o, linked, durable)'
<1>1. n \in Nodes /\ n \notin Reach(f)
  BY DEF NodeAck
<1>2. /\ Reach(f) \X Read \in SUBSET Words /\ head \in Words /\ head \notin Reach(f) \X Read
      /\ \A u \in Fields : <<n, u>> \in Words /\ <<n, u>> # head
  BY <1>1, ReadWords, WordFacts
<1>3. KeptBoth(f, Reach(f) \X Read)'
  BY <1>2, KeptStore DEF NodeAck
<1>4. mem = [x \in Words |-> mem[x]]
  BY DEF Base, Words_OK
<1>5. /\ mem'[head] = n
      /\ \A x \in Words : x # head => mem'[x] = mem[x]
      /\ pmem' = pmem /\ everDrained' = everDrained
  BY <1>2, <1>4, StoreReads DEF StoreEffect, Rests
<1>6. \A u \in Fields : mem'[<<n, u>>] = mem[<<n, u>>]
  BY <1>2, <1>5
<1>7. linked <= 4 /\ linked <= 8 /\ linked <= 7 /\ linked <= 5 /\ ~(linked - 1 >= linked) /\ linked - 1 < linked
      /\ ~(linked - 1 <= durable) /\ ~(linked < linked)
  OBVIOUS
<1>8. /\ mem'[<<n, "ops">>] = <<o>> /\ mem'[<<n, "count">>] = 1 /\ mem'[<<n, "next">>] = f[head]
      /\ \A u \in Read : pmem'[<<n, u>>] = mem'[<<n, u>>]
  BY <1>5, <1>6, <1>7 DEF NodeAck, Read, Fields
<1>9. ~everDrained' => pmem'[head] = f[head]
  BY <1>5, <1>7 DEF NodeAck
<1> QED
  BY <1>1, <1>3, <1>5, <1>7, <1>8, <1>9 DEF NodeAck

\* Stores to words no walk reads, and flushes.
LEMMA AckAside ==
    ASSUME Base, Rests, NEW f, NEW n, NEW o, NEW k \in 1 .. 4, NEW linked \in 2 .. 4, NEW durable \in 0 .. 1,
           k # linked, k # durable + 1,
           Reach(f) \in SUBSET Nodes, NodeAck(k, f, n, o, linked, durable),
           NEW w \in Words, NEW v, StoreEffect(w, v), w # head, \A x \in Nodes : \A u \in Read : w # <<x, u>>
    PROVE  NodeAck(k - 1, f, n, o, linked, durable)'
<1>1. n \in Nodes /\ n \notin Reach(f)
  BY DEF NodeAck
<1>2. /\ Reach(f) \X Read \in SUBSET Words /\ head \in Words /\ w \notin Reach(f) \X Read
      /\ \A u \in Read : <<n, u>> \in Words /\ <<n, u>> # w
  BY <1>1, ReadWords, WordFacts DEF Read, Fields
<1>3. KeptBoth(f, Reach(f) \X Read)'
  BY <1>2, KeptStore DEF NodeAck
<1>4. mem = [x \in Words |-> mem[x]]
  BY DEF Base, Words_OK
<1>5. /\ \A x \in Words : x # w => mem'[x] = mem[x]
      /\ pmem' = pmem /\ everDrained' = everDrained
  BY <1>2, <1>4, StoreReads DEF StoreEffect, Rests
<1>6. mem'[head] = mem[head] /\ \A u \in Read : mem'[<<n, u>>] = mem[<<n, u>>]
  BY <1>2, <1>5
<1>7. k <= 4 /\ k <= 8 /\ k <= 7 /\ k <= 5 /\ (k - 1 >= linked <=> k >= linked) /\ (k - 1 < linked <=> k < linked)
      /\ (k - 1 <= durable <=> k <= durable)
  OBVIOUS
<1>8. /\ mem'[<<n, "ops">>] = <<o>> /\ mem'[<<n, "count">>] = 1 /\ mem'[<<n, "next">>] = f[head]
      /\ \A u \in Read : pmem'[<<n, u>>] = mem'[<<n, u>>]
  BY <1>5, <1>6, <1>7 DEF NodeAck, Read
<1> QED
  BY <1>1, <1>3, <1>5, <1>6, <1>7, <1>8 DEF NodeAck

LEMMA AckFlush ==
    ASSUME Base, Rests, NEW f, NEW n, NEW o, NEW k \in 1 .. 4, NEW linked \in 2 .. 4, NEW durable \in 0 .. 1,
           k # linked, NEW ws, FlushEffect(ws), k = durable + 1 => k < linked /\ head \in ws,
           Reach(f) \in SUBSET Nodes, NodeAck(k, f, n, o, linked, durable)
    PROVE  NodeAck(k - 1, f, n, o, linked, durable)'
<1>1. n \in Nodes /\ n \notin Reach(f)
  BY DEF NodeAck
<1>2. /\ Reach(f) \X Read \in SUBSET Words /\ head \in Words
      /\ \A u \in Read : <<n, u>> \in Words
  BY <1>1, ReadWords, WordFacts DEF Read, Fields
<1>3. KeptBoth(f, Reach(f) \X Read)'
  BY <1>2, KeptFlush DEF NodeAck
<1>4. /\ \A u \in Words : pmem'[u] = IF u \in ws THEN mem[u] ELSE pmem[u]
      /\ mem' = mem /\ everDrained' = everDrained
  BY FlushReads DEF FlushEffect, Rests
<1>5. k <= 4 /\ k <= 8 /\ k <= 7 /\ k <= 5 /\ (k - 1 >= linked <=> k >= linked) /\ (k - 1 < linked <=> k < linked)
      /\ (k - 1 <= durable <=> k <= durable \/ k = durable + 1) /\ (k >= linked <=> ~(k < linked))
  OBVIOUS
<1>6. /\ mem'[<<n, "ops">>] = <<o>> /\ mem'[<<n, "count">>] = 1 /\ mem'[<<n, "next">>] = f[head]
      /\ \A u \in Read : pmem'[<<n, u>>] = mem'[<<n, u>>]
  BY <1>2, <1>4, <1>5 DEF NodeAck
<1>7. ~everDrained' => pmem'[head] = f[head] \/ (k - 1 < linked /\ pmem'[head] = n)
  BY <1>2, <1>4, <1>5 DEF NodeAck
<1>8. ~everDrained' /\ k - 1 <= durable => pmem'[head] = n
  BY <1>2, <1>4, <1>5 DEF NodeAck
<1>9. (k - 1 >= linked => mem'[head] = f[head]) /\ (k - 1 < linked => mem'[head] = n)
  BY <1>4, <1>5 DEF NodeAck
<1> QED
  BY <1>1, <1>3, <1>5, <1>6, <1>7, <1>8, <1>9 DEF NodeAck

\* A step of an insert into an empty chain.
LEMMA AckFirst ==
    ASSUME Base, Rests, Step, NEW f, Reach(f) \in SUBSET Nodes, NEW n, NEW o, f[head] = Null,
           Rest(FirstSteps(n, o)), NodeAck(Len(todo), f, n, o, 4, 1)
    PROVE  AckStage(f, o)'
<1>1. PICK all : all = FirstSteps(n, o)
  OBVIOUS
<1>2. FirstIs(all, n, o)
  BY <1>1, FirstList
<1>3. todo # << >> /\ todo' = Tail(todo)
  BY StepEffects
<1>4. PICK k \in 1 .. 10 : /\ Len(todo) = k /\ Len(todo') = k - 1
                          /\ Head(todo) = all[10 - k + 1]
                          /\ Rest(all)'
  <2>1. 10 \in Nat /\ Rest(all) /\ IsList(all, 10)
    BY <1>1, <1>2 DEF FirstIs
  <2> QED
    BY <1>3, <2>1, RestTail
<1>5. NodeAck(k, f, n, o, 4, 1)
  BY <1>4
<1>6. SUFFICES NodeAck(k - 1, f, n, o, 4, 1)'
  BY <1>1, <1>4, Zenon DEF AckStage
<1>7. n \in Nodes
  BY <1>5 DEF NodeAck
<1>8. CASE k = 10
  <2>1. Head(todo) = [do |-> "alloc", node |-> n]
    BY <1>2, <1>4, <1>8 DEF FirstIs
  <2>2. mem' = mem /\ pmem' = pmem /\ everDrained' = everDrained
    BY <2>1, StepEffects
  <2> QED
    BY <1>5, <1>8, <2>2 DEF NodeAck, KeptBoth, Kept
<1>9. CASE k \in 6 .. 9
  <2>1. PICK u, v : /\ u \in Fields /\ Head(todo) = Store(<<n, u>>, v)
                    /\ k = 9 => u = "ops" /\ v = <<o>>
                    /\ k = 8 => u = "count" /\ v = 1
                    /\ k = 7 => u = "prev"
                    /\ k = 6 => u = "next" /\ v = f[head]
    <3>1. CASE k = 9
      BY <1>2, <1>4, <3>1 DEF FirstIs, Fields
    <3>2. CASE k = 8
      BY <1>2, <1>4, <3>2 DEF FirstIs, Fields
    <3>3. CASE k = 7
      BY <1>2, <1>4, <3>3 DEF FirstIs, Fields
    <3>4. CASE k = 6
      BY <1>2, <1>4, <3>4 DEF FirstIs, Fields
    <3>5. k = 9 \/ k = 8 \/ k = 7 \/ k = 6
      BY <1>9
    <3> QED
      BY <3>1, <3>2, <3>3, <3>4, <3>5, Zenon
  <2>2. StoreEffect(<<n, u>>, v)
    BY <2>1, StepEffects
  <2> QED
    BY <1>5, <1>9, <2>1, <2>2, AckFill
<1>10. CASE k = 5
  <2>1. FlushEffect(NodeWords(n))
    BY <1>2, <1>4, <1>10, StepEffects DEF FirstIs
  <2> QED
    BY <1>5, <1>10, <2>1, AckDurable
<1>11. CASE k = 4
  <2>1. StoreEffect(head, n)
    BY <1>2, <1>4, <1>11, StepEffects DEF FirstIs
  <2>2. NodeAck(4 - 1, f, n, o, 4, 1)'
    BY <1>5, <1>11, <2>1, AckLinked
  <2> QED
    BY <1>11, <2>2
<1>12. CASE k = 3
  <2>1. StoreEffect(tail, n)
    BY <1>2, <1>4, <1>12, StepEffects DEF FirstIs
  <2>2. tail \in Words /\ tail # head /\ \A x \in Nodes : \A u \in Read : tail # <<x, u>>
    BY WordFacts DEF Read, Fields
  <2> QED
    BY <1>5, <1>12, <2>1, <2>2, AckAside
<1>13. CASE k = 2
  <2>1. FlushEffect({head})
    BY <1>2, <1>4, <1>13, StepEffects DEF FirstIs
  <2> QED
    BY <1>5, <1>13, <2>1, AckFlush
<1>14. CASE k = 1
  <2>1. FlushEffect({tail})
    BY <1>2, <1>4, <1>14, StepEffects DEF FirstIs
  <2> QED
    BY <1>5, <1>14, <2>1, AckFlush
<1> QED
  BY <1>4, <1>8, <1>9, <1>10, <1>11, <1>12, <1>13, <1>14

\* A step of an insert in front of a full node.
LEMMA AckLink ==
    ASSUME Base, Rests, Step, NEW f, Reach(f) \in SUBSET Nodes, NEW n, NEW o, f[head] \in Reach(f),
           Rest(LinkSteps(n, o, f[head])), NodeAck(Len(todo), f, n, o, 2, 0)
    PROVE  AckStage(f, o)'
<1>1. PICK all, h : all = LinkSteps(n, o, h) /\ h = f[head]
  OBVIOUS
<1>2. LinkIs(all, n, o, h)
  BY <1>1, LinkList
<1>3. todo # << >> /\ todo' = Tail(todo)
  BY StepEffects
<1>4. PICK k \in 1 .. 10 : /\ Len(todo) = k /\ Len(todo') = k - 1
                          /\ Head(todo) = all[10 - k + 1]
                          /\ Rest(all)'
  <2>1. 10 \in Nat /\ Rest(all) /\ IsList(all, 10)
    BY <1>1, <1>2 DEF LinkIs
  <2> QED
    BY <1>3, <2>1, RestTail
<1>5. NodeAck(k, f, n, o, 2, 0)
  BY <1>4
<1>6. SUFFICES NodeAck(k - 1, f, n, o, 2, 0)'
  BY <1>1, <1>4, Zenon DEF AckStage
<1>7. n \in Nodes /\ h \in Nodes
  BY <1>1, <1>5 DEF NodeAck
<1>8. CASE k = 10
  <2>1. Head(todo) = [do |-> "alloc", node |-> n]
    BY <1>2, <1>4, <1>8 DEF LinkIs
  <2>2. mem' = mem /\ pmem' = pmem /\ everDrained' = everDrained
    BY <2>1, StepEffects
  <2> QED
    BY <1>5, <1>8, <2>2 DEF NodeAck, KeptBoth, Kept
<1>9. CASE k \in 6 .. 9
  <2>1. PICK u, v : /\ u \in Fields /\ Head(todo) = Store(<<n, u>>, v)
                    /\ k = 9 => u = "ops" /\ v = <<o>>
                    /\ k = 8 => u = "count" /\ v = 1
                    /\ k = 7 => u = "prev"
                    /\ k = 6 => u = "next" /\ v = f[head]
    <3>1. CASE k = 9
      BY <1>2, <1>4, <3>1 DEF LinkIs, Fields
    <3>2. CASE k = 8
      BY <1>2, <1>4, <3>2 DEF LinkIs, Fields
    <3>3. CASE k = 7
      BY <1>2, <1>4, <3>3 DEF LinkIs, Fields
    <3>4. CASE k = 6
      BY <1>1, <1>2, <1>4, <3>4 DEF LinkIs, Fields
    <3>5. k = 9 \/ k = 8 \/ k = 7 \/ k = 6
      BY <1>9
    <3> QED
      BY <3>1, <3>2, <3>3, <3>4, <3>5, Zenon
  <2>2. StoreEffect(<<n, u>>, v)
    BY <2>1, StepEffects
  <2> QED
    BY <1>5, <1>9, <2>1, <2>2, AckFill
<1>10. CASE k = 5
  <2>1. FlushEffect(NodeWords(n))
    BY <1>2, <1>4, <1>10, StepEffects DEF LinkIs
  <2> QED
    BY <1>5, <1>10, <2>1, AckDurable
<1>11. CASE k = 4
  <2>1. StoreEffect(<<h, "prev">>, n)
    BY <1>2, <1>4, <1>11, StepEffects DEF LinkIs
  <2>2. /\ <<h, "prev">> \in Words /\ <<h, "prev">> # head
        /\ \A x \in Nodes : \A u \in Read : <<h, "prev">> # <<x, u>>
    BY <1>7, WordFacts DEF Read, Fields
  <2> QED
    BY <1>5, <1>11, <2>1, <2>2, AckAside
<1>12. CASE k = 3
  <2>1. FlushEffect({<<h, "prev">>})
    BY <1>2, <1>4, <1>12, StepEffects DEF LinkIs
  <2> QED
    BY <1>5, <1>12, <2>1, AckFlush
<1>13. CASE k = 2
  <2>1. StoreEffect(head, n)
    BY <1>2, <1>4, <1>13, StepEffects DEF LinkIs
  <2>2. NodeAck(2 - 1, f, n, o, 2, 0)'
    BY <1>5, <1>13, <2>1, AckLinked
  <2> QED
    BY <1>13, <2>2
<1>14. CASE k = 1
  <2>1. FlushEffect({head})
    BY <1>2, <1>4, <1>14, StepEffects DEF LinkIs
  <2> QED
    BY <1>5, <1>14, <2>1, AckFlush
<1> QED
  BY <1>4, <1>8, <1>9, <1>10, <1>11, <1>12, <1>13, <1>14

\* The steps of an insert into the head node.
LEMMA AckEntry ==
    ASSUME Base, Rests, Step, NEW f, Reach(f) \in SUBSET Nodes, NEW h, NEW ops, NEW o, NEW c,
           Longer(ops, f, h, o, c),
           Rest(EntrySteps(h, ops, c + 1)), EntryAck(Len(todo), f, h, o, c)
    PROVE  AckStage(f, o)'
<1>1. PICK all : all = EntrySteps(h, ops, c + 1)
  OBVIOUS
<1>2. EntryIs(all, h, ops, c + 1)
  BY <1>1, EntryList
<1>3. todo # << >> /\ todo' = Tail(todo)
  BY StepEffects
<1>4. PICK k \in 1 .. 4 : /\ Len(todo) = k /\ Len(todo') = k - 1
                         /\ Head(todo) = all[4 - k + 1]
                         /\ Rest(all)'
  <2>1. 4 \in Nat /\ Rest(all) /\ IsList(all, 4)
    BY <1>1, <1>2 DEF EntryIs
  <2> QED
    BY <1>3, <2>1, RestTail
<1>5. EntryAck(k, f, h, o, c)
  BY <1>4
<1>6. SUFFICES EntryAck(k - 1, f, h, o, c)'
  BY <1>1, <1>4, Zenon DEF AckStage
<1> DEFINE S == Watched(Reach(f)) \ {<<h, "ops">>, <<h, "count">>}
           Prefix(x) == \A i \in 1 .. c : x[i] = f[<<h, "ops">>][i]
           mo == mem[<<h, "ops">>]
           po == pmem[<<h, "ops">>]
           mc == mem[<<h, "count">>]
           pc == pmem[<<h, "count">>]
<1>7. /\ h \in Reach(f) /\ h \in Nodes /\ c \in Nat /\ c = f[<<h, "count">>] /\ KeptBoth(f, S)
      /\ Prefix(mo) /\ (~everDrained => Prefix(po))
      /\ (k >= 2 => mc = c) /\ (k < 2 => mc = c + 1)
      /\ ~everDrained => pc = c \/ (k < 2 /\ pc = c + 1)
      /\ ~everDrained /\ k = 0 => pc = c + 1
      /\ (k <= 3 => mo[c + 1] = o) /\ (k <= 2 => po = mo)
  BY <1>5 DEF EntryAck
<1>14. ASSUME NEW j, KeptBoth(f, S)', Prefix(mo)', ~everDrained' => Prefix(po)',
              j >= 2 => mc' = c, j < 2 => mc' = c + 1,
              ~everDrained' => pc' = c \/ (j < 2 /\ pc' = c + 1),
              ~everDrained' /\ j = 0 => pc' = c + 1,
              j <= 3 => mo'[c + 1] = o, j <= 2 => po' = mo'
       PROVE  EntryAck(j, f, h, o, c)'
  BY <1>7, <1>14, Zenon DEF EntryAck
<1> HIDE DEF S, mo, po, mc, pc, Prefix
<1>8. /\ S \in SUBSET Words
      /\ <<h, "ops">> \in Words /\ <<h, "count">> \in Words /\ <<h, "ops">> # <<h, "count">>
  BY <1>7, ReadWords, WordFacts DEF Fields, S
<1>9. mem = [x \in Words |-> mem[x]] /\ everDrained' = everDrained
  BY DEF Base, Words_OK, Rests
<1>10. CASE k = 4
  <2>1. StoreEffect(<<h, "ops">>, ops)
    BY <1>2, <1>4, <1>10, StepEffects DEF EntryIs
  <2>2. KeptBoth(f, S)'
    <3>1. <<h, "ops">> \notin S
      BY DEF S
    <3> QED
      BY <1>7, <1>8, <2>1, <3>1, KeptStore
  <2>3. mo' = ops /\ mc' = mc /\ po' = po /\ pc' = pc
    BY <1>8, <1>9, <2>1, StoreReads DEF StoreEffect, mo, mc, po, pc
  <2>4. Prefix(ops) /\ ops[c + 1] = o
    BY DEF Longer, Prefix
  <2>5. EntryAck(3, f, h, o, c)'
    BY <1>7, <1>9, <1>10, <1>14, <2>2, <2>3, <2>4
  <2> QED
    BY <1>10, <2>5
<1>11. CASE k = 2
  <2>1. StoreEffect(<<h, "count">>, c + 1)
    BY <1>2, <1>4, <1>11, StepEffects DEF EntryIs
  <2>2. KeptBoth(f, S)'
    <3>1. <<h, "count">> \notin S
      BY DEF S
    <3> QED
      BY <1>7, <1>8, <2>1, <3>1, KeptStore
  <2>3. mo' = mo /\ mc' = c + 1 /\ po' = po /\ pc' = pc
    BY <1>8, <1>9, <2>1, StoreReads DEF StoreEffect, mo, mc, po, pc
  <2>4. EntryAck(1, f, h, o, c)'
    BY <1>7, <1>9, <1>11, <1>14, <2>2, <2>3
  <2> QED
    BY <1>11, <2>4
<1>12. CASE k = 3
  <2>1. FlushEffect(NodeWords(h))
    BY <1>2, <1>4, <1>12, StepEffects DEF EntryIs
  <2>2. KeptBoth(f, S)'
    BY <1>7, <1>8, <2>1, KeptFlush
  <2>3. <<h, "ops">> \in NodeWords(h) /\ <<h, "count">> \in NodeWords(h)
    BY DEF NodeWords, Fields
  <2>4. mo' = mo /\ mc' = mc /\ po' = mo /\ pc' = mc
    BY <1>8, <2>1, <2>3, FlushReads DEF FlushEffect, mo, mc, po, pc
  <2>5. EntryAck(2, f, h, o, c)'
    BY <1>7, <1>9, <1>12, <1>14, <2>2, <2>4
  <2> QED
    BY <1>12, <2>5
<1>13. CASE k = 1
  <2>1. FlushEffect({<<h, "count">>})
    BY <1>2, <1>4, <1>13, StepEffects DEF EntryIs
  <2>2. KeptBoth(f, S)'
    BY <1>7, <1>8, <2>1, KeptFlush
  <2>3. mo' = mo /\ mc' = mc /\ po' = po /\ pc' = mc
    BY <1>8, <2>1, FlushReads DEF FlushEffect, mo, mc, po, pc
  <2>4. EntryAck(0, f, h, o, c)'
    BY <1>7, <1>9, <1>13, <1>14, <2>2, <2>3
  <2> QED
    BY <1>13, <2>4
<1> QED
  BY <1>4, <1>10, <1>11, <1>12, <1>13

\* Every step of an insert goes from stage to stage.
LEMMA AckSteps ==
    ASSUME Base, Rests, Step, NEW f, Reach(f) \in SUBSET Nodes, NEW o, AckStage(f, o)
    PROVE  AckStage(f, o)'
<1>1. CASE \E n : /\ f[head] = Null
                  /\ Rest(FirstSteps(n, o)) /\ NodeAck(Len(todo), f, n, o, 4, 1)
  BY <1>1, AckFirst
<1>2. CASE \E n : /\ f[head] \in Reach(f)
                  /\ Rest(LinkSteps(n, o, f[head])) /\ NodeAck(Len(todo), f, n, o, 2, 0)
  BY <1>2, AckLink
<1>3. CASE \E h, ops, c : /\ Longer(ops, f, h, o, c)
                          /\ Rest(EntrySteps(h, ops, c + 1)) /\ EntryAck(Len(todo), f, h, o, c)
  BY <1>3, AckEntry
<1> QED
  BY <1>1, <1>2, <1>3, Zenon DEF AckStage

-----------------------------------------------------------------------------
(* What a crash leaves of an insert. *)

\* A memory whose words are those a crash may take.
Mix(m) == \A w \in Words : m[w] = mem[w] \/ (~everDrained /\ m[w] = pmem[w])

Snapshot(f) == Stays(f, head, "next", Reach(f)) /\ Legible(f) /\ Distinct(f)

\* o comes after all of B.
Newer(o, B) == \A x \in B : x.sequence < o.sequence

\* Whatever a crash leaves can be read.
LEMMA MixLegible ==
    ASSUME NEW G, Good(G), NEW m, Mix(m)
    PROVE  Legible(m) /\ Reach(m) \in SUBSET G /\ Stays(m, head, "next", Reach(m))
<1>1. G \in SUBSET Nodes /\ mem \in Memories /\ (~everDrained => pmem \in Memories)
  BY DEF Good, Memories
<1>2. \A w \in Words : \E x \in Memories : m[w] = x[w]
  BY <1>1 DEF Mix
<1>3. head \in Words /\ \A n \in G : <<n, "next">> \in Words /\ <<n, "ops">> \in Words /\ <<n, "count">> \in Words
  BY <1>1, WordFacts DEF Fields
<1>4. Stays(m, head, "next", G)
  BY <1>1, <1>2, <1>3 DEF Good, Closed, Stays
<1>5. Reach(m) \in SUBSET G /\ Stays(m, head, "next", Reach(m))
  BY <1>4, ReachIs
<1>6. ASSUME NEW n \in G
      PROVE  m[<<n, "ops">>] \in Seq(Ops) /\ m[<<n, "count">>] \in 1 .. Len(m[<<n, "ops">>])
  <2>1. PICK x \in Memories : m[<<n, "count">>] = x[<<n, "count">>]
    BY <1>2, <1>3
  <2>2. PICK y \in Memories : m[<<n, "ops">>] = y[<<n, "ops">>]
    BY <1>2, <1>3
  <2>3. Readable(x, y, n)
    BY DEF Good
  <2> QED
    BY <2>1, <2>2, <2>3 DEF Readable
<1> QED
  BY <1>5, <1>6 DEF Legible

\* A mixture is as f where both memories are.
LEMMA MixKept ==
    ASSUME NEW m, Mix(m), NEW f, NEW S \in SUBSET Words, KeptBoth(f, S)
    PROVE  Kept(m, f, S)
BY DEF Mix, KeptBoth, Kept

\* A crash within an insert of a new node leaves the chain with or without it.
LEMMA NodeOutcome ==
    ASSUME NEW f, Snapshot(f), NEW o \in Ops, Newer(o, ChainOps(f)),
           NEW k \in Nat, NEW n, NEW linked \in 2 .. 4, NEW durable \in 0 .. 1,
           NodeAck(k, f, n, o, linked, durable), NEW m, Mix(m), Legible(m)
    PROVE  /\ Distinct(m)
           /\ m[head] = f[head] => ChainOps(m) = ChainOps(f)
           /\ m[head] # f[head] => ChainOps(m) = ChainOps(f) \cup {o} /\ Reach(m) = Reach(f) \cup {n}
<1>1. Reach(f) \in SUBSET Nodes /\ Stays(f, head, "next", Reach(f)) /\ Legible(f) /\ Distinct(f)
  BY DEF Snapshot, Stays
<1>2. Kept(m, f, Reach(f) \X Read)
  BY <1>1, ReadWords, MixKept DEF NodeAck
<1>3. \A x \in Reach(f) : /\ m[<<x, "next">>] = f[<<x, "next">>]
                          /\ m[<<x, "count">>] = f[<<x, "count">>]
                          /\ m[<<x, "ops">>] = f[<<x, "ops">>]
  BY <1>2 DEF Kept, Read
<1>4. head \in Words /\ n \in Nodes \ Reach(f)
      /\ <<n, "ops">> \in Words /\ <<n, "count">> \in Words /\ <<n, "next">> \in Words
  BY WordFacts DEF NodeAck, Fields
<1>5. CASE m[head] = f[head]
  <2>1. \A x \in Reach(f) : /\ m[<<x, "next">>] = f[<<x, "next">>]
                            /\ m[<<x, "count">>] = f[<<x, "count">>]
                            /\ \A i \in 1 .. f[<<x, "count">>] :
                                  m[<<x, "ops">>][i] = f[<<x, "ops">>][i]
    BY <1>3
  <2> QED
    BY <1>1, <1>5, <2>1, SameContents
<1>6. CASE m[head] # f[head]
  <2>1. k < linked /\ m[head] = n
    <3>1. m[head] = mem[head] \/ (~everDrained /\ m[head] = pmem[head])
      BY <1>4 DEF Mix
    <3>2. (k >= linked => mem[head] = f[head]) /\ (k < linked => mem[head] = n)
      BY DEF NodeAck
    <3>3. ~everDrained => pmem[head] = f[head] \/ (k < linked /\ pmem[head] = n)
      BY DEF NodeAck
    <3>4. k >= linked \/ k < linked
      OBVIOUS
    <3> QED
      BY <1>6, <3>1, <3>2, <3>3, <3>4
  <2>2. k <= 8 /\ k <= 7 /\ k <= 5 /\ k <= 4
    BY <2>1
  <2>3. /\ mem[<<n, "ops">>] = <<o>> /\ mem[<<n, "count">>] = 1 /\ mem[<<n, "next">>] = f[head]
        /\ \A u \in Read : pmem[<<n, u>>] = mem[<<n, u>>]
    BY <2>2 DEF NodeAck
  <2>4. \A u \in Read : m[<<n, u>>] = mem[<<n, u>>]
    BY <1>4, <2>3 DEF Mix, Read
  <2>5. m[<<n, "ops">>] = <<o>> /\ m[<<n, "count">>] = 1 /\ m[<<n, "next">>] = f[head]
    BY <2>3, <2>4 DEF Read
  <2>6. ChainOps(m) = ChainOps(f) \cup {o} /\ Distinct(m)
    BY <1>1, <1>3, <1>4, <2>1, <2>5, NodeContents DEF Newer
  <2>7. Prepended(m, f, n)
    BY <1>3, <1>4, <2>1, <2>5 DEF Prepended
  <2>8. Reach(m) = Reach(f) \cup {n}
    BY <1>1, <2>7, LongerReach
  <2> QED
    BY <1>6, <2>6, <2>8
<1> QED
  BY <1>5, <1>6

\* A crash within an insert into the head node leaves it with or without the
\* entry.
LEMMA EntryOutcome ==
    ASSUME NEW f, Snapshot(f), NEW o \in Ops, Newer(o, ChainOps(f)),
           NEW k \in Nat, NEW h, NEW c, EntryAck(k, f, h, o, c), NEW m, Mix(m), Legible(m)
    PROVE  /\ Distinct(m) /\ Reach(m) = Reach(f)
           /\ m[<<h, "count">>] = c => ChainOps(m) = ChainOps(f)
           /\ m[<<h, "count">>] # c => ChainOps(m) = ChainOps(f) \cup {o}
<1> DEFINE S == Watched(Reach(f)) \ {<<h, "ops">>, <<h, "count">>}
<1>1. Reach(f) \in SUBSET Nodes /\ Stays(f, head, "next", Reach(f)) /\ Legible(f) /\ Distinct(f)
  BY DEF Snapshot, Stays
<1>2. h \in Reach(f) /\ c \in Nat /\ c = f[<<h, "count">>] /\ KeptBoth(f, S)
  BY DEF EntryAck
<1>3. S \in SUBSET Words
  BY <1>1, ReadWords
<1>4. Kept(m, f, S)
  <2> HIDE DEF S
  <2> QED
    BY <1>2, <1>3, MixKept
<1>5. head \in S /\ \A x \in Reach(f) : <<x, "next">> \in S
  BY <1>1, <1>2, WordFacts DEF Watched, Read, Fields
<1>6. \A x \in Reach(f) \ {h} : <<x, "count">> \in S /\ <<x, "ops">> \in S
  BY WordFacts DEF Watched, Read
<1>7. /\ m[head] = f[head]
      /\ \A x \in Reach(f) : m[<<x, "next">>] = f[<<x, "next">>]
      /\ \A x \in Reach(f) \ {h} : m[<<x, "count">>] = f[<<x, "count">>] /\ m[<<x, "ops">>] = f[<<x, "ops">>]
  <2> HIDE DEF S
  <2> QED
    BY <1>4, <1>5, <1>6 DEF Kept
<1>8. <<h, "ops">> \in Words /\ <<h, "count">> \in Words
  BY <1>1, <1>2, WordFacts DEF Fields
<1>9. \A i \in 1 .. c : m[<<h, "ops">>][i] = f[<<h, "ops">>][i]
  BY <1>8 DEF Mix, EntryAck
<1>10. Reach(m) = Reach(f)
  BY <1>1, <1>7, SameReach
<1>11. CASE m[<<h, "count">>] = c
  <2>1. ASSUME NEW x \in Reach(f)
        PROVE  /\ m[<<x, "next">>] = f[<<x, "next">>]
               /\ m[<<x, "count">>] = f[<<x, "count">>]
               /\ \A i \in 1 .. f[<<x, "count">>] : m[<<x, "ops">>][i] = f[<<x, "ops">>][i]
    BY <1>2, <1>7, <1>9, <1>11
  <2> QED
    BY <1>1, <1>7, <1>10, <1>11, <2>1, SameContents
<1>12. CASE m[<<h, "count">>] # c
  <2>1. k < 2 /\ m[<<h, "count">>] = c + 1
    <3>1. m[<<h, "count">>] = mem[<<h, "count">>] \/ (~everDrained /\ m[<<h, "count">>] = pmem[<<h, "count">>])
      BY <1>8 DEF Mix
    <3>2. (k >= 2 => mem[<<h, "count">>] = c) /\ (k < 2 => mem[<<h, "count">>] = c + 1)
      BY DEF EntryAck
    <3>3. ~everDrained => pmem[<<h, "count">>] = c \/ (k < 2 /\ pmem[<<h, "count">>] = c + 1)
      BY DEF EntryAck
    <3>4. k >= 2 \/ k < 2
      OBVIOUS
    <3> QED
      BY <1>12, <3>1, <3>2, <3>3, <3>4
  <2>2. k <= 3 /\ k <= 2
    BY <2>1
  <2>3. mem[<<h, "ops">>][c + 1] = o /\ pmem[<<h, "ops">>] = mem[<<h, "ops">>]
    BY <2>2 DEF EntryAck
  <2>4. m[<<h, "ops">>][c + 1] = o
    BY <1>8, <2>3 DEF Mix
  <2> HIDE DEF S
  <2>5. ChainOps(m) = ChainOps(f) \cup {o} /\ Distinct(m)
    BY <1>1, <1>2, <1>7, <1>9, <2>1, <2>4, EntryContents DEF Newer
  <2> QED
    BY <1>10, <1>12, <2>5
<1> QED
  BY <1>11, <1>12

\* Either outcome is that of an insert cut off or of one that is done.
LEMMA AckOutcome ==
    ASSUME NEW f, Snapshot(f), NEW o \in Ops, Newer(o, ChainOps(f)),
           AckStage(f, o), Len(todo) \in Nat, NEW m, Mix(m), Legible(m)
    PROVE  Distinct(m) /\ (ChainOps(m) = ChainOps(f) \/ ChainOps(m) = ChainOps(f) \cup {o})
<1>1. ASSUME NEW n, NodeAck(Len(todo), f, n, o, 4, 1) \/ NodeAck(Len(todo), f, n, o, 2, 0)
      PROVE  Distinct(m) /\ (ChainOps(m) = ChainOps(f) \/ ChainOps(m) = ChainOps(f) \cup {o})
  <2>1. CASE NodeAck(Len(todo), f, n, o, 4, 1)
    BY <2>1, NodeOutcome
  <2>2. CASE NodeAck(Len(todo), f, n, o, 2, 0)
    BY <2>2, NodeOutcome
  <2> QED
    BY <1>1, <2>1, <2>2
<1>2. ASSUME NEW h, NEW c, EntryAck(Len(todo), f, h, o, c)
      PROVE  Distinct(m) /\ (ChainOps(m) = ChainOps(f) \/ ChainOps(m) = ChainOps(f) \cup {o})
  BY <1>2, EntryOutcome
<1> QED
  BY <1>1, <1>2 DEF AckStage

\* An insert that is done has added its operation, and all of it is durable.
LEMMA AckDone ==
    ASSUME NEW f, Snapshot(f), NEW o \in Ops, Newer(o, ChainOps(f)),
           AckStage(f, o), todo = << >>, Legible(mem)
    PROVE  /\ Distinct(mem) /\ ChainOps(mem) = ChainOps(f) \cup {o}
           /\ ~everDrained => Kept(pmem, mem, Watched(Reach(mem)))
<1>1. Len(todo) = 0 /\ Mix(mem)
  BY DEF Mix
<1>2. Reach(f) \in SUBSET Nodes /\ f[head] \in Reach(f) \cup {Null}
  BY DEF Snapshot, Stays
<1>3. ASSUME NEW n, NEW linked \in 2 .. 4, NEW durable \in 0 .. 1, NodeAck(0, f, n, o, linked, durable)
      PROVE  /\ Distinct(mem) /\ ChainOps(mem) = ChainOps(f) \cup {o}
             /\ ~everDrained => Kept(pmem, mem, Watched(Reach(mem)))
  <2>1. mem[head] = n /\ n \in Nodes \ Reach(f) /\ (~everDrained => pmem[head] = n)
        /\ \A u \in Read : pmem[<<n, u>>] = mem[<<n, u>>]
    BY <1>3 DEF NodeAck
  <2>2. mem[head] # f[head]
    <3>1. Null \notin Nodes
      BY RecoveryAssumption DEF Null, Nodes
    <3> QED
      BY <1>2, <2>1, <3>1
  <2>3. Distinct(mem) /\ ChainOps(mem) = ChainOps(f) \cup {o} /\ Reach(mem) = Reach(f) \cup {n}
    BY <1>1, <1>3, <2>2, NodeOutcome
  <2>4. KeptBoth(f, Reach(f) \X Read)
    BY <1>3 DEF NodeAck
  <2>5. ~everDrained => \A x \in Reach(f) : \A u \in Read : pmem[<<x, u>>] = mem[<<x, u>>]
    BY <2>4 DEF KeptBoth, Kept
  <2>6. ~everDrained => \A w \in Watched(Reach(mem)) : pmem[w] = mem[w]
    BY <2>1, <2>3, <2>5 DEF Watched
  <2> QED
    BY <2>3, <2>6 DEF Kept
<1>4. ASSUME NEW h, NEW c, EntryAck(0, f, h, o, c)
      PROVE  /\ Distinct(mem) /\ ChainOps(mem) = ChainOps(f) \cup {o}
             /\ ~everDrained => Kept(pmem, mem, Watched(Reach(mem)))
  <2>1. /\ c \in Nat /\ mem[<<h, "count">>] = c + 1 /\ (~everDrained => pmem[<<h, "count">>] = c + 1)
        /\ pmem[<<h, "ops">>] = mem[<<h, "ops">>]
        /\ KeptBoth(f, Watched(Reach(f)) \ {<<h, "ops">>, <<h, "count">>})
    BY <1>4 DEF EntryAck
  <2>2. mem[<<h, "count">>] # c
    BY <2>1
  <2>3. Distinct(mem) /\ ChainOps(mem) = ChainOps(f) \cup {o} /\ Reach(mem) = Reach(f)
    BY <1>1, <1>4, <2>2, EntryOutcome
  <2>4. ~everDrained => \A w \in Watched(Reach(f)) : pmem[w] = mem[w]
    BY <2>1 DEF KeptBoth, Kept
  <2> QED
    BY <2>3, <2>4 DEF Kept
<1> QED
  BY <1>1, <1>3, <1>4 DEF AckStage

-----------------------------------------------------------------------------
(* What readers see. *)

\* What contains answers for k if the tree has records as in tree and the
\* operations B are buffered.
Sees(tree, B, k) ==
    LET buffered == {o \in B : o.key = k}
    IN  IF buffered = {} THEN tree[k] > 0
        ELSE ~(CHOOSE o \in buffered : \A x \in buffered : x.sequence <= o.sequence).is_delete

\* The tree has no record of a key with a buffered insert.
Unapplied(tree, B) == \A o \in B : ~o.is_delete => tree[o.key] = 0

\* Nothing between calls, or after a crash, is other than acknowledged, but
\* for the key of a call that was cut off.
QuietAck ==
    /\ Distinct(mem) /\ Unapplied(copies, ChainOps(mem))
    /\ ~everDrained => Kept(pmem, mem, Watched(Reach(mem)))
    /\ \A k \in Keys : (call.kind = "insert" => k # call.op.key) =>
          (Sees(copies, ChainOps(mem), k) <=> expected[k])

\* An insert began with f and has come some way.
InsertAck(f) ==
    /\ Snapshot(f) /\ Newer(call.op, ChainOps(f))
    /\ Unapplied(copies, ChainOps(f)) /\ (~call.op.is_delete => copies[call.op.key] = 0)
    /\ \A k \in Keys : Sees(copies, ChainOps(f), k) <=> expected[k]
    /\ AckStage(f, call.op)

\* Where the steps l apply an operation on k.
Applies(l, k) == {i \in 1 .. Len(l) : l[i].do = "apply" /\ l[i].op.key = k}

\* In a drain each key has its state, or its last operation is still to come.
KeyDrains(l, k, tree, now) ==
    \/ Applies(l, k) = {} /\ (tree[k] > 0 <=> now[k])
    \/ \E i \in 1 .. Len(l) : /\ Applies(l, k) = {i}
                              /\ now[k] <=> ~l[i].op.is_delete
                              /\ now[k] => tree[k] = 0

DrainAck ==
    /\ \E X : todo \in Seq(X)
    /\ \A i \in 1 .. Len(todo) : todo[i].do = "apply" => todo[i].op \in Ops
    /\ \A k \in Keys : KeyDrains(todo, k, copies, expected)

AckInv ==
    /\ copies \in [Keys -> {0, 1}] /\ expected \in [Keys -> BOOLEAN]
    /\ call.kind = "insert" => call.op \in Ops
    /\ call.kind # "drain" /\ (up => call.kind = "idle") => QuietAck
    /\ up /\ call.kind = "insert" => \E f : InsertAck(f)
    /\ call.kind = "drain" => DrainAck

\* The last operation on a key decides.
LEMMA SeesLatest ==
    ASSUME NEW tree, NEW B \in SUBSET Ops, NEW o \in Ops, Newer(o, B)
    PROVE  Sees(tree, B \cup {o}, o.key) <=> ~o.is_delete
<1> DEFINE buffered == {x \in B \cup {o} : x.key = o.key}
           Last_(z) == \A x \in buffered : x.sequence <= z.sequence
<1>1. \A x \in B \cup {o} : x.sequence \in Nat
  BY DEF Ops
<1>2. o \in buffered /\ Last_(o)
  BY <1>1 DEF Newer
<1>3. PICK z : z = CHOOSE w \in buffered : Last_(w)
  OBVIOUS
<1>4. z \in buffered /\ Last_(z)
  BY <1>2, <1>3
<1>5. z = o
  <2>1. o.sequence <= z.sequence
    BY <1>2, <1>4
  <2>2. z \in B => z.sequence < o.sequence
    BY DEF Newer
  <2> QED
    BY <1>1, <1>4, <2>1, <2>2
<1>6. Sees(tree, B \cup {o}, o.key) <=> ~(CHOOSE w \in buffered : Last_(w)).is_delete
  BY <1>2 DEF Sees
<1> HIDE DEF buffered, Last_
<1> QED
  BY <1>3, <1>5, <1>6

\* Other keys do not see it.
LEMMA SeesOther ==
    ASSUME NEW tree, NEW B, NEW o, NEW k, k # o.key
    PROVE  Sees(tree, B \cup {o}, k) <=> Sees(tree, B, k)
<1>1. {x \in B \cup {o} : x.key = k} = {x \in B : x.key = k}
  OBVIOUS
<1> QED
  BY <1>1, Zenon DEF Sees

\* contains of the model.
LEMMA VisibleIs == \A k : Visible(k) = Sees(copies, ChainOps(mem), k) /\ Visible(k) \in BOOLEAN
<1>1. \A k : Visible(k) = Sees(copies, ChainOps(mem), k)
  BY DEF Visible, Sees
<1>2. \A k : Sees(copies, ChainOps(mem), k) \in BOOLEAN
  <2> SUFFICES ASSUME NEW k PROVE Sees(copies, ChainOps(mem), k) \in BOOLEAN
    OBVIOUS
  <2> DEFINE buffered == {o \in ChainOps(mem) : o.key = k}
             z == CHOOSE o \in buffered : \A x \in buffered : x.sequence <= o.sequence
  <2>1. CASE buffered = {}
    <3>1. Sees(copies, ChainOps(mem), k) = (copies[k] > 0)
      BY <2>1 DEF Sees
    <3> QED
      BY <3>1
  <2>2. CASE buffered # {}
    <3>1. Sees(copies, ChainOps(mem), k) = (~z.is_delete)
      BY <2>2 DEF Sees
    <3> QED
      BY <3>1
  <2> QED
    BY <2>1, <2>2
<1> QED
  BY <1>1, <1>2

-----------------------------------------------------------------------------
(* Inserts. *)

\* At rest the memory itself is what an insert begins with.
LEMMA QuietIsSnapshot ==
    ASSUME NEW G, Good(G), QuietAck
    PROVE  Snapshot(mem) /\ Reach(mem) \in SUBSET G /\ Legible(mem)
<1>1. Mix(mem)
  BY DEF Mix
<1> QED
  BY <1>1, MixLegible DEF Snapshot, QuietAck

\* buffered_op begins an insert.
LEMMA AckBegins ==
    ASSUME RecInv, AckInv, NEW k \in Keys, NEW d \in BOOLEAN, buffered_op(k, d)
    PROVE  AckInv'
<1>1. PICK o : o = [key |-> k, is_delete |-> d, sequence |-> next_ptfo_sequence]
  OBVIOUS
<1>2. PICK n : n = Min(Nodes \ allocated)
  OBVIOUS
<1>3. PICK h : h = mem[head]
  OBVIOUS
<1>4. /\ up /\ call = Idle /\ issued < MaxOps
      /\ d \/ copies[k] = 0
      /\ call' = [kind |-> "insert", op |-> o]
      /\ todo' = future_insert(o)
      /\ UNCHANGED <<mem, pmem, allocated, copies, up, everDrained, expected>>
  BY <1>1 DEF buffered_op
<1>5. Base /\ call.kind = "idle" /\ call.kind # "insert"
  BY <1>4 DEF RecInv, Idle
<1>6. PICK G : Good(G) /\ G \subseteq allocated
  BY <1>5 DEF RecInv
<1>7. n \in Nodes /\ n \notin allocated
  BY <1>2, <1>4, <1>5, FreshNode
<1>8. o \in Ops /\ o.sequence = next_ptfo_sequence /\ o.key = k /\ o.is_delete = d
  BY <1>1, <1>5 DEF Ops, Base
<1>9. QuietAck
  BY <1>4, <1>5 DEF AckInv
<1>10. Snapshot(mem) /\ Reach(mem) \in SUBSET G /\ Legible(mem)
  BY <1>6, <1>9, QuietIsSnapshot
<1>11. PICK f : f = mem
  OBVIOUS
<1>12. Newer(o, ChainOps(f))
  <2>1. mem \in Memories
    BY DEF Memories
  <2> QED
    BY <1>5, <1>6, <1>8, <1>11, <2>1, ChainOpsAre DEF Newer
<1>13. Reach(f) \in SUBSET Nodes /\ n \notin Reach(f)
  BY <1>6, <1>7, <1>10, <1>11 DEF Good
<1>14. mem' = f /\ (~everDrained' => Kept(pmem', f, Watched(Reach(f))))
  BY <1>4, <1>9, <1>11 DEF QuietAck
<1>15. head \in Watched(Reach(f)) /\ Reach(f) \X Read \in SUBSET Watched(Reach(f))
  BY DEF Watched
<1>16. ASSUME NEW S \in SUBSET Watched(Reach(f)) PROVE KeptBoth(f, S)'
  BY <1>14 DEF KeptBoth, Kept
<1>17. ASSUME NEW linked \in {2, 4}, NEW durable \in {0, 1} PROVE NodeAck(10, f, n, o, linked, durable)'
  <2>1. KeptBoth(f, Reach(f) \X Read)'
    BY <1>15, <1>16
  <2>2. mem'[head] = f[head] /\ (~everDrained' => pmem'[head] = f[head])
    BY <1>14, <1>15 DEF Kept
  <2> QED
    BY <1>7, <1>13, <2>1, <2>2 DEF NodeAck
<1>18. ASSUME h = Null PROVE AckStage(f, o)'
  <2>1. todo' = FirstSteps(n, o)
    BY <1>2, <1>3, <1>4, <1>18 DEF future_insert, FirstSteps
  <2>2. IsList(FirstSteps(n, o), 10)
    BY FirstList DEF FirstIs
  <2>3. Rest(FirstSteps(n, o))' /\ Len(todo') = 10
    BY <2>1, <2>2, RestAll
  <2>4. NodeAck(10, f, n, o, 4, 1)' /\ f[head] = Null
    BY <1>3, <1>11, <1>17, <1>18
  <2> QED
    BY <2>3, <2>4, Zenon DEF AckStage
<1>19. h \in Reach(f) \cup {Null}
  BY <1>3, <1>10, <1>11 DEF Snapshot, Stays
<1>20. ASSUME h # Null, mem[<<h, "count">>] = cardinality PROVE AckStage(f, o)'
  <2>1. todo' = LinkSteps(n, o, f[head])
    BY <1>2, <1>3, <1>4, <1>11, <1>20 DEF future_insert, LinkSteps
  <2>2. IsList(LinkSteps(n, o, f[head]), 10)
    BY LinkList DEF LinkIs
  <2>3. Rest(LinkSteps(n, o, f[head]))' /\ Len(todo') = 10
    BY <2>1, <2>2, RestAll
  <2>4. NodeAck(10, f, n, o, 2, 0)' /\ f[head] \in Reach(f)
    BY <1>3, <1>11, <1>17, <1>19, <1>20
  <2> QED
    BY <2>3, <2>4, Zenon DEF AckStage
<1>21. ASSUME h # Null, mem[<<h, "count">>] # cardinality PROVE AckStage(f, o)'
  <2>1. PICK c, before : c = mem[<<h, "count">>] /\ before = Entries(mem, h)
    OBVIOUS
  <2>2. PICK ops : ops = Append(before, o)
    OBVIOUS
  <2>3. todo' = EntrySteps(h, ops, c + 1)
    BY <1>2, <1>3, <1>4, <1>21, <2>1, <2>2 DEF future_insert, EntrySteps
  <2>4. IsList(EntrySteps(h, ops, c + 1), 4)
    BY EntryList DEF EntryIs
  <2>5. Rest(EntrySteps(h, ops, c + 1))' /\ Len(todo') = 4
    BY <2>3, <2>4, RestAll
  <2>6. h \in G /\ h \in Reach(f) /\ mem \in Memories
    BY <1>10, <1>11, <1>19, <1>21 DEF Memories
  <2>7. /\ c \in Nat /\ before \in Seq(Ops) /\ Len(before) = c
        /\ \A i \in 1 .. Len(before) : before[i] = mem[<<h, "ops">>][i]
    BY <1>5, <1>6, <2>1, <2>6, GoodEntries
  <2>8. ops[c + 1] = o /\ \A i \in 1 .. c : ops[i] = mem[<<h, "ops">>][i]
    <3>1. ops[c + 1] = o /\ \A i \in 1 .. c : ops[i] = before[i]
      BY <1>8, <2>2, <2>7
    <3>2. 1 .. Len(before) = 1 .. c
      BY <2>7
    <3>3. \A i \in 1 .. c : before[i] = mem[<<h, "ops">>][i]
      BY <2>7, <3>2, Zenon
    <3> QED
      BY <3>1, <3>3, Zenon
  <2>9. Longer(ops, f, h, o, c)
    BY <1>11, <2>8 DEF Longer
  <2>10. <<h, "ops">> \in Watched(Reach(f)) /\ <<h, "count">> \in Watched(Reach(f))
    BY <2>6 DEF Watched, Read
  <2>11. /\ mem'[<<h, "ops">>] = f[<<h, "ops">>] /\ mem'[<<h, "count">>] = c
         /\ ~everDrained' => pmem'[<<h, "ops">>] = f[<<h, "ops">>] /\ pmem'[<<h, "count">>] = c
         /\ c = f[<<h, "count">>]
    BY <1>11, <1>14, <2>1, <2>10 DEF Kept
  <2>12. KeptBoth(f, Watched(Reach(f)) \ {<<h, "ops">>, <<h, "count">>})'
    BY <1>16
  <2>13. EntryAck(4, f, h, o, c)'
    BY <2>6, <2>7, <2>11, <2>12 DEF EntryAck
  <2> QED
    BY <2>5, <2>9, <2>13, Zenon DEF AckStage
<1>22. AckStage(f, o)'
  BY <1>18, <1>20, <1>21
<1>23. InsertAck(f)'
  <2>1. Snapshot(f) /\ Unapplied(copies, ChainOps(f))
        /\ \A x \in Keys : Sees(copies, ChainOps(f), x) <=> expected[x]
    BY <1>5, <1>9, <1>10, <1>11 DEF QuietAck
  <2>2. call'.op = o /\ copies' = copies /\ expected' = expected
    BY <1>4
  <2>3. ~o.is_delete => copies[o.key] = 0
    BY <1>4, <1>8
  <2> QED
    BY <1>12, <1>22, <2>1, <2>2, <2>3 DEF InsertAck
<1>24. call'.kind = "insert" /\ call'.op = o /\ up'
  BY <1>4
<1> QED
  BY <1>4, <1>8, <1>23, <1>24 DEF AckInv

\* What is left of a list of steps has a length.
LEMMA RestLength ==
    ASSUME NEW all, NEW n \in Nat, IsList(all, n), Rest(all)
    PROVE  Len(todo) \in Nat
<1>1. PICK X : all \in Seq(X) /\ Len(all) = n
  BY DEF IsList
<1>2. PICK k \in 0 .. n : todo = SubSeq(all, n - k + 1, n)
  BY <1>1 DEF Rest
<1>3. n - k + 1 \in 1 .. n + 1
  BY <1>2
<1>4. todo \in Seq(X)
  BY <1>1, <1>2, <1>3
<1> QED
  BY <1>4

\* An insert does not touch the tree.
LEMMA StageLeavesTree ==
    ASSUME NEW f, NEW o, AckStage(f, o)
    PROVE  /\ Len(todo) \in Nat
           /\ Step => copies' = copies /\ expected' = expected
<1> DEFINE Inserts(s) == s.do \in {"alloc", "store", "flush"}
<1>1. \A w, v : Inserts(Store(w, v))
  BY DEF Store
<1>2. \A ws : Inserts(Flush(ws))
  BY DEF Flush
<1>3. \A n : Inserts([do |-> "alloc", node |-> n])
  OBVIOUS
<1> HIDE DEF Inserts
<1>4. \E all : \E n \in Nat : IsList(all, n) /\ Rest(all) /\ \A i \in 1 .. n : Inserts(all[i])
  <2>1. CASE \E n : Rest(FirstSteps(n, o))
    <3>1. PICK n, all : Rest(FirstSteps(n, o)) /\ all = FirstSteps(n, o)
      BY <2>1
    <3>2. FirstIs(all, n, o)
      BY <3>1, FirstList
    <3>3. \A i \in 1 .. 10 : i = 1 \/ i = 2 \/ i = 3 \/ i = 4 \/ i = 5 \/ i = 6 \/ i = 7 \/ i = 8 \/ i = 9 \/ i = 10
      OBVIOUS
    <3>4. \A i \in 1 .. 10 : Inserts(all[i])
      BY <1>1, <1>2, <1>3, <3>2, <3>3 DEF FirstIs
    <3>5. IsList(all, 10) /\ Rest(all) /\ 10 \in Nat
      BY <3>1, <3>2 DEF FirstIs
    <3> QED
      BY <3>4, <3>5, Zenon
  <2>2. CASE \E n : Rest(LinkSteps(n, o, f[head]))
    <3>1. PICK n, all : Rest(LinkSteps(n, o, f[head])) /\ all = LinkSteps(n, o, f[head])
      BY <2>2
    <3>2. LinkIs(all, n, o, f[head])
      BY <3>1, LinkList
    <3>3. \A i \in 1 .. 10 : i = 1 \/ i = 2 \/ i = 3 \/ i = 4 \/ i = 5 \/ i = 6 \/ i = 7 \/ i = 8 \/ i = 9 \/ i = 10
      OBVIOUS
    <3>4. \A i \in 1 .. 10 : Inserts(all[i])
      BY <1>1, <1>2, <1>3, <3>2, <3>3 DEF LinkIs
    <3>5. IsList(all, 10) /\ Rest(all) /\ 10 \in Nat
      BY <3>1, <3>2 DEF LinkIs
    <3> QED
      BY <3>4, <3>5, Zenon
  <2>3. CASE \E h, ops, c : Rest(EntrySteps(h, ops, c + 1))
    <3>1. PICK h, ops, c, all : Rest(EntrySteps(h, ops, c + 1)) /\ all = EntrySteps(h, ops, c + 1)
      BY <2>3
    <3>2. EntryIs(all, h, ops, c + 1)
      BY <3>1, EntryList
    <3>3. \A i \in 1 .. 4 : i = 1 \/ i = 2 \/ i = 3 \/ i = 4
      OBVIOUS
    <3>4. \A i \in 1 .. 4 : Inserts(all[i])
      BY <1>1, <1>2, <1>3, <3>2, <3>3 DEF EntryIs
    <3>5. IsList(all, 4) /\ Rest(all) /\ 4 \in Nat
      BY <3>1, <3>2 DEF EntryIs
    <3> QED
      BY <3>4, <3>5, Zenon
  <2> QED
    BY <2>1, <2>2, <2>3, Zenon DEF AckStage
<1>5. PICK all : \E n \in Nat : IsList(all, n) /\ Rest(all) /\ \A i \in 1 .. n : Inserts(all[i])
  BY <1>4
<1>6. PICK n \in Nat : IsList(all, n) /\ Rest(all) /\ \A i \in 1 .. n : Inserts(all[i])
  BY <1>5
<1>7. Len(todo) \in Nat
  BY <1>6, RestLength
<1>8. ASSUME Step PROVE copies' = copies /\ expected' = expected
  <2>1. todo # << >> /\ todo' = Tail(todo)
    BY <1>8 DEF Step
  <2>2. PICK k \in 1 .. n : Head(todo) = all[n - k + 1]
    BY <1>6, <2>1, RestTail
  <2>3. n - k + 1 \in 1 .. n
    BY <2>2
  <2>4. Inserts(Head(todo))
    BY <1>6, <2>2, <2>3
  <2>5. Head(todo).do # "apply"
    BY <2>4 DEF Inserts
  <2> QED
    BY <1>8, <2>5 DEF Step
<1> QED
  BY <1>7, <1>8

\* The snapshot of an insert lies in the nodes.
LEMMA SnapshotNodes ==
    ASSUME NEW f, Snapshot(f)
    PROVE  Reach(f) \in SUBSET Nodes
BY DEF Snapshot, Stays

\* A step of an insert.
LEMMA AckInsertStep ==
    ASSUME RecInv, AckInv, Step, call.kind = "insert"
    PROVE  AckInv'
<1>1. Base /\ up /\ Rests
  BY StepEffects DEF RecInv, Step, Rests
<1>2. PICK f : InsertAck(f)
  BY <1>1 DEF AckInv
<1>3. AckStage(f, call.op) /\ Reach(f) \in SUBSET Nodes
  BY <1>2, SnapshotNodes DEF InsertAck
<1>4. copies' = copies /\ expected' = expected /\ call' = call /\ up' = up
  BY <1>1, <1>3, StageLeavesTree DEF Rests
<1>5. PICK o : o = call.op
  OBVIOUS
<1>6. AckStage(f, o)'
  BY <1>1, <1>3, <1>5, AckSteps
<1>7. InsertAck(f)'
  BY <1>2, <1>4, <1>5, <1>6 DEF InsertAck
<1>8. call'.kind = "insert" /\ up' /\ call'.op \in Ops
  BY <1>1, <1>4 DEF AckInv
<1> QED
  BY <1>4, <1>7, <1>8 DEF AckInv

\* An insert returns.
LEMMA AckInsertReturns ==
    ASSUME RecInv, AckInv, Return, call.kind = "insert"
    PROVE  AckInv'
<1>1. /\ up /\ todo = << >> /\ call' = Idle
      /\ expected' = [expected EXCEPT ![call.op.key] = ~call.op.is_delete]
      /\ UNCHANGED <<mem, pmem, copies, up, everDrained>>
  BY DEF Return
<1>2. PICK f : InsertAck(f)
  BY <1>1 DEF AckInv
<1>3. PICK o : o = call.op
  OBVIOUS
<1>4. PICK G : Good(G)
  BY DEF RecInv
<1>5. Legible(mem)
  <2>1. Mix(mem)
    BY DEF Mix
  <2> QED
    BY <1>4, <2>1, MixLegible
<1>6. /\ o \in Ops /\ Snapshot(f) /\ Newer(o, ChainOps(f)) /\ AckStage(f, o)
      /\ Unapplied(copies, ChainOps(f)) /\ (~o.is_delete => copies[o.key] = 0)
      /\ \A k \in Keys : Sees(copies, ChainOps(f), k) <=> expected[k]
  BY <1>2, <1>3 DEF InsertAck, AckInv
<1>7. /\ Distinct(mem) /\ ChainOps(mem) = ChainOps(f) \cup {o}
      /\ ~everDrained => Kept(pmem, mem, Watched(Reach(mem)))
  BY <1>1, <1>5, <1>6, AckDone
<1>8. o.key \in Keys /\ o.is_delete \in BOOLEAN /\ ChainOps(f) \in SUBSET Ops
  BY <1>6, OpsAre DEF Ops, Snapshot
<1>9. Unapplied(copies, ChainOps(mem))
  BY <1>6, <1>7 DEF Unapplied
<1>10. expected \in [Keys -> BOOLEAN] /\ copies \in [Keys -> {0, 1}]
  BY DEF AckInv
<1>11. ASSUME NEW k \in Keys PROVE Sees(copies, ChainOps(mem), k) <=> expected'[k]
  <2>1. CASE k = o.key
    <3>1. expected'[k] = ~o.is_delete
      BY <1>1, <1>3, <1>8, <1>10, <2>1
    <3>2. Sees(copies, ChainOps(mem), k) <=> ~o.is_delete
      BY <1>6, <1>7, <1>8, <2>1, SeesLatest
    <3> QED
      BY <3>1, <3>2
  <2>2. CASE k # o.key
    <3>1. expected'[k] = expected[k]
      BY <1>1, <1>3, <1>10, <2>2
    <3>2. Sees(copies, ChainOps(mem), k) <=> Sees(copies, ChainOps(f), k)
      BY <1>7, <2>2, SeesOther
    <3> QED
      BY <1>6, <3>1, <3>2
  <2> QED
    BY <2>1, <2>2
<1>12. QuietAck'
  BY <1>1, <1>7, <1>9, <1>11 DEF QuietAck
<1>13. call'.kind = "idle" /\ copies' \in [Keys -> {0, 1}] /\ expected' \in [Keys -> BOOLEAN]
  BY <1>1, <1>3, <1>8, <1>10 DEF Idle
<1> QED
  BY <1>12, <1>13 DEF AckInv

-----------------------------------------------------------------------------
(* Crashes and recovery. *)

\* What a crash finds.
LEMMA AckDies ==
    ASSUME RecInv, AckInv, up, call.kind # "drain", NEW image, Mix(image), Die(image)
    PROVE  AckInv'
<1>1. /\ mem' = image /\ pmem' = image /\ ~up'
      /\ UNCHANGED <<copies, call, everDrained, expected>>
  BY DEF Die
<1>2. PICK G : Good(G)
  BY DEF RecInv
<1>3. Legible(image)
  BY <1>2, MixLegible
<1>4. call.kind = "idle" \/ call.kind = "insert"
  BY DEF RecInv
<1>5. Kept(pmem, mem, Watched(Reach(mem)))'
  BY <1>1 DEF Kept
<1>6. CASE call.kind = "idle"
  <2>1. QuietAck
    BY <1>6 DEF AckInv
  <2>2. Snapshot(mem) /\ Reach(mem) \in SUBSET G
    BY <1>2, <2>1, QuietIsSnapshot
  <2>3. Watched(Reach(mem)) \in SUBSET Words
    BY <1>2, <2>2, ReadWords DEF Good
  <2>4. KeptBoth(mem, Watched(Reach(mem)))
    BY <2>1 DEF QuietAck, KeptBoth, Kept
  <2>5. Kept(image, mem, Watched(Reach(mem)))
    BY <2>3, <2>4, MixKept
  <2>6. image[head] = mem[head] /\ \A x \in Reach(mem) : \A u \in Read : image[<<x, u>>] = mem[<<x, u>>]
    BY <2>5 DEF Kept, Watched
  <2>7. \A x \in Reach(mem) : /\ image[<<x, "next">>] = mem[<<x, "next">>]
                              /\ image[<<x, "count">>] = mem[<<x, "count">>]
                              /\ \A i \in 1 .. mem[<<x, "count">>] :
                                    image[<<x, "ops">>][i] = mem[<<x, "ops">>][i]
    BY <2>6 DEF Read
  <2>8. ChainOps(image) = ChainOps(mem) /\ Distinct(image)
    BY <1>3, <2>2, <2>6, <2>7, SameContents DEF Snapshot
  <2>9. \A k \in Keys : Sees(copies, ChainOps(mem), k) <=> expected[k]
    BY <1>6, <2>1 DEF QuietAck
  <2>10. QuietAck'
    BY <1>1, <1>5, <2>1, <2>8, <2>9 DEF QuietAck
  <2> QED
    BY <1>1, <1>6, <2>10 DEF AckInv
<1>7. CASE call.kind = "insert"
  <2>1. PICK f : InsertAck(f)
    BY <1>7 DEF AckInv
  <2>2. PICK o : o = call.op
    OBVIOUS
  <2>3. /\ o \in Ops /\ Snapshot(f) /\ Newer(o, ChainOps(f)) /\ AckStage(f, o)
        /\ Unapplied(copies, ChainOps(f)) /\ (~o.is_delete => copies[o.key] = 0)
        /\ \A k \in Keys : Sees(copies, ChainOps(f), k) <=> expected[k]
    BY <1>7, <2>1, <2>2 DEF InsertAck, AckInv
  <2>4. Len(todo) \in Nat
    BY <2>3, StageLeavesTree
  <2>5. Distinct(image) /\ (ChainOps(image) = ChainOps(f) \/ ChainOps(image) = ChainOps(f) \cup {o})
    BY <1>3, <2>3, <2>4, AckOutcome
  <2>6. Unapplied(copies, ChainOps(image))
    BY <2>3, <2>5 DEF Unapplied
  <2>7. ASSUME NEW k \in Keys, k # o.key PROVE Sees(copies, ChainOps(image), k) <=> expected[k]
    <3>1. Sees(copies, ChainOps(f) \cup {o}, k) <=> Sees(copies, ChainOps(f), k)
      BY <2>7, SeesOther
    <3> QED
      BY <2>3, <2>5, <3>1
  <2>8. QuietAck'
    BY <1>1, <1>5, <1>7, <2>2, <2>5, <2>6, <2>7 DEF QuietAck
  <2> QED
    BY <1>1, <1>7, <2>8 DEF AckInv
<1> QED
  BY <1>4, <1>6, <1>7

\* Both kinds of crash take such words.
LEMMA AckCrashes ==
    ASSUME RecInv, AckInv, ~CrashInDrain, ~PowerAfterDrain, ProcessCrash \/ PowerFailure
    PROVE  AckInv'
<1>1. up /\ call.kind # "drain"
  BY DEF ProcessCrash, PowerFailure, MayCrash
<1>2. CASE ProcessCrash
  <2>1. Die(mem) /\ Mix(mem)
    BY <1>2 DEF ProcessCrash, Mix
  <2> QED
    BY <1>1, <2>1, AckDies
<1>3. CASE PowerFailure
  <2>1. PICK image \in Images : Die(image)
    BY <1>3 DEF PowerFailure
  <2>2. ~everDrained
    BY <1>3 DEF PowerFailure
  <2>3. PICK S : image = [w \in Words |-> IF w \in S THEN mem[w] ELSE pmem[w]]
    BY DEF Images
  <2>4. Mix(image)
    BY <2>2, <2>3 DEF Mix
  <2> QED
    BY <1>1, <2>1, <2>4, AckDies
<1> QED
  BY <1>2, <1>3

\* Recovery finds what the crash has left.
LEMMA AckReopens ==
    ASSUME RecInv, AckInv, Reopen
    PROVE  AckInv'
<1>1. /\ ~up /\ call' = Idle
      /\ expected' = IF call.kind = "insert"
                     THEN [expected EXCEPT ![call.op.key] = Visible(call.op.key)]
                     ELSE expected
      /\ UNCHANGED <<mem, pmem, copies, everDrained>>
  BY DEF Reopen
<1>2. call.kind # "drain"
  BY <1>1 DEF RecInv
<1>3. QuietAck /\ copies \in [Keys -> {0, 1}] /\ expected \in [Keys -> BOOLEAN]
  BY <1>1, <1>2 DEF AckInv
<1>4. \A k : Visible(k) = Sees(copies, ChainOps(mem), k) /\ Visible(k) \in BOOLEAN
  BY VisibleIs
<1>5. expected' \in [Keys -> BOOLEAN]
  BY <1>1, <1>3, <1>4
<1>6. ASSUME NEW k \in Keys PROVE Sees(copies, ChainOps(mem), k) <=> expected'[k]
  <2>1. CASE call.kind = "insert" /\ k = call.op.key
    <3>1. expected'[k] = Visible(k)
      BY <1>1, <1>3, <2>1
    <3> QED
      BY <1>4, <3>1
  <2>2. CASE ~(call.kind = "insert" /\ k = call.op.key)
    <3>1. expected'[k] = expected[k]
      BY <1>1, <1>3, <2>2
    <3> QED
      BY <1>3, <2>2, <3>1 DEF QuietAck
  <2> QED
    BY <2>1, <2>2
<1>7. call'.kind = "idle"
  BY <1>1 DEF Idle
<1>8. QuietAck'
  BY <1>1, <1>3, <1>6, <1>7 DEF QuietAck
<1> QED
  BY <1>1, <1>3, <1>5, <1>7, <1>8 DEF AckInv

-----------------------------------------------------------------------------
(* The operations a drain sees, in one sequence. *)

\* s holds the elements of the first n sequences of ss, each at one place.
Pieces(s, ss, n) ==
    /\ \A k \in 1 .. Len(s) : \E i \in 1 .. n : \E j \in 1 .. Len(ss[i]) : s[k] = ss[i][j]
    /\ \A i \in 1 .. n : \A j \in 1 .. Len(ss[i]) : \E k \in 1 .. Len(s) : s[k] = ss[i][j]
    /\ OneToOne(s)

\* No element is in two places.
Apart(ss) ==
    \A i1, i2 \in 1 .. Len(ss) :
        \A j1 \in 1 .. Len(ss[i1]), j2 \in 1 .. Len(ss[i2]) :
            ss[i1][j1] = ss[i2][j2] => i1 = i2 /\ j1 = j2

\* r is s, of length a, and then t, of length b.
Joined(r, s, t, a, b) ==
    /\ Len(s) = a /\ Len(t) = b /\ Len(r) = a + b
    /\ \A k \in 1 .. a : r[k] = s[k]
    /\ \A k \in 1 .. b : r[a + k] = t[k]

\* Two sequences one after the other.
LEMMA JoinedAt ==
    ASSUME NEW T, NEW s \in Seq(T), NEW t \in Seq(T)
    PROVE  \E a, b \in Nat : Joined(s \o t, s, t, a, b)
<1>1. PICK a, b \in Nat : a = Len(s) /\ b = Len(t)
  OBVIOUS
<1>2. Len(s \o t) = a + b
  BY <1>1
<1>3. \A k \in 1 .. a : (s \o t)[k] = s[k]
  BY <1>1
<1>4. \A k \in 1 .. b : (s \o t)[a + k] = t[k]
  <2> TAKE k \in 1 .. b
  <2>1. a + k \in 1 .. a + b /\ a + k > a /\ (a + k) - a = k
    OBVIOUS
  <2> QED
    BY <1>1, <2>1
<1>5. Joined(s \o t, s, t, a, b)
  BY <1>1, <1>2, <1>3, <1>4 DEF Joined
<1> QED
  BY <1>5

\* One more sequence.
LEMMA OneMorePiece ==
    ASSUME NEW T, NEW ss \in Seq(Seq(T)), Apart(ss), NEW n \in 1 .. Len(ss), n # 1,
           NEW s \in Seq(T), Pieces(s, ss, n - 1)
    PROVE  Pieces(s \o ss[n], ss, n)
<1>1. PICK N \in Nat : N = Len(ss)
  OBVIOUS
<1>2. PICK p \in 1 .. N : p = n - 1 /\ n = p + 1
  BY <1>1
<1>3. PICK t \in Seq(T) : t = ss[n]
  OBVIOUS
<1>4. PICK r : r = s \o t
  OBVIOUS
<1>0. PICK a, b \in Nat : Joined(r, s, t, a, b)
  BY <1>4, JoinedAt
<1>5. /\ Len(s) = a /\ Len(t) = b /\ Len(r) = a + b
      /\ \A k \in 1 .. a : r[k] = s[k]
      /\ \A k \in 1 .. b : r[a + k] = t[k]
  BY <1>0 DEF Joined
<1>6. /\ \A k \in 1 .. a : \E i \in 1 .. p : \E j \in 1 .. Len(ss[i]) : s[k] = ss[i][j]
      /\ \A i \in 1 .. p : \A j \in 1 .. Len(ss[i]) : \E k \in 1 .. a : s[k] = ss[i][j]
      /\ \A k, l \in 1 .. a : s[k] = s[l] => k = l
  BY <1>2, <1>5 DEF Pieces, OneToOne
<1>7. n \in 1 .. N /\ n \in 1 .. n /\ 1 .. p \subseteq 1 .. n /\ 1 .. n \subseteq 1 .. N /\ n \notin 1 .. p
  BY <1>1, <1>2
<1>8. \A k \in 1 .. a + b : k \in 1 .. a \/ (k - a \in 1 .. b /\ k = a + (k - a))
  OBVIOUS
<1>9. \A k \in 1 .. a : k \in 1 .. a + b
  OBVIOUS
<1>10. \A k \in 1 .. b : a + k \in 1 .. a + b
  OBVIOUS
<1>11. ASSUME NEW k \in 1 .. a + b PROVE \E i \in 1 .. n : \E j \in 1 .. Len(ss[i]) : r[k] = ss[i][j]
  <2>1. CASE k \in 1 .. a
    <3>1. PICK i \in 1 .. p : \E j \in 1 .. Len(ss[i]) : s[k] = ss[i][j]
      BY <1>6, <2>1
    <3>2. r[k] = s[k] /\ i \in 1 .. n
      BY <1>5, <1>7, <2>1
    <3> QED
      BY <3>1, <3>2, Zenon
  <2>2. CASE k - a \in 1 .. b /\ k = a + (k - a)
    <3>1. PICK l \in 1 .. b : k = a + l
      BY <2>2
    <3>2. r[k] = ss[n][l] /\ l \in 1 .. Len(ss[n])
      BY <1>3, <1>5, <3>1
    <3> QED
      BY <1>7, <3>2, Zenon
  <2> QED
    BY <1>8, <2>1, <2>2
<1>12. ASSUME NEW i \in 1 .. n, NEW j \in 1 .. Len(ss[i]) PROVE \E k \in 1 .. a + b : r[k] = ss[i][j]
  <2>1. CASE i \in 1 .. p
    <3>1. PICK k \in 1 .. a : s[k] = ss[i][j]
      BY <1>6, <2>1
    <3> QED
      BY <1>5, <1>9, <3>1
  <2>2. CASE i = n
    <3>1. j \in 1 .. b
      BY <1>3, <1>5, <2>2
    <3> QED
      BY <1>3, <1>5, <1>10, <2>2, <3>1
  <2>3. i \in 1 .. p \/ i = n
    BY <1>2
  <2> QED
    BY <2>1, <2>2, <2>3
<1>13. ASSUME NEW k \in 1 .. a, NEW l \in 1 .. b PROVE s[k] # t[l]
  <2>1. PICK i \in 1 .. p : \E j \in 1 .. Len(ss[i]) : s[k] = ss[i][j]
    BY <1>6
  <2>2. PICK j \in 1 .. Len(ss[i]) : s[k] = ss[i][j]
    BY <2>1
  <2>3. i # n /\ i \in 1 .. N /\ l \in 1 .. Len(ss[n]) /\ t[l] = ss[n][l]
    BY <1>3, <1>5, <1>7
  <2> QED
    BY <1>1, <1>7, <2>2, <2>3 DEF Apart
<1>14. ASSUME NEW k \in 1 .. b, NEW l \in 1 .. b, t[k] = t[l] PROVE k = l
  <2>1. k \in 1 .. Len(ss[n]) /\ l \in 1 .. Len(ss[n]) /\ ss[n][k] = ss[n][l]
    BY <1>3, <1>5, <1>14
  <2> QED
    BY <1>1, <1>7, <2>1 DEF Apart
<1>15. ASSUME NEW k \in 1 .. a + b, NEW l \in 1 .. a + b, r[k] = r[l] PROVE k = l
  <2>1. CASE k \in 1 .. a /\ l \in 1 .. a
    BY <1>5, <1>6, <1>15, <2>1
  <2>2. CASE k \in 1 .. a /\ l \notin 1 .. a
    <3>1. PICK x \in 1 .. b : l = a + x
      BY <1>8, <2>2
    <3>2. r[k] = s[k] /\ r[l] = t[x]
      BY <1>5, <2>2, <3>1
    <3> QED
      BY <1>13, <1>15, <2>2, <3>2
  <2>3. CASE k \notin 1 .. a /\ l \in 1 .. a
    <3>1. PICK x \in 1 .. b : k = a + x
      BY <1>8, <2>3
    <3>2. r[l] = s[l] /\ r[k] = t[x]
      BY <1>5, <2>3, <3>1
    <3> QED
      BY <1>13, <1>15, <2>3, <3>2
  <2>4. CASE k \notin 1 .. a /\ l \notin 1 .. a
    <3>1. PICK x \in 1 .. b : k = a + x
      BY <1>8, <2>4
    <3>2. PICK y \in 1 .. b : l = a + y
      BY <1>8, <2>4
    <3>3. t[x] = t[y]
      BY <1>5, <1>15, <3>1, <3>2
    <3> QED
      BY <1>14, <3>1, <3>2, <3>3
  <2> QED
    BY <2>1, <2>2, <2>3, <2>4
<1>16. 1 .. Len(r) = 1 .. a + b
  BY <1>5
<1>17. Pieces(r, ss, n)
  <2>1. \A k \in 1 .. Len(r) : \E i \in 1 .. n : \E j \in 1 .. Len(ss[i]) : r[k] = ss[i][j]
    BY <1>11, <1>16
  <2>2. \A i \in 1 .. n : \A j \in 1 .. Len(ss[i]) : \E k \in 1 .. Len(r) : r[k] = ss[i][j]
    BY <1>12, <1>16
  <2>3. OneToOne(r)
    BY <1>15, <1>16 DEF OneToOne
  <2> QED
    BY <2>1, <2>2, <2>3, Zenon DEF Pieces
<1> QED
  BY <1>3, <1>4, <1>17

\* Joined sequences hold what the sequences hold.
LEMMA FlattenPieces ==
    ASSUME NEW T, NEW ss \in Seq(Seq(T)), Apart(ss)
    PROVE  Pieces(FlattenSeq(ss), ss, Len(ss))
<1>1. PICK N \in Nat : N = Len(ss)
  OBVIOUS
<1>2. CASE N = 0
  <2>1. Len(ss) = 0
    BY <1>1, <1>2
  <2>3. FlattenSeq(ss) = ss
    BY <2>1 DEF FlattenSeq
  <2>2. Len(FlattenSeq(ss)) = 0
    BY <2>1, <2>3
  <2> QED
    BY <1>1, <1>2, <2>2 DEF Pieces, OneToOne
<1>3. CASE N # 0
  <2>1. PICK f : Joins(f, T, ss) /\ FlattenSeq(ss) = f[N]
    BY <1>1, <1>3, FlattenIs
  <2>2. \A i \in 1 .. N : f[i] \in Seq(T) /\ f[i] = IF i = 1 THEN ss[i] ELSE f[i - 1] \o ss[i]
    BY <1>1, <2>1 DEF Joins
  <2> DEFINE Bad == {i \in 1 .. N : ~Pieces(f[i], ss, i)}
  <2>3. Bad = {}
    <3> SUFFICES ASSUME Bad # {} PROVE FALSE
      OBVIOUS
    <3>1. PICK n \in Bad : \A k \in Bad : n <= k
      <4>1. Bad \in SUBSET Nat
        OBVIOUS
      <4> QED
        BY <4>1, LeastNatural
    <3>2. n \in 1 .. N /\ ~Pieces(f[n], ss, n)
      OBVIOUS
    <3>3. n # 1
      <4>1. ASSUME 1 \in 1 .. N PROVE Pieces(f[1], ss, 1)
        <5>1. f[1] = ss[1] /\ 1 \in 1 .. Len(ss)
          BY <1>1, <2>2, <4>1
        <5>2. \A i \in 1 .. 1 : i = 1
          OBVIOUS
        <5> QED
          BY <5>1, <5>2 DEF Pieces, OneToOne, Apart
      <4> QED
        BY <3>2, <4>1
    <3>4. n - 1 \in 1 .. N /\ n - 1 \notin Bad
      <4> HIDE DEF Bad
      <4> QED
        BY <3>1, <3>2, <3>3
    <3>5. f[n - 1] \in Seq(T) /\ Pieces(f[n - 1], ss, n - 1)
      BY <2>2, <3>4
    <3>6. Pieces(f[n - 1] \o ss[n], ss, n)
      BY <1>1, <3>2, <3>3, <3>5, OneMorePiece
    <3>7. f[n] = f[n - 1] \o ss[n]
      BY <2>2, <3>2, <3>3
    <3> QED
      BY <3>2, <3>6, <3>7
  <2>4. N \in 1 .. N
    BY <1>3
  <2> QED
    BY <1>1, <2>1, <2>3, <2>4
<1> QED
  BY <1>2, <1>3

\* A chain has no node twice, from either end.
LEMMA ReverseOneToOne ==
    ASSUME NEW T, NEW s \in Seq(T), OneToOne(s)
    PROVE  /\ Reverse(s) \in Seq(T) /\ OneToOne(Reverse(s))
           /\ \A x : x \in ToSet(s) <=> \E i \in 1 .. Len(Reverse(s)) : Reverse(s)[i] = x
<1>1. PICK N \in Nat : N = Len(s)
  OBVIOUS
<1>2. PICK r : r = Reverse(s)
  OBVIOUS
<1>3. r = [i \in 1 .. N |-> s[(N - i) + 1]]
  BY <1>1, <1>2 DEF Reverse
<1>4. \A i \in 1 .. N : (N - i) + 1 \in 1 .. N
  OBVIOUS
<1>5. \A i \in 1 .. N : s[i] \in T
  BY <1>1
<1>6. r \in Seq(T) /\ Len(r) = N
  BY <1>3, <1>4, <1>5
<1>7. \A i, j \in 1 .. N : (N - i) + 1 = (N - j) + 1 => i = j
  OBVIOUS
<1>8. OneToOne(r)
  <2>1. \A i, j \in 1 .. N : s[i] = s[j] => i = j
    BY <1>1 DEF OneToOne
  <2>2. \A i \in 1 .. N : r[i] = s[(N - i) + 1]
    BY <1>3
  <2>3. \A i, j \in 1 .. N : r[i] = r[j] => i = j
    BY <1>4, <1>7, <2>1, <2>2
  <2> QED
    BY <1>6, <2>3 DEF OneToOne
<1>9. \A i \in 1 .. N : \E j \in 1 .. N : i = (N - j) + 1
  <2> TAKE i \in 1 .. N
  <2>1. (N - i) + 1 \in 1 .. N /\ i = (N - ((N - i) + 1)) + 1
    OBVIOUS
  <2> QED
    BY <2>1, Zenon
<1>10. \A x : x \in ToSet(s) <=> \E i \in 1 .. N : s[i] = x
  BY <1>1 DEF ToSet
<1>11. \A x : x \in ToSet(s) <=> \E i \in 1 .. N : r[i] = x
  BY <1>3, <1>4, <1>9, <1>10
<1> QED
  BY <1>2, <1>6, <1>8, <1>11

-----------------------------------------------------------------------------
(* Drains of F3-N. *)

\* The operations of the chain, oldest node first.
ReplayOps ==
    LET nodes == Reverse(Chain(mem))
    IN  FlattenSeq([i \in DOMAIN nodes |-> Entries(mem, nodes[i])])

\* They are the operations of the chain, each once.
LEMMA ReplayOpsAre ==
    ASSUME Base, NEW G, Good(G), QuietAck
    PROVE  ReplayOps \in Seq(Ops) /\ OneToOne(ReplayOps) /\ ToSet(ReplayOps) = ChainOps(mem)
<1>1. mem \in Memories /\ Legible(mem) /\ Distinct(mem)
  BY QuietIsSnapshot DEF Memories, QuietAck
<1>2. Chain(mem) \in Seq(G) /\ OneToOne(Chain(mem))
  <2>1. Stays(mem, head, "next", G)
    BY <1>1 DEF Good, Closed, Stays
  <2> QED
    BY <2>1, ChainStays
<1>3. PICK nodes : nodes = Reverse(Chain(mem))
  OBVIOUS
<1>4. /\ nodes \in Seq(G) /\ OneToOne(nodes)
      /\ \A x : x \in Reach(mem) <=> \E i \in 1 .. Len(nodes) : nodes[i] = x
  BY <1>2, <1>3, ReverseOneToOne DEF Reach
<1>5. PICK N \in Nat : N = Len(nodes) /\ DOMAIN nodes = 1 .. N
  BY <1>4
<1>6. PICK ss : ss = [i \in 1 .. N |-> Entries(mem, nodes[i])]
  OBVIOUS
<1>7. ReplayOps = FlattenSeq(ss)
  BY <1>3, <1>5, <1>6 DEF ReplayOps
<1>8. \A i \in 1 .. N : nodes[i] \in G /\ nodes[i] \in Reach(mem)
  BY <1>4, <1>5
<1>9. ASSUME NEW i \in 1 .. N
      PROVE  /\ ss[i] \in Seq(Ops)
             /\ 1 .. Len(ss[i]) = 1 .. mem[<<nodes[i], "count">>]
             /\ \A j \in 1 .. Len(ss[i]) : ss[i][j] = mem[<<nodes[i], "ops">>][j]
  <2>1. PICK e, n, c : e = ss[i] /\ n = nodes[i] /\ c = mem[<<n, "count">>]
    OBVIOUS
  <2>2. e = Entries(mem, n) /\ n \in G
    BY <1>6, <1>8, <2>1
  <2>3. /\ e \in Seq(Ops) /\ Len(e) = c
        /\ \A j \in 1 .. Len(e) : e[j] = mem[<<n, "ops">>][j]
    BY <1>1, <2>1, <2>2, GoodEntries
  <2> QED
    BY <2>1, <2>3
<1>10. ss \in Seq(Seq(Ops)) /\ Len(ss) = N
  <2>1. \A i \in 1 .. N : ss[i] \in Seq(Ops)
    BY <1>9
  <2>2. DOMAIN ss = 1 .. N /\ ss = [i \in 1 .. N |-> ss[i]]
    BY <1>6
  <2> QED
    BY <2>1, <2>2
<1>11. Apart(ss)
  <2> SUFFICES ASSUME NEW i1 \in 1 .. N, NEW i2 \in 1 .. N,
                      NEW j1 \in 1 .. Len(ss[i1]), NEW j2 \in 1 .. Len(ss[i2]),
                      ss[i1][j1] = ss[i2][j2]
               PROVE  i1 = i2 /\ j1 = j2
    BY <1>10 DEF Apart
  <2>1. PICK n1, n2 : n1 = nodes[i1] /\ n2 = nodes[i2] /\ n1 \in Reach(mem) /\ n2 \in Reach(mem)
    BY <1>8
  <2>2. mem[<<n1, "ops">>][j1] = mem[<<n2, "ops">>][j2]
        /\ j1 \in 1 .. mem[<<n1, "count">>] /\ j2 \in 1 .. mem[<<n2, "count">>]
    BY <1>9, <2>1
  <2>3. n1 = n2 /\ j1 = j2
    <3>1. mem[<<n1, "ops">>][j1].sequence = mem[<<n2, "ops">>][j2].sequence
      BY <2>2
    <3>2. \A i \in 1 .. mem[<<n1, "count">>], j \in 1 .. mem[<<n2, "count">>] :
             mem[<<n1, "ops">>][i].sequence = mem[<<n2, "ops">>][j].sequence => n1 = n2 /\ i = j
      BY <1>1, <2>1 DEF Distinct
    <3> QED
      BY <2>2, <3>1, <3>2
  <2> QED
    BY <1>4, <1>5, <2>1, <2>3 DEF OneToOne
<1>12. PICK ops : ops = FlattenSeq(ss)
  OBVIOUS
<1>13. ops \in Seq(Ops) /\ Pieces(ops, ss, N)
  BY <1>10, <1>11, <1>12, FlattenType, FlattenPieces
<1>14. \A o : o \in ToSet(ops) <=> \E k \in 1 .. Len(ops) : ops[k] = o
  BY <1>13 DEF ToSet
<1>15. \A o : o \in ChainOps(mem) <=> \E n \in Reach(mem) : Holds(mem, n, o)
  BY <1>1, OpsAre
<1>16. ASSUME NEW o \in ToSet(ops) PROVE o \in ChainOps(mem)
  <2>1. PICK k \in 1 .. Len(ops) : ops[k] = o
    BY <1>14
  <2>2. PICK i \in 1 .. N : \E j \in 1 .. Len(ss[i]) : ops[k] = ss[i][j]
    BY <1>13 DEF Pieces
  <2>3. PICK j \in 1 .. Len(ss[i]) : o = ss[i][j]
    BY <2>1, <2>2
  <2>4. Holds(mem, nodes[i], o)
    BY <1>9, <2>3 DEF Holds
  <2> QED
    BY <1>8, <1>15, <2>4
<1>17. ASSUME NEW o \in ChainOps(mem) PROVE o \in ToSet(ops)
  <2>1. PICK n \in Reach(mem) : Holds(mem, n, o)
    BY <1>15
  <2>2. PICK i \in 1 .. N : nodes[i] = n
    BY <1>4, <1>5
  <2>3. PICK j \in 1 .. mem[<<n, "count">>] : o = mem[<<n, "ops">>][j]
    BY <2>1 DEF Holds
  <2>4. j \in 1 .. Len(ss[i]) /\ ss[i][j] = o
    BY <1>9, <2>2, <2>3
  <2> QED
    BY <1>13, <1>14, <2>4 DEF Pieces
<1> QED
  BY <1>7, <1>12, <1>13, <1>16, <1>17 DEF Pieces

\* o is the last operation of ops on its key.
Latest(ops, o) == \A x \in ToSet(ops) : x.key = o.key => x.sequence <= o.sequence

\* The steps l apply the last operation of ops on each key, where it is.
Replays(l, ops) ==
    /\ \E X : l \in Seq(X)
    /\ 1 .. Len(ops) \subseteq 1 .. Len(l)
    /\ \A i \in 1 .. Len(l) : l[i].do = "apply" <=> i \in 1 .. Len(ops) /\ Latest(ops, ops[i])
    /\ \A i \in 1 .. Len(ops) : Latest(ops, ops[i]) => l[i].op = ops[i]

\* apply_node_ordered_ptfo_replay applies the last operation on each key.
LEMMA ReplayIs ==
    ASSUME Base, NEW G, Good(G), QuietAck
    PROVE  Replays(apply_node_ordered_ptfo_replay, ReplayOps)
<1>1. PICK ops : ops = ReplayOps
  OBVIOUS
<1>2. ops \in Seq(Ops)
  BY <1>1, ReplayOpsAre
<1> DEFINE chain == Chain(mem)
           T == DrainSteps(Ops)
           free == [i \in DOMAIN chain |-> Free(chain[i])]
           ends == << Store(head, Null), Store(tail, Null) >>
           U == {Free(n) : n \in G} \cup {Store(head, Null), Store(tail, Null)}
           V == {ApplyOp(o) : o \in Ops} \cup {Skip} \cup U
<1>3. PICK apply : apply = [i \in DOMAIN ops |-> IF Latest(ops, ops[i]) THEN ApplyOp(ops[i]) ELSE Skip]
  OBVIOUS
<1>4. apply_node_ordered_ptfo_replay = apply \o (free \o ends)
  BY <1>1, <1>3 DEF apply_node_ordered_ptfo_replay, future_clear_thread, ReplayOps, Latest
<1>5. chain \in Seq(G)
  <2>1. mem \in Memories
    BY DEF Memories
  <2>2. Stays(mem, head, "next", G)
    BY <2>1 DEF Good, Closed, Stays
  <2> QED
    BY <2>2, ChainStays
<1>6. PICK rest : rest = free \o ends
  OBVIOUS
<1>7. rest \in Seq(U)
  <2>1. free \in Seq(U)
    <3>1. PICK N \in Nat : DOMAIN chain = 1 .. N /\ \A i \in 1 .. N : chain[i] \in G
      BY <1>5
    <3>2. \A i \in 1 .. N : Free(chain[i]) \in U
      BY <3>1
    <3> HIDE DEF U, chain
    <3> QED
      BY <3>1, <3>2
  <2>2. ends \in Seq(U)
    OBVIOUS
  <2> HIDE DEF free, ends, U
  <2> QED
    BY <1>6, <2>1, <2>2
<1>8. PICK M \in Nat : /\ M = Len(ops) /\ DOMAIN ops = 1 .. M
                       /\ \A i \in 1 .. M : ops[i] \in Ops
  BY <1>2
<1>9. /\ \A s \in U : s.do # "apply" /\ s \in V
      /\ \A o : ApplyOp(o).do = "apply" /\ ApplyOp(o).op = o
      /\ \A o \in Ops : ApplyOp(o) \in V
      /\ Skip.do # "apply" /\ Skip \in V
  BY DEF Free, Store, ApplyOp, Skip
<1> HIDE DEF U, V, free, ends
<1>10. /\ apply \in Seq(V) /\ Len(apply) = M
       /\ \A i \in 1 .. M : apply[i] = IF Latest(ops, ops[i]) THEN ApplyOp(ops[i]) ELSE Skip
  BY <1>3, <1>8, <1>9
<1>11. rest \in Seq(V)
  <2>1. U \subseteq V
    BY <1>9
  <2> QED
    BY <1>7, <2>1
<1>12. PICK l : l = apply \o rest
  OBVIOUS
<1>13. PICK a, b \in Nat : Joined(l, apply, rest, a, b)
  BY <1>10, <1>11, <1>12, JoinedAt
<1>14. a = M /\ Len(rest) = b /\ Len(l) = M + b
       /\ (\A k \in 1 .. M : l[k] = apply[k]) /\ \A k \in 1 .. b : l[M + k] = rest[k]
  BY <1>10, <1>13 DEF Joined
<1>15. \A k \in 1 .. b : l[M + k].do # "apply"
  <2>1. \A k \in 1 .. b : rest[k] \in U
    BY <1>7, <1>14
  <2> QED
    BY <1>9, <1>14, <2>1
<1>16. \A k \in 1 .. M : /\ l[k].do = "apply" <=> Latest(ops, ops[k])
                         /\ Latest(ops, ops[k]) => l[k].op = ops[k]
  BY <1>9, <1>10, <1>14
<1>17. ASSUME NEW i \in 1 .. M + b
       PROVE  l[i].do = "apply" <=> i \in 1 .. M /\ Latest(ops, ops[i])
  <2>1. CASE i \in 1 .. M
    BY <1>16, <2>1
  <2>2. CASE i \notin 1 .. M
    <3>1. i - M \in 1 .. b /\ i = M + (i - M)
      BY <2>2
    <3> QED
      BY <1>15, <2>2, <3>1
  <2> QED
    BY <2>1, <2>2
<1>18. l \in Seq(V) /\ 1 .. Len(l) = 1 .. M + b /\ 1 .. Len(ops) = 1 .. M /\ 1 .. M \subseteq 1 .. M + b
  BY <1>8, <1>10, <1>11, <1>12, <1>14
<1>19. Replays(l, ops)
  BY <1>16, <1>17, <1>18 DEF Replays
<1> QED
  BY <1>1, <1>4, <1>6, <1>12, <1>19

\* Operations of one sequence number are one operation.
LEMMA SequencesApart ==
    ASSUME NEW m, Legible(m), Distinct(m)
    PROVE  \A x, y \in ChainOps(m) : x.sequence = y.sequence => x = y
<1> SUFFICES ASSUME NEW x \in ChainOps(m), NEW y \in ChainOps(m), x.sequence = y.sequence
             PROVE  x = y
  OBVIOUS
<1>1. PICK n1 \in Reach(m) : Holds(m, n1, x)
  BY OpsAre
<1>2. PICK n2 \in Reach(m) : Holds(m, n2, y)
  BY OpsAre
<1>3. PICK i \in 1 .. m[<<n1, "count">>] : x = m[<<n1, "ops">>][i]
  BY <1>1 DEF Holds
<1>4. PICK j \in 1 .. m[<<n2, "count">>] : y = m[<<n2, "ops">>][j]
  BY <1>2 DEF Holds
<1>5. \A a \in 1 .. m[<<n1, "count">>], b \in 1 .. m[<<n2, "count">>] :
          m[<<n1, "ops">>][a].sequence = m[<<n2, "ops">>][b].sequence => n1 = n2 /\ a = b
  BY DEF Distinct
<1>6. n1 = n2 /\ i = j
  BY <1>3, <1>4, <1>5
<1> QED
  BY <1>3, <1>4, <1>6

\* Of some operations one is the last.
LEMMA LastOf ==
    ASSUME NEW B \in SUBSET Ops, B # {}, NEW limit \in Nat, \A x \in B : x.sequence < limit
    PROVE  \E z \in B : \A x \in B : x.sequence <= z.sequence
<1> DEFINE T == {x.sequence : x \in B}
<1>1. \A x \in B : x.sequence \in Nat
  BY DEF Ops
<1>2. T \in SUBSET Nat /\ T # {} /\ \A n \in T : n <= limit
  BY <1>1
<1>3. PICK n \in T : \A m \in T : m <= n
  <2> HIDE DEF T
  <2> QED
    BY <1>2, GreatestNatural
<1>4. PICK z \in B : n = z.sequence
  BY <1>3
<1> QED
  BY <1>3, <1>4

\* The replay of a key.
LEMMA KeyBegins ==
    ASSUME NEW ops \in Seq(Ops), OneToOne(ops), NEW B \in SUBSET Ops, ToSet(ops) = B,
           \A x, y \in B : x.sequence = y.sequence => x = y,
           NEW limit \in Nat, \A x \in B : x.sequence < limit,
           NEW l, Replays(l, ops), NEW tree, Unapplied(tree, B),
           NEW now, NEW k, Sees(tree, B, k) <=> now[k]
    PROVE  KeyDrains(l, k, tree, now)
<1>1. PICK M \in Nat : M = Len(ops) /\ DOMAIN ops = 1 .. M
  OBVIOUS
<1>2. \A x : x \in B <=> \E i \in 1 .. M : ops[i] = x
  BY <1>1 DEF ToSet
<1>3. /\ 1 .. M \subseteq 1 .. Len(l)
      /\ \A i \in 1 .. Len(l) : l[i].do = "apply" <=> i \in 1 .. M /\ Latest(ops, ops[i])
      /\ \A i \in 1 .. M : Latest(ops, ops[i]) => l[i].op = ops[i]
  BY <1>1 DEF Replays
<1>4. \A i : i \in Applies(l, k) <=> i \in 1 .. M /\ Latest(ops, ops[i]) /\ ops[i].key = k
  BY <1>3 DEF Applies
<1>5. \A x \in B : x.sequence \in Nat
  BY DEF Ops
<1>6. PICK C : C = {x \in B : x.key = k}
  OBVIOUS
<1>7. CASE C = {}
  <2>1. Applies(l, k) = {}
    BY <1>2, <1>4, <1>6, <1>7
  <2>2. Sees(tree, B, k) <=> tree[k] > 0
    BY <1>6, <1>7 DEF Sees
  <2>3. tree[k] > 0 <=> now[k]
    BY <2>2
  <2> QED
    BY <2>1, <2>3 DEF KeyDrains
<1>8. CASE C # {}
  <2> DEFINE Last_(z) == \A x \in C : x.sequence <= z.sequence
  <2>1. C \in SUBSET Ops /\ \A x \in C : x \in B /\ x.key = k /\ x.sequence < limit
    BY <1>6
  <2>2. \E z \in C : Last_(z)
    BY <1>8, <2>1, LastOf
  <2>3. PICK z : z = CHOOSE w \in C : Last_(w)
    OBVIOUS
  <2>4. z \in C /\ Last_(z)
    BY <2>2, <2>3
  <2>5. Sees(tree, B, k) <=> ~z.is_delete
    <3>1. Sees(tree, B, k) <=> ~(CHOOSE w \in C : Last_(w)).is_delete
      BY <1>6, <1>8 DEF Sees
    <3> HIDE DEF Last_
    <3> QED
      BY <2>3, <3>1
  <2>6. \A x \in B : (x.key = k => x \in C)
    BY <1>6
  <2>7. Latest(ops, z)
    BY <2>1, <2>4, <2>6 DEF Latest
  <2>8. PICK i \in 1 .. M : ops[i] = z
    BY <1>2, <2>1, <2>4
  <2>9. ASSUME NEW j \in Applies(l, k) PROVE j = i
    <3>1. j \in 1 .. M /\ Latest(ops, ops[j]) /\ ops[j].key = k
      BY <1>4
    <3>2. ops[j] \in B /\ ops[j] \in C
      BY <1>2, <2>6, <3>1
    <3>3. z.sequence <= ops[j].sequence
      BY <2>1, <2>4, <3>1 DEF Latest
    <3>4. ops[j].sequence <= z.sequence
      BY <2>4, <3>2
    <3>5. ops[j].sequence = z.sequence
      BY <1>5, <2>1, <2>4, <3>2, <3>3, <3>4
    <3>6. ops[j] = ops[i]
      BY <2>1, <2>4, <2>8, <3>2, <3>5
    <3> QED
      BY <1>1, <2>8, <3>1, <3>6 DEF OneToOne
  <2>10. i \in Applies(l, k) /\ i \in 1 .. Len(l) /\ l[i].op = z
    BY <1>3, <1>4, <2>1, <2>4, <2>7, <2>8
  <2>11. Applies(l, k) = {i}
    BY <2>9, <2>10
  <2>12. now[k] <=> ~l[i].op.is_delete
    BY <2>5, <2>10
  <2>13. now[k] => tree[k] = 0
    BY <2>1, <2>4, <2>5 DEF Unapplied
  <2> QED
    BY <2>10, <2>11, <2>12, <2>13, Zenon DEF KeyDrains
<1> QED
  BY <1>7, <1>8

\* drain begins a replay.
LEMMA AckDrains ==
    ASSUME RecInv, AckInv, Policy = "F3N", drain
    PROVE  AckInv'
<1>1. /\ up /\ call = Idle /\ call' = [kind |-> "drain"]
      /\ todo' = apply_node_ordered_ptfo_replay
      /\ UNCHANGED <<mem, copies, expected>>
  BY DEF drain
<1>2. Base /\ call.kind = "idle"
  BY <1>1 DEF RecInv, Idle
<1>3. PICK G : Good(G)
  BY DEF RecInv
<1>4. QuietAck
  BY <1>2 DEF AckInv
<1>5. PICK ops, l, B : ops = ReplayOps /\ l = apply_node_ordered_ptfo_replay /\ B = ChainOps(mem)
  OBVIOUS
<1>6. ops \in Seq(Ops) /\ OneToOne(ops) /\ ToSet(ops) = B
  BY <1>2, <1>3, <1>4, <1>5, ReplayOpsAre
<1>7. Replays(l, ops)
  BY <1>2, <1>3, <1>4, <1>5, ReplayIs
<1>8. Legible(mem) /\ Distinct(mem)
  BY <1>3, <1>4, QuietIsSnapshot DEF QuietAck
<1>9. B \in SUBSET Ops /\ \A x, y \in B : x.sequence = y.sequence => x = y
  BY <1>5, <1>8, OpsAre, SequencesApart
<1>10. PICK limit \in Nat : \A x \in B : x.sequence < limit
  <2>1. mem \in Memories /\ next_ptfo_sequence \in Nat
    BY <1>2 DEF Memories, Base
  <2> QED
    BY <1>2, <1>3, <1>5, <2>1, ChainOpsAre
<1>11. Unapplied(copies, B)
  BY <1>4, <1>5 DEF QuietAck
<1>12. ASSUME NEW k \in Keys PROVE KeyDrains(l, k, copies, expected)
  <2>1. Sees(copies, B, k) <=> expected[k]
    BY <1>2, <1>4, <1>5 DEF QuietAck
  <2> QED
    BY <1>6, <1>7, <1>9, <1>10, <1>11, <2>1, KeyBegins
<1>13. \E X : l \in Seq(X)
  BY <1>7 DEF Replays
<1>14. \A i \in 1 .. Len(l) : l[i].do = "apply" => l[i].op \in Ops
  <2>1. \A i \in 1 .. Len(ops) : ops[i] \in Ops
    BY <1>6
  <2> QED
    BY <1>7, <2>1 DEF Replays
<1>15. DrainAck'
  BY <1>1, <1>5, <1>12, <1>13, <1>14 DEF DrainAck
<1>16. call'.kind = "drain"
  BY <1>1
<1> QED
  BY <1>1, <1>15, <1>16 DEF AckInv

\* What is applied after the first step.
LEMMA AppliesTail ==
    ASSUME NEW X, NEW l \in Seq(X), l # << >>
    PROVE  /\ Tail(l) \in Seq(X) /\ Head(l) = l[1] /\ 1 \in 1 .. Len(l)
           /\ \A i : i \in 1 .. Len(Tail(l)) <=> i \in Nat /\ i # 0 /\ i + 1 \in 1 .. Len(l)
           /\ \A i \in 1 .. Len(Tail(l)) : Tail(l)[i] = l[i + 1]
<1>1. PICK N \in Nat : N = Len(l)
  OBVIOUS
<1>2. N # 0
  BY <1>1
<1>3. Tail(l) \in Seq(X) /\ Len(Tail(l)) = N - 1 /\ Head(l) = l[1]
  BY <1>1, <1>2
<1>4. \A i \in 1 .. N - 1 : Tail(l)[i] = l[i + 1]
  BY <1>1, <1>2
<1>5. \A i : i \in 1 .. N - 1 <=> i \in Nat /\ i # 0 /\ i + 1 \in 1 .. N
  BY <1>2
<1> QED
  BY <1>1, <1>2, <1>3, <1>4, <1>5

\* A step that does not apply an operation on k leaves k as it is.
LEMMA KeyShifts ==
    ASSUME NEW X, NEW l \in Seq(X), l # << >>, NEW k, NEW tree, NEW now,
           KeyDrains(l, k, tree, now), 1 \notin Applies(l, k)
    PROVE  KeyDrains(Tail(l), k, tree, now)
<1>1. PICK t : t = Tail(l)
  OBVIOUS
<1>2. /\ \A i : i \in 1 .. Len(t) <=> i \in Nat /\ i # 0 /\ i + 1 \in 1 .. Len(l)
      /\ \A i \in 1 .. Len(t) : t[i] = l[i + 1]
  BY <1>1, AppliesTail
<1>3. \A i : i \in Applies(t, k) <=> i \in Nat /\ i # 0 /\ i + 1 \in Applies(l, k)
  BY <1>2 DEF Applies
<1>4. CASE Applies(l, k) = {} /\ (tree[k] > 0 <=> now[k])
  <2>1. Applies(t, k) = {}
    BY <1>3, <1>4
  <2> QED
    BY <1>1, <1>4, <2>1 DEF KeyDrains
<1>5. CASE \E i \in 1 .. Len(l) : /\ Applies(l, k) = {i}
                                  /\ now[k] <=> ~l[i].op.is_delete
                                  /\ now[k] => tree[k] = 0
  <2>1. PICK i \in 1 .. Len(l) : /\ Applies(l, k) = {i}
                                 /\ now[k] <=> ~l[i].op.is_delete
                                 /\ now[k] => tree[k] = 0
    BY <1>5
  <2>2. i # 1 /\ i \in Nat /\ i # 0
    BY <2>1
  <2>3. PICK j : j = i - 1
    OBVIOUS
  <2>4. j \in Nat /\ j # 0 /\ j + 1 = i
    BY <2>2, <2>3
  <2>5. j \in 1 .. Len(t) /\ t[j] = l[i]
    BY <1>2, <2>1, <2>4
  <2>6. \A x \in Nat : x + 1 = i => x = j
    BY <2>4
  <2>7. Applies(t, k) = {j}
    BY <1>3, <2>1, <2>4, <2>6
  <2> QED
    BY <1>1, <2>1, <2>5, <2>7, Zenon DEF KeyDrains
<1> QED
  BY <1>4, <1>5 DEF KeyDrains

\* A step of a drain.
LEMMA AckDrainStep ==
    ASSUME AckInv, Step, call.kind = "drain"
    PROVE  AckInv'
<1>1. /\ todo # << >> /\ todo' = Tail(todo) /\ UNCHANGED <<call, expected>>
      /\ copies' = IF Head(todo).do = "apply"
                   THEN [copies EXCEPT ![Head(todo).op.key] =
                            IF ~Head(todo).op.is_delete THEN @ + 1 ELSE IF @ > 0 THEN @ - 1 ELSE 0]
                   ELSE copies
  BY DEF Step
<1>2. PICK l : l = todo
  OBVIOUS
<1>3. DrainAck /\ copies \in [Keys -> {0, 1}] /\ expected \in [Keys -> BOOLEAN]
  BY DEF AckInv
<1>4. PICK X : l \in Seq(X)
  BY <1>2, <1>3 DEF DrainAck
<1>5. /\ \A i \in 1 .. Len(l) : l[i].do = "apply" => l[i].op \in Ops
      /\ \A k \in Keys : KeyDrains(l, k, copies, expected)
  BY <1>2, <1>3 DEF DrainAck
<1>6. PICK t : t = Tail(l)
  OBVIOUS
<1>7. /\ t \in Seq(X) /\ Head(l) = l[1] /\ 1 \in 1 .. Len(l)
      /\ \A i : i \in 1 .. Len(t) <=> i \in Nat /\ i # 0 /\ i + 1 \in 1 .. Len(l)
      /\ \A i \in 1 .. Len(t) : t[i] = l[i + 1]
  BY <1>1, <1>2, <1>4, <1>6, AppliesTail
<1>8. \A i \in 1 .. Len(t) : t[i].do = "apply" => t[i].op \in Ops
  BY <1>5, <1>7
<1>9. \A k \in Keys : KeyDrains(t, k, copies, expected) \/ 1 \in Applies(l, k)
  BY <1>1, <1>2, <1>4, <1>5, <1>6, KeyShifts
<1>10. \A k : 1 \in Applies(l, k) <=> l[1].do = "apply" /\ l[1].op.key = k
  BY <1>7 DEF Applies
<1>11. copies' \in [Keys -> {0, 1}] /\ \A k \in Keys : KeyDrains(t, k, copies', expected)
  <2>1. CASE l[1].do # "apply"
    <3>1. copies' = copies
      BY <1>1, <1>2, <1>7, <2>1
    <3> QED
      BY <1>3, <1>9, <1>10, <2>1, <3>1
  <2>2. CASE l[1].do = "apply"
    <3>1. PICK o : o = l[1].op
      OBVIOUS
    <3>2. o \in Ops
      BY <1>5, <1>7, <2>2, <3>1
    <3>3. o.key \in Keys /\ o.is_delete \in BOOLEAN
      BY <3>2 DEF Ops
    <3>4. copies' = [copies EXCEPT ![o.key] =
                         IF ~o.is_delete THEN @ + 1 ELSE IF @ > 0 THEN @ - 1 ELSE 0]
      BY <1>1, <1>2, <1>7, <2>2, <3>1
    <3>5. PICK c \in {0, 1} : c = copies[o.key]
      BY <1>3, <3>3
    <3>6. /\ \A k \in Keys : k # o.key => copies'[k] = copies[k]
          /\ copies'[o.key] = IF ~o.is_delete THEN c + 1 ELSE IF c > 0 THEN c - 1 ELSE 0
          /\ DOMAIN copies' = Keys /\ copies' = [k \in Keys |-> copies'[k]]
      BY <1>3, <3>3, <3>4, <3>5
    <3>7. 1 \in Applies(l, o.key) /\ KeyDrains(l, o.key, copies, expected)
      BY <1>5, <1>10, <2>2, <3>1, <3>3
    <3>8. PICK i \in 1 .. Len(l) : /\ Applies(l, o.key) = {i}
                                   /\ expected[o.key] <=> ~l[i].op.is_delete
                                   /\ expected[o.key] => copies[o.key] = 0
      BY <3>7 DEF KeyDrains
    <3>9. i = 1
      BY <3>7, <3>8
    <3>10. (expected[o.key] <=> ~o.is_delete) /\ (expected[o.key] => c = 0)
      BY <3>1, <3>5, <3>8, <3>9
    <3>11. copies'[o.key] \in {0, 1} /\ (copies'[o.key] > 0 <=> expected[o.key])
      <4>1. CASE o.is_delete
        <5>1. copies'[o.key] = 0
          BY <3>5, <3>6, <4>1
        <5> QED
          BY <3>10, <4>1, <5>1
      <4>2. CASE ~o.is_delete
        <5>1. copies'[o.key] = 1
          BY <3>5, <3>6, <3>10, <4>2
        <5> QED
          BY <3>10, <4>2, <5>1
      <4> QED
        BY <4>1, <4>2
    <3>12. copies' \in [Keys -> {0, 1}]
      <4>1. \A k \in Keys : copies'[k] \in {0, 1}
        BY <1>3, <3>6, <3>11
      <4> QED
        BY <3>6, <4>1
    <3>13. Applies(t, o.key) = {}
      <4>1. \A x \in 1 .. Len(t) : x \in Applies(t, o.key) => x + 1 \in Applies(l, o.key)
        BY <1>7 DEF Applies
      <4>2. \A x \in 1 .. Len(t) : x + 1 # 1
        BY <1>7
      <4>3. \A x \in Applies(t, o.key) : x \in 1 .. Len(t)
        BY DEF Applies
      <4> QED
        BY <3>8, <3>9, <4>1, <4>2, <4>3
    <3>14. ASSUME NEW k \in Keys PROVE KeyDrains(t, k, copies', expected)
      <4>1. CASE k = o.key
        BY <3>11, <3>13, <4>1 DEF KeyDrains
      <4>2. CASE k # o.key
        <5>1. KeyDrains(t, k, copies, expected)
          BY <1>9, <1>10, <3>1, <4>2
        <5>2. copies'[k] = copies[k]
          BY <3>6, <4>2
        <5> QED
          BY <5>1, <5>2 DEF KeyDrains
      <4> QED
        BY <4>1, <4>2
    <3> QED
      BY <3>12, <3>14
  <2> QED
    BY <2>1, <2>2
<1>12. DrainAck'
  BY <1>1, <1>2, <1>6, <1>7, <1>8, <1>11 DEF DrainAck
<1> QED
  BY <1>1, <1>3, <1>11, <1>12 DEF AckInv

\* An empty chain.
LEMMA NothingBuffered ==
    ASSUME NEW m, m[head] = Null
    PROVE  Reach(m) = {} /\ ChainOps(m) = {} /\ Distinct(m)
<1>1. Stays(m, head, "next", {})
  BY DEF Stays
<1>2. Reach(m) = {}
  BY <1>1, ReachIs
<1> QED
  BY <1>2 DEF ChainOps, Reach, Distinct

\* A drain returns.
LEMMA AckDrainReturns ==
    ASSUME RecInv, AckInv, Return, call.kind = "drain"
    PROVE  AckInv'
<1>1. /\ todo = << >> /\ call' = Idle
      /\ UNCHANGED <<mem, pmem, copies, everDrained, expected>>
  BY DEF Return
<1>2. mem[head] = Null /\ everDrained
  BY <1>1 DEF RecInv, DrainStage
<1>3. Reach(mem) = {} /\ ChainOps(mem) = {} /\ Distinct(mem)
  BY <1>2, NothingBuffered
<1>4. DrainAck /\ copies \in [Keys -> {0, 1}] /\ expected \in [Keys -> BOOLEAN]
  BY DEF AckInv
<1>5. \A k \in Keys : copies[k] > 0 <=> expected[k]
  <2>1. 1 .. Len(todo) = {}
    BY <1>1
  <2> QED
    BY <1>4, <2>1 DEF DrainAck, KeyDrains
<1>6. \A k \in Keys : Sees(copies, ChainOps(mem), k) <=> expected[k]
  BY <1>3, <1>5 DEF Sees
<1>7. QuietAck'
  BY <1>1, <1>2, <1>3, <1>6 DEF QuietAck, Unapplied
<1>8. call'.kind = "idle"
  BY <1>1 DEF Idle
<1> QED
  BY <1>1, <1>4, <1>7, <1>8 DEF AckInv

-----------------------------------------------------------------------------
(* The theorem. *)

\* The invariant holds in an empty pool.
LEMMA InitAckInv ==
    ASSUME Init
    PROVE  AckInv
<1>1. /\ mem = [w \in Words |-> IF w[2] = "ops" THEN << >> ELSE 0] /\ pmem = mem
      /\ copies = [k \in Keys |-> 0] /\ expected = [k \in Keys |-> FALSE] /\ call = Idle
  BY DEF Init
<1>2. mem[head] = Null
  BY <1>1, WordFacts DEF head, Null
<1>3. Reach(mem) = {} /\ ChainOps(mem) = {} /\ Distinct(mem)
  BY <1>2, NothingBuffered
<1>4. call.kind = "idle" /\ copies \in [Keys -> {0, 1}] /\ expected \in [Keys -> BOOLEAN]
  BY <1>1 DEF Idle
<1>5. \A k \in Keys : Sees(copies, ChainOps(mem), k) <=> expected[k]
  BY <1>1, <1>3 DEF Sees
<1>6. QuietAck
  BY <1>1, <1>3, <1>5 DEF QuietAck, Unapplied, Kept
<1> QED
  BY <1>4, <1>6 DEF AckInv

\* Every step keeps it.
LEMMA NextAckInv ==
    ASSUME RecInv, AckInv, Policy = "F3N", ~CrashInDrain, ~PowerAfterDrain, [Next]_vars
    PROVE  AckInv'
<1>1. ASSUME NEW k \in Keys, NEW d \in BOOLEAN, buffered_op(k, d) PROVE AckInv'
  BY <1>1, AckBegins
<1>2. CASE drain
  BY <1>2, AckDrains
<1>3. CASE Step
  <2>1. todo # << >>
    BY <1>3 DEF Step
  <2>2. call.kind = "insert" \/ call.kind = "drain"
    BY <2>1 DEF RecInv
  <2> QED
    BY <1>3, <2>2, AckInsertStep, AckDrainStep
<1>4. CASE Return
  <2>1. call # Idle
    BY <1>4 DEF Return
  <2>2. call.kind = "insert" \/ call.kind = "drain"
    BY <2>1 DEF RecInv
  <2> QED
    BY <1>4, <2>2, AckInsertReturns, AckDrainReturns
<1>5. CASE ProcessCrash \/ PowerFailure
  BY <1>5, AckCrashes
<1>6. CASE Reopen
  BY <1>6, AckReopens
<1>7. CASE UNCHANGED vars
  <2>1. /\ UNCHANGED <<mem, pmem, copies, todo, call, up, everDrained, expected>>
    BY <1>7 DEF vars
  <2>2. QuietAck' = QuietAck /\ DrainAck' = DrainAck
    BY <2>1 DEF QuietAck, DrainAck
  <2>3. \A f : InsertAck(f)' = InsertAck(f)
    BY <2>1 DEF InsertAck, AckStage, Rest, NodeAck, EntryAck, KeptBoth
  <2> QED
    BY <2>1, <2>2, <2>3 DEF AckInv
<1> QED
  BY <1>1, <1>2, <1>3, <1>4, <1>5, <1>6, <1>7 DEF Next

\* It implies the property.
LEMMA InvAcked ==
    ASSUME AckInv
    PROVE  AckedSurvives
<1> SUFFICES ASSUME up, call = Idle, NEW k \in Keys PROVE Visible(k) = expected[k]
  BY DEF AckedSurvives
<1>1. call.kind = "idle"
  BY DEF Idle
<1>2. QuietAck /\ expected[k] \in BOOLEAN
  BY <1>1 DEF AckInv
<1>3. Sees(copies, ChainOps(mem), k) <=> expected[k]
  BY <1>1, <1>2 DEF QuietAck
<1> QED
  BY <1>2, <1>3, VisibleIs

\* In F3-N, however often the process crashes or power fails, in the middle
\* of an insert or erase or between calls, and however drains come between:
\* once an operation has returned, every process that opens the pool later
\* sees its key as that operation left it, until the next one on the key; and
\* of an operation that was cut off recovery finds all or nothing.  It takes
\* the flushes of future_insert, the walk of the constructor and the replay of
\* apply_node_ordered_ptfo_replay together.
THEOREM AcknowledgedSurvive ==
    ASSUME Policy = "F3N", ~CrashInDrain, ~PowerAfterDrain
    PROVE  Spec => []AckedSurvives
<1>1. Init => RecInv /\ AckInv
  BY InitRecInv, InitAckInv
<1>2. RecInv /\ AckInv /\ [Next]_vars => RecInv' /\ AckInv'
  BY NextRecInv, NextAckInv
<1>3. AckInv => AckedSurvives
  BY InvAcked
<1> QED
  BY <1>1, <1>2, <1>3, PTL DEF Spec

=============================================================================

--------------------------- MODULE NatSetTheorems ---------------------------
(***************************************************************************)
(* Facts about sets of natural numbers, sums over finite sets, division    *)
(* and the slices of the evaluators that the proofs of several components  *)
(* rest on.                                                                *)
(***************************************************************************)
EXTENDS Partition, FiniteSets, FiniteSetsExt, FiniteSetTheorems, WellFoundedInduction, TLAPS

\* A set of naturals with a member has a least one.
LEMMA LeastNatural ==
    ASSUME NEW T \in SUBSET Nat, T # {}
    PROVE  \E n \in T : \A m \in T : n <= m
<1> DEFINE R == OpToRel(<, Nat)
<1>1. IsWellFoundedOn(R, Nat)
  BY NatLessThanWellFounded
<1>2. \A n, m \in Nat : m < n => <<m, n>> \in R
  BY DEF OpToRel
<1> HIDE DEF R
<1>3. PICK n \in T : \A m \in T : ~(<<m, n>> \in R)
  BY <1>1, WFMin, Zenon
<1>4. ASSUME NEW m \in T PROVE n <= m
  <2>1. n \in Nat /\ m \in Nat
    OBVIOUS
  <2>2. ~(m < n)
    BY <1>2, <1>3, <2>1, Zenon
  <2> QED
    BY <2>1, <2>2
<1> QED
  BY <1>4

\* One with a bound has a greatest one.
LEMMA GreatestNatural ==
    ASSUME NEW T \in SUBSET Nat, T # {}, NEW limit \in Nat, \A n \in T : n <= limit
    PROVE  \E n \in T : \A m \in T : m <= n
<1> DEFINE Gaps == {limit - n : n \in T}
<1>1. Gaps \in SUBSET Nat /\ Gaps # {}
  <2>1. \A n \in T : limit - n \in Nat
    OBVIOUS
  <2> QED
    BY <2>1, Zenon
<1>2. PICK g \in Gaps : \A h \in Gaps : g <= h
  BY <1>1, LeastNatural
<1>3. PICK n \in T : g = limit - n
  BY <1>2
<1>4. ASSUME NEW m \in T PROVE m <= n
  <2>1. limit - m \in Gaps
    OBVIOUS
  <2>2. g <= limit - m
    BY <1>2, <2>1
  <2> QED
    BY <1>3, <2>2
<1> QED
  BY <1>4

-----------------------------------------------------------------------------
(* Sums.  MapThenSumSet picks the members of a set in an order of its own; *)
(* what it adds up does not depend on it.                                  *)

Pick(s) == CHOOSE x \in s : TRUE

\* One unfolding of the sum of f over the subsets in the domain of g.
Unfold(f, g, s) == IF s = {} THEN 0 ELSE f[Pick(s)] + g[s \ {Pick(s)}]

Total(f, S) == MapThenSumSet(LAMBDA x : f[x], S)

\* g is the recursive function behind Total.
Sums(f, S, g) ==
    /\ g \in [SUBSET S -> Nat]
    /\ \A s \in SUBSET S : g[s] = Unfold(f, g, s)

\* The members of a finite set can be taken out one by one.
LEMMA RemovePicked ==
    ASSUME NEW S, IsFiniteSet(S), NEW s \in SUBSET S, s # {}
    PROVE  /\ Pick(s) \in s
           /\ \A x \in s : /\ s \ {x} \in SUBSET S
                           /\ Cardinality(s \ {x}) \in Nat
                           /\ Cardinality(s) = Cardinality(s \ {x}) + 1
<1>1. Pick(s) \in s
  BY DEF Pick
<1>2. IsFiniteSet(s)
  BY FS_Subset
<1>3. ASSUME NEW x \in s
      PROVE  /\ Cardinality(s \ {x}) \in Nat
             /\ Cardinality(s) = Cardinality(s \ {x}) + 1
  <2>1. IsFiniteSet(s \ {x}) /\ Cardinality(s \ {x}) = Cardinality(s) - 1
    BY <1>2, FS_RemoveElement
  <2>2. Cardinality(s) \in Nat /\ Cardinality(s \ {x}) \in Nat
    BY <1>2, <2>1, FS_CardinalityType
  <2> QED
    BY <2>1, <2>2
<1> QED
  BY <1>1, <1>3

\* The recursion defines a function.
LEMMA SumsExist ==
    ASSUME NEW S, IsFiniteSet(S), NEW f, \A x \in S : f[x] \in Nat
    PROVE  \E g : Sums(f, S, g)
<1> DEFINE Small(n) == {s \in SUBSET S : Cardinality(s) <= n}
           Upto(n, g) == /\ g \in [Small(n) -> Nat]
                         /\ \A s \in Small(n) : g[s] = Unfold(f, g, s)
           Bad == {n \in Nat : ~\E g : Upto(n, g)}
<1>1. \A s \in SUBSET S : IsFiniteSet(s) /\ Cardinality(s) \in Nat
  BY FS_Subset, FS_CardinalityType
<1>2. Bad = {}
  <2> SUFFICES ASSUME Bad # {} PROVE FALSE
    OBVIOUS
  <2>1. PICK n \in Bad : \A m \in Bad : n <= m
    <3>1. Bad \in SUBSET Nat
      OBVIOUS
    <3> QED
      BY <3>1, LeastNatural
  <2>2. CASE n = 0
    <3>1. \A s \in Small(0) : s = {}
      BY <1>1, FS_EmptySet
    <3>2. Upto(0, [s \in Small(0) |-> 0])
      BY <3>1 DEF Unfold
    <3> QED
      BY <2>2, <3>2
  <2>3. CASE n # 0
    <3>1. n - 1 \in Nat /\ n - 1 \notin Bad
      <4>1. n \in Nat /\ \A m \in Bad : n <= m
        BY <2>1
      <4> HIDE DEF Bad
      <4> QED
        BY <2>3, <4>1
    <3>2. PICK g : Upto(n - 1, g)
      BY <3>1
    <3> DEFINE h == [s \in Small(n) |-> Unfold(f, g, s)]
    <3>3. ASSUME NEW s \in Small(n), s # {}
          PROVE  Pick(s) \in S /\ s \ {Pick(s)} \in Small(n - 1)
      <4>1. Pick(s) \in s /\ s \ {Pick(s)} \in SUBSET S
            /\ Cardinality(s \ {Pick(s)}) \in Nat
            /\ Cardinality(s) = Cardinality(s \ {Pick(s)}) + 1
        BY <3>3, RemovePicked
      <4> QED
        BY <3>1, <4>1
    <3>4. h \in [Small(n) -> Nat]
      BY <3>2, <3>3 DEF Unfold
    <3>5. ASSUME NEW s \in Small(n - 1) PROVE h[s] = g[s]
      <4>1. s \in Small(n)
        BY <1>1, <3>1
      <4> QED
        BY <3>2, <4>1
    <3>6. ASSUME NEW s \in Small(n) PROVE h[s] = Unfold(f, h, s)
      BY <3>3, <3>5 DEF Unfold
    <3> QED
      BY <3>4, <3>6
  <2> QED
    BY <2>2, <2>3
<1>3. Cardinality(S) \in Nat
  BY FS_CardinalityType
<1>4. PICK g : Upto(Cardinality(S), g)
  BY <1>2, <1>3
<1>5. Small(Cardinality(S)) = SUBSET S
  <2>1. ASSUME NEW s \in SUBSET S PROVE Cardinality(s) <= Cardinality(S)
    BY FS_Subset
  <2> QED
    BY <2>1
<1>6. Sums(f, S, g)
  BY <1>4, <1>5 DEF Sums
<1> QED
  BY <1>6

\* g unfolds on every subset of S.
Unfolds(f, S, g) == \A s \in SUBSET S : g[s] = Unfold(f, g, s)

\* It is the only one: two of them, the second on a part of the first's set,
\* agree if what they add up agrees.
LEMMA SumsAgree ==
    ASSUME NEW S, NEW T \in SUBSET S, NEW e, NEW f, NEW g, NEW h,
           IsFiniteSet(S), Unfolds(f, S, g), Unfolds(e, T, h),
           \A x \in T : f[x] = e[x]
    PROVE  g[T] = h[T]
<1> DEFINE Bad == {s \in SUBSET T : g[s] # h[s]}
           Sizes == {Cardinality(s) : s \in Bad}
<1> SUFFICES ASSUME Bad # {} PROVE FALSE
  OBVIOUS
<1>1. \A s \in Bad : Cardinality(s) \in Nat
  BY FS_Subset, FS_CardinalityType
<1>2. PICK n \in Sizes : \A m \in Sizes : n <= m
  <2>1. Sizes \in SUBSET Nat /\ Sizes # {}
    BY <1>1
  <2> QED
    BY <2>1, LeastNatural
<1>3. PICK s \in Bad : n = Cardinality(s)
  BY <1>2
<1>4. \A t \in Bad : Cardinality(s) <= Cardinality(t)
  BY <1>2, <1>3
<1>5. s \in SUBSET S /\ s \in SUBSET T /\ g[s] = Unfold(f, g, s) /\ h[s] = Unfold(e, h, s)
  BY <1>3 DEF Unfolds
<1>6. s # {}
  BY <1>3, <1>5 DEF Unfold
<1> DEFINE rest == s \ {Pick(s)}
<1>7. /\ Pick(s) \in s /\ Cardinality(rest) \in Nat
      /\ Cardinality(s) = Cardinality(rest) + 1
  BY <1>5, <1>6, RemovePicked
<1>8. g[rest] = h[rest]
  <2>1. rest \notin Bad
    <3> HIDE DEF rest, Bad
    <3> QED
      BY <1>4, <1>7
  <2> QED
    BY <1>5, <2>1
<1>9. f[Pick(s)] = e[Pick(s)]
  BY <1>5, <1>7
<1>10. g[s] = h[s]
  BY <1>5, <1>6, <1>8, <1>9 DEF Unfold
<1> QED
  BY <1>3, <1>10

\* Total is what that function says of the whole set.
LEMMA TotalIs ==
    ASSUME NEW S, IsFiniteSet(S), NEW f, \A x \in S : f[x] \in Nat, NEW g, Sums(f, S, g)
    PROVE  Total(f, S) = g[S]
<1> DEFINE Iter == CHOOSE iter : iter = [s \in SUBSET S |-> Unfold(f, iter, s)]
<1>1. g = [s \in SUBSET S |-> Unfold(f, g, s)]
  BY DEF Sums
<1>2. Iter = [s \in SUBSET S |-> Unfold(f, Iter, s)]
  BY <1>1
<1>3. Total(f, S) = Iter[S]
  BY DEF Total, MapThenSumSet, MapThenFoldSet, Unfold, Pick
<1> HIDE DEF Iter
<1>4. Unfolds(f, S, g) /\ Unfolds(f, S, Iter)
  BY <1>1, <1>2 DEF Unfolds
<1>5. Iter[S] = g[S]
  <2>1. S \in SUBSET S /\ \A x \in S : f[x] = f[x]
    OBVIOUS
  <2> QED
    BY <1>4, <2>1, SumsAgree
<1> QED
  BY <1>3, <1>5

\* The order in which the members are taken does not matter.
LEMMA SumsAnyOrder ==
    ASSUME NEW S, IsFiniteSet(S), NEW f, \A x \in S : f[x] \in Nat, NEW g, Sums(f, S, g),
           NEW A \in SUBSET S, NEW b \in A
    PROVE  g[A] = f[b] + g[A \ {b}]
<1> DEFINE Fails(s) == \E x \in s : g[s] # f[x] + g[s \ {x}]
           Bad == {s \in SUBSET S : Fails(s)}
           Sizes == {Cardinality(s) : s \in Bad}
<1> SUFFICES ASSUME Bad # {} PROVE FALSE
  OBVIOUS
<1>1. \A s \in Bad : Cardinality(s) \in Nat
  BY FS_Subset, FS_CardinalityType
<1>2. PICK n \in Sizes : \A m \in Sizes : n <= m
  <2>1. Sizes \in SUBSET Nat /\ Sizes # {}
    BY <1>1
  <2> QED
    BY <2>1, LeastNatural
<1>3. PICK s \in Bad : n = Cardinality(s)
  BY <1>2
<1>4. \A t \in Bad : Cardinality(s) <= Cardinality(t)
  BY <1>2, <1>3
<1>5. PICK x \in s : g[s] # f[x] + g[s \ {x}]
  BY <1>3
<1>6. s \in SUBSET S /\ s # {}
  BY <1>3, <1>5
<1> DEFINE c == Pick(s)
<1>7. /\ c \in s
      /\ \A y \in s : /\ s \ {y} \in SUBSET S
                      /\ Cardinality(s \ {y}) \in Nat
                      /\ Cardinality(s) = Cardinality(s \ {y}) + 1
  BY <1>6, RemovePicked
<1>8. \A y \in s : s \ {y} \notin Bad
  <2> SUFFICES ASSUME NEW y \in s, s \ {y} \in Bad PROVE FALSE
    OBVIOUS
  <2>1. Cardinality(s) <= Cardinality(s \ {y})
    BY <1>4
  <2> QED
    BY <1>7, <2>1
<1>9. \A y \in s : \A z \in s \ {y} : g[s \ {y}] = f[z] + g[(s \ {y}) \ {z}]
  BY <1>7, <1>8
<1>10. g[s] = f[c] + g[s \ {c}]
  BY <1>6 DEF Sums, Unfold
<1>11. c # x
  BY <1>5, <1>10
<1>12. /\ g[s \ {c}] = f[x] + g[(s \ {c}) \ {x}]
       /\ g[s \ {x}] = f[c] + g[(s \ {x}) \ {c}]
  BY <1>7, <1>9, <1>11
<1>13. (s \ {c}) \ {x} = (s \ {x}) \ {c}
  OBVIOUS
<1>14. f[x] \in Nat /\ f[c] \in Nat /\ g[(s \ {x}) \ {c}] \in Nat
  BY <1>6, <1>7 DEF Sums
<1>15. f[c] + (f[x] + g[(s \ {x}) \ {c}]) = f[x] + (f[c] + g[(s \ {x}) \ {c}])
  BY <1>14
<1>16. g[s] = f[x] + g[s \ {x}]
  BY <1>10, <1>12, <1>13, <1>15
<1> QED
  BY <1>5, <1>16

\* A total is a natural number, zero for the empty set, and can be split at
\* any member.
LEMMA TotalSplit ==
    ASSUME NEW S, IsFiniteSet(S), NEW f, \A x \in S : f[x] \in Nat
    PROVE  /\ Total(f, S) \in Nat
           /\ S = {} => Total(f, S) = 0
           /\ \A b \in S : Total(f, S) = f[b] + Total(f, S \ {b})
<1>1. PICK g : Sums(f, S, g)
  BY SumsExist
<1>2. Total(f, S) = g[S]
  BY <1>1, TotalIs
<1>3. g[S] \in Nat /\ (S = {} => g[S] = 0)
  BY <1>1 DEF Sums, Unfold
<1>4. ASSUME NEW b \in S PROVE Total(f, S) = f[b] + Total(f, S \ {b})
  <2> DEFINE T == S \ {b}
  <2>1. IsFiniteSet(T) /\ \A x \in T : f[x] \in Nat
    BY FS_Subset
  <2>2. PICK h : Sums(f, T, h)
    BY <2>1, SumsExist
  <2>3. Total(f, T) = h[T]
    BY <2>1, <2>2, TotalIs
  <2>4. g[T] = h[T]
    <3>1. Unfolds(f, S, g) /\ Unfolds(f, T, h)
      BY <1>1, <2>2 DEF Sums, Unfolds
    <3>2. T \in SUBSET S /\ \A x \in T : f[x] = f[x]
      OBVIOUS
    <3> HIDE DEF T
    <3> QED
      BY <3>1, <3>2, SumsAgree
  <2>5. g[S] = f[b] + g[S \ {b}]
    BY <1>1, SumsAnyOrder
  <2> QED
    BY <1>2, <2>3, <2>4, <2>5
<1> QED
  BY <1>2, <1>3, <1>4

\* Totals depend on the members only.
LEMMA TotalSame ==
    ASSUME NEW S, IsFiniteSet(S), NEW f, NEW h, \A x \in S : f[x] \in Nat,
           \A x \in S : h[x] = f[x]
    PROVE  Total(h, S) = Total(f, S)
<1>1. PICK g : Sums(f, S, g)
  BY SumsExist
<1>2. PICK k : Sums(h, S, k)
  BY SumsExist
<1>3. Total(f, S) = g[S] /\ Total(h, S) = k[S]
  BY <1>1, <1>2, TotalIs
<1>4. Unfolds(h, S, k) /\ Unfolds(f, S, g)
  BY <1>1, <1>2 DEF Sums, Unfolds
<1>5. S \in SUBSET S /\ \A x \in S : h[x] = f[x]
  OBVIOUS
<1>6. k[S] = g[S]
  BY <1>4, <1>5, SumsAgree
<1> QED
  BY <1>3, <1>6

\* One more at a member is one more in total.
LEMMA TotalIncrement ==
    ASSUME NEW S, IsFiniteSet(S), NEW f, NEW h, \A x \in S : f[x] \in Nat, NEW b \in S,
           h[b] = f[b] + 1, \A x \in S \ {b} : h[x] = f[x]
    PROVE  Total(h, S) = Total(f, S) + 1
<1>1. IsFiniteSet(S \ {b}) /\ \A x \in S : h[x] \in Nat
  BY FS_Subset
<1>2. Total(h, S \ {b}) = Total(f, S \ {b})
  BY <1>1, TotalSame
<1>3. /\ Total(f, S) = f[b] + Total(f, S \ {b})
      /\ Total(h, S) = h[b] + Total(h, S \ {b})
  BY <1>1, TotalSplit
<1>4. Total(f, S \ {b}) \in Nat
  BY <1>1, TotalSplit
<1> QED
  BY <1>2, <1>3, <1>4

\* With the values at the members of A set to zero, the total is less by what
\* they had.
LEMMA TotalClear ==
    ASSUME NEW S, IsFiniteSet(S), NEW f, NEW h, \A x \in S : f[x] \in Nat, NEW A \in SUBSET S,
           \A x \in S : h[x] = IF x \in A THEN 0 ELSE f[x]
    PROVE  Total(h, S) = Total(f, S) - Total(f, A)
<1> DEFINE Holds(s) == Total(h, s) = Total(f, s) - Total(f, A \cap s)
           Bad == {s \in SUBSET S : ~Holds(s)}
           Sizes == {Cardinality(s) : s \in Bad}
<1> SUFFICES ASSUME Bad # {} PROVE FALSE
  <2>1. A \cap S = A
    OBVIOUS
  <2> QED
    BY <2>1
<1>1. \A s \in SUBSET S : /\ IsFiniteSet(s) /\ IsFiniteSet(A \cap s)
                          /\ Cardinality(s) \in Nat
                          /\ Total(f, s) \in Nat /\ Total(f, A \cap s) \in Nat
                          /\ Total(h, s) \in Nat
  <2> SUFFICES ASSUME NEW s \in SUBSET S
               PROVE  /\ IsFiniteSet(s) /\ IsFiniteSet(A \cap s)
                      /\ Cardinality(s) \in Nat
                      /\ Total(f, s) \in Nat /\ Total(f, A \cap s) \in Nat
                      /\ Total(h, s) \in Nat
    OBVIOUS
  <2>1. IsFiniteSet(s) /\ IsFiniteSet(A \cap s) /\ Cardinality(s) \in Nat
    BY FS_Subset, FS_CardinalityType
  <2> QED
    BY <2>1, TotalSplit
<1>2. PICK n \in Sizes : \A m \in Sizes : n <= m
  <2>1. Sizes \in SUBSET Nat /\ Sizes # {}
    BY <1>1
  <2> QED
    BY <2>1, LeastNatural
<1>3. PICK s \in Bad : n = Cardinality(s)
  BY <1>2
<1>4. \A t \in Bad : Cardinality(s) <= Cardinality(t)
  BY <1>2, <1>3
<1>5. s \in SUBSET S /\ ~Holds(s)
  BY <1>3
<1>6. s # {}
  <2> SUFFICES ASSUME s = {} PROVE Holds(s)
    BY <1>5
  <2>1. Total(h, s) = 0 /\ Total(f, s) = 0 /\ Total(f, A \cap s) = 0
    BY <1>1, <1>5, TotalSplit
  <2> QED
    BY <2>1
<1>7. PICK b \in s : TRUE
  BY <1>6
<1> DEFINE rest == s \ {b}
<1>8. /\ rest \in SUBSET S /\ Cardinality(rest) \in Nat
      /\ Cardinality(s) = Cardinality(rest) + 1
  <2> HIDE DEF Bad, Sizes, Holds
  <2>1. \A x \in s : /\ s \ {x} \in SUBSET S
                     /\ Cardinality(s \ {x}) \in Nat
                     /\ Cardinality(s) = Cardinality(s \ {x}) + 1
    BY <1>5, <1>6, RemovePicked
  <2> QED
    BY <2>1
<1>9. Holds(rest)
  <2>1. rest \notin Bad
    <3> HIDE DEF rest, Bad
    <3> QED
      BY <1>4, <1>8
  <2> QED
    BY <1>8, <2>1
<1>10. /\ Total(h, s) = h[b] + Total(h, rest)
       /\ Total(f, s) = f[b] + Total(f, rest)
  <2>1. IsFiniteSet(s) /\ \A x \in s : f[x] \in Nat /\ h[x] \in Nat
    BY <1>1, <1>5
  <2> QED
    BY <2>1, TotalSplit
<1>11. Total(f, A \cap s) = IF b \in A THEN f[b] + Total(f, A \cap rest) ELSE Total(f, A \cap rest)
  <2>1. CASE b \in A
    <3>1. (A \cap s) \ {b} = A \cap rest
      OBVIOUS
    <3>2. Total(f, A \cap s) = f[b] + Total(f, (A \cap s) \ {b})
      BY <1>1, <1>5, <2>1, TotalSplit
    <3> QED
      BY <2>1, <3>1, <3>2
  <2>2. CASE b \notin A
    <3>1. A \cap s = A \cap rest
      BY <2>2
    <3> QED
      BY <2>2, <3>1
  <2> QED
    BY <2>1, <2>2
<1>12. f[b] \in Nat /\ h[b] = IF b \in A THEN 0 ELSE f[b]
  BY <1>5
<1>13. Total(f, rest) \in Nat /\ Total(f, A \cap rest) \in Nat /\ Total(h, rest) \in Nat
  BY <1>1, <1>8
<1>14. Holds(s)
  <2> HIDE DEF rest
  <2> QED
    BY <1>9, <1>10, <1>11, <1>12, <1>13
<1> QED
  BY <1>5, <1>14

-----------------------------------------------------------------------------
(* Division, and the slices of Partition. *)

\* The quotient of a division, from above and below.
LEMMA DivFacts ==
    ASSUME NEW a \in Nat, NEW b \in Nat \ {0}
    PROVE  /\ a \div b \in Nat
           /\ b * (a \div b) <= a
           /\ a < b * (a \div b) + b
OBVIOUS

\* Multiplication is monotone.
LEMMA MulMono ==
    ASSUME NEW a \in Nat, NEW b \in Nat, NEW c \in Nat, a <= b
    PROVE  a * c <= b * c
OBVIOUS

LEMMA ModFacts ==
    ASSUME NEW a \in Nat, NEW b \in Nat \ {0}
    PROVE  a % b \in 0 .. (b - 1) /\ (a < b => a % b = a)
OBVIOUS

\* The slices of the evaluators, cut at the multiples of chunk, lie among the
\* producers.
LEMMA SliceInRange ==
    ASSUME NEW count \in Nat \ {0}, NEW total \in Nat, NEW w \in 0 .. (count - 1)
    PROVE  producers_for_evaluator(w, count, total) \subseteq 0 .. (total - 1)
<1> DEFINE chunk == total \div count
<1>1. chunk \in Nat /\ count * chunk <= total
  BY DivFacts
<1> HIDE DEF chunk
<1>2. w * chunk \in Nat /\ (w + 1) * chunk = w * chunk + chunk
  BY <1>1
<1>3. (w + 1) * chunk <= count * chunk
  BY <1>1, MulMono
<1>4. w * chunk + chunk <= total
  <2>1. count * chunk \in Nat
    BY <1>1
  <2> QED
    BY <1>1, <1>2, <1>3, <2>1
<1> QED
  BY <1>1, <1>2, <1>4 DEF producers_for_evaluator, chunk

\* Whatever an evaluator owns are producers.
LEMMA OwnedInRange ==
    ASSUME NEW count \in Nat \ {0}, NEW total \in Nat, NEW w \in 0 .. (count - 1),
           NEW bound, NEW nodes
    PROVE  owned_producers(w, bound, count, nodes, total) \subseteq 0 .. (total - 1)
BY SliceInRange DEF owned_producers

=============================================================================

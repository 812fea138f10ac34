---------------------------- MODULE CoMat_proofs ----------------------------
(***************************************************************************)
(* What CoMat::build gathers, for every corpus, window, vocabulary and     *)
(* limit of the list, and what CoMat::merge_files makes of files, for any  *)
(* number of them.                                                         *)
(*                                                                         *)
(* GatheredIsExpected speaks of the moments between two centers and is not *)
(* inductive.  The invariant adds what holds in the middle of a center:    *)
(* where the stream stands (Reading), that the window holds the words just *)
(* before the center (WindowInv), that frequent pairs are in the table     *)
(* only and later files are empty (Storage), and that the pairs up to the  *)
(* context word at k are counted (GatherInv).                              *)
(*                                                                         *)
(* OneEntryPerFile and WeightConserved speak of the moments before a pop.  *)
(* MergeInv adds which files are in the heap while it is filled (FillInv)  *)
(* and between a pop and the read behind it (OpenInv), Balanced where the  *)
(* weight is until the first pop.  The order of the heap plays no part.    *)
(*                                                                         *)
(* Weights are sums over finite sets.  An induction over a set is the      *)
(* search for a smallest counterexample, and a sum is the number of the    *)
(* grains that its weights consist of: so the facts on cardinalities apply.*)
(***************************************************************************)
EXTENDS CoMat, MergeFiles, SequenceTheorems, FiniteSetTheorems, WellFoundedInduction, TLAPS

(* The numbers below n. *)
LEMMA FirstNumbers ==
  ASSUME NEW n \in Nat
  PROVE  IsFiniteSet(0 .. n - 1) /\ Cardinality(0 .. n - 1) = n
<1>1. 0 \in Int /\ n - 1 \in Int
  OBVIOUS
<1>2. /\ IsFiniteSet(0 .. n - 1)
      /\ Cardinality(0 .. n - 1) = IF 0 > n - 1 THEN 0 ELSE (n - 1) - 0 + 1
  BY <1>1, FS_Interval
<1> QED
  BY <1>2

(* A set of numbers has a least element. *)
LEMMA Least ==
  ASSUME NEW S \in SUBSET Nat, S # {}
  PROVE \E n \in S : \A m \in S : n <= m
<1> DEFINE R == OpToRel(<, Nat)
<1>1. IsWellFoundedOn(R, Nat)
  BY NatLessThanWellFounded
<1>2. R = {p \in Nat \X Nat : p[1] < p[2]}
  BY DEF OpToRel
<1> HIDE DEF R
<1>3. PICK n \in S : \A m \in S : ~ (<<m, n>> \in R)
  BY <1>1, WFMin
<1>4. ASSUME NEW m \in S, m < n PROVE FALSE
  <2>1. <<m, n>> \in Nat \X Nat /\ <<m, n>>[1] < <<m, n>>[2]
    BY <1>4
  <2> QED
    BY <1>2, <1>3, <2>1
<1> QED
  BY <1>3, <1>4

(* What holds of the empty set, and of a set with one element more when it *)
(* holds of the set, holds of every finite set.                            *)
LEMMA SetInduction ==
  ASSUME NEW S, IsFiniteSet(S), NEW P, {} \in P,
         \A s \in SUBSET S : \A x \in S \ s : s \in P => s \cup {x} \in P
  PROVE  S \in P
<1> DEFINE Wrong == {s \in SUBSET S : s \notin P}
           Sizes == {Cardinality(s) : s \in Wrong}
<1>1. \A s \in SUBSET S : IsFiniteSet(s) /\ Cardinality(s) \in Nat
  BY FS_Subset, FS_CardinalityType
<1> SUFFICES ASSUME S \notin P PROVE FALSE
  OBVIOUS
<1>2. Sizes \in SUBSET Nat /\ Sizes # {}
  BY <1>1
<1> HIDE DEF Sizes
<1>3. PICK n \in Sizes : \A m \in Sizes : n <= m
  BY <1>2, Least
<1>4. PICK s \in Wrong : Cardinality(s) = n
  BY <1>3 DEF Sizes
<1>5. PICK x \in s : TRUE
  BY <1>4
<1>6. s \ {x} \in SUBSET S /\ Cardinality(s \ {x}) = n - 1 /\ n \in Nat
  BY <1>1, <1>4, <1>5, FS_RemoveElement
<1>7. s \ {x} \in P
  <2>1. s \ {x} \in Wrong => n - 1 \in Sizes
    BY <1>6 DEF Sizes
  <2>2. n - 1 \notin Sizes
    BY <1>3, <1>6
  <2> QED
    BY <1>6, <2>1, <2>2
<1>8. x \in S \ (s \ {x}) /\ (s \ {x}) \cup {x} = s
  BY <1>4, <1>5
<1> QED
  BY <1>4, <1>6, <1>7, <1>8

(* Sums over a finite set are cardinalities: the weight w[x] is that many  *)
(* grains of x.                                                            *)
Grains(w, S) == {p \in S \X Nat : p[2] < w[p[1]]}

LEMMA GrainsOfOne ==
  ASSUME NEW w, NEW x, w[x] \in Nat
  PROVE  IsFiniteSet(Grains(w, {x})) /\ Cardinality(Grains(w, {x})) = w[x]
<1> DEFINE n == w[x]
           f == [m \in 0 .. n - 1 |-> <<x, m>>]
<1>1. IsFiniteSet(0 .. n - 1) /\ Cardinality(0 .. n - 1) = n
  BY FirstNumbers
<1>2. Grains(w, {x}) = {<<x, m>> : m \in 0 .. n - 1}
  <2>1. ASSUME NEW p \in Grains(w, {x})
        PROVE  p[2] \in 0 .. n - 1 /\ p = <<x, p[2]>>
    BY <2>1 DEF Grains
  <2>2. ASSUME NEW m \in 0 .. n - 1
        PROVE  <<x, m>> \in Grains(w, {x})
    BY <2>2 DEF Grains
  <2> QED
    BY <2>1, <2>2
<1>3. f \in Surjection(0 .. n - 1, Grains(w, {x}))
  BY <1>2 DEF Surjection
<1>4. f \in Injection(0 .. n - 1, Grains(w, {x}))
  BY <1>2 DEF Injection, IsInjective
<1> HIDE DEF f, n
<1>5. ExistsBijection(0 .. n - 1, Grains(w, {x}))
  BY <1>3, <1>4 DEF ExistsBijection, Bijection
<1> QED
  BY <1>1, <1>5, FS_Bijection DEF n

LEMMA GrainsSplit ==
  ASSUME NEW w, NEW A, NEW B, A \cap B = {},
         IsFiniteSet(Grains(w, A)), IsFiniteSet(Grains(w, B))
  PROVE  /\ IsFiniteSet(Grains(w, A \cup B))
         /\ Cardinality(Grains(w, A \cup B)) = Cardinality(Grains(w, A)) + Cardinality(Grains(w, B))
<1>1. Grains(w, A \cup B) = Grains(w, A) \cup Grains(w, B)
  BY DEF Grains
<1>2. Grains(w, A) \cap Grains(w, B) = {}
  BY DEF Grains
<1>3. Cardinality({}) = 0
  BY FS_EmptySet
<1>4. Cardinality(Grains(w, A)) \in Nat /\ Cardinality(Grains(w, B)) \in Nat
  BY FS_CardinalityType
<1>5. /\ IsFiniteSet(Grains(w, A) \cup Grains(w, B))
      /\ Cardinality(Grains(w, A) \cup Grains(w, B)) =
           Cardinality(Grains(w, A)) + Cardinality(Grains(w, B)) - Cardinality(Grains(w, A) \cap Grains(w, B))
  BY FS_Union
<1> DEFINE a == Cardinality(Grains(w, A))
           b == Cardinality(Grains(w, B))
<1>6. Cardinality(Grains(w, A) \cup Grains(w, B)) = a + b - 0
  BY <1>2, <1>3, <1>5
<1>7. a + b - 0 = a + b
  <2> HIDE DEF a, b
  <2> SUFFICES ASSUME a \in Nat, b \in Nat PROVE a + b - 0 = a + b
    BY <1>4 DEF a, b
  <2> QED
    OBVIOUS
<1> QED
  BY <1>1, <1>5, <1>6, <1>7

LEMMA GrainsFinite ==
  ASSUME NEW S, IsFiniteSet(S), NEW w, \A x \in S : w[x] \in Nat
  PROVE  IsFiniteSet(Grains(w, S))
<1> DEFINE P == {s \in SUBSET S : IsFiniteSet(Grains(w, s))}
<1>1. {} \in P
  <2>1. Grains(w, {}) = {}
    BY DEF Grains
  <2> QED
    BY <2>1, FS_EmptySet
<1>2. ASSUME NEW s \in SUBSET S, NEW x \in S \ s, s \in P
      PROVE  s \cup {x} \in P
  BY <1>2, GrainsOfOne, GrainsSplit
<1> HIDE DEF P
<1>3. S \in P
  BY <1>1, <1>2, SetInduction
<1> QED
  BY <1>3 DEF P

LEMMA SumIsGrains ==
  ASSUME NEW S, IsFiniteSet(S), NEW w, \A x \in S : w[x] \in Nat
  PROVE  SumFunctionOnSet(w, S) = Cardinality(Grains(w, S))
<1> DEFINE Folds(f) == f = [s \in SUBSET S |->
                              IF s = {} THEN 0
                              ELSE w[CHOOSE x \in s : TRUE] + f[s \ {CHOOSE x \in s : TRUE}]]
           it == CHOOSE f : Folds(f)
           g  == [s \in SUBSET S |-> Cardinality(Grains(w, s))]
<1>1. SumFunctionOnSet(w, S) = it[S]
  BY DEF SumFunctionOnSet, FoldFunctionOnSet, MapThenFoldSet
<1>2. g[{}] = 0
  <2>1. Grains(w, {}) = {}
    BY DEF Grains
  <2> QED
    BY <2>1, FS_EmptySet
<1>3. ASSUME NEW s \in SUBSET S, NEW x \in s
      PROVE  g[s] = w[x] + g[s \ {x}]
  <2>1. IsFiniteSet(s \ {x}) /\ (s \ {x}) \cap {x} = {} /\ s = (s \ {x}) \cup {x}
    BY FS_Subset
  <2>2. IsFiniteSet(Grains(w, s \ {x}))
    BY <2>1, GrainsFinite
  <2>3. IsFiniteSet(Grains(w, {x})) /\ Cardinality(Grains(w, {x})) = w[x]
    BY GrainsOfOne
  <2>4. Cardinality(Grains(w, s \ {x})) \in Nat /\ w[x] \in Nat
    BY <2>2, FS_CardinalityType
  <2>5. Cardinality(Grains(w, s)) = Cardinality(Grains(w, s \ {x})) + w[x]
    BY <2>1, <2>2, <2>3, GrainsSplit
  <2> QED
    BY <2>4, <2>5
<1>4. DOMAIN g = SUBSET S /\ g = [s \in SUBSET S |-> g[s]]
  OBVIOUS
<1> HIDE DEF g
<1>5. Folds(g)
  <2>1. ASSUME NEW s \in SUBSET S, s # {}
        PROVE  g[s] = w[CHOOSE x \in s : TRUE] + g[s \ {CHOOSE x \in s : TRUE}]
    <3>1. (CHOOSE x \in s : TRUE) \in s
      BY <2>1
    <3> QED
      BY <1>3, <3>1
  <2> DEFINE h == [s \in SUBSET S |->
                              IF s = {} THEN 0
                              ELSE w[CHOOSE x \in s : TRUE] + g[s \ {CHOOSE x \in s : TRUE}]]
  <2>2. \A s \in SUBSET S : g[s] = h[s]
    BY <1>2, <2>1
  <2>3. h = [s \in SUBSET S |-> h[s]]
    OBVIOUS
  <2> HIDE DEF h
  <2>4. g = h
    BY <1>4, <2>2, <2>3, Zenon
  <2> QED
    BY <2>4 DEF h
<1>6. Folds(it)
  <2> HIDE DEF Folds
  <2> QED
    BY <1>5
<1> HIDE DEF it
<1> DEFINE P == {s \in SUBSET S : it[s] = g[s]}
<1>7. it[S] = g[S]
  <2> DEFINE Wrong == {s \in SUBSET S : it[s] # g[s]}
             Sizes == {Cardinality(u) : u \in Wrong}
  <2>1. \A u \in SUBSET S : IsFiniteSet(u) /\ Cardinality(u) \in Nat
    BY FS_Subset, FS_CardinalityType
  <2> SUFFICES ASSUME it[S] # g[S] PROVE FALSE
    OBVIOUS
  <2>2. Sizes \in SUBSET Nat /\ Sizes # {}
    BY <2>1
  <2> HIDE DEF Sizes
  <2>3. PICK n \in Sizes : \A m \in Sizes : n <= m
    BY <2>2, Least
  <2>4. PICK u \in Wrong : Cardinality(u) = n
    BY <2>3 DEF Sizes
  <2>5. u # {}
    BY <1>2, <1>6, <2>4
  <2> DEFINE x == CHOOSE x \in u : TRUE
  <2>6. x \in u /\ it[u] = w[x] + it[u \ {x}]
    BY <1>6, <2>4, <2>5
  <2> HIDE DEF x
  <2>7. u \ {x} \in SUBSET S /\ Cardinality(u \ {x}) = n - 1 /\ n \in Nat
    BY <2>1, <2>4, <2>6, FS_RemoveElement
  <2>8. it[u \ {x}] = g[u \ {x}]
    <3>1. u \ {x} \in Wrong => n - 1 \in Sizes
      BY <2>7 DEF Sizes
    <3>2. n - 1 \notin Sizes
      BY <2>3, <2>7
    <3> QED
      BY <2>7, <3>1, <3>2
  <2> QED
    BY <1>3, <2>4, <2>6, <2>8
<1> QED
  BY <1>1, <1>7 DEF g

(* What a sum over a finite set of natural numbers is, and does when the   *)
(* set is empty, a single element or two sets together.                    *)
LEMMA SumType ==
  ASSUME NEW S, IsFiniteSet(S), NEW w, \A x \in S : w[x] \in Nat
  PROVE  SumFunctionOnSet(w, S) \in Nat
BY SumIsGrains, GrainsFinite, FS_CardinalityType

LEMMA SumEmpty ==
  ASSUME NEW w
  PROVE  SumFunctionOnSet(w, {}) = 0
<1>1. Grains(w, {}) = {}
  BY DEF Grains
<1>2. IsFiniteSet({}) /\ Cardinality({}) = 0
  BY FS_EmptySet
<1> QED
  BY <1>1, <1>2, SumIsGrains

LEMMA SumOne ==
  ASSUME NEW w, NEW x, w[x] \in Nat
  PROVE  SumFunctionOnSet(w, {x}) = w[x]
<1>1. IsFiniteSet({x})
  BY FS_Singleton
<1> QED
  BY <1>1, SumIsGrains, GrainsOfOne

LEMMA SumSplit ==
  ASSUME NEW A, IsFiniteSet(A), NEW B, IsFiniteSet(B), A \cap B = {},
         NEW w, \A x \in A \cup B : w[x] \in Nat
  PROVE  SumFunctionOnSet(w, A \cup B) = SumFunctionOnSet(w, A) + SumFunctionOnSet(w, B)
<1>1. IsFiniteSet(Grains(w, A)) /\ IsFiniteSet(Grains(w, B))
  BY GrainsFinite
<1>2. IsFiniteSet(A \cup B)
  BY FS_Union
<1>3. /\ SumFunctionOnSet(w, A \cup B) = Cardinality(Grains(w, A \cup B))
      /\ SumFunctionOnSet(w, A) = Cardinality(Grains(w, A))
      /\ SumFunctionOnSet(w, B) = Cardinality(Grains(w, B))
  BY <1>2, SumIsGrains
<1> QED
  BY <1>1, <1>3, GrainsSplit

(* Elements of weight 0 may be left out. *)
LEMMA SumOfPart ==
  ASSUME NEW S, IsFiniteSet(S), NEW w, \A x \in S : w[x] \in Nat,
         NEW T \in SUBSET S
  PROVE  /\ SumFunctionOnSet(w, T) <= SumFunctionOnSet(w, S)
         /\ (\A x \in S \ T : w[x] = 0) => SumFunctionOnSet(w, T) = SumFunctionOnSet(w, S)
<1>1. IsFiniteSet(T) /\ IsFiniteSet(S \ T) /\ T \cup (S \ T) = S /\ T \cap (S \ T) = {}
  BY FS_Subset
<1>2. SumFunctionOnSet(w, S) = SumFunctionOnSet(w, T) + SumFunctionOnSet(w, S \ T)
  BY <1>1, SumSplit
<1>3. SumFunctionOnSet(w, T) \in Nat /\ SumFunctionOnSet(w, S \ T) \in Nat
  BY <1>1, SumType
<1>4. ASSUME \A x \in S \ T : w[x] = 0
      PROVE  SumFunctionOnSet(w, S \ T) = 0
  <2>1. Grains(w, S \ T) = {}
    BY <1>4 DEF Grains
  <2> QED
    BY <1>1, <2>1, SumIsGrains, FS_EmptySet
<1>5. SumFunctionOnSet(w, T) <= SumFunctionOnSet(w, S)
  BY <1>2, <1>3
<1> QED
  BY <1>2, <1>3, <1>4, <1>5

(* A sum depends on the weights only, and not on how elements are called.  *)
LEMMA SumRenamed ==
  ASSUME NEW S, IsFiniteSet(S), NEW w, \A x \in S : w[x] \in Nat,
         NEW T, NEW v, NEW b \in Bijection(S, T), \A x \in S : v[b[x]] = w[x]
  PROVE  SumFunctionOnSet(w, S) = SumFunctionOnSet(v, T)
<1>1. IsFiniteSet(T)
  BY FS_Bijection DEF ExistsBijection
<1>2. b \in [S -> T] /\ (\A x, y \in S : b[x] = b[y] => x = y) /\ \A t \in T : \E x \in S : b[x] = t
  BY DEF Bijection, Injection, Surjection, IsInjective
<1>3. \A t \in T : v[t] \in Nat
  BY <1>2
<1> DEFINE G == Grains(w, S)
           H == Grains(v, T)
           f == [g \in G |-> <<b[g[1]], g[2]>>]
<1>4. f \in [G -> H]
  BY <1>2 DEF Grains
<1>5. ASSUME NEW g \in G, NEW h \in G, f[g] = f[h]
      PROVE  g = h
  <2>1. g = <<g[1], g[2]>> /\ h = <<h[1], h[2]>> /\ g[1] \in S /\ h[1] \in S
    BY DEF Grains
  <2>2. b[g[1]] = b[h[1]] /\ g[2] = h[2]
    BY <1>5
  <2> QED
    BY <1>2, <2>1, <2>2
<1>6. ASSUME NEW h \in H
      PROVE  \E g \in G : f[g] = h
  <2>1. h = <<h[1], h[2]>> /\ h[1] \in T /\ h[2] \in Nat /\ h[2] < v[h[1]]
    BY DEF Grains
  <2>2. PICK x \in S : b[x] = h[1]
    BY <1>2, <2>1
  <2>3. <<x, h[2]>> \in G /\ f[<<x, h[2]>>] = h
    BY <2>1, <2>2 DEF Grains
  <2> QED
    BY <2>3
<1>7. f \in Bijection(G, H)
  <2> HIDE DEF f, G, H
  <2>1. DOMAIN f = G
    BY <1>4
  <2> QED
    BY <1>4, <1>5, <1>6, <2>1 DEF Bijection, Injection, Surjection, IsInjective
<1>8. IsFiniteSet(G)
  BY GrainsFinite
<1>9. Cardinality(G) = Cardinality(H)
  <2> HIDE DEF G, H
  <2> QED
    BY <1>7, <1>8, FS_Bijection DEF ExistsBijection
<1> QED
  BY <1>1, <1>3, <1>9, SumIsGrains

LEMMA SumSame ==
  ASSUME NEW S, IsFiniteSet(S), NEW w, NEW v, \A x \in S : w[x] \in Nat /\ v[x] = w[x]
  PROVE  SumFunctionOnSet(w, S) = SumFunctionOnSet(v, S)
<1>1. Grains(w, S) = Grains(v, S)
  BY DEF Grains
<1> QED
  BY <1>1, SumIsGrains

-----------------------------------------------------------------------------
(* Lists of records and their weights, cell by cell. *)
Records == [i : Nat, j : Nat, weight : Nat]

Cells(s, i, j) == {m \in DOMAIN s : s[m].i = i /\ s[m].j = j}

LEMMA CellsType ==
  ASSUME NEW s \in Seq(Records), NEW i, NEW j
  PROVE  /\ IsFiniteSet(DOMAIN s) /\ IsFiniteSet(Cells(s, i, j))
         /\ \A m \in DOMAIN s : [n \in DOMAIN s |-> s[n].weight][m] = s[m].weight /\ s[m].weight \in Nat
         /\ WeightOf(s, i, j) = SumFunctionOnSet([n \in DOMAIN s |-> s[n].weight], Cells(s, i, j))
<1>1. DOMAIN s = 1 .. Len(s) /\ Len(s) \in Nat
  OBVIOUS
<1>2. IsFiniteSet(DOMAIN s)
  BY <1>1, FS_Interval
<1>3. Cells(s, i, j) \in SUBSET DOMAIN s
  BY DEF Cells
<1>4. IsFiniteSet(Cells(s, i, j))
  BY <1>2, <1>3, FS_Subset
<1>5. ASSUME NEW m \in DOMAIN s
      PROVE  s[m].weight \in Nat
  <2>1. s[m] \in Records
    BY <1>1
  <2> QED
    BY <2>1 DEF Records
<1> QED
  BY <1>2, <1>4, <1>5 DEF WeightOf, Cells

LEMMA WeightType ==
  ASSUME NEW s \in Seq(Records), NEW i, NEW j
  PROVE  WeightOf(s, i, j) \in Nat
<1> DEFINE w == [n \in DOMAIN s |-> s[n].weight]
<1>1. /\ IsFiniteSet(Cells(s, i, j)) /\ \A m \in DOMAIN s : w[m] = s[m].weight /\ s[m].weight \in Nat
      /\ WeightOf(s, i, j) = SumFunctionOnSet(w, Cells(s, i, j))
  BY CellsType
<1>2. Cells(s, i, j) \subseteq DOMAIN s
  BY DEF Cells
<1> HIDE DEF w
<1>3. \A m \in Cells(s, i, j) : w[m] \in Nat
  BY <1>1, <1>2
<1>4. SumFunctionOnSet(w, Cells(s, i, j)) \in Nat
  BY <1>1, <1>3, SumType
<1> QED
  BY <1>1, <1>4

(* A list without a record of a cell has no weight in it. *)
LEMMA WeightOfNone ==
  ASSUME NEW s \in Seq(Records), NEW i, NEW j,
         \A m \in DOMAIN s : ~ (s[m].i = i /\ s[m].j = j)
  PROVE  WeightOf(s, i, j) = 0
<1>1. Cells(s, i, j) = {}
  BY DEF Cells
<1> DEFINE w == [n \in DOMAIN s |-> s[n].weight]
<1>2. WeightOf(s, i, j) = SumFunctionOnSet(w, Cells(s, i, j))
  BY CellsType
<1> HIDE DEF w
<1>3. SumFunctionOnSet(w, {}) = 0
  BY SumEmpty
<1> QED
  BY <1>1, <1>2, <1>3

LEMMA WeightOfEmpty ==
  ASSUME NEW i, NEW j
  PROVE  WeightOf(<< >>, i, j) = 0
<1> DEFINE e == << >>
<1>1. e \in Seq(Records) /\ DOMAIN e = {}
  OBVIOUS
<1> HIDE DEF e
<1>2. \A m \in DOMAIN e : ~ (e[m].i = i /\ e[m].j = j)
  BY <1>1
<1>3. WeightOf(e, i, j) = 0
  BY <1>1, <1>2, WeightOfNone
<1> QED
  BY <1>3 DEF e

LEMMA WeightOfOne ==
  ASSUME NEW s \in Seq(Records), NEW i, NEW j, NEW m \in DOMAIN s,
         \A n \in DOMAIN s : s[n].i = i /\ s[n].j = j <=> n = m
  PROVE  WeightOf(s, i, j) = s[m].weight
<1>1. Cells(s, i, j) = {m}
  BY DEF Cells
<1> DEFINE w == [n \in DOMAIN s |-> s[n].weight]
<1>2. /\ w[m] = s[m].weight /\ s[m].weight \in Nat
      /\ WeightOf(s, i, j) = SumFunctionOnSet(w, Cells(s, i, j))
  BY CellsType
<1> HIDE DEF w
<1>3. SumFunctionOnSet(w, {m}) = w[m]
  BY <1>2, SumOne
<1> QED
  BY <1>1, <1>2, <1>3

(* A record that is appended adds its weight to its cell. *)
LEMMA WeightOfAppend ==
  ASSUME NEW s \in Seq(Records), NEW r \in Records, NEW i, NEW j
  PROVE  /\ Append(s, r) \in Seq(Records)
         /\ WeightOf(Append(s, r), i, j) =
              WeightOf(s, i, j) + (IF r.i = i /\ r.j = j THEN r.weight ELSE 0)
<1> DEFINE t == Append(s, r)
           n == Len(s)
           w == [m \in DOMAIN t |-> t[m].weight]
           v == [m \in DOMAIN s |-> s[m].weight]
           last == IF r.i = i /\ r.j = j THEN {n + 1} ELSE {}
<1>1. /\ t \in Seq(Records) /\ DOMAIN t = 1 .. n + 1 /\ DOMAIN s = 1 .. n /\ n \in Nat
      /\ t[n + 1] = r /\ \A m \in 1 .. n : t[m] = s[m]
  OBVIOUS
<1>2. Cells(t, i, j) = Cells(s, i, j) \cup last
  BY <1>1 DEF Cells
<1>3. Cells(s, i, j) \cap last = {}
  BY <1>1 DEF Cells
<1>4. Cells(s, i, j) \subseteq 1 .. n
  BY <1>1 DEF Cells
<1>5. r.weight \in Nat
  BY DEF Records
<1>6. \A m \in 1 .. n + 1 : w[m] \in Nat
  BY <1>1, CellsType
<1>7. w[n + 1] = r.weight /\ \A m \in 1 .. n : w[m] = v[m]
  BY <1>1
<1>8. IsFiniteSet(Cells(s, i, j)) /\ IsFiniteSet(last)
  BY CellsType, FS_Singleton, FS_EmptySet
<1>9. \A m \in Cells(s, i, j) \cup last : w[m] \in Nat
  BY <1>4, <1>6, <1>1
<1>10. SumFunctionOnSet(w, last) = IF r.i = i /\ r.j = j THEN r.weight ELSE 0
  <2> HIDE DEF w
  <2> QED
    BY <1>5, <1>7, SumOne, SumEmpty
<1>11. SumFunctionOnSet(w, Cells(s, i, j)) = SumFunctionOnSet(v, Cells(s, i, j))
  <2>1. \A m \in Cells(s, i, j) : w[m] \in Nat /\ v[m] = w[m]
    BY <1>4, <1>6, <1>7, <1>1
  <2> HIDE DEF w, v
  <2> QED
    BY <1>8, <2>1, SumSame
<1>12. WeightOf(t, i, j) = SumFunctionOnSet(w, Cells(t, i, j))
  BY <1>1, CellsType
<1>13. WeightOf(s, i, j) = SumFunctionOnSet(v, Cells(s, i, j))
  BY CellsType
<1>14. SumFunctionOnSet(w, Cells(s, i, j) \cup last) =
         SumFunctionOnSet(w, Cells(s, i, j)) + SumFunctionOnSet(w, last)
  <2> HIDE DEF w, last
  <2> QED
    BY <1>3, <1>8, <1>9, SumSplit
<1> QED
  BY <1>1, <1>2, <1>10, <1>11, <1>12, <1>13, <1>14

(* A file whose beginning is overwritten has no more of a cell than what   *)
(* was written and what was there.                                         *)
Overwritten(s, t) == s \o SubSeq(t, Len(s) + 1, Len(t))

LEMMA OverwrittenPlaces ==
  ASSUME NEW s \in Seq(Records), NEW t \in Seq(Records)
  PROVE  /\ Overwritten(s, t) \in Seq(Records)
         /\ DOMAIN Overwritten(s, t) = DOMAIN s \cup (DOMAIN t \ DOMAIN s)
         /\ \A m \in DOMAIN s : Overwritten(s, t)[m] = s[m]
         /\ \A m \in DOMAIN t \ DOMAIN s : Overwritten(s, t)[m] = t[m]
<1> DEFINE u == SubSeq(t, Len(s) + 1, Len(t))
<1>1. Len(s) \in Nat /\ Len(t) \in Nat /\ DOMAIN s = 1 .. Len(s) /\ DOMAIN t = 1 .. Len(t)
  OBVIOUS
<1>2. /\ u \in Seq(Records)
      /\ Len(u) = IF Len(t) > Len(s) THEN Len(t) - Len(s) ELSE 0
      /\ \A m \in 1 .. Len(u) : u[m] = t[Len(s) + m]
  BY <1>1
<1> HIDE DEF u
<1>3. /\ s \o u \in Seq(Records)
      /\ Len(s \o u) = Len(s) + Len(u)
      /\ \A m \in 1 .. Len(s) + Len(u) :
           (s \o u)[m] = IF m <= Len(s) THEN s[m] ELSE u[m - Len(s)]
  <2>1. u \in Seq(Records)
    BY <1>2
  <2>2. s \o u \in Seq(Records) /\ Len(s \o u) = Len(s) + Len(u)
    BY <2>1
  <2>3. \A m \in 1 .. Len(s) + Len(u) : (s \o u)[m] = IF m <= Len(s) THEN s[m] ELSE u[m - Len(s)]
    BY <2>1
  <2> QED
    BY <2>2, <2>3
<1>4. DOMAIN (s \o u) = 1 .. Len(s) + Len(u)
  BY <1>3
<1>5. DOMAIN (s \o u) = DOMAIN s \cup (DOMAIN t \ DOMAIN s)
  <2> DEFINE a == Len(s)
             b == Len(t)
             c == Len(u)
  <2>1. a \in Nat /\ b \in Nat /\ c = IF b > a THEN b - a ELSE 0
    BY <1>1, <1>2
  <2>2. DOMAIN s = 1 .. a /\ DOMAIN t = 1 .. b /\ DOMAIN (s \o u) = 1 .. a + c
    BY <1>1, <1>4
  <2> HIDE DEF a, b, c
  <2>3. 1 .. a + c = (1 .. a) \cup ((1 .. b) \ (1 .. a))
    BY <2>1
  <2> QED
    BY <2>2, <2>3
<1>6. ASSUME NEW m \in DOMAIN s
      PROVE  (s \o u)[m] = s[m]
  <2>1. m \in 1 .. Len(s)
    BY <1>1
  <2>3. Len(u) \in Nat
    BY <1>2
  <2>2. m \in 1 .. Len(s) + Len(u) /\ m <= Len(s)
    BY <1>1, <2>1, <2>3
  <2> QED
    BY <1>3, <2>2
<1>7. ASSUME NEW m \in DOMAIN t \ DOMAIN s
      PROVE  (s \o u)[m] = t[m]
  <2>1. m \in Nat /\ Len(s) < m /\ m <= Len(t)
    BY <1>1
  <2>2. m - Len(s) \in 1 .. Len(u) /\ m \in 1 .. Len(s) + Len(u) /\ Len(s) + (m - Len(s)) = m
    <3> DEFINE a == Len(s)
               b == Len(t)
               c == Len(u)
    <3>1. a \in Nat /\ b \in Nat /\ c = (IF b > a THEN b - a ELSE 0) /\ m \in Nat /\ a < m /\ m <= b
      BY <1>1, <1>2, <2>1
    <3> HIDE DEF a, b, c
    <3>2. m - a \in 1 .. c /\ m \in 1 .. a + c /\ a + (m - a) = m
      BY <3>1
    <3> QED
      BY <3>2 DEF a, b, c
  <2>3. (s \o u)[m] = u[m - Len(s)]
    BY <1>1, <1>3, <2>1, <2>2
  <2>4. u[m - Len(s)] = t[Len(s) + (m - Len(s))]
    BY <1>2, <2>2
  <2> QED
    BY <2>2, <2>3, <2>4
<1> QED
  BY <1>3, <1>5, <1>6, <1>7 DEF Overwritten, u

LEMMA WeightOverwritten ==
  ASSUME NEW s \in Seq(Records), NEW t \in Seq(Records), NEW i, NEW j
  PROVE  /\ Overwritten(s, t) \in Seq(Records)
         /\ WeightOf(Overwritten(s, t), i, j) <= WeightOf(s, i, j) + WeightOf(t, i, j)
<1> DEFINE o == Overwritten(s, t)
           A == Cells(s, i, j)
           B == Cells(t, i, j) \ DOMAIN s
           w == [m \in DOMAIN o |-> o[m].weight]
           ws == [m \in DOMAIN s |-> s[m].weight]
           wt == [m \in DOMAIN t |-> t[m].weight]
<1>1. /\ o \in Seq(Records) /\ DOMAIN o = DOMAIN s \cup (DOMAIN t \ DOMAIN s)
      /\ \A m \in DOMAIN s : o[m] = s[m]
      /\ \A m \in DOMAIN t \ DOMAIN s : o[m] = t[m]
  <2> HIDE DEF w, ws, wt, A, B
  <2> QED
    BY OverwrittenPlaces, Zenon
<1> HIDE DEF o
<1>2. Cells(o, i, j) = A \cup B /\ A \cap B = {}
  BY <1>1 DEF Cells
<1>3. A \subseteq DOMAIN s /\ B \subseteq DOMAIN t /\ B \subseteq Cells(t, i, j) /\ B \cap DOMAIN s = {}
  BY DEF Cells
<1>4. IsFiniteSet(A) /\ IsFiniteSet(Cells(t, i, j)) /\ IsFiniteSet(B)
  BY <1>3, CellsType, FS_Subset
<1>5. \A m \in A : w[m] \in Nat /\ ws[m] = w[m]
  BY <1>1, <1>3, CellsType
<1>6. \A m \in B : w[m] \in Nat /\ wt[m] = w[m]
  BY <1>1, <1>3, CellsType
<1>7. \A m \in Cells(t, i, j) : wt[m] \in Nat
  BY CellsType DEF Cells
<1>8. /\ WeightOf(o, i, j) = SumFunctionOnSet(w, Cells(o, i, j))
      /\ WeightOf(s, i, j) = SumFunctionOnSet(ws, A)
      /\ WeightOf(t, i, j) = SumFunctionOnSet(wt, Cells(t, i, j))
  BY <1>1, CellsType
<1> HIDE DEF w, ws, wt, A, B
<1>9. SumFunctionOnSet(w, A \cup B) = SumFunctionOnSet(w, A) + SumFunctionOnSet(w, B)
  BY <1>2, <1>4, <1>5, <1>6, SumSplit
<1>10. SumFunctionOnSet(w, A) = SumFunctionOnSet(ws, A)
  BY <1>4, <1>5, SumSame
<1>11. SumFunctionOnSet(w, B) = SumFunctionOnSet(wt, B)
  BY <1>4, <1>6, SumSame
<1>12. SumFunctionOnSet(wt, B) <= SumFunctionOnSet(wt, Cells(t, i, j))
  BY <1>3, <1>4, <1>7, SumOfPart
<1>13. /\ SumFunctionOnSet(w, A) \in Nat /\ SumFunctionOnSet(w, B) \in Nat
       /\ SumFunctionOnSet(wt, Cells(t, i, j)) \in Nat
  BY <1>4, <1>5, <1>6, <1>7, SumType
<1>14. WeightOf(o, i, j) <= WeightOf(s, i, j) + WeightOf(t, i, j)
  BY <1>2, <1>8, <1>9, <1>10, <1>11, <1>12, <1>13
<1> QED
  BY <1>1, <1>14 DEF o

-----------------------------------------------------------------------------
(* Sorting a list and adding up the records of its greatest cell leaves    *)
(* every cell its weight.                                                  *)
LEMMA OrdersType ==
  ASSUME NEW s \in Seq(Records), NEW p \in Orders(s)
  PROVE  /\ p \in [DOMAIN s -> DOMAIN s]
         /\ \A m, n \in DOMAIN s : p[m] = p[n] => m = n
         /\ \A m \in DOMAIN s : \E n \in DOMAIN s : p[n] = m
         /\ \A m, n \in DOMAIN s : m < n => \/ Precedes(s[p[m]], s[p[n]])
                                            \/ SameCell(s[p[m]], s[p[n]])
BY DEF Orders, Bijection, Injection, Surjection, IsInjective

LEMMA ChunkParts ==
  ASSUME NEW s \in Seq(Records), s # << >>, NEW p \in Orders(s)
  PROVE  \E first \in DOMAIN s, r \in Records :
           /\ Chunk(s, p) = Append([n \in 1 .. first - 1 |-> s[p[n]]], r)
           /\ r.weight = WeightOf(s, r.i, r.j)
           /\ \A n \in DOMAIN s : SameCell(s[p[n]], r) <=> n >= first
<1> DEFINE N == Len(s)
           last == s[p[N]]
           F == {n \in DOMAIN s : SameCell(s[p[n]], last)}
           r == [last EXCEPT !.weight = WeightOf(s, last.i, last.j)]
<1>1. DOMAIN s = 1 .. N /\ N \in Nat \ {0} /\ N \in DOMAIN s
  OBVIOUS
<1>2. /\ \A n \in DOMAIN s : p[n] \in DOMAIN s /\ s[p[n]] \in Records
      /\ \A m, n \in DOMAIN s : m < n => \/ Precedes(s[p[m]], s[p[n]])
                                         \/ SameCell(s[p[m]], s[p[n]])
  <2>1. \A n \in DOMAIN s : p[n] \in DOMAIN s
    BY OrdersType
  <2>2. \A n \in DOMAIN s : s[p[n]] \in Records
    BY <2>1
  <2> QED
    BY <2>1, <2>2, OrdersType
<1>3. last \in Records
  BY <1>1, <1>2
<1> HIDE DEF last
<1>4. N \in F /\ F \in SUBSET Nat
  BY <1>1 DEF SameCell, last
<1>5. PICK first \in F : \A n \in F : first <= n
  BY <1>4, Least
<1>6. Min(F) = first
  BY <1>4, <1>5 DEF Min
<1>7. r \in Records /\ r.i = last.i /\ r.j = last.j /\ r.weight = WeightOf(s, last.i, last.j)
  BY <1>3, WeightType DEF Records
<1>8. Chunk(s, p) = Append([n \in 1 .. first - 1 |-> s[p[n]]], r)
  BY <1>6 DEF Chunk, last
<1>9. ASSUME NEW n \in DOMAIN s, n >= first
      PROVE  SameCell(s[p[n]], last)
  <2>1. CASE n = first
    BY <1>5, <2>1
  <2>2. CASE n = N
    BY <2>2 DEF last, SameCell
  <2>3. CASE first < n /\ n < N
    <3> DEFINE a == s[p[first]]
               b == s[p[n]]
    <3>1. first \in DOMAIN s /\ SameCell(a, last)
      BY <1>5
    <3>2. a \in Records /\ b \in Records
      BY <1>2, <3>1
    <3>3. Precedes(a, b) \/ SameCell(a, b)
      BY <1>2, <2>3, <3>1
    <3>4. Precedes(b, last) \/ SameCell(b, last)
      BY <1>1, <1>2, <2>3 DEF last
    <3> HIDE DEF a, b
    <3>5. SameCell(b, last)
      <4>1. /\ a.i \in Nat /\ a.j \in Nat /\ b.i \in Nat /\ b.j \in Nat
            /\ last.i \in Nat /\ last.j \in Nat
        BY <1>3, <3>2 DEF Records
      <4> QED
        BY <3>1, <3>3, <3>4, <4>1 DEF Precedes, SameCell
    <3> QED
      BY <3>5 DEF b
  <2>4. n \in Nat /\ first \in Nat /\ N \in Nat /\ n <= N
    BY <1>1, <1>4, <1>5
  <2> HIDE DEF N
  <2> QED
    BY <1>9, <2>1, <2>2, <2>3, <2>4
<1>10. ASSUME NEW n \in DOMAIN s, SameCell(s[p[n]], last)
       PROVE  n >= first
  BY <1>4, <1>5, <1>10
<1>11. \A n \in DOMAIN s : SameCell(s[p[n]], r) <=> n >= first
  BY <1>7, <1>9, <1>10 DEF SameCell
<1> QED
  BY <1>5, <1>7, <1>8, <1>11

LEMMA ChunkKeepsWeight ==
  ASSUME NEW s \in Seq(Records), NEW p \in Orders(s)
  PROVE  /\ Chunk(s, p) \in Seq(Records)
         /\ \A m \in DOMAIN Chunk(s, p) : \E n \in DOMAIN s : SameCell(Chunk(s, p)[m], s[n])
         /\ \A i, j \in Nat : WeightOf(Chunk(s, p), i, j) = WeightOf(s, i, j)
<1>1. CASE s = << >>
  BY <1>1 DEF Chunk
<1>2. CASE s # << >>
  <2>1. PICK first \in DOMAIN s, r \in Records :
           /\ Chunk(s, p) = Append([n \in 1 .. first - 1 |-> s[p[n]]], r)
           /\ r.weight = WeightOf(s, r.i, r.j)
           /\ \A n \in DOMAIN s : SameCell(s[p[n]], r) <=> n >= first
    BY <1>2, ChunkParts
  <2> DEFINE q == [n \in 1 .. first - 1 |-> s[p[n]]]
  <2>2. /\ p \in [DOMAIN s -> DOMAIN s]
        /\ \A m, n \in DOMAIN s : p[m] = p[n] => m = n
        /\ \A m \in DOMAIN s : \E n \in DOMAIN s : p[n] = m
    BY OrdersType
  <2>3. first \in Nat \ {0} /\ 1 .. first - 1 \subseteq DOMAIN s
    OBVIOUS
  <2>4. /\ \A n \in 1 .. first - 1 : q[n] = s[p[n]] /\ q[n] \in Records /\ ~ SameCell(s[p[n]], r)
        /\ DOMAIN q = 1 .. first - 1 /\ q \in Seq(Records)
    <3>1. \A n \in 1 .. first - 1 : s[p[n]] \in Records
      BY <2>2, <2>3
    <3>2. q \in [1 .. first - 1 -> Records]
      BY <3>1
    <3>3. first - 1 \in Nat
      BY <2>3
    <3>4. q \in Seq(Records)
      BY <3>2, <3>3
    <3>5. ASSUME NEW n \in 1 .. first - 1
          PROVE  ~ SameCell(s[p[n]], r)
      <4>1. n \in DOMAIN s /\ ~ (n >= first)
        BY <2>3
      <4> QED
        BY <2>1, <4>1
    <3> QED
      BY <3>1, <3>4, <3>5
  <2> HIDE DEF q
  <2>5. ASSUME NEW i \in Nat, NEW j \in Nat
        PROVE  WeightOf(Append(q, r), i, j) = WeightOf(s, i, j)
    <3>1. WeightOf(Append(q, r), i, j) =
            WeightOf(q, i, j) + (IF r.i = i /\ r.j = j THEN r.weight ELSE 0)
      BY <2>4, WeightOfAppend
    <3>2. CASE r.i = i /\ r.j = j
      <4>1. \A m \in DOMAIN q : ~ (q[m].i = i /\ q[m].j = j)
        BY <2>4, <3>2 DEF SameCell
      <4>2. WeightOf(q, i, j) = 0
        BY <2>4, <4>1, WeightOfNone
      <4>3. WeightOf(s, i, j) \in Nat
        BY WeightType
      <4> QED
        BY <2>1, <3>1, <3>2, <4>2, <4>3
    <3>3. CASE ~ (r.i = i /\ r.j = j)
      <4> DEFINE A == Cells(q, i, j)
                 B == Cells(s, i, j)
                 w == [n \in DOMAIN q |-> q[n].weight]
                 v == [n \in DOMAIN s |-> s[n].weight]
                 b == [n \in A |-> p[n]]
      <4>1. /\ IsFiniteSet(A) /\ A \subseteq 1 .. first - 1
            /\ \A n \in A : w[n] = q[n].weight /\ w[n] \in Nat
            /\ WeightOf(q, i, j) = SumFunctionOnSet(w, A)
        <5>1. IsFiniteSet(A) /\ WeightOf(q, i, j) = SumFunctionOnSet(w, A)
          BY <2>4, CellsType
        <5>2. \A n \in DOMAIN q : w[n] = q[n].weight /\ w[n] \in Nat
          BY <2>4, CellsType
        <5>3. A \subseteq 1 .. first - 1
          BY <2>4 DEF Cells
        <5> QED
          BY <2>4, <5>1, <5>2, <5>3
      <4>2. /\ \A n \in DOMAIN s : v[n] = s[n].weight
            /\ WeightOf(s, i, j) = SumFunctionOnSet(v, B)
        BY CellsType
      <4>3. ASSUME NEW n \in A
            PROVE  b[n] = p[n] /\ b[n] \in B /\ n \in DOMAIN s /\ v[b[n]] = w[n]
        <5>1. n \in 1 .. first - 1 /\ n \in DOMAIN s /\ p[n] \in DOMAIN s /\ q[n] = s[p[n]]
          BY <2>2, <2>3, <2>4, <4>1
        <5>2. p[n] \in B
          BY <4>3, <5>1 DEF Cells
        <5> QED
          BY <4>1, <4>2, <5>1, <5>2
      <4>4. ASSUME NEW t \in B
            PROVE  \E n \in A : b[n] = t
        <5>1. t \in DOMAIN s /\ s[t].i = i /\ s[t].j = j
          BY DEF Cells
        <5>2. PICK n \in DOMAIN s : p[n] = t
          BY <2>2, <5>1
        <5>3. ~ SameCell(s[p[n]], r)
          BY <3>3, <5>1, <5>2 DEF SameCell
        <5>4. n \in 1 .. first - 1
          BY <2>1, <2>3, <5>2, <5>3
        <5>5. n \in A
          BY <2>4, <5>1, <5>2, <5>4 DEF Cells
        <5> QED
          BY <5>2, <5>5
      <4>5. b \in Bijection(A, B)
        <5>1. b \in [A -> B]
          BY <4>3
        <5>2. \A m, n \in A : b[m] = b[n] => m = n
          BY <2>2, <4>3
        <5> HIDE DEF b, A, B
        <5> QED
          BY <4>4, <5>1, <5>2 DEF Bijection, Injection, Surjection, IsInjective
      <4> HIDE DEF A, B, b, w, v
      <4>6. SumFunctionOnSet(w, A) = SumFunctionOnSet(v, B)
        <5>1. IsFiniteSet(A) /\ \A n \in A : w[n] \in Nat
          BY <4>1
        <5>2. \A n \in A : v[b[n]] = w[n]
          BY <4>3
        <5> QED
          BY <4>5, <5>1, <5>2, SumRenamed
      <4>7. WeightOf(s, i, j) \in Nat
        BY WeightType
      <4> QED
        BY <3>1, <3>3, <4>1, <4>2, <4>6, <4>7
    <3> QED
      BY <3>2, <3>3
  <2>6. /\ Append(q, r) \in Seq(Records) /\ DOMAIN Append(q, r) = 1 .. first
        /\ Append(q, r)[first] = r /\ \A m \in 1 .. first - 1 : Append(q, r)[m] = q[m]
    <3>1. Len(q) = first - 1
      BY <2>3, <2>4
    <3> QED
      BY <2>3, <2>4, <3>1
  <2>7. ASSUME NEW m \in 1 .. first
        PROVE  \E n \in DOMAIN s : SameCell(Append(q, r)[m], s[n])
    <3>1. CASE m = first
      <4>1. SameCell(s[p[first]], r) /\ p[first] \in DOMAIN s
        BY <2>1, <2>2, <2>3
      <4> QED
        BY <2>6, <3>1, <4>1 DEF SameCell
    <3>2. CASE m # first
      <4>1. m \in 1 .. first - 1 /\ p[m] \in DOMAIN s
        BY <2>2, <2>3, <3>2
      <4> QED
        BY <2>4, <2>6, <4>1 DEF SameCell
    <3> QED
      BY <3>1, <3>2
  <2>8. Chunk(s, p) = Append(q, r)
    BY <2>1 DEF q
  <2> QED
    BY <2>5, <2>6, <2>7, <2>8
<1> QED
  BY <1>1, <1>2

-----------------------------------------------------------------------------
(* The files, as a whole. *)
Triples == [i : Ids, j : Ids, weight : Nat]

LEMMA TriplesAreRecords ==
  /\ Ids \subseteq Nat /\ IsFiniteSet(Fids)
  /\ \A s \in Seq(Triples) : s \in Seq(Records)
<1>1. Ids \subseteq Nat
  BY BuildAssumption DEF Ids
<1>2. IsFiniteSet(Fids)
  BY BuildAssumption, FS_Interval DEF Fids
<1>3. Triples \subseteq Records
  BY <1>1 DEF Triples, Records
<1> QED
  BY <1>1, <1>2, <1>3

Filed(fs, i, j) == SumFunction([f \in Fids |-> WeightOf(fs[f], i, j)])

(* With b in the place of d, c becomes a. *)
Exchanged(a, b, c, d) ==
  /\ a \in Nat /\ b \in Nat /\ c \in Nat /\ d \in Nat
  /\ a + b = c + d

LEMMA FileReplaced ==
  ASSUME NEW fs \in [Fids -> Seq(Records)], NEW gs \in [Fids -> Seq(Records)],
         NEW g \in Fids, \A f \in Fids \ {g} : gs[f] = fs[f], NEW i, NEW j
  PROVE  Exchanged(Filed(gs, i, j), WeightOf(fs[g], i, j),
                   Filed(fs, i, j), WeightOf(gs[g], i, j))
<1> DEFINE u == [f \in Fids |-> WeightOf(fs[f], i, j)]
           v == [f \in Fids |-> WeightOf(gs[f], i, j)]
           R == Fids \ {g}
<1>1. \A f \in R : gs[f] = fs[f]
  OBVIOUS
<1>2. /\ \A f \in Fids : u[f] \in Nat /\ v[f] \in Nat
      /\ u[g] = WeightOf(fs[g], i, j) /\ v[g] = WeightOf(gs[g], i, j)
      /\ \A f \in R : v[f] = u[f]
  <2>1. \A f \in Fids : WeightOf(fs[f], i, j) \in Nat /\ WeightOf(gs[f], i, j) \in Nat
    BY <1>1, WeightType
  <2> QED
    BY <1>1, <2>1
<1>3. DOMAIN u = Fids /\ DOMAIN v = Fids
  OBVIOUS
<1>4. Filed(fs, i, j) = SumFunctionOnSet(u, Fids) /\ Filed(gs, i, j) = SumFunctionOnSet(v, Fids)
  BY <1>3 DEF Filed, SumFunction
<1>5. /\ IsFiniteSet(Fids) /\ IsFiniteSet(R) /\ IsFiniteSet({g})
      /\ R \cap {g} = {} /\ R \cup {g} = Fids
  BY TriplesAreRecords, FS_Subset, FS_Singleton
<1> HIDE DEF u, v, R
<1>6. SumFunctionOnSet(u, R \cup {g}) = SumFunctionOnSet(u, R) + SumFunctionOnSet(u, {g})
  BY <1>2, <1>5, SumSplit
<1>7. SumFunctionOnSet(v, R \cup {g}) = SumFunctionOnSet(v, R) + SumFunctionOnSet(v, {g})
  BY <1>2, <1>5, SumSplit
<1>8. SumFunctionOnSet(u, {g}) = u[g] /\ SumFunctionOnSet(v, {g}) = v[g]
  BY <1>2, SumOne
<1>9. SumFunctionOnSet(u, R) = SumFunctionOnSet(v, R)
  <2>1. \A f \in R : u[f] \in Nat /\ v[f] = u[f]
    BY <1>2, <1>5
  <2> QED
    BY <1>5, <2>1, SumSame
<1>10. SumFunctionOnSet(u, R) \in Nat
  <2>1. \A f \in R : u[f] \in Nat
    BY <1>2, <1>5
  <2> QED
    BY <1>5, <2>1, SumType
<1>11. Filed(fs, i, j) = SumFunctionOnSet(u, R) + u[g] /\ Filed(gs, i, j) = SumFunctionOnSet(u, R) + v[g]
  BY <1>4, <1>5, <1>6, <1>7, <1>8, <1>9
<1>12. u[g] \in Nat /\ v[g] \in Nat
  BY <1>2
<1>13. /\ Filed(fs, i, j) \in Nat /\ Filed(gs, i, j) \in Nat
       /\ Filed(gs, i, j) + u[g] = Filed(fs, i, j) + v[g]
  BY <1>10, <1>11, <1>12
<1> QED
  BY <1>2, <1>12, <1>13 DEF Exchanged

(* Files without a record of a cell. *)
LEMMA FiledNone ==
  ASSUME NEW fs \in [Fids -> Seq(Records)], NEW i, NEW j,
         \A f \in Fids : WeightOf(fs[f], i, j) = 0
  PROVE  Filed(fs, i, j) = 0
<1> DEFINE u == [f \in Fids |-> WeightOf(fs[f], i, j)]
<1>1. \A f \in Fids : u[f] = 0
  OBVIOUS
<1>2. Filed(fs, i, j) = SumFunctionOnSet(u, Fids)
  BY DEF Filed, SumFunction
<1> HIDE DEF u
<1>3. SumFunctionOnSet(u, {}) = SumFunctionOnSet(u, Fids)
  <2>1. IsFiniteSet(Fids) /\ {} \in SUBSET Fids
    BY TriplesAreRecords
  <2>2. \A f \in Fids : u[f] \in Nat
    BY <1>1
  <2>3. \A f \in Fids \ {} : u[f] = 0
    BY <1>1
  <2> QED
    BY <2>1, <2>2, <2>3, SumOfPart
<1> QED
  BY <1>2, <1>3, SumEmpty

-----------------------------------------------------------------------------
(* The co-occurrences of the words cs as (i, j), up to the d-th word as a  *)
(* center, with those before the q-th as its context.                      *)
Cooc(cs, i, j, d, q) ==
  {p \in (2 .. d) \X (2 .. d) :
     /\ p[2] < p[1] /\ p[1] <= p[2] + Window
     /\ cs[p[1]] = i /\ cs[p[2]] = j
     /\ p[1] < d \/ p[2] < q}

Gap == [p \in Nat \X Nat |-> IF p[2] < p[1] THEN Unit \div (p[1] - p[2]) ELSE 0]

CoocWeight(cs, i, j, d, q) == SumFunctionOnSet(Gap, Cooc(cs, i, j, d, q))

LEMMA GapType == \A p \in Nat \X Nat : Gap[p] \in Nat
<1> SUFFICES ASSUME NEW a \in Nat, NEW b \in Nat
             PROVE  (IF b < a THEN Unit \div (a - b) ELSE 0) \in Nat
  BY DEF Gap
<1>1. ASSUME b < a PROVE Unit \div (a - b) \in Nat
  <2> DEFINE c == a - b
  <2>1. c \in Nat \ {0}
    BY <1>1
  <2> HIDE DEF c
  <2>2. Unit \div c \in Nat
    BY <2>1, BuildAssumption
  <2> QED
    BY <2>2 DEF c
<1> QED
  BY <1>1

LEMMA CoocFinite ==
  ASSUME NEW cs, NEW i, NEW j, NEW d \in Nat, NEW q
  PROVE  /\ Cooc(cs, i, j, d, q) \subseteq Nat \X Nat
         /\ IsFiniteSet(Cooc(cs, i, j, d, q))
<1>1. IsFiniteSet((2 .. d) \X (2 .. d))
  <2>1. IsFiniteSet(2 .. d)
    BY FS_Interval
  <2> QED
    BY <2>1, FS_Product
<1>2. Cooc(cs, i, j, d, q) \in SUBSET ((2 .. d) \X (2 .. d))
  BY DEF Cooc
<1> QED
  BY <1>1, <1>2, FS_Subset

LEMMA ExpectedIsCooc ==
  ASSUME Done \in Nat, NEW i, NEW j
  PROVE  Expected(i, j) = CoocWeight(Centers, i, j, Done, Done)
<1> DEFINE S == Occurrences(i, j)
           w == [p \in S |-> Unit \div (p[1] - p[2])]
<1>1. S = Cooc(Centers, i, j, Done, Done)
  BY DEF Occurrences, Cooc
<1>2. IsFiniteSet(S) /\ S \subseteq Nat \X Nat
  BY <1>1, CoocFinite
<1>3. \A p \in S : w[p] = Gap[p]
  <2> SUFFICES ASSUME NEW p \in S PROVE w[p] = Gap[p]
    OBVIOUS
  <2>1. p \in Nat \X Nat /\ p[2] < p[1]
    BY <1>2 DEF Occurrences
  <2> QED
    BY <2>1 DEF Gap
<1>4. Expected(i, j) = SumFunctionOnSet(w, S)
  <2>1. DOMAIN w = S
    OBVIOUS
  <2> QED
    BY <2>1 DEF Expected, SumFunction
<1> HIDE DEF w, S
<1>5. \A p \in S : w[p] \in Nat /\ Gap[p] = w[p]
  BY <1>2, <1>3, GapType
<1> QED
  BY <1>1, <1>2, <1>4, <1>5, SumSame DEF CoocWeight

(* One context word more. *)
LEMMA CoocNext ==
  ASSUME NEW cs, NEW i, NEW j, NEW d \in Nat, NEW q \in 1 .. d - 1, d <= q + Window
  PROVE  /\ CoocWeight(cs, i, j, d, q) \in Nat
         /\ CoocWeight(cs, i, j, d, q + 1) =
              CoocWeight(cs, i, j, d, q) +
                (IF q >= 2 /\ cs[d] = i /\ cs[q] = j THEN Unit \div (d - q) ELSE 0)
<1> DEFINE A == Cooc(cs, i, j, d, q)
           B == IF q >= 2 /\ cs[d] = i /\ cs[q] = j THEN {<<d, q>>} ELSE {}
<1>1. q \in Nat /\ q < d /\ Window \in Nat
  BY BuildAssumption
<1>2. Cooc(cs, i, j, d, q + 1) = A \cup B
  <2>1. ASSUME NEW p \in Cooc(cs, i, j, d, q + 1), p \notin A
        PROVE  p \in B
    <3>1. /\ p = <<p[1], p[2]>> /\ p[1] \in 2 .. d /\ p[2] \in 2 .. d
          /\ p[2] < p[1] /\ p[1] <= p[2] + Window
          /\ cs[p[1]] = i /\ cs[p[2]] = j /\ (p[1] < d \/ p[2] < q + 1)
      BY <2>1 DEF Cooc
    <3>2. ~ (p[1] < d \/ p[2] < q)
      BY <2>1, <3>1 DEF Cooc
    <3>3. p[1] = d /\ p[2] = q
      BY <1>1, <3>1, <3>2
    <3> QED
      BY <3>1, <3>3
  <2>2. A \subseteq Cooc(cs, i, j, d, q + 1)
    BY <1>1 DEF Cooc
  <2>3. ASSUME q >= 2, cs[d] = i, cs[q] = j
        PROVE  <<d, q>> \in Cooc(cs, i, j, d, q + 1)
    BY <1>1, <2>3 DEF Cooc
  <2> HIDE DEF A
  <2> QED
    BY <2>1, <2>2, <2>3
<1>3. A \cap B = {}
  BY <1>1 DEF Cooc
<1>4. IsFiniteSet(A) /\ IsFiniteSet(B) /\ A \subseteq Nat \X Nat /\ B \subseteq Nat \X Nat
  <2>1. IsFiniteSet(A) /\ A \subseteq Nat \X Nat
    BY CoocFinite
  <2>2. IsFiniteSet({<<d, q>>}) /\ IsFiniteSet({})
    BY FS_Singleton, FS_EmptySet
  <2>3. IsFiniteSet(B)
    BY <2>2
  <2>4. B \subseteq Nat \X Nat
    BY <1>1
  <2> QED
    BY <2>1, <2>3, <2>4
<1>5. SumFunctionOnSet(Gap, B) = IF q >= 2 /\ cs[d] = i /\ cs[q] = j THEN Unit \div (d - q) ELSE 0
  <2>1. <<d, q>> \in Nat \X Nat /\ Gap[<<d, q>>] = Unit \div (d - q)
    BY <1>1 DEF Gap
  <2>2. SumFunctionOnSet(Gap, {<<d, q>>}) = Unit \div (d - q)
    BY <2>1, GapType, SumOne
  <2>3. SumFunctionOnSet(Gap, {}) = 0
    BY SumEmpty
  <2> QED
    BY <2>2, <2>3
<1> HIDE DEF A, B
<1>6. \A p \in A \cup B : Gap[p] \in Nat
  BY <1>4, GapType
<1>7. SumFunctionOnSet(Gap, A \cup B) = SumFunctionOnSet(Gap, A) + SumFunctionOnSet(Gap, B)
  BY <1>3, <1>4, <1>6, SumSplit
<1>8. SumFunctionOnSet(Gap, A) \in Nat
  BY <1>4, <1>6, SumType
<1> QED
  BY <1>2, <1>5, <1>7, <1>8 DEF CoocWeight, A

(* Nothing is counted of a center before the first word of its window: it  *)
(* is the first of all, or more than Window away.                          *)
LEMMA CoocNewCenter ==
  ASSUME NEW cs, NEW i, NEW j, NEW d \in Nat, NEW q \in Nat,
         q <= 1 \/ d + 1 >= q + Window
  PROVE  CoocWeight(cs, i, j, d + 1, q) = CoocWeight(cs, i, j, d, d)
<1>1. Window \in Nat
  BY BuildAssumption
<1>2. ASSUME NEW p \in Cooc(cs, i, j, d + 1, q)
      PROVE  p \in Cooc(cs, i, j, d, d)
  <2>1. /\ p = <<p[1], p[2]>> /\ p[1] \in 2 .. d + 1 /\ p[2] \in 2 .. d + 1
        /\ p[2] < p[1] /\ p[1] <= p[2] + Window
        /\ cs[p[1]] = i /\ cs[p[2]] = j /\ (p[1] < d + 1 \/ p[2] < q)
    BY DEF Cooc
  <2>2. p[1] < d + 1
    BY <1>1, <2>1
  <2>3. p[1] \in 2 .. d /\ p[2] \in 2 .. d /\ p[2] < d
    BY <2>1, <2>2
  <2> QED
    BY <2>1, <2>3 DEF Cooc
<1>3. ASSUME NEW p \in Cooc(cs, i, j, d, d)
      PROVE  p \in Cooc(cs, i, j, d + 1, q)
  <2>1. /\ p = <<p[1], p[2]>> /\ p[1] \in 2 .. d /\ p[2] \in 2 .. d
        /\ p[2] < p[1] /\ p[1] <= p[2] + Window
        /\ cs[p[1]] = i /\ cs[p[2]] = j
    BY DEF Cooc
  <2>2. p[1] \in 2 .. d + 1 /\ p[2] \in 2 .. d + 1 /\ p[1] < d + 1
    BY <2>1
  <2> QED
    BY <2>1, <2>2 DEF Cooc
<1>4. Cooc(cs, i, j, d + 1, q) = Cooc(cs, i, j, d, d)
  BY <1>2, <1>3
<1> QED
  BY <1>4 DEF CoocWeight

(* A center that is no word adds nothing. *)
LEMMA CoocNoCenter ==
  ASSUME NEW cs, NEW i, NEW j, NEW d \in Nat, NEW q, cs[d] # i
  PROVE  CoocWeight(cs, i, j, d, q) = CoocWeight(cs, i, j, d, d)
<1>1. Cooc(cs, i, j, d, q) = Cooc(cs, i, j, d, d)
  BY DEF Cooc
<1> QED
  BY <1>1 DEF CoocWeight

-----------------------------------------------------------------------------
(* The inductive invariant. *)

(* The stream, and the word that was read from it last. *)
Reading ==
  LET n == Len(corpus.words)
  IN  /\ next >= 2
      /\ ~ eof => next - 1 <= n /\ (next - 1 = n => corpus.trail)
      /\ next = 2 => center = Empty
      /\ next > 2 => next - 1 <= n /\ center = corpus.words[next - 1]
      /\ pc = "pairs" =>
           /\ Done \in 2 .. Len(Centers)
           /\ center = Centers[Done]
           /\ exists = (center # Oov)
           /\ exists => id = center

(* The entry of the window for the word at place q. *)
Holds(e, cs, q) ==
  /\ e.flag = (q >= 2 /\ cs[q] # Oov)
  /\ e.flag => e.id = cs[q]

Least2(a, b) == IF a <= b THEN a ELSE b

(* The window holds the words before the center. *)
Windowed(d) ==
  /\ Len(win) = Least2(Window, d)
  /\ \A m \in 1 .. Len(win) : Holds(win[m], Centers, d - Len(win) + m)

WindowInv ==
  /\ pc = "pairs" => Windowed(Done - 1) /\ k \in 1 .. Len(win) + 1
  /\ pc = "head" /\ ~ eof => Windowed(Done)

NoHigh(s) == \A m \in DOMAIN s : ~ IsHigh(s[m].i, s[m].j)

(* Which pairs are where, and which files are still empty. *)
Storage ==
  /\ counts \in [Ids \X Ids -> Nat]
  /\ \A i, j \in Ids : ~ IsHigh(i, j) => counts[<<i, j>>] = 0
  /\ NoHigh(low)
  /\ pc # "built" => \A f \in Fids : NoHigh(files[f])
  /\ pc \in {"head", "pairs"} => \A f \in Fids : f >= fid => files[f] = << >>
  /\ pc = "pairs" => Len(low) <= OverflowLength - 1 + (k - 1)

(* What was gathered. *)
GatherInv ==
  /\ pc = "pairs" => \A i, j \in Ids :
       Gathered(i, j) = CoocWeight(Centers, i, j, Done, Done - 1 - Len(win) + k)
  /\ pc = "head" => \A i, j \in Ids : Gathered(i, j) = Expected(i, j)
  /\ pc = "rest" => \A i, j \in Ids :
       IF IsHigh(i, j) THEN counts[<<i, j>>] = Expected(i, j)
                       ELSE InFiles(i, j) <= Expected(i, j)
  /\ FilesFaithful

IInv == TypeOK /\ Reading /\ WindowInv /\ Storage /\ GatherInv

LEMMA CentersAre ==
  ASSUME corpus \in Corpora
  PROVE  LET n == Len(corpus.words)
         IN  /\ n \in Nat /\ corpus.trail \in BOOLEAN
             /\ corpus.words \in Seq(Ids \cup {Oov})
             /\ Centers \in Seq(Ids \cup {Oov})
             /\ Len(Centers) = IF corpus.trail /\ n >= 2 THEN n + 1 ELSE n
             /\ \A m \in 1 .. n : Centers[m] = corpus.words[m]
             /\ corpus.trail /\ n >= 2 => Centers[n + 1] = corpus.words[n]
<1> DEFINE n == Len(corpus.words)
           W == Ids \cup {Oov}
<1>1. corpus.words \in Seq(W) /\ corpus.trail \in BOOLEAN
  BY BuildAssumption
<1> HIDE DEF W
<1>2. n \in Nat
  BY <1>1
<1>3. CASE ~ (corpus.trail /\ n >= 2)
  <2>1. Centers = corpus.words
    BY <1>3 DEF Centers
  <2> QED
    BY <1>1, <1>2, <1>3, <2>1 DEF W
<1>4. CASE corpus.trail /\ n >= 2
  <2>1. Centers = Append(corpus.words, corpus.words[n])
    BY <1>4 DEF Centers
  <2>2. corpus.words[n] \in W
    BY <1>1, <1>2, <1>4
  <2>3. /\ Centers \in Seq(W) /\ Len(Centers) = n + 1
        /\ \A m \in 1 .. n : Centers[m] = corpus.words[m]
        /\ Centers[n + 1] = corpus.words[n]
    BY <1>1, <2>1, <2>2
  <2> QED
    BY <1>1, <1>2, <1>4, <2>3 DEF W
<1> QED
  BY <1>3, <1>4

LEMMA DoneIs ==
  ASSUME TypeOK, Reading
  PROVE  /\ Done \in Nat
         /\ ~ eof => Done = next - 1 /\ Done >= 1
<1>1. corpus \in Corpora /\ next \in Nat /\ next >= 2
  BY DEF TypeOK, Reading
<1>2. Len(Centers) \in Nat
  BY <1>1, CentersAre
<1> QED
  BY <1>1, <1>2 DEF Done

LEMMA SameText ==
  ASSUME text' = text
  PROVE  /\ corpus' = corpus /\ next' = next /\ eof' = eof
         /\ Done' = Done /\ Centers' = Centers
         /\ \A i, j \in Ids : Expected(i, j)' = Expected(i, j)
<1>1. corpus' = corpus /\ next' = next /\ eof' = eof
  BY DEF text
<1>2. Centers' = Centers
  BY <1>1 DEF Centers
<1>3. Done' = Done
  BY <1>1, <1>2 DEF Done
<1>4. ASSUME NEW i \in Ids, NEW j \in Ids
      PROVE  Expected(i, j)' = Expected(i, j)
  <2>1. Occurrences(i, j)' = Occurrences(i, j)
    BY <1>2, <1>3 DEF Occurrences
  <2> QED
    BY <2>1 DEF Expected
<1> QED
  BY <1>1, <1>2, <1>3, <1>4

LEMMA ChunkOfTriples ==
  ASSUME NEW s \in Seq(Triples), NEW p \in Orders(s)
  PROVE  /\ Chunk(s, p) \in Seq(Triples)
         /\ NoHigh(s) => NoHigh(Chunk(s, p))
         /\ \A i, j \in Ids : WeightOf(Chunk(s, p), i, j) = WeightOf(s, i, j)
<1> DEFINE c == Chunk(s, p)
<1>1. s \in Seq(Records) /\ Ids \subseteq Nat
  BY TriplesAreRecords
<1>2. /\ c \in Seq(Records)
      /\ \A m \in DOMAIN c : \E n \in DOMAIN s : SameCell(c[m], s[n])
      /\ \A i, j \in Nat : WeightOf(c, i, j) = WeightOf(s, i, j)
  BY <1>1, ChunkKeepsWeight
<1> HIDE DEF c
<1>3. ASSUME NEW m \in DOMAIN c
      PROVE  c[m] \in Triples /\ (NoHigh(s) => ~ IsHigh(c[m].i, c[m].j))
  <2>1. PICK n \in DOMAIN s : SameCell(c[m], s[n])
    BY <1>2
  <2>2. s[n] \in Triples
    OBVIOUS
  <2>3. c[m] \in Records
    BY <1>2
  <2>4. c[m].i = s[n].i /\ c[m].j = s[n].j
    BY <2>1 DEF SameCell
  <2>5. c[m] \in Triples
    BY <2>2, <2>3, <2>4 DEF Triples, Records
  <2>6. NoHigh(s) => ~ IsHigh(s[n].i, s[n].j)
    BY DEF NoHigh
  <2> QED
    BY <2>4, <2>5, <2>6
<1>4. c \in Seq(Triples)
  <2>1. DOMAIN c = 1 .. Len(c) /\ Len(c) \in Nat /\ c = [m \in 1 .. Len(c) |-> c[m]]
    BY <1>2
  <2>2. c \in [1 .. Len(c) -> Triples]
    BY <1>3, <2>1
  <2> QED
    BY <2>1, <2>2
<1> QED
  BY <1>1, <1>2, <1>3, <1>4 DEF c, NoHigh

-----------------------------------------------------------------------------
LEMMA InitIInv == Init => IInv
<1> SUFFICES ASSUME Init PROVE IInv
  OBVIOUS
<1>1. /\ corpus \in Corpora /\ next = 2 /\ eof = AtEof(1) /\ center = Empty /\ id = 0
      /\ exists = FALSE /\ win = <<[id |-> 0, flag |-> FALSE]>> /\ k = 1 /\ low = << >>
      /\ lowCount = 0 /\ fid = 0 /\ files = [f \in Fids |-> << >>] /\ pc = "head"
      /\ counts = [p \in Ids \X Ids |-> 0]
  BY DEF Init, Pairs!Init, Pairs!Ids, Ids
<1> DEFINE n == Len(corpus.words)
<1>2. /\ n \in Nat /\ corpus.trail \in BOOLEAN
      /\ Len(Centers) = IF corpus.trail /\ n >= 2 THEN n + 1 ELSE n
  BY <1>1, CentersAre
<1>3. 0 \in Fids /\ eof \in BOOLEAN
  BY <1>1, BuildAssumption DEF Fids, AtEof
<1>4. TypeOK
  <2>1. win \in Seq([id : Ids \cup {0}, flag : BOOLEAN])
    BY <1>1
  <2>2. files \in [Fids -> Seq([i : Ids, j : Ids, weight : Nat])] /\ low \in Seq([i : Ids, j : Ids, weight : Nat])
    BY <1>1
  <2>3. Len(low) = 0 /\ 0 <= OverflowLength - 1 + Window
    BY <1>1, BuildAssumption
  <2> QED
    BY <1>1, <1>3, <2>1, <2>2, <2>3 DEF TypeOK
<1>5. Reading
  BY <1>1, <1>2 DEF Reading, AtEof
<1>6. ~ eof => n >= 1 /\ Done = 1
  BY <1>1, <1>2 DEF AtEof, Done
<1>7. WindowInv
  <2>1. ASSUME ~ eof PROVE Windowed(Done)
    <3>1. Len(win) = 1 /\ win[1].flag = FALSE /\ Done = 1
      BY <1>1, <1>6, <2>1
    <3>2. Least2(Window, 1) = 1
      BY BuildAssumption DEF Least2
    <3>3. \A m \in 1 .. Len(win) : m = 1 /\ Done - Len(win) + m = 1
      BY <3>1
    <3>4. \A m \in 1 .. Len(win) : Holds(win[m], Centers, Done - Len(win) + m)
      <4> SUFFICES ASSUME NEW m \in 1 .. Len(win)
                   PROVE  Holds(win[m], Centers, Done - Len(win) + m)
        OBVIOUS
      <4>1. m = 1 /\ Done - Len(win) + m = 1
        BY <3>3
      <4>2. Holds(win[1], Centers, 1)
        <5>1. ~ (1 >= 2) /\ win[1].flag = FALSE
          BY <3>1
        <5> QED
          BY <5>1, Zenon DEF Holds
      <4> QED
        BY <4>1, <4>2
    <3> QED
      BY <3>1, <3>2, <3>4 DEF Windowed
  <2> QED
    BY <1>1, <2>1 DEF WindowInv
<1>8. \A i, j \in Ids : WeightOf(<< >>, i, j) = 0
  BY WeightOfEmpty
<1>9. Storage
  BY <1>1 DEF Storage, NoHigh
<1>10. ASSUME NEW i \in Ids, NEW j \in Ids
       PROVE  Gathered(i, j) = Expected(i, j)
  <2>1. files \in [Fids -> Seq(Records)] /\ \A f \in Fids : WeightOf(files[f], i, j) = 0
    BY <1>1, <1>8
  <2>2. InFiles(i, j) = 0
    BY <2>1, FiledNone DEF Filed, InFiles
  <2>3. Gathered(i, j) = 0
    BY <1>1, <1>8, <2>2 DEF Gathered
  <2>4. Done \in 0 .. 1
    BY <1>1, <1>2 DEF AtEof, Done
  <2>5. Cooc(Centers, i, j, Done, Done) = {}
    BY <2>4 DEF Cooc
  <2>6. Expected(i, j) = 0
    BY <2>4, <2>5, ExpectedIsCooc, SumEmpty DEF CoocWeight
  <2> QED
    BY <2>3, <2>6
<1>11. GatherInv
  BY <1>1, <1>10 DEF GatherInv, FilesFaithful
<1> QED
  BY <1>4, <1>5, <1>7, <1>9, <1>11 DEF IInv

(* write_chunk, within the loop: the list becomes a file. *)
LEMMA FlushChunkStep == IInv /\ FlushChunk => IInv'
<1> SUFFICES ASSUME IInv, FlushChunk PROVE IInv'
  OBVIOUS
<1>1. PICK p \in Orders(low) : files' = [files EXCEPT ![fid] = Chunk(low, p)]
  BY DEF FlushChunk
<1>2. /\ pc = "head" /\ ~ eof /\ fid < MaxFid /\ low' = << >> /\ lowCount' = 0 /\ fid' = fid + 1
      /\ text' = text /\ word' = word /\ win' = win /\ k' = k /\ table' = table /\ pc' = pc
  BY DEF FlushChunk
<1>3. /\ corpus' = corpus /\ next' = next /\ eof' = eof /\ Done' = Done /\ Centers' = Centers
      /\ \A i, j \in Ids : Expected(i, j)' = Expected(i, j)
      /\ center' = center /\ id' = id /\ exists' = exists /\ counts' = counts
  BY <1>2, SameText DEF word, table
<1>4. TypeOK /\ Reading /\ WindowInv /\ Storage /\ GatherInv
  BY DEF IInv
<1>5. /\ low \in Seq(Triples) /\ files \in [Fids -> Seq(Triples)] /\ fid \in Fids
      /\ fid + 1 \in Fids /\ \A f \in Fids : f \in Nat
  <2>1. low \in Seq(Triples) /\ files \in [Fids -> Seq(Triples)] /\ fid \in Fids
    BY <1>4 DEF TypeOK, Triples
  <2>2. MaxFid \in Nat
    BY BuildAssumption
  <2> QED
    BY <1>2, <2>1, <2>2 DEF Fids
<1> DEFINE c == Chunk(low, p)
<1>6. c \in Seq(Triples) /\ NoHigh(c) /\ \A i, j \in Ids : WeightOf(c, i, j) = WeightOf(low, i, j)
  BY <1>4, <1>5, ChunkOfTriples DEF Storage
<1> HIDE DEF c
<1>7. files' = [files EXCEPT ![fid] = c]
  BY <1>1 DEF c
<1>8. TypeOK'
  <2>1. files' \in [Fids -> Seq(Triples)] /\ low' \in Seq(Triples)
    BY <1>2, <1>5, <1>6, <1>7
  <2>2. Len(low') = 0 /\ 0 <= OverflowLength - 1 + Window
    BY <1>2, BuildAssumption
  <2> QED
    BY <1>2, <1>3, <1>4, <1>5, <2>1, <2>2 DEF TypeOK, Triples
<1>9. Reading'
  BY <1>2, <1>3, <1>4 DEF Reading
<1>10. WindowInv'
  BY <1>2, <1>3, <1>4 DEF WindowInv, Windowed
<1>11. Storage'
  <2>1. NoHigh(low')
    BY <1>2 DEF NoHigh
  <2>2. \A f \in Fids : NoHigh(files'[f])
    BY <1>2, <1>4, <1>5, <1>6, <1>7 DEF Storage
  <2>3. \A f \in Fids : f >= fid' => files'[f] = << >>
    BY <1>2, <1>4, <1>5, <1>7 DEF Storage
  <2> QED
    BY <1>2, <1>3, <1>4, <2>1, <2>2, <2>3 DEF Storage
<1>12. ASSUME NEW i \in Ids, NEW j \in Ids
       PROVE  Gathered(i, j)' = Expected(i, j)'
  <2>1. files \in [Fids -> Seq(Records)] /\ c \in Seq(Records) /\ files[fid] = << >>
    BY <1>2, <1>4, <1>5, <1>6, TriplesAreRecords DEF Storage, Fids
  <2>2. WeightOf(<< >>, i, j) = 0
    BY WeightOfEmpty
  <2>3. /\ Filed(files, i, j) \in Nat /\ Filed(files', i, j) \in Nat
        /\ Filed(files', i, j) + 0 = Filed(files, i, j) + WeightOf(low, i, j)
    <3> DEFINE fs == files
               gs == files'
    <3>1. /\ fs \in [Fids -> Seq(Records)] /\ gs \in [Fids -> Seq(Records)] /\ fid \in Fids
          /\ gs[fid] = c /\ \A f \in Fids \ {fid} : gs[f] = fs[f]
      BY <1>5, <1>7, <2>1
    <3> HIDE DEF fs, gs
    <3>2. Exchanged(Filed(gs, i, j), WeightOf(fs[fid], i, j),
                    Filed(fs, i, j), WeightOf(gs[fid], i, j))
      BY <3>1, FileReplaced
    <3> QED
      BY <1>6, <2>1, <2>2, <3>1, <3>2 DEF fs, gs, Exchanged
  <2>4. WeightOf(low, i, j) \in Nat /\ counts[<<i, j>>] \in Nat
    BY <1>4, <1>5, TriplesAreRecords, WeightType DEF Storage
  <2>5. Gathered(i, j) = counts[<<i, j>>] + WeightOf(low, i, j) + Filed(files, i, j)
    BY DEF Gathered, InFiles, Filed
  <2>6. Gathered(i, j)' = counts[<<i, j>>] + WeightOf(<< >>, i, j) + Filed(files', i, j)
    BY <1>2, <1>3 DEF Gathered, InFiles, Filed
  <2>7. Gathered(i, j) = Expected(i, j)
    BY <1>2, <1>4 DEF GatherInv
  <2>8. Gathered(i, j)' = Gathered(i, j)
    BY <2>2, <2>3, <2>4, <2>5, <2>6
  <2> QED
    BY <1>3, <2>7, <2>8
<1>13. GatherInv'
  BY <1>2, <1>12 DEF GatherInv, FilesFaithful
<1> QED
  BY <1>8, <1>9, <1>10, <1>11, <1>13 DEF IInv

(* The word that is read: the next one, the last one again when white      *)
(* space follows it, or none when that is all there is.                    *)
LEMMA ReadCases ==
  ASSUME IInv, ReadCenter
  PROVE  /\ corpus' = corpus /\ Centers' = Centers /\ next' \in Nat
         /\ eof' \in BOOLEAN /\ center' \in Ids \cup {Oov, Empty}
         /\ \/ center' = Empty /\ eof' /\ Done' = Done /\ next' = next
            \/ /\ center' # Empty /\ Done' = Done + 1 /\ Done >= 1
               /\ Done' \in 2 .. Len(Centers) /\ center' = Centers[Done']
               /\ next' > 2 /\ next' - 1 <= Len(corpus.words)
               /\ center' = corpus.words[next' - 1]
               /\ ~ eof' => (next' - 1 = Len(corpus.words) => corpus.trail)
<1> DEFINE n == Len(corpus.words)
<1>1. TypeOK /\ Reading
  BY DEF IInv
<1>2. pc = "head" /\ ~ eof /\ corpus' = corpus /\ eof' = AtEof(next)
  BY DEF ReadCenter
<1>3. Centers' = Centers
  BY <1>2 DEF Centers
<1>4. /\ n \in Nat /\ corpus.trail \in BOOLEAN
      /\ corpus.words \in Seq(Ids \cup {Oov})
      /\ Len(Centers) = IF corpus.trail /\ n >= 2 THEN n + 1 ELSE n
      /\ \A m \in 1 .. n : Centers[m] = corpus.words[m]
      /\ corpus.trail /\ n >= 2 => Centers[n + 1] = corpus.words[n]
  BY <1>1, CentersAre DEF TypeOK
<1>5. /\ next \in Nat /\ next >= 2 /\ next - 1 <= n /\ (next - 1 = n => corpus.trail)
      /\ next = 2 => center = Empty
      /\ next > 2 => next - 1 <= n /\ center = corpus.words[next - 1]
      /\ Done = next - 1
  BY <1>1, <1>2, DoneIs DEF TypeOK, Reading
<1>6. Empty \notin Ids \cup {Oov}
  BY BuildAssumption
<1>7. eof' \in BOOLEAN /\ (eof' <=> next > n \/ (next = n /\ ~ corpus.trail))
  BY <1>2, <1>4 DEF AtEof
<1>8. Done' = IF eof' THEN Len(Centers) ELSE next' - 1
  BY <1>3 DEF Done
<1>9. CASE next <= n
  <2>1. center' = corpus.words[next] /\ next' = next + 1
    BY <1>9 DEF ReadCenter
  <2>2. center' \in Ids \cup {Oov}
    BY <1>4, <1>5, <1>9, <2>1
  <2>3. center' # Empty
    BY <1>6, <2>2
  <2>4. Done' = next
    BY <1>4, <1>5, <1>7, <1>8, <1>9, <2>1
  <2>5. next \in 1 .. n /\ Centers[next] = corpus.words[next]
    BY <1>4, <1>5, <1>9
  <2>6. next' - 1 = next /\ next' \in Nat
    BY <1>5, <2>1
  <2>7. next \in 2 .. Len(Centers) /\ next = Done + 1
    BY <1>4, <1>5, <1>9
  <2>8. ~ eof' => (next = n => corpus.trail)
    BY <1>4, <1>5, <1>7, <1>9
  <2>9. next' > 2 /\ Done >= 1
    BY <1>5, <2>1
  <2> HIDE DEF n
  <2> QED
    BY <1>2, <1>3, <1>7, <1>9, <2>1, <2>2, <2>3, <2>4, <2>5, <2>6, <2>7, <2>8, <2>9 DEF n
<1>10. CASE next > n
  <2>1. center' = center /\ next' = next
    BY <1>4, <1>5, <1>10 DEF ReadCenter
  <2>2. next - 1 = n /\ corpus.trail /\ eof'
    BY <1>4, <1>5, <1>7, <1>10
  <2>3. Done' = Len(Centers)
    BY <1>8, <2>2
  <2>4. CASE next = 2
    <3>1. n = 1 /\ center' = Empty /\ Len(Centers) = 1 /\ Done = 1
      BY <1>4, <1>5, <2>1, <2>2, <2>4
    <3> QED
      BY <1>2, <1>3, <1>5, <1>7, <2>1, <2>2, <2>3, <3>1
  <2>5. CASE next > 2
    <3>1. n >= 2 /\ center' = corpus.words[n] /\ Len(Centers) = n + 1 /\ Done = n
      BY <1>4, <1>5, <2>1, <2>2, <2>5
    <3>2. corpus.words[n] \in Ids \cup {Oov}
      BY <1>4, <3>1
    <3>3. Centers[n + 1] = corpus.words[n]
      BY <1>4, <2>2, <3>1
    <3>4. n + 1 \in 2 .. n + 1 /\ next = n + 1 /\ next > 2 /\ n + 1 - 1 = n /\ n <= n
      BY <1>4, <1>5, <2>2, <3>1
    <3> HIDE DEF n
    <3> QED
      BY <1>2, <1>3, <1>5, <1>6, <1>7, <2>1, <2>2, <2>3, <3>1, <3>2, <3>3, <3>4 DEF n
  <2> QED
    BY <1>5, <2>4, <2>5
<1> QED
  BY <1>4, <1>5, <1>9, <1>10

LEMMA ReadCenterStep == IInv /\ ReadCenter => IInv'
<1> SUFFICES ASSUME IInv, ReadCenter PROVE IInv'
  OBVIOUS
<1>1. TypeOK /\ Reading /\ WindowInv /\ Storage /\ GatherInv
  BY DEF IInv
<1>2. /\ pc = "head" /\ ~ eof /\ lowCount < OverflowLength
      /\ win' = win /\ low' = low /\ lowCount' = lowCount /\ fid' = fid
      /\ files' = files /\ counts' = counts
  BY DEF ReadCenter, table
<1>3. /\ corpus' = corpus /\ Centers' = Centers /\ next' \in Nat
      /\ eof' \in BOOLEAN /\ center' \in Ids \cup {Oov, Empty}
  BY ReadCases
<1>4. Done \in Nat /\ Done >= 1 /\ Windowed(Done)
  BY <1>1, <1>2, DoneIs DEF WindowInv
<1>5. Len(low) < OverflowLength /\ Len(low) \in Nat /\ lowCount = Len(low)
  BY <1>1, <1>2 DEF TypeOK
<1>6. /\ \A i, j \in Ids : Gathered(i, j) = Expected(i, j)
      /\ \A i, j \in Ids : Gathered(i, j)' = Gathered(i, j)
  <2>1. \A i, j \in Ids : InFiles(i, j)' = InFiles(i, j)
    BY <1>2 DEF InFiles
  <2> QED
    BY <1>1, <1>2, <2>1 DEF GatherInv, Gathered
<1>7. CASE center' = Empty
  <2>1. eof' /\ Done' = Done /\ next' = next
    BY <1>7, ReadCases
  <2>2. id' = id /\ exists' = exists /\ k' = k /\ pc' = pc
    BY <1>7 DEF ReadCenter
  <2>3. TypeOK'
    BY <1>1, <1>2, <1>3, <2>1, <2>2 DEF TypeOK
  <2>4. center' = center
    BY <1>1, <1>3, <1>7, BuildAssumption, CentersAre, <2>1 DEF ReadCenter, TypeOK
  <2>5. Reading'
    BY <1>1, <1>2, <1>3, <2>1, <2>2, <2>4 DEF Reading
  <2>6. WindowInv'
    BY <1>2, <2>1, <2>2 DEF WindowInv
  <2>7. Storage'
    BY <1>1, <1>2, <2>2 DEF Storage
  <2>8. ASSUME NEW i \in Ids, NEW j \in Ids
        PROVE  Expected(i, j)' = Expected(i, j)
    <3>1. Occurrences(i, j)' = Occurrences(i, j)
      BY <1>3, <2>1 DEF Occurrences
    <3> QED
      BY <3>1 DEF Expected
  <2>9. GatherInv'
    BY <1>2, <1>6, <2>2, <2>8 DEF GatherInv, FilesFaithful
  <2> QED
    BY <2>3, <2>5, <2>6, <2>7, <2>9 DEF IInv
<1>8. CASE center' # Empty
  <2>1. /\ Done' = Done + 1 /\ Done >= 1
        /\ Done' \in 2 .. Len(Centers) /\ center' = Centers[Done']
        /\ next' > 2 /\ next' - 1 <= Len(corpus.words)
        /\ center' = corpus.words[next' - 1]
        /\ ~ eof' => (next' - 1 = Len(corpus.words) => corpus.trail)
    BY <1>8, ReadCases
  <2>2. exists' = (center' # Oov) /\ id' = Lookup(center') /\ k' = 1 /\ pc' = "pairs"
    BY <1>8 DEF ReadCenter
  <2>3. id' \in Ids \cup {0} /\ (exists' => id' = center') /\ exists' \in BOOLEAN
    BY <1>1, <1>3, <1>8, <2>2 DEF Lookup, TypeOK
  <2>4. TypeOK'
    BY <1>1, <1>2, <1>3, <2>2, <2>3 DEF TypeOK
  <2>5. Reading'
    BY <1>2, <1>3, <2>1, <2>2, <2>3 DEF Reading
  <2>6. WindowInv'
    <3>1. Done' - 1 = Done
      BY <1>4, <2>1
    <3>2. Windowed(Done - 1)'
      BY <1>2, <1>3, <1>4, <3>1 DEF Windowed
    <3>3. 1 \in 1 .. Len(win) + 1
      BY <1>1 DEF TypeOK
    <3> QED
      BY <1>2, <2>2, <3>2, <3>3 DEF WindowInv
  <2>7. Storage'
    <3>1. Len(low) <= OverflowLength - 1 + (1 - 1)
      BY <1>5, BuildAssumption
    <3> QED
      BY <1>1, <1>2, <2>2, <3>1 DEF Storage
  <2>8. ASSUME NEW i \in Ids, NEW j \in Ids
        PROVE  Gathered(i, j)' = CoocWeight(Centers, i, j, Done + 1, Done + 1 - 1 - Len(win) + 1)
    <3> DEFINE q == Done + 1 - 1 - Len(win) + 1
    <3>1. Len(win) = Least2(Window, Done) /\ Window \in Nat \ {0}
      BY <1>4, BuildAssumption DEF Windowed
    <3>2. q \in Nat /\ (q <= 1 \/ Done + 1 >= q + Window)
      BY <1>4, <3>1 DEF Least2
    <3> HIDE DEF q
    <3>3. CoocWeight(Centers, i, j, Done + 1, q) = CoocWeight(Centers, i, j, Done, Done)
      BY <1>4, <3>2, CoocNewCenter
    <3>4. Expected(i, j) = CoocWeight(Centers, i, j, Done, Done)
      BY <1>4, ExpectedIsCooc
    <3> QED
      BY <1>6, <3>3, <3>4 DEF q
  <2>9. GatherInv'
    <3>1. ASSUME NEW i \in Ids, NEW j \in Ids
          PROVE  Gathered(i, j)' = CoocWeight(Centers', i, j, Done', Done' - 1 - Len(win') + k')
      <4>1. Done' - 1 - Len(win') + k' = Done + 1 - 1 - Len(win) + 1
        <5>1. Len(win') = Len(win) /\ Done' = Done + 1 /\ k' = 1
          BY <1>2, <2>1, <2>2
        <5>2. Len(win) \in Nat /\ Done \in Nat
          BY <1>1, <1>4 DEF TypeOK
        <5> QED
          BY <5>1, <5>2
      <4> QED
        BY <1>3, <2>1, <2>8, <4>1
    <3> QED
      BY <2>2, <3>1 DEF GatherInv, FilesFaithful
  <2> QED
    BY <2>4, <2>5, <2>6, <2>7, <2>9 DEF IInv
<1> QED
  BY <1>7, <1>8

(* One context word: its pair, if it is one, goes to the table or the list.*)
LEMMA PairContextStep == IInv /\ PairContext => IInv'
<1> SUFFICES ASSUME IInv, PairContext PROVE IInv'
  OBVIOUS
<1> DEFINE w == Weight(Len(win), k)
           q == Done - 1 - Len(win) + k
           d == Done
           e == win[k]
<1>1. TypeOK /\ Reading /\ WindowInv /\ Storage /\ GatherInv
  BY DEF IInv
<1>2. /\ pc = "pairs" /\ exists /\ k <= Len(win) /\ k' = k + 1 /\ text' = text /\ word' = word
      /\ win' = win /\ fid' = fid /\ files' = files /\ pc' = pc
  BY DEF PairContext
<1>3. /\ corpus' = corpus /\ next' = next /\ eof' = eof /\ Done' = Done /\ Centers' = Centers
      /\ center' = center /\ id' = id /\ exists' = exists
  BY <1>2, SameText DEF word
<1>4. /\ Len(win) \in Nat /\ k \in 1 .. Len(win) /\ Len(win) = Least2(Window, d - 1)
      /\ d \in Nat /\ d >= 2 /\ Window \in Nat
      /\ Holds(e, Centers, d - 1 - Len(win) + k)
  <2>1. Len(win) \in Nat /\ k \in Nat /\ Windowed(Done - 1) /\ k \in 1 .. Len(win) + 1 /\ Window \in Nat
    BY <1>1, <1>2, BuildAssumption DEF WindowInv, TypeOK
  <2>2. k \in 1 .. Len(win)
    BY <1>2, <2>1
  <2>3. Done \in Nat /\ Done >= 2
    BY <1>1, <1>2, DoneIs DEF Reading
  <2> QED
    BY <2>1, <2>2, <2>3 DEF Windowed
<1>5. q \in 1 .. d - 1 /\ d <= q + Window /\ d - q = Len(win) - k + 1
  BY <1>4 DEF Least2
<1>6. /\ id = Centers[d] /\ id \in Ids
      /\ e.flag = (q >= 2 /\ Centers[q] # Oov) /\ (e.flag => e.id = Centers[q])
  <2>1. /\ center = Centers[Done] /\ exists = (center # Oov) /\ (exists => id = center)
        /\ Done \in 2 .. Len(Centers)
    BY <1>1, <1>2 DEF Reading
  <2>2. Centers \in Seq(Ids \cup {Oov})
    BY <1>1, CentersAre DEF TypeOK
  <2>3. Centers[Done] \in Ids \cup {Oov}
    BY <2>1, <2>2
  <2> QED
    BY <1>2, <1>4, <2>1, <2>3 DEF Holds
<1>7. Centers[q] \in Ids \cup {Oov}
  <2>1. Done \in 2 .. Len(Centers) /\ Centers \in Seq(Ids \cup {Oov})
    BY <1>1, <1>2, CentersAre DEF Reading, TypeOK
  <2>2. q \in 1 .. Len(Centers)
    BY <1>5, <2>1
  <2> HIDE DEF q
  <2> QED
    BY <2>1, <2>2
<1>8. w \in Nat /\ w = Unit \div (d - q)
  <2> DEFINE c == d - q
  <2>1. c \in Nat \ {0} /\ c = Len(win) - k + 1
    BY <1>4, <1>5
  <2> HIDE DEF c
  <2>2. Unit \div c \in Nat
    BY <2>1, BuildAssumption
  <2> QED
    BY <2>1, <2>2 DEF c, Weight
<1>9. ASSUME NEW i \in Ids, NEW j \in Ids
      PROVE  /\ CoocWeight(Centers, i, j, d, q) \in Nat
             /\ CoocWeight(Centers, i, j, d, q + 1) =
                  CoocWeight(Centers, i, j, d, q) +
                    (IF e.flag /\ i = id /\ j = e.id THEN w ELSE 0)
  <2>1. /\ CoocWeight(Centers, i, j, d, q) \in Nat
        /\ CoocWeight(Centers, i, j, d, q + 1) =
              CoocWeight(Centers, i, j, d, q) +
                (IF q >= 2 /\ Centers[d] = i /\ Centers[q] = j THEN Unit \div (d - q) ELSE 0)
    <3> HIDE DEF d, q
    <3> QED
      BY <1>4, <1>5, CoocNext
  <2>2. e.flag /\ i = id /\ j = e.id <=> q >= 2 /\ Centers[d] = i /\ Centers[q] = j
    BY <1>6, BuildAssumption
  <2> QED
    BY <1>8, <2>1, <2>2
<1>10. /\ low \in Seq(Triples) /\ Len(low) \in Nat /\ lowCount = Len(low)
       /\ Len(low) <= OverflowLength - 1 + (k - 1)
       /\ counts \in [Ids \X Ids -> Nat] /\ lowCount \in Nat
       /\ \A i, j \in Ids : ~ IsHigh(i, j) => counts[<<i, j>>] = 0
  BY <1>1, <1>2 DEF TypeOK, Storage, Triples
<1>11. e.flag => e.id \in Ids
  BY <1>6, <1>7
<1> HIDE DEF w, q, d, e
<1> DEFINE Grown(i, j) == IF e.flag /\ i = id /\ j = e.id THEN w ELSE 0
<1>12. /\ low' \in Seq(Triples) /\ lowCount' = Len(low') /\ Len(low') <= Len(low) + 1
       /\ lowCount' \in Nat /\ NoHigh(low')
       /\ counts' \in [Ids \X Ids -> Nat]
       /\ \A i, j \in Ids : ~ IsHigh(i, j) => counts'[<<i, j>>] = 0
       /\ \A i, j \in Ids : counts'[<<i, j>>] + WeightOf(low', i, j) =
                              counts[<<i, j>>] + WeightOf(low, i, j) + Grown(i, j)
  <2>1. \A i, j \in Ids : WeightOf(low, i, j) \in Nat /\ counts[<<i, j>>] \in Nat
    BY <1>10, TriplesAreRecords, WeightType
  <2>2. NoHigh(low)
    BY <1>1 DEF Storage
  <2>3. CASE ~ e.flag
    <3>1. low' = low /\ lowCount' = lowCount /\ counts' = counts
      BY <2>3 DEF PairContext, table, e
    <3> QED
      BY <1>10, <2>1, <2>2, <2>3, <3>1
  <2>4. CASE e.flag /\ IsHigh(id, e.id)
    <3>1. Pairs!Add(id, e.id, w) /\ low' = low /\ lowCount' = lowCount
      BY <2>4 DEF PairContext, e, w
    <3>2. counts' = [counts EXCEPT ![<<id, e.id>>] = @ + w]
      BY <3>1 DEF Pairs!Add
    <3>3. <<id, e.id>> \in Ids \X Ids
      BY <1>6, <1>11, <2>4
    <3>4. counts[<<id, e.id>>] + w \in Nat
      BY <1>8, <1>10, <3>3
    <3>5. counts' \in [Ids \X Ids -> Nat]
      BY <1>10, <3>2, <3>4
    <3>6. ASSUME NEW i \in Ids, NEW j \in Ids
          PROVE  counts'[<<i, j>>] = counts[<<i, j>>] + Grown(i, j)
      <4>1. CASE i = id /\ j = e.id
        BY <1>10, <2>4, <3>2, <3>3, <4>1
      <4>2. CASE ~ (i = id /\ j = e.id)
        <5>1. <<i, j>> # <<id, e.id>>
          BY <4>2
        <5>2. counts'[<<i, j>>] = counts[<<i, j>>]
          BY <1>10, <3>2, <5>1
        <5> QED
          BY <2>1, <4>2, <5>2
      <4> QED
        BY <4>1, <4>2
    <3>7. \A i, j \in Ids : ~ IsHigh(i, j) => counts'[<<i, j>>] = 0
      BY <1>10, <2>1, <2>4, <3>6
    <3>8. ASSUME NEW i \in Ids, NEW j \in Ids
          PROVE  counts'[<<i, j>>] + WeightOf(low', i, j) =
                   counts[<<i, j>>] + WeightOf(low, i, j) + Grown(i, j)
      <4> DEFINE a == counts[<<i, j>>]
                 b == WeightOf(low, i, j)
                 c == Grown(i, j)
      <4>1. a \in Nat /\ b \in Nat /\ c \in Nat /\ counts'[<<i, j>>] = a + c /\ WeightOf(low', i, j) = b
        BY <1>8, <2>1, <3>1, <3>6
      <4> HIDE DEF a, b, c
      <4>2. a + c + b = a + b + c
        BY <4>1
      <4> QED
        BY <4>1, <4>2 DEF a, b, c
    <3> QED
      BY <1>10, <2>2, <3>1, <3>5, <3>7, <3>8
  <2>5. CASE e.flag /\ ~ IsHigh(id, e.id)
    <3> DEFINE r == Rec(id, e.id, w)
    <3>1. low' = Append(low, r) /\ lowCount' = lowCount + 1 /\ counts' = counts
      BY <2>5 DEF PairContext, table, e, w
    <3>2. r \in Triples /\ r.i = id /\ r.j = e.id /\ r.weight = w
      BY <1>6, <1>8, <1>11, <2>5 DEF Rec, Triples
    <3>3. r \in Records /\ low \in Seq(Records)
      BY <1>10, <3>2, TriplesAreRecords DEF Records, Triples
    <3> HIDE DEF r
    <3>4. low' \in Seq(Triples) /\ Len(low') = Len(low) + 1
      BY <1>10, <3>1, <3>2
    <3>5. NoHigh(low')
      <4> SUFFICES ASSUME NEW m \in DOMAIN low' PROVE ~ IsHigh(low'[m].i, low'[m].j)
        BY DEF NoHigh
      <4>1. m \in 1 .. Len(low) + 1
        BY <1>10, <3>1, <3>2
      <4>2. CASE m = Len(low) + 1
        <5>1. low'[m] = r
          BY <1>10, <3>1, <4>2
        <5> QED
          BY <2>5, <3>2, <5>1
      <4>3. CASE m \in 1 .. Len(low)
        <5>1. low'[m] = low[m] /\ m \in DOMAIN low
          BY <1>10, <3>1, <4>3
        <5> QED
          BY <2>2, <5>1 DEF NoHigh
      <4> QED
        BY <1>10, <4>1, <4>2, <4>3
    <3>6. ASSUME NEW i \in Ids, NEW j \in Ids
          PROVE  counts'[<<i, j>>] + WeightOf(low', i, j) =
                   counts[<<i, j>>] + WeightOf(low, i, j) + Grown(i, j)
      <4> DEFINE a == counts[<<i, j>>]
                 b == WeightOf(low, i, j)
                 c == Grown(i, j)
      <4>1. WeightOf(Append(low, r), i, j) = b + (IF r.i = i /\ r.j = j THEN r.weight ELSE 0)
        BY <3>3, WeightOfAppend
      <4>2. (IF r.i = i /\ r.j = j THEN r.weight ELSE 0) = c
        BY <2>5, <3>2
      <4>3. a \in Nat /\ b \in Nat /\ c \in Nat /\ counts'[<<i, j>>] = a /\ WeightOf(low', i, j) = b + c
        BY <1>8, <2>1, <3>1, <4>1, <4>2
      <4> HIDE DEF a, b, c
      <4>4. a + (b + c) = a + b + c
        BY <4>3
      <4> QED
        BY <4>3, <4>4 DEF a, b, c
    <3> QED
      BY <1>10, <3>1, <3>4, <3>5, <3>6
  <2> QED
    BY <2>3, <2>4, <2>5
<1>13. k' \in Nat /\ k' \in 1 .. Len(win) + 1 /\ k' = k + 1
  BY <1>2, <1>4
<1>14. Len(low') <= OverflowLength - 1 + (k' - 1) /\ Len(low') <= OverflowLength - 1 + Window
  <2>1. Len(win) <= Window
    BY <1>4 DEF Least2, d
  <2>2. Len(low') \in Nat /\ OverflowLength \in Nat
    BY <1>12, BuildAssumption
  <2> QED
    BY <1>4, <1>10, <1>12, <1>13, <2>1, <2>2
<1>15. TypeOK'
  BY <1>1, <1>2, <1>3, <1>12, <1>13, <1>14 DEF TypeOK, Triples
<1>16. Reading'
  BY <1>1, <1>2, <1>3 DEF Reading
<1>17. WindowInv'
  BY <1>1, <1>2, <1>3, <1>13 DEF WindowInv, Windowed
<1>18. Storage'
  BY <1>1, <1>2, <1>12, <1>14 DEF Storage
<1>19. ASSUME NEW i \in Ids, NEW j \in Ids
       PROVE  Gathered(i, j)' = CoocWeight(Centers, i, j, d, q + 1)
  <2> DEFINE a == counts[<<i, j>>] + WeightOf(low, i, j)
             f == Filed(files, i, j)
             c == Grown(i, j)
  <2>1. a \in Nat /\ f \in Nat /\ c \in Nat
    <3>1. \A g \in Fids : files[g] \in Seq(Records)
      BY <1>1, TriplesAreRecords DEF TypeOK, Triples
    <3>2. files \in [Fids -> Seq(Records)]
      BY <1>1, <3>1 DEF TypeOK
    <3>3. f \in Nat
      <4>1. 0 \in Fids
        BY BuildAssumption DEF Fids
      <4> QED
        BY <3>2, <4>1, FileReplaced DEF Exchanged
    <3>4. WeightOf(low, i, j) \in Nat /\ counts[<<i, j>>] \in Nat
      BY <1>10, TriplesAreRecords, WeightType
    <3> QED
      BY <1>8, <3>3, <3>4
  <2>2. Gathered(i, j) = a + f /\ Gathered(i, j) = CoocWeight(Centers, i, j, d, q)
    BY <1>1, <1>2 DEF Gathered, InFiles, Filed, GatherInv, q, d
  <2>3. Gathered(i, j)' = counts'[<<i, j>>] + WeightOf(low', i, j) + f
    BY <1>2 DEF Gathered, InFiles, Filed
  <2>4. counts'[<<i, j>>] + WeightOf(low', i, j) = a + c
    BY <1>12
  <2>5. CoocWeight(Centers, i, j, d, q + 1) = CoocWeight(Centers, i, j, d, q) + c
    BY <1>9
  <2> HIDE DEF a, f, c
  <2>6. a + c + f = a + f + c
    BY <2>1
  <2> QED
    BY <2>2, <2>3, <2>4, <2>5, <2>6
<1>20. Done' - 1 - Len(win') + k' = q + 1
  BY <1>2, <1>3, <1>4, <1>13 DEF q, d
<1>21. GatherInv'
  BY <1>2, <1>3, <1>19, <1>20 DEF GatherInv, FilesFaithful, d
<1> QED
  BY <1>15, <1>16, <1>17, <1>18, <1>21 DEF IInv

(* The center enters the window, the oldest word leaves a full one. *)
LEMMA SlideStep == IInv /\ Slide => IInv'
<1> SUFFICES ASSUME IInv, Slide PROVE IInv'
  OBVIOUS
<1> DEFINE e == [id |-> id, flag |-> exists]
           L == Len(win)
           d == Done
<1>1. TypeOK /\ Reading /\ WindowInv /\ Storage /\ GatherInv
  BY DEF IInv
<1>2. /\ pc = "pairs" /\ (exists => k > L) /\ win' = Slid(win, e) /\ pc' = "head"
      /\ text' = text /\ word' = word /\ k' = k /\ low' = low /\ lowCount' = lowCount
      /\ fid' = fid /\ files' = files /\ table' = table
  BY DEF Slide
<1>3. /\ corpus' = corpus /\ next' = next /\ eof' = eof /\ Done' = Done /\ Centers' = Centers
      /\ \A i, j \in Ids : Expected(i, j)' = Expected(i, j)
      /\ center' = center /\ id' = id /\ exists' = exists /\ counts' = counts
  BY <1>2, SameText DEF word, table
<1>4. /\ L \in Nat /\ k \in 1 .. L + 1 /\ Windowed(d - 1) /\ L = Least2(Window, d - 1)
      /\ d \in 2 .. Len(Centers) /\ d \in Nat /\ Window \in Nat \ {0}
  BY <1>1, <1>2, BuildAssumption, DoneIs DEF WindowInv, Windowed, TypeOK, Reading
<1>5. /\ center = Centers[d] /\ exists = (center # Oov) /\ (exists => id = center)
  BY <1>1, <1>2 DEF Reading
<1>6. Holds(e, Centers, d)
  BY <1>4, <1>5 DEF Holds
<1>7. e \in [id : Ids \cup {0}, flag : BOOLEAN] /\ win \in Seq([id : Ids \cup {0}, flag : BOOLEAN])
  BY <1>1 DEF TypeOK
<1> HIDE DEF e
<1>8. /\ win' \in Seq([id : Ids \cup {0}, flag : BOOLEAN])
      /\ Len(win') = Least2(Window, d)
      /\ \A m \in 1 .. Len(win') : Holds(win'[m], Centers, d - Len(win') + m)
  <2> DEFINE E == [id : Ids \cup {0}, flag : BOOLEAN]
  <2>1. \A m \in 1 .. L : Holds(win[m], Centers, d - 1 - L + m)
    BY <1>4 DEF Windowed
  <2>2. e \in E /\ win \in Seq(E)
    BY <1>7
  <2> HIDE DEF E
  <2>3. CASE L >= Window
    <3>1. win' = Append(Tail(win), e)
      BY <1>2, <2>3 DEF Slid
    <3>2. L > 0 /\ win # << >>
      BY <1>4, <2>3
    <3> DEFINE t == Tail(win)
    <3>3. t \in Seq(E) /\ Len(t) = L - 1 /\ \A m \in 1 .. L - 1 : t[m] = win[m + 1]
      BY <1>4, <2>2, <3>2
    <3> HIDE DEF t
    <3>4. win' \in Seq(E) /\ Len(win') = L /\ win'[L] = e /\ \A m \in 1 .. L - 1 : win'[m] = t[m]
      <4>1. Len(t) + 1 = L /\ win' = Append(t, e)
        BY <1>4, <3>1, <3>3 DEF t
      <4>2. Append(t, e) \in Seq(E) /\ Len(Append(t, e)) = Len(t) + 1 /\ Append(t, e)[Len(t) + 1] = e
            /\ \A m \in 1 .. Len(t) : Append(t, e)[m] = t[m]
        BY <2>2, <3>3
      <4> QED
        BY <3>3, <4>1, <4>2
    <3>5. ASSUME NEW m \in 1 .. L
          PROVE  Holds(win'[m], Centers, d - L + m)
      <4>1. CASE m = L
        <5>1. d - L + m = d
          BY <1>4, <4>1
        <5> QED
          BY <1>6, <3>4, <4>1, <5>1
      <4>2. CASE m # L
        <5>1. m \in 1 .. L - 1 /\ m + 1 \in 1 .. L /\ d - 1 - L + (m + 1) = d - L + m
          BY <1>4, <4>2
        <5>2. win'[m] = win[m + 1]
          BY <3>3, <3>4, <5>1
        <5>3. Holds(win[m + 1], Centers, d - 1 - L + (m + 1))
          BY <2>1, <5>1
        <5> QED
          BY <5>1, <5>2, <5>3
      <4> QED
        BY <4>1, <4>2
    <3>6. L = Least2(Window, d)
      BY <1>4, <2>3 DEF Least2
    <3> QED
      BY <3>4, <3>5, <3>6 DEF E
  <2>4. CASE L < Window
    <3>1. win' = Append(win, e)
      BY <1>2, <1>4, <2>4 DEF Slid
    <3>2. /\ Append(win, e) \in Seq(E) /\ Len(Append(win, e)) = L + 1 /\ Append(win, e)[L + 1] = e
          /\ \A m \in 1 .. L : Append(win, e)[m] = win[m]
      BY <2>2
    <3>3. ASSUME NEW m \in 1 .. L + 1
          PROVE  Holds(win'[m], Centers, d - (L + 1) + m)
      <4>1. CASE m = L + 1
        <5>1. d - (L + 1) + m = d
          BY <1>4, <4>1
        <5> QED
          BY <1>6, <3>1, <3>2, <4>1, <5>1
      <4>2. CASE m # L + 1
        <5>1. m \in 1 .. L /\ d - 1 - L + m = d - (L + 1) + m
          BY <1>4, <4>2
        <5>2. win'[m] = win[m]
          BY <3>1, <3>2, <5>1
        <5>3. Holds(win[m], Centers, d - 1 - L + m)
          BY <2>1, <5>1
        <5> QED
          BY <5>1, <5>2, <5>3
      <4> QED
        BY <4>1, <4>2
    <3>4. L + 1 = Least2(Window, d)
      BY <1>4, <2>4 DEF Least2
    <3> QED
      BY <3>1, <3>2, <3>3, <3>4 DEF E
  <2> QED
    BY <1>4, <2>3, <2>4
<1>9. TypeOK'
  BY <1>1, <1>2, <1>3, <1>8 DEF TypeOK
<1>10. Reading'
  BY <1>1, <1>2, <1>3 DEF Reading
<1>11. WindowInv'
  BY <1>2, <1>3, <1>8 DEF WindowInv, Windowed
<1>12. Storage'
  BY <1>1, <1>2, <1>3 DEF Storage
<1>13. ASSUME NEW i \in Ids, NEW j \in Ids
       PROVE  Gathered(i, j)' = Expected(i, j)'
  <2> DEFINE q == d - 1 - L + k
  <2>1. Gathered(i, j) = CoocWeight(Centers, i, j, d, q)
    BY <1>1, <1>2 DEF GatherInv
  <2>2. Gathered(i, j)' = Gathered(i, j)
    BY <1>2, <1>3 DEF Gathered, InFiles
  <2>3. Expected(i, j) = CoocWeight(Centers, i, j, d, d)
    BY <1>4, ExpectedIsCooc
  <2>4. CASE exists
    <3>1. q = d
      BY <1>2, <1>4, <2>4
    <3> QED
      BY <1>3, <2>1, <2>2, <2>3, <3>1
  <2>5. CASE ~ exists
    <3>1. Centers[d] # i
      BY <1>5, <2>5, BuildAssumption
    <3> HIDE DEF q, d
    <3>2. CoocWeight(Centers, i, j, d, q) = CoocWeight(Centers, i, j, d, d)
      BY <1>4, <3>1, CoocNoCenter
    <3> QED
      BY <1>3, <2>1, <2>2, <2>3, <3>2
  <2> QED
    BY <2>4, <2>5
<1>14. GatherInv'
  BY <1>2, <1>13 DEF GatherInv, FilesFaithful
<1> QED
  BY <1>9, <1>10, <1>11, <1>12, <1>14 DEF IInv

(* write_chunk after the loop, through the stream that is still open at    *)
(* the beginning of temp.bin_0.                                            *)
LEMMA WriteRestStep == IInv /\ WriteRest => IInv'
<1> SUFFICES ASSUME IInv, WriteRest PROVE IInv'
  OBVIOUS
<1>1. PICK p \in Orders(low) :
        files' = [files EXCEPT ![0] = Overwritten(Chunk(low, p), files[0])]
  <2>1. PICK p \in Orders(low) :
           LET rest == Chunk(low, p)
           IN  files' = [files EXCEPT ![0] = rest \o SubSeq(@, Len(rest) + 1, Len(@))]
    BY DEF WriteRest
  <2> QED
    BY <2>1 DEF Overwritten
<1>2. /\ pc = "head" /\ eof /\ low' = << >> /\ pc' = "rest" /\ text' = text /\ word' = word
      /\ win' = win /\ k' = k /\ lowCount' = lowCount /\ fid' = fid /\ table' = table
  BY DEF WriteRest
<1>3. /\ corpus' = corpus /\ next' = next /\ eof' = eof /\ Done' = Done /\ Centers' = Centers
      /\ \A i, j \in Ids : Expected(i, j)' = Expected(i, j)
      /\ center' = center /\ id' = id /\ exists' = exists /\ counts' = counts
  BY <1>2, SameText DEF word, table
<1>4. TypeOK /\ Reading /\ WindowInv /\ Storage /\ GatherInv
  BY DEF IInv
<1>5. low \in Seq(Triples) /\ files \in [Fids -> Seq(Triples)] /\ fid \in Fids /\ 0 \in Fids
  <2>1. low \in Seq(Triples) /\ files \in [Fids -> Seq(Triples)] /\ fid \in Fids
    BY <1>4 DEF TypeOK, Triples
  <2>2. 0 \in Fids
    BY BuildAssumption DEF Fids
  <2> QED
    BY <2>1, <2>2
<1> DEFINE c == Chunk(low, p)
           o == Overwritten(c, files[0])
<1>6. c \in Seq(Triples) /\ NoHigh(c) /\ \A i, j \in Ids : WeightOf(c, i, j) = WeightOf(low, i, j)
  BY <1>4, <1>5, ChunkOfTriples DEF Storage
<1>7. files' = [files EXCEPT ![0] = o]
  BY <1>1
<1> HIDE DEF c
<1>8. c \in Seq(Records) /\ files[0] \in Seq(Triples) /\ files[0] \in Seq(Records) /\ NoHigh(files[0])
  BY <1>2, <1>4, <1>5, <1>6, TriplesAreRecords DEF Storage
<1>9. o \in Seq(Triples) /\ NoHigh(o)
  <2>1. /\ o \in Seq(Records) /\ DOMAIN o = DOMAIN c \cup (DOMAIN files[0] \ DOMAIN c)
        /\ \A m \in DOMAIN c : o[m] = c[m]
        /\ \A m \in DOMAIN files[0] \ DOMAIN c : o[m] = files[0][m]
    <3> DEFINE t == files[0]
    <3>1. t \in Seq(Records)
      BY <1>8
    <3> HIDE DEF t
    <3>2. /\ Overwritten(c, t) \in Seq(Records)
          /\ DOMAIN Overwritten(c, t) = DOMAIN c \cup (DOMAIN t \ DOMAIN c)
          /\ \A m \in DOMAIN c : Overwritten(c, t)[m] = c[m]
          /\ \A m \in DOMAIN t \ DOMAIN c : Overwritten(c, t)[m] = t[m]
      BY <1>8, <3>1, OverwrittenPlaces
    <3> QED
      BY <3>2 DEF t
  <2> HIDE DEF o
  <2>2. \A m \in DOMAIN o : o[m] \in Triples /\ ~ IsHigh(o[m].i, o[m].j)
    <3> SUFFICES ASSUME NEW m \in DOMAIN o
                 PROVE  o[m] \in Triples /\ ~ IsHigh(o[m].i, o[m].j)
      OBVIOUS
    <3>1. CASE m \in DOMAIN c
      <4>1. o[m] = c[m] /\ c[m] \in Triples /\ ~ IsHigh(c[m].i, c[m].j)
        BY <1>6, <2>1, <3>1 DEF NoHigh
      <4> QED
        BY <4>1
    <3>2. CASE m \notin DOMAIN c
      <4> DEFINE t == files[0]
      <4>1. m \in DOMAIN t /\ o[m] = t[m] /\ t \in Seq(Triples) /\ NoHigh(t)
        BY <1>8, <2>1, <3>2
      <4> HIDE DEF t
      <4>2. t[m] \in Triples /\ ~ IsHigh(t[m].i, t[m].j)
        BY <4>1 DEF NoHigh
      <4> QED
        BY <4>1, <4>2
    <3> QED
      BY <3>1, <3>2
  <2>6. o \in Seq(Records)
    BY <2>1
  <2>3. DOMAIN o = 1 .. Len(o) /\ Len(o) \in Nat /\ o = [m \in 1 .. Len(o) |-> o[m]]
    BY <2>6
  <2>4. o \in [1 .. Len(o) -> Triples]
    BY <2>2, <2>3
  <2>5. o \in Seq(Triples)
    BY <2>3, <2>4
  <2> QED
    BY <2>2, <2>5 DEF NoHigh
<1>10. \A i, j \in Ids : WeightOf(o, i, j) <= WeightOf(low, i, j) + WeightOf(files[0], i, j)
  <2> DEFINE t == files[0]
  <2>1. t \in Seq(Records)
    BY <1>8
  <2> HIDE DEF t
  <2>2. \A i, j \in Ids : WeightOf(Overwritten(c, t), i, j) <= WeightOf(c, i, j) + WeightOf(t, i, j)
    BY <1>8, <2>1, WeightOverwritten
  <2> QED
    BY <1>6, <2>2 DEF t
<1> HIDE DEF o
<1>11. files' \in [Fids -> Seq(Triples)]
  BY <1>5, <1>7, <1>9
<1>12. TypeOK'
  <2>1. low' \in Seq(Triples) /\ Len(low') = 0 /\ 0 <= OverflowLength - 1 + Window
    BY <1>2, BuildAssumption
  <2> QED
    BY <1>2, <1>3, <1>4, <1>11, <2>1 DEF TypeOK, Triples
<1>13. Reading'
  BY <1>2, <1>3, <1>4 DEF Reading
<1>14. WindowInv'
  BY <1>2 DEF WindowInv
<1>15. Storage'
  <2>1. NoHigh(low')
    BY <1>2 DEF NoHigh
  <2>2. \A f \in Fids : NoHigh(files'[f])
    BY <1>2, <1>4, <1>5, <1>7, <1>9 DEF Storage
  <2> QED
    BY <1>2, <1>3, <1>4, <2>1, <2>2 DEF Storage
<1>16. ASSUME NEW i \in Ids, NEW j \in Ids
       PROVE  IF IsHigh(i, j) THEN counts'[<<i, j>>] = Expected(i, j)'
                              ELSE InFiles(i, j)' <= Expected(i, j)'
  <2> DEFINE fs == files
             gs == files'
             a == counts[<<i, j>>]
             b == WeightOf(low, i, j)
             f == Filed(fs, i, j)
             g == Filed(gs, i, j)
             x == WeightOf(fs[0], i, j)
             y == WeightOf(gs[0], i, j)
             ex == Expected(i, j)
  <2>1. /\ fs \in [Fids -> Seq(Records)] /\ gs \in [Fids -> Seq(Records)]
        /\ \A h \in Fids \ {0} : gs[h] = fs[h]
        /\ gs[0] = o
    <3>1. \A h \in Fids : files[h] \in Seq(Records) /\ files'[h] \in Seq(Records)
      BY <1>5, <1>11, TriplesAreRecords
    <3> QED
      BY <1>5, <1>7, <1>11, <3>1
  <2>2. a \in Nat /\ b \in Nat
    BY <1>4, <1>5, TriplesAreRecords, WeightType DEF Storage
  <2>3. ex = a + b + f
    BY <1>2, <1>4 DEF GatherInv, Gathered, InFiles, Filed
  <2>4. Exchanged(g, x, f, y)
    <3> HIDE DEF fs, gs
    <3> QED
      BY <1>5, <2>1, FileReplaced
  <2>5. y <= b + x
    BY <1>10, <2>1
  <2>6. InFiles(i, j)' = g
    BY DEF InFiles, Filed
  <2>7. IsHigh(i, j) => b = 0 /\ f = 0
    <3> SUFFICES ASSUME IsHigh(i, j) PROVE b = 0 /\ f = 0
      OBVIOUS
    <3>1. ASSUME NEW s \in Seq(Records), NoHigh(s)
          PROVE  WeightOf(s, i, j) = 0
      <4>1. \A m \in DOMAIN s : ~ (s[m].i = i /\ s[m].j = j)
        BY <3>1 DEF NoHigh
      <4> QED
        BY <4>1, WeightOfNone
    <3>2. b = 0
      BY <1>4, <1>5, <3>1, TriplesAreRecords DEF Storage
    <3>3. \A h \in Fids : WeightOf(fs[h], i, j) = 0
      BY <1>2, <1>4, <2>1, <3>1 DEF Storage
    <3>4. f = 0
      <4> HIDE DEF fs
      <4> QED
        BY <2>1, <3>3, FiledNone
    <3> QED
      BY <3>2, <3>4
  <2>8. counts'[<<i, j>>] = a /\ Expected(i, j)' = ex
    BY <1>3
  <2> HIDE DEF a, b, f, g, x, y, ex
  <2>9. g <= ex /\ (IsHigh(i, j) => a = ex)
    BY <2>2, <2>3, <2>4, <2>5, <2>7 DEF Exchanged
  <2> QED
    BY <2>6, <2>8, <2>9
<1>17. GatherInv'
  BY <1>2, <1>16 DEF GatherInv, FilesFaithful
<1> QED
  BY <1>12, <1>13, <1>14, <1>15, <1>17 DEF IInv

(* A list of the table has each counter as the weight of its pair. *)
LEMMA ListingWeights ==
  ASSUME NEW s \in Seq(Records), counts \in [Ids \X Ids -> Nat], Pairs!IsListing(s),
         NEW i \in Ids, NEW j \in Ids
  PROVE  WeightOf(s, i, j) = counts[<<i, j>>]
<1> DEFINE n == counts[<<i, j>>]
<1>1. n \in Nat
  OBVIOUS
<1>2. /\ {s[m] : m \in DOMAIN s} =
           { [i |-> p[1], j |-> p[2], weight |-> counts[p]] :
               p \in {q \in Ids \X Ids : counts[q] > 0} }
      /\ \A m, l \in DOMAIN s :
           m < l => \/ s[m].i < s[l].i
                    \/ s[m].i = s[l].i /\ s[m].j < s[l].j
  BY DEF Pairs!IsListing, Pairs!Ids, Ids
<1>3. ASSUME NEW m \in DOMAIN s, s[m].i = i, s[m].j = j
      PROVE  n > 0 /\ s[m].weight = n
  <2>1. PICK p \in {q \in Ids \X Ids : counts[q] > 0} :
           s[m] = [i |-> p[1], j |-> p[2], weight |-> counts[p]]
    BY <1>2
  <2>2. p = <<p[1], p[2]>> /\ p[1] = i /\ p[2] = j
    BY <1>3, <2>1
  <2>3. p = <<i, j>> /\ counts[p] > 0 /\ s[m].weight = counts[p]
    BY <2>1, <2>2
  <2> QED
    BY <2>3
<1>4. CASE n = 0
  <2>1. \A m \in DOMAIN s : ~ (s[m].i = i /\ s[m].j = j)
    BY <1>3, <1>4
  <2> QED
    BY <1>4, <2>1, WeightOfNone
<1>5. CASE n > 0
  <2>1. <<i, j>> \in {q \in Ids \X Ids : counts[q] > 0}
    BY <1>5
  <2>2. [i |-> i, j |-> j, weight |-> n] \in {s[m] : m \in DOMAIN s}
    <3> DEFINE rp == <<i, j>>
    <3>1. rp \in {q \in Ids \X Ids : counts[q] > 0} /\ rp[1] = i /\ rp[2] = j /\ counts[rp] = n
      BY <2>1
    <3> HIDE DEF rp, n
    <3>2. [i |-> rp[1], j |-> rp[2], weight |-> counts[rp]] \in {s[m] : m \in DOMAIN s}
      BY <1>2, <3>1
    <3> QED
      BY <3>1, <3>2
  <2>3. PICK m \in DOMAIN s : s[m] = [i |-> i, j |-> j, weight |-> n]
    BY <2>2
  <2>4. ASSUME NEW l \in DOMAIN s, s[l].i = i, s[l].j = j
        PROVE  l = m
    <3>1. m \in Nat /\ l \in Nat /\ i \in Nat /\ j \in Nat
      BY TriplesAreRecords
    <3>2. s[m].i = i /\ s[m].j = j
      BY <2>3
    <3>3. ~ (m < l) /\ ~ (l < m)
      BY <1>2, <2>4, <3>1, <3>2
    <3> QED
      BY <3>1, <3>3
  <2>5. \A l \in DOMAIN s : s[l].i = i /\ s[l].j = j <=> l = m
    BY <2>3, <2>4
  <2>6. WeightOf(s, i, j) = s[m].weight
    BY <2>5, WeightOfOne
  <2> QED
    BY <2>3, <2>6
<1> QED
  BY <1>1, <1>4, <1>5

(* write_high_cooccur. *)
LEMMA WriteHighStep == IInv /\ WriteHigh => IInv'
<1> SUFFICES ASSUME IInv, WriteHigh PROVE IInv'
  OBVIOUS
<1> DEFINE s == emitted'
<1>1. /\ pc = "rest" /\ pc' = "built" /\ text' = text /\ word' = word /\ win' = win /\ k' = k
      /\ low' = low /\ lowCount' = lowCount /\ fid' = fid
      /\ files' = [files EXCEPT ![fid] = s]
      /\ Pairs!Emit
  BY DEF WriteHigh
<1>2. /\ counts' = counts /\ s \in Seq([i : Ids, j : Ids, weight : 1 .. MaxWeight])
      /\ Pairs!IsListing(s)
  BY <1>1 DEF Pairs!Emit, Pairs!Ids, Ids
<1>3. /\ corpus' = corpus /\ next' = next /\ eof' = eof /\ Done' = Done /\ Centers' = Centers
      /\ \A i, j \in Ids : Expected(i, j)' = Expected(i, j)
      /\ center' = center /\ id' = id /\ exists' = exists
  BY <1>1, SameText DEF word
<1>4. TypeOK /\ Reading /\ WindowInv /\ Storage /\ GatherInv
  BY DEF IInv
<1>5. files \in [Fids -> Seq(Triples)] /\ fid \in Fids
  BY <1>4 DEF TypeOK, Triples
<1>6. s \in Seq(Triples) /\ s \in Seq(Records)
  <2> DEFINE T == [i : Ids, j : Ids, weight : 1 .. MaxWeight]
  <2>1. T \subseteq Triples
    BY DEF Triples
  <2>3. s \in Seq(T)
    BY <1>2
  <2> HIDE DEF T, s
  <2>2. s \in Seq(Triples)
    BY <2>1, <2>3
  <2> QED
    BY <2>2, TriplesAreRecords
<1> HIDE DEF s
<1>7. files' \in [Fids -> Seq(Triples)]
  BY <1>1, <1>5, <1>6
<1>8. TypeOK'
  BY <1>1, <1>3, <1>4, <1>7 DEF TypeOK, Triples
<1>9. Reading'
  BY <1>1, <1>3, <1>4 DEF Reading
<1>10. WindowInv'
  BY <1>1 DEF WindowInv
<1>11. Storage'
  BY <1>1, <1>2, <1>4 DEF Storage
<1>12. ASSUME NEW i \in Ids, NEW j \in Ids
       PROVE  /\ InFiles(i, j)' <= Expected(i, j)'
              /\ IsHigh(i, j) => InFiles(i, j)' = Expected(i, j)'
  <2> DEFINE fs == files
             gs == files'
             a == counts[<<i, j>>]
             f == Filed(fs, i, j)
             g == Filed(gs, i, j)
             x == WeightOf(fs[fid], i, j)
             y == WeightOf(gs[fid], i, j)
             ex == Expected(i, j)
  <2>1. /\ fs \in [Fids -> Seq(Records)] /\ gs \in [Fids -> Seq(Records)]
        /\ \A h \in Fids \ {fid} : gs[h] = fs[h]
        /\ gs[fid] = s
    <3>1. \A h \in Fids : files[h] \in Seq(Records) /\ files'[h] \in Seq(Records)
      BY <1>5, <1>7, TriplesAreRecords
    <3> QED
      BY <1>1, <1>5, <1>7, <3>1
  <2>2. Exchanged(g, x, f, y)
    <3> HIDE DEF fs, gs
    <3> QED
      BY <1>5, <2>1, FileReplaced
  <2>3. y = a
    BY <1>2, <1>4, <1>6, <2>1, ListingWeights DEF Storage
  <2>4. IF IsHigh(i, j) THEN a = ex ELSE f <= ex /\ a = 0
    BY <1>1, <1>4 DEF GatherInv, Storage, InFiles, Filed
  <2>5. IsHigh(i, j) => x = 0 /\ f = 0
    <3> SUFFICES ASSUME IsHigh(i, j) PROVE x = 0 /\ f = 0
      OBVIOUS
    <3>1. ASSUME NEW h \in Fids PROVE WeightOf(fs[h], i, j) = 0
      <4> DEFINE t == fs[h]
      <4>1. t \in Seq(Records) /\ NoHigh(t)
        BY <1>1, <1>4, <2>1 DEF Storage
      <4>2. \A m \in DOMAIN t : ~ (t[m].i = i /\ t[m].j = j)
        BY <4>1 DEF NoHigh
      <4> HIDE DEF t
      <4>3. WeightOf(t, i, j) = 0
        BY <4>1, <4>2, WeightOfNone
      <4> QED
        BY <4>3 DEF t
    <3>2. f = 0
      <4> HIDE DEF fs
      <4> QED
        BY <2>1, <3>1, FiledNone
    <3> QED
      BY <1>5, <3>1, <3>2
  <2>6. InFiles(i, j)' = g /\ Expected(i, j)' = ex
    BY <1>3 DEF InFiles, Filed
  <2>7. ex \in Nat
    <3>1. Done \in Nat
      BY <1>4, DoneIs
    <3>2. ex = CoocWeight(Centers, i, j, Done, Done)
      BY <3>1, ExpectedIsCooc
    <3>3. CoocWeight(Centers, i, j, Done, Done) \in Nat
      <4> DEFINE S == Cooc(Centers, i, j, Done, Done)
      <4>1. IsFiniteSet(S) /\ S \subseteq Nat \X Nat
        BY <3>1, CoocFinite
      <4> HIDE DEF S
      <4>2. \A p \in S : Gap[p] \in Nat
        BY <4>1, GapType
      <4>3. SumFunctionOnSet(Gap, S) \in Nat
        BY <4>1, <4>2, SumType
      <4> QED
        BY <4>3 DEF S, CoocWeight
    <3> QED
      BY <3>2, <3>3
  <2> HIDE DEF a, f, g, x, y, ex
  <2>8. g <= ex /\ (IsHigh(i, j) => g = ex)
    BY <2>2, <2>3, <2>4, <2>5, <2>7 DEF Exchanged
  <2> QED
    BY <2>6, <2>8
<1>13. GatherInv'
  BY <1>1, <1>12 DEF GatherInv, FilesFaithful
<1> QED
  BY <1>8, <1>9, <1>10, <1>11, <1>13 DEF IInv

LEMMA StutterStep == IInv /\ UNCHANGED vars => IInv'
<1> SUFFICES ASSUME IInv, UNCHANGED vars PROVE IInv'
  OBVIOUS
<1>1. /\ text' = text /\ word' = word /\ win' = win /\ k' = k /\ low' = low
      /\ lowCount' = lowCount /\ fid' = fid /\ files' = files /\ table' = table /\ pc' = pc
  BY DEF vars
<1>2. /\ corpus' = corpus /\ next' = next /\ eof' = eof /\ Done' = Done /\ Centers' = Centers
      /\ \A i, j \in Ids : Expected(i, j)' = Expected(i, j)
      /\ center' = center /\ id' = id /\ exists' = exists /\ counts' = counts
  BY <1>1, SameText DEF word, table
<1>3. TypeOK /\ Reading /\ WindowInv /\ Storage /\ GatherInv
  BY DEF IInv
<1>4. TypeOK'
  BY <1>1, <1>2, <1>3 DEF TypeOK
<1>5. Reading'
  BY <1>1, <1>2, <1>3 DEF Reading
<1>6. WindowInv'
  BY <1>1, <1>2, <1>3 DEF WindowInv, Windowed
<1>7. Storage'
  BY <1>1, <1>2, <1>3 DEF Storage
<1>8. \A i, j \in Ids : InFiles(i, j)' = InFiles(i, j)
  BY <1>1 DEF InFiles
<1>9. \A i, j \in Ids : Gathered(i, j)' = Gathered(i, j)
  BY <1>1, <1>2, <1>8 DEF Gathered
<1>10. GatherInv'
  BY <1>1, <1>2, <1>3, <1>8, <1>9 DEF GatherInv, FilesFaithful
<1> QED
  BY <1>4, <1>5, <1>6, <1>7, <1>10 DEF IInv

LEMMA Inductive == IInv /\ [Next]_vars => IInv'
BY FlushChunkStep, ReadCenterStep, PairContextStep, SlideStep, WriteRestStep, WriteHighStep,
   StutterStep DEF Next

-----------------------------------------------------------------------------
(* For every corpus, window and limit of the list: after each center the   *)
(* table, the list and the files written so far hold exactly the weight of *)
(* the co-occurrences of the words read so far (the loop of CoMat::build). *)
THEOREM NothingGatheredIsLost == Spec => []GatheredIsExpected
<1>1. IInv => GatheredIsExpected
  BY DEF IInv, GatherInv, GatheredIsExpected
<1> QED
  BY <1>1, InitIInv, Inductive, PTL DEF Spec

(* And in the end the files hold all of a frequent pair, and no pair with  *)
(* more than its weight (write_chunk and write_high_cooccur).              *)
THEOREM FilesAreFaithful == Spec => []FilesFaithful
<1>1. IInv => FilesFaithful
  BY DEF IInv, GatherInv
<1> QED
  BY <1>1, InitIInv, Inductive, PTL DEF Spec

-----------------------------------------------------------------------------
(* CoMat::merge_files.  The swaps of the heap, whichever they are, only    *)
(* rename the places of its entries; an entry is added when its file is    *)
(* read and gone when it is popped.                                        *)

(* A record that is read takes its weight from what remains of its file.   *)
LEMMA WeightOfTail ==
  ASSUME NEW s \in Seq(Records), s # << >>, NEW c
  PROVE  /\ Tail(s) \in Seq(Records) /\ Head(s) \in Records
         /\ WeightOf(s, c.i, c.j) = Weigh(Head(s), c) + WeightOf(Tail(s), c.i, c.j)
<1> DEFINE t == Tail(s)
           n == Len(t)
           w == [m \in DOMAIN s |-> s[m].weight]
           v == [m \in DOMAIN t |-> t[m].weight]
           S == Cells(s, c.i, c.j)
           T == Cells(t, c.i, c.j)
           first == {m \in {1} : s[1].i = c.i /\ s[1].j = c.j}
           b == [m \in T |-> m + 1]
           R == S \ first
<1>1. /\ t \in Seq(Records) /\ n \in Nat /\ DOMAIN t = 1 .. n /\ DOMAIN s = 1 .. n + 1
      /\ Head(s) = s[1] /\ s[1] \in Records /\ \A m \in 1 .. n : t[m] = s[m + 1]
  OBVIOUS
<1>2. S \subseteq 1 .. n + 1 /\ T \subseteq 1 .. n /\ first \subseteq {1}
  BY <1>1 DEF Cells
<1>3. first \subseteq S
  BY <1>1 DEF Cells
<1>4. IsFiniteSet(S) /\ IsFiniteSet(T) /\ IsFiniteSet(first) /\ IsFiniteSet(R)
  <2>1. IsFiniteSet(S) /\ IsFiniteSet(T)
    BY <1>1, CellsType
  <2> HIDE DEF S
  <2> QED
    BY <1>3, <2>1, FS_Subset
<1>5. /\ \A m \in 1 .. n + 1 : w[m] = s[m].weight /\ w[m] \in Nat
      /\ \A m \in 1 .. n : v[m] = t[m].weight /\ v[m] \in Nat
  BY <1>1, CellsType
<1>6. WeightOf(s, c.i, c.j) = SumFunctionOnSet(w, S) /\ WeightOf(t, c.i, c.j) = SumFunctionOnSet(v, T)
  <2> DEFINE x == c.i
             y == c.j
  <2> HIDE DEF x, y
  <2>1. WeightOf(s, x, y) = SumFunctionOnSet(w, Cells(s, x, y))
    BY CellsType
  <2>2. WeightOf(t, x, y) = SumFunctionOnSet(v, Cells(t, x, y))
    <3> HIDE DEF t
    <3> QED
      BY <1>1, CellsType
  <2> QED
    BY <2>1, <2>2 DEF x, y
<1>7. \A m \in T : m + 1 \in R
  <2>1. \A m \in 1 .. n : m + 1 \in 1 .. n + 1 /\ m + 1 # 1
    BY <1>1
  <2> QED
    BY <1>1, <1>2, <2>1 DEF Cells
<1>8. \A m \in R : m - 1 \in T /\ (m - 1) + 1 = m
  <2>1. ASSUME NEW m \in R
        PROVE  m - 1 \in T /\ (m - 1) + 1 = m
    <3>1. m \in 1 .. n + 1 /\ s[m].i = c.i /\ s[m].j = c.j
      BY <1>1 DEF Cells
    <3>2. m # 1
      BY <3>1
    <3>3. m - 1 \in 1 .. n /\ (m - 1) + 1 = m
      BY <1>1, <3>1, <3>2
    <3> QED
      BY <1>1, <3>1, <3>3 DEF Cells
  <2> QED
    BY <2>1
<1>9. b \in Bijection(T, R)
  <2>1. b \in [T -> R]
    BY <1>7
  <2>2. \A x, y \in T : b[x] = b[y] => x = y
    BY <1>1, <1>2
  <2>3. \A y \in R : \E x \in T : b[x] = y
    BY <1>8
  <2> HIDE DEF b, T, R
  <2> QED
    BY <2>1, <2>2, <2>3 DEF Bijection, Injection, Surjection, IsInjective
<1>10. \A m \in T : w[b[m]] = v[m] /\ v[m] \in Nat
  <2>1. ASSUME NEW m \in T
        PROVE  w[b[m]] = v[m] /\ v[m] \in Nat
    <3>1. m \in 1 .. n /\ m + 1 \in 1 .. n + 1 /\ b[m] = m + 1
      BY <1>1, <1>2
    <3> HIDE DEF b, w, v
    <3> QED
      BY <1>1, <1>5, <3>1
  <2> QED
    BY <2>1
<1>11. S = first \cup R /\ first \cap R = {}
  BY <1>3
<1>12. SumFunctionOnSet(w, first) = Weigh(Head(s), c)
  <2>1. CASE s[1].i = c.i /\ s[1].j = c.j
    <3>1. first = {1} /\ 1 \in 1 .. n + 1
      BY <1>1, <2>1
    <3>2. Weigh(Head(s), c) = w[1]
      BY <1>1, <2>1 DEF Weigh, SameCell
    <3> HIDE DEF w
    <3> QED
      BY <1>5, <3>1, <3>2, SumOne
  <2>2. CASE ~ (s[1].i = c.i /\ s[1].j = c.j)
    <3>1. first = {}
      BY <2>2
    <3>2. Weigh(Head(s), c) = 0
      BY <1>1, <2>2 DEF Weigh, SameCell
    <3> HIDE DEF w
    <3> QED
      BY <3>1, <3>2, SumEmpty
  <2> QED
    BY <2>1, <2>2
<1> HIDE DEF w, v, b, S, T, first, R
<1>13. SumFunctionOnSet(v, T) = SumFunctionOnSet(w, R)
  BY <1>4, <1>9, <1>10, SumRenamed
<1>14. \A m \in first \cup R : w[m] \in Nat
  BY <1>2, <1>5, <1>11
<1>15. SumFunctionOnSet(w, S) = SumFunctionOnSet(w, first) + SumFunctionOnSet(w, R)
  BY <1>4, <1>11, <1>14, SumSplit
<1> QED
  BY <1>1, <1>6, <1>12, <1>13, <1>15

(* gs is what remains of the files fs when the head of f was read.         *)
ReadFrom(fs, f, gs) ==
  /\ fs \in [Files -> Seq(Records)] /\ f \in Files /\ fs[f] # << >>
  /\ gs \in [Files -> Seq(Records)]
  /\ gs[f] = Tail(fs[f]) /\ \A g \in Files \ {f} : gs[g] = fs[g]

LEMMA TotalOfRead ==
  ASSUME NEW fs, NEW f, NEW gs, ReadFrom(fs, f, gs), NEW c
  PROVE  /\ Total(fs, c) = Weigh(Head(fs[f]), c) + Total(gs, c)
         /\ Total(gs, c) \in Nat
<1> DEFINE w == [g \in Files |-> WeightOf(fs[g], c.i, c.j)]
           v == [g \in Files |-> WeightOf(gs[g], c.i, c.j)]
           R == Files \ {f}
<1>0. fs \in [Files -> Seq(Records)] /\ f \in Files /\ fs[f] # << >>
  BY DEF ReadFrom
<1>1. /\ fs[f] \in Seq(Records) /\ Tail(fs[f]) \in Seq(Records) /\ Head(fs[f]) \in Records
      /\ WeightOf(fs[f], c.i, c.j) = Weigh(Head(fs[f]), c) + WeightOf(Tail(fs[f]), c.i, c.j)
  BY <1>0, WeightOfTail
<1>2. gs \in [Files -> Seq(Records)] /\ gs[f] = Tail(fs[f]) /\ \A g \in R : gs[g] = fs[g]
  BY DEF ReadFrom
<1>3. \A g \in Files : w[g] \in Nat /\ v[g] \in Nat
  BY <1>0, <1>2, WeightType
<1>4. IsFiniteSet(Files) /\ IsFiniteSet(R) /\ Files = R \cup {f} /\ R \cap {f} = {} /\ IsFiniteSet({f})
  <2>1. IsFiniteSet(Files)
    BY MergeAssumption, FirstNumbers DEF Files
  <2> QED
    BY <1>0, <2>1, FS_Subset
<1>5. \A g \in R : w[g] \in Nat /\ v[g] = w[g]
  BY <1>2, <1>3
<1>6. w[f] = Weigh(Head(fs[f]), c) + v[f] /\ Weigh(Head(fs[f]), c) \in Nat
  <2>1. Weigh(Head(fs[f]), c) \in Nat
    BY <1>1 DEF Weigh, Records
  <2> QED
    BY <1>0, <1>1, <1>2, <2>1
<1>7. Total(fs, c) = SumFunctionOnSet(w, Files) /\ Total(gs, c) = SumFunctionOnSet(v, Files)
  BY DEF Total, SumFunction
<1> HIDE DEF w, v, R
<1>8. SumFunctionOnSet(w, R) = SumFunctionOnSet(v, R)
  BY <1>4, <1>5, SumSame
<1>9. SumFunctionOnSet(w, {f}) = w[f] /\ SumFunctionOnSet(v, {f}) = v[f]
  BY <1>0, <1>3, SumOne
<1>10. \A g \in R \cup {f} : w[g] \in Nat /\ v[g] \in Nat
  BY <1>3, <1>4
<1>11. /\ SumFunctionOnSet(w, R \cup {f}) = SumFunctionOnSet(w, R) + SumFunctionOnSet(w, {f})
       /\ SumFunctionOnSet(v, R \cup {f}) = SumFunctionOnSet(v, R) + SumFunctionOnSet(v, {f})
  BY <1>4, <1>10, SumSplit
<1>12. SumFunctionOnSet(v, R) \in Nat
  BY <1>4, <1>10, SumType
<1> QED
  BY <1>2, <1>3, <1>4, <1>6, <1>7, <1>8, <1>9, <1>11, <1>12

LEMMA TotalType ==
  ASSUME NEW fs \in [Files -> Seq(Records)], NEW c
  PROVE  Total(fs, c) \in Nat
<1> DEFINE w == [g \in Files |-> WeightOf(fs[g], c.i, c.j)]
<1>1. IsFiniteSet(Files)
  BY MergeAssumption, FirstNumbers DEF Files
<1>2. \A g \in Files : w[g] \in Nat
  BY WeightType
<1>3. Total(fs, c) = SumFunctionOnSet(w, Files)
  BY DEF Total, SumFunction
<1> HIDE DEF w
<1> QED
  BY <1>1, <1>2, <1>3, SumType

(* fout.write adds the weight of the record to its cell.                   *)
LEMMA WrittenWeighs ==
  ASSUME NEW s \in Seq(Records), NEW r \in Entry, NEW c
  PROVE  /\ Append(s, Plain(r)) \in Seq(Records)
         /\ WeightOf(Append(s, Plain(r)), c.i, c.j) \in Nat
         /\ WeightOf(Append(s, Plain(r)), c.i, c.j) = WeightOf(s, c.i, c.j) + Weigh(r, c)
<1>1. /\ Plain(r) \in Records
      /\ Weigh(r, c) = IF Plain(r).i = c.i /\ Plain(r).j = c.j THEN Plain(r).weight ELSE 0
  BY DEF Plain, Rec, Records, Entry, Weigh, SameCell
<1> DEFINE p == Plain(r)
<1> HIDE DEF p
<1>2. p \in Records /\ Weigh(r, c) = IF p.i = c.i /\ p.j = c.j THEN p.weight ELSE 0
  BY <1>1 DEF p
<1>3. /\ Append(s, p) \in Seq(Records)
      /\ WeightOf(Append(s, p), c.i, c.j) = WeightOf(s, c.i, c.j) + Weigh(r, c)
  BY <1>2, WeightOfAppend
<1>4. WeightOf(Append(s, p), c.i, c.j) \in Nat
  BY <1>3, WeightType
<1> QED
  BY <1>3, <1>4 DEF p

-----------------------------------------------------------------------------
(* The heap as a collection: which entries its places in S hold, h being   *)
(* the contents of the heap.                                               *)
Has(h, S, f) == \E p \in S : h[p].file = f
OneEach(h, S) == \A p, q \in S : h[p].file = h[q].file => p = q
InHeap(h, S, c) == SumFunctionOnSet([p \in S |-> Weigh(h[p], c)], S)

(* The entries of h at S are at T in g, each at one place.                 *)
Moved(h, S, g, T) ==
  /\ h \in [Files -> Entry] /\ g \in [Files -> Entry]
  /\ S \in SUBSET Files /\ T \in SUBSET Files
  /\ \E b \in Bijection(S, T) : \A p \in S : g[b[p]] = h[p]

(* g is h with r at place n.                                               *)
Stored(h, g, n, r) ==
  /\ h \in [Files -> Entry] /\ g \in [Files -> Entry]
  /\ n \in Files /\ r \in Entry
  /\ g[n] = r /\ \A p \in Files \ {n} : g[p] = h[p]

LEMMA EntryFacts ==
  ASSUME NEW h \in [Files -> Entry], NEW S \in SUBSET Files, NEW c
  PROVE  /\ IsFiniteSet(Files) /\ IsFiniteSet(S)
         /\ \A p \in S : Weigh(h[p], c) \in Nat
         /\ InHeap(h, S, c) \in Nat
<1>1. IsFiniteSet(Files)
  BY MergeAssumption, FirstNumbers DEF Files
<1>2. IsFiniteSet(S)
  BY <1>1, FS_Subset
<1>3. \A p \in S : Weigh(h[p], c) \in Nat
  BY DEF Weigh, Entry
<1> DEFINE w == [p \in S |-> Weigh(h[p], c)]
<1>4. \A p \in S : w[p] \in Nat
  BY <1>3
<1>5. InHeap(h, S, c) = SumFunctionOnSet(w, S)
  BY DEF InHeap
<1> HIDE DEF w
<1>6. SumFunctionOnSet(w, S) \in Nat
  BY <1>2, <1>4, SumType
<1> QED
  BY <1>1, <1>2, <1>3, <1>5, <1>6

(* Entries that are moved to other places are the same entries.            *)
LEMMA MovedAreSame ==
  ASSUME NEW h, NEW S, NEW g, NEW T, Moved(h, S, g, T), NEW c
  PROVE  /\ OneEach(h, S) => OneEach(g, T)
         /\ \A f \in Files : Has(g, T, f) <=> Has(h, S, f)
         /\ InHeap(g, T, c) = InHeap(h, S, c)
<1>0. /\ h \in [Files -> Entry] /\ g \in [Files -> Entry]
      /\ S \in SUBSET Files /\ T \in SUBSET Files
  BY DEF Moved
<1> PICK b \in Bijection(S, T) : \A p \in S : g[b[p]] = h[p]
  BY DEF Moved
<1>1. /\ \A p \in S : b[p] \in T
      /\ \A p, q \in S : b[p] = b[q] => p = q
      /\ \A t \in T : \E p \in S : b[p] = t
  BY DEF Bijection, Injection, Surjection, IsInjective
<1>2. OneEach(h, S) => OneEach(g, T)
  <2> SUFFICES ASSUME OneEach(h, S), NEW t \in T, NEW u \in T, g[t].file = g[u].file
               PROVE  t = u
    BY DEF OneEach
  <2>1. PICK p \in S : b[p] = t
    BY <1>1
  <2>2. PICK q \in S : b[q] = u
    BY <1>1
  <2>3. h[p].file = h[q].file
    BY <2>1, <2>2
  <2> QED
    BY <2>1, <2>2, <2>3 DEF OneEach
<1>3. ASSUME NEW f \in Files
      PROVE  Has(g, T, f) <=> Has(h, S, f)
  BY <1>1 DEF Has
<1>4. InHeap(g, T, c) = InHeap(h, S, c)
  <2> DEFINE w == [p \in S |-> Weigh(h[p], c)]
             v == [p \in T |-> Weigh(g[p], c)]
  <2>1. \A p \in S : w[p] \in Nat
    BY <1>0, EntryFacts
  <2>2. \A p \in S : v[b[p]] = w[p]
    BY <1>1
  <2>3. IsFiniteSet(S)
    BY <1>0, EntryFacts
  <2>4. InHeap(h, S, c) = SumFunctionOnSet(w, S) /\ InHeap(g, T, c) = SumFunctionOnSet(v, T)
    BY DEF InHeap
  <2> HIDE DEF w, v
  <2>5. SumFunctionOnSet(w, S) = SumFunctionOnSet(v, T)
    BY <2>1, <2>2, <2>3, SumRenamed
  <2> QED
    BY <2>4, <2>5
<1> QED
  BY <1>2, <1>3, <1>4

LEMMA UntouchedAreSame ==
  ASSUME NEW h \in [Files -> Entry], NEW g \in [Files -> Entry],
         NEW S \in SUBSET Files, \A p \in S : g[p] = h[p], NEW c
  PROVE  /\ OneEach(h, S) => OneEach(g, S)
         /\ \A f \in Files : Has(g, S, f) <=> Has(h, S, f)
         /\ InHeap(g, S, c) = InHeap(h, S, c)
<1> DEFINE b == [p \in S |-> p]
<1>1. b \in Bijection(S, S)
  BY DEF Bijection, Injection, Surjection, IsInjective
<1>2. \A p \in S : g[b[p]] = h[p]
  OBVIOUS
<1> HIDE DEF b
<1>3. Moved(h, S, g, S)
  BY <1>1, <1>2 DEF Moved
<1> QED
  BY <1>3, MovedAreSame

(* A swap of two places, as priority_queue::swap makes it.                 *)
LEMMA SwapKeeps ==
  ASSUME NEW h \in [Files -> Entry], NEW S \in SUBSET Files,
         NEW m \in S, NEW n \in S, NEW c
  PROVE  /\ Swapped(h, m, n) \in [Files -> Entry]
         /\ OneEach(h, S) => OneEach(Swapped(h, m, n), S)
         /\ \A f \in Files : Has(Swapped(h, m, n), S, f) <=> Has(h, S, f)
         /\ InHeap(Swapped(h, m, n), S, c) = InHeap(h, S, c)
<1> DEFINE g == Swapped(h, m, n)
           b == [p \in S |-> IF p = m THEN n ELSE IF p = n THEN m ELSE p]
<1>1. g \in [Files -> Entry]
  BY DEF Swapped
<1>2. g[m] = h[n] /\ g[n] = h[m] /\ \A p \in Files \ {m, n} : g[p] = h[p]
  BY DEF Swapped
<1>3. b[m] = n /\ b[n] = m /\ \A p \in S \ {m, n} : b[p] = p
  OBVIOUS
<1>4. b \in [S -> S]
  OBVIOUS
<1> HIDE DEF b, g
<1>5. b \in Bijection(S, S)
  <2>1. \A p, q \in S : b[p] = b[q] => p = q
    BY <1>3
  <2>2. \A t \in S : \E p \in S : b[p] = t
    BY <1>3
  <2> QED
    BY <1>4, <2>1, <2>2 DEF Bijection, Injection, Surjection, IsInjective
<1>6. \A p \in S : g[b[p]] = h[p]
  BY <1>2, <1>3
<1>7. /\ OneEach(h, S) => OneEach(g, S)
      /\ \A f \in Files : Has(g, S, f) <=> Has(h, S, f)
      /\ InHeap(g, S, c) = InHeap(h, S, c)
  <2>1. Moved(h, S, g, S)
    BY <1>1, <1>5, <1>6 DEF Moved
  <2> QED
    BY <2>1, MovedAreSame
<1> QED
  BY <1>1, <1>7 DEF g

(* One entry apart from the others.                                        *)
LEMMA EntryApart ==
  ASSUME NEW h \in [Files -> Entry], NEW S \in SUBSET Files, NEW n \in S, NEW c
  PROVE  InHeap(h, S, c) = Weigh(h[n], c) + InHeap(h, S \ {n}, c)
<1> DEFINE w == [p \in S |-> Weigh(h[p], c)]
           v == [p \in S \ {n} |-> Weigh(h[p], c)]
           R == S \ {n}
<1>1. \A p \in S : w[p] \in Nat /\ w[p] = Weigh(h[p], c)
  BY EntryFacts
<1>2. \A p \in R : v[p] = w[p] /\ w[p] \in Nat
  BY <1>1
<1>3. IsFiniteSet(S) /\ IsFiniteSet(R) /\ IsFiniteSet({n})
  <2>1. IsFiniteSet(S)
    BY EntryFacts
  <2> QED
    BY <2>1, FS_Subset
<1>4. R \cap {n} = {} /\ R \cup {n} = S
  OBVIOUS
<1>5. InHeap(h, S, c) = SumFunctionOnSet(w, S) /\ InHeap(h, R, c) = SumFunctionOnSet(v, R)
  BY DEF InHeap
<1> HIDE DEF w, v, R
<1>6. SumFunctionOnSet(w, R) = SumFunctionOnSet(v, R)
  BY <1>2, <1>3, SumSame
<1>7. SumFunctionOnSet(w, {n}) = w[n] /\ w[n] = Weigh(h[n], c)
  BY <1>1, SumOne
<1>8. \A p \in R \cup {n} : w[p] \in Nat
  BY <1>1, <1>4
<1>9. SumFunctionOnSet(w, R \cup {n}) = SumFunctionOnSet(w, R) + SumFunctionOnSet(w, {n})
  BY <1>3, <1>4, <1>8, SumSplit
<1>10. SumFunctionOnSet(w, R) \in Nat /\ w[n] \in Nat
  BY <1>1, <1>3, <1>8, SumType
<1>11. InHeap(h, S, c) = w[n] + InHeap(h, R, c)
  <2>1. InHeap(h, S, c) = SumFunctionOnSet(w, R) + SumFunctionOnSet(w, {n})
    BY <1>4, <1>5, <1>9
  <2>2. InHeap(h, S, c) = SumFunctionOnSet(w, R) + w[n]
    BY <1>7, <2>1
  <2> QED
    BY <1>5, <1>6, <1>10, <2>2
<1> QED
  BY <1>7, <1>11 DEF R

(* priority_queue::insert puts the new entry behind the others, before it  *)
(* is moved up.                                                            *)
LEMMA InsertAdds ==
  ASSUME NEW h, NEW g, NEW n, NEW r, Stored(h, g, n, r), NEW c
  PROVE  /\ OneEach(h, 0 .. n - 1) /\ ~ Has(h, 0 .. n - 1, r.file) => OneEach(g, 0 .. n)
         /\ \A f \in Files : Has(g, 0 .. n, f) <=> Has(h, 0 .. n - 1, f) \/ f = r.file
         /\ InHeap(g, 0 .. n, c) = Weigh(r, c) + InHeap(h, 0 .. n - 1, c)
<1> DEFINE S == 0 .. n - 1
           T == 0 .. n
<1>0. h \in [Files -> Entry] /\ n \in Files /\ r \in Entry
  BY DEF Stored
<1>1. g \in [Files -> Entry] /\ g[n] = r /\ \A p \in Files \ {n} : g[p] = h[p]
  BY DEF Stored
<1>2. /\ n \in Nat /\ S \in SUBSET Files /\ T \in SUBSET Files
      /\ n \in T /\ T \ {n} = S /\ T = S \cup {n} /\ n \notin S
  BY <1>0, MergeAssumption DEF Files
<1>3. \A p \in S : g[p] = h[p]
  BY <1>1, <1>2
<1> HIDE DEF S, T
<1>4. /\ OneEach(h, S) => OneEach(g, S)
      /\ \A f \in Files : Has(g, S, f) <=> Has(h, S, f)
      /\ InHeap(g, S, c) = InHeap(h, S, c)
  BY <1>0, <1>1, <1>2, <1>3, UntouchedAreSame
<1>5. ASSUME OneEach(h, S), ~ Has(h, S, r.file)
      PROVE  OneEach(g, T)
  <2>1. \A p \in S : g[p].file # g[n].file
    BY <1>1, <1>3, <1>5 DEF Has
  <2>2. \A p, q \in S : g[p].file = g[q].file => p = q
    BY <1>4, <1>5 DEF OneEach
  <2> QED
    BY <1>2, <2>1, <2>2 DEF OneEach
<1>6. ASSUME NEW f \in Files
      PROVE  Has(g, T, f) <=> Has(h, S, f) \/ f = r.file
  <2>1. Has(g, T, f) <=> Has(g, S, f) \/ f = g[n].file
    BY <1>2 DEF Has
  <2> QED
    BY <1>1, <1>4, <2>1
<1>7. InHeap(g, T, c) = Weigh(r, c) + InHeap(h, S, c)
  BY <1>1, <1>2, <1>4, EntryApart
<1> QED
  BY <1>1, <1>5, <1>6, <1>7 DEF S, T

(* priority_queue::remove puts the last entry in the place of the first.   *)
Dropped(h, g, n) == n \in Files /\ Stored(h, g, 0, h[n])

LEMMA RemoveTakes ==
  ASSUME NEW h, NEW g, NEW n, Dropped(h, g, n), OneEach(h, 0 .. n), NEW c
  PROVE  /\ h[0] \in Entry
         /\ OneEach(g, 0 .. n - 1)
         /\ ~ Has(g, 0 .. n - 1, h[0].file)
         /\ \A f \in Files : Has(h, 0 .. n, f) => f = h[0].file \/ Has(g, 0 .. n - 1, f)
         /\ InHeap(h, 0 .. n, c) = Weigh(h[0], c) + InHeap(g, 0 .. n - 1, c)
<1> DEFINE S == 0 .. n
           R == 1 .. n
           T == 0 .. n - 1
           b == [p \in R |-> IF p = n THEN 0 ELSE p]
<1>1. /\ 0 \in Files /\ h \in [Files -> Entry] /\ g \in [Files -> Entry]
      /\ g[0] = h[n] /\ \A p \in Files \ {0} : g[p] = h[p]
  BY DEF Dropped, Stored
<1>2. /\ n \in Nat /\ S \in SUBSET Files /\ R \in SUBSET Files /\ T \in SUBSET Files
      /\ 0 \in S /\ S \ {0} = R
  BY MergeAssumption DEF Dropped, Files
<1>3. b \in [R -> T]
  BY <1>2
<1>4. \A p \in R : b[p] = IF p = n THEN 0 ELSE p
  OBVIOUS
<1>5. \A p, q \in R : b[p] = b[q] => p = q
  BY <1>2
<1>6. \A t \in T : \E p \in R : b[p] = t
  <2>1. ASSUME NEW t \in T
        PROVE  \E p \in R : b[p] = t
    <3>1. CASE t = 0
      <4>1. n \in R
        BY <1>2, <3>1
      <4> QED
        BY <1>4, <3>1, <4>1
    <3>2. CASE t # 0
      <4>1. t \in R /\ t # n
        BY <1>2, <3>2
      <4> QED
        BY <1>4, <4>1
    <3> QED
      BY <3>1, <3>2
  <2> QED
    BY <2>1
<1>7. \A p \in R : p # 0 /\ p \in Files
  BY <1>2
<1> HIDE DEF S, R, T, b
<1>8. b \in Bijection(R, T)
  BY <1>3, <1>5, <1>6 DEF Bijection, Injection, Surjection, IsInjective
<1>9. \A p \in R : g[b[p]] = h[p]
  BY <1>1, <1>4, <1>7
<1>10. OneEach(h, R) /\ \A p \in R : h[p].file # h[0].file
  BY <1>2, <1>7 DEF OneEach, S, R
<1>11. /\ OneEach(h, R) => OneEach(g, T)
       /\ \A f \in Files : Has(g, T, f) <=> Has(h, R, f)
       /\ InHeap(g, T, c) = InHeap(h, R, c)
  <2>1. Moved(h, R, g, T)
    BY <1>1, <1>2, <1>8, <1>9 DEF Moved
  <2> QED
    BY <2>1, MovedAreSame
<1>12. InHeap(h, S, c) = Weigh(h[0], c) + InHeap(h, R, c)
  BY <1>1, <1>2, EntryApart
<1>13. h[0] \in Entry /\ h[0].file \in Files
  BY <1>1 DEF Entry
<1>14. ~ Has(h, R, h[0].file)
  BY <1>10 DEF Has
<1>15. \A f \in Files : Has(h, S, f) => f = h[0].file \/ Has(h, R, f)
  BY <1>2 DEF Has
<1> QED
  BY <1>1, <1>10, <1>11, <1>12, <1>13, <1>14, <1>15 DEF S, T

(* What remains to be read of a file is its end.                           *)
Rest(t, s) == \E n \in 0 .. Len(s) : t = SubSeq(s, n + 1, Len(s))

LEMMA RestOfRest ==
  ASSUME NEW s \in Seq(Records), NEW t, Rest(t, s)
  PROVE  t \in Seq(Records) /\ (t # << >> => Head(t) \in Records /\ Rest(Tail(t), s))
<1> PICK n \in 0 .. Len(s) : t = SubSeq(s, n + 1, Len(s))
  BY DEF Rest
<1>1. Len(s) \in Nat /\ DOMAIN s = 1 .. Len(s) /\ n \in Nat /\ n <= Len(s)
  OBVIOUS
<1>2. t \in Seq(Records)
  <2>1. n + 1 \in Int /\ Len(s) \in Int /\ \A m \in n + 1 .. Len(s) : s[m] \in Records
    BY <1>1
  <2> QED
    BY <2>1, SubSeqProperties
<1>3. ASSUME t # << >>
      PROVE  Head(t) \in Records /\ Rest(Tail(t), s)
  <2>1. n < Len(s)
    <3>1. CASE ~ n < Len(s)
      <4>1. n + 1 \in Int /\ Len(s) \in Int /\ Len(s) < n + 1
        BY <1>1, <3>1
      <4> QED
        BY <1>3, <4>1, SubSeqEmpty
    <3> QED
      BY <3>1
  <2>2. n + 1 \in 1 .. Len(s) /\ Len(s) \in n + 1 .. Len(s) /\ n + 1 \in 0 .. Len(s)
    BY <1>1, <2>1
  <2>3. Tail(t) = SubSeq(s, (n + 1) + 1, Len(s))
    BY <2>2, HeadTailOfSubSeq
  <2>4. Rest(Tail(t), s)
    BY <2>2, <2>3 DEF Rest
  <2> QED
    BY <1>2, <1>3, <2>4, HeadTailProperties
<1> QED
  BY <1>2, <1>3

(***************************************************************************)
(* The inductive invariant of merge_files.  OneEntryPerFile says that a    *)
(* file with records left is in the heap when a record is popped; between  *)
(* a pop and the read behind it the file of the popped record is not       *)
(* (OpenInv), and while the heap is filled only those already read are     *)
(* (FillInv).                                                              *)
(***************************************************************************)
HeapInv ==
  /\ OneEach(heap, Live)
  /\ phase = "up" => place \in Live

FillInv ==
  Filling =>
    /\ nums = FileAllNums
    /\ \A f \in Files : /\ Has(heap, Live, f) <=> f < cur
                        /\ f >= cur => fin[f] = input[f]

OpenInv ==
  /\ phase \in {"down", "read"} =>
       /\ nums > 0 /\ cur \in Files /\ ~ Has(heap, Live, cur)
       /\ \A f \in Files \ {cur} : fin[f] # << >> => Has(heap, Live, f)
  /\ phase \in {"up", "pop"} /\ ~ Filling =>
       \A f \in Files : fin[f] # << >> => Has(heap, Live, f)

MergeInv ==
  /\ input \in Inputs /\ fin \in [Files -> Seq(Records)]
  /\ MergeTypeOK /\ HeapInv /\ FillInv /\ OpenInv

(* The weight of cell c: what the files held is in the output, in the      *)
(* files, in old or in the heap.                                           *)
Balanced(c) ==
  Total(input, c) =
    WeightOf(fout, c.i, c.j) + Total(fin, c)
      + (IF Filling \/ phase = "done" THEN 0 ELSE Weigh(old, c))
      + (IF phase = "done" THEN 0 ELSE InHeap(heap, Live, c))

NoFileEmpty == \A g \in Inputs, f \in Files : g[f] # << >>

(* What the types say in a handier form.                                   *)
LEMMA MergeTypes ==
  ASSUME MergeInv
  PROVE  /\ input \in [Files -> Seq(Records)] /\ fin \in [Files -> Seq(Records)]
         /\ \A f \in Files : Rest(fin[f], input[f])
         /\ heap \in [Files -> Entry] /\ new \in Entry /\ old \in Entry
         /\ nums \in Nat /\ nums <= FileAllNums /\ cur \in Nat /\ cur <= FileAllNums
         /\ FileAllNums \in Nat /\ FileAllNums > 0 /\ Files = 0 .. FileAllNums - 1
         /\ place \in Nat /\ place < FileAllNums
         /\ fout \in Seq(Records) /\ Live \in SUBSET Files
<1>1. input \in [Files -> Seq(Records)]
  BY MergeAssumption DEF MergeInv, Records
<1>2. \A f \in Files : Rest(fin[f], input[f])
  BY DEF MergeInv, MergeTypeOK, Rest
<1>3. /\ heap \in [Files -> Entry] /\ new \in Entry /\ old \in Entry
      /\ nums \in 0 .. FileAllNums /\ cur \in 0 .. FileAllNums /\ place \in Files
      /\ fout \in Seq(Records) /\ fin \in [Files -> Seq(Records)]
  BY DEF MergeInv, MergeTypeOK, Records
<1>4. /\ nums \in Nat /\ nums <= FileAllNums /\ cur \in Nat /\ cur <= FileAllNums
      /\ FileAllNums \in Nat /\ FileAllNums > 0 /\ Files = 0 .. FileAllNums - 1
      /\ place \in Nat /\ place < FileAllNums
  BY <1>3, MergeAssumption DEF Files
<1>5. Live \in SUBSET Files
  BY <1>4 DEF Live
<1> QED
  BY <1>1, <1>2, <1>3, <1>4, <1>5

(* A comparison in the heap, with or without a swap, going up or down.     *)
LEMMA SiftKeeps ==
  ASSUME MergeInv, NEW c,
         UNCHANGED <<streams, records, nums, cur, fout, counter, back>>,
         heap' = heap \/ \E m, n \in Live : heap' = Swapped(heap, m, n),
         place' \in Files,
         \/ phase = "up" /\ phase' = "up" /\ place' \in Live
         \/ phase = "up" /\ phase' = back
         \/ phase = "down" /\ phase' \in {"down", "read"}
  PROVE  MergeInv' /\ (Balanced(c) => Balanced(c)')
<1>1. /\ heap' \in [Files -> Entry]
      /\ OneEach(heap', Live)
      /\ \A f \in Files : Has(heap', Live, f) <=> Has(heap, Live, f)
      /\ InHeap(heap', Live, c) = InHeap(heap, Live, c)
  <2>1. OneEach(heap, Live) /\ heap \in [Files -> Entry] /\ Live \in SUBSET Files
    BY MergeTypes DEF MergeInv, HeapInv
  <2>2. CASE heap' = heap
    BY <2>1, <2>2
  <2>3. ASSUME NEW m \in Live, NEW n \in Live, heap' = Swapped(heap, m, n)
        PROVE  /\ heap' \in [Files -> Entry]
               /\ OneEach(heap', Live)
               /\ \A f \in Files : Has(heap', Live, f) <=> Has(heap, Live, f)
               /\ InHeap(heap', Live, c) = InHeap(heap, Live, c)
    BY <2>1, <2>3, SwapKeeps
  <2> QED
    BY <2>2, <2>3
<1>2. /\ input' = input /\ fin' = fin /\ new' = new /\ old' = old /\ nums' = nums
      /\ cur' = cur /\ fout' = fout /\ counter' = counter /\ back' = back
  BY DEF streams, records
<1>3. /\ back \in {"fill", "pop"}
      /\ Filling' <=> Filling
      /\ Live' = Live
  <2>1. back \in {"fill", "pop"}
    BY DEF MergeInv, MergeTypeOK
  <2> QED
    BY <1>2, <2>1 DEF Filling, Live
<1>4. MergeTypeOK'
  BY <1>1, <1>2, <1>3 DEF MergeInv, MergeTypeOK
<1>5. HeapInv'
  BY <1>1, <1>3 DEF MergeInv, HeapInv
<1>6. FillInv'
  BY <1>1, <1>2, <1>3 DEF MergeInv, FillInv
<1>7. OpenInv'
  BY <1>1, <1>2, <1>3 DEF MergeInv, OpenInv, Filling
<1>8. MergeInv'
  BY <1>2, <1>4, <1>5, <1>6, <1>7 DEF MergeInv
<1>9. ASSUME Balanced(c)
      PROVE  Balanced(c)'
  BY <1>1, <1>2, <1>3, <1>9 DEF Balanced
<1> QED
  BY <1>8, <1>9

LEMMA SiftUpKeeps ==
  ASSUME MergeInv, SiftUp, NEW c
  PROVE  MergeInv' /\ (Balanced(c) => Balanced(c)')
<1>1. /\ place \in Live /\ Parent(place) \in Live
  <2>1. place \in Live /\ place \in Nat /\ nums \in Nat /\ cur \in Nat
    BY MergeTypes DEF SiftUp, MergeInv, HeapInv
  <2>2. Parent(place) \in Nat /\ Parent(place) <= place
    BY <2>1 DEF Parent
  <2> QED
    BY <2>1, <2>2 DEF Live, SiftUp
<1>2. Live \in SUBSET Files
  BY MergeTypes
<1>3. UNCHANGED <<streams, records, nums, cur, fout, counter, back>> /\ phase = "up"
  BY DEF SiftUp
<1>4. CASE Greater(heap[Parent(place)], heap[place])
  <2>1. heap' = Swapped(heap, Parent(place), place) /\ place' = Parent(place) /\ phase' = "up"
    BY <1>4 DEF SiftUp
  <2>2. place' \in Live /\ place' \in Files /\ \E m, n \in Live : heap' = Swapped(heap, m, n)
    BY <1>1, <1>2, <2>1
  <2> QED
    BY <1>3, <2>1, <2>2, SiftKeeps
<1>5. CASE ~ Greater(heap[Parent(place)], heap[place])
  <2>1. heap' = heap /\ place' = place /\ phase' = back
    BY <1>5 DEF SiftUp
  <2>2. place' \in Files
    BY <1>1, <1>2, <2>1
  <2> QED
    BY <1>3, <2>1, <2>2, SiftKeeps
<1> QED
  BY <1>4, <1>5

LEMMA SiftDownKeeps ==
  ASSUME MergeInv, SiftDown, NEW c
  PROVE  MergeInv' /\ (Balanced(c) => Balanced(c)')
<1>1. /\ UNCHANGED <<streams, records, nums, cur, fout, counter, back>> /\ phase = "down"
      /\ Live \in SUBSET Files /\ place \in Files /\ place \in Nat /\ nums \in Nat
      /\ Live = 0 .. nums - 2
  <2>1. /\ Live \in SUBSET Files /\ place \in Files /\ place \in Nat /\ nums \in Nat
    BY MergeTypes DEF MergeInv, MergeTypeOK
  <2> QED
    BY <2>1 DEF SiftDown, Live
<1>2. CASE 2 * place + 1 < nums - 1 /\ Greater(heap[place], heap[Child(place)])
  <2>1. /\ heap' = Swapped(heap, place, Child(place)) /\ place' = Child(place)
        /\ phase' = IF 2 * place + 1 = nums - 2 THEN "read" ELSE "down"
    BY <1>2 DEF SiftDown
  <2>2. place \in Live
    BY <1>1, <1>2
  <2>3. Child(place) \in Live
    <3>1. \/ Child(place) = 2 * place + 1
          \/ Child(place) = 2 * place + 1 + 1 /\ 2 * place + 1 # nums - 2
      BY DEF Child
    <3> QED
      BY <1>1, <1>2, <3>1
  <2>4. place' \in Files /\ phase' \in {"down", "read"} /\ \E m, n \in Live : heap' = Swapped(heap, m, n)
    BY <1>1, <2>1, <2>2, <2>3
  <2> QED
    BY <1>1, <2>4, SiftKeeps
<1>3. CASE ~ (2 * place + 1 < nums - 1 /\ Greater(heap[place], heap[Child(place)]))
  <2>1. heap' = heap /\ place' = place /\ phase' = "read"
    BY <1>3 DEF SiftDown
  <2>2. place' \in Files
    BY <1>1, <2>1
  <2> QED
    BY <1>1, <2>1, <2>2, SiftKeeps
<1> QED
  BY <1>2, <1>3

(* Reading a record takes it, and its weight, off the file.                *)
LEMMA ReadKeeps ==
  ASSUME MergeInv, NEW f \in Files, fin[f] # << >>, fin' = [fin EXCEPT ![f] = Tail(@)], NEW c
  PROVE  /\ ReadFrom(fin, f, fin')
         /\ \A g \in Files : Rest(fin'[g], input[g])
         /\ Tagged(Head(fin[f]), f) \in Entry
         /\ Tagged(Head(fin[f]), f).file = f
         /\ Total(fin, c) = Weigh(Tagged(Head(fin[f]), f), c) + Total(fin', c)
         /\ Total(fin', c) \in Nat
<1>1. fin \in [Files -> Seq(Records)] /\ \A g \in Files : Rest(fin[g], input[g])
  BY MergeTypes
<1>2. Head(fin[f]) \in Records /\ Rest(Tail(fin[f]), input[f])
  <2>1. input[f] \in Seq(Records)
    BY MergeTypes
  <2> QED
    BY <1>1, <2>1, RestOfRest
<1>3. ReadFrom(fin, f, fin')
  <2>1. Tail(fin[f]) \in Seq(Records)
    BY <1>1, WeightOfTail
  <2> QED
    BY <1>1, <2>1 DEF ReadFrom
<1>4. /\ Total(fin', c) \in Nat
      /\ Total(fin, c) = Weigh(Head(fin[f]), c) + Total(fin', c)
  BY <1>3, TotalOfRead
<1>5. \A g \in Files : Rest(fin'[g], input[g])
  BY <1>1, <1>2, <1>3 DEF ReadFrom
<1>6. /\ Tagged(Head(fin[f]), f) \in Entry /\ Tagged(Head(fin[f]), f).file = f
      /\ Weigh(Tagged(Head(fin[f]), f), c) = Weigh(Head(fin[f]), c)
  BY <1>2 DEF Tagged, Entry, Records, Weigh, SameCell
<1> QED
  BY <1>3, <1>4, <1>5, <1>6

LEMMA FillKeeps ==
  ASSUME MergeInv, Fill, NEW c
  PROVE  MergeInv' /\ (NoFileEmpty /\ Balanced(c) => Balanced(c)')
<1>1. /\ input' = input /\ old' = old /\ nums' = nums /\ fout' = fout /\ counter' = counter
      /\ cur' = cur + 1 /\ phase = "fill" /\ phase' = "up" /\ back' = "fill" /\ place' = cur
      /\ heap' = [heap EXCEPT ![cur] = new'] /\ cur \in Files /\ cur \in Nat /\ cur < FileAllNums
  <2>1. cur \in Nat /\ FileAllNums \in Nat /\ Files = 0 .. FileAllNums - 1 /\ cur < FileAllNums
    BY MergeTypes DEF Fill
  <2>2. (cur + 1) - 1 = cur /\ cur \in Files
    BY <2>1
  <2> QED
    BY <2>1, <2>2 DEF Fill, Insert
<1>2. /\ fin' \in [Files -> Seq(Records)] /\ \A f \in Files : Rest(fin'[f], input[f])
      /\ \A f \in Files \ {cur} : fin'[f] = fin[f]
      /\ new' \in Entry /\ new'.file = cur
      /\ NoFileEmpty => Total(fin, c) = Weigh(new', c) + Total(fin', c) /\ Total(fin', c) \in Nat
  <2>1. CASE fin[cur] = << >>
    <3>1. fin' = fin /\ new' = Tagged(new, cur)
      BY <2>1 DEF Fill
    <3>2. ~ NoFileEmpty
      <4>1. fin[cur] = input[cur]
        BY <1>1 DEF MergeInv, FillInv, Filling
      <4> QED
        BY <1>1, <2>1, <4>1 DEF MergeInv, NoFileEmpty
    <3>3. new' \in Entry /\ new'.file = cur
      <4>1. new \in Entry
        BY MergeTypes
      <4> QED
        BY <1>1, <3>1, <4>1 DEF Tagged, Entry
    <3> QED
      BY <3>1, <3>2, <3>3, MergeTypes
  <2>2. CASE fin[cur] # << >>
    <3>1. fin' = [fin EXCEPT ![cur] = Tail(@)] /\ new' = Tagged(Head(fin[cur]), cur)
      BY <2>2 DEF Fill
    <3>2. /\ ReadFrom(fin, cur, fin') /\ \A f \in Files : Rest(fin'[f], input[f])
          /\ new' \in Entry /\ new'.file = cur
          /\ Total(fin, c) = Weigh(new', c) + Total(fin', c) /\ Total(fin', c) \in Nat
      BY <1>1, <2>2, <3>1, ReadKeeps
    <3> QED
      BY <3>2 DEF ReadFrom
  <2> QED
    BY <2>1, <2>2
<1>3. /\ Filling /\ Filling' /\ Live = 0 .. cur - 1 /\ Live' = 0 .. cur
      /\ nums = FileAllNums
  <2>1. Filling /\ Filling' /\ Live = 0 .. cur - 1
    BY <1>1 DEF Filling, Live
  <2>2. Live' = 0 .. (cur + 1) - 1
    BY <1>1, <2>1 DEF Live
  <2>3. (cur + 1) - 1 = cur
    BY <1>1
  <2> QED
    BY <2>1, <2>2, <2>3 DEF MergeInv, FillInv
<1>4. /\ OneEach(heap, 0 .. cur - 1)
      /\ \A f \in Files : Has(heap, 0 .. cur - 1, f) <=> f < cur
      /\ \A f \in Files : f >= cur => fin[f] = input[f]
  BY <1>3 DEF MergeInv, HeapInv, FillInv
<1>5. /\ heap' \in [Files -> Entry]
      /\ OneEach(heap', 0 .. cur)
      /\ \A f \in Files : Has(heap', 0 .. cur, f) <=> Has(heap, 0 .. cur - 1, f) \/ f = cur
      /\ InHeap(heap', 0 .. cur, c) = Weigh(new', c) + InHeap(heap, 0 .. cur - 1, c)
  <2>1. ~ Has(heap, 0 .. cur - 1, cur)
    BY <1>1, <1>4
  <2>2. heap \in [Files -> Entry]
    BY MergeTypes
  <2>3. Stored(heap, heap', cur, new')
    BY <1>1, <1>2, <2>2 DEF Stored
  <2>4. heap' \in [Files -> Entry]
    BY <2>3 DEF Stored
  <2>5. /\ OneEach(heap, 0 .. cur - 1) /\ ~ Has(heap, 0 .. cur - 1, new'.file) => OneEach(heap', 0 .. cur)
        /\ \A f \in Files : Has(heap', 0 .. cur, f) <=> Has(heap, 0 .. cur - 1, f) \/ f = new'.file
        /\ InHeap(heap', 0 .. cur, c) = Weigh(new', c) + InHeap(heap, 0 .. cur - 1, c)
    BY <2>3, InsertAdds
  <2> QED
    BY <1>2, <1>4, <2>1, <2>4, <2>5
<1>6. MergeTypeOK'
  <2>1. cur' \in 0 .. FileAllNums /\ place' \in Files
    BY <1>1, MergeTypes
  <2> QED
    BY <1>1, <1>2, <1>5, <2>1 DEF MergeInv, MergeTypeOK, Rest
<1>7. HeapInv'
  BY <1>1, <1>3, <1>5 DEF HeapInv
<1>8. FillInv'
  <2>1. ASSUME NEW f \in Files
        PROVE  /\ Has(heap', 0 .. cur, f) <=> f < cur + 1
               /\ f >= cur + 1 => fin'[f] = input[f]
    <3>1. f \in Nat
      BY MergeTypes
    <3>2. Has(heap', 0 .. cur, f) <=> f < cur \/ f = cur
      BY <1>4, <1>5
    <3>3. f >= cur + 1 => f >= cur /\ f # cur
      BY <1>1, <3>1
    <3>4. f >= cur + 1 => fin'[f] = input[f]
      BY <1>2, <1>4, <3>3
    <3> QED
      BY <1>1, <3>1, <3>2, <3>4
  <2> QED
    BY <1>1, <1>3, <2>1 DEF FillInv
<1>9. OpenInv'
  BY <1>1, <1>3 DEF OpenInv
<1>10. ASSUME NoFileEmpty, Balanced(c)
       PROVE  Balanced(c)'
  <2>1. Total(input, c) = WeightOf(fout, c.i, c.j) + Total(fin, c) + 0 + InHeap(heap, 0 .. cur - 1, c)
    BY <1>1, <1>3, <1>10 DEF Balanced
  <2>2. Total(fin, c) = Weigh(new', c) + Total(fin', c) /\ Total(fin', c) \in Nat
    BY <1>2, <1>10
  <2>3. /\ WeightOf(fout, c.i, c.j) \in Nat /\ Weigh(new', c) \in Nat
        /\ InHeap(heap, 0 .. cur - 1, c) \in Nat
    <3>1. fout \in Seq(Records) /\ heap \in [Files -> Entry] /\ 0 .. cur - 1 \in SUBSET Files
      BY <1>3, MergeTypes
    <3>2. Weigh(new', c) \in Nat
      BY <1>2 DEF Weigh, Entry
    <3> QED
      BY <3>1, <3>2, WeightType, EntryFacts
  <2>4. Total(input, c) = WeightOf(fout, c.i, c.j) + Total(fin', c) + 0 + InHeap(heap', 0 .. cur, c)
    BY <1>5, <2>1, <2>2, <2>3
  <2> QED
    BY <1>1, <1>3, <2>4 DEF Balanced
<1> QED
  BY <1>1, <1>2, <1>6, <1>7, <1>8, <1>9, <1>10 DEF MergeInv

(* que.top() and que.remove: the first entry leaves the heap.              *)
LEMMA TopLeaves ==
  ASSUME MergeInv, nums > 0, Live = 0 .. nums - 1, RemoveTop,
         nums' = nums, cur' = heap[0].file, NEW c
  PROVE  /\ heap' \in [Files -> Entry] /\ heap[0] \in Entry
         /\ cur' \in Files /\ place' \in Files
         /\ phase' = "down" /\ ~ Filling' /\ Live' = 0 .. nums - 2
         /\ OneEach(heap', Live') /\ ~ Has(heap', Live', cur')
         /\ \A f \in Files : Has(heap, Live, f) => f = cur' \/ Has(heap', Live', f)
         /\ InHeap(heap, Live, c) = Weigh(heap[0], c) + InHeap(heap', Live', c)
<1>1. /\ heap \in [Files -> Entry] /\ 0 \in Files /\ nums \in Nat /\ nums - 1 \in Files
      /\ (nums - 1) - 1 = nums - 2
  BY MergeTypes
<1>2. PICK n \in Files : n = nums - 1
  BY <1>1
<1>3. 0 .. nums - 1 = 0 .. n /\ 0 .. nums - 2 = 0 .. n - 1
  BY <1>1, <1>2
<1>4. heap' = [heap EXCEPT ![0] = heap[n]] /\ place' = 0 /\ phase' = "down"
  BY <1>2 DEF RemoveTop
<1>5. Dropped(heap, heap', n)
  BY <1>1, <1>4 DEF Dropped, Stored
<1>6. heap' \in [Files -> Entry]
  BY <1>5 DEF Dropped, Stored
<1>7. OneEach(heap, 0 .. n)
  BY <1>3 DEF MergeInv, HeapInv
<1>8. /\ heap[0] \in Entry
      /\ OneEach(heap', 0 .. n - 1)
      /\ ~ Has(heap', 0 .. n - 1, heap[0].file)
      /\ \A f \in Files : Has(heap, 0 .. n, f) =>
           f = heap[0].file \/ Has(heap', 0 .. n - 1, f)
      /\ InHeap(heap, 0 .. n, c) = Weigh(heap[0], c) + InHeap(heap', 0 .. n - 1, c)
  BY <1>5, <1>7, RemoveTakes
<1>9. Live' = 0 .. nums - 2 /\ ~ Filling'
  BY <1>4 DEF Live, Filling
<1>10. heap[0].file \in Files
  BY <1>8 DEF Entry
<1> QED
  BY <1>1, <1>3, <1>4, <1>6, <1>8, <1>9, <1>10

LEMMA PopFirstKeeps ==
  ASSUME MergeInv, PopFirst, NEW c
  PROVE  MergeInv' /\ (Balanced(c) => Balanced(c)')
<1>1. /\ input' = input /\ fin' = fin /\ new' = new /\ nums' = nums /\ fout' = fout
      /\ counter' = counter /\ back' = back /\ old' = heap[0] /\ cur' = heap[0].file
      /\ RemoveTop /\ phase = "fill" /\ cur = FileAllNums
  BY DEF PopFirst, streams
<1>2. Filling /\ nums = FileAllNums /\ Live = 0 .. nums - 1 /\ nums > 0
  <2>1. Filling /\ Live = 0 .. cur - 1
    BY <1>1 DEF Filling, Live
  <2> QED
    BY <1>1, <2>1, MergeTypes DEF MergeInv, FillInv
<1>3. /\ heap' \in [Files -> Entry] /\ heap[0] \in Entry
      /\ cur' \in Files /\ place' \in Files
      /\ phase' = "down" /\ ~ Filling' /\ Live' = 0 .. nums - 2
      /\ OneEach(heap', Live') /\ ~ Has(heap', Live', cur')
      /\ \A f \in Files : Has(heap, Live, f) => f = cur' \/ Has(heap', Live', f)
      /\ InHeap(heap, Live, c) = Weigh(heap[0], c) + InHeap(heap', Live', c)
  BY <1>1, <1>2, TopLeaves
<1>4. MergeTypeOK'
  <2>1. cur' \in 0 .. FileAllNums
    BY <1>3, MergeTypes
  <2> QED
    BY <1>1, <1>3, <2>1 DEF MergeInv, MergeTypeOK
<1>5. HeapInv' /\ FillInv'
  BY <1>3 DEF HeapInv, FillInv
<1>6. OpenInv'
  <2>1. \A f \in Files : Has(heap, Live, f)
    BY <1>1, <1>2, MergeTypes DEF MergeInv, FillInv
  <2> QED
    BY <1>1, <1>2, <1>3, <2>1 DEF OpenInv
<1>7. ASSUME Balanced(c)
      PROVE  Balanced(c)'
  <2>1. Total(input, c) = WeightOf(fout, c.i, c.j) + Total(fin, c) + 0 + InHeap(heap, Live, c)
    BY <1>1, <1>2, <1>7 DEF Balanced
  <2>2. /\ WeightOf(fout, c.i, c.j) \in Nat /\ Total(fin, c) \in Nat
        /\ Weigh(heap[0], c) \in Nat /\ InHeap(heap', Live', c) \in Nat
    <3>1. fout \in Seq(Records) /\ fin \in [Files -> Seq(Records)] /\ Live' \in SUBSET Files
      BY <1>3, MergeTypes
    <3>2. Weigh(heap[0], c) \in Nat
      BY <1>3 DEF Weigh, Entry
    <3> QED
      BY <1>3, <3>1, <3>2, WeightType, EntryFacts, TotalType
  <2>3. Total(input, c) = WeightOf(fout, c.i, c.j) + Total(fin, c) + Weigh(heap[0], c) + InHeap(heap', Live', c)
    BY <1>3, <2>1, <2>2
  <2> QED
    BY <1>1, <1>3, <2>3 DEF Balanced
<1> QED
  BY <1>1, <1>4, <1>5, <1>6, <1>7 DEF MergeInv

LEMMA PopNextKeeps ==
  ASSUME MergeInv, PopNext, NEW c
  PROVE  MergeInv' /\ (Balanced(c) => Balanced(c)')
<1>1. /\ input' = input /\ fin' = fin /\ new' = new /\ nums' = nums
      /\ back' = back /\ cur' = heap[0].file
      /\ RemoveTop /\ phase = "pop" /\ nums > 0 /\ ~ Filling /\ Live = 0 .. nums - 1
  BY DEF PopNext, streams, Filling, Live
<1>2. /\ heap' \in [Files -> Entry] /\ heap[0] \in Entry
      /\ cur' \in Files /\ place' \in Files
      /\ phase' = "down" /\ ~ Filling' /\ Live' = 0 .. nums - 2
      /\ OneEach(heap', Live') /\ ~ Has(heap', Live', cur')
      /\ \A f \in Files : Has(heap, Live, f) => f = cur' \/ Has(heap', Live', f)
      /\ InHeap(heap, Live, c) = Weigh(heap[0], c) + InHeap(heap', Live', c)
  BY <1>1, TopLeaves
<1>3. /\ fout \in Seq(Records) /\ fin \in [Files -> Seq(Records)] /\ Live' \in SUBSET Files
      /\ old \in Entry /\ counter \in Nat
  <2>1. Live' \in SUBSET Files
    BY <1>2, MergeTypes
  <2>2. fout \in Seq(Records) /\ fin \in [Files -> Seq(Records)] /\ old \in Entry
    BY MergeTypes
  <2>3. counter \in Nat
    BY DEF MergeInv, MergeTypeOK
  <2> QED
    BY <2>1, <2>2, <2>3
<1>4. /\ fout' \in Seq(Records) /\ counter' \in Nat /\ old' \in Entry
      /\ WeightOf(fout', c.i, c.j) \in Nat /\ Weigh(old', c) \in Nat
      /\ WeightOf(fout', c.i, c.j) + Weigh(old', c)
           = WeightOf(fout, c.i, c.j) + Weigh(old, c) + Weigh(heap[0], c)
  <2>1. /\ WeightOf(fout, c.i, c.j) \in Nat /\ Weigh(old, c) \in Nat /\ Weigh(heap[0], c) \in Nat
    <3>1. Weigh(old, c) \in Nat /\ Weigh(heap[0], c) \in Nat
      BY <1>2, <1>3 DEF Weigh, Entry
    <3> QED
      BY <1>3, <3>1, WeightType
  <2>2. CASE SameCell(heap[0], old)
    <3>1. old' = Joined(old, heap[0]) /\ fout' = fout /\ counter' = counter
      BY <2>2 DEF PopNext
    <3>2. old' \in Entry /\ Weigh(old', c) = Weigh(old, c) + Weigh(heap[0], c)
      <4> DEFINE h == heap[0]
      <4>1. h \in Entry /\ h.i = old.i /\ h.j = old.j /\ old' = [old EXCEPT !.weight = @ + h.weight]
        BY <1>2, <2>2, <3>1 DEF SameCell, Joined
      <4> HIDE DEF h
      <4>2. h.weight \in Nat /\ old.weight \in Nat
        BY <1>3, <4>1 DEF Entry
      <4>3. /\ old' \in Entry
            /\ old'.i = old.i /\ old'.j = old.j /\ old'.weight = old.weight + h.weight
        <5>1. PICK sum \in Nat : sum = old.weight + h.weight
          BY <4>2
        <5>2. old' = [old EXCEPT !.weight = sum]
          BY <4>1, <5>1
        <5>3. old \in [i : Nat, j : Nat, weight : Nat, file : Files]
          BY <1>3 DEF Entry
        <5>4. /\ old' \in [i : Nat, j : Nat, weight : Nat, file : Files]
              /\ old'.i = old.i /\ old'.j = old.j /\ old'.weight = sum
          BY <5>2, <5>3
        <5> QED
          BY <5>1, <5>4 DEF Entry
      <4>4. Weigh(old', c) = Weigh(old, c) + Weigh(h, c)
        BY <4>1, <4>2, <4>3 DEF Weigh, SameCell
      <4> QED
        BY <4>3, <4>4 DEF h
    <3> QED
      BY <1>3, <2>1, <3>1, <3>2
  <2>3. CASE ~ SameCell(heap[0], old)
    <3>1. old' = heap[0] /\ fout' = Append(fout, Plain(old)) /\ counter' = counter + 1
      BY <2>3 DEF PopNext
    <3>2. /\ fout' \in Seq(Records) /\ WeightOf(fout', c.i, c.j) \in Nat
          /\ WeightOf(fout', c.i, c.j) = WeightOf(fout, c.i, c.j) + Weigh(old, c)
      BY <1>3, <3>1, WrittenWeighs
    <3> QED
      BY <1>2, <1>3, <2>1, <3>1, <3>2
  <2> QED
    BY <2>2, <2>3
<1>5. MergeTypeOK'
  <2>1. cur' \in 0 .. FileAllNums
    BY <1>2, MergeTypes
  <2> QED
    BY <1>1, <1>2, <1>4, <2>1 DEF MergeInv, MergeTypeOK, Records
<1>6. HeapInv' /\ FillInv'
  BY <1>2 DEF HeapInv, FillInv
<1>7. OpenInv'
  <2>1. \A f \in Files : fin[f] # << >> => Has(heap, Live, f)
    BY <1>1 DEF MergeInv, OpenInv
  <2> QED
    BY <1>1, <1>2, <2>1 DEF OpenInv
<1>8. ASSUME Balanced(c)
      PROVE  Balanced(c)'
  <2>1. Total(input, c) = WeightOf(fout, c.i, c.j) + Total(fin, c) + Weigh(old, c) + InHeap(heap, Live, c)
    BY <1>1, <1>8 DEF Balanced
  <2>2. /\ WeightOf(fout, c.i, c.j) \in Nat /\ Total(fin, c) \in Nat /\ Weigh(old, c) \in Nat
        /\ Weigh(heap[0], c) \in Nat /\ InHeap(heap', Live', c) \in Nat
    <3>1. Weigh(old, c) \in Nat /\ Weigh(heap[0], c) \in Nat
      BY <1>2, <1>3 DEF Weigh, Entry
    <3> QED
      BY <1>2, <1>3, <3>1, WeightType, EntryFacts, TotalType
  <2> DEFINE all == Total(input, c)
             o == WeightOf(fout, c.i, c.j)
             r == Total(fin, c)
             w == Weigh(old, c)
             t == Weigh(heap[0], c)
             q == InHeap(heap', Live', c)
             p == WeightOf(fout', c.i, c.j)
             v == Weigh(old', c)
  <2>3. /\ o \in Nat /\ r \in Nat /\ w \in Nat /\ t \in Nat /\ q \in Nat /\ p \in Nat /\ v \in Nat
        /\ all = o + r + w + (t + q)
        /\ p + v = o + w + t
    BY <1>2, <1>4, <2>1, <2>2
  <2>4. all = p + r + v + q
    <3> HIDE DEF all, o, r, w, t, q, p, v
    <3> QED
      BY <2>3
  <2> QED
    BY <1>1, <1>2, <2>4 DEF Balanced
<1> QED
  BY <1>1, <1>3, <1>5, <1>6, <1>7, <1>8 DEF MergeInv

LEMMA RefillKeeps ==
  ASSUME MergeInv, Refill, NEW c
  PROVE  MergeInv' /\ (Balanced(c) => Balanced(c)')
<1>1. /\ phase = "read" /\ ~ Filling /\ Live = 0 .. nums - 2
      /\ nums > 0 /\ cur \in Files /\ ~ Has(heap, Live, cur)
      /\ \A f \in Files \ {cur} : fin[f] # << >> => Has(heap, Live, f)
      /\ OneEach(heap, Live)
      /\ input' = input /\ old' = old /\ cur' = cur /\ fout' = fout /\ counter' = counter
  <2>1. phase = "read" /\ ~ Filling /\ Live = 0 .. nums - 2
    BY DEF Refill, Filling, Live
  <2> QED
    BY <2>1 DEF MergeInv, OpenInv, HeapInv, Refill
<1>2. nums \in Nat /\ nums <= FileAllNums /\ FileAllNums \in Nat /\ heap \in [Files -> Entry]
  BY MergeTypes
<1>3. CASE fin[cur] = << >>
  <2>1. /\ nums' = nums - 1 /\ phase' = "pop" /\ fin' = fin /\ new' = new
        /\ heap' = heap /\ place' = place /\ back' = back
    BY <1>3 DEF Refill
  <2>2. ~ Filling' /\ Live' = Live
    <3>1. ~ Filling' /\ Live' = 0 .. (nums - 1) - 1 /\ (nums - 1) - 1 = nums - 2
      BY <1>2, <2>1 DEF Filling, Live
    <3> QED
      BY <1>1, <3>1
  <2>3. MergeTypeOK'
    <3>1. nums' \in 0 .. FileAllNums
      BY <1>1, <1>2, <2>1
    <3> QED
      BY <1>1, <2>1, <3>1 DEF MergeInv, MergeTypeOK
  <2>4. HeapInv' /\ FillInv' /\ OpenInv'
    BY <1>1, <1>3, <2>1, <2>2 DEF HeapInv, FillInv, OpenInv
  <2>5. ASSUME Balanced(c)
        PROVE  Balanced(c)'
    BY <1>1, <2>1, <2>2, <2>5 DEF Balanced
  <2> QED
    BY <1>1, <2>1, <2>3, <2>4, <2>5 DEF MergeInv
<1>4. CASE fin[cur] # << >>
  <2>1. /\ nums' = nums /\ phase' = "up" /\ back' = "pop" /\ place' = nums - 1
        /\ fin' = [fin EXCEPT ![cur] = Tail(@)] /\ new' = Tagged(Head(fin[cur]), cur)
        /\ heap' = [heap EXCEPT ![nums - 1] = new']
    BY <1>4 DEF Refill, Insert
  <2>2. /\ ReadFrom(fin, cur, fin') /\ \A f \in Files : Rest(fin'[f], input[f])
        /\ new' \in Entry /\ new'.file = cur
        /\ Total(fin, c) = Weigh(new', c) + Total(fin', c) /\ Total(fin', c) \in Nat
    BY <1>1, <1>4, <2>1, ReadKeeps
  <2>3. /\ fin' \in [Files -> Seq(Records)]
        /\ \A f \in Files \ {cur} : fin'[f] = fin[f]
    BY <2>2 DEF ReadFrom
  <2>4. PICK n \in Files : n = nums - 1
    BY <1>1, <1>2 DEF Files
  <2>5. ~ Filling' /\ Live' = 0 .. n /\ Live = 0 .. n - 1 /\ n \in Live' /\ place' = n
    <3>1. ~ Filling' /\ Live' = 0 .. nums - 1
      BY <2>1 DEF Filling, Live
    <3>2. 0 .. nums - 2 = 0 .. n - 1 /\ n \in 0 .. nums - 1
      BY <1>1, <1>2, <2>4
    <3> QED
      BY <1>1, <2>1, <2>4, <3>1, <3>2
  <2>6. Stored(heap, heap', n, new')
    BY <1>2, <2>1, <2>2, <2>4 DEF Stored
  <2>7. heap' \in [Files -> Entry]
    BY <2>6 DEF Stored
  <2>8. /\ OneEach(heap, 0 .. n - 1) /\ ~ Has(heap, 0 .. n - 1, new'.file) => OneEach(heap', 0 .. n)
        /\ \A f \in Files : Has(heap', 0 .. n, f) <=> Has(heap, 0 .. n - 1, f) \/ f = new'.file
        /\ InHeap(heap', 0 .. n, c) = Weigh(new', c) + InHeap(heap, 0 .. n - 1, c)
    BY <2>6, InsertAdds
  <2>9. /\ OneEach(heap', Live')
        /\ \A f \in Files : Has(heap', Live', f) <=> Has(heap, Live, f) \/ f = cur
        /\ InHeap(heap', Live', c) = Weigh(new', c) + InHeap(heap, Live, c)
    BY <1>1, <2>2, <2>5, <2>8
  <2>10. MergeTypeOK'
    BY <1>1, <2>1, <2>2, <2>5, <2>7 DEF MergeInv, MergeTypeOK, Rest
  <2>11. HeapInv' /\ FillInv' /\ OpenInv'
    BY <1>1, <2>1, <2>3, <2>5, <2>9 DEF HeapInv, FillInv, OpenInv
  <2>12. ASSUME Balanced(c)
         PROVE  Balanced(c)'
    <3> DEFINE o == WeightOf(fout, c.i, c.j)
               w == Weigh(old, c)
               q == InHeap(heap, Live, c)
               t == Weigh(new', c)
               all == Total(input, c)
               r == Total(fin', c)
    <3>1. all = o + Total(fin, c) + w + q
      BY <1>1, <2>12 DEF Balanced
    <3>2. o \in Nat /\ w \in Nat /\ q \in Nat /\ t \in Nat /\ r \in Nat
      <4>1. fout \in Seq(Records) /\ old \in Entry /\ Live \in SUBSET Files
        BY MergeTypes
      <4>2. w \in Nat /\ t \in Nat
        BY <2>2, <4>1 DEF Weigh, Entry
      <4> QED
        BY <1>2, <2>2, <4>1, <4>2, WeightType, EntryFacts
    <3>3. all = o + (t + r) + w + q /\ InHeap(heap', Live', c) = t + q
      BY <2>2, <2>9, <3>1
    <3>4. all = o + r + w + (t + q)
      <4> HIDE DEF o, w, q, t, all, r
      <4> QED
        BY <3>2, <3>3
    <3> QED
      BY <1>1, <2>1, <2>5, <3>3, <3>4 DEF Balanced
  <2> QED
    BY <1>1, <2>3, <2>10, <2>11, <2>12 DEF MergeInv
<1> QED
  BY <1>3, <1>4

LEMMA WriteLastKeeps ==
  ASSUME MergeInv, WriteLast, NEW c
  PROVE  MergeInv' /\ (Balanced(c) => Balanced(c)')
<1>1. /\ input' = input /\ fin' = fin /\ heap' = heap /\ new' = new /\ old' = old
      /\ nums' = nums /\ cur' = cur /\ counter' = counter /\ place' = place /\ back' = back
      /\ phase = "pop" /\ nums = 0 /\ phase' = "done" /\ fout' = Append(fout, Plain(old))
  BY DEF WriteLast, streams, records
<1>2. ~ Filling /\ ~ Filling' /\ Live = {} /\ Live' = Live
  <2>1. ~ Filling /\ ~ Filling' /\ Live = 0 .. 0 - 1 /\ Live' = 0 .. 0 - 1
    BY <1>1 DEF Filling, Live
  <2> QED
    BY <2>1
<1>3. fout \in Seq(Records) /\ old \in Entry /\ fin \in [Files -> Seq(Records)]
  BY MergeTypes
<1>4. /\ fout' \in Seq(Records) /\ WeightOf(fout', c.i, c.j) \in Nat
      /\ WeightOf(fout', c.i, c.j) = WeightOf(fout, c.i, c.j) + Weigh(old, c)
  BY <1>1, <1>3, WrittenWeighs
<1>5. MergeTypeOK'
  BY <1>1, <1>4 DEF MergeInv, MergeTypeOK, Records
<1>6. HeapInv' /\ FillInv' /\ OpenInv'
  BY <1>1, <1>2 DEF MergeInv, HeapInv, FillInv, OpenInv
<1>7. ASSUME Balanced(c)
      PROVE  Balanced(c)'
  <2> DEFINE o == WeightOf(fout, c.i, c.j)
             w == Weigh(old, c)
             all == Total(input, c)
             r == Total(fin, c)
             p == WeightOf(fout', c.i, c.j)
  <2>1. all = o + r + w + InHeap(heap, {}, c)
    BY <1>1, <1>2, <1>7 DEF Balanced
  <2>2. InHeap(heap, {}, c) = 0
    BY SumEmpty DEF InHeap
  <2>3. o \in Nat /\ w \in Nat /\ r \in Nat /\ p = o + w
    <3>1. w \in Nat
      BY <1>3 DEF Weigh, Entry
    <3> QED
      BY <1>3, <1>4, <3>1, WeightType, TotalType
  <2>4. all = p + r + 0 + 0
    <3>1. all = o + r + w + 0
      BY <2>1, <2>2
    <3> HIDE DEF all, o, r, w, p
    <3> QED
      BY <2>3, <3>1
  <2> QED
    BY <1>1, <2>4 DEF Balanced
<1> QED
  BY <1>1, <1>5, <1>6, <1>7 DEF MergeInv

LEMMA MergeIdle ==
  ASSUME MergeInv, UNCHANGED mergeVars, NEW c
  PROVE  MergeInv' /\ (Balanced(c) => Balanced(c)')
<1>1. /\ input' = input /\ fin' = fin /\ heap' = heap /\ new' = new /\ old' = old
      /\ nums' = nums /\ cur' = cur /\ counter' = counter /\ place' = place /\ back' = back
      /\ phase' = phase /\ fout' = fout
  BY DEF mergeVars, streams, records
<1>2. (Filling' <=> Filling) /\ Live' = Live
  BY <1>1 DEF Filling, Live
<1>3. MergeInv'
  BY <1>1, <1>2 DEF MergeInv, MergeTypeOK, HeapInv, FillInv, OpenInv
<1>4. Balanced(c)' <=> Balanced(c)
  BY <1>1, <1>2 DEF Balanced
<1> QED
  BY <1>3, <1>4

LEMMA MergeStep ==
  ASSUME MergeInv, [MergeNext]_mergeVars, NEW c
  PROVE  MergeInv' /\ (NoFileEmpty /\ Balanced(c) => Balanced(c)')
<1>1. CASE SiftUp
  BY <1>1, SiftUpKeeps
<1>2. CASE SiftDown
  BY <1>2, SiftDownKeeps
<1>3. CASE Fill
  BY <1>3, FillKeeps
<1>4. CASE PopFirst
  BY <1>4, PopFirstKeeps
<1>5. CASE Refill
  BY <1>5, RefillKeeps
<1>6. CASE PopNext
  BY <1>6, PopNextKeeps
<1>7. CASE WriteLast
  BY <1>7, WriteLastKeeps
<1>8. CASE UNCHANGED mergeVars
  BY <1>8, MergeIdle
<1> QED
  BY <1>1, <1>2, <1>3, <1>4, <1>5, <1>6, <1>7, <1>8 DEF MergeNext

LEMMA MergeBegins ==
  ASSUME MergeInit, NEW c
  PROVE  MergeInv /\ Balanced(c)
<1>1. /\ input \in Inputs /\ fin = input /\ nums = FileAllNums /\ cur = 0
      /\ fout = << >> /\ counter = 0 /\ place = 0 /\ phase = "fill" /\ back = "fill"
      /\ heap = [f \in Files |-> Tagged(Rec(0, 0, 0), 0)]
  BY DEF MergeInit
<1>2. input \in [Files -> Seq(Records)]
  BY <1>1, MergeAssumption DEF Records
<1>3. FileAllNums \in Nat /\ FileAllNums > 0 /\ 0 \in Files /\ \A f \in Files : f \in Nat
  BY MergeAssumption DEF Files
<1>4. heap \in [Files -> Entry] /\ new \in Entry /\ old \in Entry
  <2>1. Tagged(Rec(0, 0, 0), 0) \in Entry
    BY <1>3 DEF Tagged, Rec, Entry
  <2>2. PICK g \in Garbage : new = Tagged(g, 0) /\ old = Tagged(g, 0)
    BY DEF MergeInit
  <2>3. Tagged(g, 0) \in Entry
    BY <1>3, MergeAssumption DEF Tagged, Entry
  <2> QED
    BY <1>1, <2>1, <2>2, <2>3
<1>5. Filling /\ Live = {}
  <2>1. Filling /\ Live = 0 .. 0 - 1
    BY <1>1 DEF Filling, Live
  <2> QED
    BY <2>1
<1>6. \A f \in Files : Rest(fin[f], input[f])
  <2>1. ASSUME NEW f \in Files
        PROVE  Rest(fin[f], input[f])
    <3>1. input[f] \in Seq(Records) /\ 0 \in 0 .. Len(input[f])
      BY <1>2
    <3>2. input[f] = SubSeq(input[f], 0 + 1, Len(input[f]))
      BY <3>1, SubSeqFull
    <3> QED
      BY <1>1, <3>1, <3>2 DEF Rest
  <2> QED
    BY <2>1
<1>7. MergeTypeOK
  <2>1. fout \in Seq([i : Nat, j : Nat, weight : Nat])
    BY <1>1, EmptySeq
  <2>2. nums \in 0 .. FileAllNums /\ cur \in 0 .. FileAllNums /\ place \in Files /\ counter \in Nat
    BY <1>1, <1>3
  <2> QED
    BY <1>1, <1>4, <1>6, <2>1, <2>2 DEF MergeTypeOK, Rest
<1>8. HeapInv /\ OpenInv
  BY <1>1, <1>5 DEF HeapInv, OneEach, OpenInv
<1>9. FillInv
  BY <1>1, <1>3, <1>5 DEF FillInv, Has
<1>10. Balanced(c)
  <2>1. InHeap(heap, {}, c) = 0
    BY SumEmpty DEF InHeap
  <2>2. WeightOf(fout, c.i, c.j) = 0
    BY <1>1, WeightOfEmpty
  <2>3. Total(fin, c) \in Nat /\ Total(input, c) = Total(fin, c)
    BY <1>1, <1>2, TotalType
  <2>4. Total(input, c) = 0 + Total(fin, c) + 0 + 0
    BY <2>3
  <2> QED
    BY <1>1, <1>5, <2>1, <2>2, <2>4 DEF Balanced
<1> QED
  BY <1>1, <1>2, <1>7, <1>8, <1>9, <1>10 DEF MergeInv

(* The invariant holds.                                                    *)
THEOREM MergeInvariant == MergeSpec => []MergeInv
<1>1. MergeInit => MergeInv
  BY MergeBegins
<1>2. MergeInv /\ [MergeNext]_mergeVars => MergeInv'
  BY MergeStep
<1> QED
  BY <1>1, <1>2, PTL DEF MergeSpec

(* No two records of a file wait in the heap, and when a record is popped  *)
(* one of each file that has more does: the fileId that _new keeps from    *)
(* read to read, and swaps in any order, lose no file.                     *)
THEOREM NoFileForgotten == MergeSpec => []OneEntryPerFile
<1>1. MergeInv => OneEntryPerFile
  <2> SUFFICES ASSUME MergeInv PROVE OneEntryPerFile
    OBVIOUS
  <2>1. phase = "pop" => ~ Filling
    BY DEF Filling
  <2> QED
    BY <2>1 DEF MergeInv, HeapInv, OpenInv, OneEach, Has, OneEntryPerFile
<1> QED
  BY <1>1, MergeInvariant, PTL

(* What the files and the output hold are records.                         *)
LEMMA RecordsOfFiles ==
  ASSUME NEW fs \in [Files -> Seq(Records)], NEW s \in Seq(Records),
         NEW c \in (UNION {Range(fs[f]) : f \in Files}) \cup Range(s)
  PROVE  c \in Records
<1>1. ASSUME NEW t \in Seq(Records)
      PROVE  Range(t) \subseteq Records
  <2>1. \A m \in DOMAIN t : t[m] \in Records
    OBVIOUS
  <2> QED
    BY <2>1 DEF Range
<1>2. CASE c \in Range(s)
  BY <1>1, <1>2
<1>3. CASE c \in UNION {Range(fs[f]) : f \in Files}
  <2>1. PICK R \in {Range(fs[f]) : f \in Files} : c \in R
    BY <1>3
  <2>2. PICK f \in Files : R = Range(fs[f])
    BY <2>1
  <2>3. fs[f] \in Seq(Records)
    OBVIOUS
  <2>4. R \subseteq Records
    BY <1>1, <2>2, <2>3
  <2> QED
    BY <2>1, <2>4
<1> QED
  BY <1>2, <1>3

(* What merge_files writes has the weight of its input in every cell, if   *)
(* no file was empty: a heap that is out of order loses none.              *)
THEOREM MergeLosesNothing == NoFileEmpty => (MergeSpec => []WeightConserved)
<1> SUFFICES ASSUME NoFileEmpty PROVE MergeSpec => []WeightConserved
  OBVIOUS
<1> DEFINE AllBalanced == \A c \in Records : Balanced(c)
<1>1. MergeInit => MergeInv /\ AllBalanced
  BY MergeBegins
<1>2. MergeInv /\ AllBalanced /\ [MergeNext]_mergeVars => MergeInv' /\ AllBalanced'
  BY MergeStep
<1>3. MergeInv /\ AllBalanced => WeightConserved
  <2> SUFFICES ASSUME MergeInv, AllBalanced, phase \in {"pop", "done"},
                      NEW c \in (UNION {Range(input[f]) : f \in Files}) \cup Range(fout)
               PROVE  Total(input, c) = WeightOf(fout, c.i, c.j) + Total(fin, c)
                        + (IF phase = "done" THEN 0 ELSE Weigh(old, c) + Waiting(c))
    BY DEF WeightConserved
  <2>1. c \in Records
    BY MergeTypes, RecordsOfFiles
  <2>2. ~ Filling
    BY DEF Filling
  <2>3. Waiting(c) = InHeap(heap, Live, c)
    BY DEF Waiting, InHeap, SumFunction
  <2>4. /\ WeightOf(fout, c.i, c.j) \in Nat /\ Total(fin, c) \in Nat /\ Weigh(old, c) \in Nat
        /\ InHeap(heap, Live, c) \in Nat
    <3>1. /\ fout \in Seq(Records) /\ fin \in [Files -> Seq(Records)] /\ Live \in SUBSET Files
          /\ old \in Entry /\ heap \in [Files -> Entry]
      BY MergeTypes
    <3>2. Weigh(old, c) \in Nat
      BY <3>1 DEF Weigh, Entry
    <3> QED
      BY <3>1, <3>2, WeightType, EntryFacts, TotalType
  <2>5. Total(input, c) = WeightOf(fout, c.i, c.j) + Total(fin, c)
          + (IF phase = "done" THEN 0 ELSE Weigh(old, c))
          + (IF phase = "done" THEN 0 ELSE InHeap(heap, Live, c))
    BY <2>1, <2>2 DEF Balanced
  <2> QED
    BY <2>3, <2>4, <2>5
<1> QED
  BY <1>1, <1>2, <1>3, PTL DEF MergeSpec
=============================================================================

--------------------------- MODULE ModelFiles_proofs ---------------------------
(***************************************************************************)
(* The vocabulary, the model files and the nearest words, for every        *)
(* corpus, limit, size of vectors and number of words asked for.           *)
(*                                                                         *)
(* The properties speak of the ends of build, getTop, to_txt and load, or  *)
(* of a reader that may stand anywhere.  The invariant says what holds on  *)
(* the way: what remains to be numbered is the end of a sorted list (Kept),*)
(* what is in the files is the beginning of what will be (Begun, Closed),  *)
(* the reader has as many words as lines it has read (ReaderInv), the      *)
(* stream of load is one word ahead of its number (LoadInv), what it reads *)
(* is a copy of the saved words (CopyInv), and the best of the words that  *)
(* were seen is in the queue (BestIn).                                     *)
(***************************************************************************)
EXTENDS ModelFiles, FiniteSetTheorems, WellFoundedInduction, TLAPS

(* The numbers below n. *)
LEMMA FirstNumbers ==
  ASSUME NEW n \in Nat
  PROVE  IsFiniteSet(0 .. n - 1) /\ Cardinality(0 .. n - 1) = n
<1>1. 0 \in Int /\ n - 1 \in Int
  OBVIOUS
<1>2. /\ IsFiniteSet(0 .. n - 1)
      /\ Cardinality(0 .. n - 1) = IF 0 > n - 1 THEN 0 ELSE (n - 1) - 0 + 1
  BY <1>1, FS_Interval
<1> QED
  BY <1>2

(* A set of numbers has a least element. *)
LEMMA Least ==
  ASSUME NEW S \in SUBSET Nat, S # {}
  PROVE \E n \in S : \A m \in S : n <= m
<1> DEFINE R == OpToRel(<, Nat)
<1>1. IsWellFoundedOn(R, Nat)
  BY NatLessThanWellFounded
<1>2. R = {p \in Nat \X Nat : p[1] < p[2]}
  BY DEF OpToRel
<1> HIDE DEF R
<1>3. PICK n \in S : \A m \in S : ~ (<<m, n>> \in R)
  BY <1>1, WFMin
<1>4. ASSUME NEW m \in S, m < n PROVE FALSE
  <2>1. <<m, n>> \in Nat \X Nat /\ <<m, n>>[1] < <<m, n>>[2]
    BY <1>4
  <2> QED
    BY <1>2, <1>3, <2>1
<1> QED
  BY <1>3, <1>4

(* What holds of the empty set, and of a set with one element more when it *)
(* holds of the set, holds of every finite set.                            *)
LEMMA SetInduction ==
  ASSUME NEW S, IsFiniteSet(S), NEW P, {} \in P,
         \A s \in SUBSET S : \A x \in S \ s : s \in P => s \cup {x} \in P
  PROVE  S \in P
<1> DEFINE Wrong == {s \in SUBSET S : s \notin P}
           Sizes == {Cardinality(s) : s \in Wrong}
<1>1. \A s \in SUBSET S : IsFiniteSet(s) /\ Cardinality(s) \in Nat
  BY FS_Subset, FS_CardinalityType
<1> SUFFICES ASSUME S \notin P PROVE FALSE
  OBVIOUS
<1>2. Sizes \in SUBSET Nat /\ Sizes # {}
  BY <1>1
<1> HIDE DEF Sizes
<1>3. PICK n \in Sizes : \A m \in Sizes : n <= m
  BY <1>2, Least
<1>4. PICK s \in Wrong : Cardinality(s) = n
  BY <1>3 DEF Sizes
<1>5. PICK x \in s : TRUE
  BY <1>4
<1>6. s \ {x} \in SUBSET S /\ Cardinality(s \ {x}) = n - 1 /\ n \in Nat
  BY <1>1, <1>4, <1>5, FS_RemoveElement
<1>7. s \ {x} \in P
  <2>1. s \ {x} \in Wrong => n - 1 \in Sizes
    BY <1>6 DEF Sizes
  <2>2. n - 1 \notin Sizes
    BY <1>3, <1>6
  <2> QED
    BY <1>6, <2>1, <2>2
<1>8. x \in S \ (s \ {x}) /\ (s \ {x}) \cup {x} = s
  BY <1>4, <1>5
<1> QED
  BY <1>4, <1>6, <1>7, <1>8

(* Sums over a finite set are cardinalities: the weight w[x] is that many  *)
(* grains of x.                                                            *)
Grains(w, S) == {p \in S \X Nat : p[2] < w[p[1]]}

LEMMA GrainsOfOne ==
  ASSUME NEW w, NEW x, w[x] \in Nat
  PROVE  IsFiniteSet(Grains(w, {x})) /\ Cardinality(Grains(w, {x})) = w[x]
<1> DEFINE n == w[x]
           f == [m \in 0 .. n - 1 |-> <<x, m>>]
<1>1. IsFiniteSet(0 .. n - 1) /\ Cardinality(0 .. n - 1) = n
  BY FirstNumbers
<1>2. Grains(w, {x}) = {<<x, m>> : m \in 0 .. n - 1}
  <2>1. ASSUME NEW p \in Grains(w, {x})
        PROVE  p[2] \in 0 .. n - 1 /\ p = <<x, p[2]>>
    BY <2>1 DEF Grains
  <2>2. ASSUME NEW m \in 0 .. n - 1
        PROVE  <<x, m>> \in Grains(w, {x})
    BY <2>2 DEF Grains
  <2> QED
    BY <2>1, <2>2
<1>3. f \in Surjection(0 .. n - 1, Grains(w, {x}))
  BY <1>2 DEF Surjection
<1>4. f \in Injection(0 .. n - 1, Grains(w, {x}))
  BY <1>2 DEF Injection, IsInjective
<1> HIDE DEF f, n
<1>5. ExistsBijection(0 .. n - 1, Grains(w, {x}))
  BY <1>3, <1>4 DEF ExistsBijection, Bijection
<1> QED
  BY <1>1, <1>5, FS_Bijection DEF n

LEMMA GrainsSplit ==
  ASSUME NEW w, NEW A, NEW B, A \cap B = {},
         IsFiniteSet(Grains(w, A)), IsFiniteSet(Grains(w, B))
  PROVE  /\ IsFiniteSet(Grains(w, A \cup B))
         /\ Cardinality(Grains(w, A \cup B)) = Cardinality(Grains(w, A)) + Cardinality(Grains(w, B))
<1>1. Grains(w, A \cup B) = Grains(w, A) \cup Grains(w, B)
  BY DEF Grains
<1>2. Grains(w, A) \cap Grains(w, B) = {}
  BY DEF Grains
<1>3. Cardinality({}) = 0
  BY FS_EmptySet
<1>4. Cardinality(Grains(w, A)) \in Nat /\ Cardinality(Grains(w, B)) \in Nat
  BY FS_CardinalityType
<1>5. /\ IsFiniteSet(Grains(w, A) \cup Grains(w, B))
      /\ Cardinality(Grains(w, A) \cup Grains(w, B)) =
           Cardinality(Grains(w, A)) + Cardinality(Grains(w, B)) - Cardinality(Grains(w, A) \cap Grains(w, B))
  BY FS_Union
<1> DEFINE a == Cardinality(Grains(w, A))
           b == Cardinality(Grains(w, B))
<1>6. Cardinality(Grains(w, A) \cup Grains(w, B)) = a + b - 0
  BY <1>2, <1>3, <1>5
<1>7. a + b - 0 = a + b
  <2> HIDE DEF a, b
  <2> SUFFICES ASSUME a \in Nat, b \in Nat PROVE a + b - 0 = a + b
    BY <1>4 DEF a, b
  <2> QED
    OBVIOUS
<1> QED
  BY <1>1, <1>5, <1>6, <1>7

LEMMA GrainsFinite ==
  ASSUME NEW S, IsFiniteSet(S), NEW w, \A x \in S : w[x] \in Nat
  PROVE  IsFiniteSet(Grains(w, S))
<1> DEFINE P == {s \in SUBSET S : IsFiniteSet(Grains(w, s))}
<1>1. {} \in P
  <2>1. Grains(w, {}) = {}
    BY DEF Grains
  <2> QED
    BY <2>1, FS_EmptySet
<1>2. ASSUME NEW s \in SUBSET S, NEW x \in S \ s, s \in P
      PROVE  s \cup {x} \in P
  BY <1>2, GrainsOfOne, GrainsSplit
<1> HIDE DEF P
<1>3. S \in P
  BY <1>1, <1>2, SetInduction
<1> QED
  BY <1>3 DEF P

LEMMA SumIsGrains ==
  ASSUME NEW S, IsFiniteSet(S), NEW w, \A x \in S : w[x] \in Nat
  PROVE  SumFunctionOnSet(w, S) = Cardinality(Grains(w, S))
<1> DEFINE Folds(f) == f = [s \in SUBSET S |->
                              IF s = {} THEN 0
                              ELSE w[CHOOSE x \in s : TRUE] + f[s \ {CHOOSE x \in s : TRUE}]]
           it == CHOOSE f : Folds(f)
           g  == [s \in SUBSET S |-> Cardinality(Grains(w, s))]
<1>1. SumFunctionOnSet(w, S) = it[S]
  BY DEF SumFunctionOnSet, FoldFunctionOnSet, MapThenFoldSet
<1>2. g[{}] = 0
  <2>1. Grains(w, {}) = {}
    BY DEF Grains
  <2> QED
    BY <2>1, FS_EmptySet
<1>3. ASSUME NEW s \in SUBSET S, NEW x \in s
      PROVE  g[s] = w[x] + g[s \ {x}]
  <2>1. IsFiniteSet(s \ {x}) /\ (s \ {x}) \cap {x} = {} /\ s = (s \ {x}) \cup {x}
    BY FS_Subset
  <2>2. IsFiniteSet(Grains(w, s \ {x}))
    BY <2>1, GrainsFinite
  <2>3. IsFiniteSet(Grains(w, {x})) /\ Cardinality(Grains(w, {x})) = w[x]
    BY GrainsOfOne
  <2>4. Cardinality(Grains(w, s \ {x})) \in Nat /\ w[x] \in Nat
    BY <2>2, FS_CardinalityType
  <2>5. Cardinality(Grains(w, s)) = Cardinality(Grains(w, s \ {x})) + w[x]
    BY <2>1, <2>2, <2>3, GrainsSplit
  <2> QED
    BY <2>4, <2>5
<1>4. DOMAIN g = SUBSET S /\ g = [s \in SUBSET S |-> g[s]]
  OBVIOUS
<1> HIDE DEF g
<1>5. Folds(g)
  <2>1. ASSUME NEW s \in SUBSET S, s # {}
        PROVE  g[s] = w[CHOOSE x \in s : TRUE] + g[s \ {CHOOSE x \in s : TRUE}]
    <3>1. (CHOOSE x \in s : TRUE) \in s
      BY <2>1
    <3> QED
      BY <1>3, <3>1
  <2> DEFINE h == [s \in SUBSET S |->
                              IF s = {} THEN 0
                              ELSE w[CHOOSE x \in s : TRUE] + g[s \ {CHOOSE x \in s : TRUE}]]
  <2>2. \A s \in SUBSET S : g[s] = h[s]
    BY <1>2, <2>1
  <2>3. h = [s \in SUBSET S |-> h[s]]
    OBVIOUS
  <2> HIDE DEF h
  <2>4. g = h
    BY <1>4, <2>2, <2>3, Zenon
  <2> QED
    BY <2>4 DEF h
<1>6. Folds(it)
  <2> HIDE DEF Folds
  <2> QED
    BY <1>5
<1> HIDE DEF it
<1> DEFINE P == {s \in SUBSET S : it[s] = g[s]}
<1>7. it[S] = g[S]
  <2> DEFINE Wrong == {s \in SUBSET S : it[s] # g[s]}
             Sizes == {Cardinality(u) : u \in Wrong}
  <2>1. \A u \in SUBSET S : IsFiniteSet(u) /\ Cardinality(u) \in Nat
    BY FS_Subset, FS_CardinalityType
  <2> SUFFICES ASSUME it[S] # g[S] PROVE FALSE
    OBVIOUS
  <2>2. Sizes \in SUBSET Nat /\ Sizes # {}
    BY <2>1
  <2> HIDE DEF Sizes
  <2>3. PICK n \in Sizes : \A m \in Sizes : n <= m
    BY <2>2, Least
  <2>4. PICK u \in Wrong : Cardinality(u) = n
    BY <2>3 DEF Sizes
  <2>5. u # {}
    BY <1>2, <1>6, <2>4
  <2> DEFINE x == CHOOSE x \in u : TRUE
  <2>6. x \in u /\ it[u] = w[x] + it[u \ {x}]
    BY <1>6, <2>4, <2>5
  <2> HIDE DEF x
  <2>7. u \ {x} \in SUBSET S /\ Cardinality(u \ {x}) = n - 1 /\ n \in Nat
    BY <2>1, <2>4, <2>6, FS_RemoveElement
  <2>8. it[u \ {x}] = g[u \ {x}]
    <3>1. u \ {x} \in Wrong => n - 1 \in Sizes
      BY <2>7 DEF Sizes
    <3>2. n - 1 \notin Sizes
      BY <2>3, <2>7
    <3> QED
      BY <2>7, <3>1, <3>2
  <2> QED
    BY <1>3, <2>4, <2>6, <2>8
<1> QED
  BY <1>1, <1>7 DEF g

(* What a sum over a finite set of natural numbers is, and does when the   *)
(* set is empty, a single element or two sets together.                    *)
LEMMA SumType ==
  ASSUME NEW S, IsFiniteSet(S), NEW w, \A x \in S : w[x] \in Nat
  PROVE  SumFunctionOnSet(w, S) \in Nat
BY SumIsGrains, GrainsFinite, FS_CardinalityType

LEMMA SumEmpty ==
  ASSUME NEW w
  PROVE  SumFunctionOnSet(w, {}) = 0
<1>1. Grains(w, {}) = {}
  BY DEF Grains
<1>2. IsFiniteSet({}) /\ Cardinality({}) = 0
  BY FS_EmptySet
<1> QED
  BY <1>1, <1>2, SumIsGrains

LEMMA SumOne ==
  ASSUME NEW w, NEW x, w[x] \in Nat
  PROVE  SumFunctionOnSet(w, {x}) = w[x]
<1>1. IsFiniteSet({x})
  BY FS_Singleton
<1> QED
  BY <1>1, SumIsGrains, GrainsOfOne

LEMMA SumSplit ==
  ASSUME NEW A, IsFiniteSet(A), NEW B, IsFiniteSet(B), A \cap B = {},
         NEW w, \A x \in A \cup B : w[x] \in Nat
  PROVE  SumFunctionOnSet(w, A \cup B) = SumFunctionOnSet(w, A) + SumFunctionOnSet(w, B)
<1>1. IsFiniteSet(Grains(w, A)) /\ IsFiniteSet(Grains(w, B))
  BY GrainsFinite
<1>2. IsFiniteSet(A \cup B)
  BY FS_Union
<1>3. /\ SumFunctionOnSet(w, A \cup B) = Cardinality(Grains(w, A \cup B))
      /\ SumFunctionOnSet(w, A) = Cardinality(Grains(w, A))
      /\ SumFunctionOnSet(w, B) = Cardinality(Grains(w, B))
  BY <1>2, SumIsGrains
<1> QED
  BY <1>1, <1>3, GrainsSplit

(* Elements of weight 0 may be left out. *)
LEMMA SumOfPart ==
  ASSUME NEW S, IsFiniteSet(S), NEW w, \A x \in S : w[x] \in Nat,
         NEW T \in SUBSET S
  PROVE  /\ SumFunctionOnSet(w, T) <= SumFunctionOnSet(w, S)
         /\ (\A x \in S \ T : w[x] = 0) => SumFunctionOnSet(w, T) = SumFunctionOnSet(w, S)
<1>1. IsFiniteSet(T) /\ IsFiniteSet(S \ T) /\ T \cup (S \ T) = S /\ T \cap (S \ T) = {}
  BY FS_Subset
<1>2. SumFunctionOnSet(w, S) = SumFunctionOnSet(w, T) + SumFunctionOnSet(w, S \ T)
  BY <1>1, SumSplit
<1>3. SumFunctionOnSet(w, T) \in Nat /\ SumFunctionOnSet(w, S \ T) \in Nat
  BY <1>1, SumType
<1>4. ASSUME \A x \in S \ T : w[x] = 0
      PROVE  SumFunctionOnSet(w, S \ T) = 0
  <2>1. Grains(w, S \ T) = {}
    BY <1>4 DEF Grains
  <2> QED
    BY <1>1, <2>1, SumIsGrains, FS_EmptySet
<1>5. SumFunctionOnSet(w, T) <= SumFunctionOnSet(w, S)
  BY <1>2, <1>3
<1> QED
  BY <1>2, <1>3, <1>4, <1>5

-----------------------------------------------------------------------------
(* Numbers and places. *)
LEMMA FirstPlaces ==
  ASSUME NEW n \in Nat
  PROVE  IsFiniteSet(1 .. n) /\ Cardinality(1 .. n) = n
BY FS_Interval

LEMMA ProductGrows ==
  ASSUME NEW a \in Nat, NEW b \in Nat, a <= b, NEW e \in Nat
  PROVE  /\ a * e \in Nat /\ b * e \in Nat /\ a * e <= b * e
         /\ e * a \in Nat /\ e * b \in Nat /\ e * a <= e * b
<1>1. PICK d \in Nat : b = a + d
  <2>1. b - a \in Nat /\ b = a + (b - a)
    OBVIOUS
  <2> QED
    BY <2>1
<1>2. b * e = a * e + d * e /\ e * b = e * a + e * d
  BY <1>1
<1>3. a * e \in Nat /\ d * e \in Nat /\ e * a \in Nat /\ e * d \in Nat
  BY <1>1
<1> QED
  BY <1>2, <1>3

(* Row i, column j of a matrix with rows of e cells, and back. *)
LEMMA PlaceOfCell ==
  ASSUME NEW e \in Nat \ {0}, NEW i \in Nat, NEW j \in 0 .. e - 1
  PROVE  /\ i * e + j + 1 \in Nat \ {0}
         /\ ((i * e + j + 1) - 1) \div e = i
         /\ ((i * e + j + 1) - 1) % e = j
         /\ \A n \in Nat : i < n => i * e + j + 1 <= n * e
<1>1. i * e \in Nat
  OBVIOUS
<1> DEFINE x == i * e + j
           q == x \div e
<1>2. x \in Nat /\ q \in Nat
  BY <1>1
<1>3. x = e * q + (x % e) /\ x % e \in 0 .. e - 1
  BY <1>2
<1>4. ~ (q < i)
  <2> SUFFICES ASSUME q < i PROVE FALSE
    OBVIOUS
  <2>1. (q + 1) * e <= i * e
    BY <1>2, ProductGrows
  <2>2. (q + 1) * e = e * q + e
    BY <1>2
  <2> QED
    BY <1>1, <1>2, <1>3, <2>1, <2>2
<1>5. ~ (i < q)
  <2> SUFFICES ASSUME i < q PROVE FALSE
    OBVIOUS
  <2>1. (i + 1) * e <= q * e
    BY <1>2, ProductGrows
  <2>2. (i + 1) * e = i * e + e /\ q * e = e * q
    BY <1>2
  <2>3. e * q \in Nat
    BY <1>2
  <2> QED
    BY <1>1, <1>2, <1>3, <2>1, <2>2, <2>3
<1>6. q = i
  BY <1>2, <1>4, <1>5
<1>7. e * q = i * e
  BY <1>6
<1>8. x % e = j
  <2> HIDE DEF q
  <2> QED
    BY <1>1, <1>3, <1>7
<1>9. i * e + j + 1 \in Nat \ {0} /\ (i * e + j + 1) - 1 = x
  BY <1>1
<1>10. ASSUME NEW n \in Nat, i < n
       PROVE  i * e + j + 1 <= n * e
  <2>1. (i + 1) * e <= n * e /\ n * e \in Nat
    BY <1>10, ProductGrows
  <2>2. (i + 1) * e = i * e + e
    OBVIOUS
  <2> QED
    BY <1>1, <2>1, <2>2
<1> QED
  BY <1>6, <1>8, <1>9, <1>10

(* And every place is that of a cell. *)
LEMMA CellOfPlace ==
  ASSUME NEW e \in Nat \ {0}, NEW n \in Nat, NEW k \in 1 .. n * e
  PROVE  (k - 1) \div e \in 0 .. n - 1 /\ (k - 1) % e \in 0 .. e - 1
<1> DEFINE q == (k - 1) \div e
<1>1. k - 1 \in Nat /\ q \in Nat /\ n * e \in Nat
  OBVIOUS
<1>2. k - 1 = e * q + ((k - 1) % e) /\ (k - 1) % e \in 0 .. e - 1
  BY <1>1
<1>3. ~ (n <= q)
  <2> SUFFICES ASSUME n <= q PROVE FALSE
    OBVIOUS
  <2>1. n * e <= q * e /\ q * e \in Nat /\ q * e = e * q
    BY <1>1, ProductGrows
  <2> QED
    BY <1>1, <1>2, <2>1
<1> QED
  BY <1>1, <1>2, <1>3

(* Min and Max of two numbers. *)
LEMMA MinMax ==
  ASSUME NEW a \in Nat, NEW b \in Nat
  PROVE  /\ Min({a, b}) = (IF a <= b THEN a ELSE b)
         /\ Max({a, b}) = (IF a <= b THEN b ELSE a)
<1>1. \A x \in {a, b} : (\A y \in {a, b} : x <= y) => x = (IF a <= b THEN a ELSE b)
  OBVIOUS
<1>2. \E x \in {a, b} : \A y \in {a, b} : x <= y
  OBVIOUS
<1>3. \A x \in {a, b} : (\A y \in {a, b} : x >= y) => x = (IF a <= b THEN b ELSE a)
  OBVIOUS
<1>4. \E x \in {a, b} : \A y \in {a, b} : x >= y
  OBVIOUS
<1>5. Min({a, b}) \in {a, b} /\ \A y \in {a, b} : Min({a, b}) <= y
  BY <1>2 DEF Min
<1>6. Max({a, b}) \in {a, b} /\ \A y \in {a, b} : Max({a, b}) >= y
  BY <1>4 DEF Max
<1> QED
  BY <1>1, <1>3, <1>5, <1>6

(* A map after m[x] = y. *)
IsPut(g, f, x, y) == g = [z \in DOMAIN f \cup {x} |-> IF z = x THEN y ELSE f[z]]

(* What SetToSeqs gives. *)
LEMMA SeqsOfSet ==
  ASSUME NEW S, IsFiniteSet(S), NEW ws \in SetToSeqs(S)
  PROVE  /\ ws \in Seq(S) /\ Len(ws) = Cardinality(S) /\ Len(ws) \in Nat
         /\ \A k, l \in 1 .. Len(ws) : ws[k] = ws[l] => k = l
         /\ \A x \in S : \E k \in 1 .. Len(ws) : ws[k] = x
<1> DEFINE n == Cardinality(S)
<1>1. n \in Nat
  BY FS_CardinalityType
<1>2. ws \in [1 .. n -> S] /\ \A k, l \in 1 .. n : k # l => ws[k] # ws[l]
  BY DEF SetToSeqs
<1> HIDE DEF n
<1>3. ws \in Seq(S) /\ Len(ws) = n
  BY <1>1, <1>2
<1>4. ws \in Injection(1 .. n, S)
  BY <1>2 DEF Injection, IsInjective
<1>5. Cardinality(1 .. n) = n
  BY <1>1, FirstPlaces
<1>6. ws \in Surjection(1 .. n, S)
  BY <1>4, <1>5, FS_Injection DEF n
<1> QED
  BY <1>1, <1>2, <1>3, <1>6 DEF n, Surjection

(* The greatest of the values on a finite set. *)
LEMMA GreatestExists ==
  ASSUME NEW S, IsFiniteSet(S), S # {}, NEW f, \A x \in S : f[x] \in Nat
  PROVE  \E x \in S : \A y \in S : f[x] >= f[y]
<1> DEFINE P == {s \in SUBSET S : s = {} \/ \E x \in s : \A y \in s : f[x] >= f[y]}
<1>1. {} \in P
  OBVIOUS
<1>2. ASSUME NEW s \in SUBSET S, NEW z \in S \ s, s \in P
      PROVE  s \cup {z} \in P
  <2>1. CASE s = {}
    <3>1. \A y \in s \cup {z} : f[z] >= f[y]
      BY <2>1
    <3> QED
      BY <3>1
  <2>2. CASE s # {}
    <3>1. PICK x \in s : \A y \in s : f[x] >= f[y]
      BY <1>2, <2>2
    <3>2. f[x] \in Nat /\ f[z] \in Nat /\ \A y \in s : f[y] \in Nat
      OBVIOUS
    <3>3. CASE f[x] >= f[z]
      <4>1. \A y \in s \cup {z} : f[x] >= f[y]
        BY <3>1, <3>3
      <4> QED
        BY <4>1
    <3>4. CASE ~ (f[x] >= f[z])
      <4>1. \A y \in s \cup {z} : f[z] >= f[y]
        BY <3>1, <3>2, <3>4
      <4> QED
        BY <4>1
    <3> QED
      BY <3>3, <3>4
  <2> QED
    BY <2>1, <2>2
<1> HIDE DEF P
<1>3. S \in P
  BY <1>1, <1>2, SetInduction
<1> QED
  BY <1>3 DEF P

-----------------------------------------------------------------------------
(* What the words of a vocabulary and the cells of a matrix can be.        *)
Words == Range(Lower)
Cells == (Words \cup {EmptyWord}) \X Nat

(* The stages of to_txt, those of a query, and all.                        *)
Filing == {"meta", "openVectors", "vectors", "words", "saved"}
Asking == {"replace", "aborted", "undefined", "answered", "threw"}
Stages == {"count", "keep", "add", "train"} \cup Filing \cup {"load", "loaded"} \cup Asking

(* The types, to begin with. *)
Types ==
    /\ stage \in Stages
    /\ corpus \in [Spellings -> Nat] /\ min_count \in Nat /\ max_size \in Nat
    /\ freq \in [DOMAIN freq -> Nat \ {0}] /\ DOMAIN freq \subseteq Words
    /\ DOMAIN atoi \subseteq Words \cup {EmptyWord} /\ Range(atoi) \subseteq Nat
    /\ DOMAIN itoa \subseteq Nat /\ IsFiniteSet(DOMAIN itoa) /\ Range(itoa) \subseteq DOMAIN atoi
    /\ W1 \in [m : Nat, n : Nat, data : Seq(Cells)]
    /\ Len(W1.data) >= W1.m * W1.n
    /\ log = [meta |-> log.meta, wordvec |-> log.wordvec, vocab |-> log.vocab]
    /\ log.wordvec = [exists |-> log.wordvec.exists, lines |-> log.wordvec.lines]
    /\ log.vocab = [exists |-> log.vocab.exists, lines |-> log.vocab.lines]
    /\ log.wordvec.lines \in Seq(Seq(Cells))
    /\ log.vocab.lines \in Seq(Words)
    /\ rest \in Seq(Words \cup {EmptyWord})

(* build: counts has the words of the corpus and how often it has them.    *)
Counted ==
    /\ DOMAIN counts = {Lower[s] : s \in Occurring}
    /\ \A w \in DOMAIN counts : counts[w] = InCorpus(w) /\ counts[w] > 0

(* itoa and atoi are inverse to each other, the ids without a gap.         *)
Numbered ==
    /\ DOMAIN itoa = 0 .. size - 1
    /\ DOMAIN atoi = Range(itoa) /\ DOMAIN freq = DOMAIN atoi
    /\ \A i \in DOMAIN itoa : itoa[i] \in Words /\ atoi[itoa[i]] = i

(* The words so far and those that vec still has are the beginning of ws,  *)
(* the sorted list of all frequent words.                                  *)
KeptOf(ws) ==
    /\ Sorted(ws)
    /\ size + Len(vec) = Min({max_size, Len(ws)})
    /\ \A k \in 1 .. Len(vec) : vec[k] = <<ws[size + k], counts[ws[size + k]]>>
    /\ \A i \in 0 .. size - 1 : itoa[i] = ws[i + 1] /\ freq[ws[i + 1]] = counts[ws[i + 1]]

Kept == vec \in Seq(Words \X Nat) /\ \E ws \in SetToSeqs(Frequent) : KeptOf(ws)

(* From when to when the three hold. *)
BuildInv ==
    /\ stage \in {"count", "keep"} => freq = NoWords /\ atoi = NoWords /\ itoa = NoWords
    /\ stage \in {"keep", "add", "train"} => Counted
    /\ stage \in {"add", "train"} => Kept /\ atoi = [w \in DOMAIN atoi |-> atoi[w]]
    /\ stage = "train" => vec = << >>
    /\ stage \in {"count", "keep", "add", "train"} \cup Filing => Numbered

(* The vectors that are written so far: whole lines, and one that may not  *)
(* be, each with the numbers of its word.                                  *)
Begun(n) ==
    LET ls == log.wordvec.lines
    IN  /\ Len(ls) <= n
        /\ \A k \in 1 .. Len(ls) :
             /\ Len(ls[k]) \in 1 .. EmbedSize
             /\ k < Len(ls) => Len(ls[k]) = EmbedSize
             /\ \A j \in 1 .. Len(ls[k]) : ls[k][j] = <<itoa[k - 1], j - 1>>

(* Once the words are opened all vectors are whole, and those of the words *)
(* that are in the file are theirs; no word is there twice.                *)
Closed ==
    /\ log.meta = Written(<<EmbedSize>>) /\ log.vocab.exists /\ log.wordvec.exists
    /\ Len(log.vocab.lines) <= Len(log.wordvec.lines)
    /\ \A k \in 1 .. Len(log.vocab.lines) : log.wordvec.lines[k] = Vector(log.vocab.lines[k])
    /\ \A k \in 1 .. Len(log.wordvec.lines) : Len(log.wordvec.lines[k]) = EmbedSize
    /\ \A k, l \in 1 .. Len(log.vocab.lines) : log.vocab.lines[k] = log.vocab.lines[l] => k = l

(* What is in the matrix and in the files at each stage of the program.    *)
FileInv ==
    /\ stage \in Filing =>
         /\ W1.m = size /\ W1.n = EmbedSize
         /\ \A i \in 0 .. size - 1 : \A j \in 0 .. EmbedSize - 1 : at(i, j) = <<itoa[i], j>>
    /\ stage \notin {"words", "saved", "load", "loaded"} \cup Asking => log.vocab = NoFile
    /\ stage \notin {"words", "saved", "load", "loaded"} \cup Asking \cup {"vectors"} => log.wordvec = NoFile
    /\ stage \in {"openVectors", "vectors"} => log.meta = Written(<<EmbedSize>>)
    /\ stage = "vectors" => log.wordvec.exists /\ Begun(size)
    /\ stage \in {"words", "saved"} =>
         /\ Len(log.wordvec.lines) = size
         /\ \A k \in 1 .. size : log.wordvec.lines[k] = Vector(itoa[k - 1])
         /\ \A k \in 1 .. Len(log.vocab.lines) : log.vocab.lines[k] = itoa[k - 1]
    /\ stage \in {"words", "saved", "load", "loaded"} \cup Asking => Closed
    /\ stage \in {"saved", "load", "loaded"} => Len(log.vocab.lines) = Len(log.wordvec.lines)

(* Data::init has read as many words as it has vectors, from the beginning *)
(* of the files, and the word it holds is the one on the line after those. *)
ReaderInv ==
    /\ reader \in {"off", "word", "vector", "up", "aborted"}
    /\ reader # "off" => stage \in Before
    /\ reader \in {"off", "aborted"} => data = NoWords
    /\ reader \in {"word", "vector", "up"} => stage \in {"words", "saved"}
    /\ IsFiniteSet(DOMAIN data) /\ Cardinality(DOMAIN data) <= Len(log.vocab.lines)
    /\ DOMAIN data = {log.vocab.lines[k] : k \in 1 .. Cardinality(DOMAIN data)}
    /\ \A w \in DOMAIN data : data[w] = Vector(w)
    /\ reader = "vector" => ReadLine <= Len(log.vocab.lines) /\ line = log.vocab.lines[ReadLine]

(* Glove::load: the word that round i takes. *)
LoadedName(i) ==
    LET ls == log.vocab.lines
    IN  IF Len(ls) = 1 THEN ls[i + 1]
        ELSE IF i + 1 = Len(ls) THEN EmptyWord
        ELSE ls[i + 2]

(* The stream is past the word of the next line, except at the beginning.  *)
LoadInv ==
    /\ stage = "load" =>
         /\ LoadId \in Nat
         /\ DOMAIN itoa \in {0 .. LoadId - 1, 0 .. Len(log.vocab.lines) - 1}
         /\ \A i \in 0 .. LoadId - 1 : itoa[i] = LoadedName(i)
         /\ LoadId = 0 => rest = log.vocab.lines
         /\ LoadId > 0 => \A k \in 1 .. Len(rest) :
              rest[k] = IF k = 1 THEN EmptyWord ELSE log.vocab.lines[LoadId + k]
    /\ stage = "loaded" =>
         /\ DOMAIN itoa = 0 .. Len(log.vocab.lines) - 1
         /\ \A i \in DOMAIN itoa : itoa[i] = LoadedName(i)
         /\ size <= W1.m
         /\ W1.n = EmbedSize => \A i \in DOMAIN itoa : \A j \in 0 .. EmbedSize - 1 :
              at(i, j) = <<log.vocab.lines[i + 1], j>>

(* vocab.txt, if there is one, is a copy of what was saved, and load starts *)
(* only if there is.  This is inductive by itself.                         *)
CopyInv ==
    /\ vocab_txt \in {NoFile, log.vocab}
    /\ stage \notin {"saved", "load", "loaded"} \cup Asking => vocab_txt = NoFile
    /\ stage \in {"load", "loaded"} => vocab_txt.exists

(* getTop: b is the best of the words seen so far, and no other of the     *)
(* queue came from behind.  If b did, it weighs more than all others.      *)
BestIn(b) ==
    /\ \A i \in 0 .. next - 1 : weight[b] >= weight[i]
    /\ \A j \in heap \ {b} : j < num /\ (b >= num => weight[j] < weight[b])

(* The answer so far is in the order of the weights, the best of all first.*)
Ranked ==
    /\ \A i, j \in 1 .. Len(top) : i < j => weight[top[i]] >= weight[top[j]]
    /\ top # << >> => \A i \in DOMAIN weight : weight[top[1]] >= weight[i]
    /\ \A k \in 2 .. Len(top) : top[k] < num
    /\ \A i, j \in 1 .. Len(top) : top[i] = top[j] => i = j

(* The queue has a word for each place of the answer that is left.         *)
QueryInv ==
    /\ num \in Nat /\ next \in Nat
    /\ stage \notin Asking => heap = {} /\ top = << >> /\ weight = << >>
    /\ stage \in Asking =>
         /\ weight \in [0 .. rows - 1 -> Nat] /\ rows \in Nat
         /\ heap \subseteq 0 .. rows - 1 /\ top \in Seq(0 .. rows - 1)
    /\ stage \in {"replace", "answered"} => Ranked
    /\ stage = "replace" =>
         /\ num < rows /\ num <= next /\ next <= rows
         /\ num = 0 => next = 0
         /\ heap \subseteq 0 .. next - 1
         /\ Cardinality(heap) + Len(top) = num
         /\ top = << >> /\ heap # {} => \E b \in heap : BestIn(b)
         /\ top # << >> => next = rows /\ heap \subseteq 0 .. num - 1
         /\ \A h \in heap : \A k \in 1 .. Len(top) : weight[top[k]] >= weight[h] /\ top[k] # h
    /\ stage = "answered" => Len(top) = num /\ num > 0

(* The inductive invariant. *)
IInv == Types /\ BuildInv /\ FileInv /\ ReaderInv /\ LoadInv /\ QueryInv
-----------------------------------------------------------------------------
(* What a step leaves alone. *)
Building == {"count", "keep", "add", "train"}

LEMMA TypesKept ==
  ASSUME Types, stage' \in Stages,
         UNCHANGED <<corpus, min_count, max_size, freq, atoi, itoa, W1, log, rest>>
  PROVE  Types'
BY DEF Types

LEMMA NoFilesYet ==
  ASSUME FileInv, stage \in Building, stage' \in Building, UNCHANGED log
  PROVE  FileInv'
BY DEF FileInv, Building, Filing, Asking

LEMMA ReaderKept ==
  ASSUME ReaderInv, UNCHANGED <<reader, line, data, log>>,
         stage \in Before => stage' \in Before \/ reader = "off",
         stage \in {"words", "saved"} => stage' \in {"words", "saved"} \/ reader = "off"
  PROVE  ReaderInv'
BY DEF ReaderInv, ReadLine, Vector, Before

LEMMA NotLoading ==
  ASSUME stage' \notin {"load", "loaded"}
  PROVE  LoadInv'
BY DEF LoadInv

LEMMA NotAsking ==
  ASSUME QueryInv, stage \notin Asking, stage' \notin Asking, UNCHANGED topVars
  PROVE  QueryInv'
BY DEF QueryInv, topVars, Asking

LEMMA NotBuilding ==
  ASSUME BuildInv, stage \in Filing, stage' \in Filing, UNCHANGED <<freq, atoi, itoa>>
  PROVE  BuildInv'
BY DEF BuildInv, Filing, Numbered, size

-----------------------------------------------------------------------------
(* The words of the corpus. *)
LEMMA NoWordsIs == DOMAIN NoWords = {} /\ Range(NoWords) = {}
BY DEF NoWords, Range

LEMMA WordsAre ==
  /\ Words = {Lower[s] : s \in Spellings}
  /\ IsFiniteSet(Words) /\ Words \subseteq Spellings /\ EmptyWord \notin Words
  /\ \A w \in Words : Lower[w] = w
<1>1. Words = {Lower[s] : s \in Spellings}
  BY VocabularyAssumption DEF Words, Range
<1>2. Lower \in Surjection(Spellings, Words)
  BY <1>1, VocabularyAssumption DEF Surjection
<1>3. IsFiniteSet(Words)
  BY <1>2, VocabularyAssumption, FS_Surjection
<1> QED
  BY <1>1, <1>3, VocabularyAssumption

LEMMA InCorpusType ==
  ASSUME corpus \in [Spellings -> Nat], NEW w
  PROVE  InCorpus(w) \in Nat
<1>1. IsFiniteSet({s \in Spellings : Lower[s] = w})
  BY VocabularyAssumption, FS_Subset
<1> QED
  BY <1>1, SumType DEF InCorpus

LEMMA SumIsInCorpus ==
  ASSUME corpus \in [Spellings -> Nat], NEW w
  PROVE  SumFunctionOnSet(corpus, {s \in Occurring : Folded(s) = w}) = InCorpus(w)
<1> DEFINE S == {s \in Spellings : Lower[s] = w}
           T == {s \in Occurring : Folded(s) = w}
<1>1. IsFiniteSet(S)
  BY VocabularyAssumption, FS_Subset
<1>2. T \in SUBSET S /\ \A s \in S : corpus[s] \in Nat
  BY DEF Occurring, Folded
<1>3. \A s \in S \ T : corpus[s] = 0
  BY DEF Occurring, Folded
<1> HIDE DEF S, T
<1>4. SumFunctionOnSet(corpus, T) = SumFunctionOnSet(corpus, S)
  BY <1>1, <1>2, <1>3, SumOfPart
<1> QED
  BY <1>4 DEF S, T, InCorpus

LEMMA OccursIfCounted ==
  ASSUME corpus \in [Spellings -> Nat], NEW w
  PROVE  InCorpus(w) > 0 <=> \E s \in Occurring : Lower[s] = w
<1> DEFINE S == {s \in Spellings : Lower[s] = w}
<1>1. IsFiniteSet(S) /\ \A s \in S : corpus[s] \in Nat
  BY VocabularyAssumption, FS_Subset
<1>2. ASSUME NEW s \in Occurring, Lower[s] = w
      PROVE  InCorpus(w) > 0
  <2>1. {s} \in SUBSET S /\ corpus[s] \in Nat /\ corpus[s] > 0
    BY <1>2 DEF Occurring
  <2> HIDE DEF S
  <2>2. SumFunctionOnSet(corpus, {s}) <= SumFunctionOnSet(corpus, S)
    BY <1>1, <2>1, SumOfPart
  <2>3. SumFunctionOnSet(corpus, {s}) = corpus[s]
    BY <2>1, SumOne
  <2>4. SumFunctionOnSet(corpus, S) = InCorpus(w) /\ InCorpus(w) \in Nat
    BY InCorpusType DEF S, InCorpus
  <2> QED
    BY <2>1, <2>2, <2>3, <2>4
<1>3. ASSUME ~ \E s \in Occurring : Lower[s] = w
      PROVE  InCorpus(w) = 0
  <2>1. {s \in Occurring : Folded(s) = w} = {}
    BY <1>3 DEF Folded
  <2> QED
    BY <2>1, SumIsInCorpus, SumEmpty
<1> QED
  BY <1>2, <1>3

LEMMA FrequentFinite ==
  ASSUME Types, Counted
  PROVE  /\ DOMAIN counts \subseteq Words /\ IsFiniteSet(Frequent)
         /\ \A w \in DOMAIN counts : counts[w] \in Nat \ {0}
<1>1. DOMAIN counts \subseteq Words
  BY WordsAre DEF Counted, Occurring
<1>2. Frequent \in SUBSET Words
  BY <1>1 DEF Frequent
<1>3. IsFiniteSet(Frequent)
  BY <1>2, WordsAre, FS_Subset
<1>4. \A w \in DOMAIN counts : counts[w] \in Nat \ {0}
  <2>1. corpus \in [Spellings -> Nat]
    BY DEF Types
  <2>2. \A w \in DOMAIN counts : InCorpus(w) \in Nat
    BY <2>1, InCorpusType
  <2> QED
    BY <2>2 DEF Counted
<1> QED
  BY <1>1, <1>3, <1>4

-----------------------------------------------------------------------------
LEMMA InitIInv == Init => IInv
<1> SUFFICES ASSUME Init PROVE IInv
  OBVIOUS
<1>a. /\ stage = "count" /\ corpus \in [Spellings -> 0 .. MaxOccurs]
      /\ min_count \in MinCounts /\ max_size \in MaxSizes
      /\ freq = NoWords /\ atoi = NoWords /\ itoa = NoWords
  BY DEF Init, VocabInit
<1>b. /\ weight = << >> /\ heap = {} /\ top = << >>
  BY DEF Init, TopInit
<1>c. /\ W1 = [m |-> 0, n |-> 0, data |-> << >>]
      /\ log = [meta |-> NoFile, wordvec |-> NoFile, vocab |-> NoFile]
      /\ reader = "off" /\ data = NoWords /\ rest = << >>
  BY DEF Init, NoWords
<1>1. Cardinality({}) = 0 /\ IsFiniteSet({})
  BY FS_EmptySet
<1>2. Types
  <2>6. stage \in Stages
    BY <1>a DEF Stages
  <2>7. 0 .. MaxOccurs \subseteq Nat
    <3>1. MaxOccurs \in Nat
      BY VocabularyAssumption
    <3> QED
      BY <3>1
  <2>1. corpus \in [Spellings -> Nat] /\ min_count \in Nat /\ max_size \in Nat
    BY <1>a, <2>7, VocabularyAssumption
  <2>2. /\ freq \in [DOMAIN freq -> Nat \ {0}] /\ DOMAIN freq \subseteq Words
        /\ DOMAIN atoi \subseteq Words \cup {EmptyWord} /\ Range(atoi) \subseteq Nat
        /\ DOMAIN itoa \subseteq Nat /\ IsFiniteSet(DOMAIN itoa) /\ Range(itoa) \subseteq DOMAIN atoi
    BY <1>1, <1>a, NoWordsIs
  <2>3. W1 \in [m : Nat, n : Nat, data : Seq(Cells)] /\ Len(W1.data) >= W1.m * W1.n
    BY <1>c
  <2>5. rest \in Seq(Words \cup {EmptyWord})
    BY <1>c
  <2>4. /\ log = [meta |-> log.meta, wordvec |-> log.wordvec, vocab |-> log.vocab]
        /\ log.wordvec = [exists |-> log.wordvec.exists, lines |-> log.wordvec.lines]
        /\ log.vocab = [exists |-> log.vocab.exists, lines |-> log.vocab.lines]
        /\ log.wordvec.lines \in Seq(Seq(Cells))
        /\ log.vocab.lines \in Seq(Words)
    <3>1. << >> \in Seq(Seq(Cells)) /\ << >> \in Seq(Words)
      OBVIOUS
    <3>2. /\ log.wordvec = NoFile /\ log.vocab = NoFile
          /\ log = [meta |-> log.meta, wordvec |-> log.wordvec, vocab |-> log.vocab]
      BY <1>c
    <3>3. NoFile.lines = << >> /\ NoFile = [exists |-> NoFile.exists, lines |-> NoFile.lines]
      BY DEF NoFile
    <3> QED
      BY <3>1, <3>2, <3>3
  <2> QED
    BY <2>1, <2>2, <2>3, <2>4, <2>5, <2>6 DEF Types
<1>3. BuildInv
  <2>1. size = 0
    BY <1>1, <1>a, NoWordsIs DEF size
  <2>2. Numbered
    BY <1>a, <2>1, NoWordsIs DEF Numbered
  <2> QED
    BY <1>a, <2>2 DEF BuildInv
<1>4. FileInv
  BY <1>a, <1>c DEF FileInv, Filing, Asking
<1>5. ReaderInv
  <2>1. Len(log.vocab.lines) = 0 /\ DOMAIN data = {} /\ data = NoWords
    BY <1>c, NoWordsIs DEF NoFile
  <2>2. DOMAIN data = {log.vocab.lines[k] : k \in 1 .. Cardinality(DOMAIN data)}
    BY <1>1, <2>1
  <2> QED
    BY <1>1, <1>a, <1>c, <2>1, <2>2 DEF ReaderInv, Before
<1>6. LoadInv
  BY <1>a DEF LoadInv
<1>7. QueryInv
  BY <1>a, <1>b DEF Init, TopInit, QueryInv, Asking
<1> QED
  BY <1>2, <1>3, <1>4, <1>5, <1>6, <1>7 DEF IInv

-----------------------------------------------------------------------------
(* Vocabulary::build *)
-----------------------------------------------------------------------------
(* Vocabulary::build *)
LEMMA CountStep == IInv /\ Count /\ UNCHANGED <<topVars, fileVars>> => IInv'
<1> SUFFICES ASSUME IInv, Count, UNCHANGED <<topVars, fileVars>> PROVE IInv'
  OBVIOUS
<1>1. Types /\ BuildInv /\ FileInv /\ ReaderInv /\ LoadInv /\ QueryInv
  BY DEF IInv
<1>2. /\ stage = "count" /\ stage' = "keep"
      /\ counts' = [w \in {Folded(s) : s \in Occurring} |->
                      SumFunctionOnSet(corpus, {s \in Occurring : Folded(s) = w})]
      /\ UNCHANGED <<corpus, min_count, max_size, vec, freq, atoi, itoa, W1, log, rest>>
      /\ UNCHANGED <<reader, line, data>> /\ UNCHANGED topVars
  BY DEF Count, fileVars
<1>3. Types'
  BY <1>1, <1>2, TypesKept DEF Stages
<1>4. corpus \in [Spellings -> Nat]
  BY <1>1 DEF Types
<1>5. Counted'
  <2>1. DOMAIN counts' = {Lower[s] : s \in Occurring}
    BY <1>2 DEF Folded
  <2>2. ASSUME NEW w \in DOMAIN counts'
        PROVE  counts'[w] = InCorpus(w) /\ counts'[w] > 0
    <3>1. counts'[w] = InCorpus(w)
      BY <1>2, <1>4, <2>2, SumIsInCorpus
    <3>2. \E s \in Occurring : Lower[s] = w
      BY <2>1, <2>2
    <3> QED
      BY <1>4, <3>1, <3>2, OccursIfCounted
  <2>3. Occurring' = Occurring /\ \A w : InCorpus(w)' = InCorpus(w)
    BY <1>2 DEF Occurring, InCorpus
  <2> QED
    BY <2>1, <2>2, <2>3 DEF Counted
<1>6. BuildInv'
  <2>1. Numbered
    BY <1>1, <1>2 DEF BuildInv
  <2>2. Numbered'
    BY <1>2, <2>1 DEF Numbered, size
  <2> QED
    BY <1>1, <1>2, <1>5, <2>2 DEF BuildInv
<1>7. FileInv'
  BY <1>1, <1>2, NoFilesYet DEF Building
<1>8. ReaderInv'
  BY <1>1, <1>2, ReaderKept DEF Before
<1>9. LoadInv'
  BY <1>2, NotLoading
<1>10. QueryInv'
  BY <1>1, <1>2, NotAsking DEF Asking
<1> QED
  BY <1>3, <1>6, <1>7, <1>8, <1>9, <1>10 DEF IInv

LEMMA KeepStep == IInv /\ Keep /\ UNCHANGED <<topVars, fileVars>> => IInv'
<1> SUFFICES ASSUME IInv, Keep, UNCHANGED <<topVars, fileVars>> PROVE IInv'
  OBVIOUS
<1>1. Types /\ BuildInv /\ FileInv /\ ReaderInv /\ LoadInv /\ QueryInv
  BY DEF IInv
<1>2. /\ stage = "keep" /\ stage' = "add"
      /\ freq' = NoWords /\ atoi' = NoWords /\ itoa' = NoWords
      /\ UNCHANGED <<corpus, min_count, max_size, counts, W1, log, rest>>
      /\ UNCHANGED <<reader, line, data>> /\ UNCHANGED topVars
  BY DEF Keep, fileVars
<1>3. PICK ws \in SetToSeqs(Frequent) :
        /\ Sorted(ws)
        /\ vec' = [k \in 1 .. Min({max_size, Len(ws)}) |-> <<ws[k], counts[ws[k]]>>]
  BY DEF Keep
<1>4. Counted /\ Numbered /\ freq = NoWords /\ atoi = NoWords /\ itoa = NoWords
  BY <1>1, <1>2 DEF BuildInv
<1>5. Types'
  BY <1>1, <1>2, <1>4, TypesKept DEF Stages
<1>6. /\ ws \in Seq(Frequent) /\ Len(ws) \in Nat
      /\ \A w \in Frequent : w \in Words /\ counts[w] \in Nat
  BY <1>1, <1>3, <1>4, FrequentFinite, SeqsOfSet DEF Frequent
<1>7. Kept'
  <2> DEFINE n == Min({max_size, Len(ws)})
  <2>0. max_size \in Nat
    BY <1>1 DEF Types
  <2>a. n = IF max_size <= Len(ws) THEN max_size ELSE Len(ws)
    BY <1>6, <2>0, MinMax
  <2> HIDE DEF n
  <2>1. n \in Nat /\ n <= Len(ws)
    BY <1>6, <2>0, <2>a
  <2>2. vec' = [k \in 1 .. n |-> <<ws[k], counts[ws[k]]>>]
    BY <1>3 DEF n
  <2>3. \A k \in 1 .. n : ws[k] \in Frequent
    BY <1>6, <2>1
  <2>4. vec' \in Seq(Words \X Nat) /\ Len(vec') = n
    BY <1>6, <2>1, <2>2, <2>3
  <2>5. Frequent' = Frequent /\ Sorted(ws)'
    BY <1>2, <1>3 DEF Frequent, Sorted
  <2>6. size' = 0
    BY <1>2, NoWordsIs, FS_EmptySet DEF size
  <2>7. KeptOf(ws)'
    <3>1. size' + Len(vec') = n
      BY <2>1, <2>4, <2>6
    <3>2. \A k \in 1 .. Len(vec') : vec'[k] = <<ws[size' + k], counts'[ws[size' + k]]>>
      <4>1. \A k \in 1 .. n : vec'[k] = <<ws[k], counts[ws[k]]>> /\ 0 + k = k
        BY <2>1, <2>2
      <4> QED
        BY <1>2, <2>4, <2>6, <4>1
    <3>3. n = Min({max_size', Len(ws)})
      BY <1>2 DEF n
    <3>4. \A i \in 0 .. size' - 1 : FALSE
      BY <2>6
    <3> QED
      BY <2>5, <3>1, <3>2, <3>3, <3>4 DEF KeptOf
  <2> QED
    BY <1>3, <2>4, <2>5, <2>7 DEF Kept
<1>8. BuildInv'
  <2>1. Numbered'
    BY <1>2, <1>4 DEF Numbered, size
  <2>2. Counted'
    BY <1>2, <1>4 DEF Counted, Occurring, InCorpus
  <2>3. atoi' = [w \in DOMAIN atoi' |-> atoi'[w]]
    BY <1>2 DEF NoWords
  <2> QED
    BY <1>2, <1>7, <2>1, <2>2, <2>3 DEF BuildInv
<1>9. FileInv'
  BY <1>1, <1>2, NoFilesYet DEF Building
<1>10. ReaderInv'
  BY <1>1, <1>2, ReaderKept DEF Before
<1>11. LoadInv'
  BY <1>2, NotLoading
<1>12. QueryInv'
  BY <1>1, <1>2, NotAsking DEF Asking
<1> QED
  BY <1>5, <1>8, <1>9, <1>10, <1>11, <1>12 DEF IInv

(* A word that is added has the next number, and had none before. *)
LEMMA addStep == IInv /\ add /\ UNCHANGED <<topVars, fileVars>> => IInv'
<1> SUFFICES ASSUME IInv, add, UNCHANGED <<topVars, fileVars>> PROVE IInv'
  OBVIOUS
<1>1. Types /\ BuildInv /\ FileInv /\ ReaderInv /\ LoadInv /\ QueryInv
  BY DEF IInv
<1> DEFINE w == Head(vec)[1]
           c == Head(vec)[2]
           n == size
<1>2. /\ stage = "add" /\ stage' = "add" /\ vec # << >> /\ vec' = Tail(vec)
      /\ freq' = Put(freq, w, c + (IF w \in DOMAIN freq THEN freq[w] ELSE 0))
      /\ atoi' = Put(atoi, w, n) /\ itoa' = Put(itoa, n, w)
      /\ UNCHANGED <<corpus, min_count, max_size, counts, W1, log, rest>>
      /\ UNCHANGED <<reader, line, data>> /\ UNCHANGED topVars
  BY DEF add, fileVars
<1>3. Counted /\ Kept /\ Numbered
  BY <1>1, <1>2 DEF BuildInv
<1>4. PICK ws \in SetToSeqs(Frequent) : KeptOf(ws)
  BY <1>3 DEF Kept
<1>5. /\ ws \in Seq(Frequent) /\ Len(ws) \in Nat
      /\ \A k, l \in 1 .. Len(ws) : ws[k] = ws[l] => k = l
      /\ \A x \in Frequent : x \in Words /\ counts[x] \in Nat \ {0}
  BY <1>1, <1>3, <1>4, FrequentFinite, SeqsOfSet DEF Frequent
<1>6. n \in Nat
  BY <1>1, FS_CardinalityType DEF size, Types
<1>7. vec \in Seq(Words \X Nat) /\ Len(vec) \in Nat /\ Len(vec) > 0 /\ Head(vec) = vec[1]
  BY <1>2, <1>3 DEF Kept
<1> DEFINE lim == Min({max_size, Len(ws)})
<1>a. max_size \in Nat
  BY <1>1 DEF Types
<1>b. n + Len(vec) = lim
  BY <1>4 DEF KeptOf
<1>c. lim = IF max_size <= Len(ws) THEN max_size ELSE Len(ws)
  BY <1>5, <1>a, MinMax
<1> HIDE DEF lim
<1>8. lim \in Nat /\ lim <= Len(ws) /\ n + Len(vec) = lim
  BY <1>5, <1>a, <1>b, <1>c
<1>9. n + 1 \in 1 .. Len(ws) /\ w = ws[n + 1] /\ c = counts[ws[n + 1]]
  <2>1. 1 \in 1 .. Len(vec)
    BY <1>7
  <2>2. vec[1] = <<ws[n + 1], counts[ws[n + 1]]>>
    BY <1>4, <2>1 DEF KeptOf
  <2> QED
    BY <1>5, <1>6, <1>7, <1>8, <2>2
<1>10. w \in Words /\ c \in Nat \ {0}
  BY <1>5, <1>9
<1>11. DOMAIN itoa = 0 .. n - 1
  BY <1>3 DEF Numbered
<1>12. w \notin DOMAIN atoi /\ w \notin DOMAIN freq
  <2>1. ASSUME NEW i \in 0 .. n - 1
        PROVE  itoa[i] # w
    <3>1. itoa[i] = ws[i + 1]
      BY <1>4, <2>1 DEF KeptOf
    <3>2. i + 1 \in 1 .. Len(ws) /\ i + 1 # n + 1
      BY <1>5, <1>6, <1>9
    <3> QED
      BY <1>5, <1>9, <3>1, <3>2
  <2> QED
    BY <1>3, <1>11, <2>1 DEF Numbered, Range
<1> HIDE DEF w, c, n
<1>13. /\ DOMAIN itoa' = 0 .. n /\ itoa'[n] = w
       /\ \A i \in 0 .. n - 1 : itoa'[i] = itoa[i]
       /\ Range(itoa') = Range(itoa) \cup {w}
  <2>1. (0 .. n - 1) \cup {n} = 0 .. n /\ n \notin 0 .. n - 1
    BY <1>6
  <2>2. /\ DOMAIN itoa' = DOMAIN itoa \cup {n} /\ itoa'[n] = w
        /\ \A i \in DOMAIN itoa : i # n => itoa'[i] = itoa[i]
    <3>1. IsPut(itoa', itoa, n, w)
      BY <1>2 DEF Put, IsPut
    <3> QED
      BY <3>1 DEF IsPut
  <2> QED
    BY <1>11, <2>1, <2>2 DEF Range
<1>14. /\ DOMAIN atoi' = DOMAIN atoi \cup {w} /\ atoi'[w] = n
       /\ \A x \in DOMAIN atoi : x # w => atoi'[x] = atoi[x]
       /\ Range(atoi') \subseteq Range(atoi) \cup {n}
  <2>1. IsPut(atoi', atoi, w, n)
    BY <1>2 DEF Put, IsPut
  <2>2. /\ DOMAIN atoi' = DOMAIN atoi \cup {w} /\ atoi'[w] = n
        /\ \A x \in DOMAIN atoi : x # w => atoi'[x] = atoi[x]
    BY <2>1 DEF IsPut
  <2> QED
    BY <2>2 DEF Range
<1>15. /\ DOMAIN freq' = DOMAIN freq \cup {w} /\ freq'[w] = c
       /\ \A x \in DOMAIN freq : freq'[x] = freq[x]
  <2>1. freq' = Put(freq, w, c + 0)
    BY <1>2, <1>12
  <2>2. c + 0 = c
    BY <1>10
  <2>3. IsPut(freq', freq, w, c)
    BY <2>1, <2>2 DEF Put, IsPut
  <2> QED
    BY <1>12, <2>3 DEF IsPut
<1>16. size' = n + 1 /\ IsFiniteSet(DOMAIN itoa')
  <2>1. 0 .. n = 0 .. (n + 1) - 1 /\ n + 1 \in Nat
    BY <1>6
  <2>2. IsFiniteSet(DOMAIN itoa') /\ Cardinality(DOMAIN itoa') = n + 1
    BY <1>13, <2>1, FirstNumbers
  <2> QED
    BY <2>2 DEF size
<1>17. Numbered'
  <2>1. DOMAIN itoa' = 0 .. size' - 1
    BY <1>6, <1>13, <1>16
  <2>2. DOMAIN atoi' = Range(itoa') /\ DOMAIN freq' = DOMAIN atoi'
    BY <1>3, <1>13, <1>14, <1>15 DEF Numbered
  <2>3. ASSUME NEW i \in 0 .. n
        PROVE  itoa'[i] \in Words /\ atoi'[itoa'[i]] = i
    <3>1. CASE i = n
      BY <1>10, <1>13, <1>14, <3>1
    <3>2. CASE i # n
      <4>1. i \in 0 .. n - 1
        BY <1>6, <3>2
      <4>2. itoa[i] \in Words /\ atoi[itoa[i]] = i /\ itoa[i] \in DOMAIN atoi
        BY <1>3, <1>11, <4>1 DEF Numbered, Range
      <4> QED
        BY <1>12, <1>13, <1>14, <4>1, <4>2
    <3> QED
      BY <3>1, <3>2
  <2> QED
    BY <1>13, <2>1, <2>2, <2>3 DEF Numbered
<1>18. Kept'
  <2>1. /\ vec' \in Seq(Words \X Nat) /\ Len(vec') = Len(vec) - 1
        /\ \A k \in 1 .. Len(vec') : vec'[k] = vec[k + 1]
    BY <1>2, <1>7
  <2>2. Frequent' = Frequent /\ Sorted(ws)'
    BY <1>2, <1>4 DEF Frequent, Sorted, KeptOf
  <2>3. size' + Len(vec') = lim
    <3> DEFINE v == Len(vec)
    <3>1. n \in Nat /\ v \in Nat /\ n + v = lim /\ Len(vec') = v - 1 /\ size' = n + 1
      BY <1>6, <1>7, <1>8, <1>16, <2>1
    <3> HIDE DEF v
    <3> QED
      BY <3>1
  <2>4. ASSUME NEW k \in 1 .. Len(vec')
        PROVE  vec'[k] = <<ws[size' + k], counts'[ws[size' + k]]>>
    <3>1. k + 1 \in 1 .. Len(vec) /\ vec'[k] = vec[k + 1]
      BY <1>7, <2>1
    <3>2. vec[k + 1] = <<ws[n + (k + 1)], counts[ws[n + (k + 1)]]>>
      BY <1>4, <3>1 DEF KeptOf, n
    <3>3. n + (k + 1) = size' + k
      BY <1>6, <1>16
    <3> QED
      BY <1>2, <3>1, <3>2, <3>3
  <2>5. ASSUME NEW i \in 0 .. n
        PROVE  itoa'[i] = ws[i + 1] /\ freq'[ws[i + 1]] = counts[ws[i + 1]]
    <3>1. CASE i = n
      BY <1>9, <1>13, <1>15, <3>1 DEF w, c, n
    <3>2. CASE i # n
      <4>1. i \in 0 .. n - 1
        BY <1>6, <3>2
      <4>2. itoa[i] = ws[i + 1] /\ freq[ws[i + 1]] = counts[ws[i + 1]]
        BY <1>4, <4>1 DEF KeptOf, n
      <4>3. itoa[i] \in DOMAIN freq
        BY <1>3, <1>11, <4>1 DEF Numbered, Range
      <4> QED
        BY <1>13, <1>15, <4>1, <4>2, <4>3
    <3> QED
      BY <3>1, <3>2
  <2>6. 0 .. n = 0 .. size' - 1
    BY <1>6, <1>16
  <2>7. KeptOf(ws)'
    BY <1>2, <2>2, <2>3, <2>4, <2>5, <2>6 DEF KeptOf, lim
  <2> QED
    BY <1>4, <2>1, <2>2, <2>7 DEF Kept
<1>19. Types'
  <2>1. freq' \in [DOMAIN freq' -> Nat \ {0}] /\ DOMAIN freq' \subseteq Words
    <3>1. DOMAIN freq \subseteq Words /\ \A x \in DOMAIN freq : freq[x] \in Nat \ {0}
      BY <1>1 DEF Types
    <3>2. \A x \in DOMAIN freq' : x \in Words /\ freq'[x] \in Nat \ {0}
      BY <1>10, <1>15, <3>1
    <3>3. freq' = [x \in DOMAIN freq' |-> freq'[x]]
      BY <1>2 DEF Put
    <3> QED
      BY <3>2, <3>3
  <2>2. /\ DOMAIN atoi' \subseteq Words \cup {EmptyWord} /\ Range(atoi') \subseteq Nat
        /\ DOMAIN itoa' \subseteq Nat /\ Range(itoa') \subseteq DOMAIN atoi'
    <3>1. /\ DOMAIN atoi \subseteq Words \cup {EmptyWord} /\ Range(atoi) \subseteq Nat
          /\ Range(itoa) \subseteq DOMAIN atoi
      BY <1>1 DEF Types
    <3>2. 0 .. n \subseteq Nat
      BY <1>6
    <3> QED
      BY <1>6, <1>10, <1>13, <1>14, <3>1, <3>2
  <2> QED
    BY <1>1, <1>2, <1>16, <2>1, <2>2 DEF Types
<1>20. BuildInv'
  <2>1. Counted'
    BY <1>2, <1>3 DEF Counted, Occurring, InCorpus
  <2>2. atoi' = [x \in DOMAIN atoi' |-> atoi'[x]]
    BY <1>2 DEF Put
  <2> QED
    BY <1>2, <1>17, <1>18, <2>1, <2>2 DEF BuildInv
<1>21. FileInv'
  BY <1>1, <1>2, NoFilesYet DEF Building
<1>22. ReaderInv'
  BY <1>1, <1>2, ReaderKept DEF Before
<1>23. LoadInv'
  BY <1>2, NotLoading
<1>24. QueryInv'
  BY <1>1, <1>2, NotAsking DEF Asking
<1> QED
  BY <1>19, <1>20, <1>21, <1>22, <1>23, <1>24 DEF IInv

LEMMA BuiltStep == IInv /\ Built /\ UNCHANGED <<topVars, fileVars>> => IInv'
<1> SUFFICES ASSUME IInv, Built, UNCHANGED <<topVars, fileVars>> PROVE IInv'
  OBVIOUS
<1>1. Types /\ BuildInv /\ FileInv /\ ReaderInv /\ LoadInv /\ QueryInv
  BY DEF IInv
<1>2. /\ stage = "add" /\ stage' = "train" /\ vec = << >>
      /\ UNCHANGED <<corpus, min_count, max_size, counts, vec, freq, atoi, itoa, W1, log, rest>>
      /\ UNCHANGED <<reader, line, data>> /\ UNCHANGED topVars
  BY DEF Built, vocabVars, fileVars
<1>3. Types'
  BY <1>1, <1>2, TypesKept DEF Stages
<1>4. BuildInv'
  <2>1. Counted /\ Kept /\ Numbered /\ atoi = [x \in DOMAIN atoi |-> atoi[x]]
    BY <1>1, <1>2 DEF BuildInv
  <2>2. Counted'
    BY <1>2, <2>1 DEF Counted, Occurring, InCorpus
  <2>3. Kept'
    BY <1>2, <2>1 DEF Kept, KeptOf, Frequent, Sorted, size
  <2>4. Numbered'
    BY <1>2, <2>1 DEF Numbered, size
  <2>5. atoi' = [x \in DOMAIN atoi' |-> atoi'[x]]
    BY <1>2, <2>1
  <2> QED
    BY <1>2, <2>2, <2>3, <2>4, <2>5 DEF BuildInv
<1>5. FileInv'
  BY <1>1, <1>2, NoFilesYet DEF Building
<1>6. ReaderInv'
  BY <1>1, <1>2, ReaderKept DEF Before
<1>7. LoadInv'
  BY <1>2, NotLoading
<1>8. QueryInv'
  BY <1>1, <1>2, NotAsking DEF Asking
<1> QED
  BY <1>3, <1>4, <1>5, <1>6, <1>7, <1>8 DEF IInv

-----------------------------------------------------------------------------
(* Glove::train after the vocabulary, and to_txt. *)
LEMMA SizeType == Types => size \in Nat
BY FS_CardinalityType DEF Types, size

LEMMA EmbedType == EmbedSize \in Nat /\ EmbedSize >= 1 /\ EmbedSize \in Nat \ {0}
<1>1. EmbedSize \in Nat \ {0}
  BY SizesAssumption
<1> QED
  BY <1>1

(* A row of the matrix belongs to the word with its number. *)
LEMMA TrainedIs ==
  ASSUME Numbered, NEW i \in DOMAIN itoa, NEW j
  PROVE  Trained(i, j) = <<itoa[i], j>>
<1>1. itoa[i] \in DOMAIN atoi /\ atoi[itoa[i]] = i
  BY DEF Numbered, Range
<1>2. \A w \in DOMAIN atoi : atoi[w] = i => w = itoa[i]
  BY DEF Numbered, Range
<1>3. (CHOOSE w \in DOMAIN atoi : atoi[w] = i) = itoa[i]
  BY <1>1, <1>2
<1> QED
  BY <1>3 DEF Trained

LEMMA CellIs ==
  ASSUME NEW w \in Words, NEW r \in Nat
  PROVE  <<w, r>> \in Cells
BY DEF Cells

LEMMA TrainStep == IInv /\ Train => IInv'
<1> SUFFICES ASSUME IInv, Train PROVE IInv'
  OBVIOUS
<1>1. Types /\ BuildInv /\ FileInv /\ ReaderInv /\ LoadInv /\ QueryInv
  BY DEF IInv
<1> DEFINE n == size
           e == EmbedSize
           cells == [k \in 1 .. n * e |-> Trained((k - 1) \div e, (k - 1) % e)]
<1>2. /\ stage = "train" /\ stage' = "meta"
      /\ W1' = [m |-> n, n |-> e, data |-> cells]
      /\ corpus' = [s \in Spellings |-> 0]
      /\ UNCHANGED <<min_count, max_size, freq, atoi, itoa, topVars, log, reader, line, data, rest>>
  BY DEF Train
<1>3. Numbered
  BY <1>1, <1>2 DEF BuildInv
<1>4. n \in Nat /\ e \in Nat \ {0} /\ DOMAIN itoa = 0 .. n - 1 /\ n * e \in Nat
  BY <1>1, <1>3, SizeType, EmbedType DEF Numbered
<1> HIDE DEF n, e
<1>5. \A i \in 0 .. n - 1 : \A j : Trained(i, j) = <<itoa[i], j>>
  BY <1>3, <1>4, TrainedIs
<1>6. cells \in Seq(Cells) /\ Len(cells) = n * e
  <2>1. ASSUME NEW k \in 1 .. n * e
        PROVE  Trained((k - 1) \div e, (k - 1) % e) \in Cells
    <3> DEFINE q == (k - 1) \div e
               r == (k - 1) % e
    <3>1. q \in 0 .. n - 1 /\ r \in 0 .. e - 1
      BY <1>4, CellOfPlace
    <3> HIDE DEF q, r
    <3>2. itoa[q] \in Words
      BY <1>3, <1>4, <3>1 DEF Numbered
    <3>5. r \in Nat
      BY <1>4, <3>1
    <3>3. Trained(q, r) = <<itoa[q], r>>
      BY <1>5, <3>1
    <3>4. Trained(q, r) \in Cells
      BY <3>2, <3>3, <3>5, CellIs
    <3> QED
      BY <3>4 DEF q, r
  <2> QED
    BY <1>4, <2>1
<1>7. ASSUME NEW i \in 0 .. n - 1, NEW j \in 0 .. e - 1
      PROVE  cells[i * e + j + 1] = <<itoa[i], j>>
  <2>1. i \in Nat /\ i < n
    BY <1>4
  <2>2. /\ i * e + j + 1 \in Nat \ {0}
        /\ ((i * e + j + 1) - 1) \div e = i /\ ((i * e + j + 1) - 1) % e = j
        /\ i * e + j + 1 <= n * e
    BY <1>4, <2>1, PlaceOfCell
  <2> DEFINE k == i * e + j + 1
  <2> HIDE DEF k
  <2>3. k \in 1 .. n * e /\ (k - 1) \div e = i /\ (k - 1) % e = j
    BY <1>4, <2>2 DEF k
  <2>4. cells[k] = Trained(i, j)
    BY <2>3
  <2> QED
    BY <1>5, <2>4 DEF k
<1> HIDE DEF cells
<1>8. Types'
  <2>1. W1' \in [m : Nat, n : Nat, data : Seq(Cells)] /\ Len(W1'.data) >= W1'.m * W1'.n
    BY <1>2, <1>4, <1>6
  <2>2. corpus' \in [Spellings -> Nat] /\ stage' \in Stages
    BY <1>2 DEF Stages, Filing
  <2> QED
    BY <1>1, <1>2, <2>1, <2>2 DEF Types
<1>9. BuildInv'
  <2>1. Numbered'
    BY <1>2, <1>3 DEF Numbered, size
  <2> QED
    BY <1>2, <2>1 DEF BuildInv
<1>10. FileInv'
  <2>1. log.vocab = NoFile /\ log.wordvec = NoFile
    BY <1>1, <1>2 DEF FileInv, Asking
  <2>2. size' = n
    BY <1>2 DEF size, n
  <2>3. W1'.m = n /\ W1'.n = e
    BY <1>2
  <2>4. ASSUME NEW i \in 0 .. n - 1, NEW j \in 0 .. e - 1
        PROVE  at(i, j)' = <<itoa'[i], j>>
    BY <1>2, <1>7 DEF at
  <2> QED
    BY <1>2, <2>1, <2>2, <2>3, <2>4 DEF FileInv, Asking, e
<1>11. ReaderInv'
  BY <1>1, <1>2, ReaderKept DEF Before
<1>12. LoadInv'
  BY <1>2, NotLoading
<1>13. QueryInv'
  BY <1>1, <1>2, NotAsking DEF Asking
<1> QED
  BY <1>8, <1>9, <1>10, <1>11, <1>12, <1>13 DEF IInv

(* While to_txt runs and there are no words yet, nobody reads. *)
LEMMA ReaderIdle ==
  ASSUME Types', ReaderInv, UNCHANGED <<reader, line, data>>,
         stage \in Before \ {"words", "saved"}, stage' \in Before
  PROVE  ReaderInv'
<1>1. reader' \in {"off", "aborted"} /\ data' = NoWords
  BY DEF ReaderInv
<1>2. DOMAIN data' = {} /\ Cardinality(DOMAIN data') = 0
  BY <1>1, NoWordsIs, FS_EmptySet
<1>3. Len(log'.vocab.lines) \in Nat
  <2>1. log'.vocab.lines \in Seq(Words)
    BY DEF Types
  <2> QED
    BY <2>1
<1>4. DOMAIN data' = {log'.vocab.lines[k] : k \in 1 .. Cardinality(DOMAIN data')}
  BY <1>2
<1>5. Cardinality(DOMAIN data') <= Len(log'.vocab.lines)
  BY <1>2, <1>3
<1> QED
  BY <1>1, <1>2, <1>4, <1>5 DEF ReaderInv

(* What to_txt leaves alone in all its steps. *)
LEMMA ToTxtKeeps ==
  ASSUME IInv, ToTxt, stage \in Filing, stage' \in Filing
  PROVE  /\ BuildInv' /\ LoadInv' /\ QueryInv'
         /\ UNCHANGED <<corpus, min_count, max_size, freq, atoi, itoa, W1, rest>>
         /\ UNCHANGED <<reader, line, data>>
         /\ size' = size /\ size \in Nat /\ Numbered /\ W1.m = size /\ W1.n = EmbedSize
         /\ \A i \in 0 .. size - 1 : \A j \in 0 .. EmbedSize - 1 :
              at(i, j) = <<itoa[i], j>> /\ at(i, j)' = at(i, j)
<1>1. Types /\ BuildInv /\ FileInv /\ QueryInv
  BY DEF IInv
<1>2. /\ UNCHANGED <<corpus, min_count, max_size, freq, atoi, itoa, W1, rest>>
      /\ UNCHANGED <<reader, line, data>> /\ UNCHANGED topVars
  BY DEF ToTxt, vocabVars
<1>3. BuildInv'
  BY <1>1, <1>2, NotBuilding
<1>4. LoadInv'
  BY NotLoading DEF Filing
<1>5. QueryInv'
  BY <1>1, <1>2, NotAsking DEF Filing, Asking
<1>6. size' = size /\ size \in Nat
  BY <1>1, <1>2, SizeType DEF size
<1>7. Numbered
  BY <1>1 DEF BuildInv
<1>8. /\ W1.m = size /\ W1.n = EmbedSize
      /\ \A i \in 0 .. size - 1 : \A j \in 0 .. EmbedSize - 1 : at(i, j) = <<itoa[i], j>>
  BY <1>1 DEF FileInv
<1>9. \A i, j : at(i, j)' = at(i, j)
  BY <1>2 DEF at
<1> QED
  BY <1>2, <1>3, <1>4, <1>5, <1>6, <1>7, <1>8, <1>9

LEMMA WriteMetaStep == IInv /\ WriteMeta => IInv'
<1> SUFFICES ASSUME IInv, WriteMeta PROVE IInv'
  OBVIOUS
<1>1. Types /\ BuildInv /\ FileInv /\ ReaderInv /\ LoadInv /\ QueryInv
  BY DEF IInv
<1>2. /\ stage = "meta" /\ stage' = "openVectors" /\ ToTxt
      /\ log' = [log EXCEPT !.meta = Written(<<EmbedSize>>)]
  BY DEF WriteMeta, Step
<1>3. stage \in Filing /\ stage' \in Filing /\ stage' \in Stages
  BY <1>2 DEF Filing, Stages
<1>4. log' = [meta |-> Written(<<EmbedSize>>), wordvec |-> log.wordvec, vocab |-> log.vocab]
  BY <1>1, <1>2 DEF Types
<1>5. Types'
  BY <1>1, <1>2, <1>3, <1>4, ToTxtKeeps DEF Types
<1>6. FileInv'
  <2>1. log.vocab = NoFile /\ log.wordvec = NoFile
    BY <1>1, <1>2 DEF FileInv, Asking
  <2> QED
    BY <1>2, <1>3, <1>4, <2>1, ToTxtKeeps DEF FileInv, Asking
<1>7. ReaderInv'
  BY <1>1, <1>2, <1>3, <1>5, ReaderIdle, ToTxtKeeps DEF Before
<1> QED
  BY <1>2, <1>3, <1>5, <1>6, <1>7, ToTxtKeeps DEF IInv

LEMMA OpenVectorsStep == IInv /\ OpenVectors => IInv'
<1> SUFFICES ASSUME IInv, OpenVectors PROVE IInv'
  OBVIOUS
<1>1. Types /\ BuildInv /\ FileInv /\ ReaderInv /\ LoadInv /\ QueryInv
  BY DEF IInv
<1>2. /\ stage = "openVectors" /\ stage' = "vectors" /\ ToTxt
      /\ log' = [log EXCEPT !.wordvec = Written(<< >>)]
  BY DEF OpenVectors, Step
<1>3. stage \in Filing /\ stage' \in Filing /\ stage' \in Stages
  BY <1>2 DEF Filing, Stages
<1>4. /\ log' = [meta |-> log.meta, wordvec |-> Written(<< >>), vocab |-> log.vocab]
      /\ Written(<< >>) = [exists |-> TRUE, lines |-> << >>]
  BY <1>1, <1>2 DEF Types, Written
<1>5. Types'
  <2>1. log'.wordvec.lines \in Seq(Seq(Cells)) /\ log'.vocab.lines \in Seq(Words)
    <3>1. << >> \in Seq(Seq(Cells))
      OBVIOUS
    <3>2. log.vocab.lines \in Seq(Words)
      BY <1>1 DEF Types
    <3>3. log'.wordvec.lines = << >> /\ log'.vocab = log.vocab
      BY <1>4
    <3> QED
      BY <3>1, <3>2, <3>3
  <2>2. log' = [meta |-> log'.meta, wordvec |-> log'.wordvec, vocab |-> log'.vocab]
    BY <1>4
  <2>3. log'.wordvec = [exists |-> log'.wordvec.exists, lines |-> log'.wordvec.lines]
    BY <1>4
  <2>4. log'.vocab = [exists |-> log'.vocab.exists, lines |-> log'.vocab.lines]
    BY <1>1, <1>4 DEF Types
  <2> QED
    BY <1>1, <1>2, <1>3, <2>1, <2>2, <2>3, <2>4, ToTxtKeeps DEF Types
<1>6. FileInv'
  <2>1. log.vocab = NoFile /\ log.meta = Written(<<EmbedSize>>)
    BY <1>1, <1>2 DEF FileInv, Asking
  <2>2. log'.wordvec.exists /\ Len(log'.wordvec.lines) = 0
    BY <1>4
  <2>3. Begun(size)'
    BY <1>2, <1>3, <2>2, ToTxtKeeps DEF Begun
  <2> QED
    BY <1>2, <1>3, <1>4, <2>1, <2>2, <2>3, ToTxtKeeps DEF FileInv, Asking
<1>7. ReaderInv'
  BY <1>1, <1>2, <1>3, <1>5, ReaderIdle, ToTxtKeeps DEF Before
<1> QED
  BY <1>2, <1>3, <1>5, <1>6, <1>7, ToTxtKeeps DEF IInv

LEMMA Lines ==
  ASSUME Types
  PROVE  /\ log.wordvec.lines \in Seq(Seq(Cells)) /\ Len(log.wordvec.lines) \in Nat
         /\ log.vocab.lines \in Seq(Words) /\ Len(log.vocab.lines) \in Nat
<1>1. log.wordvec.lines \in Seq(Seq(Cells)) /\ log.vocab.lines \in Seq(Words)
  BY DEF Types
<1> QED
  BY <1>1

(* The next value goes into the row that is not complete, or begins a row. *)
LEMMA WriteCellStep == IInv /\ WriteCell => IInv'
<1> SUFFICES ASSUME IInv, WriteCell PROVE IInv'
  OBVIOUS
<1>1. Types /\ BuildInv /\ FileInv /\ ReaderInv /\ LoadInv /\ QueryInv
  BY DEF IInv
<1> DEFINE i == NextCell[1]
           j == NextCell[2]
           n == size
           ls == log.wordvec.lines
           new == WithCell(ls, i, j)
<1>2. /\ stage = "vectors" /\ stage' = "vectors" /\ ToTxt /\ i < W1.m
      /\ log' = [log EXCEPT !.wordvec.lines = new]
  BY DEF WriteCell, Step
<1>3. stage \in Filing /\ stage' \in Filing /\ stage' \in Stages
  BY <1>2 DEF Filing, Stages
<1>4. /\ log' = [meta |-> log'.meta, wordvec |-> log'.wordvec, vocab |-> log'.vocab]
      /\ log'.meta = log.meta /\ log'.vocab = log.vocab
      /\ log'.wordvec = [exists |-> log.wordvec.exists, lines |-> new]
  <2>1. /\ log = [meta |-> log.meta, wordvec |-> log.wordvec, vocab |-> log.vocab]
        /\ log.wordvec = [exists |-> log.wordvec.exists, lines |-> log.wordvec.lines]
    BY <1>1 DEF Types
  <2> HIDE DEF new
  <2> QED
    BY <1>2, <2>1
<1>5. /\ n \in Nat /\ W1.m = n /\ W1.n = EmbedSize /\ size' = n
      /\ itoa' = itoa /\ DOMAIN itoa = 0 .. n - 1
      /\ \A a \in 0 .. n - 1 : itoa[a] \in Words
      /\ \A a \in 0 .. n - 1 : \A b \in 0 .. EmbedSize - 1 : at(a, b) = <<itoa[a], b>>
  BY <1>2, <1>3, ToTxtKeeps DEF Numbered
<1> HIDE DEF n
<1>6. EmbedSize \in Nat /\ EmbedSize >= 1
  BY EmbedType
<1>7. ls \in Seq(Seq(Cells)) /\ Len(ls) \in Nat
  BY <1>1, Lines
<1>8. /\ Len(ls) <= n
      /\ \A k \in 1 .. Len(ls) :
           /\ Len(ls[k]) \in 1 .. EmbedSize
           /\ k < Len(ls) => Len(ls[k]) = EmbedSize
           /\ \A b \in 1 .. Len(ls[k]) : ls[k][b] = <<itoa[k - 1], b - 1>>
  BY <1>1, <1>2 DEF FileInv, Begun, n
<1> HIDE DEF ls
<1>9. /\ new \in Seq(Seq(Cells)) /\ Len(new) <= n
      /\ \A k \in 1 .. Len(new) :
           /\ Len(new[k]) \in 1 .. EmbedSize
           /\ k < Len(new) => Len(new[k]) = EmbedSize
           /\ \A b \in 1 .. Len(new[k]) : new[k][b] = <<itoa[k - 1], b - 1>>
  <2>1. CASE ls = << >> \/ Len(Last(ls)) = W1.n
    <3>1. i = Len(ls) /\ j = 0
      BY <2>1 DEF NextCell, ls
    <3>2. i \in 0 .. n - 1 /\ 0 \in 0 .. EmbedSize - 1
      BY <1>2, <1>5, <1>6, <1>7, <3>1
    <3> HIDE DEF i, j
    <3>3. new = Append(ls, <<at(i, 0)>>)
      BY <3>1 DEF WithCell
    <3>4. at(i, 0) = <<itoa[i], 0>> /\ at(i, 0) \in Cells
      <4>1. at(i, 0) = <<itoa[i], 0>> /\ itoa[i] \in Words
        BY <1>5, <3>2
      <4> QED
        BY <4>1, CellIs
    <3> HIDE DEF new
    <3> DEFINE row == <<at(i, 0)>>
    <3>5. row \in Seq(Cells) /\ Len(row) = 1 /\ row[1] = <<itoa[i], 0>>
      BY <3>4
    <3> HIDE DEF row
    <3>6. /\ new \in Seq(Seq(Cells)) /\ Len(new) = i + 1 /\ new[i + 1] = row
          /\ \A k \in 1 .. i : new[k] = ls[k]
      BY <1>7, <3>1, <3>3, <3>5 DEF row
    <3>7. \A k \in 1 .. i : Len(ls[k]) = EmbedSize
      <4>1. ASSUME NEW k \in 1 .. i
            PROVE  Len(ls[k]) = EmbedSize
        <5>1. CASE k < Len(ls)
          BY <1>8, <3>1, <5>1
        <5>2. CASE ~ (k < Len(ls))
          <6>1. k = Len(ls) /\ ls # << >>
            BY <1>7, <3>1, <3>2, <5>2
          <6> QED
            BY <1>5, <2>1, <6>1 DEF Last
        <5> QED
          BY <5>1, <5>2
      <4> QED
        BY <4>1
    <3>8. ASSUME NEW k \in 1 .. i + 1
          PROVE  /\ Len(new[k]) \in 1 .. EmbedSize
                 /\ k < i + 1 => Len(new[k]) = EmbedSize
                 /\ \A b \in 1 .. Len(new[k]) : new[k][b] = <<itoa[k - 1], b - 1>>
      <4>1. CASE k = i + 1
        <5>1. \A b \in 1 .. 1 : b = 1 /\ b - 1 = 0
          OBVIOUS
        <5>2. k - 1 = i /\ ~ (k < i + 1)
          BY <3>2, <4>1
        <5>3. new[k] = row /\ Len(new[k]) = 1 /\ new[k][1] = <<itoa[i], 0>>
          BY <3>5, <3>6, <4>1
        <5>4. \A b \in 1 .. 1 : new[k][b] = <<itoa[k - 1], b - 1>>
          BY <5>1, <5>2, <5>3
        <5> QED
          BY <1>6, <5>2, <5>3, <5>4
      <4>2. CASE k # i + 1
        <5>1. k \in 1 .. i
          BY <3>2, <4>2
        <5> QED
          BY <1>8, <3>1, <3>6, <3>7, <5>1
      <4> QED
        BY <4>1, <4>2
    <3>9. i + 1 <= n
      BY <1>5, <3>2
    <3> QED
      BY <3>6, <3>8, <3>9
  <2>2. CASE ~ (ls = << >> \/ Len(Last(ls)) = W1.n)
    <3> DEFINE last == Len(ls)
               row == ls[last]
    <3>1. last \in 1 .. Len(ls) /\ last \in Nat /\ last >= 1 /\ Last(ls) = row
      BY <1>7, <2>2 DEF Last
    <3>2. i = last - 1 /\ j = Len(row)
      BY <2>2, <3>1 DEF NextCell, ls
    <3>3. row \in Seq(Cells) /\ Len(row) \in 1 .. EmbedSize /\ Len(row) # EmbedSize
      BY <1>5, <1>7, <1>8, <2>2, <3>1
    <3>4. \A b \in 1 .. Len(row) : row[b] = <<itoa[last - 1], b - 1>>
      BY <1>8, <3>1
    <3>5. i \in 0 .. n - 1 /\ j \in 0 .. EmbedSize - 1 /\ j # 0 /\ i + 1 = last /\ j \in Nat
      BY <1>2, <1>5, <1>6, <3>1, <3>2, <3>3
    <3> HIDE DEF row, last, i, j
    <3>6. new = [ls EXCEPT ![last] = Append(ls[last], at(i, j))]
      BY <3>5 DEF WithCell
    <3>7. at(i, j) = <<itoa[i], j>> /\ at(i, j) \in Cells
      <4>1. at(i, j) = <<itoa[i], j>> /\ itoa[i] \in Words /\ j \in Nat
        BY <1>5, <3>5
      <4> QED
        BY <4>1, CellIs
    <3> DEFINE longer == Append(row, at(i, j))
    <3>8. /\ longer \in Seq(Cells) /\ Len(longer) = j + 1 /\ longer[j + 1] = <<itoa[i], j>>
          /\ \A b \in 1 .. j : longer[b] = row[b]
      BY <3>2, <3>3, <3>5, <3>7
    <3> HIDE DEF new, longer
    <3>9. /\ new \in Seq(Seq(Cells)) /\ Len(new) = last /\ new[last] = longer
          /\ \A k \in 1 .. last : k # last => new[k] = ls[k]
      <4>1. new = [ls EXCEPT ![last] = longer]
        BY <3>6 DEF longer, row
      <4> QED
        BY <1>7, <3>1, <3>8, <4>1 DEF last
    <3>10. ASSUME NEW k \in 1 .. last
           PROVE  /\ Len(new[k]) \in 1 .. EmbedSize
                  /\ k < last => Len(new[k]) = EmbedSize
                  /\ \A b \in 1 .. Len(new[k]) : new[k][b] = <<itoa[k - 1], b - 1>>
      <4>1. CASE k = last
        <5>1. j + 1 \in 1 .. EmbedSize /\ ~ (k < last)
          BY <1>6, <3>1, <3>5, <4>1
        <5>2. ASSUME NEW b \in 1 .. j + 1
              PROVE  longer[b] = <<itoa[last - 1], b - 1>>
          <6>1. CASE b = j + 1
            <7>1. b - 1 = j /\ last - 1 = i
              BY <3>1, <3>2, <3>5, <6>1
            <7> QED
              BY <3>8, <6>1, <7>1
          <6>2. CASE b # j + 1
            <7>1. b \in 1 .. j
              BY <3>5, <6>2
            <7> QED
              BY <3>2, <3>4, <3>8, <7>1
          <6> QED
            BY <6>1, <6>2
        <5> QED
          BY <3>8, <3>9, <4>1, <5>1, <5>2
      <4>2. CASE k # last
        <5>1. k < last /\ k \in 1 .. Len(ls) /\ new[k] = ls[k]
          BY <3>1, <3>9, <4>2 DEF last
        <5> QED
          BY <1>8, <5>1 DEF last
      <4> QED
        BY <4>1, <4>2
    <3>11. last <= n
      BY <1>8 DEF last
    <3> QED
      BY <3>9, <3>10, <3>11
  <2> QED
    BY <2>1, <2>2
<1> HIDE DEF new, i, j
<1>10. Types'
  <2>1. log'.wordvec.lines = new /\ log'.wordvec = [exists |-> log'.wordvec.exists, lines |-> log'.wordvec.lines]
    BY <1>4
  <2>2. log'.wordvec.lines \in Seq(Seq(Cells)) /\ log'.vocab.lines \in Seq(Words)
    <3>1. log.vocab.lines \in Seq(Words)
      BY <1>1, Lines
    <3> QED
      BY <1>4, <1>9, <2>1, <3>1
  <2>3. log'.vocab = [exists |-> log'.vocab.exists, lines |-> log'.vocab.lines]
    BY <1>1, <1>4 DEF Types
  <2> QED
    BY <1>1, <1>2, <1>3, <1>4, <2>1, <2>2, <2>3, ToTxtKeeps DEF Types
<1>11. FileInv'
  <2>1. log.vocab = NoFile /\ log.meta = Written(<<EmbedSize>>) /\ log.wordvec.exists
    BY <1>1, <1>2 DEF FileInv, Asking
  <2>2. log'.wordvec.exists /\ log'.wordvec.lines = new
    BY <1>4, <2>1
  <2>3. Begun(size)'
    BY <1>5, <1>9, <2>2 DEF Begun
  <2> QED
    BY <1>2, <1>3, <1>4, <2>1, <2>2, <2>3, ToTxtKeeps DEF FileInv, Asking
<1>12. ReaderInv'
  BY <1>1, <1>2, <1>3, <1>10, ReaderIdle, ToTxtKeeps DEF Before
<1> QED
  BY <1>2, <1>3, <1>10, <1>11, <1>12, ToTxtKeeps DEF IInv

(* When the vectors are written, the file has one for each word. *)
LEMMA OpenWordsStep == IInv /\ OpenWords => IInv'
<1> SUFFICES ASSUME IInv, OpenWords PROVE IInv'
  OBVIOUS
<1>1. Types /\ BuildInv /\ FileInv /\ ReaderInv /\ LoadInv /\ QueryInv
  BY DEF IInv
<1> DEFINE n == size
           ls == log.wordvec.lines
<1>2. /\ stage = "vectors" /\ stage' = "words" /\ ToTxt /\ NextCell[1] = W1.m
      /\ log' = [log EXCEPT !.vocab = Written(<< >>)]
  BY DEF OpenWords, Step, VectorsWritten
<1>3. stage \in Filing /\ stage' \in Filing /\ stage' \in Stages
  BY <1>2 DEF Filing, Stages
<1>4. /\ log' = [meta |-> log.meta, wordvec |-> log.wordvec, vocab |-> Written(<< >>)]
      /\ Written(<< >>) = [exists |-> TRUE, lines |-> << >>]
  BY <1>1, <1>2 DEF Types, Written
<1>5. n \in Nat /\ W1.m = n /\ W1.n = EmbedSize /\ size' = n /\ itoa' = itoa
  BY <1>2, <1>3, ToTxtKeeps
<1> HIDE DEF n
<1>6. EmbedSize \in Nat /\ EmbedSize >= 1
  BY EmbedType
<1>7. ls \in Seq(Seq(Cells)) /\ Len(ls) \in Nat
  BY <1>1, Lines
<1>8. /\ Len(ls) <= n
      /\ \A k \in 1 .. Len(ls) :
           /\ Len(ls[k]) \in 1 .. EmbedSize
           /\ k < Len(ls) => Len(ls[k]) = EmbedSize
           /\ \A b \in 1 .. Len(ls[k]) : ls[k][b] = <<itoa[k - 1], b - 1>>
  BY <1>1, <1>2 DEF FileInv, Begun, n
<1>9. (ls = << >> \/ Len(Last(ls)) = EmbedSize) /\ Len(ls) = n
  <2>1. CASE ls = << >> \/ Len(Last(ls)) = W1.n
    BY <1>2, <1>5, <2>1 DEF NextCell
  <2>2. CASE ~ (ls = << >> \/ Len(Last(ls)) = W1.n)
    <3>1. Len(ls) - 1 = n
      BY <1>2, <1>5, <2>2 DEF NextCell
    <3> QED
      BY <1>5, <1>7, <1>8, <3>1
  <2> QED
    BY <2>1, <2>2
<1> HIDE DEF ls
<1>10. ASSUME NEW k \in 1 .. n
       PROVE  Len(ls[k]) = EmbedSize /\ ls[k] = Vector(itoa[k - 1])
  <2>1. Len(ls[k]) = EmbedSize
    <3>1. CASE k < Len(ls)
      BY <1>8, <1>9, <3>1
    <3>2. CASE ~ (k < Len(ls))
      <4>1. k = Len(ls) /\ ls # << >>
        BY <1>5, <1>7, <1>9, <3>2
      <4> QED
        BY <1>9, <4>1 DEF Last
    <3> QED
      BY <3>1, <3>2
  <2>2. ls[k] \in Seq(Cells) /\ \A b \in 1 .. Len(ls[k]) : ls[k][b] = <<itoa[k - 1], b - 1>>
    BY <1>7, <1>8, <1>9
  <2> DEFINE row == ls[k]
             w == itoa[k - 1]
  <2> HIDE DEF row, w
  <2>3. row = [b \in 1 .. EmbedSize |-> row[b]]
    BY <1>6, <2>1, <2>2 DEF row
  <2>4. \A b \in 1 .. EmbedSize : row[b] = <<w, b - 1>>
    BY <2>1, <2>2 DEF row, w
  <2>5. row = Vector(w)
    BY <2>3, <2>4 DEF Vector
  <2> QED
    BY <2>1, <2>5 DEF row, w
<1>11. Types'
  <2>1. log' = [meta |-> log'.meta, wordvec |-> log'.wordvec, vocab |-> log'.vocab]
    BY <1>4
  <2>2. log'.vocab = [exists |-> log'.vocab.exists, lines |-> log'.vocab.lines]
    BY <1>4
  <2>3. log'.wordvec = [exists |-> log'.wordvec.exists, lines |-> log'.wordvec.lines]
    BY <1>1, <1>4 DEF Types
  <2>4. log'.wordvec.lines \in Seq(Seq(Cells)) /\ log'.vocab.lines \in Seq(Words)
    <3>1. << >> \in Seq(Words)
      OBVIOUS
    <3>2. log'.vocab.lines = << >> /\ log'.wordvec.lines = ls
      BY <1>4 DEF ls
    <3> QED
      BY <1>7, <3>1, <3>2 DEF ls
  <2> QED
    BY <1>1, <1>2, <1>3, <2>1, <2>2, <2>3, <2>4, ToTxtKeeps DEF Types
<1>12. FileInv'
  <2>1. log.meta = Written(<<EmbedSize>>) /\ log.wordvec.exists
    BY <1>1, <1>2 DEF FileInv
  <2>2. /\ log'.meta = Written(<<EmbedSize>>) /\ log'.wordvec.exists /\ log'.vocab.exists
        /\ log'.wordvec.lines = ls /\ Len(log'.vocab.lines) = 0
    BY <1>4, <2>1 DEF ls
  <2>3. Closed'
    BY <1>5, <1>9, <1>10, <2>2 DEF Closed
  <2>4. \A k \in 1 .. n : ls[k] = Vector(itoa[k - 1])
    BY <1>10
  <2>5. \A w : Vector(w)' = Vector(w)
    BY DEF Vector
  <2> QED
    BY <1>2, <1>3, <1>5, <1>9, <2>2, <2>3, <2>4, <2>5, ToTxtKeeps DEF FileInv, Asking
<1>13. ReaderInv'
  BY <1>1, <1>2, <1>3, <1>11, ReaderIdle, ToTxtKeeps DEF Before
<1> QED
  BY <1>2, <1>3, <1>11, <1>12, <1>13, ToTxtKeeps DEF IInv

LEMMA WriteWordStep == IInv /\ WriteWord => IInv'
<1> SUFFICES ASSUME IInv, WriteWord PROVE IInv'
  OBVIOUS
<1>1. Types /\ BuildInv /\ FileInv /\ ReaderInv /\ LoadInv /\ QueryInv
  BY DEF IInv
<1> DEFINE n == size
           ls == log.vocab.lines
           a == Len(ls)
           new == Append(ls, itoa[a])
<1>2. /\ stage = "words" /\ stage' = "words" /\ ToTxt /\ a < W1.m
      /\ log' = [log EXCEPT !.vocab.lines = new]
  BY DEF WriteWord, Step, WordOfRow
<1>3. stage \in Filing /\ stage' \in Filing /\ stage' \in Stages
  BY <1>2 DEF Filing, Stages
<1>4. /\ log' = [meta |-> log'.meta, wordvec |-> log'.wordvec, vocab |-> log'.vocab]
      /\ log'.meta = log.meta /\ log'.wordvec = log.wordvec
      /\ log'.vocab = [exists |-> log.vocab.exists, lines |-> new]
  <2>1. /\ log = [meta |-> log.meta, wordvec |-> log.wordvec, vocab |-> log.vocab]
        /\ log.vocab = [exists |-> log.vocab.exists, lines |-> log.vocab.lines]
    BY <1>1 DEF Types
  <2> HIDE DEF new
  <2> QED
    BY <1>2, <2>1
<1>5. /\ n \in Nat /\ W1.m = n /\ size' = n /\ itoa' = itoa /\ DOMAIN itoa = 0 .. n - 1
      /\ \A i \in 0 .. n - 1 : itoa[i] \in Words
      /\ \A i, j \in 0 .. n - 1 : itoa[i] = itoa[j] => i = j
  BY <1>2, <1>3, ToTxtKeeps DEF Numbered
<1> HIDE DEF n
<1>6. ls \in Seq(Words) /\ a \in Nat /\ a \in 0 .. n - 1
  BY <1>1, <1>2, <1>5, Lines
<1>7. /\ Len(log.wordvec.lines) = n
      /\ \A k \in 1 .. n : log.wordvec.lines[k] = Vector(itoa[k - 1])
      /\ \A k \in 1 .. Len(ls) : ls[k] = itoa[k - 1]
      /\ Closed
  BY <1>1, <1>2 DEF FileInv, n
<1> HIDE DEF ls
<1>8. /\ new \in Seq(Words) /\ Len(new) = a + 1
      /\ \A k \in 1 .. a : new[k] = ls[k]
      /\ new[a + 1] = itoa[a]
  BY <1>5, <1>6
<1> HIDE DEF new
<1>9. a + 1 \in 1 .. n /\ \A k \in 1 .. a + 1 : k \in 1 .. n /\ k - 1 \in 0 .. n - 1 /\ new[k] = itoa[k - 1]
  <2>1. a + 1 \in 1 .. n
    BY <1>5, <1>6
  <2>2. ASSUME NEW k \in 1 .. a + 1
        PROVE  k \in 1 .. n /\ k - 1 \in 0 .. n - 1 /\ new[k] = itoa[k - 1]
    <3>1. k \in 1 .. n /\ k - 1 \in 0 .. n - 1
      BY <1>5, <2>1
    <3>2. CASE k = a + 1
      <4>1. k - 1 = a
        BY <1>6, <3>2
      <4> QED
        BY <1>8, <3>1, <3>2, <4>1
    <3>3. CASE k # a + 1
      <4>1. k \in 1 .. a
        BY <1>6, <3>3
      <4> QED
        BY <1>7, <1>8, <3>1, <4>1
    <3> QED
      BY <3>2, <3>3
  <2> QED
    BY <2>1, <2>2
<1>10. log'.vocab.lines = new /\ log'.vocab.exists = log.vocab.exists /\ log'.wordvec.lines = log.wordvec.lines
  BY <1>4
<1>11. Types'
  <2>1. log'.vocab = [exists |-> log'.vocab.exists, lines |-> log'.vocab.lines]
    BY <1>4
  <2>2. log'.wordvec = [exists |-> log'.wordvec.exists, lines |-> log'.wordvec.lines]
    BY <1>1, <1>4 DEF Types
  <2>3. log'.wordvec.lines \in Seq(Seq(Cells)) /\ log'.vocab.lines \in Seq(Words)
    BY <1>1, <1>8, <1>10, Lines
  <2> QED
    BY <1>1, <1>2, <1>3, <1>4, <2>1, <2>2, <2>3, ToTxtKeeps DEF Types
<1>12. FileInv'
  <2>1. \A w : Vector(w)' = Vector(w)
    BY DEF Vector
  <2>2. Closed'
    <3>1. Len(new) <= n
      BY <1>5, <1>8, <1>9
    <3>2. \A k \in 1 .. Len(new) : log.wordvec.lines[k] = Vector(new[k])
      BY <1>7, <1>8, <1>9
    <3>3. \A k, l \in 1 .. Len(new) : new[k] = new[l] => k = l
      <4>1. ASSUME NEW k \in 1 .. a + 1, NEW l \in 1 .. a + 1, new[k] = new[l]
            PROVE  k = l
        <5>1. k - 1 = l - 1
          BY <1>5, <1>9, <4>1
        <5>2. k \in Nat /\ l \in Nat
          OBVIOUS
        <5> QED
          BY <5>1, <5>2
      <4> QED
        BY <1>8, <4>1
    <3>4. /\ log.meta = Written(<<EmbedSize>>) /\ log.vocab.exists /\ log.wordvec.exists
          /\ \A k \in 1 .. Len(log.wordvec.lines) : Len(log.wordvec.lines[k]) = EmbedSize
      BY <1>7 DEF Closed
    <3> QED
      BY <1>4, <1>7, <1>10, <2>1, <3>1, <3>2, <3>3, <3>4 DEF Closed
  <2>3. \A k \in 1 .. Len(new) : new[k] = itoa[k - 1]
    BY <1>8, <1>9
  <2> QED
    BY <1>2, <1>3, <1>5, <1>7, <1>10, <2>1, <2>2, <2>3, ToTxtKeeps DEF FileInv, Asking
<1>13. ReaderInv'
  <2>1. UNCHANGED <<reader, line, data>>
    BY <1>2, <1>3, ToTxtKeeps
  <2> DEFINE c == Cardinality(DOMAIN data)
  <2>2. c \in Nat /\ c <= a
    BY <1>1, FS_CardinalityType DEF ReaderInv, ls
  <2>3. DOMAIN data = {ls[k] : k \in 1 .. c}
    BY <1>1 DEF ReaderInv, ls
  <2>4. reader = "vector" => c + 1 <= a /\ line = ls[c + 1]
    BY <1>1 DEF ReaderInv, ReadLine, ls
  <2> HIDE DEF c
  <2>5. DOMAIN data = {new[k] : k \in 1 .. c}
    <3>1. \A k \in 1 .. c : ls[k] = new[k]
      BY <1>6, <1>8, <2>2
    <3> QED
      BY <2>3, <3>1
  <2>6. reader = "vector" => c + 1 <= Len(new) /\ line = new[c + 1]
    BY <1>6, <1>8, <2>2, <2>4
  <2>7. c <= Len(new)
    BY <1>6, <1>8, <2>2
  <2>8. \A w \in DOMAIN data : data[w] = Vector(w)
    BY <1>1 DEF ReaderInv
  <2>9. /\ DOMAIN data' = {log'.vocab.lines[k] : k \in 1 .. Cardinality(DOMAIN data')}
        /\ Cardinality(DOMAIN data') <= Len(log'.vocab.lines)
        /\ reader' = "vector" => ReadLine' <= Len(log'.vocab.lines) /\ line' = log'.vocab.lines[ReadLine']
    BY <1>10, <2>1, <2>5, <2>6, <2>7 DEF c, ReadLine
  <2> QED
    BY <1>1, <1>2, <2>1, <2>8, <2>9 DEF ReaderInv, Vector, Before
<1> QED
  BY <1>2, <1>3, <1>11, <1>12, <1>13, ToTxtKeeps DEF IInv

LEMMA SavedStep == IInv /\ Saved => IInv'
<1> SUFFICES ASSUME IInv, Saved PROVE IInv'
  OBVIOUS
<1>1. Types /\ BuildInv /\ FileInv /\ ReaderInv /\ LoadInv /\ QueryInv
  BY DEF IInv
<1>2. /\ stage = "words" /\ stage' = "saved" /\ ToTxt /\ log' = log
      /\ Len(log.vocab.lines) = W1.m
  BY DEF Saved, Step
<1>3. stage \in Filing /\ stage' \in Filing /\ stage' \in Stages
  BY <1>2 DEF Filing, Stages
<1>4. Types'
  BY <1>1, <1>2, <1>3, TypesKept, ToTxtKeeps
<1>5. FileInv'
  <2>1. Closed /\ Len(log.wordvec.lines) = size
    BY <1>1, <1>2 DEF FileInv
  <2>2. Closed'
    BY <1>2, <2>1 DEF Closed, Vector
  <2>3. \A w : Vector(w)' = Vector(w)
    BY DEF Vector
  <2>4. W1.m = size
    BY <1>2, <1>3, ToTxtKeeps
  <2> QED
    BY <1>1, <1>2, <1>3, <2>1, <2>2, <2>3, <2>4, ToTxtKeeps DEF FileInv, Asking
<1>6. ReaderInv'
  BY <1>1, <1>2, <1>3, ReaderKept, ToTxtKeeps DEF Before
<1> QED
  BY <1>2, <1>3, <1>4, <1>5, <1>6, ToTxtKeeps DEF IInv

-----------------------------------------------------------------------------
(* Data::init *)
LEMMA ReadingKeeps ==
  ASSUME IInv, Reading
  PROVE  Types' /\ BuildInv' /\ FileInv' /\ LoadInv' /\ QueryInv'
<1>1. Types /\ BuildInv /\ FileInv /\ LoadInv /\ QueryInv
  BY DEF IInv
<1>2. /\ UNCHANGED <<stage, corpus, min_count, max_size, counts, vec, freq, atoi, itoa>>
      /\ UNCHANGED <<weight, num, heap, next, top, W1, log, vocab_txt, rest>>
  BY DEF Reading, vocabVars, topVars
<1>3. Types'
  BY <1>1, <1>2 DEF Types
<1>4. BuildInv'
  <2>1. Counted' <=> Counted
    BY <1>2 DEF Counted, Occurring, InCorpus
  <2>2. Kept' <=> Kept
    BY <1>2 DEF Kept, KeptOf, Frequent, Sorted, size
  <2>3. Numbered' <=> Numbered
    BY <1>2 DEF Numbered, size
  <2> QED
    BY <1>1, <1>2, <2>1, <2>2, <2>3 DEF BuildInv
<1>5. FileInv'
  <2>1. Closed' <=> Closed
    BY <1>2 DEF Closed, Vector
  <2>2. size' = size
    BY <1>2 DEF size
  <2>3. Begun(size)' <=> Begun(size)
    BY <1>2, <2>2 DEF Begun
  <2>4. (\A w : Vector(w)' = Vector(w)) /\ (\A i, j : at(i, j)' = at(i, j))
    BY <1>2 DEF Vector, at
  <2> QED
    BY <1>1, <1>2, <2>1, <2>2, <2>3, <2>4 DEF FileInv
<1>6. LoadInv'
  <2>1. size' = size /\ LoadId' = LoadId
    BY <1>2 DEF size, LoadId
  <2>2. (\A i : LoadedName(i)' = LoadedName(i)) /\ (\A i, j : at(i, j)' = at(i, j))
    BY <1>2 DEF LoadedName, at
  <2> QED
    BY <1>1, <1>2, <2>1, <2>2 DEF LoadInv
<1>7. QueryInv'
  BY <1>1, <1>2 DEF QueryInv, Ranked, BestIn, rows
<1> QED
  BY <1>3, <1>4, <1>5, <1>6, <1>7

LEMMA OpenDataStep == IInv /\ OpenData => IInv'
<1> SUFFICES ASSUME IInv, OpenData PROVE IInv'
  OBVIOUS
<1>1. Types /\ FileInv /\ ReaderInv
  BY DEF IInv
<1>2. /\ reader = "off" /\ stage \in Before /\ Reading /\ UNCHANGED <<line, data>>
      /\ reader' = IF log.vocab.exists /\ log.wordvec.exists THEN "word" ELSE "aborted"
      /\ stage' = stage /\ log' = log
  BY DEF OpenData, Reading
<1>3. reader' = "word" => stage \in {"words", "saved"}
  <2>1. log.vocab = NoFile => ~ log.vocab.exists
    BY DEF NoFile
  <2> QED
    BY <1>1, <1>2, <2>1 DEF FileInv, Before, Asking
<1>4. ReaderInv'
  <2>1. data = NoWords /\ DOMAIN data = {} /\ Cardinality(DOMAIN data) = 0
    BY <1>1, <1>2, NoWordsIs, FS_EmptySet DEF ReaderInv
  <2> QED
    BY <1>1, <1>2, <1>3, <2>1 DEF ReaderInv
<1> QED
  BY <1>2, <1>4, ReadingKeeps DEF IInv

LEMMA ReadWordStep == IInv /\ ReadWord => IInv'
<1> SUFFICES ASSUME IInv, ReadWord PROVE IInv'
  OBVIOUS
<1>1. Types /\ FileInv /\ ReaderInv
  BY DEF IInv
<1>2. /\ reader = "word" /\ Reading /\ UNCHANGED data /\ stage' = stage /\ log' = log
      /\ IF ReadLine \in DOMAIN log.vocab.lines
           THEN line' = log.vocab.lines[ReadLine] /\ reader' = "vector"
           ELSE line' = EmptyWord /\ reader' = "up"
  BY DEF ReadWord, Reading
<1>3. ReadLine \in DOMAIN log.vocab.lines => ReadLine <= Len(log.vocab.lines)
  <2>1. DOMAIN log.vocab.lines = 1 .. Len(log.vocab.lines)
    BY <1>1, Lines
  <2> QED
    BY <2>1
<1>4. ReadLine' = ReadLine /\ \A w : Vector(w)' = Vector(w)
  BY <1>2 DEF ReadLine, Vector
<1>5. ReaderInv'
  <2>1. CASE ReadLine \in DOMAIN log.vocab.lines
    BY <1>1, <1>2, <1>3, <1>4, <2>1 DEF ReaderInv, Before
  <2>2. CASE ReadLine \notin DOMAIN log.vocab.lines
    BY <1>1, <1>2, <1>4, <2>2 DEF ReaderInv, Before
  <2> QED
    BY <2>1, <2>2
<1> QED
  BY <1>2, <1>5, ReadingKeeps DEF IInv

(* The vector on a line is that of the word on it. *)
LEMMA ReadVectorStep == IInv /\ ReadVector => IInv'
<1> SUFFICES ASSUME IInv, ReadVector PROVE IInv'
  OBVIOUS
<1>1. Types /\ FileInv /\ ReaderInv
  BY DEF IInv
<1> DEFINE r == ReadLine
           c == Cardinality(DOMAIN data)
           ls == log.vocab.lines
<1>2. /\ reader = "vector" /\ Reading /\ stage' = stage /\ log' = log
      /\ IF r \in DOMAIN log.wordvec.lines
           THEN data' = Put(data, line, log.wordvec.lines[r]) /\ reader' = "word"
           ELSE data' = data /\ reader' = "up"
  BY DEF ReadVector, Reading
<1>3. /\ ls \in Seq(Words) /\ Len(ls) \in Nat /\ Len(log.wordvec.lines) \in Nat
      /\ DOMAIN log.wordvec.lines = 1 .. Len(log.wordvec.lines)
  BY <1>1, Lines
<1>4. /\ IsFiniteSet(DOMAIN data) /\ c <= Len(ls) /\ r <= Len(ls) /\ line = ls[r]
      /\ DOMAIN data = {ls[k] : k \in 1 .. c}
      /\ \A w \in DOMAIN data : data[w] = Vector(w)
      /\ stage \in {"words", "saved"}
  BY <1>1, <1>2 DEF ReaderInv
<1>5. c \in Nat /\ r = c + 1
  BY <1>4, FS_CardinalityType DEF ReadLine
<1> HIDE DEF r, c, ls
<1>6. /\ Len(ls) <= Len(log.wordvec.lines)
      /\ \A k \in 1 .. Len(ls) : log.wordvec.lines[k] = Vector(ls[k])
      /\ \A k, l \in 1 .. Len(ls) : ls[k] = ls[l] => k = l
  BY <1>1, <1>4 DEF FileInv, Closed, ls
<1>7. r \in 1 .. Len(ls) /\ r \in DOMAIN log.wordvec.lines
  BY <1>3, <1>4, <1>5, <1>6
<1>8. IsPut(data', data, line, log.wordvec.lines[r]) /\ reader' = "word"
  BY <1>2, <1>7 DEF Put, IsPut
<1>9. /\ DOMAIN data' = DOMAIN data \cup {line} /\ data'[line] = Vector(line)
      /\ \A w \in DOMAIN data : w # line => data'[w] = data[w]
  BY <1>4, <1>6, <1>7, <1>8 DEF IsPut
<1>10. line \notin DOMAIN data
  <2>1. ASSUME NEW k \in 1 .. c
        PROVE  ls[k] # ls[r]
    BY <1>4, <1>5, <1>6, <1>7
  <2> QED
    BY <1>4, <2>1
<1>11. IsFiniteSet(DOMAIN data') /\ Cardinality(DOMAIN data') = c + 1
  BY <1>4, <1>9, <1>10, FS_AddElement DEF c
<1>12. DOMAIN data' = {ls[k] : k \in 1 .. c + 1}
  <2>1. 1 .. c + 1 = (1 .. c) \cup {c + 1}
    BY <1>5
  <2> QED
    BY <1>4, <1>5, <1>9, <2>1
<1>13. \A w \in DOMAIN data' : data'[w] = Vector(w)
  BY <1>4, <1>9
<1>14. ReaderInv'
  <2>1. c + 1 <= Len(ls)
    BY <1>4, <1>5
  <2>2. log'.vocab.lines = ls
    BY <1>2 DEF ls
  <2> QED
    BY <1>2, <1>4, <1>8, <1>11, <1>12, <1>13, <2>1, <2>2 DEF ReaderInv, Vector, Before
<1> QED
  BY <1>2, <1>14, ReadingKeeps DEF IInv

-----------------------------------------------------------------------------
(* Glove::load, and the copy of the words that it reads. *)
LEMMA CopyIs == ASSUME CopyInv, vocab_txt.exists PROVE vocab_txt = log.vocab
BY DEF CopyInv, NoFile

LEMMA CopyInit == Init => CopyInv
BY DEF Init, VocabInit, CopyInv, NoFile

LEMMA CopyStep == CopyInv /\ [Next]_vars => CopyInv'
<1> SUFFICES ASSUME CopyInv, [Next]_vars PROVE CopyInv'
  OBVIOUS
<1>1. CASE Build /\ UNCHANGED <<topVars, fileVars>>
  BY <1>1 DEF Build, Count, Keep, add, Built, fileVars, CopyInv, Asking
<1>2. CASE Train \/ WriteMeta \/ OpenVectors \/ WriteCell \/ OpenWords \/ WriteWord
  <2>1. vocab_txt' = vocab_txt /\ stage \notin {"saved", "load", "loaded"} \cup Asking
    BY <1>2 DEF Train, WriteMeta, OpenVectors, WriteCell, OpenWords, WriteWord, Step, ToTxt, Asking
  <2>2. stage' \notin {"load", "loaded"}
    BY <1>2 DEF Train, WriteMeta, OpenVectors, WriteCell, OpenWords, WriteWord, Step
  <2> QED
    BY <2>1, <2>2 DEF CopyInv
<1>3. CASE Saved
  BY <1>3 DEF Saved, Step, ToTxt, CopyInv, Asking
<1>4. CASE StartLoad \/ LoadAborts \/ LoadWord \/ LoadModel
  BY <1>4 DEF StartLoad, LoadAborts, LoadWord, LoadModel, LoadOnly, fileVars, CopyInv, Asking
<1>5. CASE MostSimilary \/ (Query /\ UNCHANGED <<vocabVars, fileVars>>)
  <2>1. /\ stage \in {"saved", "loaded"} \cup Asking /\ stage' \in Asking
        /\ UNCHANGED <<vocab_txt, log>>
    BY <1>5 DEF MostSimilary, StartQuery, Query, Replace, ReplaceNone, Output, Answer, fileVars, Asking
  <2> QED
    BY <2>1 DEF CopyInv, Asking
<1>6. CASE Data
  BY <1>6 DEF Data, OpenData, ReadWord, ReadVector, Reading, CopyInv
<1>7. CASE CopyWords
  BY <1>7 DEF CopyWords, CopyInv
<1>8. CASE UNCHANGED vars
  BY <1>8 DEF vars, fileVars, CopyInv
<1> QED
  BY <1>1, <1>2, <1>3, <1>4, <1>5, <1>6, <1>7, <1>8 DEF Next, Glove

LEMMA FilesKept ==
  ASSUME FileInv, log' = log, stage \in {"saved", "load", "loaded"} \cup Asking,
         stage' \in {"load", "loaded"} \cup Asking,
         stage' \in {"load", "loaded"} => stage \in {"saved", "load", "loaded"}
  PROVE  FileInv'
<1>1. Closed' <=> Closed
  BY DEF Closed, Vector
<1> QED
  BY <1>1 DEF FileInv, Asking, Filing

LEMMA StartLoadStep == IInv /\ CopyInv /\ StartLoad => IInv'
<1> SUFFICES ASSUME IInv, CopyInv, StartLoad PROVE IInv'
  OBVIOUS
<1>1. Types /\ BuildInv /\ FileInv /\ ReaderInv /\ LoadInv /\ QueryInv
  BY DEF IInv
<1>2. /\ stage = "saved" /\ stage' = "load" /\ reader = "off" /\ rest' = log.vocab.lines
      /\ UNCHANGED <<corpus, min_count, max_size, W1, log, reader, line, data>> /\ UNCHANGED topVars
      /\ \/ UNCHANGED <<freq, atoi, itoa>>
         \/ freq' = NoWords /\ atoi' = NoWords /\ itoa' = NoWords
      /\ vocab_txt' = log.vocab
  BY CopyIs DEF StartLoad, LoadOnly
<1> DEFINE n == Len(log.vocab.lines)
<1>3. n \in Nat /\ log.vocab.lines \in Seq(Words)
  BY <1>1, Lines
<1>4. DOMAIN itoa = 0 .. n - 1
  <2>1. Numbered
    BY <1>1, <1>2 DEF BuildInv, Filing
  <2>2. size = n
    BY <1>1, <1>2 DEF FileInv
  <2> QED
    BY <2>1, <2>2 DEF Numbered
<1> HIDE DEF n
<1>5. Types'
  <2>1. rest' \in Seq(Words \cup {EmptyWord})
    BY <1>2, <1>3
  <2>2. /\ freq' \in [DOMAIN freq' -> Nat \ {0}] /\ DOMAIN freq' \subseteq Words
        /\ DOMAIN atoi' \subseteq Words \cup {EmptyWord} /\ Range(atoi') \subseteq Nat
        /\ DOMAIN itoa' \subseteq Nat /\ IsFiniteSet(DOMAIN itoa') /\ Range(itoa') \subseteq DOMAIN atoi'
    <3>1. CASE UNCHANGED <<freq, atoi, itoa>>
      BY <1>1, <3>1 DEF Types
    <3>2. CASE freq' = NoWords /\ atoi' = NoWords /\ itoa' = NoWords
      <4>1. Range(atoi') = {} /\ Range(itoa') = {}
        BY <3>2, NoWordsIs DEF Range
      <4>2. DOMAIN freq' = {} /\ DOMAIN atoi' = {} /\ DOMAIN itoa' = {}
        BY <3>2, NoWordsIs
      <4>3. freq' = [x \in DOMAIN freq' |-> freq'[x]]
        BY <3>2 DEF NoWords
      <4> QED
        BY <4>1, <4>2, <4>3, FS_EmptySet
    <3> QED
      BY <1>2, <3>1, <3>2
  <2>3. stage' \in Stages
    BY <1>2 DEF Stages
  <2> QED
    BY <1>1, <1>2, <2>1, <2>2, <2>3 DEF Types
<1>6. LoadInv'
  <2>1. LoadId' = 0 /\ rest' = log'.vocab.lines
    BY <1>2, <1>3 DEF LoadId, n
  <2>2. DOMAIN itoa' \in {0 .. 0 - 1, 0 .. n - 1}
    <3>1. 0 .. 0 - 1 = {}
      OBVIOUS
    <3> QED
      BY <1>2, <1>4, <3>1, NoWordsIs
  <2>3. \A i \in 0 .. 0 - 1 : FALSE
    OBVIOUS
  <2> QED
    BY <1>2, <2>1, <2>2, <2>3 DEF LoadInv, n
<1>7. BuildInv'
  BY <1>2 DEF BuildInv, Filing
<1>8. FileInv'
  BY <1>1, <1>2, FilesKept
<1>9. ReaderInv'
  BY <1>1, <1>2, ReaderKept
<1>10. QueryInv'
  BY <1>1, <1>2, NotAsking DEF Asking
<1> QED
  BY <1>5, <1>6, <1>7, <1>8, <1>9, <1>10 DEF IInv

(* The word that is taken in round i is on the line after that of its own  *)
(* vector, and the word after it is the next that the stream will give.    *)
LEMMA LoadWordStep == IInv /\ CopyInv /\ LoadWord => IInv'
<1> SUFFICES ASSUME IInv, CopyInv, LoadWord PROVE IInv'
  OBVIOUS
<1>1. Types /\ BuildInv /\ FileInv /\ ReaderInv /\ LoadInv /\ QueryInv
  BY DEF IInv
<1> DEFINE i == LoadId
           w == LoadedWord(rest)
           ls == log.vocab.lines
           n == Len(ls)
           left == Len(rest)
<1>2. /\ stage = "load" /\ stage' = "load" /\ rest # << >> /\ rest' = After(rest)
      /\ IsPut(atoi', atoi, w, i) /\ IsPut(itoa', itoa, i, w)
      /\ UNCHANGED <<corpus, min_count, max_size, freq, W1, log, reader, line, data>>
      /\ UNCHANGED topVars
      /\ vocab_txt = log.vocab /\ vocab_txt' = log.vocab
  <2>1. stage = "load" /\ vocab_txt' = vocab_txt
    BY DEF LoadWord, LoadOnly
  <2>2. vocab_txt = log.vocab
    BY <2>1, CopyIs DEF CopyInv
  <2> QED
    BY <2>1, <2>2 DEF LoadWord, LoadOnly, Put, IsPut
<1>3. ls \in Seq(Words) /\ n \in Nat
  BY <1>1, Lines
<1>4. rest \in Seq(Words \cup {EmptyWord}) /\ left \in Nat /\ left > 0
  BY <1>1, <1>2 DEF Types
<1>5. /\ i \in Nat /\ i = n - left
      /\ DOMAIN itoa \in {0 .. i - 1, 0 .. n - 1}
      /\ \A k \in 0 .. i - 1 : itoa[k] = LoadedName(k)
      /\ i = 0 => rest = ls
      /\ i > 0 => \A k \in 1 .. left : rest[k] = IF k = 1 THEN EmptyWord ELSE ls[i + k]
  BY <1>1, <1>2 DEF LoadInv, LoadId
<1> HIDE DEF i, ls
<1>6. i + left = n /\ i < n
  BY <1>3, <1>4, <1>5
<1> HIDE DEF n, left
<1>7. w = LoadedName(i) /\ w \in Words \cup {EmptyWord}
  <2>1. CASE left = 1
    <3>1. w = rest[1] /\ rest[1] \in Words \cup {EmptyWord}
      BY <1>4, <2>1 DEF LoadedWord, left
    <3>2. CASE i = 0
      <4>1. n = 1 /\ rest[1] = ls[i + 1]
        BY <1>5, <1>6, <2>1, <3>2
      <4> QED
        BY <3>1, <4>1 DEF LoadedName, n, ls
    <3>3. CASE i # 0
      <4>1. rest[1] = EmptyWord /\ n # 1 /\ i + 1 = n
        BY <1>5, <1>6, <2>1, <3>3
      <4> QED
        BY <3>1, <4>1 DEF LoadedName, n, ls
    <3> QED
      BY <3>2, <3>3
  <2>2. CASE left # 1
    <3>1. w = rest[2] /\ 2 \in 1 .. left /\ rest[2] \in Words \cup {EmptyWord}
      <4>1. w = rest[2]
        BY <2>2 DEF LoadedWord, left, w
      <4>2. 2 \in 1 .. left
        BY <1>4, <2>2
      <4>3. rest[2] \in Words \cup {EmptyWord}
        BY <1>4, <4>2 DEF left
      <4> QED
        BY <4>1, <4>2, <4>3
    <3>2. rest[2] = ls[i + 2]
      BY <1>5, <3>1
    <3>3. n # 1 /\ i + 1 # n
      BY <1>4, <1>5, <1>6, <2>2
    <3> QED
      BY <3>1, <3>2, <3>3 DEF LoadedName, n, ls
  <2> QED
    BY <2>1, <2>2
<1> HIDE DEF w
<1>8. /\ rest' \in Seq(Words \cup {EmptyWord}) /\ Len(rest') = left - 1
      /\ \A k \in 1 .. left - 1 : rest'[k] = IF k = 1 THEN EmptyWord ELSE ls[(i + 1) + k]
  <2>1. CASE left = 1
    BY <1>2, <2>1 DEF After, left
  <2>2. CASE left # 1
    <3> DEFINE tail == Tail(Tail(rest))
    <3>1. rest' = <<EmptyWord>> \o tail
      BY <1>2, <2>2 DEF After, left
    <3>2. /\ tail \in Seq(Words \cup {EmptyWord}) /\ Len(tail) = left - 2
          /\ \A k \in 1 .. left - 2 : tail[k] = rest[k + 2]
      <4> DEFINE one == Tail(rest)
      <4>1. /\ one \in Seq(Words \cup {EmptyWord}) /\ Len(one) = left - 1
            /\ \A k \in 1 .. left - 1 : one[k] = rest[k + 1]
        BY <1>4 DEF left
      <4> HIDE DEF one
      <4>2. left - 1 \in Nat /\ left - 1 > 0
        BY <1>4, <2>2
      <4>3. /\ Tail(one) \in Seq(Words \cup {EmptyWord}) /\ Len(Tail(one)) = left - 2
            /\ \A k \in 1 .. left - 2 : Tail(one)[k] = one[k + 1]
        BY <1>4, <4>1, <4>2
      <4>4. \A k \in 1 .. left - 2 : k + 1 \in 1 .. left - 1 /\ (k + 1) + 1 = k + 2
        BY <1>4
      <4> QED
        BY <4>1, <4>3, <4>4 DEF one
    <3> HIDE DEF tail
    <3>3. <<EmptyWord>> \in Seq(Words \cup {EmptyWord}) /\ Len(<<EmptyWord>>) = 1
      OBVIOUS
    <3>4. rest' \in Seq(Words \cup {EmptyWord}) /\ Len(rest') = left - 1
      BY <1>4, <2>2, <3>1, <3>2, <3>3
    <3>5. rest'[1] = EmptyWord
      BY <3>1, <3>2
    <3>6. ASSUME NEW k \in 1 .. left - 1, k # 1
          PROVE  rest'[k] = ls[(i + 1) + k]
      <4>1. k - 1 \in 1 .. left - 2 /\ (k - 1) + 2 = k + 1 /\ k + 1 \in 1 .. left /\ k + 1 # 1
        BY <1>4, <3>6
      <4>2. rest'[k] = tail[k - 1]
        BY <1>4, <3>1, <3>2, <3>6, <4>1
      <4>3. tail[k - 1] = rest[k + 1]
        BY <3>2, <4>1
      <4>4. rest[k + 1] = ls[i + (k + 1)]
        BY <1>5, <4>1
      <4>5. i + (k + 1) = (i + 1) + k
        BY <1>5
      <4> QED
        BY <4>2, <4>3, <4>4, <4>5
    <3> QED
      BY <3>4, <3>5, <3>6
  <2> QED
    BY <2>1, <2>2
<1>9. /\ DOMAIN itoa' = DOMAIN itoa \cup {i} /\ itoa'[i] = w
      /\ \A k \in DOMAIN itoa : k # i => itoa'[k] = itoa[k]
      /\ DOMAIN atoi' = DOMAIN atoi \cup {w} /\ atoi'[w] = i
      /\ \A x \in DOMAIN atoi : x # w => atoi'[x] = atoi[x]
  BY <1>2 DEF IsPut
<1>10. Types'
  <2>1. /\ DOMAIN atoi \subseteq Words \cup {EmptyWord} /\ Range(atoi) \subseteq Nat
        /\ DOMAIN itoa \subseteq Nat /\ IsFiniteSet(DOMAIN itoa) /\ Range(itoa) \subseteq DOMAIN atoi
    BY <1>1 DEF Types
  <2>2. DOMAIN atoi' \subseteq Words \cup {EmptyWord} /\ DOMAIN itoa' \subseteq Nat
    BY <1>5, <1>7, <1>9, <2>1
  <2>3. IsFiniteSet(DOMAIN itoa')
    BY <1>9, <2>1, FS_AddElement
  <2>4. Range(atoi') \subseteq Nat
    BY <1>5, <1>9, <2>1 DEF Range
  <2>5. Range(itoa') \subseteq DOMAIN atoi'
    BY <1>9, <2>1 DEF Range
  <2>6. stage' \in Stages
    BY <1>2 DEF Stages
  <2> QED
    BY <1>1, <1>2, <1>8, <2>2, <2>3, <2>4, <2>5, <2>6 DEF Types
<1>11. LoadInv'
  <2>1. LoadId' = i + 1
    <3>1. LoadId' = n - (left - 1)
      BY <1>2, <1>8 DEF LoadId, n, ls
    <3> QED
      BY <1>4, <1>5, <1>6, <3>1
  <2>2. DOMAIN itoa' \in {0 .. (i + 1) - 1, 0 .. n - 1}
    <3>1. CASE DOMAIN itoa = 0 .. i - 1
      <4>1. (0 .. i - 1) \cup {i} = 0 .. (i + 1) - 1
        BY <1>5
      <4> QED
        BY <1>9, <3>1, <4>1
    <3>2. CASE DOMAIN itoa = 0 .. n - 1
      <4>1. i \in 0 .. n - 1
        BY <1>3, <1>5, <1>6
      <4> QED
        BY <1>9, <3>2, <4>1
    <3> QED
      BY <1>5, <3>1, <3>2
  <2>3. ASSUME NEW k \in 0 .. (i + 1) - 1
        PROVE  itoa'[k] = LoadedName(k)
    <3>1. CASE k = i
      BY <1>7, <1>9, <3>1
    <3>2. CASE k # i
      <4>1. k \in 0 .. i - 1
        BY <1>5, <3>2
      <4>2. k \in DOMAIN itoa
        BY <1>3, <1>5, <1>6, <4>1
      <4> QED
        BY <1>5, <1>9, <3>2, <4>1, <4>2
    <3> QED
      BY <3>1, <3>2
  <2>4. (\A k : LoadedName(k)' = LoadedName(k)) /\ log'.vocab.lines = ls
    BY <1>2 DEF LoadedName, ls
  <2>5. \A k \in 1 .. Len(rest') : rest'[k] = IF k = 1 THEN EmptyWord ELSE ls[(i + 1) + k]
    BY <1>8
  <2>6. i + 1 \in Nat /\ i + 1 # 0
    BY <1>5
  <2> QED
    BY <1>2, <2>1, <2>2, <2>3, <2>4, <2>5, <2>6 DEF LoadInv, n
<1>12. BuildInv'
  BY <1>2 DEF BuildInv, Filing
<1>13. FileInv'
  BY <1>1, <1>2, FilesKept
<1>14. ReaderInv'
  BY <1>1, <1>2, ReaderKept DEF Before
<1>15. QueryInv'
  BY <1>1, <1>2, NotAsking DEF Asking
<1> QED
  BY <1>10, <1>11, <1>12, <1>13, <1>14, <1>15 DEF IInv

(* Different rounds give different words. *)
LEMMA NamesApart ==
  ASSUME Types, Closed, NEW i \in 0 .. Len(log.vocab.lines) - 1,
         NEW j \in 0 .. Len(log.vocab.lines) - 1, LoadedName(i) = LoadedName(j)
  PROVE  i = j
<1> DEFINE ls == log.vocab.lines
           n == Len(ls)
<1>1. ls \in Seq(Words) /\ n \in Nat
  BY Lines
<1>2. \A k, l \in 1 .. n : ls[k] = ls[l] => k = l
  BY DEF Closed
<1> HIDE DEF ls
<1>3. \A k \in 1 .. n : ls[k] # EmptyWord
  BY <1>1, WordsAre
<1>5. i \in 0 .. n - 1 /\ j \in 0 .. n - 1
  BY DEF ls
<1>a. \A k : LoadedName(k) = IF n = 1 THEN ls[k + 1] ELSE IF k + 1 = n THEN EmptyWord ELSE ls[k + 2]
  BY DEF LoadedName, ls
<1> HIDE DEF n
<1>4. /\ n # 1 /\ i + 1 # n => LoadedName(i) = ls[i + 2] /\ i + 2 \in 1 .. n
      /\ n # 1 /\ j + 1 # n => LoadedName(j) = ls[j + 2] /\ j + 2 \in 1 .. n
      /\ n # 1 /\ i + 1 = n => LoadedName(i) = EmptyWord
      /\ n # 1 /\ j + 1 = n => LoadedName(j) = EmptyWord
  BY <1>1, <1>5, <1>a
<1>6. CASE n = 1
  BY <1>5, <1>6
<1>7. CASE n # 1 /\ i + 1 = n
  <2>1. j + 1 = n
    BY <1>3, <1>4, <1>7
  <2> QED
    BY <1>1, <1>5, <1>7, <2>1
<1>8. CASE n # 1 /\ i + 1 # n
  <2>1. j + 1 # n
    BY <1>3, <1>4, <1>8
  <2>2. i + 2 = j + 2
    BY <1>2, <1>4, <1>8, <2>1
  <2> QED
    BY <1>1, <1>5, <2>2
<1> QED
  BY <1>6, <1>7, <1>8

LEMMA LoadModelStep == IInv /\ CopyInv /\ LoadModel => IInv'
<1> SUFFICES ASSUME IInv, CopyInv, LoadModel PROVE IInv'
  OBVIOUS
<1>1. Types /\ BuildInv /\ FileInv /\ ReaderInv /\ LoadInv /\ QueryInv
  BY DEF IInv
<1> DEFINE m == Cardinality(DOMAIN atoi)
           e == EmbedSize
           ls == log.vocab.lines
           vs == log.wordvec.lines
           n == Len(ls)
           stored == {k \in DOMAIN Numbers : Fits(k)}
           cells(d) == [k \in 1 .. Max({m * d, Cardinality(stored)}) |->
                          IF k \in stored THEN Numbers[k] ELSE <<EmptyWord, 0>>]
<1>2. /\ stage = "load" /\ stage' = "loaded" /\ rest = << >>
      /\ UNCHANGED <<corpus, min_count, max_size, freq, atoi, itoa, rest, log, reader, line, data>>
      /\ UNCHANGED topVars
  BY DEF LoadModel, LoadOnly
<1>3. PICK d \in LoadSizes : W1' = [m |-> m, n |-> d, data |-> cells(d)]
  BY DEF LoadModel
<1>4. d \in Nat /\ d >= 1
  <2>1. d \in Nat \ {0}
    BY SizesAssumption
  <2> QED
    BY <2>1
<1>5. ls \in Seq(Words) /\ n \in Nat /\ vs \in Seq(Seq(Cells))
  BY <1>1, Lines
<1>6. LoadId = n
  <2>1. Len(rest) = 0
    BY <1>2
  <2>2. vocab_txt = log.vocab
    BY <1>2, CopyIs DEF CopyInv
  <2> QED
    BY <1>5, <2>1, <2>2 DEF LoadId
<1>7. /\ DOMAIN itoa = 0 .. n - 1
      /\ \A k \in 0 .. n - 1 : itoa[k] = LoadedName(k)
  BY <1>1, <1>2, <1>6 DEF LoadInv
<1>8. /\ Closed /\ Len(vs) = n /\ log.meta = Written(<<e>>)
      /\ \A k \in 1 .. n : vs[k] = Vector(ls[k])
  BY <1>1, <1>2 DEF FileInv, Closed
<1>9. size = n
  BY <1>5, <1>7, FirstNumbers DEF size
<1>10. m \in Nat /\ n <= m
  <2>1. IsFiniteSet(DOMAIN atoi) /\ Range(itoa) \subseteq DOMAIN atoi
    <3>1. DOMAIN atoi \subseteq Words \cup {EmptyWord} /\ Range(itoa) \subseteq DOMAIN atoi
      BY <1>1 DEF Types
    <3>2. IsFiniteSet(Words \cup {EmptyWord})
      BY WordsAre, FS_AddElement
    <3> QED
      BY <3>1, <3>2, FS_Subset
  <2> DEFINE f == [k \in 0 .. n - 1 |-> itoa[k]]
  <2>2. f \in [0 .. n - 1 -> DOMAIN atoi]
    BY <1>7, <2>1 DEF Range
  <2>3. \A k, l \in 0 .. n - 1 : f[k] = f[l] => k = l
    BY <1>1, <1>7, <1>8, NamesApart
  <2> HIDE DEF f
  <2>4. f \in Injection(0 .. n - 1, DOMAIN atoi)
    BY <2>2, <2>3 DEF Injection, IsInjective
  <2>5. Cardinality(0 .. n - 1) = n
    BY <1>5, FirstNumbers
  <2> QED
    BY <2>1, <2>4, <2>5, FS_Injection, FS_CardinalityType
<1>11. e \in Nat \ {0} /\ e \in Nat /\ n * e \in Nat
  BY <1>5, EmbedType
<1>12. \A w : Len(Vector(w)) = e /\ \A j \in 1 .. e : Vector(w)[j] = <<w, j - 1>>
  BY <1>11 DEF Vector
<1> HIDE DEF m, e, ls, vs, n
<1>13. stored = 1 .. n * e
  <2>1. DOMAIN Numbers = 1 .. n * e
    BY <1>8 DEF Numbers, vs, e
  <2>2. \A k : Fits(k) <=> k <= n * e
    <3>1. log.meta.lines[1] = e
      BY <1>8 DEF Written
    <3> QED
      BY <1>9, <3>1 DEF Fits
  <2> QED
    BY <2>1, <2>2
<1>14. ASSUME NEW i \in 0 .. n - 1, NEW j \in 0 .. e - 1
       PROVE  i * e + j + 1 \in 1 .. n * e /\ Numbers[i * e + j + 1] = <<ls[i + 1], j>>
  <2> DEFINE k == i * e + j + 1
  <2>1. i \in Nat /\ i < n
    BY <1>5
  <2>2. /\ k \in Nat \ {0} /\ (k - 1) \div e = i /\ (k - 1) % e = j /\ k <= n * e
    BY <1>5, <1>11, <2>1, PlaceOfCell
  <2> HIDE DEF k
  <2>3. k \in 1 .. n * e
    BY <1>11, <2>2
  <2>4. Numbers[k] = vs[i + 1][j + 1]
    <3>1. Numbers = [l \in 1 .. n * e |-> vs[((l - 1) \div e) + 1][((l - 1) % e) + 1]]
      BY <1>8 DEF Numbers, vs, e
    <3> QED
      BY <2>2, <2>3, <3>1
  <2>5. vs[i + 1] = Vector(ls[i + 1]) /\ j + 1 \in 1 .. e /\ (j + 1) - 1 = j
    BY <1>5, <1>8, <1>11
  <2>6. Numbers[k] = <<ls[i + 1], j>>
    BY <1>12, <2>4, <2>5
  <2> QED
    BY <2>3, <2>6 DEF k
<1>15. \A k \in 1 .. n * e : Numbers[k] \in Cells
  <2>1. ASSUME NEW k \in 1 .. n * e
        PROVE  Numbers[k] \in Cells
    <3> DEFINE q == (k - 1) \div e
               r == (k - 1) % e
    <3>1. q \in 0 .. n - 1 /\ r \in 0 .. e - 1
      BY <1>5, <1>11, CellOfPlace
    <3>2. Numbers = [l \in 1 .. n * e |-> vs[((l - 1) \div e) + 1][((l - 1) % e) + 1]]
      BY <1>8 DEF Numbers, vs, e
    <3>3. Numbers[k] = vs[q + 1][r + 1]
      BY <3>2
    <3> HIDE DEF q, r
    <3>4. q + 1 \in 1 .. n /\ r + 1 \in 1 .. e /\ r \in Nat /\ (r + 1) - 1 = r
      BY <1>5, <1>11, <3>1
    <3>5. Numbers[k] = <<ls[q + 1], r>>
      BY <1>8, <1>12, <3>3, <3>4
    <3>6. ls[q + 1] \in Words
      BY <1>5, <3>4 DEF n
    <3> QED
      BY <3>4, <3>5, <3>6, CellIs
  <2> QED
    BY <2>1
<1> DEFINE max == Max({m * d, Cardinality(stored)})
<1>16. /\ max \in Nat /\ m * d \in Nat /\ m * d <= max /\ n * e <= max
       /\ n * e <= m * d => max = m * d
  <2>1. Cardinality(stored) = n * e /\ m * d \in Nat
    <3>1. Cardinality(1 .. n * e) = n * e
      BY <1>11, FirstPlaces
    <3>2. m \in Nat /\ d \in Nat
      BY <1>4, <1>10
    <3>3. m * d \in Nat
      BY <3>2
    <3> QED
      BY <1>13, <3>1, <3>3
  <2>2. max = IF m * d <= n * e THEN n * e ELSE m * d
    BY <1>11, <2>1, MinMax
  <2> DEFINE x == m * d
             y == n * e
  <2>3. x \in Nat /\ y \in Nat /\ max = IF x <= y THEN y ELSE x
    BY <1>11, <2>1, <2>2
  <2> HIDE DEF x, y, max
  <2>4. max \in Nat /\ x <= max /\ y <= max /\ (y <= x => max = x)
    BY <2>3
  <2> QED
    BY <2>1, <2>4 DEF x, y
<1> HIDE DEF max
<1>17. W1'.m = m /\ W1'.n = d /\ W1' = [m |-> W1'.m, n |-> W1'.n, data |-> W1'.data]
       /\ W1'.data = [k \in 1 .. max |-> IF k \in stored THEN Numbers[k] ELSE <<EmptyWord, 0>>]
  BY <1>3 DEF max
<1> HIDE DEF stored
<1>18. W1'.data \in Seq(Cells) /\ Len(W1'.data) = max
  <2>1. <<EmptyWord, 0>> \in Cells
    BY DEF Cells
  <2>2. \A k \in 1 .. max : (IF k \in stored THEN Numbers[k] ELSE <<EmptyWord, 0>>) \in Cells
    BY <1>13, <1>15, <2>1
  <2>3. W1'.data \in [1 .. max -> Cells]
    BY <1>17, <2>2
  <2> QED
    BY <1>16, <2>3
<1>19. \A k \in 1 .. n * e : W1'.data[k] = Numbers[k]
  <2>1. ASSUME NEW k \in 1 .. n * e
        PROVE  k \in 1 .. max
    BY <1>11, <1>16
  <2> QED
    BY <1>13, <1>17, <2>1
<1>20. Types'
  <2>1. W1' \in [m : Nat, n : Nat, data : Seq(Cells)] /\ Len(W1'.data) >= W1'.m * W1'.n
    BY <1>4, <1>10, <1>16, <1>17, <1>18
  <2>2. stage' \in Stages
    BY <1>2 DEF Stages
  <2> QED
    BY <1>1, <1>2, <2>1, <2>2 DEF Types
<1>21. LoadInv'
  <2>1. size' = size /\ \A k : LoadedName(k)' = LoadedName(k)
    BY <1>2 DEF size, LoadedName
  <2>2. size' <= W1'.m
    BY <1>9, <1>10, <1>17, <2>1
  <2>3. ASSUME W1'.n = e, NEW i \in 0 .. n - 1, NEW j \in 0 .. e - 1
        PROVE  at(i, j)' = <<ls[i + 1], j>>
    <3>1. at(i, j)' = W1'.data[i * e + j + 1]
      BY <2>3 DEF at
    <3> QED
      BY <1>14, <1>19, <3>1
  <2>5. log'.vocab.lines = ls /\ Len(ls) = n /\ itoa' = itoa
    BY <1>2 DEF ls, n
  <2> QED
    BY <1>2, <1>7, <2>1, <2>2, <2>3, <2>5 DEF LoadInv, e
<1>22. BuildInv'
  BY <1>2 DEF BuildInv, Filing
<1>23. FileInv'
  BY <1>1, <1>2, FilesKept
<1>24. ReaderInv'
  BY <1>1, <1>2, ReaderKept DEF Before
<1>25. QueryInv'
  BY <1>1, <1>2, NotAsking DEF Asking
<1> QED
  BY <1>20, <1>21, <1>22, <1>23, <1>24, <1>25 DEF IInv

-----------------------------------------------------------------------------
(* Train::most_similary and getTop *)

(* What a query leaves alone. *)
LEMMA AskingKeeps ==
  ASSUME IInv, UNCHANGED <<vocabVars, fileVars>>,
         stage \in {"saved", "loaded"} \cup Asking, stage' \in Asking, reader = "off"
  PROVE  Types' /\ BuildInv' /\ FileInv' /\ ReaderInv' /\ LoadInv'
<1>1. Types /\ FileInv /\ ReaderInv
  BY DEF IInv
<1>2. UNCHANGED <<corpus, min_count, max_size, freq, atoi, itoa, W1, log, rest, reader, line, data>>
  BY DEF vocabVars, fileVars
<1>3. stage' \in Stages /\ stage' \notin {"count", "keep", "add", "train", "load", "loaded"} \cup Filing
  BY DEF Stages, Asking, Filing
<1>4. Types'
  BY <1>1, <1>2, <1>3, TypesKept
<1>5. BuildInv' /\ LoadInv'
  BY <1>3 DEF BuildInv, LoadInv
<1>6. FileInv'
  BY <1>1, <1>2, <1>3, FilesKept
<1>7. ReaderInv'
  BY <1>1, <1>2, ReaderKept
<1> QED
  BY <1>4, <1>5, <1>6, <1>7

LEMMA NobodyReads ==
  ASSUME ReaderInv, stage \in Asking
  PROVE  reader = "off"
BY DEF ReaderInv, Before, Asking

LEMMA MostSimilaryStep == IInv /\ MostSimilary => IInv'
<1> SUFFICES ASSUME IInv, MostSimilary PROVE IInv'
  OBVIOUS
<1>1. Types /\ FileInv /\ LoadInv /\ QueryInv
  BY DEF IInv
<1> DEFINE m == W1.m
<1>2. /\ stage \in {"saved", "loaded"} /\ reader = "off" /\ UNCHANGED <<vocabVars, fileVars>>
      /\ \E k \in Asked : StartQuery(k, m)
  BY DEF MostSimilary
<1>3. PICK k \in Asked : StartQuery(k, m)
  BY <1>2
<1>4. /\ num' = Min({k, size}) /\ weight' \in [0 .. m - 1 -> Weights]
      /\ heap' = 0 .. num' - 1 /\ next' = num' /\ top' = << >>
      /\ stage' = IF num' < m THEN "replace" ELSE "aborted"
  BY <1>3 DEF StartQuery
<1>5. m \in Nat /\ size \in Nat /\ size <= m
  <2>1. m \in Nat /\ size \in Nat
    <3>1. W1 \in [m : Nat, n : Nat, data : Seq(Cells)]
      BY <1>1 DEF Types
    <3> QED
      BY <1>1, <3>1, SizeType
  <2>2. CASE stage = "saved"
    BY <1>1, <2>1, <2>2 DEF FileInv, Filing
  <2>3. CASE stage = "loaded"
    BY <1>1, <2>1, <2>3 DEF LoadInv
  <2>4. stage \in {"saved", "loaded"}
    BY <1>2
  <2> QED
    BY <2>1, <2>2, <2>3, <2>4
<1>6. num' \in Nat /\ num' <= m
  <2>1. k \in Nat
    BY SizesAssumption
  <2>2. num' = IF k <= size THEN k ELSE size
    BY <1>4, <1>5, <2>1, MinMax
  <2> QED
    BY <1>5, <2>1, <2>2
<1> HIDE DEF m
<1>7. rows' = m
  <2>1. DOMAIN weight' = 0 .. m - 1
    BY <1>4
  <2> QED
    BY <1>5, <2>1, FirstNumbers DEF rows
<1>8. QueryInv'
  <2>1. stage' \in Asking /\ stage' # "answered"
    BY <1>4 DEF Asking
  <2>2. weight' \in [0 .. m - 1 -> Nat]
    <3>1. Weights \subseteq Nat
      BY WeightsAssumption
    <3> QED
      BY <1>4, <3>1
  <2>3. heap' \subseteq 0 .. m - 1 /\ top' \in Seq(0 .. m - 1) /\ Len(top') = 0
    BY <1>4, <1>5, <1>6
  <2>4. Ranked'
    BY <1>4, <2>3 DEF Ranked
  <2>5. stage' = "replace" => num' < m
    BY <1>4
  <2>6. Cardinality(heap') + Len(top') = num'
    <3>1. Cardinality(heap') = num'
      BY <1>4, <1>6, FirstNumbers
    <3>2. Len(top') = 0
      BY <2>3
    <3> DEFINE a == Cardinality(heap')
               b == Len(top')
               c == num'
    <3>3. a = c /\ b = 0 /\ c \in Nat
      BY <1>6, <3>1, <3>2
    <3> HIDE DEF a, b, c
    <3>4. a + b = c
      BY <3>3
    <3> QED
      BY <3>4 DEF a, b, c
  <2>7. heap' # {} => \E b \in heap' : BestIn(b)'
    <3> DEFINE S == {weight'[i] : i \in heap'}
    <3>1. \A i \in heap' : weight'[i] \in Nat
      BY <2>2, <2>3
    <3>2. SUFFICES ASSUME heap' # {} PROVE \E b \in heap' : BestIn(b)'
      OBVIOUS
    <3>3. IsFiniteSet(heap')
      BY <1>4, <1>6, FirstNumbers
    <3>4. PICK b \in heap' : \A i \in heap' : weight'[b] >= weight'[i]
      BY <3>1, <3>2, <3>3, GreatestExists
    <3>5. BestIn(b)'
      <4>1. \A i \in 0 .. next' - 1 : weight'[b] >= weight'[i]
        BY <1>4, <3>4
      <4>2. \A j \in heap' : j < num' /\ ~ (j >= num')
        BY <1>4, <1>6
      <4> QED
        BY <4>1, <4>2 DEF BestIn
    <3> QED
      BY <3>5
  <2>8. (num' = 0 => next' = 0) /\ num' <= next' /\ next' <= m /\ heap' \subseteq 0 .. next' - 1
    BY <1>4, <1>6
  <2>9. \A h \in heap' : \A i \in 1 .. Len(top') : FALSE
    BY <2>3
  <2> QED
    BY <1>4, <1>5, <1>6, <1>7, <2>1, <2>2, <2>3, <2>4, <2>5, <2>6, <2>7, <2>8, <2>9 DEF QueryInv
<1>9. Types' /\ BuildInv' /\ FileInv' /\ ReaderInv' /\ LoadInv'
  BY <1>2, <1>4, AskingKeeps DEF Asking
<1> QED
  BY <1>8, <1>9 DEF IInv


(* What QueryInv says of the two loops and the output. *)
LEMMA InLoop ==
  ASSUME QueryInv, stage = "replace"
  PROVE  /\ weight \in [0 .. rows - 1 -> Nat] /\ rows \in Nat /\ DOMAIN weight = 0 .. rows - 1
         /\ num \in Nat /\ next \in Nat
         /\ heap \subseteq 0 .. rows - 1 /\ top \in Seq(0 .. rows - 1)
         /\ num < rows /\ num <= next /\ next <= rows /\ (num = 0 => next = 0)
         /\ heap \subseteq 0 .. next - 1 /\ heap \subseteq Nat /\ IsFiniteSet(heap)
         /\ Cardinality(heap) \in Nat /\ Len(top) \in Nat
         /\ Cardinality(heap) + Len(top) = num
         /\ \A i \in 0 .. rows - 1 : weight[i] \in Nat
         /\ Ranked
<1>1. /\ weight \in [0 .. rows - 1 -> Nat] /\ rows \in Nat
      /\ num \in Nat /\ next \in Nat
      /\ heap \subseteq 0 .. rows - 1 /\ top \in Seq(0 .. rows - 1)
      /\ num < rows /\ num <= next /\ next <= rows /\ (num = 0 => next = 0)
      /\ heap \subseteq 0 .. next - 1
      /\ Cardinality(heap) + Len(top) = num
      /\ Ranked
  BY DEF QueryInv, Asking
<1>2. IsFiniteSet(heap) /\ Cardinality(heap) \in Nat
  BY <1>1, FirstNumbers, FS_Subset, FS_CardinalityType
<1>3. DOMAIN weight = 0 .. rows - 1 /\ \A i \in 0 .. rows - 1 : weight[i] \in Nat
  BY <1>1
<1>4. heap \subseteq Nat /\ Len(top) \in Nat
  BY <1>1
<1> QED
  BY <1>1, <1>2, <1>3, <1>4

LEMMA TopsAre ==
  ASSUME NEW t \in Tops(heap)
  PROVE  t \in heap /\ \A j \in heap : weight[t] >= weight[j]
BY DEF Tops

(* A word that entered the queue from behind weighs more than all others   *)
(* that are in it: it is the top, and what takes its place weighs still    *)
(* more.  Therefore one word at most of the queue has an id of num or more.*)
LEMMA ReplaceStep ==
  ASSUME QueryInv, Replace
  PROVE  QueryInv'
<1>1. /\ stage = "replace" /\ next < rows /\ heap # {} /\ next' = next + 1
      /\ stage' = stage /\ weight' = weight /\ num' = num /\ top' = top
  BY DEF Replace
<1>2. PICK t \in Tops(heap) : heap' = IF Above(next, t) THEN (heap \ {t}) \cup {next} ELSE heap
  BY DEF Replace
<1>3. /\ weight \in [0 .. rows - 1 -> Nat] /\ rows \in Nat /\ DOMAIN weight = 0 .. rows - 1
      /\ num \in Nat /\ next \in Nat
      /\ heap \subseteq 0 .. rows - 1 /\ top \in Seq(0 .. rows - 1)
      /\ num < rows /\ num <= next /\ next <= rows /\ (num = 0 => next = 0)
      /\ heap \subseteq 0 .. next - 1 /\ heap \subseteq Nat /\ IsFiniteSet(heap)
      /\ Cardinality(heap) \in Nat /\ Len(top) \in Nat
      /\ Cardinality(heap) + Len(top) = num
      /\ \A i \in 0 .. rows - 1 : weight[i] \in Nat
  BY <1>1, InLoop
<1>4. rows' = rows
  BY <1>1 DEF rows
<1>5. t \in heap /\ \A j \in heap : weight[t] >= weight[j]
  BY <1>2, TopsAre
<1>6. top = << >>
  <2>1. next # rows
    BY <1>1, <1>3
  <2> QED
    BY <1>1, <2>1 DEF QueryInv
<1>7. PICK b \in heap : BestIn(b)
  BY <1>1, <1>6 DEF QueryInv
<1>8. /\ \A i \in 0 .. next - 1 : weight[b] >= weight[i]
      /\ \A j \in heap \ {b} : j < num /\ (b >= num => weight[j] < weight[b])
  BY <1>7 DEF BestIn
<1>9. /\ weight[t] \in Nat /\ weight[b] \in Nat /\ weight[next] \in Nat
      /\ t \in 0 .. next - 1 /\ b \in 0 .. next - 1 /\ next \notin heap
      /\ next \in 0 .. rows - 1
  BY <1>1, <1>3, <1>5
<1>10. weight[t] = weight[b]
  BY <1>5, <1>8, <1>9
(* An equal weight cannot stand beside a word from behind. *)
<1>11. \A j \in heap \ {t} : j < num
  <2> SUFFICES ASSUME NEW j \in heap \ {t}, ~ (j < num) PROVE FALSE
    OBVIOUS
  <2>1. j = b
    BY <1>8
  <2>2. b >= num /\ t # b
    BY <1>3, <2>1
  <2>3. weight[t] < weight[b]
    BY <1>5, <1>8, <2>2
  <2> QED
    BY <1>9, <1>10, <2>3
<1>12. /\ heap' \subseteq 0 .. next' - 1 /\ heap' \subseteq 0 .. rows - 1
       /\ Cardinality(heap') = Cardinality(heap)
       /\ \E c \in heap' : BestIn(c)'
  <2>1. CASE Above(next, t)
    <3> DEFINE h == heap \ {t}
    <3>1. heap' = h \cup {next}
      BY <1>2, <2>1
    <3>2. weight[next] > weight[t]
      BY <2>1 DEF Above
    <3>3. heap' \subseteq 0 .. next' - 1 /\ heap' \subseteq 0 .. rows - 1
      <4>1. 0 .. next - 1 \subseteq 0 .. next' - 1 /\ next \in 0 .. next' - 1
        BY <1>1, <1>3
      <4> QED
        BY <1>3, <1>9, <3>1, <4>1
    <3>4. Cardinality(heap') = Cardinality(heap)
      <4>1. IsFiniteSet(h) /\ Cardinality(h) = Cardinality(heap) - 1
        BY <1>3, <1>5, FS_RemoveElement
      <4>2. next \notin h
        BY <1>9
      <4> HIDE DEF h
      <4>3. Cardinality(h \cup {next}) = Cardinality(h) + 1
        BY <4>1, <4>2, FS_AddElement
      <4> QED
        BY <1>3, <3>1, <4>1, <4>3
    <3>5. PICK c \in Nat : c = next
      BY <1>3
    <3>6. BestIn(c)'
      <4>1. \A i \in 0 .. next : weight[next] >= weight[i]
        <5>1. ASSUME NEW i \in 0 .. next - 1
              PROVE  weight[next] >= weight[i]
          <6>1. weight[i] \in Nat /\ weight[b] >= weight[i]
            BY <1>3, <1>8, <5>1
          <6> QED
            BY <1>9, <1>10, <3>2, <6>1
        <5>2. \A i \in 0 .. next : i \in 0 .. next - 1 \/ i = next
          BY <1>3
        <5> QED
          BY <1>9, <5>1, <5>2
      <4>2. ASSUME NEW j \in heap' \ {next}
            PROVE  j < num /\ weight[j] < weight[next]
        <5>1. j \in heap \ {t}
          BY <3>1
        <5>2. weight[j] \in Nat /\ weight[t] >= weight[j]
          BY <1>3, <1>5, <5>1
        <5> QED
          BY <1>9, <1>11, <3>2, <5>1, <5>2
      <4>3. 0 .. next' - 1 = 0 .. next
        BY <1>1, <1>3
      <4>4. \A i \in 0 .. next' - 1 : weight'[c] >= weight'[i]
        BY <1>1, <3>5, <4>1, <4>3
      <4>5. \A j \in heap' \ {c} : j < num' /\ weight'[j] < weight'[c]
        BY <1>1, <3>5, <4>2
      <4> QED
        BY <4>4, <4>5 DEF BestIn
    <3>7. c \in heap'
      BY <3>1, <3>5
    <3> QED
      BY <3>3, <3>4, <3>6, <3>7
  <2>2. CASE ~ Above(next, t)
    <3>1. heap' = heap
      BY <1>2, <2>2
    <3>2. weight[b] >= weight[next]
      BY <1>9, <1>10, <2>2 DEF Above
    <3>3. BestIn(b)'
      <4>1. \A i \in 0 .. next' - 1 : i \in 0 .. next - 1 \/ i = next
        BY <1>1, <1>3
      <4> QED
        BY <1>1, <1>8, <3>1, <3>2, <4>1 DEF BestIn
    <3>4. heap \subseteq 0 .. next' - 1
      BY <1>1, <1>3
    <3> QED
      BY <1>3, <3>1, <3>3, <3>4
  <2> QED
    BY <2>1, <2>2
<1>13. num <= next' /\ next' <= rows /\ (num = 0 => next' = 0) /\ next' \in Nat
  <2>1. num # 0
    <3>1. 0 .. 0 - 1 = {}
      OBVIOUS
    <3> QED
      BY <1>1, <1>3, <3>1
  <2> QED
    BY <1>1, <1>3, <2>1
<1>14. Ranked'
  BY <1>1, <1>6 DEF Ranked
<1>15. \A h \in heap' : \A k \in 1 .. Len(top') : FALSE
  BY <1>1, <1>6
<1> QED
  BY <1>1, <1>3, <1>4, <1>6, <1>12, <1>13, <1>14, <1>15 DEF QueryInv, Asking

(* The first word that leaves the queue is the best of all, and the only   *)
(* one that may have come from behind.                                     *)
LEMMA OutputStep ==
  ASSUME QueryInv, Output
  PROVE  QueryInv'
<1>1. /\ stage = "replace" /\ next = rows /\ heap # {}
      /\ stage' = stage /\ weight' = weight /\ num' = num /\ next' = next
  BY DEF Output
<1>2. PICK t \in Tops(heap) : top' = Append(top, t) /\ heap' = heap \ {t}
  BY DEF Output
<1>3. /\ weight \in [0 .. rows - 1 -> Nat] /\ rows \in Nat /\ DOMAIN weight = 0 .. rows - 1
      /\ num \in Nat /\ next \in Nat
      /\ heap \subseteq 0 .. rows - 1 /\ top \in Seq(0 .. rows - 1)
      /\ num < rows /\ num <= next /\ next <= rows /\ (num = 0 => next = 0)
      /\ heap \subseteq 0 .. next - 1 /\ heap \subseteq Nat /\ IsFiniteSet(heap)
      /\ Cardinality(heap) \in Nat /\ Len(top) \in Nat
      /\ Cardinality(heap) + Len(top) = num
      /\ \A i \in 0 .. rows - 1 : weight[i] \in Nat
      /\ Ranked
  BY <1>1, InLoop
<1>4. rows' = rows
  BY <1>1 DEF rows
<1>5. t \in heap /\ \A j \in heap : weight[t] >= weight[j]
  BY <1>2, TopsAre
<1> DEFINE n == Len(top)
<1>6. /\ top' \in Seq(0 .. rows - 1) /\ Len(top') = n + 1 /\ top'[n + 1] = t
      /\ \A k \in 1 .. n : top'[k] = top[k]
      /\ \A k \in 1 .. n + 1 : k \in 1 .. n \/ k = n + 1
      /\ top' # << >>
  <2>1. top' = Append(top, t) /\ top \in Seq(0 .. rows - 1) /\ t \in 0 .. rows - 1 /\ n \in Nat
    BY <1>2, <1>3, <1>5
  <2>2. /\ top' \in Seq(0 .. rows - 1) /\ Len(top') = n + 1 /\ top'[n + 1] = t
        /\ \A k \in 1 .. n : top'[k] = top[k]
    BY <2>1
  <2>3. top' # << >>
    BY <2>1, <2>2
  <2>4. \A k \in 1 .. n + 1 : k \in 1 .. n \/ k = n + 1
    BY <2>1
  <2> HIDE DEF n
  <2> QED
    BY <2>2, <2>3, <2>4
<1>7. /\ \A h \in heap : \A k \in 1 .. n : weight[top[k]] >= weight[h] /\ top[k] # h
      /\ n > 0 => heap \subseteq 0 .. num - 1
  <2>1. n > 0 => top # << >>
    BY <1>3
  <2> QED
    BY <1>1, <2>1 DEF QueryInv
<1>8. n = 0 => (\A i \in 0 .. rows - 1 : weight[t] >= weight[i]) /\ heap \ {t} \subseteq 0 .. num - 1
  <2> SUFFICES ASSUME n = 0
               PROVE  (\A i \in 0 .. rows - 1 : weight[t] >= weight[i]) /\ heap \ {t} \subseteq 0 .. num - 1
    OBVIOUS
  <2>1. top = << >>
    BY <1>3
  <2>2. PICK b \in heap : BestIn(b)
    BY <1>1, <2>1 DEF QueryInv
  <2>3. /\ \A i \in 0 .. rows - 1 : weight[b] >= weight[i]
        /\ \A j \in heap \ {b} : j < num /\ (b >= num => weight[j] < weight[b])
    BY <1>1, <2>2 DEF BestIn
  <2>4. weight[t] \in Nat /\ weight[b] \in Nat /\ weight[t] >= weight[b]
    BY <1>3, <1>5
  <2>5. \A i \in 0 .. rows - 1 : weight[t] >= weight[i]
    <3>1. ASSUME NEW i \in 0 .. rows - 1
          PROVE  weight[t] >= weight[i]
      <4>1. weight[i] \in Nat /\ weight[b] >= weight[i]
        BY <1>3, <2>3
      <4> QED
        BY <2>4, <4>1
    <3> QED
      BY <3>1
  <2>6. ASSUME NEW j \in heap \ {t}
        PROVE  j \in 0 .. num - 1
    <3>1. j < num
      <4> SUFFICES ASSUME ~ (j < num) PROVE FALSE
        OBVIOUS
      <4>1. j = b
        BY <2>3
      <4>2. b >= num /\ t # b
        BY <1>3, <4>1
      <4>3. weight[t] < weight[b]
        BY <1>5, <2>3, <4>2
      <4> QED
        BY <2>4, <4>3
    <3> QED
      BY <1>3, <3>1
  <2> QED
    BY <2>5, <2>6
<1> HIDE DEF n
<1>9. n \in Nat /\ Cardinality(heap) + n = num
  BY <1>3 DEF n
<1>10. Cardinality(heap') + Len(top') = num
  <2>1. Cardinality(heap') = Cardinality(heap) - 1
    BY <1>2, <1>3, <1>5, FS_RemoveElement
  <2> DEFINE c == Cardinality(heap)
             d == Cardinality(heap')
             l == Len(top')
  <2>2. d = c - 1 /\ l = n + 1 /\ c \in Nat /\ c + n = num
    BY <1>3, <1>6, <1>9, <2>1
  <2> HIDE DEF c, d, l
  <2>3. d + l = num
    BY <1>9, <2>2
  <2> QED
    BY <2>3 DEF c, d, l
<1>11. heap' \subseteq 0 .. num - 1 /\ heap' \subseteq heap /\ t \notin heap'
  <2>1. n = 0 \/ n > 0
    BY <1>9
  <2> QED
    BY <1>2, <1>7, <1>8, <2>1
<1>12. \A h \in heap' : \A k \in 1 .. n + 1 : weight[top'[k]] >= weight[h] /\ top'[k] # h
  BY <1>5, <1>6, <1>7, <1>11
<1>13. Ranked'
  <2>1. /\ \A i, j \in 1 .. n : i < j => weight[top[i]] >= weight[top[j]]
        /\ n > 0 => \A i \in 0 .. rows - 1 : weight[top[1]] >= weight[i]
        /\ \A k \in 2 .. n : top[k] < num
        /\ \A i, j \in 1 .. n : top[i] = top[j] => i = j
    <3>1. n > 0 => top # << >>
      BY DEF n
    <3> QED
      BY <1>3, <3>1 DEF Ranked, n
  <2>2. ASSUME NEW i \in 1 .. n + 1, NEW j \in 1 .. n + 1, i < j
        PROVE  weight[top'[i]] >= weight[top'[j]]
    <3>1. i \in 1 .. n
      BY <1>9, <2>2
    <3>2. CASE j \in 1 .. n
      BY <1>6, <2>1, <2>2, <3>1, <3>2
    <3>3. CASE j = n + 1
      BY <1>5, <1>6, <1>7, <3>1, <3>3
    <3> QED
      BY <1>6, <3>2, <3>3
  <2>3. \A i \in 0 .. rows - 1 : weight[top'[1]] >= weight[i]
    <3>1. CASE n = 0
      BY <1>6, <1>8, <3>1
    <3>2. CASE n > 0
      <4>1. 1 \in 1 .. n
        BY <1>9, <3>2
      <4> QED
        BY <1>6, <2>1, <3>2, <4>1
    <3> QED
      BY <1>9, <3>1, <3>2
  <2>4. ASSUME NEW k \in 2 .. n + 1
        PROVE  top'[k] < num
    <3>1. CASE k \in 2 .. n
      <4>1. k \in 1 .. n
        BY <1>9, <3>1
      <4> QED
        BY <1>6, <2>1, <3>1, <4>1
    <3>2. CASE k = n + 1
      <4>1. n > 0
        BY <1>9, <2>4, <3>2
      <4>2. t \in 0 .. num - 1
        BY <1>5, <1>7, <4>1
      <4> QED
        BY <1>3, <1>6, <3>2, <4>2
    <3> QED
      BY <1>9, <2>4, <3>1, <3>2
  <2>5. ASSUME NEW i \in 1 .. n + 1, NEW j \in 1 .. n + 1, top'[i] = top'[j]
        PROVE  i = j
    <3>1. CASE i \in 1 .. n /\ j \in 1 .. n
      BY <1>6, <2>1, <2>5, <3>1
    <3>2. CASE i \in 1 .. n /\ j = n + 1
      BY <1>5, <1>6, <1>7, <2>5, <3>2
    <3>3. CASE i = n + 1 /\ j \in 1 .. n
      BY <1>5, <1>6, <1>7, <2>5, <3>3
    <3> QED
      BY <1>6, <3>1, <3>2, <3>3
  <2> QED
    BY <1>1, <1>3, <1>6, <2>2, <2>3, <2>4, <2>5 DEF Ranked
<1> QED
  BY <1>1, <1>3, <1>4, <1>6, <1>10, <1>11, <1>12, <1>13 DEF QueryInv, Asking

LEMMA ReplaceNoneStep ==
  ASSUME QueryInv, ReplaceNone
  PROVE  QueryInv'
<1>1. /\ stage = "replace" /\ stage' = "undefined"
      /\ UNCHANGED <<weight, num, heap, next, top>>
  BY DEF ReplaceNone, topVars
<1>2. rows' = rows
  BY <1>1 DEF rows
<1> QED
  BY <1>1, <1>2 DEF QueryInv, Asking

LEMMA AnswerStep ==
  ASSUME QueryInv, Answer
  PROVE  QueryInv'
<1>1. /\ stage = "replace" /\ next = rows /\ heap = {} /\ stage' \in {"answered", "threw"}
      /\ UNCHANGED <<weight, num, heap, next, top>>
  BY DEF Answer, topVars
<1>2. rows' = rows
  BY <1>1 DEF rows
<1>3. /\ num \in Nat /\ next \in Nat /\ rows \in Nat /\ num < rows /\ (num = 0 => next = 0)
      /\ Len(top) \in Nat /\ Cardinality(heap) + Len(top) = num /\ Ranked
  BY <1>1, InLoop
<1>4. Len(top) = num /\ num > 0
  <2>1. Cardinality(heap) = 0
    BY <1>1, FS_EmptySet
  <2> QED
    BY <1>1, <1>3, <2>1
<1>5. Ranked'
  BY <1>1, <1>3 DEF Ranked
<1> QED
  BY <1>1, <1>2, <1>4, <1>5 DEF QueryInv, Asking

LEMMA QueryStep == IInv /\ Query /\ UNCHANGED <<vocabVars, fileVars>> => IInv'
<1> SUFFICES ASSUME IInv, Query, UNCHANGED <<vocabVars, fileVars>> PROVE IInv'
  OBVIOUS
<1>1. QueryInv /\ ReaderInv
  BY DEF IInv
<1>2. stage = "replace" /\ stage' \in Asking
  BY DEF Query, Replace, ReplaceNone, Output, Answer, Asking
<1>3. QueryInv'
  BY <1>1, ReplaceStep, ReplaceNoneStep, OutputStep, AnswerStep DEF Query
<1>4. reader = "off"
  BY <1>1, <1>2, NobodyReads DEF Asking
<1>5. Types' /\ BuildInv' /\ FileInv' /\ ReaderInv' /\ LoadInv'
  BY <1>2, <1>4, AskingKeeps DEF Asking
<1> QED
  BY <1>3, <1>5 DEF IInv

-----------------------------------------------------------------------------
LEMMA LoadAbortsStep == IInv /\ LoadAborts => IInv'
<1> SUFFICES ASSUME IInv, LoadAborts PROVE IInv'
  OBVIOUS
<1>1. /\ stage = "saved" /\ stage' = "aborted" /\ reader = "off"
      /\ UNCHANGED <<vocabVars, topVars, fileVars>>
  BY DEF LoadAborts
<1>2. Types' /\ BuildInv' /\ FileInv' /\ ReaderInv' /\ LoadInv'
  BY <1>1, AskingKeeps DEF Asking
<1>3. QueryInv
  BY DEF IInv
<1>4. UNCHANGED <<weight, num, heap, next, top>> /\ heap = {} /\ top = << >> /\ weight = << >>
  BY <1>1, <1>3 DEF QueryInv, Asking, topVars
<1>5. rows = 0 /\ DOMAIN weight = {} /\ 0 .. 0 - 1 = {}
  <2>1. DOMAIN weight = {}
    BY <1>4
  <2> QED
    BY <2>1, FS_EmptySet DEF rows
<1>6. rows' = 0 /\ weight' \in [0 .. 0 - 1 -> Nat]
  <2>1. rows' = rows
    BY <1>4 DEF rows
  <2>2. weight = [i \in DOMAIN weight |-> weight[i]]
    BY <1>4
  <2> QED
    BY <1>4, <1>5, <2>1, <2>2
<1>7. QueryInv'
  BY <1>1, <1>3, <1>4, <1>6 DEF QueryInv, Asking
<1> QED
  BY <1>2, <1>7 DEF IInv

LEMMA CopyWordsStep == IInv /\ CopyWords => IInv'
<1> SUFFICES ASSUME IInv, CopyWords PROVE IInv'
  OBVIOUS
<1>1. Types /\ BuildInv /\ FileInv /\ ReaderInv /\ LoadInv /\ QueryInv
  BY DEF IInv
<1>2. /\ UNCHANGED <<stage, corpus, min_count, max_size, freq, atoi, itoa, W1, log, rest>>
      /\ UNCHANGED <<reader, line, data, topVars>> /\ stage = "saved"
  BY DEF CopyWords, vocabVars
<1>3. Types'
  BY <1>1, <1>2, TypesKept DEF Types
<1>4. BuildInv' /\ LoadInv' /\ QueryInv' /\ ReaderInv'
  BY <1>1, <1>2, NotBuilding, NotLoading, NotAsking, ReaderKept DEF Filing, Asking
<1>5. FileInv'
  <2>1. Closed' <=> Closed
    BY <1>2 DEF Closed, Vector
  <2>2. size' = size /\ (\A w : Vector(w)' = Vector(w)) /\ (\A i, j : at(i, j)' = at(i, j))
    BY <1>2 DEF size, Vector, at
  <2> QED
    BY <1>1, <1>2, <2>1, <2>2 DEF FileInv
<1> QED
  BY <1>3, <1>4, <1>5 DEF IInv

LEMMA StutterStep == IInv /\ UNCHANGED vars => IInv'
<1> SUFFICES ASSUME IInv, UNCHANGED vars PROVE IInv'
  OBVIOUS
<1>1. UNCHANGED <<reader, line, data, stage, log>> /\ ReaderInv
  BY DEF IInv, vars, fileVars
<1>2. Reading
  BY DEF Reading, vars, fileVars
<1>3. ReaderInv'
  BY <1>1, ReaderKept
<1> QED
  BY <1>2, <1>3, ReadingKeeps DEF IInv

LEMMA Inductive == IInv /\ CopyInv /\ [Next]_vars => IInv'
<1> SUFFICES ASSUME IInv, CopyInv, [Next]_vars PROVE IInv'
  OBVIOUS
<1>1. CASE Build /\ UNCHANGED <<topVars, fileVars>>
  BY <1>1, CountStep, KeepStep, addStep, BuiltStep DEF Build
<1>2. CASE Train \/ WriteMeta \/ OpenVectors \/ WriteCell \/ OpenWords \/ WriteWord \/ Saved
  BY <1>2, TrainStep, WriteMetaStep, OpenVectorsStep, WriteCellStep, OpenWordsStep,
     WriteWordStep, SavedStep
<1>3. CASE StartLoad \/ LoadAborts \/ LoadWord \/ LoadModel
  BY <1>3, StartLoadStep, LoadAbortsStep, LoadWordStep, LoadModelStep
<1>4. CASE MostSimilary \/ (Query /\ UNCHANGED <<vocabVars, fileVars>>)
  BY <1>4, MostSimilaryStep, QueryStep
<1>5. CASE Data
  BY <1>5, OpenDataStep, ReadWordStep, ReadVectorStep DEF Data
<1>6. CASE UNCHANGED vars
  BY <1>6, StutterStep
<1>7. CASE CopyWords
  BY <1>7, CopyWordsStep
<1> QED
  BY <1>1, <1>2, <1>3, <1>4, <1>5, <1>6, <1>7 DEF Next, Glove

LEMMA Invariance == Spec => []IInv
  BY InitIInv, Inductive, CopyInit, CopyStep, PTL DEF Spec

-----------------------------------------------------------------------------
(* The vocabulary that build leaves behind: numbered by frequency without  *)
(* a gap, with the counts of the corpus, and full unless only rare words   *)
(* are left out (Vocabulary::build), for every corpus and all limits.      *)
THEOREM IdsFollowFrequency == Spec => []WordsByFrequency
<1>1. IInv => WordsByFrequency
  <2> SUFFICES ASSUME IInv, stage = "train" PROVE WordsByFrequency
    BY DEF WordsByFrequency
  <2>1. /\ Types /\ Counted /\ Kept /\ Numbered /\ vec = << >>
        /\ atoi = [x \in DOMAIN atoi |-> atoi[x]]
    BY DEF IInv, BuildInv
  <2> DEFINE n == size
  <2>2. PICK ws \in SetToSeqs(Frequent) : KeptOf(ws)
    BY <2>1 DEF Kept
  <2> DEFINE all == Len(ws)
  <2>3. /\ ws \in Seq(Frequent) /\ all \in Nat
        /\ \A x \in Frequent : \E k \in 1 .. all : ws[k] = x
        /\ \A w \in DOMAIN counts : counts[w] \in Nat \ {0}
    BY <2>1, <2>2, FrequentFinite, SeqsOfSet
  <2>4. /\ n \in Nat /\ min_count \in Nat /\ max_size \in Nat
        /\ corpus \in [Spellings -> Nat]
    BY <2>1, SizeType DEF Types
  <2>5. n + Len(vec) = Min({max_size, all}) /\ Len(vec) = 0
    BY <2>1, <2>2 DEF KeptOf
  <2>6. n = IF max_size <= all THEN max_size ELSE all
    BY <2>3, <2>4, <2>5, MinMax
  <2>7. n <= all /\ (n = all \/ n = max_size)
    BY <2>3, <2>4, <2>6
  <2>8. \A k, l \in 1 .. all : k < l => counts[ws[k]] >= counts[ws[l]]
    <3>1. Sorted(ws) /\ DOMAIN ws = 1 .. all
      BY <2>2, <2>3 DEF KeptOf
    <3> QED
      BY <3>1 DEF Sorted
  <2>9. /\ DOMAIN itoa = 0 .. n - 1 /\ DOMAIN atoi = Range(itoa)
        /\ \A i \in 0 .. n - 1 : itoa[i] \in Words /\ atoi[itoa[i]] = i
    BY <2>1 DEF Numbered
  <2>10. \A i \in 0 .. n - 1 : itoa[i] = ws[i + 1] /\ freq[ws[i + 1]] = counts[ws[i + 1]]
    BY <2>2 DEF KeptOf
  <2>11. \A w \in DOMAIN counts : counts[w] = InCorpus(w)
    BY <2>1 DEF Counted
  <2>12. \A k \in 1 .. all : ws[k] \in DOMAIN counts /\ counts[ws[k]] >= min_count
    BY <2>3 DEF Frequent
  <2> HIDE DEF n, all
  <2>13. \A i \in 0 .. n - 1 : i + 1 \in 1 .. all /\ i \in Nat
    BY <2>3, <2>4, <2>7
  <2>14. \A w \in DOMAIN atoi : \E i \in 0 .. n - 1 : itoa[i] = w
    BY <2>9 DEF Range
  <2>15. ASSUME NEW w \in DOMAIN atoi
         PROVE  /\ atoi[w] \in 0 .. n - 1 /\ w = ws[atoi[w] + 1]
                /\ freq[w] = InCorpus(w) /\ freq[w] >= min_count
                /\ w \in DOMAIN counts
    <3>1. PICK i \in 0 .. n - 1 : itoa[i] = w
      BY <2>14
    <3>2. atoi[w] = i /\ w = ws[i + 1] /\ i + 1 \in 1 .. all
      BY <2>9, <2>10, <2>13, <3>1
    <3>3. w \in DOMAIN counts /\ counts[w] >= min_count /\ freq[w] = counts[w]
      BY <2>10, <2>12, <3>2
    <3> QED
      BY <2>11, <3>2, <3>3
  <2>16. atoi = [w \in Range(itoa) |-> CHOOSE i \in DOMAIN itoa : itoa[i] = w]
    <3>1. ASSUME NEW w \in DOMAIN atoi
          PROVE  atoi[w] = CHOOSE i \in 0 .. n - 1 : itoa[i] = w
      <4>1. PICK i \in 0 .. n - 1 : itoa[i] = w
        BY <2>14
      <4>2. \A l \in 0 .. n - 1 : itoa[l] = w => l = atoi[w]
        BY <2>9
      <4> QED
        BY <4>1, <4>2
    <3> QED
      BY <2>1, <2>9, <3>1
  <2>17. \A v, w \in DOMAIN atoi : atoi[v] < atoi[w] => InCorpus(v) >= InCorpus(w)
    <3> SUFFICES ASSUME NEW v \in DOMAIN atoi, NEW w \in DOMAIN atoi, atoi[v] < atoi[w]
                 PROVE  InCorpus(v) >= InCorpus(w)
      OBVIOUS
    <3> DEFINE k == atoi[v] + 1
               l == atoi[w] + 1
    <3>1. k \in 1 .. all /\ l \in 1 .. all /\ k < l
      BY <2>13, <2>15
    <3>2. v = ws[k] /\ w = ws[l] /\ v \in DOMAIN counts /\ w \in DOMAIN counts
      BY <2>15
    <3> HIDE DEF k, l
    <3> QED
      BY <2>8, <2>11, <3>1, <3>2
  <2>18. ASSUME NEW w \in Range(Lower) \ DOMAIN atoi
         PROVE  \/ InCorpus(w) < Max({min_count, 1})
                \/ n = max_size /\ \A v \in DOMAIN atoi : InCorpus(v) >= InCorpus(w)
    <3>1. /\ InCorpus(w) \in Nat /\ Max({min_count, 1}) \in Nat
          /\ Max({min_count, 1}) >= 1 /\ Max({min_count, 1}) >= min_count
      <4>1. Max({min_count, 1}) = IF min_count <= 1 THEN 1 ELSE min_count
        BY <2>4, MinMax
      <4> QED
        BY <2>4, <4>1, InCorpusType
    <3>2. CASE w \notin DOMAIN counts
      <4>1. ~ \E s \in Occurring : Lower[s] = w
        BY <2>1, <3>2 DEF Counted
      <4>2. ~ (InCorpus(w) > 0)
        BY <2>4, <4>1, OccursIfCounted
      <4> QED
        BY <3>1, <4>2
    <3>3. CASE w \in DOMAIN counts /\ ~ (counts[w] >= min_count)
      <4>1. InCorpus(w) = counts[w]
        BY <2>11, <3>3
      <4> QED
        BY <2>4, <3>1, <3>3, <4>1
    <3>4. CASE w \in DOMAIN counts /\ counts[w] >= min_count
      <4>1. PICK k \in 1 .. all : ws[k] = w
        BY <2>3, <3>4 DEF Frequent, all
      <4>2. ~ (k <= n)
        <5> SUFFICES ASSUME k <= n PROVE FALSE
          OBVIOUS
        <5>1. k - 1 \in 0 .. n - 1 /\ (k - 1) + 1 = k
          BY <2>3, <2>4
        <5>2. itoa[k - 1] = w
          BY <2>10, <4>1, <5>1
        <5>3. w \in DOMAIN atoi
          BY <2>9, <5>1, <5>2 DEF Range
        <5> QED
          BY <5>3
      <4>3. n = max_size
        BY <2>3, <2>4, <2>7, <4>2
      <4>4. ASSUME NEW v \in DOMAIN atoi
            PROVE  InCorpus(v) >= InCorpus(w)
        <5> DEFINE l == atoi[v] + 1
        <5>1. l \in 1 .. all /\ l < k
          BY <2>4, <2>13, <2>15, <4>2
        <5>2. v = ws[l] /\ v \in DOMAIN counts
          BY <2>15
        <5> HIDE DEF l
        <5>3. counts[ws[l]] >= counts[ws[k]]
          BY <2>8, <5>1
        <5> QED
          BY <2>11, <3>4, <4>1, <5>2, <5>3
      <4> QED
        BY <4>3, <4>4
    <3> QED
      BY <3>2, <3>3, <3>4
  <2> QED
    BY <2>9, <2>15, <2>16, <2>17, <2>18 DEF WordsByFrequency, n
<1> QED
  BY <1>1, Invariance, PTL

(* getTop answers with as many different words as were asked for, the best *)
(* first, and all but this one are of the first num of the vocabulary, for *)
(* all weights, though the queue throws out its greatest each time.        *)
THEOREM TheBestIsFirst == Spec => []BestFirst
<1>1. IInv => BestFirst
  <2> SUFFICES ASSUME IInv, stage = "answered" PROVE BestFirst
    BY DEF BestFirst
  <2>1. /\ QueryInv /\ Ranked /\ Len(top) = num /\ num > 0 /\ num \in Nat
        /\ top \in Seq(0 .. rows - 1)
    BY DEF IInv, QueryInv, Asking
  <2>2. top # << >> /\ DOMAIN top = 1 .. num
    BY <2>1
  <2>3. /\ \A i, j \in 1 .. num : i < j => weight[top[i]] >= weight[top[j]]
        /\ \A i \in DOMAIN weight : weight[top[1]] >= weight[i]
        /\ \A k \in 2 .. num : top[k] < num
        /\ \A i, j \in 1 .. num : top[i] = top[j] => i = j
    BY <2>1, <2>2 DEF Ranked
  <2>4. Cardinality(Range(top)) = num
    <3>1. top \in Injection(1 .. num, Range(top))
      <4>1. top \in [1 .. num -> Range(top)]
        BY <2>1, <2>2 DEF Range
      <4> QED
        BY <2>3, <4>1 DEF Injection, IsInjective
    <3>2. top \in Surjection(1 .. num, Range(top))
      <4>1. top \in [1 .. num -> Range(top)]
        BY <3>1 DEF Injection
      <4>2. \A y \in Range(top) : \E k \in 1 .. num : top[k] = y
        BY <2>2 DEF Range
      <4> QED
        BY <4>1, <4>2 DEF Surjection
    <3>3. IsFiniteSet(1 .. num) /\ Cardinality(1 .. num) = num
      BY <2>1, FirstPlaces
    <3> DEFINE R == Range(top)
    <3>4. top \in Bijection(1 .. num, R)
      BY <3>1, <3>2 DEF Bijection
    <3> HIDE DEF R
    <3>5. Cardinality(R) = Cardinality(1 .. num)
      BY <3>3, <3>4, FS_Bijection DEF ExistsBijection
    <3> QED
      BY <3>3, <3>5 DEF R
  <2> QED
    BY <2>1, <2>2, <2>3, <2>4 DEF BestFirst
<1> QED
  BY <1>1, Invariance, PTL

(* Whenever a server reads the files while to_txt writes them, what it has *)
(* under a word is the whole vector of this word.                          *)
THEOREM ServersReadWholeVectors == Spec => []ServedVectorsAreWhole
<1>1. IInv => ServedVectorsAreWhole
  <2> SUFFICES ASSUME IInv PROVE ServedVectorsAreWhole
    OBVIOUS
  <2>1. Types /\ FileInv /\ ReaderInv /\ QueryInv
    BY DEF IInv
  <2>2. /\ freq \in [DOMAIN freq -> Nat \ {0}] /\ DOMAIN freq \subseteq Range(Lower)
        /\ DOMAIN atoi \subseteq Range(Lower) \cup {EmptyWord} /\ Range(atoi) \subseteq Nat
        /\ DOMAIN itoa \subseteq Nat /\ Range(itoa) \subseteq DOMAIN atoi
        /\ Len(W1.data) >= W1.m * W1.n
        /\ stage \in Stages
    BY <2>1 DEF Types, Words
  <2>3. heap \cup Range(top) \subseteq DOMAIN weight
    <3>1. CASE stage \notin Asking
      <4>1. Range(<< >>) = {}
        BY NoWordsIs DEF NoWords
      <4> QED
        BY <2>1, <3>1, <4>1 DEF QueryInv
    <3>2. CASE stage \in Asking
      <4>1. /\ DOMAIN weight = 0 .. rows - 1 /\ heap \subseteq 0 .. rows - 1
            /\ top \in Seq(0 .. rows - 1)
        BY <2>1, <3>2 DEF QueryInv
      <4>2. Range(top) \subseteq 0 .. rows - 1
        <5>1. \A k \in DOMAIN top : top[k] \in 0 .. rows - 1
          <6> DEFINE S == 0 .. rows - 1
          <6>1. top \in Seq(S)
            BY <4>1
          <6> HIDE DEF S
          <6>2. \A k \in DOMAIN top : top[k] \in S
            BY <6>1
          <6> QED
            BY <6>2 DEF S
        <5> QED
          BY <5>1 DEF Range
      <4> QED
        BY <4>1, <4>2
    <3> QED
      BY <3>1, <3>2
  <2>4. \A k \in DOMAIN log.wordvec.lines : Len(log.wordvec.lines[k]) <= EmbedSize
    <3> DEFINE ls == log.wordvec.lines
    <3>1. DOMAIN ls = 1 .. Len(ls) /\ EmbedSize \in Nat
      BY <2>1, Lines, EmbedType
    <3>2. CASE stage = "vectors"
      BY <2>1, <3>1, <3>2 DEF FileInv, Begun
    <3>3. CASE stage \in {"words", "saved", "load", "loaded"} \cup Asking
      BY <2>1, <3>1, <3>3 DEF FileInv, Closed
    <3>4. CASE stage \notin {"words", "saved", "load", "loaded"} \cup Asking \cup {"vectors"}
      <4>1. ls = << >>
        BY <2>1, <3>4 DEF FileInv, NoFile
      <4> QED
        BY <4>1
    <3> QED
      BY <3>2, <3>3, <3>4
  <2>5. DOMAIN data \subseteq Range(log.vocab.lines)
    <3> DEFINE ls == log.vocab.lines
               c == Cardinality(DOMAIN data)
    <3>1. DOMAIN ls = 1 .. Len(ls) /\ Len(ls) \in Nat
      BY <2>1, Lines
    <3>2. c \in Nat /\ c <= Len(ls) /\ DOMAIN data = {ls[k] : k \in 1 .. c}
      BY <2>1, FS_CardinalityType DEF ReaderInv
    <3> HIDE DEF ls, c
    <3>3. 1 .. c \subseteq DOMAIN ls
      BY <3>1, <3>2
    <3> QED
      BY <3>2, <3>3 DEF Range, ls
  <2>6. reader \in {"off", "word", "vector", "up", "aborted"} /\ \A w \in DOMAIN data : data[w] = Vector(w)
    BY <2>1 DEF ReaderInv
  <2> QED
    BY <2>2, <2>3, <2>4, <2>5, <2>6 DEF ServedVectorsAreWhole, TypeOK
<1> QED
  BY <1>1, Invariance, PTL

(* Vocabulary::load mixes getline and >>: whatever was saved and copied to *)
(* vocab.txt, a new object has each vector under the word after its own.   *)
THEOREM LoadShiftsByOne == Spec => []LoadedOneOff
<1>1. IInv => LoadedOneOff
  <2> SUFFICES ASSUME IInv, stage = "loaded", W1.n = EmbedSize, NEW i \in DOMAIN itoa
               PROVE  LET own == log.vocab.lines[i + 1]
                      IN  /\ [j \in 1 .. EmbedSize |-> at(i, j - 1)] = Vector(own)
                          /\ itoa[i] = IF Len(log.vocab.lines) = 1 THEN own
                                       ELSE IF i + 1 = Len(log.vocab.lines) THEN EmptyWord
                                       ELSE log.vocab.lines[i + 2]
    BY DEF LoadedOneOff
  <2>1. /\ itoa[i] = LoadedName(i)
        /\ \A j \in 0 .. EmbedSize - 1 : at(i, j) = <<log.vocab.lines[i + 1], j>>
    BY DEF IInv, LoadInv
  <2>2. \A j \in 1 .. EmbedSize : at(i, j - 1) = <<log.vocab.lines[i + 1], j - 1>>
    <3>1. \A j \in 1 .. EmbedSize : j - 1 \in 0 .. EmbedSize - 1
      BY EmbedType
    <3> QED
      BY <2>1, <3>1
  <2>3. [j \in 1 .. EmbedSize |-> at(i, j - 1)] = Vector(log.vocab.lines[i + 1])
    BY <2>2 DEF Vector
  <2> QED
    BY <2>1, <2>3 DEF LoadedName
<1> QED
  BY <1>1, Invariance, PTL
==============================================================================

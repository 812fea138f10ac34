---------------------------- MODULE Reactor_proofs ----------------------------
(***************************************************************************)
(* Proofs about the reactor: every pending event leads to a live Handler,  *)
(* no two connections share one, failed writes leave nothing out, and the  *)
(* reactor implements WordService.                                         *)
(*                                                                         *)
(* The first lemmas are about the operators: the places of words in a      *)
(* request are counted, so Parsed is a sequence (an argument by            *)
(* cardinality, since there is no induction here), Vectors distributes     *)
(* over concatenation, and a buffer that was empty holds what was put in.  *)
(***************************************************************************)
EXTENDS Reactor, SequenceTheorems, FiniteSetTheorems, TLAPS

\* Each number up to the size of a finite set of numbers is the rank of a member.
LEMMA RankOnto ==
    ASSUME NEW S \in SUBSET Nat, IsFiniteSet(S), NEW n \in 1 .. Cardinality(S)
    PROVE  \E p \in S : Cardinality({q \in S : q <= p}) = n
<1> DEFINE Below(p) == {q \in S : q <= p}
           rank == [p \in S |-> Cardinality(Below(p))]
           Ranks == 1 .. Cardinality(S)
<1>1. ASSUME NEW p \in S
      PROVE  /\ IsFiniteSet(Below(p)) /\ Cardinality(Below(p)) \in Nat
             /\ Cardinality(Below(p)) \in Ranks
  <2>1. Below(p) \in SUBSET S /\ p \in Below(p)
    OBVIOUS
  <2> HIDE DEF Below
  <2>2. /\ IsFiniteSet(Below(p)) /\ Cardinality(Below(p)) \in Nat
        /\ Cardinality(S) \in Nat /\ Cardinality(Below(p)) <= Cardinality(S)
    BY <2>1, FS_Subset, FS_CardinalityType
  <2>3. Cardinality(Below(p)) # 0
    BY <2>1, <2>2, FS_EmptySet
  <2> QED
    BY <2>2, <2>3
<1>2. ASSUME NEW p \in S, NEW q \in S, p < q
      PROVE  rank[p] # rank[q]
  <2>1. Below(p) \in SUBSET Below(q) /\ q \in Below(q) /\ q \notin Below(p)
    <3>1. p \in Nat /\ q \in Nat /\ \A x \in S : x \in Nat
      OBVIOUS
    <3>2. \A x \in S : x <= p => x <= q
      BY <1>2, <3>1
    <3>3. q <= q /\ ~(q <= p)
      BY <1>2, <3>1
    <3> QED
      BY <3>2, <3>3
  <2>2. IsFiniteSet(Below(q))
    BY <1>1
  <2> HIDE DEF Below
  <2>3. Cardinality(Below(p)) # Cardinality(Below(q))
    BY <2>1, <2>2, FS_Subset
  <2> QED
    BY <2>3
<1>3. rank \in Injection(S, Ranks)
  <2>1. rank \in [S -> Ranks]
    BY <1>1
  <2>2. \A p, q \in S : rank[p] = rank[q] => p = q
    <3> SUFFICES ASSUME NEW p \in S, NEW q \in S, p # q PROVE rank[p] # rank[q]
      OBVIOUS
    <3>1. p \in Nat /\ q \in Nat
      OBVIOUS
    <3>2. p < q \/ q < p
      BY <3>1
    <3> HIDE DEF rank
    <3> QED
      BY <3>2, <1>2
  <2> HIDE DEF rank
  <2> QED
    BY <2>1, <2>2 DEF Injection, IsInjective
<1>4. IsFiniteSet(Ranks) /\ Cardinality(Ranks) = Cardinality(S)
  <2>1. Cardinality(S) \in Nat
    BY FS_CardinalityType
  <2>2. 1 \in Int /\ Cardinality(S) \in Int
    BY <2>1
  <2>3. Cardinality(Ranks) = IF 1 > Cardinality(S) THEN 0 ELSE Cardinality(S) - 1 + 1
    BY <2>2, FS_Interval
  <2>4. IsFiniteSet(Ranks)
    BY <2>2, FS_Interval
  <2> QED
    BY <2>1, <2>3, <2>4
<1>5. rank \in Surjection(S, Ranks)
  <2> HIDE DEF rank, Ranks
  <2> QED
    BY <1>3, <1>4, FS_Injection
<1>6. PICK p \in S : rank[p] = n
  <2>1. n \in Ranks
    OBVIOUS
  <2> HIDE DEF rank, Ranks
  <2> QED
    BY <1>5, <2>1 DEF Surjection
<1> QED
  BY <1>6

\* A set of numbers that has a member has a least one.
LEMMA LeastIsMember ==
    ASSUME NEW S \in SUBSET Nat, IsFiniteSet(S), S # {}
    PROVE  Min(S) \in S
<1>1. Cardinality(S) \in Nat /\ Cardinality(S) # 0
  BY FS_CardinalityType, FS_EmptySet
<1>2. 1 \in 1 .. Cardinality(S)
  BY <1>1
<1>3. PICK p \in S : Cardinality({q \in S : q <= p}) = 1
  BY <1>2, RankOnto
<1>4. {q \in S : q <= p} \in SUBSET S /\ p \in {q \in S : q <= p}
  OBVIOUS
<1>5. IsFiniteSet({q \in S : q <= p})
  BY <1>4, FS_Subset
<1>6. PICK x : {q \in S : q <= p} = {x}
  BY <1>3, <1>5, FS_Singleton
<1>7. \A q \in S : p <= q
  BY <1>4, <1>6
<1> QED
  BY <1>7 DEF Min

\* The words parsed from a request are a sequence of words of the request.
LEMMA ParsedIsSequence ==
    ASSUME NEW request \in Seq(Tokens)
    PROVE  Parsed(request) \in Seq(Tokens)
<1> DEFINE Before(p) == {q \in Ends(request) : q <= p}
           End(n) == CHOOSE p \in Ends(request) : Cardinality(Before(p)) = n
           Word == [n \in 1 .. Cardinality(Ends(request)) |-> request[End(n) - 1]]
<1>1. /\ Ends(request) \in SUBSET Nat
      /\ \A p \in Ends(request) : p - 1 \in DOMAIN request
  BY DEF Ends
<1>2. IsFiniteSet(Ends(request))
  <2>1. Ends(request) \in SUBSET (3 .. Len(request)) /\ 3 \in Int /\ Len(request) \in Int
    BY DEF Ends
  <2> QED
    BY <2>1, FS_Interval, FS_Subset
<1>3. \A n \in 1 .. Cardinality(Ends(request)) : End(n) \in Ends(request)
  BY <1>1, <1>2, RankOnto
<1>4. Cardinality(Ends(request)) \in Nat
  BY <1>2, FS_CardinalityType
<1>5. Word \in Seq(Tokens)
  <2> HIDE DEF End
  <2>1. \A n \in 1 .. Cardinality(Ends(request)) : request[End(n) - 1] \in Tokens
    BY <1>1, <1>3
  <2> QED
    BY <1>4, <2>1
<1> QED
  BY <1>5 DEF Parsed

LEMMA VectorsIsSequence ==
    ASSUME NEW ws \in Seq(Tokens)
    PROVE  Vectors(ws) \in Seq(Sent) /\ Len(Vectors(ws)) = Len(ws)
<1>1. \A w : Vector(w) \in Sent
  BY DEF Vector, Sent
<1>2. PICK m \in Nat : m = Len(ws) /\ DOMAIN ws = 1 .. m
  OBVIOUS
<1> QED
  BY <1>1, <1>2 DEF Vectors

\* The reply to the words taken so far and those of one more request is the reply
\* to the former and then the vectors of the latter.
LEMMA VectorsOfBoth ==
    ASSUME NEW a \in Seq(Tokens), NEW b \in Seq(Tokens)
    PROVE  Vectors(a \o b) = Vectors(a) \o Vectors(b)
<1>1. PICK both \in Seq(Tokens) : both = a \o b
  <2>1. a \o b \in Seq(Tokens)
    OBVIOUS
  <2> QED
    BY <2>1
<1>2. /\ Len(both) = Len(a) + Len(b)
      /\ \A k \in 1 .. Len(a) + Len(b) : both[k] = IF k <= Len(a) THEN a[k] ELSE b[k - Len(a)]
  BY <1>1
<1>3. PICK va \in Seq(Sent) : va = Vectors(a) /\ Len(va) = Len(a)
  BY VectorsIsSequence
<1>4. PICK vb \in Seq(Sent) : vb = Vectors(b) /\ Len(vb) = Len(b)
  BY VectorsIsSequence
<1>5. PICK v \in Seq(Sent) : v = Vectors(both) /\ Len(v) = Len(both)
  BY VectorsIsSequence
<1>6. /\ \A k \in 1 .. Len(a) : va[k] = Vector(a[k])
      /\ \A k \in 1 .. Len(b) : vb[k] = Vector(b[k])
      /\ \A k \in 1 .. Len(both) : v[k] = Vector(both[k])
  BY <1>3, <1>4, <1>5 DEF Vectors
<1>7. /\ va \o vb \in Seq(Sent) /\ Len(va \o vb) = Len(a) + Len(b)
      /\ \A k \in 1 .. Len(a) + Len(b) :
            (va \o vb)[k] = IF k <= Len(a) THEN va[k] ELSE vb[k - Len(a)]
  <2>1. Len(va) = Len(a) /\ Len(vb) = Len(b)
    BY <1>3, <1>4
  <2>2. va \o vb \in Seq(Sent) /\ Len(va \o vb) = Len(va) + Len(vb)
    OBVIOUS
  <2>3. \A k \in 1 .. Len(va) + Len(vb) :
            (va \o vb)[k] = IF k <= Len(va) THEN va[k] ELSE vb[k - Len(va)]
    OBVIOUS
  <2> QED
    BY <2>1, <2>2, <2>3
<1>8. ASSUME NEW k \in 1 .. Len(a) + Len(b)
      PROVE  v[k] = (va \o vb)[k]
  <2>1. CASE k <= Len(a)
    <3>1. k \in 1 .. Len(a) /\ k \in 1 .. Len(both)
      BY <2>1, <1>2
    <3>2. v[k] = Vector(a[k])
      BY <2>1, <3>1, <1>2, <1>6
    <3>3. (va \o vb)[k] = Vector(a[k])
      BY <2>1, <3>1, <1>6, <1>7
    <3> QED
      BY <3>2, <3>3
  <2>2. CASE k > Len(a)
    <3>1. k - Len(a) \in 1 .. Len(b) /\ k \in 1 .. Len(both) /\ ~(k <= Len(a))
      BY <2>2, <1>2
    <3>2. v[k] = Vector(b[k - Len(a)])
      BY <3>1, <1>2, <1>6
    <3>3. (va \o vb)[k] = Vector(b[k - Len(a)])
      BY <3>1, <1>6, <1>7
    <3> QED
      BY <3>2, <3>3
  <2>3. k <= Len(a) \/ k > Len(a)
    OBVIOUS
  <2> QED
    BY <2>1, <2>2, <2>3
<1>9. v = va \o vb
  BY <1>2, <1>5, <1>7, <1>8, SeqEqual
<1> QED
  BY <1>1, <1>3, <1>4, <1>5, <1>9

\* The first n members of s are found in t, one behind the other.
Laid(s, n, t) ==
    \E at \in [Nat -> Nat] :
        /\ \A k \in 1 .. n : at[k] \in 1 .. Len(t) /\ t[at[k]] = s[k]
        /\ \A k, l \in 1 .. n : k < l => at[k] < at[l]

\* What a concatenation consists of.
LEMMA Concatenated ==
    ASSUME NEW t \in Seq(Sent), NEW u \in Seq(Sent)
    PROVE  /\ t \o u \in Seq(Sent) /\ Len(t \o u) = Len(t) + Len(u)
           /\ Len(t) \in Nat /\ Len(u) \in Nat
           /\ \A k \in 1 .. Len(t) : (t \o u)[k] = t[k]
           /\ \A k \in 1 .. Len(u) : (t \o u)[Len(t) + k] = u[k]
<1> QED
  OBVIOUS

\* They still are when t goes on with the next d of them, whatever n is.
LEMMA LaidMore ==
    ASSUME NEW s \in Seq(Sent), NEW t \in Seq(Sent), NEW u \in Seq(Sent),
           NEW n \in Int, Laid(s, n, t),
           \A k \in 1 .. Len(u) : n + k >= 1 => u[k] = s[n + k]
    PROVE  Laid(s, n + Len(u), t \o u)
<1>1. PICK at \in [Nat -> Nat] :
         /\ \A k \in 1 .. n : at[k] \in 1 .. Len(t) /\ t[at[k]] = s[k]
         /\ \A k, l \in 1 .. n : k < l => at[k] < at[l]
  BY DEF Laid
<1> DEFINE on == [k \in Nat |-> IF k <= n \/ k > n + Len(u) THEN at[k] ELSE Len(t) + (k - n)]
<1>2. /\ t \o u \in Seq(Sent) /\ Len(t \o u) = Len(t) + Len(u)
      /\ Len(t) \in Nat /\ Len(u) \in Nat
  BY Concatenated
<1>6. \A k \in 1 .. Len(t) : (t \o u)[k] = t[k]
  BY Concatenated
<1>7. \A k \in 1 .. Len(u) : (t \o u)[Len(t) + k] = u[k]
  BY Concatenated
<1>3. on \in [Nat -> Nat]
  <2>1. \A k \in Nat : ~(k <= n \/ k > n + Len(u)) => Len(t) + (k - n) \in Nat
    BY <1>2
  <2> QED
    BY <2>1
<1>8. /\ \A k \in Nat : k <= n => on[k] = at[k]
      /\ \A k \in Nat : k > n /\ k <= n + Len(u) => on[k] = Len(t) + (k - n)
  BY <1>2
<1> HIDE DEF on
<1>4. ASSUME NEW k \in 1 .. n + Len(u)
      PROVE  on[k] \in 1 .. Len(t \o u) /\ (t \o u)[on[k]] = s[k]
  <2>3. k \in Nat /\ k >= 1
    BY <1>2
  <2>1. CASE k <= n
    <3>4. on[k] = at[k]
      BY <1>8, <2>1, <2>3
    <3>5. PICK j \in Nat : j = k /\ j >= 1 /\ j <= n
      BY <2>1, <2>3
    <3>6. j \in 1 .. n
      BY <3>5
    <3>1. k \in 1 .. n /\ on[k] = at[k]
      BY <3>4, <3>5, <3>6
    <3>2. at[k] \in 1 .. Len(t) /\ t[at[k]] = s[k]
      BY <1>1, <3>1
    <3>3. at[k] \in 1 .. Len(t \o u)
      <4>1. PICK x \in Nat, y \in Nat : x = Len(t) /\ y = Len(u) /\ Len(t \o u) = x + y
        BY <1>2
      <4>2. at[k] \in 1 .. x
        BY <3>2, <4>1
      <4>3. at[k] \in 1 .. x + y
        BY <4>1, <4>2
      <4> QED
        BY <4>1, <4>3
    <3>7. (t \o u)[at[k]] = t[at[k]]
      BY <1>6, <3>2
    <3> QED
      BY <3>1, <3>2, <3>3, <3>7, Zenon
  <2>2. CASE k > n
    <3>1. k \in Nat /\ k <= n + Len(u) /\ k >= 1
      BY <1>2
    <3>2. on[k] = Len(t) + (k - n)
      BY <1>8, <2>2, <3>1
    <3>3. PICK j \in 1 .. Len(u) : j = k - n
      BY <1>2, <2>2, <3>1
    <3>4. n + j = k /\ on[k] = Len(t) + j
      BY <3>1, <3>2, <3>3
    <3>5. u[j] = s[k] /\ (t \o u)[on[k]] = u[j]
      BY <1>7, <3>1, <3>3, <3>4
    <3>6. on[k] \in 1 .. Len(t \o u)
      <4>1. PICK x \in Nat, y \in Nat : x = Len(t) /\ y = Len(u) /\ Len(t \o u) = x + y
        BY <1>2
      <4>2. j \in 1 .. y /\ on[k] = x + j
        BY <3>4, <4>1
      <4>3. x + j \in 1 .. x + y
        BY <4>2
      <4> QED
        BY <4>1, <4>2, <4>3
    <3> QED
      BY <3>5, <3>6
  <2>4. k <= n \/ k > n
    BY <2>3
  <2> QED
    BY <2>1, <2>2, <2>4
<1>5. ASSUME NEW k \in 1 .. n + Len(u), NEW l \in 1 .. n + Len(u), k < l
      PROVE  on[k] < on[l]
  <2>4. k \in Nat /\ l \in Nat /\ k <= n + Len(u) /\ l <= n + Len(u) /\ k >= 1 /\ l >= 1
    BY <1>2
  <2>1. CASE l <= n
    <3>1. k \in 1 .. n /\ l \in 1 .. n
      BY <1>5, <2>1, <2>4
    <3>2. on[k] = at[k] /\ on[l] = at[l]
      BY <1>8, <2>4, <3>1
    <3> QED
      BY <1>1, <1>5, <3>1, <3>2
  <2>2. CASE l > n /\ k <= n
    <3>1. k \in 1 .. n /\ on[k] = at[k] /\ on[l] = Len(t) + (l - n)
      BY <1>8, <2>2, <2>4
    <3>2. at[k] \in 1 .. Len(t)
      BY <1>1, <3>1
    <3> QED
      BY <1>2, <2>2, <2>4, <3>1, <3>2
  <2>3. CASE l > n /\ k > n
    <3>1. on[k] = Len(t) + (k - n) /\ on[l] = Len(t) + (l - n)
      BY <1>8, <2>3, <2>4
    <3> QED
      BY <1>2, <1>5, <2>4, <3>1
  <2> QED
    BY <2>1, <2>2, <2>3, <2>4
<1> QED
  BY <1>3, <1>4, <1>5 DEF Laid

\* Fewer of them are found as well.
LEMMA LaidLess ==
    ASSUME NEW s, NEW t, NEW n \in Int, Laid(s, n, t)
    PROVE  Laid(s, n - 1, t)
<1>1. \A k \in 1 .. n - 1 : k \in 1 .. n
  OBVIOUS
<1> QED
  BY <1>1 DEF Laid

\* Where all of a reply is found, its last part is.
LEMMA LaidLast ==
    ASSUME NEW a \in Seq(Sent), NEW b \in Seq(Sent), NEW t \in Seq(Sent),
           Laid(a \o b, Len(a \o b), t)
    PROVE  InOrder(b, t)
<1> DEFINE s == a \o b
<1>1. /\ Len(s) = Len(a) + Len(b) /\ Len(a) \in Nat /\ Len(b) \in Nat
      /\ \A k \in 1 .. Len(b) : s[Len(a) + k] = b[k]
      /\ DOMAIN b = 1 .. Len(b) /\ DOMAIN t = 1 .. Len(t)
  OBVIOUS
<1> HIDE DEF s
<1>2. PICK at \in [Nat -> Nat] :
         /\ \A k \in 1 .. Len(s) : at[k] \in 1 .. Len(t) /\ t[at[k]] = s[k]
         /\ \A k, l \in 1 .. Len(s) : k < l => at[k] < at[l]
  BY DEF Laid, s
<1> DEFINE own == [k \in DOMAIN b |-> at[Len(a) + k]]
<1>3. \A k \in DOMAIN b : k \in Nat /\ Len(a) + k \in 1 .. Len(s)
  <2>1. \A k \in 1 .. Len(b) : k \in Nat /\ Len(a) + k \in 1 .. Len(a) + Len(b)
    BY <1>1
  <2> QED
    BY <1>1, <2>1
<1>4. \A k \in DOMAIN b : own[k] \in DOMAIN t /\ t[own[k]] = b[k]
  BY <1>1, <1>2, <1>3
<1>5. \A k, l \in DOMAIN b : k < l => own[k] < own[l]
  <2> SUFFICES ASSUME NEW k \in DOMAIN b, NEW l \in DOMAIN b, k < l
               PROVE  own[k] < own[l]
    OBVIOUS
  <2>1. Len(a) + k < Len(a) + l
    BY <1>1, <1>3
  <2> QED
    BY <1>2, <1>3, <2>1
<1>6. own \in [DOMAIN b -> DOMAIN t]
  BY <1>4
<1> HIDE DEF own
<1> QED
  BY <1>4, <1>5, <1>6 DEF InOrder

\* A concatenation ends with its second part.
LEMMA LastIsSuffix ==
    ASSUME NEW s \in Seq(Sent), NEW t \in Seq(Sent)
    PROVE  IsSuffix(s, t \o s)
<1> DEFINE r == Reverse(s)
           w == Reverse(t \o s)
<1>1. /\ r \in Seq(Sent) /\ Len(r) = Len(s)
      /\ \A k \in 1 .. Len(s) : r[k] = s[Len(s) - k + 1]
  BY DEF Reverse
<1>2. /\ w \in Seq(Sent) /\ Len(w) = Len(t) + Len(s)
      /\ \A k \in 1 .. Len(t) + Len(s) : w[k] = (t \o s)[Len(t) + Len(s) - k + 1]
  <2>1. t \o s \in Seq(Sent) /\ Len(t \o s) = Len(t) + Len(s)
    OBVIOUS
  <2> QED
    BY <2>1 DEF Reverse
<1>3. \A k \in 1 .. Len(s) : w[k] = r[k]
  BY <1>1, <1>2
<1> HIDE DEF r, w
<1>4. SubSeq(r, 1, Len(r)) = SubSeq(w, 1, Len(r))
  BY <1>1, <1>2, <1>3
<1>5. IsPrefix(r, w)
  BY <1>1, <1>2, <1>4 DEF IsPrefix
<1> QED
  BY <1>5 DEF IsSuffix, r, w

\* A buffer that was empty holds what is appended, and that is all that is read.
LEMMA AppendToEmpty ==
    ASSUME NEW S, NEW data \in Seq(S)
    PROVE  /\ AppendTo(EmptyBuffer, data) =
                  [bytes |-> data, readIndex |-> 0, writeIndex |-> Len(data)]
           /\ ReadAllAsString(AppendTo(EmptyBuffer, data)) = data
           /\ ReadableBytes(AppendTo(EmptyBuffer, data)) = Len(data)
<1>1. SubSeq(<< >>, 1, 0) \o data \o SubSeq(<< >>, 0 + Len(data) + 1, Len(<< >>)) = data
  <2>1. SubSeq(<< >>, 1, 0) = << >>
    OBVIOUS
  <2>2. SubSeq(<< >>, 0 + Len(data) + 1, Len(<< >>)) = << >>
    OBVIOUS
  <2>3. << >> \o data = data /\ data \o << >> = data
    OBVIOUS
  <2> QED
    BY <2>1, <2>2, <2>3
<1>2. AppendTo(EmptyBuffer, data) = [bytes |-> data, readIndex |-> 0, writeIndex |-> Len(data)]
  <2> DEFINE d == SubSeq(<< >>, 1, 0) \o data \o SubSeq(<< >>, 0 + Len(data) + 1, Len(<< >>))
  <2>1. AppendTo(EmptyBuffer, data) = [bytes |-> d, readIndex |-> 0, writeIndex |-> 0 + Len(data)]
    <3> HIDE DEF d
    <3>1. AppendTo(EmptyBuffer, data) =
            [EmptyBuffer EXCEPT !.bytes = d, !.writeIndex = @ + Len(data)]
      BY DEF AppendTo, EmptyBuffer, Behind, d
    <3> QED
      BY <3>1 DEF EmptyBuffer
  <2> HIDE DEF d
  <2>2. d = data /\ 0 + Len(data) = Len(data)
    BY <1>1 DEF d
  <2> QED
    BY <2>1, <2>2
<1>3. SubSeq(data, 0 + 1, Len(data)) = data
  OBVIOUS
<1> QED
  BY <1>2, <1>3 DEF ReadAllAsString, ReadableBytes

\* An order in which poll returns the ready descriptors lists each of them once.
LEMMA OrderOfReady ==
    ASSUME NEW S, IsFiniteSet(S), NEW s \in SetToSeqs(S)
    PROVE  /\ s \in Seq(S) /\ Len(s) = Cardinality(S)
           /\ \A k, l \in DOMAIN s : k # l => s[k] # s[l]
<1>1. Cardinality(S) \in Nat
  BY FS_CardinalityType
<1>2. /\ s \in [1 .. Cardinality(S) -> S]
      /\ \A k, l \in 1 .. Cardinality(S) : k # l => s[k] # s[l]
  BY DEF SetToSeqs
<1> QED
  BY <1>1, <1>2
-----------------------------------------------------------------------------
\* The reply that is being sent goes to client c.
SendingTo(c) == pc = "send" /\ fdOf[actionEvents[i].fd] = c

\* The Handler in whose _output that reply is.
Answering == handlerMap[actionEvents[i].fd]

\* Descriptors: each is the connection of an open client, and of no other; the
\* backlog holds clients that wait, each once.
FdInv ==
    /\ \A f \in Fds : fdOf[f] # NoClient => phase[fdOf[f]] = "open"
    /\ \A f, g \in Fds : f # g /\ fdOf[f] # NoClient => fdOf[f] # fdOf[g]
    /\ \A k \in DOMAIN backlog : phase[backlog[k]] = "queued"
    /\ \A k, l \in DOMAIN backlog : k # l => backlog[k] # backlog[l]

\* Handlers: epoll holds one for each open descriptor, the one in handlerMap.
HandlerInv ==
    /\ \A f \in Fds : fdOf[f] # NoClient <=> epoll[f] # 0
    /\ \A f \in {Listening} \cup Fds : epoll[f] \in {0, handlerMap[f]}
    /\ \A f, g \in {Listening} \cup Fds : f # g /\ epoll[f] # 0 => epoll[f] # epoll[g]
    /\ pc = "start" => epoll[Listening] = 0

Met == {c \in Clients : phase[c] \in {"open", "closed"}}

\* One Handler was made for the listening socket and one for each client that was met.
MadeInv == made = Cardinality(Met) + (IF epoll[Listening] = 0 THEN 0 ELSE 1)

\* The events of a round: of different descriptors, and live from i on.
EventInv ==
    /\ pc \in {"start", "poll"} => actionEvents = << >>
    /\ pc \in {"handle", "send"} =>
         /\ i \in DOMAIN actionEvents
         /\ \A k \in DOMAIN actionEvents : actionEvents[k].handler # 0
         /\ \A k, l \in DOMAIN actionEvents : k # l => actionEvents[k].fd # actionEvents[l].fd
    /\ pc = "send" => actionEvents[i].fd \in Fds
    /\ PendingEventsLive

\* The reply: the buffers are empty, but for the one in sendFd, and who is neither closed
\* nor being answered got nothing; in sendFd the buffer holds the vectors of all words,
\* those of this client last, ptr and left say how much of it is still to be sent, and
\* what is before ptr has been sent in order, whatever was sent besides.
ReplyInv ==
    /\ \A h \in Handlers : output[h] = EmptyBuffer \/ (pc = "send" /\ h = Answering)
    /\ \A c \in Clients : phase[c] # "closed" /\ ~SendingTo(c) =>
         stream[c] = << >> /\ asked[c] = << >> /\ refused[c] = 0
    /\ \A c \in Clients : SendingTo(c) =>
         /\ output[Answering].bytes = Vectors(words)
         /\ ptr + left = Len(output[Answering].bytes) /\ ptr >= -refused[c]
         /\ Laid(Vectors(words), ptr, stream[c])
         /\ refused[c] = 0 => stream[c] = SubSeq(Vectors(words), 1, ptr)
         /\ Len(asked[c]) = 1
         /\ \E before \in Seq(Tokens) : words = before \o asked[c][1]

Inv ==
    /\ TypeOK /\ FdInv /\ HandlerInv /\ MadeInv /\ EventInv /\ ReplyInv
    /\ NothingLeftOut

\* A step that closes nobody who asked, and adds nothing to what the closed were sent.
LEMMA ClosedStay ==
    ASSUME NothingLeftOut,
           \A c \in Clients : phase'[c] = "closed" /\ asked'[c] # << >> =>
               phase[c] = "closed" /\ asked'[c] = asked[c] /\ stream'[c] = stream[c]
    PROVE  NothingLeftOut'
<1> QED
  BY DEF NothingLeftOut

\* The beginning: no descriptor, no Handler, no event, no reply.
LEMMA InitHolds == Init => Inv
<1> SUFFICES ASSUME Init PROVE Inv
  OBVIOUS
<1> USE DEF Init, Listening
<1>1. Met = {} /\ IsFiniteSet(Clients)
  BY ReactorAssumption DEF Met
<1>2. Cardinality(Met) = 0 /\ Cardinality(Clients) \in Nat
  BY <1>1, FS_EmptySet, FS_CardinalityType
<1>3. TypeOK
  BY <1>2, ReactorAssumption DEF TypeOK, EmptyBuffer
<1>4. FdInv /\ HandlerInv /\ EventInv /\ ReplyInv
  BY DEF FdInv, HandlerInv, EventInv, ReplyInv, PendingEventsLive, SendingTo
<1>5. MadeInv
  BY <1>2 DEF MadeInv
<1>6. NothingLeftOut
  BY DEF NothingLeftOut
<1> QED
  BY <1>3, <1>4, <1>5, <1>6 DEF Inv

\* The clients that were met are finitely many, and all may be.
LEMMA MetIsFinite ==
    /\ IsFiniteSet(Clients) /\ Cardinality(Clients) \in Nat
    /\ IsFiniteSet(Met) /\ Cardinality(Met) \in Nat /\ Cardinality(Met) <= Cardinality(Clients)
<1>1. IsFiniteSet(Clients) /\ Met \in SUBSET Clients
  BY ReactorAssumption DEF Met
<1> QED
  BY <1>1, FS_Subset, FS_CardinalityType

\* So are those that will have been met after a step.
LEMMA MetIsFiniteNext ==
    Cardinality(Met') \in Nat /\ Cardinality(Met') <= Cardinality(Clients)
<1>1. IsFiniteSet(Clients) /\ Met' \in SUBSET Clients
  BY ReactorAssumption DEF Met
<1> QED
  BY <1>1, FS_Subset, FS_CardinalityType

\* The events are of descriptors, and of Handlers that were made.
LEMMA EventFds ==
    ASSUME TypeOK
    PROVE  \A k \in DOMAIN actionEvents : /\ actionEvents[k].fd \in {Listening} \cup Fds
                                          /\ actionEvents[k].handler \in 0 .. made
<1>1. actionEvents \in Seq(Events(made))
  BY DEF TypeOK
<1>2. \A k \in DOMAIN actionEvents : actionEvents[k] \in Events(made)
  BY <1>1
<1>3. \A e \in Events(made) : e.fd \in {Listening} \cup Fds /\ e.handler \in 0 .. made
  BY DEF Events
<1> QED
  BY <1>2, <1>3

\* A step that leaves the loop where it is and takes nothing away that is to be read
\* leaves the pending events live.
LEMMA EventsStay ==
    ASSUME EventInv, TypeOK, UNCHANGED <<pc, i, actionEvents, handlerMap, epoll>>,
           \A f \in {Listening} \cup Fds : Readable(f) => Readable(f)'
    PROVE  EventInv'
<1>1. \A k \in DOMAIN actionEvents : actionEvents[k].fd \in {Listening} \cup Fds
  BY EventFds
<1>2. PendingEventsLive'
  BY <1>1 DEF EventInv, PendingEventsLive
<1> QED
  BY <1>2 DEF EventInv

\* The loop goes on to the next event: it is live if the call that ends now left the
\* Handlers and the input of the events behind it alone.
LEMMA NextEventKeeps ==
    ASSUME EventInv, TypeOK, pc \in {"handle", "send"}, NextEvent,
           \A k \in DOMAIN actionEvents, g \in {Listening} \cup Fds :
               k > i /\ g = actionEvents[k].fd =>
                   handlerMap'[g] = handlerMap[g] /\ epoll'[g] = epoll[g] /\ Readable(g)'
    PROVE  EventInv'
<1>1. i \in Nat /\ i \in DOMAIN actionEvents /\ DOMAIN actionEvents = 1 .. Len(actionEvents)
  BY DEF TypeOK, EventInv
<1>2. CASE i < Len(actionEvents)
  <2>1. pc' = "handle" /\ i' = i + 1 /\ actionEvents' = actionEvents
    BY <1>2 DEF NextEvent
  <2>2. i + 1 \in DOMAIN actionEvents /\ \A k \in DOMAIN actionEvents : k >= i + 1 => k > i /\ k >= i
    BY <1>1, <1>2
  <2>3. PendingEventsLive'
    <3> SUFFICES ASSUME NEW k \in DOMAIN actionEvents, k >= i + 1
                 PROVE  LET e == actionEvents[k] IN
                        handlerMap'[e.fd] = e.handler /\ epoll'[e.fd] = e.handler /\ Readable(e.fd)'
      BY <2>1 DEF PendingEventsLive
    <3>1. PICK g \in {Listening} \cup Fds : g = actionEvents[k].fd
      BY EventFds
    <3>2. k > i /\ k >= i
      BY <2>2
    <3>3. handlerMap'[g] = handlerMap[g] /\ epoll'[g] = epoll[g] /\ Readable(g)'
      BY <3>1, <3>2
    <3>4. handlerMap[g] = actionEvents[k].handler /\ epoll[g] = actionEvents[k].handler
      BY <3>1, <3>2 DEF EventInv, PendingEventsLive
    <3>5. actionEvents'[k].fd = g
      BY <2>1, <3>1
    <3>6. Readable(actionEvents[k].fd)'
      BY <3>3, <3>5 DEF Readable
    <3> QED
      BY <3>1, <3>3, <3>4, <3>6
  <2> QED
    BY <2>1, <2>2, <2>3 DEF EventInv
<1>3. CASE ~(i < Len(actionEvents))
  <2>1. pc' = "poll" /\ actionEvents' = << >>
    BY <1>3 DEF NextEvent, ClearedEvents
  <2> QED
    BY <2>1 DEF EventInv, PendingEventsLive
<1> QED
  BY <1>2, <1>3

\* The variables of the loop keep their types.
LEMMA NextEventType ==
    ASSUME TypeOK, NextEvent, made' \in Nat, made <= made'
    PROVE  /\ pc' \in {"handle", "poll"} /\ i' \in Nat
           /\ actionEvents' \in Seq(Events(made'))
<1>1. i \in Nat /\ made \in Nat /\ actionEvents \in Seq(Events(made))
  BY MetIsFinite DEF TypeOK
<1>2. Events(made) \subseteq Events(made')
  <2>1. 0 .. made \subseteq 0 .. made'
    BY <1>1
  <2> QED
    BY <2>1 DEF Events
<1>3. PICK E : E = Events(made')
  OBVIOUS
<1>4. actionEvents \in Seq(E)
  BY <1>1, <1>2, <1>3
<1>5. << >> \in Seq(E)
  OBVIOUS
<1>6. actionEvents' \in Seq(E)
  BY <1>4, <1>5 DEF NextEvent, ClearedEvents
<1> QED
  BY <1>1, <1>3, <1>6 DEF NextEvent
-----------------------------------------------------------------------------
\* What a client does keeps the invariant: the reply and the loop are not touched.
LEMMA ConnectKeeps ==
    ASSUME Inv, NEW c \in Clients, Connect(c), UNCHANGED <<serverVars, replyVars>>
    PROVE  Inv'
<1>1. /\ phase[c] = "new" /\ phase' = [phase EXCEPT ![c] = "queued"]
      /\ backlog' = Append(backlog, c)
      /\ UNCHANGED <<peer, toSend, inbox, queued, stream>>
      /\ UNCHANGED <<serverVars, replyVars>>
  BY DEF Connect
<1>2. TypeOK /\ FdInv /\ HandlerInv /\ MadeInv /\ EventInv /\ ReplyInv /\ NothingLeftOut
  BY DEF Inv
<1>3. backlog \in Seq(Clients) /\ phase \in [Clients -> {"new", "queued", "open", "closed"}]
  BY <1>2 DEF TypeOK
<1>4. /\ backlog' \in Seq(Clients)
      /\ phase' \in [Clients -> {"new", "queued", "open", "closed"}]
  BY <1>1, <1>3
<1>5. TypeOK'
  BY <1>1, <1>2, <1>4 DEF TypeOK, serverVars, replyVars
<1>6. FdInv'
  <2>1. /\ Len(backlog') = Len(backlog) + 1 /\ Len(backlog) \in Nat
        /\ \A k \in 1 .. Len(backlog) : backlog'[k] = backlog[k]
        /\ backlog'[Len(backlog) + 1] = c
    BY <1>1, <1>3
  <2>2. DOMAIN backlog' = 1 .. Len(backlog) + 1 /\ DOMAIN backlog = 1 .. Len(backlog)
    BY <1>3, <1>4, <2>1
  <2>3. \A k \in DOMAIN backlog : phase[backlog[k]] = "queued" /\ backlog[k] # c /\ backlog[k] \in Clients
    BY <1>1, <1>2, <1>3 DEF FdInv
  <2>4. \A k \in DOMAIN backlog' : phase'[backlog'[k]] = "queued"
    BY <1>1, <1>3, <2>1, <2>2, <2>3
  <2>5. \A k, l \in DOMAIN backlog' : k # l => backlog'[k] # backlog'[l]
    BY <1>2, <2>1, <2>2, <2>3 DEF FdInv
  <2>6. \A f \in Fds : fdOf[f] # NoClient => phase[fdOf[f]] = "open" /\ fdOf[f] \in Clients
    BY <1>2 DEF FdInv, TypeOK
  <2>7. \A f \in Fds : fdOf[f] # NoClient => phase'[fdOf[f]] = "open"
    BY <1>1, <1>3, <2>6
  <2> QED
    BY <1>1, <1>2, <2>4, <2>5, <2>7 DEF FdInv, serverVars
<1>7. HandlerInv'
  BY <1>1, <1>2 DEF HandlerInv, serverVars
<1>8. MadeInv'
  <2>1. Met' = Met
    BY <1>1, <1>3 DEF Met
  <2> QED
    BY <1>1, <1>2, <2>1 DEF MadeInv, serverVars
<1>9. EventInv'
  <2>1. backlog' # << >>
    BY <1>1, <1>3
  <2>2. \A f \in {Listening} \cup Fds : Readable(f) => Readable(f)'
    BY <1>1, <2>1 DEF Readable, serverVars
  <2> QED
    BY <1>1, <1>2, <2>2, EventsStay DEF serverVars
<1>10. ReplyInv'
  <2>1. \A d \in Clients : /\ phase'[d] # "closed" => phase[d] # "closed"
                           /\ SendingTo(d)' <=> SendingTo(d)
    BY <1>1, <1>3 DEF SendingTo, serverVars
  <2> QED
    BY <1>1, <1>2, <2>1 DEF ReplyInv, Answering, serverVars, replyVars
<1>11. NothingLeftOut'
  BY <1>1, <1>2, <1>3, ClosedStay DEF replyVars
<1> QED
  BY <1>5, <1>6, <1>7, <1>8, <1>9, <1>10, <1>11 DEF Inv

\* Segments that arrive, clients that leave, and clients that read change neither the
\* phase of a connection nor what it was sent.
LEMMA TrafficKeeps ==
    ASSUME Inv, TypeOK', UNCHANGED <<phase, stream, backlog, serverVars, replyVars>>,
           \A f \in {Listening} \cup Fds : Readable(f) => Readable(f)'
    PROVE  Inv'
<1>2. TypeOK /\ FdInv /\ HandlerInv /\ MadeInv /\ EventInv /\ ReplyInv /\ NothingLeftOut
  BY DEF Inv
<1>3. FdInv' /\ HandlerInv'
  BY <1>2 DEF FdInv, HandlerInv, serverVars
<1>4. MadeInv'
  BY <1>2 DEF MadeInv, Met, serverVars
<1>5. EventInv'
  BY <1>2, EventsStay DEF serverVars
<1>6. ReplyInv'
  <2>1. \A d \in Clients : SendingTo(d)' <=> SendingTo(d)
    BY DEF SendingTo, serverVars
  <2> QED
    BY <1>2, <2>1 DEF ReplyInv, Answering, serverVars, replyVars
<1>7. NothingLeftOut'
  BY <1>2, ClosedStay DEF replyVars
<1> QED
  BY <1>3, <1>4, <1>5, <1>6, <1>7 DEF Inv

LEMMA SendSegmentKeeps ==
    ASSUME Inv, NEW c \in Clients, SendSegment(c), UNCHANGED <<serverVars, replyVars>>
    PROVE  Inv'
<1>1. /\ toSend[c] # << >> /\ inbox' = [inbox EXCEPT ![c] = @ \o Head(toSend[c])]
      /\ toSend' = [toSend EXCEPT ![c] = Tail(@)]
      /\ UNCHANGED <<phase, peer, queued, stream, backlog, serverVars, replyVars>>
  BY DEF SendSegment
<1>2. TypeOK /\ toSend \in [Clients -> Seq(Seq(Tokens))] /\ inbox \in [Clients -> Seq(Tokens)]
  BY DEF Inv, TypeOK
<1>3. PICK old \in Seq(Tokens) : old = inbox[c]
  BY <1>2
<1>4. PICK rest \in Seq(Seq(Tokens)) : rest = toSend[c]
  BY <1>2
<1>5. Head(rest) \in Seq(Tokens) /\ Tail(rest) \in Seq(Seq(Tokens))
  BY <1>1, <1>4
<1>6. PICK seg \in Seq(Tokens) : seg = Head(rest)
  BY <1>5
<1>7. old \o seg \in Seq(Tokens) /\ (old # << >> => old \o seg # << >>)
  OBVIOUS
<1>8. inbox' = [inbox EXCEPT ![c] = old \o seg] /\ toSend' = [toSend EXCEPT ![c] = Tail(rest)]
  BY <1>1, <1>3, <1>4, <1>6
<1>9. toSend' \in [Clients -> Seq(Seq(Tokens))] /\ inbox' \in [Clients -> Seq(Tokens)]
  BY <1>2, <1>5, <1>7, <1>8
<1>10. TypeOK'
  BY <1>1, <1>2, <1>9 DEF TypeOK, serverVars, replyVars
<1>11. \A d \in Clients : inbox[d] # << >> => inbox'[d] # << >>
  BY <1>2, <1>3, <1>7, <1>8
<1>12. \A f \in {Listening} \cup Fds : Readable(f) => Readable(f)'
  <2>1. \A f \in Fds : fdOf[f] \in Clients \cup {NoClient}
    BY <1>2 DEF TypeOK
  <2> QED
    BY <1>1, <1>11, <2>1 DEF Readable, serverVars
<1> QED
  BY <1>1, <1>10, <1>12, TrafficKeeps

LEMMA LeaveKeeps ==
    ASSUME Inv, NEW c \in Clients, Leave(c), UNCHANGED <<serverVars, replyVars>>
    PROVE  Inv'
<1>1. PICK p \in Faults[c] : peer' = [peer EXCEPT ![c] = p]
  BY DEF Leave
<1>2. UNCHANGED <<phase, toSend, inbox, queued, stream, backlog, serverVars, replyVars>>
  BY DEF Leave
<1>3. p \in {"shut", "reset"}
  BY <1>1, ReactorAssumption
<1>4. TypeOK /\ peer \in [Clients -> {"alive", "shut", "reset"}]
  BY DEF Inv, TypeOK
<1>5. TypeOK'
  BY <1>1, <1>2, <1>3, <1>4 DEF TypeOK, serverVars, replyVars
<1>6. \A d \in Clients : peer[d] # "alive" => peer'[d] # "alive"
  BY <1>1, <1>3, <1>4
<1>7. \A f \in {Listening} \cup Fds : Readable(f) => Readable(f)'
  <2>1. \A f \in Fds : fdOf[f] \in Clients \cup {NoClient}
    BY <1>4 DEF TypeOK
  <2> QED
    BY <1>2, <1>6, <2>1 DEF Readable, serverVars
<1> QED
  BY <1>2, <1>5, <1>7, TrafficKeeps

LEMMA DrainKeeps ==
    ASSUME Inv, NEW c \in Clients, Drain(c), UNCHANGED <<serverVars, replyVars>>
    PROVE  Inv'
<1>1. /\ queued' = [queued EXCEPT ![c] = 0]
      /\ UNCHANGED <<phase, peer, toSend, inbox, stream, backlog, serverVars, replyVars>>
  BY DEF Drain
<1>2. TypeOK /\ queued \in [Clients -> 0 .. Room] /\ 0 \in 0 .. Room
  <2>1. 0 \in 0 .. Room
    BY ReactorAssumption
  <2> QED
    BY <2>1 DEF Inv, TypeOK
<1>3. queued' \in [Clients -> 0 .. Room]
  BY <1>1, <1>2
<1>4. TypeOK'
  BY <1>1, <1>2, <1>3 DEF TypeOK, serverVars, replyVars
<1>5. \A f \in {Listening} \cup Fds : Readable(f) => Readable(f)'
  BY <1>1 DEF Readable, serverVars
<1> QED
  BY <1>1, <1>4, <1>5, TrafficKeeps
-----------------------------------------------------------------------------
\* The end of the process touches nothing else.
LEMMA ExitKeeps ==
    ASSUME Inv, pc # "send", Exit,
           UNCHANGED <<clientVars, fdOf, epoll, handlerMap, made, replyVars>>
    PROVE  Inv'
<1>1. /\ pc' = "exit"
      /\ UNCHANGED <<actionEvents, i, phase, peer, toSend, inbox, queued, stream, backlog>>
      /\ UNCHANGED <<fdOf, epoll, handlerMap, made, words, output, ptr, left, asked, refused>>
  BY DEF Exit, clientVars, replyVars
<1>2. TypeOK /\ FdInv /\ HandlerInv /\ MadeInv /\ ReplyInv /\ NothingLeftOut
  BY DEF Inv
<1>3. TypeOK'
  BY <1>1, <1>2 DEF TypeOK
<1>4. FdInv' /\ HandlerInv'
  BY <1>1, <1>2 DEF FdInv, HandlerInv
<1>5. MadeInv'
  BY <1>1, <1>2 DEF MadeInv, Met
<1>6. EventInv'
  BY <1>1 DEF EventInv, PendingEventsLive
<1>7. ReplyInv'
  <2>1. \A c \in Clients : ~SendingTo(c) /\ ~SendingTo(c)'
    BY <1>1 DEF SendingTo
  <2> QED
    BY <1>1, <1>2, <2>1 DEF ReplyInv, Answering
<1>8. NothingLeftOut'
  BY <1>1, <1>2, ClosedStay
<1> QED
  BY <1>3, <1>4, <1>5, <1>6, <1>7, <1>8 DEF Inv

\* The Handler of the listening socket.
LEMMA StartKeeps ==
    ASSUME Inv, Start
    PROVE  Inv'
<1>1. /\ pc = "start" /\ pc' = "poll" /\ made' = made + 1
      /\ handlerMap' = [handlerMap EXCEPT ![Listening] = made + 1]
      /\ epoll' = [epoll EXCEPT ![Listening] = made + 1]
  BY DEF Start, Install
<1>2. /\ UNCHANGED <<actionEvents, i, phase, peer, toSend, inbox, queued, stream, backlog>>
      /\ UNCHANGED <<fdOf, words, output, ptr, left, asked, refused>>
  BY DEF Start, clientVars, replyVars
<1>3. TypeOK /\ FdInv /\ HandlerInv /\ MadeInv /\ EventInv /\ ReplyInv /\ NothingLeftOut
  BY DEF Inv
<1>4. /\ epoll \in [{Listening} \cup Fds -> 0 .. made]
      /\ handlerMap \in [{Listening} \cup Fds -> 0 .. made]
  BY <1>3 DEF TypeOK
<1>5. epoll[Listening] = 0 /\ made \in Nat
  BY <1>1, <1>3, MetIsFinite DEF HandlerInv, TypeOK
<1>6. MadeInv'
  <2>1. Met' = Met
    BY <1>2 DEF Met
  <2>2. epoll'[Listening] # 0
    BY <1>1, <1>4, <1>5
  <2> QED
    BY <1>1, <1>3, <1>5, <2>1, <2>2, MetIsFinite DEF MadeInv
<1>7. made' \in 0 .. 1 + Cardinality(Clients)
  BY <1>6, MetIsFinite, MetIsFiniteNext DEF MadeInv
<1>8. /\ epoll' \in [{Listening} \cup Fds -> 0 .. made']
      /\ handlerMap' \in [{Listening} \cup Fds -> 0 .. made']
  BY <1>1, <1>4, <1>5
<1>9. actionEvents = << >> /\ actionEvents' \in Seq(Events(made'))
  BY <1>1, <1>2, <1>3 DEF EventInv
<1>10. TypeOK'
  BY <1>1, <1>2, <1>3, <1>7, <1>8, <1>9 DEF TypeOK
<1>11. FdInv'
  BY <1>2, <1>3 DEF FdInv
<1>12. HandlerInv'
  <2>1. Listening \notin Fds
    BY DEF Listening, Fds
  <2>2. /\ epoll'[Listening] = made + 1 /\ handlerMap'[Listening] = made + 1
        /\ \A f \in Fds : epoll'[f] = epoll[f] /\ handlerMap'[f] = handlerMap[f]
        /\ \A f \in Fds : epoll[f] # made + 1 /\ epoll[f] \in Nat
    BY <1>1, <1>4, <1>5, <2>1
  <2> QED
    BY <1>1, <1>2, <1>3, <2>1, <2>2 DEF HandlerInv
<1>13. EventInv'
  BY <1>1, <1>2, <1>9 DEF EventInv, PendingEventsLive
<1>14. ReplyInv'
  <2>1. \A c \in Clients : ~SendingTo(c) /\ ~SendingTo(c)'
    BY <1>1 DEF SendingTo
  <2> QED
    BY <1>1, <1>2, <1>3, <2>1 DEF ReplyInv, Answering
<1>15. NothingLeftOut'
  BY <1>2, <1>3, ClosedStay
<1> QED
  BY <1>6, <1>10, <1>11, <1>12, <1>13, <1>14, <1>15 DEF Inv

\* poll collects live Handlers, of different descriptors.
LEMMA PollKeeps ==
    ASSUME Inv, Poll
    PROVE  Inv'
<1>1. PICK s \in Collected : actionEvents' = actionEvents \o s
  BY DEF Poll
<1>2. /\ pc = "poll" /\ Ready # {} /\ pc' = "handle" /\ i' = 1
      /\ UNCHANGED <<phase, peer, toSend, inbox, queued, stream, backlog>>
      /\ UNCHANGED <<fdOf, epoll, handlerMap, made, words, output, ptr, left, asked, refused>>
  BY DEF Poll, clientVars, replyVars
<1>3. TypeOK /\ FdInv /\ HandlerInv /\ MadeInv /\ EventInv /\ ReplyInv /\ NothingLeftOut
  BY DEF Inv
<1>4. epoll \in [{Listening} \cup Fds -> 0 .. made] /\ made \in Nat
  BY <1>3, MetIsFinite DEF TypeOK
<1>5. Ready \in SUBSET ({Listening} \cup Fds) /\ IsFiniteSet(Ready)
  <2>1. 1 \in Int /\ MaxFd \in Int /\ Fds = 1 .. MaxFd
    BY ReactorAssumption DEF Fds
  <2>2. IsFiniteSet(Fds \cup {Listening})
    BY <2>1, FS_Interval, FS_AddElement
  <2>3. Ready \in SUBSET (Fds \cup {Listening})
    BY <1>4 DEF Ready
  <2> QED
    BY <2>2, <2>3, FS_Subset
<1>6. PICK t \in SetToSeqs(Ready) :
        s = [k \in DOMAIN t |-> [fd |-> t[k], handler |-> epoll[t[k]]]]
  BY <1>1 DEF Collected
<1>7. /\ t \in Seq(Ready) /\ Len(t) = Cardinality(Ready)
      /\ \A k, l \in DOMAIN t : k # l => t[k] # t[l]
  BY <1>5, OrderOfReady
<1>8. Len(t) \in Nat /\ Len(t) # 0 /\ DOMAIN t = 1 .. Len(t)
  BY <1>2, <1>5, <1>7, FS_EmptySet, FS_CardinalityType
<1>9. \A k \in DOMAIN t : /\ t[k] \in {Listening} \cup Fds /\ epoll[t[k]] # 0
                          /\ Readable(t[k]) /\ epoll[t[k]] \in 0 .. made
  <2>1. \A k \in DOMAIN t : t[k] \in Ready
    BY <1>7
  <2> QED
    BY <1>4, <1>5, <2>1 DEF Ready
<1>10. PICK E : E = Events(made)
  OBVIOUS
<1>11. s \in Seq(E)
  <2>1. \A k \in DOMAIN t : [fd |-> t[k], handler |-> epoll[t[k]]] \in E
    BY <1>9, <1>10 DEF Events
  <2> QED
    BY <1>6, <1>8, <2>1
<1>12. actionEvents' = s
  BY <1>1, <1>2, <1>3, <1>11 DEF EventInv
<1>13. /\ DOMAIN actionEvents' = DOMAIN t
       /\ \A k \in DOMAIN t : /\ actionEvents'[k].fd = t[k]
                              /\ actionEvents'[k].handler = epoll[t[k]]
  BY <1>6, <1>12
<1>14. actionEvents' \in Seq(Events(made')) /\ made' = made
  BY <1>2, <1>10, <1>11, <1>12
<1>15. TypeOK'
  BY <1>2, <1>3, <1>14 DEF TypeOK
<1>16. FdInv' /\ HandlerInv'
  BY <1>2, <1>3 DEF FdInv, HandlerInv
<1>17. MadeInv'
  BY <1>2, <1>3 DEF MadeInv, Met
<1>18. EventInv'
  <2>1. \A k \in DOMAIN t : Readable(t[k])'
    BY <1>2, <1>9 DEF Readable
  <2>2. \A k \in DOMAIN t : handlerMap[t[k]] = epoll[t[k]]
    BY <1>3, <1>9 DEF HandlerInv
  <2>3. PendingEventsLive'
    BY <1>2, <1>13, <2>1, <2>2 DEF PendingEventsLive
  <2>4. i' \in DOMAIN t
    BY <1>2, <1>8
  <2>5. \A k \in DOMAIN t : actionEvents'[k].handler # 0
    BY <1>9, <1>13
  <2>6. \A k, l \in DOMAIN t : k # l => actionEvents'[k].fd # actionEvents'[l].fd
    BY <1>7, <1>13
  <2> QED
    BY <1>2, <1>13, <2>3, <2>4, <2>5, <2>6 DEF EventInv
<1>19. ReplyInv'
  <2>1. \A c \in Clients : ~SendingTo(c) /\ ~SendingTo(c)'
    BY <1>2 DEF SendingTo
  <2> QED
    BY <1>2, <1>3, <2>1 DEF ReplyInv, Answering
<1>20. NothingLeftOut'
  BY <1>2, <1>3, ClosedStay
<1> QED
  BY <1>15, <1>16, <1>17, <1>18, <1>19, <1>20 DEF Inv
-----------------------------------------------------------------------------
\* What the descriptor of the event that is being handled is.
LEMMA CurrentEvent ==
    ASSUME Inv, pc \in {"handle", "send"}
    PROVE  LET f == actionEvents[i].fd IN
           /\ i \in DOMAIN actionEvents /\ f \in {Listening} \cup Fds
           /\ epoll[f] # 0 /\ epoll[f] = handlerMap[f] /\ handlerMap[f] \in Handlers
           /\ \A k \in DOMAIN actionEvents : k > i => actionEvents[k].fd # f
           /\ f \in Fds => /\ fdOf[f] \in Clients /\ phase[fdOf[f]] = "open"
                           /\ \A g \in Fds : g # f => fdOf[g] # fdOf[f]
<1> DEFINE f == actionEvents[i].fd
<1>1. TypeOK /\ FdInv /\ HandlerInv /\ EventInv
  BY DEF Inv
<1>2. i \in DOMAIN actionEvents /\ i \in Nat
  BY <1>1 DEF EventInv, TypeOK
<1>3. f \in {Listening} \cup Fds
  BY <1>1, <1>2, EventFds
<1>4. /\ handlerMap[f] = actionEvents[i].handler /\ epoll[f] = actionEvents[i].handler
      /\ actionEvents[i].handler # 0
  BY <1>1, <1>2 DEF EventInv, PendingEventsLive
<1>5. \A k \in DOMAIN actionEvents : k > i => actionEvents[k].fd # f
  BY <1>1, <1>2 DEF EventInv
<1>7. handlerMap[f] \in Handlers
  <2>1. handlerMap[f] \in 0 .. made /\ made \in Nat /\ made <= 1 + Cardinality(Clients)
    BY <1>1, <1>3, MetIsFinite DEF TypeOK
  <2>2. handlerMap[f] # 0
    BY <1>4
  <2> HIDE DEF f
  <2> QED
    BY <2>1, <2>2, MetIsFinite DEF Handlers
<1>6. ASSUME f \in Fds
      PROVE  /\ fdOf[f] \in Clients /\ phase[fdOf[f]] = "open"
             /\ \A g \in Fds : g # f => fdOf[g] # fdOf[f]
  <2>1. fdOf[f] # NoClient
    BY <1>1, <1>4, <1>6 DEF HandlerInv
  <2>2. fdOf \in [Fds -> Clients \cup {NoClient}]
    BY <1>1 DEF TypeOK
  <2> HIDE DEF f
  <2> QED
    BY <1>1, <1>6, <2>1, <2>2 DEF FdInv
<1> QED
  BY <1>2, <1>3, <1>4, <1>5, <1>6, <1>7

\* A descriptor that is free when a connection is accepted has no pending event, so a
\* Handler that is replaced is not one that a pointer leads to.
LEMMA NewConnKeeps ==
    ASSUME Inv, NewConn
    PROVE  Inv'
<1> DEFINE f == Min(FreeFds)
           c == Head(backlog)
<1>1. /\ pc = "handle" /\ actionEvents[i].fd = Listening /\ FreeFds # {}
      /\ fdOf' = [fdOf EXCEPT ![f] = c] /\ made' = made + 1
      /\ handlerMap' = [handlerMap EXCEPT ![f] = made + 1]
      /\ epoll' = [epoll EXCEPT ![f] = made + 1]
      /\ phase' = [phase EXCEPT ![c] = "open"] /\ backlog' = Tail(backlog)
      /\ NextEvent
  BY DEF NewConn, Handling, Install
<1>2. /\ UNCHANGED <<peer, toSend, inbox, queued, stream>>
      /\ UNCHANGED <<words, output, ptr, left, asked, refused>>
  BY DEF NewConn, replyVars
<1>3. TypeOK /\ FdInv /\ HandlerInv /\ MadeInv /\ EventInv /\ ReplyInv /\ NothingLeftOut
  BY DEF Inv
<1>4. f \in Fds /\ fdOf[f] = NoClient
  <2>1. FreeFds \in SUBSET Nat /\ FreeFds \in SUBSET (1 .. MaxFd)
    BY ReactorAssumption DEF FreeFds, Fds
  <2>2. 1 \in Int /\ MaxFd \in Int
    BY ReactorAssumption
  <2>3. IsFiniteSet(FreeFds)
    BY <2>1, <2>2, FS_Interval, FS_Subset
  <2>4. f \in FreeFds
    BY <1>1, <2>1, <2>3, LeastIsMember
  <2> HIDE DEF f
  <2> QED
    BY <2>4 DEF FreeFds
<1> HIDE DEF f
<1>5. /\ backlog \in Seq(Clients) /\ fdOf \in [Fds -> Clients \cup {NoClient}]
      /\ phase \in [Clients -> {"new", "queued", "open", "closed"}]
      /\ epoll \in [{Listening} \cup Fds -> 0 .. made]
      /\ handlerMap \in [{Listening} \cup Fds -> 0 .. made] /\ made \in Nat
  BY <1>3, MetIsFinite DEF TypeOK
<1>6. backlog # << >>
  <2>1. i \in DOMAIN actionEvents /\ i \in Nat
    BY <1>1, <1>3 DEF EventInv, TypeOK
  <2>2. Readable(actionEvents[i].fd)
    BY <1>1, <1>3, <2>1 DEF EventInv, PendingEventsLive
  <2> QED
    BY <1>1, <2>2 DEF Readable
<1>7. c \in Clients /\ phase[c] = "queued" /\ backlog' \in Seq(Clients)
  <2>1. 1 \in DOMAIN backlog /\ c = backlog[1]
    BY <1>5, <1>6
  <2> QED
    BY <1>1, <1>3, <1>5, <1>6, <2>1 DEF FdInv
<1>8. \A d \in Clients : phase[d] = "open" => d # c
  BY <1>7
<1>9. /\ Len(backlog') = Len(backlog) - 1 /\ Len(backlog) \in Nat \ {0}
      /\ \A k \in 1 .. Len(backlog) - 1 : backlog'[k] = backlog[k + 1]
      /\ DOMAIN backlog = 1 .. Len(backlog) /\ DOMAIN backlog' = 1 .. Len(backlog) - 1
  BY <1>1, <1>5, <1>6, <1>7
<1>10. \A k \in DOMAIN backlog' : backlog'[k] # c /\ backlog'[k] \in Clients /\ phase[backlog'[k]] = "queued"
  <2>1. c = backlog[1] /\ 1 \in DOMAIN backlog
    BY <1>5, <1>6
  <2>2. \A k \in DOMAIN backlog' : k + 1 \in DOMAIN backlog /\ k + 1 # 1 /\ backlog'[k] = backlog[k + 1]
    BY <1>9
  <2>3. \A k \in DOMAIN backlog : backlog[k] \in Clients
    BY <1>5
  <2> HIDE DEF c
  <2> QED
    BY <1>3, <2>1, <2>2, <2>3 DEF FdInv
<1> HIDE DEF c
<1>11. FdInv'
  <2>1. \A g \in Fds : fdOf[g] # NoClient => fdOf[g] \in Clients /\ fdOf[g] # c
    BY <1>3, <1>5, <1>7 DEF FdInv
  <2>2. \A g \in Fds : fdOf'[g] = IF g = f THEN c ELSE fdOf[g]
    BY <1>1, <1>5
  <2>3. \A g \in Fds : fdOf'[g] # NoClient => phase'[fdOf'[g]] = "open"
    BY <1>1, <1>3, <1>5, <1>7, <2>1, <2>2 DEF FdInv
  <2>4. \A g, h \in Fds : g # h /\ fdOf'[g] # NoClient => fdOf'[g] # fdOf'[h]
    <3>1. c # NoClient
      BY <1>7, ReactorAssumption
    <3>2. \A g, h \in Fds : g # h /\ fdOf[g] # NoClient => fdOf[g] # fdOf[h]
      BY <1>3 DEF FdInv
    <3> QED
      BY <2>1, <2>2, <3>1, <3>2
  <2>5. \A k \in DOMAIN backlog' : phase'[backlog'[k]] = "queued"
    BY <1>1, <1>5, <1>10
  <2>6. \A k, l \in DOMAIN backlog' : k # l => backlog'[k] # backlog'[l]
    <3> SUFFICES ASSUME NEW k \in DOMAIN backlog', NEW l \in DOMAIN backlog', k # l
                 PROVE  backlog'[k] # backlog'[l]
      OBVIOUS
    <3>1. k + 1 \in DOMAIN backlog /\ l + 1 \in DOMAIN backlog /\ k + 1 # l + 1
      BY <1>9
    <3>2. backlog'[k] = backlog[k + 1] /\ backlog'[l] = backlog[l + 1]
      BY <1>9
    <3> QED
      BY <1>3, <3>1, <3>2 DEF FdInv
  <2> QED
    BY <2>3, <2>4, <2>5, <2>6 DEF FdInv
<1>12. /\ Listening \notin Fds
       /\ epoll'[f] = made + 1 /\ handlerMap'[f] = made + 1
       /\ \A g \in {Listening} \cup Fds : epoll[g] # made + 1 /\ epoll[g] \in Nat
       /\ \A g \in {Listening} \cup Fds : g # f => epoll'[g] = epoll[g] /\ handlerMap'[g] = handlerMap[g]
  BY <1>1, <1>4, <1>5 DEF Listening, Fds
<1>13. HandlerInv'
  <2>1. c # NoClient
    BY <1>7, ReactorAssumption
  <2>2. \A g \in Fds : fdOf'[g] = IF g = f THEN c ELSE fdOf[g]
    BY <1>1, <1>5
  <2>3. pc' # "start"
    BY <1>1 DEF NextEvent
  <2>4. made + 1 # 0
    BY <1>5
  <2>5. \A g \in Fds : fdOf'[g] # NoClient <=> epoll'[g] # 0
    BY <1>3, <1>4, <1>12, <2>1, <2>2, <2>4 DEF HandlerInv
  <2>6. \A g \in {Listening} \cup Fds : epoll'[g] \in {0, handlerMap'[g]}
    BY <1>3, <1>12 DEF HandlerInv
  <2>7. \A g, h \in {Listening} \cup Fds : g # h /\ epoll'[g] # 0 => epoll'[g] # epoll'[h]
    BY <1>3, <1>12 DEF HandlerInv
  <2> QED
    BY <2>3, <2>5, <2>6, <2>7 DEF HandlerInv
<1>14. MadeInv'
  <2>1. c \notin Met /\ Met' = Met \cup {c}
    BY <1>1, <1>5, <1>7 DEF Met
  <2>2. Cardinality(Met') = Cardinality(Met) + 1
    BY <2>1, MetIsFinite, FS_AddElement
  <2>3. epoll'[Listening] = epoll[Listening]
    BY <1>4, <1>12
  <2> QED
    BY <1>1, <1>3, <2>2, <2>3, MetIsFinite DEF MadeInv
<1>15. made' \in 0 .. 1 + Cardinality(Clients) /\ made' \in Nat /\ made <= made'
  <2>1. made' \in Nat /\ made <= made'
    BY <1>1, <1>5
  <2>2. made' <= 1 + Cardinality(Clients)
    BY <1>14, <2>1, MetIsFinite, MetIsFiniteNext DEF MadeInv
  <2> QED
    BY <2>1, <2>2, MetIsFinite
<1>16. TypeOK'
  <2>1. /\ pc' \in {"handle", "poll"} /\ i' \in Nat /\ actionEvents' \in Seq(Events(made'))
    BY <1>1, <1>3, <1>15, NextEventType
  <2>2. /\ epoll' \in [{Listening} \cup Fds -> 0 .. made']
        /\ handlerMap' \in [{Listening} \cup Fds -> 0 .. made']
        /\ fdOf' \in [Fds -> Clients \cup {NoClient}]
        /\ phase' \in [Clients -> {"new", "queued", "open", "closed"}]
    BY <1>1, <1>4, <1>5, <1>7
  <2> QED
    BY <1>2, <1>3, <1>7, <1>15, <2>1, <2>2 DEF TypeOK
<1>17. EventInv'
  <2>1. ASSUME NEW k \in DOMAIN actionEvents, NEW g \in {Listening} \cup Fds,
               k > i, g = actionEvents[k].fd
        PROVE  handlerMap'[g] = handlerMap[g] /\ epoll'[g] = epoll[g] /\ Readable(g)'
    <3>0. i \in Nat /\ k \in Nat
      BY <1>3 DEF TypeOK
    <3>1. /\ epoll[g] = actionEvents[k].handler
          /\ actionEvents[k].handler # 0 /\ Readable(g)
      BY <1>1, <1>3, <2>1, <3>0 DEF EventInv, PendingEventsLive
    <3>2. g # Listening
      BY <1>1, <2>1, CurrentEvent
    <3>3. g \in Fds /\ g # f
      BY <1>3, <1>4, <3>1, <3>2 DEF HandlerInv
    <3>4. fdOf'[g] = fdOf[g]
      BY <1>1, <1>5, <3>3
    <3>5. Readable(g)'
      BY <1>2, <3>1, <3>2, <3>4 DEF Readable
    <3> QED
      BY <1>12, <3>3, <3>5
  <2>2. pc \in {"handle", "send"}
    BY <1>1
  <2> QED
    BY <1>1, <1>3, <2>1, <2>2, NextEventKeeps
<1>18. ReplyInv'
  <2>1. \A d \in Clients : ~SendingTo(d) /\ ~SendingTo(d)'
    BY <1>1 DEF SendingTo, NextEvent
  <2>2. \A d \in Clients : phase'[d] # "closed" => phase[d] # "closed"
    BY <1>1, <1>5, <1>7
  <2>3. pc' # "send"
    BY <1>1 DEF NextEvent
  <2> QED
    BY <1>1, <1>2, <1>3, <2>1, <2>2, <2>3 DEF ReplyInv, Answering
<1>19. NothingLeftOut'
  BY <1>1, <1>2, <1>3, <1>5, <1>7, ClosedStay
<1> QED
  BY <1>11, <1>13, <1>14, <1>16, <1>17, <1>18, <1>19 DEF Inv
-----------------------------------------------------------------------------
\* Closing a descriptor leaves the descriptors, Handlers and events that are left as
\* they were.
LEMMA CloseFdKeeps ==
    ASSUME Inv, NEW f \in Fds, pc \in {"handle", "send"}, actionEvents[i].fd = f, CloseFd(f)
    PROVE  /\ FdInv' /\ HandlerInv' /\ MadeInv' /\ EventInv'
           /\ pc' \in {"handle", "poll"} /\ fdOf[f] \in Clients
           /\ phase' = [phase EXCEPT ![fdOf[f]] = "closed"]
           /\ (TypeOK' <=> /\ words' \in Seq(Tokens) /\ left' \in Nat
                           /\ output' \in [Handlers -> [bytes : Seq(Sent), readIndex : {0}, writeIndex : Nat]]
                           /\ \A h \in Handlers : output'[h].writeIndex <= Len(output'[h].bytes)
                           /\ ptr' \in Int /\ ptr' >= -MaxFails
                           /\ asked' \in [Clients -> Seq(Seq(Tokens))]
                           /\ refused' \in [Clients -> 0 .. MaxFails])
<1> DEFINE c == fdOf[f]
<1>1. /\ fdOf' = [fdOf EXCEPT ![f] = NoClient] /\ epoll' = [epoll EXCEPT ![f] = 0]
      /\ phase' = [phase EXCEPT ![c] = "closed"] /\ toSend' = [toSend EXCEPT ![c] = << >>]
      /\ inbox' = [inbox EXCEPT ![c] = << >>] /\ queued' = [queued EXCEPT ![c] = 0]
      /\ NextEvent /\ UNCHANGED <<handlerMap, made, peer, stream, backlog>>
  BY DEF CloseFd
<1>2. TypeOK /\ FdInv /\ HandlerInv /\ MadeInv /\ EventInv /\ ReplyInv
  BY DEF Inv
<1>3. /\ fdOf \in [Fds -> Clients \cup {NoClient}] /\ backlog \in Seq(Clients)
      /\ phase \in [Clients -> {"new", "queued", "open", "closed"}]
      /\ epoll \in [{Listening} \cup Fds -> 0 .. made] /\ made \in Nat
      /\ toSend \in [Clients -> Seq(Seq(Tokens))] /\ inbox \in [Clients -> Seq(Tokens)]
      /\ queued \in [Clients -> 0 .. Room]
  BY <1>2, MetIsFinite DEF TypeOK
<1>4. /\ c \in Clients /\ phase[c] = "open" /\ \A g \in Fds : g # f => fdOf[g] # c
      /\ \A k \in DOMAIN actionEvents : k > i => actionEvents[k].fd # f
  BY CurrentEvent
<1> HIDE DEF c
<1>5. c # NoClient /\ f # Listening /\ Listening \notin Fds
  BY <1>4, ReactorAssumption DEF Listening, Fds
<1>6. \A g \in Fds : fdOf'[g] = IF g = f THEN NoClient ELSE fdOf[g]
  BY <1>1, <1>3
<1>7. \A g \in {Listening} \cup Fds : epoll'[g] = IF g = f THEN 0 ELSE epoll[g]
  BY <1>1, <1>3
<1>8. FdInv'
  <2>1. \A k \in DOMAIN backlog : backlog[k] \in Clients /\ backlog[k] # c
    BY <1>2, <1>3, <1>4 DEF FdInv
  <2>2. \A k \in DOMAIN backlog : phase'[backlog[k]] = "queued"
    BY <1>1, <1>2, <1>3, <2>1 DEF FdInv
  <2>3. \A g \in Fds : fdOf'[g] # NoClient => phase'[fdOf'[g]] = "open"
    <3> SUFFICES ASSUME NEW g \in Fds, fdOf'[g] # NoClient PROVE phase'[fdOf'[g]] = "open"
      OBVIOUS
    <3>1. g # f /\ fdOf'[g] = fdOf[g] /\ fdOf[g] # NoClient /\ fdOf[g] # c /\ fdOf[g] \in Clients
      BY <1>3, <1>4, <1>6
    <3> QED
      BY <1>1, <1>2, <1>3, <3>1 DEF FdInv
  <2>4. \A g, h \in Fds : g # h /\ fdOf'[g] # NoClient => fdOf'[g] # fdOf'[h]
    BY <1>2, <1>6 DEF FdInv
  <2> QED
    BY <1>1, <1>2, <2>2, <2>3, <2>4 DEF FdInv
<1>9. pc' \in {"handle", "poll"}
  BY <1>1 DEF NextEvent
<1>10. HandlerInv'
  <2>1. \A g \in Fds : fdOf'[g] # NoClient <=> epoll'[g] # 0
    BY <1>2, <1>6, <1>7 DEF HandlerInv
  <2>2. \A g \in {Listening} \cup Fds : epoll'[g] \in {0, handlerMap'[g]}
    BY <1>1, <1>2, <1>7 DEF HandlerInv
  <2>3. \A g, h \in {Listening} \cup Fds : g # h /\ epoll'[g] # 0 => epoll'[g] # epoll'[h]
    BY <1>2, <1>7 DEF HandlerInv
  <2> QED
    BY <1>9, <2>1, <2>2, <2>3 DEF HandlerInv
<1>11. MadeInv'
  <2>1. Met' = Met
    BY <1>1, <1>3, <1>4 DEF Met
  <2>2. epoll'[Listening] = epoll[Listening]
    BY <1>5, <1>7
  <2> QED
    BY <1>1, <1>2, <2>1, <2>2 DEF MadeInv
<1>12. EventInv'
  <2>1. ASSUME NEW k \in DOMAIN actionEvents, NEW g \in {Listening} \cup Fds,
               k > i, g = actionEvents[k].fd
        PROVE  handlerMap'[g] = handlerMap[g] /\ epoll'[g] = epoll[g] /\ Readable(g)'
    <3>1. i \in Nat /\ k \in Nat /\ g # f
      BY <1>2, <1>4, <2>1 DEF TypeOK
    <3>2. Readable(g)
      BY <1>2, <2>1, <3>1 DEF EventInv, PendingEventsLive
    <3>3. CASE g = Listening
      BY <1>1, <1>7, <3>1, <3>2, <3>3 DEF Readable
    <3>4. CASE g \in Fds
      <4>1. fdOf'[g] = fdOf[g] /\ fdOf[g] # c /\ g # Listening
        BY <1>4, <1>5, <1>6, <3>1, <3>4
      <4>2. fdOf[g] \in Clients
        BY <1>3, <3>2, <3>4, <4>1 DEF Readable
      <4>3. inbox'[fdOf[g]] = inbox[fdOf[g]] /\ peer'[fdOf[g]] = peer[fdOf[g]]
        BY <1>1, <1>3, <4>1, <4>2
      <4>4. Readable(g)'
        BY <3>2, <4>1, <4>3 DEF Readable
      <4> QED
        BY <1>1, <1>7, <3>1, <4>4
    <3> QED
      BY <3>3, <3>4
  <2> QED
    BY <1>1, <1>2, <2>1, NextEventKeeps
<1>13. /\ phase' \in [Clients -> {"new", "queued", "open", "closed"}]
       /\ peer' \in [Clients -> {"alive", "shut", "reset"}]
       /\ toSend' \in [Clients -> Seq(Seq(Tokens))] /\ inbox' \in [Clients -> Seq(Tokens)]
       /\ queued' \in [Clients -> 0 .. Room] /\ stream' \in [Clients -> Seq(Sent)]
       /\ backlog' \in Seq(Clients)
  <2>1. 0 \in 0 .. Room /\ << >> \in Seq(Tokens) /\ << >> \in Seq(Seq(Tokens))
    <3>1. 0 \in 0 .. Room
      BY ReactorAssumption
    <3> QED
      BY <3>1
  <2>2. peer' \in [Clients -> {"alive", "shut", "reset"}] /\ stream' \in [Clients -> Seq(Sent)]
    BY <1>1, <1>2 DEF TypeOK
  <2>3. /\ toSend' \in [Clients -> Seq(Seq(Tokens))] /\ inbox' \in [Clients -> Seq(Tokens)]
        /\ queued' \in [Clients -> 0 .. Room]
    BY <1>1, <1>3, <2>1
  <2>4. phase' \in [Clients -> {"new", "queued", "open", "closed"}]
    BY <1>1, <1>3
  <2> QED
    BY <1>1, <1>3, <2>2, <2>3, <2>4
<1>14. /\ fdOf' \in [Fds -> Clients \cup {NoClient}]
       /\ epoll' \in [{Listening} \cup Fds -> 0 .. made']
       /\ handlerMap' \in [{Listening} \cup Fds -> 0 .. made']
       /\ made' \in 0 .. 1 + Cardinality(Clients)
  <2>1. 0 \in 0 .. made
    BY <1>3
  <2> QED
    BY <1>1, <1>2, <1>3, <2>1 DEF TypeOK
<1>15. /\ pc' \in {"start", "poll", "handle", "send", "exit"}
       /\ actionEvents' \in Seq(Events(made')) /\ i' \in Nat
  <2>1. made' \in Nat /\ made <= made'
    BY <1>1, <1>3
  <2> QED
    BY <1>1, <1>2, <2>1, NextEventType
<1>16. TypeOK' <=> /\ words' \in Seq(Tokens) /\ left' \in Nat
                   /\ output' \in [Handlers -> [bytes : Seq(Sent), readIndex : {0}, writeIndex : Nat]]
                   /\ \A h \in Handlers : output'[h].writeIndex <= Len(output'[h].bytes)
                   /\ ptr' \in Int /\ ptr' >= -MaxFails
                   /\ asked' \in [Clients -> Seq(Seq(Tokens))]
                   /\ refused' \in [Clients -> 0 .. MaxFails]
  BY <1>13, <1>14, <1>15 DEF TypeOK
<1> QED
  BY <1>1, <1>4, <1>8, <1>9, <1>10, <1>11, <1>12, <1>16 DEF c

\* A client that went away without a request got nothing.
LEMMA ReadEofKeeps ==
    ASSUME Inv, NEW f \in Fds, ReadEof(f)
    PROVE  Inv'
<1>1. /\ pc = "handle" /\ actionEvents[i].fd = f /\ CloseFd(f)
      /\ UNCHANGED <<words, output, ptr, left, asked, refused>> /\ stream' = stream
  BY DEF ReadEof, Handling, CloseFd, replyVars
<1>2. TypeOK /\ ReplyInv /\ NothingLeftOut
  BY DEF Inv
<1>3. /\ FdInv' /\ HandlerInv' /\ MadeInv' /\ EventInv' /\ pc' \in {"handle", "poll"}
      /\ fdOf[f] \in Clients /\ phase' = [phase EXCEPT ![fdOf[f]] = "closed"]
  BY <1>1, CloseFdKeeps
<1>4. TypeOK'
  <2>1. /\ words' \in Seq(Tokens) /\ left' \in Nat
        /\ output' \in [Handlers -> [bytes : Seq(Sent), readIndex : {0}, writeIndex : Nat]]
        /\ \A h \in Handlers : output'[h].writeIndex <= Len(output'[h].bytes)
        /\ ptr' \in Int /\ ptr' >= -MaxFails
        /\ asked' \in [Clients -> Seq(Seq(Tokens))]
        /\ refused' \in [Clients -> 0 .. MaxFails]
    BY <1>1, <1>2 DEF TypeOK
  <2> QED
    BY <1>1, <2>1, CloseFdKeeps
<1>5. ReplyInv'
  <2>1. \A d \in Clients : ~SendingTo(d) /\ ~SendingTo(d)'
    BY <1>1, <1>3 DEF SendingTo
  <2>2. \A d \in Clients : phase'[d] # "closed" => phase[d] # "closed"
    BY <1>2, <1>3 DEF TypeOK
  <2> QED
    BY <1>1, <1>2, <1>3, <2>1, <2>2 DEF ReplyInv, Answering
<1>6. NothingLeftOut'
  <2>1. fdOf[f] \in Clients /\ phase[fdOf[f]] = "open" /\ ~SendingTo(fdOf[f])
    BY <1>1, CurrentEvent DEF SendingTo
  <2>2. asked[fdOf[f]] = << >>
    BY <1>2, <2>1 DEF ReplyInv
  <2>3. \A d \in Clients : d # fdOf[f] => phase'[d] = phase[d]
    BY <1>2, <1>3 DEF TypeOK
  <2> QED
    BY <1>1, <1>2, <2>2, <2>3, ClosedStay
<1> QED
  BY <1>3, <1>4, <1>5, <1>6 DEF Inv

\* The end of sendFd resets the buffer; the client is closed.
LEMMA SendDoneKeeps ==
    ASSUME Inv, NEW f \in Fds, SendDone(f)
    PROVE  Inv'
<1>1. /\ pc = "send" /\ actionEvents[i].fd = f /\ CloseFd(f)
      /\ output' = [output EXCEPT ![handlerMap[f]] = EmptyBuffer] /\ ptr' = 0 /\ left = 0
      /\ UNCHANGED <<words, left, asked, refused, handlerMap>> /\ stream' = stream
  BY DEF SendDone, Sending, CloseFd
<1>2. TypeOK /\ ReplyInv /\ NothingLeftOut
  BY DEF Inv
<1>3. /\ FdInv' /\ HandlerInv' /\ MadeInv' /\ EventInv' /\ pc' \in {"handle", "poll"}
      /\ fdOf[f] \in Clients /\ phase' = [phase EXCEPT ![fdOf[f]] = "closed"]
  BY <1>1, CloseFdKeeps
<1>4. TypeOK'
  <2>1. /\ words' \in Seq(Tokens) /\ left' \in Nat
        /\ asked' \in [Clients -> Seq(Seq(Tokens))]
        /\ refused' \in [Clients -> 0 .. MaxFails]
    BY <1>1, <1>2 DEF TypeOK
  <2>2. /\ output' \in [Handlers -> [bytes : Seq(Sent), readIndex : {0}, writeIndex : Nat]]
        /\ \A h \in Handlers : output'[h].writeIndex <= Len(output'[h].bytes)
    <3>1. EmptyBuffer \in [bytes : Seq(Sent), readIndex : {0}, writeIndex : Nat]
      BY DEF EmptyBuffer
    <3>2. EmptyBuffer.writeIndex <= Len(EmptyBuffer.bytes)
      BY DEF EmptyBuffer
    <3> QED
      BY <1>1, <1>2, <3>1, <3>2 DEF TypeOK
  <2>3. ptr' \in Int /\ ptr' >= -MaxFails
    BY <1>1, ReactorAssumption
  <2> QED
    BY <1>1, <2>1, <2>2, <2>3, CloseFdKeeps
<1>5. ReplyInv'
  <2>1. \A d \in Clients : ~SendingTo(d)'
    BY <1>3 DEF SendingTo
  <2>2. \A d \in Clients : phase'[d] # "closed" => phase[d] # "closed" /\ ~SendingTo(d)
    BY <1>1, <1>2, <1>3 DEF TypeOK, SendingTo
  <2>3. \A h \in Handlers : output'[h] = EmptyBuffer
    BY <1>1, <1>2 DEF ReplyInv, Answering, TypeOK
  <2> QED
    BY <1>1, <1>2, <1>3, <2>1, <2>2, <2>3 DEF ReplyInv
<1>6. NothingLeftOut'
  <2>1. PICK c \in Clients : c = fdOf[f] /\ phase[c] = "open" /\ SendingTo(c)
    BY <1>1, CurrentEvent DEF SendingTo
  <2>2. /\ output[Answering].bytes = Vectors(words)
        /\ ptr + left = Len(output[Answering].bytes)
        /\ Laid(Vectors(words), ptr, stream[c])
        /\ Len(asked[c]) = 1 /\ \E before \in Seq(Tokens) : words = before \o asked[c][1]
    BY <1>2, <2>1 DEF ReplyInv
  <2>3. /\ asked \in [Clients -> Seq(Seq(Tokens))] /\ words \in Seq(Tokens) /\ ptr \in Int
        /\ stream \in [Clients -> Seq(Sent)]
    BY <1>2 DEF TypeOK
  <2>4. PICK q \in Seq(Seq(Tokens)) : q = asked[c] /\ Len(q) = 1
    BY <2>2, <2>3
  <2>5. q[1] \in Seq(Tokens)
    BY <2>4
  <2>6. PICK before \in Seq(Tokens) : words = before \o q[1]
    BY <2>2, <2>4
  <2>7. /\ Vectors(words) = Vectors(before) \o Vectors(q[1])
        /\ Vectors(before) \in Seq(Sent) /\ Vectors(q[1]) \in Seq(Sent)
        /\ Vectors(words) \in Seq(Sent)
    BY <2>3, <2>5, <2>6, VectorsOfBoth, VectorsIsSequence
  <2>8. ptr = Len(Vectors(words))
    BY <1>1, <2>2, <2>3, <2>7
  <2>9. InOrder(Vectors(q[1]), stream[c])
    BY <2>1, <2>2, <2>3, <2>7, <2>8, LaidLast
  <2>10. \A d \in Clients : d # c => phase'[d] = phase[d]
    BY <1>2, <1>3, <2>1 DEF TypeOK
  <2> QED
    BY <1>1, <1>2, <2>4, <2>9, <2>10 DEF NothingLeftOut
<1> QED
  BY <1>3, <1>4, <1>5, <1>6 DEF Inv
-----------------------------------------------------------------------------
\* A request is read and its words are added; sendFd begins with an empty stream and
\* the vectors of all words in the buffer.
LEMMA ReadRequestKeeps ==
    ASSUME Inv, NEW f \in Fds, ReadRequest(f)
    PROVE  Inv'
<1> DEFINE c == fdOf[f]
           request == ReadAllAsString(AppendTo(EmptyBuffer, inbox[c]))
<1>1. /\ pc = "handle" /\ actionEvents[i].fd = f /\ f # Listening
      /\ inbox' = [inbox EXCEPT ![c] = << >>] /\ Write(f, request)
      /\ UNCHANGED <<phase, peer, toSend, queued, stream, backlog>>
      /\ UNCHANGED <<fdOf, epoll, handlerMap, made, refused>>
  BY DEF ReadRequest, Handling
<1>2. TypeOK /\ FdInv /\ HandlerInv /\ MadeInv /\ EventInv /\ ReplyInv /\ NothingLeftOut
  BY DEF Inv
<1>3. /\ c \in Clients /\ phase[c] = "open" /\ \A g \in Fds : g # f => fdOf[g] # c
      /\ \A k \in DOMAIN actionEvents : k > i => actionEvents[k].fd # f
      /\ i \in DOMAIN actionEvents /\ handlerMap[f] \in Handlers
  BY <1>1, CurrentEvent
<1> HIDE DEF c
<1>4. request = inbox[c] /\ request \in Seq(Tokens) /\ inbox' \in [Clients -> Seq(Tokens)]
  <2>1. inbox \in [Clients -> Seq(Tokens)]
    BY <1>2 DEF TypeOK
  <2>2. inbox[c] \in Seq(Tokens) /\ << >> \in Seq(Tokens)
    BY <1>3, <2>1
  <2>3. inbox' \in [Clients -> Seq(Tokens)]
    BY <1>1, <2>1, <2>2
  <2> QED
    BY <2>2, <2>3, AppendToEmpty
<1> HIDE DEF request
<1>5. FdInv' /\ MadeInv'
  BY <1>1, <1>2 DEF FdInv, MadeInv, Met
<1>6. pc' \in {"send", "exit"} /\ UNCHANGED <<actionEvents, i>>
  BY <1>1 DEF Write, Exit
<1>7. HandlerInv'
  BY <1>1, <1>2, <1>6 DEF HandlerInv
<1>8. EventInv'
  <2>1. ASSUME NEW k \in DOMAIN actionEvents, k > i
        PROVE  Readable(actionEvents[k].fd)'
    <3>1. PICK g \in {Listening} \cup Fds : g = actionEvents[k].fd
      BY <1>2, EventFds
    <3>2. i \in Nat /\ k \in Nat /\ g # f
      BY <1>2, <1>3, <2>1, <3>1 DEF TypeOK
    <3>3. Readable(g)
      BY <1>1, <1>2, <2>1, <3>1, <3>2 DEF EventInv, PendingEventsLive
    <3>4. CASE g = Listening
      BY <1>1, <1>6, <3>1, <3>3, <3>4 DEF Readable
    <3>5. CASE g \in Fds /\ g # Listening
      <4>1. fdOf[g] # c /\ fdOf[g] # NoClient
        BY <1>3, <3>2, <3>3, <3>5 DEF Readable
      <4>2. fdOf \in [Fds -> Clients \cup {NoClient}] /\ inbox \in [Clients -> Seq(Tokens)]
        BY <1>2 DEF TypeOK
      <4>3. inbox'[fdOf[g]] = inbox[fdOf[g]]
        BY <1>1, <3>5, <4>1, <4>2
      <4> QED
        BY <1>1, <1>6, <3>1, <3>3, <3>5, <4>3 DEF Readable
    <3> QED
      BY <3>4, <3>5
  <2>2. i \in Nat /\ \A k \in DOMAIN actionEvents : k >= i => k = i \/ k > i
    BY <1>2 DEF TypeOK
  <2>3. PendingEventsLive'
    BY <1>1, <1>2, <1>6, <2>1, <2>2 DEF EventInv, PendingEventsLive
  <2> QED
    BY <1>1, <1>2, <1>6, <2>3 DEF EventInv
<1>9. CASE "line" \in ToSet(request)
  <2> DEFINE h == handlerMap[f]
  <2>1. /\ asked' = [asked EXCEPT ![c] = <<Parsed(request)>>]
        /\ words' = words \o Parsed(request)
        /\ output' = [output EXCEPT ![h] = AppendTo(@, Vectors(words'))]
        /\ ptr' = output'[h].readIndex /\ left' = ReadableBytes(output'[h]) /\ pc' = "send"
    BY <1>1, <1>9 DEF Write, WordsAfter, c
  <2> HIDE DEF h
  <2>2. PICK new \in Seq(Tokens) : new = Parsed(request)
    BY <1>4, ParsedIsSequence
  <2>3. /\ words \in Seq(Tokens) /\ h \in Handlers /\ \A g \in Handlers : output[g] = EmptyBuffer
        /\ output \in [Handlers -> [bytes : Seq(Sent), readIndex : {0}, writeIndex : Nat]]
    BY <1>1, <1>2, <1>3 DEF TypeOK, ReplyInv, h
  <2>4. words' = words \o new /\ words' \in Seq(Tokens)
    BY <2>1, <2>2, <2>3
  <2>5. PICK reply \in Seq(Sent) : reply = Vectors(words')
    BY <2>4, VectorsIsSequence
  <2>6. /\ output'[h] = [bytes |-> reply, readIndex |-> 0, writeIndex |-> Len(reply)]
        /\ \A g \in Handlers : g # h => output'[g] = EmptyBuffer
        /\ left' = Len(reply)
    <3>1. output'[h] = AppendTo(EmptyBuffer, reply)
      BY <2>1, <2>3, <2>5
    <3>2. \A g \in Handlers : g # h => output'[g] = EmptyBuffer
      BY <2>1, <2>3
    <3> QED
      BY <2>1, <3>1, <3>2, AppendToEmpty
  <2>7. /\ output'[h].bytes = reply /\ output'[h].readIndex = 0
        /\ output'[h].writeIndex = Len(reply)
        /\ ptr' = 0 /\ Len(reply) \in Nat
    BY <2>1, <2>6
  <2>8. asked' = [asked EXCEPT ![c] = <<new>>] /\ asked' \in [Clients -> Seq(Seq(Tokens))]
    <3>1. asked \in [Clients -> Seq(Seq(Tokens))]
      BY <1>2 DEF TypeOK
    <3> QED
      BY <1>3, <2>1, <2>2, <3>1
  <2>9. TypeOK'
    <3>1. output' \in [Handlers -> [bytes : Seq(Sent), readIndex : {0}, writeIndex : Nat]]
      <4>1. /\ output'[h] \in [bytes : Seq(Sent), readIndex : {0}, writeIndex : Nat]
            /\ output' = [output EXCEPT ![h] = output'[h]]
        BY <2>1, <2>3, <2>6, <2>7
      <4> QED
        BY <2>3, <4>1
    <3>2. \A g \in Handlers : output'[g].writeIndex <= Len(output'[g].bytes)
      <4>1. EmptyBuffer.writeIndex <= Len(EmptyBuffer.bytes)
        BY DEF EmptyBuffer
      <4> QED
        BY <2>6, <2>7, <4>1
    <3>3. ptr' \in Int /\ ptr' >= -MaxFails /\ left' \in Nat
      BY <2>6, <2>7, ReactorAssumption
    <3> QED
      BY <1>1, <1>2, <1>4, <1>6, <2>4, <2>8, <3>1, <3>2, <3>3 DEF TypeOK
  <2>10. ReplyInv'
    <3>1. \A d \in Clients : ~SendingTo(d) /\ (SendingTo(d)' => d = c)
      BY <1>1, <1>6 DEF SendingTo, c
    <3>2. stream[c] = << >> /\ refused[c] = 0
      BY <1>2, <1>3, <3>1 DEF ReplyInv
    <3>3. \A d \in Clients : d # c => asked'[d] = asked[d]
      BY <1>2, <2>8 DEF TypeOK
    <3>4. pc' = "send" /\ fdOf'[actionEvents'[i'].fd] = c
      BY <1>1, <1>6, <2>1 DEF SendingTo, c
    <3>5. \A d \in Clients : phase'[d] # "closed" /\ ~SendingTo(d)' =>
            stream'[d] = << >> /\ asked'[d] = << >> /\ refused'[d] = 0
      <4> SUFFICES ASSUME NEW d \in Clients, phase'[d] # "closed", ~SendingTo(d)'
                   PROVE  stream'[d] = << >> /\ asked'[d] = << >> /\ refused'[d] = 0
        OBVIOUS
      <4>1. d # c /\ ~SendingTo(d) /\ phase[d] # "closed"
        <5>1. d # c
          BY <3>4 DEF SendingTo
        <5> QED
          BY <1>1, <3>1, <5>1
      <4>2. stream[d] = << >> /\ asked[d] = << >> /\ refused[d] = 0
        BY <1>2, <4>1 DEF ReplyInv
      <4> QED
        BY <1>1, <3>3, <4>1, <4>2
    <3>6. asked'[c] = <<new>>
      BY <1>2, <1>3, <2>8 DEF TypeOK
    <3>7. Len(asked'[c]) = 1 /\ words' = words \o asked'[c][1]
      BY <2>4, <3>6
    <3>8. stream'[c] = SubSeq(Vectors(words'), 1, ptr')
      <4>1. SubSeq(reply, 1, 0) = << >>
        OBVIOUS
      <4> QED
        BY <1>1, <2>5, <2>7, <3>2, <4>1
    <3>9. ptr' + left' = Len(output'[h].bytes) /\ ptr' >= -refused'[c]
      BY <1>1, <2>6, <2>7, <3>2
    <3>11. Laid(Vectors(words'), ptr', stream'[c])
      <4>1. [n \in Nat |-> n] \in [Nat -> Nat] /\ 1 .. 0 = {}
        OBVIOUS
      <4> QED
        BY <2>7, <4>1 DEF Laid
    <3>12. Answering' = h
      BY <1>1, <1>6 DEF Answering, h
    <3>10. \E before \in Seq(Tokens) : words' = before \o asked'[c][1]
      BY <2>3, <3>7
    <3> QED
      BY <2>1, <2>5, <2>7, <3>1, <2>6, <3>5, <3>7, <3>8, <3>9, <3>10, <3>11, <3>12 DEF ReplyInv
  <2>11. NothingLeftOut'
    <3>1. \A d \in Clients : d # c => asked'[d] = asked[d]
      BY <1>2, <2>8 DEF TypeOK
    <3> QED
      BY <1>1, <1>2, <1>3, <3>1, ClosedStay
  <2> QED
    BY <1>5, <1>7, <1>8, <2>9, <2>10, <2>11 DEF Inv
<1>10. CASE "line" \notin ToSet(request)
  <2>1. pc' = "exit" /\ UNCHANGED <<asked, words, output, ptr, left>>
    BY <1>1, <1>10 DEF Write, Exit
  <2>2. TypeOK'
    BY <1>1, <1>2, <1>4, <1>6, <2>1 DEF TypeOK
  <2>3. ReplyInv'
    <3>1. \A d \in Clients : ~SendingTo(d) /\ ~SendingTo(d)'
      BY <1>1, <2>1 DEF SendingTo
    <3> QED
      BY <1>1, <1>2, <2>1, <3>1 DEF ReplyInv
  <2>4. NothingLeftOut'
    BY <1>1, <1>2, <2>1, ClosedStay
  <2> QED
    BY <1>5, <1>7, <1>8, <2>2, <2>3, <2>4 DEF Inv
<1> QED
  BY <1>9, <1>10

\* A write takes the next part of the reply, as long as none failed.
LEMMA SendSomeKeeps ==
    ASSUME Inv, NEW f \in Fds, SendSome(f)
    PROVE  Inv'
<1> DEFINE c == fdOf[f]
           n == Min({left, Room - queued[c]})
           part == [k \in 1 .. n |-> ByteAt(f, ptr + k)]
<1>1. /\ pc = "send" /\ actionEvents[i].fd = f /\ left > 0 /\ queued[c] < Room
      /\ stream' = [stream EXCEPT ![c] = @ \o part]
      /\ queued' = [queued EXCEPT ![c] = @ + n]
      /\ ptr' = ptr + n /\ left' = left - n
      /\ UNCHANGED <<phase, peer, toSend, inbox, backlog, serverVars, words, output, asked, refused>>
  BY DEF SendSome, Sending
<1>2. TypeOK /\ FdInv /\ HandlerInv /\ MadeInv /\ EventInv /\ ReplyInv /\ NothingLeftOut
  BY DEF Inv
<1>3. c \in Clients /\ SendingTo(c) /\ \A d \in Clients : SendingTo(d) <=> d = c
  BY <1>1, CurrentEvent DEF SendingTo
<1>20. Answering = handlerMap[f] /\ Answering \in Handlers
  BY <1>1, CurrentEvent DEF Answering
<1>4. /\ queued \in [Clients -> 0 .. Room] /\ stream \in [Clients -> Seq(Sent)]
      /\ ptr \in Int /\ ptr >= -MaxFails /\ left \in Nat /\ words \in Seq(Tokens)
      /\ output \in [Handlers -> [bytes : Seq(Sent), readIndex : {0}, writeIndex : Nat]]
  BY <1>2 DEF TypeOK
<1> HIDE DEF c
<1>5. n \in Nat /\ n <= left /\ n <= Room - queued[c]
  <2>1. PICK room \in Nat : room = Room - queued[c]
    BY <1>1, <1>3, <1>4, ReactorAssumption
  <2>2. \E x \in {left, room} : \A y \in {left, room} : x =< y
    BY <1>4
  <2>3. n \in {left, room} /\ \A y \in {left, room} : n <= y
    BY <2>1, <2>2 DEF Min
  <2> HIDE DEF n
  <2> QED
    BY <1>4, <2>1, <2>3
<1> HIDE DEF n
<1>6. part \in Seq(Sent) /\ Len(part) = n
  <2>1. \A k : ByteAt(f, k) \in Sent
    <3>1. output[Answering].bytes \in Seq(Sent) /\ "stray" \in Sent
      BY <1>4, <1>20 DEF Sent
    <3> QED
      BY <1>20, <3>1 DEF ByteAt
  <2> QED
    BY <1>5, <2>1
<1>7. PICK old \in Seq(Sent) : old = stream[c]
  BY <1>3, <1>4
<1>8. PICK p \in Seq(Sent) : p = part /\ Len(p) = n
  BY <1>6
<1>9. stream' = [stream EXCEPT ![c] = old \o p] /\ stream' \in [Clients -> Seq(Sent)]
  <2>1. stream' = [stream EXCEPT ![c] = old \o p]
    BY <1>1, <1>7, <1>8
  <2>2. old \o p \in Seq(Sent)
    OBVIOUS
  <2> QED
    BY <1>4, <2>1, <2>2
<1>10. TypeOK'
  <2>1. queued[c] + n \in 0 .. Room
    BY <1>3, <1>4, <1>5, ReactorAssumption
  <2>2. queued' \in [Clients -> 0 .. Room]
    BY <1>1, <1>4, <2>1
  <2>3. ptr' \in Int /\ ptr' >= -MaxFails /\ left' \in Nat
    BY <1>1, <1>4, <1>5, ReactorAssumption
  <2> QED
    BY <1>1, <1>2, <1>9, <2>2, <2>3 DEF TypeOK, serverVars
<1>11. FdInv' /\ HandlerInv'
  BY <1>1, <1>2 DEF FdInv, HandlerInv, serverVars
<1>12. MadeInv'
  BY <1>1, <1>2 DEF MadeInv, Met, serverVars
<1>13. EventInv'
  <2>1. \A g \in {Listening} \cup Fds : Readable(g) => Readable(g)'
    BY <1>1 DEF Readable, serverVars
  <2> QED
    BY <1>1, <1>2, <2>1, EventsStay DEF serverVars
<1>14. /\ output[Answering].bytes = Vectors(words) /\ ptr >= -refused[c]
       /\ ptr + left = Len(output[Answering].bytes) /\ Laid(Vectors(words), ptr, stream[c])
       /\ Len(asked[c]) = 1 /\ \E before \in Seq(Tokens) : words = before \o asked[c][1]
       /\ refused[c] = 0 => stream[c] = SubSeq(Vectors(words), 1, ptr)
  BY <1>2, <1>3 DEF ReplyInv
<1>15. PICK reply \in Seq(Sent) : reply = Vectors(words) /\ Len(reply) \in Nat
  BY <1>4, VectorsIsSequence
<1>21. \A k \in 1 .. n : ptr + k \in DOMAIN reply => p[k] = reply[ptr + k]
  BY <1>8, <1>14, <1>15, <1>20 DEF ByteAt
<1>22. Laid(reply, ptr', stream'[c])
  <2>1. \A k \in 1 .. Len(p) : ptr + k >= 1 => p[k] = reply[ptr + k]
    <3>3. DOMAIN reply = 1 .. Len(reply) /\ Len(reply) \in Nat
      OBVIOUS
    <3>4. ptr + left = Len(reply)
      BY <1>14, <1>15
    <3>1. /\ ptr + left = Len(reply) /\ Len(p) = n /\ DOMAIN reply = 1 .. Len(reply)
          /\ Len(reply) \in Nat
      BY <1>8, <3>3, <3>4
    <3>2. \A k \in 1 .. n : ptr + k >= 1 => ptr + k \in DOMAIN reply
      BY <1>4, <1>5, <3>1
    <3> QED
      BY <1>21, <3>1, <3>2
  <2>2. Laid(reply, ptr, old)
    BY <1>7, <1>14, <1>15
  <2>3. Laid(reply, ptr + Len(p), old \o p)
    BY <1>4, <2>1, <2>2, LaidMore
  <2>4. stream'[c] = old \o p /\ ptr' = ptr + Len(p)
    BY <1>1, <1>3, <1>4, <1>8, <1>9
  <2> QED
    BY <2>3, <2>4
<1>16. ASSUME refused[c] = 0
       PROVE  stream'[c] = SubSeq(reply, 1, ptr') /\ ptr' \in 0 .. Len(reply)
  <2>1. ptr \in Nat /\ ptr + n <= Len(reply) /\ ptr + left = Len(reply)
    BY <1>4, <1>5, <1>14, <1>15, <1>16
  <2>2. old = SubSeq(reply, 1, ptr)
    BY <1>7, <1>14, <1>15, <1>16
  <2>3. \A k \in 1 .. n : p[k] = reply[ptr + k]
    <3>1. \A k \in 1 .. n : ptr + k \in DOMAIN reply
      BY <1>5, <2>1
    <3> QED
      BY <1>8, <1>21, <3>1
  <2>4. old \o p = SubSeq(reply, 1, ptr + n)
    <3>1. Len(old) = ptr /\ \A k \in 1 .. ptr : old[k] = reply[k]
      BY <1>5, <2>1, <2>2
    <3>2. /\ old \o p \in Seq(Sent) /\ Len(old \o p) = ptr + n
          /\ \A k \in 1 .. ptr + n : (old \o p)[k] = IF k <= ptr THEN old[k] ELSE p[k - ptr]
      <4>1. /\ old \o p \in Seq(Sent) /\ Len(old \o p) = Len(old) + Len(p)
            /\ \A k \in 1 .. Len(old) + Len(p) :
                  (old \o p)[k] = IF k <= Len(old) THEN old[k] ELSE p[k - Len(old)]
        OBVIOUS
      <4>2. Len(old) = ptr /\ Len(p) = n
        BY <1>8, <3>1
      <4> QED
        BY <4>1, <4>2
    <3>3. \A k \in 1 .. ptr + n : (old \o p)[k] = reply[k]
      <4> SUFFICES ASSUME NEW k \in 1 .. ptr + n PROVE (old \o p)[k] = reply[k]
        OBVIOUS
      <4>1. CASE k <= ptr
        BY <2>1, <3>1, <3>2, <4>1
      <4>2. CASE ~(k <= ptr)
        <5>1. k - ptr \in 1 .. n /\ ptr + (k - ptr) = k
          BY <1>5, <2>1, <4>2
        <5> QED
          BY <2>3, <3>2, <4>2, <5>1
      <4> QED
        BY <4>1, <4>2
    <3>4. /\ SubSeq(reply, 1, ptr + n) \in Seq(Sent) /\ Len(SubSeq(reply, 1, ptr + n)) = ptr + n
          /\ \A k \in 1 .. ptr + n : SubSeq(reply, 1, ptr + n)[k] = reply[k]
      BY <1>5, <2>1
    <3> QED
      BY <3>2, <3>3, <3>4, SeqEqual
  <2>5. stream'[c] = old \o p
    BY <1>3, <1>4, <1>9
  <2> QED
    BY <1>1, <1>5, <2>1, <2>4, <2>5
<1>17. \A d \in Clients : d # c => stream'[d] = stream[d]
  BY <1>4, <1>9
<1>18. ReplyInv'
  <2>1. \A d \in Clients : SendingTo(d)' <=> d = c
    <3>1. \A d \in Clients : SendingTo(d)' <=> SendingTo(d)
      BY <1>1 DEF SendingTo, serverVars
    <3> QED
      BY <1>3, <3>1
  <2>2. \A d \in Clients : phase'[d] # "closed" /\ d # c =>
          stream'[d] = << >> /\ asked'[d] = << >> /\ refused'[d] = 0
    BY <1>1, <1>2, <1>3, <1>17 DEF ReplyInv
  <2>3. refused'[c] = 0 => stream'[c] = SubSeq(Vectors(words'), 1, ptr')
    BY <1>1, <1>15, <1>16
  <2>6. Answering' = Answering
    BY <1>1 DEF Answering, serverVars
  <2>7. Laid(Vectors(words'), ptr', stream'[c])
    BY <1>1, <1>15, <1>22
  <2>8. \A h \in Handlers : output'[h] = EmptyBuffer \/ h = Answering
    BY <1>1, <1>2 DEF ReplyInv
  <2>4. ptr' + left' = Len(output'[Answering].bytes) /\ ptr' >= -refused'[c]
    <3>1. refused[c] \in Int
      BY <1>2, <1>3, ReactorAssumption DEF TypeOK
    <3>2. PICK r \in Int : r = refused[c] /\ r = refused'[c]
      BY <1>1, <3>1
    <3>3. PICK m \in Nat : m = Len(output[Answering].bytes) /\ m = Len(output'[Answering].bytes)
      BY <1>1, <1>14, <1>15
    <3>4. ptr' + left' = m
      <4>1. ptr + left = m /\ ptr' = ptr + n /\ left' = left - n
        BY <1>1, <1>14, <3>3
      <4>2. ptr \in Int /\ left \in Int /\ n \in Int
        BY <1>4, <1>5
      <4> QED
        BY <4>1, <4>2
    <3>5. ptr' >= -r
      BY <1>1, <1>4, <1>5, <1>14, <3>2
    <3> QED
      BY <3>2, <3>3, <3>4, <3>5
  <2>5. pc' = "send"
    BY <1>1 DEF serverVars
  <2> QED
    BY <1>1, <1>14, <2>1, <2>2, <2>3, <2>4, <2>5, <2>6, <2>7, <2>8 DEF ReplyInv
<1>19. NothingLeftOut'
  <2>1. \A d \in Clients : phase[d] = "closed" => d # c
    BY <1>1, CurrentEvent DEF c
  <2> QED
    BY <1>1, <1>2, <1>17, <2>1, ClosedStay
<1> QED
  BY <1>10, <1>11, <1>12, <1>13, <1>18, <1>19 DEF Inv

\* A write that fails moves ptr back, so more may be sent twice, but no less in all.
LEMMA SendFailsKeeps ==
    ASSUME Inv, NEW f \in Fds, SendFails(f)
    PROVE  Inv'
<1> DEFINE c == fdOf[f]
<1>1. /\ pc = "send" /\ actionEvents[i].fd = f /\ refused[c] < MaxFails
      /\ ptr' = ptr - 1 /\ left' = left + 1
      /\ refused' = [refused EXCEPT ![c] = @ + 1]
      /\ UNCHANGED <<clientVars, serverVars, words, output, asked>>
  BY DEF SendFails, Sending
<1>2. TypeOK /\ FdInv /\ HandlerInv /\ MadeInv /\ EventInv /\ ReplyInv /\ NothingLeftOut
  BY DEF Inv
<1>3. c \in Clients /\ SendingTo(c) /\ \A d \in Clients : SendingTo(d) <=> d = c
  BY <1>1, CurrentEvent DEF SendingTo
<1>4. /\ ptr \in Int /\ left \in Nat /\ refused \in [Clients -> 0 .. MaxFails]
      /\ output \in [Handlers -> [bytes : Seq(Sent), readIndex : {0}, writeIndex : Nat]]
  BY <1>2 DEF TypeOK
<1> HIDE DEF c
<1>5. /\ refused' \in [Clients -> 0 .. MaxFails] /\ refused'[c] = refused[c] + 1
      /\ refused[c] \in Nat /\ refused'[c] # 0 /\ refused'[c] <= MaxFails
      /\ \A d \in Clients : d # c => refused'[d] = refused[d]
  BY <1>1, <1>3, <1>4, ReactorAssumption
<1>6. /\ output[Answering].bytes = Vectors(words) /\ ptr >= -refused[c]
      /\ ptr + left = Len(output[Answering].bytes) /\ Laid(Vectors(words), ptr, stream[c])
      /\ Len(asked[c]) = 1 /\ \E before \in Seq(Tokens) : words = before \o asked[c][1]
  BY <1>2, <1>3 DEF ReplyInv
<1>7. /\ ptr' \in Int /\ ptr' >= -refused'[c] /\ ptr' >= -MaxFails /\ left' \in Nat
      /\ ptr' + left' = ptr + left
  BY <1>1, <1>4, <1>5, <1>6, ReactorAssumption
<1>8. TypeOK'
  BY <1>1, <1>2, <1>5, <1>7 DEF TypeOK, clientVars, serverVars
<1>9. FdInv' /\ HandlerInv'
  BY <1>1, <1>2 DEF FdInv, HandlerInv, clientVars, serverVars
<1>10. MadeInv'
  BY <1>1, <1>2 DEF MadeInv, Met, clientVars, serverVars
<1>11. EventInv'
  <2>1. \A g \in {Listening} \cup Fds : Readable(g) => Readable(g)'
    BY <1>1 DEF Readable, clientVars, serverVars
  <2> QED
    BY <1>1, <1>2, <2>1, EventsStay DEF serverVars
<1>12. ReplyInv'
  <2>1. \A d \in Clients : SendingTo(d)' <=> d = c
    <3>1. \A d \in Clients : SendingTo(d)' <=> SendingTo(d)
      BY <1>1 DEF SendingTo, serverVars
    <3> QED
      BY <1>3, <3>1
  <2>2. \A d \in Clients : phase'[d] # "closed" /\ d # c =>
          stream'[d] = << >> /\ asked'[d] = << >> /\ refused'[d] = 0
    BY <1>1, <1>2, <1>3, <1>5 DEF ReplyInv, clientVars
  <2>3. pc' = "send" /\ Answering' = Answering
    BY <1>1 DEF serverVars, Answering
  <2>4. Laid(Vectors(words'), ptr', stream'[c])
    BY <1>1, <1>4, <1>6, LaidLess DEF clientVars
  <2>5. \A h \in Handlers : output'[h] = EmptyBuffer \/ h = Answering
    BY <1>1, <1>2 DEF ReplyInv
  <2>6. output' = output /\ ptr' + left' = Len(output'[Answering].bytes)
    BY <1>1, <1>6, <1>7
  <2> QED
    BY <1>1, <1>5, <1>6, <1>7, <2>1, <2>2, <2>3, <2>4, <2>5, <2>6 DEF ReplyInv
<1>13. NothingLeftOut'
  BY <1>1, <1>2, ClosedStay DEF clientVars
<1> QED
  BY <1>8, <1>9, <1>10, <1>11, <1>12, <1>13 DEF Inv
-----------------------------------------------------------------------------
\* Every step keeps the invariant.
LEMMA InvInductive == Inv /\ [Next]_vars => Inv'
<1> SUFFICES ASSUME Inv, [Next]_vars PROVE Inv'
  OBVIOUS
<1>1. CASE Start
  BY <1>1, StartKeeps
<1>2. CASE StartFails
  BY <1>2, ExitKeeps DEF StartFails
<1>3. CASE Poll
  BY <1>3, PollKeeps
<1>4. CASE NewConn
  BY <1>4, NewConnKeeps
<1>5. CASE NewConnFails
  BY <1>5, ExitKeeps DEF NewConnFails, Handling
<1>6. ASSUME NEW f \in Fds, ReadRequest(f) PROVE Inv'
  BY <1>6, ReadRequestKeeps
<1>7. ASSUME NEW f \in Fds, ReadEof(f) PROVE Inv'
  BY <1>7, ReadEofKeeps
<1>8. ASSUME NEW f \in Fds, ReadFails(f) PROVE Inv'
  BY <1>8, ExitKeeps DEF ReadFails, Handling
<1>9. ASSUME NEW f \in Fds, SendSome(f) PROVE Inv'
  BY <1>9, SendSomeKeeps
<1>10. ASSUME NEW f \in Fds, SendFails(f) PROVE Inv'
  BY <1>10, SendFailsKeeps
<1>11. ASSUME NEW f \in Fds, SendDone(f) PROVE Inv'
  BY <1>11, SendDoneKeeps
<1>12. CASE Client
  BY <1>12, ConnectKeeps, SendSegmentKeeps, LeaveKeeps, DrainKeeps DEF Client
<1>13. CASE UNCHANGED vars
  <2>1. UNCHANGED <<phase, peer, toSend, inbox, queued, stream, backlog, serverVars, replyVars>>
    BY <1>13 DEF vars, clientVars
  <2>2. TypeOK'
    BY <2>1 DEF Inv, TypeOK, serverVars, replyVars
  <2>3. \A f \in {Listening} \cup Fds : Readable(f) => Readable(f)'
    BY <2>1 DEF Readable, serverVars
  <2> QED
    BY <2>1, <2>2, <2>3, TrafficKeeps
<1> QED
  BY <1>1, <1>2, <1>3, <1>4, <1>5, <1>6, <1>7, <1>8, <1>9, <1>10, <1>11, <1>12, <1>13
  DEF Next, Server

\* The inductive invariant holds in every behaviour.
THEOREM ReactorInvariant == Spec => []Inv
<1> QED
  BY InitHolds, InvInductive, PTL DEF Spec

(***************************************************************************)
(* Every raw pointer that is still to be handled leads to a live Handler,  *)
(* whatever was closed, accepted and replaced in the same round            *)
(* (Epoller::poll, Server::newConn, EventLoop::loop).                      *)
(***************************************************************************)
THEOREM PointersStayLive == Spec => []PendingEventsLive
<1>1. Inv => PendingEventsLive
  BY DEF Inv, EventInv
<1> QED
  BY <1>1, ReactorInvariant, PTL

(***************************************************************************)
(* A descriptor is open exactly while epoll holds its Handler, the one of  *)
(* handlerMap, and no two descriptors share one (Server::newConn, read and *)
(* write).                                                                 *)
(***************************************************************************)
THEOREM HandlersAreNotShared == Spec => []OneHandlerPerConnection
<1>1. Inv => OneHandlerPerConnection
  <2> SUFFICES ASSUME Inv PROVE OneHandlerPerConnection
    OBVIOUS
  <2>1. DOMAIN epoll = {Listening} \cup Fds
    BY DEF Inv, TypeOK
  <2> QED
    BY <2>1 DEF Inv, HandlerInv, OneHandlerPerConnection
<1> QED
  BY <1>1, ReactorInvariant, PTL

(***************************************************************************)
(* Whatever writes failed, and however few bytes the others took, a client *)
(* that is closed after its question has been sent all vectors that it     *)
(* asked for, in their order (Buffer::sendFd, Server::write).              *)
(***************************************************************************)
THEOREM FailedWritesLeaveNothingOut == Spec => []NothingLeftOut
<1>1. Inv => NothingLeftOut
  BY DEF Inv
<1> QED
  BY <1>1, ReactorInvariant, PTL
-----------------------------------------------------------------------------
\* The replies of WordService: what was sent to those that were answered.
Reply == [c \in Clients |-> IF Answered(c) THEN <<stream[c]>> ELSE << >>]

\* A step that answers nobody, and sends nothing to those who were answered, leaves
\* the replies as they are.
LEMMA RepliesStay ==
    ASSUME \A c \in Clients : /\ (phase'[c] = "closed" /\ asked'[c] # << >> /\ refused'[c] = 0)
                                    <=> Answered(c)
                              /\ Answered(c) => stream'[c] = stream[c]
    PROVE  Reply' = Reply
<1>1. \A c \in Clients : Answered(c)' <=> Answered(c)
  BY DEF Answered
<1> QED
  BY <1>1 DEF Reply

\* A step that only moves connections between phases, but closes none, is no step of
\* WordService.
LEMMA MovesAreStutter ==
    ASSUME \A c \in Clients : phase'[c] = "closed" <=> phase[c] = "closed",
           pc # "exit" <=> pc' # "exit",
           UNCHANGED <<stream, asked, refused>>
    PROVE  UNCHANGED <<asked, Reply, pc # "exit">>
<1>1. Reply' = Reply
  BY RepliesStay DEF Answered
<1> QED
  BY <1>1

\* The end of the process is the end of the service.
LEMMA ExitIsGoDown ==
    ASSUME pc # "exit", Exit, UNCHANGED <<phase, stream, asked, refused>>
    PROVE  Promise!GoDown
<1>1. Reply' = Reply
  BY RepliesStay DEF Answered
<1> QED
  BY <1>1 DEF Promise!GoDown, Exit, Reply

\* A request that is read is a question.
LEMMA RequestIsAsk ==
    ASSUME Inv, NEW f \in Fds, ReadRequest(f)
    PROVE  Promise!GoDown \/ \E c \in Clients : Promise!Ask(c)
<1> DEFINE request == ReadAllAsString(AppendTo(EmptyBuffer, inbox[fdOf[f]]))
<1>1. PICK c \in Clients : c = fdOf[f] /\ phase[c] = "open"
  BY CurrentEvent DEF ReadRequest, Handling
<1>2. /\ pc = "handle" /\ Write(f, request)
      /\ UNCHANGED <<phase, stream, refused>>
  BY <1>1 DEF ReadRequest, Handling
<1>3. request \in Seq(Tokens)
  <2>1. inbox[c] \in Seq(Tokens)
    BY DEF Inv, TypeOK
  <2> QED
    BY <1>1, <2>1, AppendToEmpty
<1> HIDE DEF request
<1>4. CASE "line" \in ToSet(request)
  <2>1. asked' = [asked EXCEPT ![c] = <<Parsed(request)>>] /\ pc' = "send"
    BY <1>1, <1>2, <1>4 DEF Write
  <2>2. PICK question \in Seq(Tokens) : question = Parsed(request)
    BY <1>3, ParsedIsSequence
  <2>3. ~SendingTo(c) /\ asked \in [Clients -> Seq(Seq(Tokens))]
    BY <1>2 DEF Inv, TypeOK, SendingTo
  <2>4. asked[c] = << >>
    BY <1>1, <2>3 DEF Inv, ReplyInv
  <2>5. /\ asked'[c] = <<question>>
        /\ \A d \in Clients \ {c} : asked'[d] = asked[d]
    BY <2>1, <2>2, <2>3
  <2>6. Reply' = Reply
    <3>1. \A d \in Clients : phase[d] = "closed" => d # c
      BY <1>1
    <3> QED
      BY <1>2, <2>5, <3>1, RepliesStay DEF Answered
  <2>7. Len(asked'[c]) = 1 /\ asked'[c][1] \in Seq(Tokens)
    BY <2>5
  <2>8. Promise!Ask(c)
    BY <1>2, <2>1, <2>4, <2>5, <2>6, <2>7 DEF Promise!Ask, Reply
  <2> QED
    BY <2>8
<1>5. CASE "line" \notin ToSet(request)
  <2>1. Exit /\ UNCHANGED <<phase, stream, asked, refused>> /\ pc # "exit"
    BY <1>2, <1>5 DEF Write
  <2> QED
    BY <2>1, ExitIsGoDown
<1> QED
  BY <1>4, <1>5

\* A connection that is closed without a request was not asked and is not answered.
LEMMA EofIsStutter ==
    ASSUME Inv, NEW f \in Fds, ReadEof(f)
    PROVE  UNCHANGED <<asked, Reply, pc # "exit">>
<1>1. /\ pc = "handle" /\ actionEvents[i].fd = f /\ CloseFd(f)
      /\ UNCHANGED <<asked, refused>> /\ stream' = stream
  BY DEF ReadEof, Handling, CloseFd, replyVars
<1>2. /\ pc' \in {"handle", "poll"} /\ fdOf[f] \in Clients
      /\ phase' = [phase EXCEPT ![fdOf[f]] = "closed"]
  BY <1>1, CloseFdKeeps
<1>3. PICK c \in Clients : c = fdOf[f] /\ phase[c] = "open"
  BY <1>1, CurrentEvent
<1>4. asked[c] = << >>
  <2>1. ~SendingTo(c)
    BY <1>1 DEF SendingTo
  <2> QED
    BY <1>3, <2>1 DEF Inv, ReplyInv
<1>5. \A d \in Clients : d # c => phase'[d] = phase[d]
  BY <1>2, <1>3 DEF Inv, TypeOK
<1>6. Reply' = Reply
  BY <1>1, <1>4, <1>5, RepliesStay DEF Answered
<1> QED
  BY <1>1, <1>2, <1>6

\* What sendFd sends is not yet a reply.
LEMMA SendIsStutter ==
    ASSUME Inv, NEW f \in Fds, SendSome(f) \/ SendFails(f)
    PROVE  UNCHANGED <<asked, Reply, pc # "exit">>
<1>1. /\ pc = "send" /\ actionEvents[i].fd = f
      /\ UNCHANGED <<phase, asked, pc>>
  BY DEF SendSome, SendFails, Sending, clientVars, serverVars
<1>2. PICK c \in Clients : c = fdOf[f] /\ phase[c] = "open"
  BY <1>1, CurrentEvent
<1>3. \A d \in Clients : d # c => stream'[d] = stream[d] /\ refused'[d] = refused[d]
  BY <1>2 DEF SendSome, SendFails, clientVars, Inv, TypeOK
<1>4. Reply' = Reply
  BY <1>1, <1>2, <1>3, RepliesStay DEF Answered
<1> QED
  BY <1>1, <1>4

\* The end of sendFd is the answer, unless a write failed.
LEMMA SendDoneIsAnswer ==
    ASSUME Inv, NEW f \in Fds, SendDone(f)
    PROVE  (\E c \in Clients : Promise!Answer(c)) \/ UNCHANGED <<asked, Reply, pc # "exit">>
<1>1. /\ pc = "send" /\ actionEvents[i].fd = f /\ left = 0 /\ CloseFd(f)
      /\ UNCHANGED <<asked, refused>> /\ stream' = stream
  BY DEF SendDone, Sending, CloseFd
<1>2. /\ pc' \in {"handle", "poll"} /\ fdOf[f] \in Clients
      /\ phase' = [phase EXCEPT ![fdOf[f]] = "closed"]
  BY <1>1, CloseFdKeeps
<1>3. PICK c \in Clients : c = fdOf[f] /\ phase[c] = "open"
  BY <1>1, CurrentEvent
<1>4. /\ phase'[c] = "closed"
      /\ \A d \in Clients : d # c => phase'[d] = phase[d]
  BY <1>2, <1>3 DEF Inv, TypeOK
<1>5. SendingTo(c)
  BY <1>1, <1>3 DEF SendingTo
<1>6. /\ output[Answering].bytes = Vectors(words)
      /\ ptr + left = Len(output[Answering].bytes)
      /\ refused[c] = 0 => stream[c] = SubSeq(Vectors(words), 1, ptr)
      /\ Len(asked[c]) = 1 /\ \E before \in Seq(Tokens) : words = before \o asked[c][1]
  BY <1>5 DEF Inv, ReplyInv
<1>7. asked \in [Clients -> Seq(Seq(Tokens))] /\ words \in Seq(Tokens) /\ ptr \in Int
  BY DEF Inv, TypeOK
<1>8. PICK q \in Seq(Seq(Tokens)) : q = asked[c] /\ Len(q) = 1
  BY <1>6, <1>7
<1>9. q[1] \in Seq(Tokens) /\ q # << >>
  <2>1. 1 \in DOMAIN q
    BY <1>8
  <2> QED
    BY <2>1
<1>10. CASE refused[c] = 0
  <2>1. PICK reply \in Seq(Sent) : reply = Vectors(words)
    BY <1>7, VectorsIsSequence
  <2>2. stream[c] = reply
    <3>1. ptr = Len(reply)
      BY <1>1, <1>6, <1>7, <2>1
    <3>2. SubSeq(reply, 1, Len(reply)) = reply
      OBVIOUS
    <3> QED
      BY <1>6, <1>10, <2>1, <3>1, <3>2
  <2>3. IsSuffix(Vectors(q[1]), reply)
    <3>1. PICK before \in Seq(Tokens) : words = before \o q[1]
      BY <1>6, <1>8
    <3>2. reply = Vectors(before) \o Vectors(q[1])
      BY <1>9, <2>1, <3>1, VectorsOfBoth
    <3>3. Vectors(before) \in Seq(Sent) /\ Vectors(q[1]) \in Seq(Sent)
      BY <1>9, VectorsIsSequence
    <3> QED
      BY <3>2, <3>3, LastIsSuffix
  <2>4. /\ Reply[c] = << >> /\ Reply'[c] = <<reply>>
        /\ \A d \in Clients \ {c} : Reply'[d] = Reply[d]
    <3>1. Answered(c)' /\ ~Answered(c) /\ \A d \in Clients \ {c} : Answered(d)' <=> Answered(d)
      BY <1>1, <1>3, <1>4, <1>8, <1>9, <1>10 DEF Answered
    <3> QED
      BY <1>1, <2>2, <3>1 DEF Reply
  <2>5. Len(Reply'[c]) = 1 /\ IsSuffix(Vectors(asked[c][1]), Reply'[c][1])
    BY <1>8, <2>3, <2>4
  <2>6. Promise!Answer(c)
    <3>1. pc # "exit" /\ pc' # "exit" /\ asked' = asked /\ asked[c] # << >>
      BY <1>1, <1>2, <1>8, <1>9
    <3>2. Promise!IsSuffix(Vectors(asked[c][1]), Reply'[c][1])
      BY <2>5 DEF Promise!IsSuffix, IsSuffix, Promise!IsPrefix, IsPrefix, Promise!Reverse, Reverse
    <3> QED
      BY <2>4, <2>5, <3>1, <3>2 DEF Promise!Answer, Reply
  <2> QED
    BY <2>6
<1>11. CASE refused[c] # 0
  <2>1. Reply' = Reply
    BY <1>1, <1>3, <1>4, <1>11, RepliesStay DEF Answered
  <2> QED
    BY <1>1, <1>2, <2>1
<1> QED
  BY <1>10, <1>11

\* Every step of the reactor is a step of WordService, or none.
LEMMA StepIsPromised ==
    ASSUME Inv, [Next]_vars
    PROVE  Promise!Next \/ UNCHANGED <<asked, Reply, pc # "exit">>
<1>1. CASE Start \/ Poll
  <2>1. \A c \in Clients : phase'[c] = "closed" <=> phase[c] = "closed"
    BY <1>1 DEF Start, Poll, clientVars
  <2>2. (pc # "exit" <=> pc' # "exit") /\ UNCHANGED <<stream, asked, refused>>
    BY <1>1 DEF Start, Poll, clientVars, replyVars
  <2> QED
    BY <2>1, <2>2, MovesAreStutter
<1>2. CASE StartFails \/ NewConnFails \/ \E f \in Fds : ReadFails(f)
  <2>1. pc # "exit" /\ Exit /\ UNCHANGED <<phase, stream, asked, refused>>
    BY <1>2 DEF StartFails, NewConnFails, ReadFails, Handling, clientVars, replyVars
  <2> QED
    BY <2>1, ExitIsGoDown DEF Promise!Next
<1>3. CASE NewConn
  <2>1. /\ pc = "handle" /\ actionEvents[i].fd = Listening
        /\ phase' = [phase EXCEPT ![Head(backlog)] = "open"]
        /\ NextEvent /\ UNCHANGED <<stream, asked, refused>>
    BY <1>3 DEF NewConn, Handling, replyVars
  <2>2. pc' \in {"handle", "poll"}
    BY <2>1 DEF NextEvent
  <2>3. phase[Head(backlog)] = "queued"
    <3>1. TypeOK /\ FdInv /\ EventInv
      BY DEF Inv
    <3>2. i \in DOMAIN actionEvents /\ i \in Nat
      BY <2>1, <3>1 DEF EventInv, TypeOK
    <3>3. Readable(Listening)
      BY <2>1, <3>1, <3>2 DEF EventInv, PendingEventsLive
    <3>4. backlog # << >> /\ backlog \in Seq(Clients)
      BY <3>1, <3>3 DEF Readable, TypeOK
    <3>5. 1 \in DOMAIN backlog /\ Head(backlog) = backlog[1]
      BY <3>4
    <3> QED
      BY <3>1, <3>5 DEF FdInv
  <2>4. phase \in [Clients -> {"new", "queued", "open", "closed"}]
    BY DEF Inv, TypeOK
  <2>5. \A c \in Clients : phase'[c] = "closed" <=> phase[c] = "closed"
    BY <2>1, <2>3, <2>4
  <2>6. pc # "exit" <=> pc' # "exit"
    BY <2>1, <2>2
  <2> QED
    BY <2>1, <2>5, <2>6, MovesAreStutter
<1>4. ASSUME NEW f \in Fds, ReadRequest(f)
      PROVE  Promise!Next
  BY <1>4, RequestIsAsk DEF Promise!Next
<1>5. ASSUME NEW f \in Fds, ReadEof(f) \/ SendSome(f) \/ SendFails(f)
      PROVE  UNCHANGED <<asked, Reply, pc # "exit">>
  BY <1>5, EofIsStutter, SendIsStutter
<1>6. ASSUME NEW f \in Fds, SendDone(f)
      PROVE  Promise!Next \/ UNCHANGED <<asked, Reply, pc # "exit">>
  BY <1>6, SendDoneIsAnswer DEF Promise!Next
<1>7. CASE Client
  <2>1. UNCHANGED <<stream, asked, refused, pc>>
    BY <1>7 DEF Client, Connect, SendSegment, Leave, Drain, serverVars, replyVars
  <2>2. phase \in [Clients -> {"new", "queued", "open", "closed"}]
    BY DEF Inv, TypeOK
  <2>3. \A c \in Clients : phase'[c] = "closed" <=> phase[c] = "closed"
    BY <1>7, <2>2 DEF Client, Connect, SendSegment, Leave, Drain
  <2> QED
    BY <2>1, <2>3, MovesAreStutter
<1>8. CASE UNCHANGED vars
  BY <1>8, MovesAreStutter DEF vars, clientVars, serverVars, replyVars
<1> QED
  BY <1>1, <1>2, <1>3, <1>4, <1>5, <1>6, <1>7, <1>8 DEF Next, Server

(***************************************************************************)
(* The reactor implements WordService: each client's question is taken and *)
(* answered at most once, and the reply ends with the vectors of what was  *)
(* read from this client, as long as no write fails (Server::read, write). *)
(***************************************************************************)
THEOREM ReactorIsWordService == Spec => ImplementsService
<1>1. Init => Promise!Init
  BY DEF Init, Promise!Init, Answered
<1>2. Inv /\ [Next]_vars => [Promise!Next]_<<asked, Reply, pc # "exit">>
  BY StepIsPromised
<1>3. Inv /\ [Next]_vars =>
        [Promise!Next]_<<asked,
                         [c \in Clients |-> IF Answered(c) THEN <<stream[c]>> ELSE << >>],
                         pc # "exit">>
  BY <1>2 DEF Reply
<1> QED
  BY <1>1, <1>3, ReactorInvariant, PTL DEF Spec, ImplementsService, Promise!Spec
===============================================================================

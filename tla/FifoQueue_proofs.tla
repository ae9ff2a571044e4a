--------------------------- MODULE FifoQueue_proofs ---------------------------
(***************************************************************************)
(* What erasing the elements of a set from a queue keeps.  Rank numbers    *)
(* the surviving positions: it is injective into 1..n, n their number,     *)
(* hence onto by counting, so that every surviving element has a place in  *)
(* the result, and no induction over the queue is needed.                  *)
(***************************************************************************)
EXTENDS FifoQueue, FiniteSetTheorems, FunctionTheorems, TLAPS

(* The surviving positions are finitely many naturals.                     *)
LEMMA KeptFinite ==
  ASSUME NEW T, NEW s \in Seq(T), NEW S
  PROVE  /\ IsFiniteSet(Kept(s, S))
         /\ Kept(s, S) \subseteq 1 .. Len(s)
         /\ Cardinality(Kept(s, S)) \in Nat
<1>1. Kept(s, S) \subseteq 1 .. Len(s) /\ Len(s) \in Nat
  BY DEF Kept
<1>2. IsFiniteSet(1 .. Len(s))
  BY <1>1, FS_Interval
<1>3. IsFiniteSet(Kept(s, S))
  BY <1>1, <1>2, FS_Subset
<1> QED
  BY <1>1, <1>3, FS_CardinalityType

(* Rank counts the members of a finite set of integers: it is a bijection  *)
(* from the set onto 1 .. its size.                                        *)
LEMMA RankBijection ==
  ASSUME NEW I, I \subseteq Int, IsFiniteSet(I)
  PROVE  [i \in I |-> Rank(I, i)] \in Bijection(I, 1 .. Cardinality(I))
<1> DEFINE Below(i) == {j \in I : j <= i}
           F == [i \in I |-> Rank(I, i)]
<1>1. ASSUME NEW i \in I
      PROVE  /\ IsFiniteSet(Below(i))
             /\ Cardinality(Below(i)) \in 1 .. Cardinality(I)
  <2>1. /\ IsFiniteSet(Below(i))
        /\ Cardinality(Below(i)) <= Cardinality(I)
    BY FS_Subset
  <2>2. Cardinality(Below(i)) \in Nat /\ Cardinality(I) \in Nat
    BY <2>1, FS_CardinalityType
  <2>3. i \in Below(i)
    OBVIOUS
  <2>4. Cardinality(Below(i)) # 0
    BY <2>1, <2>3, FS_EmptySet
  <2> QED
    BY <2>1, <2>2, <2>4
<1>2. F \in [I -> 1 .. Cardinality(I)]
  BY <1>1 DEF Rank
<1>3. ASSUME NEW i \in I, NEW j \in I, i < j
      PROVE  F[i] # F[j]
  <2>1. Below(i) \in SUBSET Below(j)
    <3>1. \A k \in I : k \in Int
      OBVIOUS
    <3>2. \A k \in I : k <= i => k <= j
      BY <1>3, <3>1
    <3> QED
      BY <3>2
  <2>2. j \in Below(j) /\ j \notin Below(i)
    BY <1>3
  <2>3. Cardinality(Below(j)) # Cardinality(Below(i))
    BY <2>1, <2>2, <1>1, FS_Subset
  <2> QED
    BY <2>3 DEF Rank
<1>4. \A i, j \in I : F[i] = F[j] => i = j
  <2> SUFFICES ASSUME NEW i \in I, NEW j \in I, F[i] = F[j]
               PROVE  i = j
    OBVIOUS
  <2> HIDE DEF F
  <2> QED
    BY <1>3
<1> HIDE DEF F
<1>5. F \in Injection(I, 1 .. Cardinality(I))
  BY <1>2, <1>4, Fun_IsInj
<1>6. Cardinality(I) \in Nat
  BY FS_CardinalityType
<1>7. /\ IsFiniteSet(1 .. Cardinality(I))
      /\ Cardinality(1 .. Cardinality(I)) = Cardinality(I)
  BY <1>6, FS_Interval
<1>8. F \in Surjection(I, 1 .. Cardinality(I))
  BY <1>5, <1>7, FS_Injection
<1>9. F \in Bijection(I, 1 .. Cardinality(I))
  BY <1>5, <1>8, Fun_IsBij
<1> QED
  BY <1>9 DEF F

(* The places of the result and the surviving positions correspond one to  *)
(* one: place n holds the element of the position of rank n.               *)
LEMMA WithoutPlaces ==
  ASSUME NEW T, NEW s \in Seq(T), NEW S
  PROVE  LET K == Kept(s, S)
         IN  /\ DOMAIN Without(s, S) = 1 .. Cardinality(K)
             /\ \A n \in 1 .. Cardinality(K) :
                  \E i \in K : Rank(K, i) = n /\ Without(s, S)[n] = s[i]
             /\ \A i \in K : /\ Rank(K, i) \in 1 .. Cardinality(K)
                             /\ Without(s, S)[Rank(K, i)] = s[i]
<1> DEFINE K == Kept(s, S)
           F == [i \in K |-> Rank(K, i)]
           at(n) == CHOOSE i \in K : Rank(K, i) = n
<1>1. IsFiniteSet(K) /\ K \subseteq Int
  BY KeptFinite
<1>2. F \in Bijection(K, 1 .. Cardinality(K))
  BY <1>1, RankBijection
<1>3. /\ \A i \in K : Rank(K, i) \in 1 .. Cardinality(K)
      /\ \A i, j \in K : Rank(K, i) = Rank(K, j) => i = j
      /\ \A n \in 1 .. Cardinality(K) : \E i \in K : Rank(K, i) = n
  <2>1. /\ F \in [K -> 1 .. Cardinality(K)]
        /\ \A i, j \in K : F[i] = F[j] => i = j
        /\ \A n \in 1 .. Cardinality(K) : \E i \in K : F[i] = n
    <3> DEFINE N == 1 .. Cardinality(K)
    <3>1. F \in Bijection(K, N)
      BY <1>2
    <3> HIDE DEF F, K, N
    <3>2. /\ F \in [K -> N]
          /\ \A i, j \in K : F[i] = F[j] => i = j
          /\ \A n \in N : \E i \in K : F[i] = n
      BY <3>1, Fun_BijectionProperties
    <3> QED
      BY <3>2 DEF N
  <2>2. \A i \in K : F[i] = Rank(K, i)
    OBVIOUS
  <2> HIDE DEF F, K
  <2> QED
    BY <2>1, <2>2
<1>4. Without(s, S) = [n \in 1 .. Cardinality(K) |-> s[at(n)]]
  BY DEF Without
<1> HIDE DEF K
<1>5. \A n \in 1 .. Cardinality(K) : at(n) \in K /\ Rank(K, at(n)) = n
  BY <1>3
<1>6. \A i \in K : at(Rank(K, i)) = i
  BY <1>3, <1>5
<1>7. /\ DOMAIN Without(s, S) = 1 .. Cardinality(K)
      /\ \A n \in 1 .. Cardinality(K) :
           \E i \in K : Rank(K, i) = n /\ Without(s, S)[n] = s[i]
      /\ \A i \in K : /\ Rank(K, i) \in 1 .. Cardinality(K)
                      /\ Without(s, S)[Rank(K, i)] = s[i]
  BY <1>3, <1>4, <1>5, <1>6
<1> QED
  BY <1>7 DEF K

(* Erasing yields a queue of the same element type, with exactly the       *)
(* elements that were not erased: nothing else is lost from fifoFrames     *)
(* when a process is destroyed or a page evicted.                          *)
LEMMA WithoutRange ==
  ASSUME NEW T, NEW s \in Seq(T), NEW S
  PROVE  /\ Without(s, S) \in Seq(T)
         /\ Range(Without(s, S)) = Range(s) \ S
<1> DEFINE K == Kept(s, S)
           w == Without(s, S)
<1>1. /\ DOMAIN w = 1 .. Cardinality(K)
      /\ \A n \in 1 .. Cardinality(K) : \E i \in K : w[n] = s[i]
      /\ \A i \in K : \E n \in 1 .. Cardinality(K) : w[n] = s[i]
  BY WithoutPlaces
<1>2. Cardinality(K) \in Nat
  BY KeptFinite
<1>3. \A i \in K : i \in DOMAIN s /\ s[i] \notin S /\ s[i] \in T
  BY DEF Kept
<1>4. \A i \in DOMAIN s : s[i] \notin S => i \in K
  BY DEF Kept
<1>5. w = [n \in 1 .. Cardinality(K) |-> w[n]]
  BY DEF Without
<1> HIDE DEF K, w
<1>6. w \in Seq(T)
  BY <1>1, <1>2, <1>3, <1>5
<1>7. Range(w) = Range(s) \ S
  BY <1>1, <1>3, <1>4 DEF Range
<1> QED
  BY <1>6, <1>7 DEF w

(* Erasing from a queue without repetitions introduces none.               *)
THEOREM WithoutInjective ==
  ASSUME NEW T, NEW s \in Seq(T), NEW S, IsInjective(s)
  PROVE  IsInjective(Without(s, S))
<1> DEFINE K == Kept(s, S)
           w == Without(s, S)
<1>1. /\ DOMAIN w = 1 .. Cardinality(K)
      /\ \A n \in 1 .. Cardinality(K) :
           \E i \in K : Rank(K, i) = n /\ w[n] = s[i]
  BY WithoutPlaces
<1>2. \A i \in K : i \in DOMAIN s
  BY DEF Kept
<1> HIDE DEF K, w
<1>3. ASSUME NEW a \in DOMAIN w, NEW b \in DOMAIN w, w[a] = w[b]
      PROVE  a = b
  <2>1. PICK i \in K : Rank(K, i) = a /\ w[a] = s[i]
    BY <1>1
  <2>2. PICK j \in K : Rank(K, j) = b /\ w[b] = s[j]
    BY <1>1
  <2>3. i = j
    BY <1>2, <1>3, <2>1, <2>2 DEF IsInjective
  <2> QED
    BY <2>1, <2>2, <2>3
<1> QED
  BY <1>3 DEF IsInjective, w

(* Queueing a frame that is not queued adds it and repeats nothing.        *)
THEOREM AppendNew ==
  ASSUME NEW T, NEW s \in Seq(T), NEW e \in T, IsInjective(s), e \notin Range(s)
  PROVE  /\ Append(s, e) \in Seq(T)
         /\ IsInjective(Append(s, e))
         /\ Range(Append(s, e)) = Range(s) \cup {e}
<1> DEFINE t == Append(s, e)
<1>1. /\ t \in Seq(T)
      /\ Len(s) \in Nat
      /\ DOMAIN s = 1 .. Len(s)
      /\ DOMAIN t = 1 .. Len(s) + 1
      /\ \A i \in 1 .. Len(s) : t[i] = s[i]
      /\ t[Len(s) + 1] = e
  OBVIOUS
<1> HIDE DEF t
<1>2. \A i \in 1 .. Len(s) : s[i] # e
  BY <1>1 DEF Range
<1>3. IsInjective(t)
  <2> SUFFICES ASSUME NEW a \in DOMAIN t, NEW b \in DOMAIN t, t[a] = t[b]
               PROVE  a = b
    BY DEF IsInjective
  <2>1. CASE a = Len(s) + 1
    BY <1>1, <1>2, <2>1
  <2>2. CASE b = Len(s) + 1
    BY <1>1, <1>2, <2>2
  <2>3. CASE a \in 1 .. Len(s) /\ b \in 1 .. Len(s)
    BY <1>1, <2>3 DEF IsInjective
  <2> QED
    BY <1>1, <2>1, <2>2, <2>3
<1>4. Range(t) = Range(s) \cup {e}
  BY <1>1 DEF Range
<1> QED
  BY <1>1, <1>3, <1>4 DEF t

(* The victim search finds a victim whenever the queue holds an element    *)
(* that is not to be skipped: the one whose position has rank 1.           *)
LEMMA FirstOutsideExists ==
  ASSUME NEW T, NEW s \in Seq(T), NEW S, Range(s) \ S # {}
  PROVE  \E f \in T : IsFirstOutside(s, S, f)
<1> DEFINE K == Kept(s, S)
<1>1. K # {} /\ \A i \in K : i \in DOMAIN s /\ s[i] \notin S /\ s[i] \in T
  BY DEF Kept, Range
<1>2. IsFiniteSet(K) /\ K \subseteq 1 .. Len(s) /\ Len(s) \in Nat
  BY KeptFinite
<1>3. Cardinality(K) \in Nat /\ Cardinality(K) # 0
  BY <1>1, <1>2, FS_CardinalityType, FS_EmptySet
<1>4. PICK i \in K : Rank(K, i) = 1
  <2>1. 1 \in 1 .. Cardinality(K)
    BY <1>3
  <2> QED
    BY <2>1, WithoutPlaces
<1> HIDE DEF K
<1>5. ASSUME NEW j \in K, j < i
      PROVE  FALSE
  <2> DEFINE B == {k \in K : k <= i}
  <2>1. IsFiniteSet(B) /\ Cardinality(B) = 1
    BY <1>2, <1>4, FS_Subset DEF Rank
  <2>2. i \in B /\ j \in B
    BY <1>2, <1>5
  <2> HIDE DEF B
  <2>3. PICK x : B = {x}
    BY <2>1, FS_Singleton
  <2> QED
    BY <1>2, <1>5, <2>2, <2>3
<1>6. \A j \in 1 .. i - 1 : s[j] \in S
  <2> SUFFICES ASSUME NEW j \in 1 .. i - 1, s[j] \notin S
               PROVE  FALSE
    OBVIOUS
  <2>1. i \in 1 .. Len(s)
    BY <1>2
  <2>2. j \in DOMAIN s /\ j < i
    BY <1>2, <2>1
  <2>3. j \in K
    BY <2>2 DEF Kept, K
  <2> QED
    BY <1>5, <2>2, <2>3
<1> QED
  BY <1>1, <1>6 DEF IsFirstOutside

(* std::vector::push_back of several elements, none of them queued yet.    *)
THEOREM ConcatNew ==
  ASSUME NEW T, NEW s \in Seq(T), NEW t \in Seq(T),
         IsInjective(s), IsInjective(t), Range(s) \cap Range(t) = {}
  PROVE  /\ s \o t \in Seq(T)
         /\ IsInjective(s \o t)
         /\ Range(s \o t) = Range(s) \cup Range(t)
<1> DEFINE u == s \o t
<1>1. /\ u \in Seq(T)
      /\ Len(s) \in Nat /\ Len(t) \in Nat
      /\ DOMAIN s = 1 .. Len(s) /\ DOMAIN t = 1 .. Len(t)
      /\ DOMAIN u = 1 .. Len(s) + Len(t)
      /\ \A i \in 1 .. Len(s) : u[i] = s[i]
      /\ \A i \in 1 .. Len(t) : u[Len(s) + i] = t[i]
  OBVIOUS
<1> HIDE DEF u
<1>2. \A i \in DOMAIN u :
        i \notin DOMAIN s => i - Len(s) \in DOMAIN t /\ u[i] = t[i - Len(s)]
  <2> SUFFICES ASSUME NEW i \in DOMAIN u, i \notin DOMAIN s
               PROVE  i - Len(s) \in 1 .. Len(t) /\ u[i] = t[i - Len(s)]
    BY <1>1
  <2>1. i - Len(s) \in 1 .. Len(t) /\ i = Len(s) + (i - Len(s))
    BY <1>1
  <2> QED
    BY <1>1, <2>1
<1>3. Range(u) = Range(s) \cup Range(t)
  <2>1. Range(u) \subseteq Range(s) \cup Range(t)
    BY <1>1, <1>2 DEF Range
  <2>2. Range(s) \subseteq Range(u)
    BY <1>1 DEF Range
  <2>3. \A i \in DOMAIN t : Len(s) + i \in DOMAIN u
    BY <1>1
  <2>4. Range(t) \subseteq Range(u)
    BY <1>1, <2>3 DEF Range
  <2> QED
    BY <2>1, <2>2, <2>4
<1>4. ASSUME NEW i \in DOMAIN u, NEW j \in DOMAIN u, u[i] = u[j]
      PROVE  i = j
  <2>1. CASE i \in DOMAIN s /\ j \in DOMAIN s
    BY <1>1, <1>4, <2>1 DEF IsInjective
  <2>2. CASE i \notin DOMAIN s /\ j \notin DOMAIN s
    <3>1. i - Len(s) = j - Len(s)
      BY <1>2, <1>4, <2>2 DEF IsInjective
    <3> QED
      BY <1>1, <3>1
  <2>3. CASE i \in DOMAIN s /\ j \notin DOMAIN s
    BY <1>1, <1>2, <1>4, <2>3 DEF Range
  <2>4. CASE i \notin DOMAIN s /\ j \in DOMAIN s
    BY <1>1, <1>2, <1>4, <2>4 DEF Range
  <2> QED
    BY <2>1, <2>2, <2>3, <2>4
<1>5. IsInjective(u)
  BY <1>4 DEF IsInjective
<1> QED
  BY <1>1, <1>3, <1>5 DEF u
------------------------------------------------------------------------------
(* w is what s has at the positions of K, in their order: m tells which    *)
(* position each of its places stands for.                                 *)
Picks(m, w, s, K) ==
  /\ m \in [1 .. Len(w) -> K]
  /\ \A a, b \in 1 .. Len(w) : a < b => m[a] < m[b]
  /\ \A i \in K : \E n \in 1 .. Len(w) : m[n] = i
  /\ \A n \in 1 .. Len(w) : w[n] = s[m[n]]

(* A smaller position has a smaller rank.                                  *)
LEMMA RankAscends ==
  ASSUME NEW I, I \subseteq Int, IsFiniteSet(I), NEW i \in I, NEW j \in I, i <= j
  PROVE  Rank(I, i) <= Rank(I, j) /\ Rank(I, i) \in Nat /\ Rank(I, j) \in Nat
<1> DEFINE A == {k \in I : k <= i}
           B == {k \in I : k <= j}
<1>1. \A k \in I : k \in Int
  OBVIOUS
<1>2. A \subseteq B
  <2>1. \A k \in I : k <= i => k <= j
    BY <1>1
  <2> QED
    BY <2>1
<1>3. IsFiniteSet(B)
  BY FS_Subset
<1>4. IsFiniteSet(A) /\ Cardinality(A) <= Cardinality(B)
  BY <1>2, <1>3, FS_Subset
<1> QED
  BY <1>3, <1>4, FS_CardinalityType DEF Rank

(* What is left after erasing is picked in this sense ...                  *)
LEMMA WithoutPicks ==
  ASSUME NEW T, NEW s \in Seq(T), NEW S
  PROVE  \E m : Picks(m, Without(s, S), s, Kept(s, S))
<1> DEFINE K == Kept(s, S)
           w == Without(s, S)
           N == Cardinality(K)
           at(n) == CHOOSE i \in K : Rank(K, i) = n /\ w[n] = s[i]
           m == [n \in 1 .. N |-> at(n)]
<1>1. /\ DOMAIN w = 1 .. N
      /\ \A n \in 1 .. N : \E i \in K : Rank(K, i) = n /\ w[n] = s[i]
      /\ \A i \in K : Rank(K, i) \in 1 .. N /\ w[Rank(K, i)] = s[i]
  BY WithoutPlaces
<1>2. IsFiniteSet(K) /\ K \subseteq Int /\ N \in Nat
  BY KeptFinite
<1>3. w \in Seq(T) /\ Len(w) = N
  <2>1. w \in Seq(T)
    BY WithoutRange
  <2> HIDE DEF w, N
  <2> QED
    BY <2>1, <1>1, <1>2
<1>4. \A i, j \in K : Rank(K, i) = Rank(K, j) => i = j
  <2> DEFINE F == [i \in K |-> Rank(K, i)]
             M == 1 .. N
  <2>1. F \in Bijection(K, M)
    BY <1>2, RankBijection
  <2>2. \A i \in K : F[i] = Rank(K, i)
    OBVIOUS
  <2> HIDE DEF F, K, M
  <2>3. \A i, j \in K : F[i] = F[j] => i = j
    BY <2>1, Fun_BijectionProperties
  <2> QED
    BY <2>2, <2>3
<1> HIDE DEF K, w, N
<1>5. \A n \in 1 .. N : at(n) \in K /\ Rank(K, at(n)) = n /\ w[n] = s[at(n)]
  BY <1>1
<1>6. m \in [1 .. N -> K] /\ \A n \in 1 .. N : m[n] = at(n)
  BY <1>5
<1> HIDE DEF at, m
<1>7. ASSUME NEW a \in 1 .. N, NEW b \in 1 .. N, a < b
      PROVE  m[a] < m[b]
  <2>1. m[a] \in K /\ m[b] \in K /\ Rank(K, m[a]) = a /\ Rank(K, m[b]) = b
    BY <1>5, <1>6
  <2>2. m[b] <= m[a] => b <= a
    BY <2>1, <1>2, RankAscends
  <2>3. m[a] \in Int /\ m[b] \in Int
    BY <2>1, <1>2
  <2> QED
    BY <1>7, <2>2, <2>3
<1>8. ASSUME NEW i \in K
      PROVE  \E n \in 1 .. N : m[n] = i
  <2>1. /\ Rank(K, i) \in 1 .. N /\ m[Rank(K, i)] \in K
        /\ Rank(K, m[Rank(K, i)]) = Rank(K, i)
    BY <1>1, <1>5, <1>6
  <2> QED
    BY <2>1, <1>4
<1>9. Picks(m, w, s, K)
  BY <1>3, <1>5, <1>6, <1>7, <1>8 DEF Picks
<1> QED
  BY <1>9 DEF w, K

(* ... and nothing else is: the places of w count the positions they stand *)
(* for.                                                                    *)
LEMMA PicksIsWithout ==
  ASSUME NEW T, NEW s \in Seq(T), NEW w \in Seq(T), NEW S, NEW m,
         Picks(m, w, s, Kept(s, S))
  PROVE  w = Without(s, S)
<1> DEFINE K == Kept(s, S)
           N == Len(w)
           v == Without(s, S)
<1>1. IsFiniteSet(K) /\ K \subseteq Int /\ N \in Nat /\ DOMAIN w = 1 .. N
  BY KeptFinite
<1>2. /\ m \in [1 .. N -> K]
      /\ \A a, b \in 1 .. N : a < b => m[a] < m[b]
      /\ \A i \in K : \E n \in 1 .. N : m[n] = i
      /\ \A n \in 1 .. N : w[n] = s[m[n]]
  BY DEF Picks
<1>3. /\ DOMAIN v = 1 .. Cardinality(K)
      /\ \A i \in K : v[Rank(K, i)] = s[i]
  BY WithoutPlaces
<1>4. v \in Seq(T)
  BY WithoutRange
<1> HIDE DEF K, N, v
<1>5. \A a, b \in 1 .. N : m[a] \in K /\ m[a] \in Int /\ (m[a] <= m[b] <=> a <= b)
  <2> SUFFICES ASSUME NEW a \in 1 .. N, NEW b \in 1 .. N
               PROVE  m[a] \in K /\ m[a] \in Int /\ (m[a] <= m[b] <=> a <= b)
    OBVIOUS
  <2>1. m[a] \in K /\ m[b] \in K /\ m[a] \in Int /\ m[b] \in Int
    BY <1>1, <1>2
  <2>2. a \in Int /\ b \in Int
    BY <1>1
  <2>3. CASE a < b
    BY <2>1, <2>2, <2>3, <1>2
  <2>4. CASE b < a
    BY <2>1, <2>2, <2>4, <1>2
  <2>5. CASE a = b
    BY <2>1, <2>5
  <2> QED
    BY <2>1, <2>2, <2>3, <2>4, <2>5
<1>6. ASSUME NEW n \in 1 .. N
      PROVE  Rank(K, m[n]) = n
  <2> DEFINE R == {j \in K : j <= m[n]}
             G == [i \in 1 .. n |-> m[i]]
  <2>1. n \in Nat /\ 1 .. n \subseteq 1 .. N
    BY <1>1
  <2>2. \A i \in 1 .. n : m[i] \in R
    BY <2>1, <1>5
  <2>3. \A j \in R : \E i \in 1 .. n : m[i] = j
    <3> SUFFICES ASSUME NEW j \in R PROVE \E i \in 1 .. n : m[i] = j
      OBVIOUS
    <3>1. PICK i \in 1 .. N : m[i] = j
      BY <1>2
    <3>2. i <= n
      BY <3>1, <1>5
    <3> QED
      BY <3>1, <3>2, <2>1
  <2>4. \A i, j \in 1 .. n : m[i] = m[j] => i = j
    <3> SUFFICES ASSUME NEW i \in 1 .. n, NEW j \in 1 .. n, m[i] = m[j]
                 PROVE  i = j
      OBVIOUS
    <3>1. i \in 1 .. N /\ j \in 1 .. N /\ i \in Int /\ j \in Int
      BY <2>1
    <3>2. m[i] \in Int /\ (m[i] <= m[j] <=> i <= j) /\ (m[j] <= m[i] <=> j <= i)
      BY <3>1, <1>5
    <3> QED
      BY <3>1, <3>2
  <2> HIDE DEF R
  <2>5. /\ G \in [1 .. n -> R]
        /\ \A i, j \in 1 .. n : G[i] = G[j] => i = j
        /\ \A j \in R : \E i \in 1 .. n : G[i] = j
    BY <2>2, <2>3, <2>4
  <2> HIDE DEF G
  <2>6. G \in Bijection(1 .. n, R)
    BY <2>5, Fun_IsBij
  <2>7. ExistsBijection(1 .. n, R)
    BY <2>6, Fun_ExistsBij
  <2>8. IsFiniteSet(1 .. n) /\ Cardinality(1 .. n) = n
    BY <2>1, FS_Interval
  <2> QED
    BY <2>7, <2>8, FS_Bijection DEF R, Rank
<1>7. Cardinality(K) = N
  <2>1. /\ \A a, b \in 1 .. N : m[a] = m[b] => a = b
    BY <1>6
  <2>2. m \in Bijection(1 .. N, K)
    BY <2>1, <1>2, Fun_IsBij
  <2>3. ExistsBijection(1 .. N, K)
    BY <2>2, Fun_ExistsBij
  <2>4. IsFiniteSet(1 .. N) /\ Cardinality(1 .. N) = N
    BY <1>1, FS_Interval
  <2> QED
    BY <2>3, <2>4, FS_Bijection
<1>8. \A n \in 1 .. N : v[n] = w[n]
  BY <1>2, <1>3, <1>6
<1>9. v = w
  <2>1. DOMAIN v = DOMAIN w
    BY <1>1, <1>3, <1>7
  <2> QED
    BY <2>1, <1>1, <1>4, <1>8
<1> QED
  BY <1>9 DEF v

(* Only which elements are erased matters.                                 *)
LEMMA WithoutSame ==
  ASSUME NEW T, NEW s \in Seq(T), NEW S, NEW R,
         \A i \in DOMAIN s : s[i] \in S <=> s[i] \in R
  PROVE  Without(s, S) = Without(s, R)
<1>1. Kept(s, S) = Kept(s, R)
  BY DEF Kept
<1> QED
  BY <1>1 DEF Without

(* Nothing to erase: nothing changes.                                      *)
LEMMA WithoutNone ==
  ASSUME NEW T, NEW s \in Seq(T), NEW S, Range(s) \cap S = {}
  PROVE  Without(s, S) = s
<1> DEFINE m == [n \in 1 .. Len(s) |-> n]
<1>1. Kept(s, S) = 1 .. Len(s)
  BY DEF Kept, Range
<1>2. Picks(m, s, s, 1 .. Len(s))
  BY DEF Picks
<1> QED
  BY <1>1, <1>2, PicksIsWithout

(* What comes at the end and is not to be erased stays at the end.         *)
LEMMA WithoutConcat ==
  ASSUME NEW T, NEW s \in Seq(T), NEW t \in Seq(T), NEW S,
         Range(t) \cap S = {}
  PROVE  Without(s \o t, S) = Without(s, S) \o t
<1> DEFINE u == s \o t
           w == Without(s, S)
           v == w \o t
           K == Kept(s, S)
           J == Kept(u, S)
           k == Len(s)
           n == Len(w)
           l == Len(t)
<1>1. PICK m : Picks(m, w, s, K)
  BY WithoutPicks
<1>2. w \in Seq(T)
  BY WithoutRange
<1>3. /\ k \in Nat /\ l \in Nat /\ DOMAIN s = 1 .. k /\ DOMAIN t = 1 .. l
      /\ u \in Seq(T) /\ Len(u) = k + l /\ DOMAIN u = 1 .. k + l
      /\ \A i \in 1 .. k : u[i] = s[i]
      /\ \A i \in 1 .. l : u[k + i] = t[i]
      /\ \A i \in 1 .. l : t[i] \notin S
  BY DEF Range
<1>4. K \subseteq 1 .. k /\ \A i \in 1 .. k : i \in K <=> s[i] \notin S
  BY <1>3 DEF Kept
<1>5. \A i \in 1 .. k + l : i \in J <=> u[i] \notin S
  BY <1>3 DEF Kept
<1>6. J \subseteq 1 .. k + l
  BY <1>3 DEF Kept
<1> HIDE DEF u, w, K, J, k
<1>7. /\ n \in Nat /\ DOMAIN w = 1 .. n
      /\ v \in Seq(T) /\ Len(v) = n + l
      /\ \A i \in 1 .. n : v[i] = w[i]
      /\ \A i \in 1 .. l : v[n + i] = t[i]
  BY <1>2
<1>8. /\ m \in [1 .. n -> K]
      /\ \A a, b \in 1 .. n : a < b => m[a] < m[b]
      /\ \A i \in K : \E a \in 1 .. n : m[a] = i
      /\ \A a \in 1 .. n : w[a] = s[m[a]]
  BY <1>1 DEF Picks
<1> HIDE DEF n, l, v
<1> DEFINE m2 == [a \in 1 .. n + l |-> IF a <= n THEN m[a] ELSE k + (a - n)]
<1>9. \A a \in 1 .. n + l :
        \/ a \in 1 .. n /\ m2[a] = m[a] /\ m[a] \in K /\ m[a] \in 1 .. k
        \/ a - n \in 1 .. l /\ a > n /\ m2[a] = k + (a - n)
  <2> SUFFICES ASSUME NEW a \in 1 .. n + l
               PROVE  \/ a \in 1 .. n /\ m2[a] = m[a] /\ m[a] \in K /\ m[a] \in 1 .. k
                      \/ a - n \in 1 .. l /\ a > n /\ m2[a] = k + (a - n)
    OBVIOUS
  <2>1. CASE a <= n
    <3>1. a \in 1 .. n
      BY <2>1, <1>3, <1>7
    <3> QED
      BY <2>1, <3>1, <1>4, <1>8
  <2>2. CASE a > n
    <3>1. a - n \in 1 .. l /\ ~ (a <= n)
      BY <2>2, <1>3, <1>7
    <3> QED
      BY <2>2, <3>1
  <2> QED
    BY <2>1, <2>2, <1>3, <1>7
<1>10. \A i \in 1 .. k + l : i \in 1 .. k \/ (i - k \in 1 .. l /\ i = k + (i - k))
  BY <1>3
<1>11. /\ \A i \in K : i \in J
       /\ \A i \in 1 .. l : k + i \in J
  <2>1. 1 .. k \subseteq 1 .. k + l /\ \A i \in 1 .. l : k + i \in 1 .. k + l
    BY <1>3
  <2>2. \A i \in K : i \in 1 .. k /\ i \in 1 .. k + l /\ u[i] \notin S
    BY <1>3, <1>4, <2>1
  <2>3. \A i \in 1 .. l : k + i \in 1 .. k + l /\ u[k + i] \notin S
    BY <1>3, <2>1
  <2> QED
    BY <1>5, <2>2, <2>3
<1>12. m2 \in [1 .. n + l -> J]
  BY <1>9, <1>11
<1> HIDE DEF m2
<1>13. ASSUME NEW a \in 1 .. n + l, NEW b \in 1 .. n + l, a < b
       PROVE  m2[a] < m2[b]
  <2>1. CASE a \in 1 .. n /\ b \in 1 .. n
    <3>1. m2[a] = m[a] /\ m2[b] = m[b]
      BY <2>1, <1>7, <1>9
    <3> QED
      BY <2>1, <3>1, <1>8, <1>13
  <2>2. CASE b > n
    <3>1. m2[b] = k + (b - n) /\ b - n \in 1 .. l
      BY <2>2, <1>3, <1>7, <1>9
    <3>2. CASE m2[a] = m[a] /\ m[a] \in 1 .. k
      BY <3>1, <3>2, <1>3
    <3>3. CASE m2[a] = k + (a - n)
      BY <3>1, <3>3, <1>3, <1>7, <1>13
    <3> QED
      BY <3>2, <3>3, <1>9
  <2> QED
    BY <2>1, <2>2, <1>3, <1>7, <1>13
<1>14. ASSUME NEW i \in J
       PROVE  \E a \in 1 .. n + l : m2[a] = i
  <2>1. i \in 1 .. k + l
    BY <1>6
  <2>2. CASE i \in 1 .. k
    <3>1. i \in K
      BY <2>2, <1>3, <1>4, <1>5, <2>1
    <3>2. PICK a \in 1 .. n : m[a] = i
      BY <3>1, <1>8
    <3>3. a \in 1 .. n + l /\ m2[a] = m[a]
      BY <1>3, <1>7, <1>9
    <3> QED
      BY <3>2, <3>3
  <2>3. CASE i - k \in 1 .. l /\ i = k + (i - k)
    <3>1. n + (i - k) \in 1 .. n + l /\ n + (i - k) > n /\ (n + (i - k)) - n = i - k
      BY <2>1, <2>3, <1>3, <1>7
    <3>2. m2[n + (i - k)] = k + (i - k)
      BY <3>1, <1>7, <1>9
    <3> QED
      BY <2>3, <3>1, <3>2
  <2> QED
    BY <2>1, <2>2, <2>3, <1>10
<1>15. ASSUME NEW a \in 1 .. n + l
       PROVE  v[a] = u[m2[a]]
  <2>1. CASE a \in 1 .. n /\ m2[a] = m[a] /\ m[a] \in 1 .. k
    BY <2>1, <1>3, <1>7, <1>8
  <2>2. CASE a - n \in 1 .. l /\ m2[a] = k + (a - n)
    <3>1. a = n + (a - n)
      BY <1>7
    <3>2. v[n + (a - n)] = t[a - n] /\ u[k + (a - n)] = t[a - n]
      BY <2>2, <1>3, <1>7
    <3> QED
      BY <2>2, <3>1, <3>2
  <2> QED
    BY <2>1, <2>2, <1>9
<1>16. Picks(m2, v, u, J)
  BY <1>7, <1>12, <1>13, <1>14, <1>15 DEF Picks
<1>17. v = Without(u, S)
  BY <1>3, <1>7, <1>16, PicksIsWithout DEF J
<1> QED
  BY <1>17 DEF u, v, w

(* w begins with f, which has nothing of R, and ends with t, which has     *)
(* nothing else.                                                           *)
EndsWithAll(w, f, t, R) ==
  w = f \o t /\ Range(f) \cap R = {} /\ Range(t) \subseteq R

(* Erasing more from what is left: if that takes its end and nothing       *)
(* before, the rest is what erasing both at once leaves.                   *)
THEOREM WithoutMore ==
  ASSUME NEW T, NEW s \in Seq(T), NEW f \in Seq(T), NEW t \in Seq(T), NEW S, NEW R,
         EndsWithAll(Without(s, S), f, t, R)
  PROVE  Without(s, S \cup R) = f
<1> DEFINE w == f \o t
           K == Kept(s, S)
           J == Kept(s, S \cup R)
           n == Len(f)
           l == Len(t)
<1>1. PICK m : Picks(m, w, s, K)
  BY WithoutPicks DEF EndsWithAll
<1>2. /\ n \in Nat /\ l \in Nat /\ DOMAIN f = 1 .. n /\ DOMAIN t = 1 .. l
      /\ Len(w) = n + l
      /\ \A i \in 1 .. n : w[i] = f[i]
      /\ \A i \in 1 .. l : w[n + i] = t[i]
      /\ \A i \in 1 .. n : f[i] \notin R
      /\ \A i \in 1 .. l : t[i] \in R
  BY DEF Range, EndsWithAll
<1>3. \A i : i \in J <=> i \in K /\ s[i] \notin R
  BY DEF Kept
<1> HIDE DEF w, K, J, n, l
<1>4. /\ m \in [1 .. n + l -> K]
      /\ \A a, b \in 1 .. n + l : a < b => m[a] < m[b]
      /\ \A i \in K : \E a \in 1 .. n + l : m[a] = i
      /\ \A a \in 1 .. n + l : w[a] = s[m[a]]
  BY <1>1, <1>2 DEF Picks
<1> DEFINE m2 == [a \in 1 .. n |-> m[a]]
<1>5. \A a \in 1 .. n : a \in 1 .. n + l /\ m2[a] = m[a]
  BY <1>2
<1>6. \A a \in 1 .. n + l : a \in 1 .. n \/ (a - n \in 1 .. l /\ a = n + (a - n))
  BY <1>2
<1>7. \A a \in 1 .. n : m[a] \in J /\ f[a] = s[m[a]]
  <2>1. \A a \in 1 .. n : m[a] \in K /\ f[a] = s[m[a]]
    BY <1>2, <1>4, <1>5
  <2>2. \A a \in 1 .. n : f[a] \notin R
    BY <1>2
  <2> QED
    BY <1>3, <2>1, <2>2
<1>8. ASSUME NEW i \in J
      PROVE  \E a \in 1 .. n : m2[a] = i
  <2>1. PICK a \in 1 .. n + l : m[a] = i
    BY <1>3, <1>4
  <2>2. CASE a \in 1 .. n
    BY <2>1, <2>2, <1>5
  <2>3. CASE a - n \in 1 .. l /\ a = n + (a - n)
    <3>1. w[a] \in R
      BY <2>3, <1>2
    <3> QED
      BY <2>1, <3>1, <1>3, <1>4
  <2> QED
    BY <2>2, <2>3, <1>6
<1>9. m2 \in [1 .. n -> J]
  BY <1>7
<1> HIDE DEF m2
<1>10. Picks(m2, f, s, J)
  BY <1>4, <1>5, <1>7, <1>8, <1>9 DEF Picks, n
<1>11. f = Without(s, S \cup R)
  BY <1>10, PicksIsWithout DEF J
<1> QED
  BY <1>11

------------------------------------------------------------------------------
(* Erasing others leaves the order of what stays.                          *)
LEMMA WithoutKeepsOrder ==
  ASSUME NEW T, NEW s \in Seq(T), NEW S, NEW a, NEW b,
         IsBefore(s, a, b), a \notin S, b \notin S
  PROVE  IsBefore(Without(s, S), a, b)
<1> DEFINE w == Without(s, S)
           K == Kept(s, S)
<1>1. w \in Seq(T)
  BY WithoutRange
<1>2. PICK m : Picks(m, w, s, K)
  BY WithoutPicks
<1>3. PICK i \in DOMAIN s, j \in DOMAIN s : i < j /\ s[i] = a /\ s[j] = b
  BY DEF IsBefore
<1>4. i \in K /\ j \in K /\ K \subseteq Int
  BY <1>3, KeptFinite DEF Kept
<1> HIDE DEF w, K
<1>5. PICK n \in 1 .. Len(w), l \in 1 .. Len(w) : m[n] = i /\ m[l] = j
  BY <1>2, <1>4 DEF Picks
<1>6. n < l
  <2>1. l < n => j < i
    BY <1>2, <1>5 DEF Picks
  <2>2. l # n
    BY <1>3, <1>5
  <2> QED
    BY <1>3, <1>4, <1>5, <2>1, <2>2
<1>7. w[n] = a /\ w[l] = b
  BY <1>2, <1>3, <1>5 DEF Picks
<1>8. DOMAIN w = 1 .. Len(w)
  BY <1>1
<1> QED
  BY <1>5, <1>6, <1>7, <1>8 DEF IsBefore, w

(* Queueing others behind leaves it too ...                                *)
LEMMA ConcatKeepsOrder ==
  ASSUME NEW T, NEW s \in Seq(T), NEW t \in Seq(T), NEW a, NEW b,
         \/ IsBefore(s, a, b)
         \/ a \in Range(s) /\ b \in Range(t)
  PROVE  IsBefore(s \o t, a, b)
<1> DEFINE u == s \o t
<1>1. /\ Len(s) \in Nat /\ Len(t) \in Nat
      /\ DOMAIN s = 1 .. Len(s) /\ DOMAIN t = 1 .. Len(t)
      /\ DOMAIN u = 1 .. Len(s) + Len(t)
      /\ \A i \in 1 .. Len(s) : u[i] = s[i]
      /\ \A i \in 1 .. Len(t) : u[Len(s) + i] = t[i]
  OBVIOUS
<1> HIDE DEF u
<1>2. CASE IsBefore(s, a, b)
  <2>1. PICK i \in DOMAIN s, j \in DOMAIN s : i < j /\ s[i] = a /\ s[j] = b
    BY <1>2 DEF IsBefore
  <2>2. i \in DOMAIN u /\ j \in DOMAIN u /\ u[i] = a /\ u[j] = b
    BY <1>1, <2>1
  <2> QED
    BY <2>1, <2>2 DEF IsBefore, u
<1>3. CASE a \in Range(s) /\ b \in Range(t)
  <2>1. PICK i \in DOMAIN s, j \in DOMAIN t : s[i] = a /\ t[j] = b
    BY <1>3 DEF Range
  <2>2. i \in DOMAIN u /\ Len(s) + j \in DOMAIN u /\ i < Len(s) + j
    BY <1>1
  <2>3. u[i] = a /\ u[Len(s) + j] = b
    BY <1>1, <2>1
  <2> QED
    BY <2>2, <2>3 DEF IsBefore, u
<1> QED
  BY <1>2, <1>3

------------------------------------------------------------------------------
(***************************************************************************)
(* The tables the queue belongs to.  They are told by their contents, so   *)
(* that the lemmas serve the allocator and whoever makes an instance of it.*)
(***************************************************************************)
(* Page table pt, frame table ft, free frames and queue q describe one     *)
(* assignment of the frames of F to pages of P.                            *)
OneTable(F, P, none, pt, ft, free, q) ==
  /\ none \notin F /\ none \notin P
  /\ pt \in [P -> F \cup {none}] /\ ft \in [F -> P \cup {none}]
  /\ free \subseteq F /\ q \in Seq(F)
  /\ \A f \in F, p \in P : pt[p] = f <=> ft[f] = p
  /\ IsInjective(q) /\ Range(q) = F \ free
  /\ \A f \in F : f \in free <=> ft[f] = none

(* Giving back the frames of R, those of a process that is over or of a    *)
(* victim, leaves one assignment of the others.                            *)
LEMMA FramesGivenBack ==
  ASSUME NEW F, NEW P, NEW none, NEW pt, NEW ft, NEW free, NEW q,
         OneTable(F, P, none, pt, ft, free, q), NEW R \in SUBSET F
  PROVE  OneTable(F, P, none,
                  [p \in P |-> IF pt[p] \in R THEN none ELSE pt[p]],
                  [f \in F |-> IF f \in R THEN none ELSE ft[f]],
                  free \cup R, Without(q, R))
<1> DEFINE pt2 == [p \in P |-> IF pt[p] \in R THEN none ELSE pt[p]]
           ft2 == [f \in F |-> IF f \in R THEN none ELSE ft[f]]
           q2  == Without(q, R)
<1>1. /\ none \notin F /\ none \notin P
      /\ pt \in [P -> F \cup {none}] /\ ft \in [F -> P \cup {none}]
      /\ free \subseteq F /\ q \in Seq(F)
      /\ \A f \in F, p \in P : pt[p] = f <=> ft[f] = p
      /\ IsInjective(q) /\ Range(q) = F \ free
      /\ \A f \in F : f \in free <=> ft[f] = none
  BY DEF OneTable
<1>2. q2 \in Seq(F) /\ IsInjective(q2) /\ Range(q2) = Range(q) \ R
  BY <1>1, WithoutRange, WithoutInjective
<1>3. pt2 \in [P -> F \cup {none}] /\ ft2 \in [F -> P \cup {none}]
  BY <1>1
<1>4. \A f \in F, p \in P : pt2[p] = f <=> ft2[f] = p
  BY <1>1
<1>5. \A f \in F : f \in free \cup R <=> ft2[f] = none
  BY <1>1
<1> HIDE DEF pt2, ft2, q2
<1>6. Range(q2) = F \ (free \cup R)
  BY <1>1, <1>2
<1>7. OneTable(F, P, none, pt2, ft2, free \cup R, q2)
  BY <1>1, <1>2, <1>3, <1>4, <1>5, <1>6 DEF OneTable
<1> QED
  BY <1>7 DEF pt2, ft2, q2

(* Taking a free frame for a page that is in none.                         *)
LEMMA FrameTaken ==
  ASSUME NEW F, NEW P, NEW none, NEW pt, NEW ft, NEW free, NEW q,
         OneTable(F, P, none, pt, ft, free, q),
         NEW f \in free, NEW p \in P, pt[p] = none
  PROVE  OneTable(F, P, none, [pt EXCEPT ![p] = f], [ft EXCEPT ![f] = p],
                  free \ {f}, Append(q, f))
<1> DEFINE pt2 == [pt EXCEPT ![p] = f]
           ft2 == [ft EXCEPT ![f] = p]
           q2  == Append(q, f)
<1>1. /\ none \notin F /\ none \notin P
      /\ pt \in [P -> F \cup {none}] /\ ft \in [F -> P \cup {none}]
      /\ free \subseteq F /\ q \in Seq(F) /\ f \in F
      /\ \A g \in F, r \in P : pt[r] = g <=> ft[g] = r
      /\ IsInjective(q) /\ Range(q) = F \ free
      /\ \A g \in F : g \in free <=> ft[g] = none
  BY DEF OneTable
<1>2. q2 \in Seq(F) /\ IsInjective(q2) /\ Range(q2) = Range(q) \cup {f}
  BY <1>1, AppendNew
<1>3. pt2 \in [P -> F \cup {none}] /\ ft2 \in [F -> P \cup {none}]
  BY <1>1
<1>4. /\ \A r \in P : pt2[r] = IF r = p THEN f ELSE pt[r]
      /\ \A g \in F : ft2[g] = IF g = f THEN p ELSE ft[g]
  BY <1>1
<1> HIDE DEF pt2, ft2, q2
<1>5. \A g \in F, r \in P : pt2[r] = g <=> ft2[g] = r
  BY <1>1, <1>4
<1>6. \A g \in F : g \in free \ {f} <=> ft2[g] = none
  BY <1>1, <1>4
<1>7. Range(q2) = F \ (free \ {f})
  BY <1>1, <1>2
<1>8. OneTable(F, P, none, pt2, ft2, free \ {f}, q2)
  BY <1>1, <1>2, <1>3, <1>5, <1>6, <1>7 DEF OneTable
<1> QED
  BY <1>8 DEF pt2, ft2, q2

(* There are as many pages in frames as frames that are not free.          *)
LEMMA PagesInFrames ==
  ASSUME NEW F, NEW P, NEW none, NEW pt, NEW ft, NEW free, NEW q,
         OneTable(F, P, none, pt, ft, free, q), IsFiniteSet(F)
  PROVE  LET R == {p \in P : pt[p] # none}
         IN  IsFiniteSet(R) /\ Cardinality(R) = Cardinality(F) - Cardinality(free)
<1> DEFINE R == {p \in P : pt[p] # none}
           U == F \ free
           H == [f \in U |-> ft[f]]
<1>1. /\ none \notin F /\ none \notin P
      /\ pt \in [P -> F \cup {none}] /\ ft \in [F -> P \cup {none}]
      /\ free \subseteq F
      /\ \A f \in F, p \in P : pt[p] = f <=> ft[f] = p
      /\ \A f \in F : f \in free <=> ft[f] = none
  BY DEF OneTable
<1>2. \A f \in U : ft[f] \in R /\ pt[ft[f]] = f
  BY <1>1
<1>3. \A p \in R : pt[p] \in U /\ ft[pt[p]] = p
  BY <1>1
<1>4. IsFiniteSet(U) /\ Cardinality(U) = Cardinality(F) - Cardinality(free)
  <2>1. F \cap free = free
    BY <1>1
  <2> QED
    BY <2>1, FS_Difference
<1> HIDE DEF R, U
<1>5. H \in [U -> R]
  BY <1>2
<1>6. \A f, g \in U : H[f] = H[g] => f = g
  BY <1>2
<1>7. \A p \in R : \E f \in U : H[f] = p
  BY <1>3
<1> HIDE DEF H
<1>8. H \in Bijection(U, R)
  BY <1>5, <1>6, <1>7, Fun_IsBij
<1>9. ExistsBijection(U, R)
  BY <1>8, Fun_ExistsBij
<1>10. IsFiniteSet(R) /\ Cardinality(R) = Cardinality(U)
  BY <1>4, <1>9, FS_Bijection
<1> QED
  BY <1>4, <1>10 DEF R

(* Every frame holds a page of a, one of those numbered in R.              *)
AllHeldBy(F, ft, a, none, R) ==
  \A f \in F : ft[f] # none /\ ft[f][1] = a /\ ft[f][2] \in R

(* They are then no more than those numbers.                               *)
LEMMA FramesOfOne ==
  ASSUME NEW F, NEW A, NEW B, NEW none, NEW pt, NEW ft, NEW free, NEW q,
         OneTable(F, A \X B, none, pt, ft, free, q),
         NEW a, NEW R, IsFiniteSet(R), AllHeldBy(F, ft, a, none, R)
  PROVE  Cardinality(F) <= Cardinality(R)
<1> DEFINE H == [f \in F |-> ft[f][2]]
<1>1. \A f \in F : ft[f] \in A \X B /\ pt[ft[f]] = f
  BY DEF OneTable, AllHeldBy
<1>2. \A p \in A \X B : p = <<p[1], p[2]>>
  OBVIOUS
<1>3. H \in [F -> R]
  BY DEF AllHeldBy
<1>4. \A f, g \in F : H[f] = H[g] => f = g
  <2> SUFFICES ASSUME NEW f \in F, NEW g \in F, H[f] = H[g]
               PROVE  f = g
    OBVIOUS
  <2>1. ft[f][2] = ft[g][2] /\ ft[f][1] = ft[g][1]
    BY DEF AllHeldBy
  <2>2. ft[f] = ft[g]
    BY <1>1, <1>2, <2>1
  <2> QED
    BY <1>1, <2>2
<1> HIDE DEF H
<1>5. H \in Injection(F, R)
  BY <1>3, <1>4, Fun_IsInj
<1> QED
  BY <1>5, FS_Injection

(* What fits in n frames of d bytes takes at most n pages.                 *)
LEMMA PagesFit ==
  ASSUME NEW n \in Nat, NEW d \in Nat \ {0}, NEW m \in Nat, m <= n * d
  PROVE  (m + d - 1) \div d <= n
<1> DEFINE k == (m + d - 1) \div d
<1>1. k \in Int /\ k * d <= m + d - 1
  OBVIOUS
<1> HIDE DEF k
<1>2. k * d < (n + 1) * d
  BY <1>1
<1>3. k < n + 1
  BY <1>1, <1>2
<1> QED
  BY <1>1, <1>3 DEF k
===============================================================================

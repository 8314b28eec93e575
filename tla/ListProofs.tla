----------------------------- MODULE ListProofs -----------------------------
(***************************************************************************)
(* Lists by rank, for every finite set of places: every rank is taken once, *)
(* so that the n-th place is one of the set, in increasing order, and a    *)
(* list taken at places has exactly the elements there.                    *)
(***************************************************************************)
EXTENDS Lists, FiniteSetTheorems, SequenceTheorems, TLAPS

(* Numbers are ranked by how many smaller ones there are.                  *)
LEMMA Rank ==
    ASSUME NEW k \in Nat, NEW S \in SUBSET (1..k)
    PROVE  /\ IsFiniteSet(S) /\ Cardinality(S) \in Nat
           /\ \A i \in S : /\ IsFiniteSet({j \in S : j < i})
                           /\ Cardinality({j \in S : j < i}) \in 0..(Cardinality(S) - 1)
           /\ \A i, l \in S : i < l => Cardinality({j \in S : j < i}) < Cardinality({j \in S : j < l})
<1>0. \A x \in S : x \in Int
  OBVIOUS
<1>1. IsFiniteSet(S) /\ Cardinality(S) \in Nat
  <2>1. 1 \in Int /\ k \in Int
    OBVIOUS
  <2>2. IsFiniteSet(1..k)
    BY <2>1, FS_Interval
  <2>3. IsFiniteSet(S)
    BY <2>2, FS_Subset
  <2> QED
    BY <2>3, FS_CardinalityType
<1>2. ASSUME NEW i \in S
      PROVE  /\ IsFiniteSet({j \in S : j < i})
             /\ Cardinality({j \in S : j < i}) \in 0..(Cardinality(S) - 1)
  <2>1. IsFiniteSet(S \ {i}) /\ Cardinality(S \ {i}) = Cardinality(S) - 1
    BY <1>1, FS_RemoveElement
  <2>2. {j \in S : j < i} \in SUBSET (S \ {i})
    OBVIOUS
  <2>3. /\ IsFiniteSet({j \in S : j < i})
        /\ Cardinality({j \in S : j < i}) <= Cardinality(S \ {i})
    BY <2>1, <2>2, FS_Subset
  <2>4. Cardinality({j \in S : j < i}) \in Nat
    BY <2>3, FS_CardinalityType
  <2> QED
    BY <1>1, <2>1, <2>3, <2>4
<1>3. ASSUME NEW i \in S, NEW l \in S, i < l
      PROVE  Cardinality({j \in S : j < i}) < Cardinality({j \in S : j < l})
  <2> DEFINE A == {j \in S : j < i}
             B == {j \in S : j < l}
  <2>0. i \in Int /\ l \in Int /\ ~(i < i) /\ \A x \in S : x < i => x < l
    <3>1. i \in Int /\ l \in Int
      BY <1>0
    <3>2. ASSUME NEW x \in S, x < i PROVE x < l
      <4>1. x \in Int
        BY <1>0
      <4> QED
        BY <1>3, <3>1, <3>2, <4>1
    <3> QED
      BY <3>1, <3>2
  <2>1. A \subseteq B /\ i \in B /\ i \notin A
    BY <1>3, <2>0
  <2>2. IsFiniteSet(B) /\ IsFiniteSet(A)
    BY <1>2
  <2> HIDE DEF A, B
  <2>3. Cardinality(A) <= Cardinality(B) /\ Cardinality(A) # Cardinality(B)
    BY <2>1, <2>2, FS_Subset
  <2>4. Cardinality(A) \in Nat /\ Cardinality(B) \in Nat
    BY <2>2, FS_CardinalityType
  <2>5. Cardinality(A) < Cardinality(B)
    BY <2>3, <2>4
  <2> QED
    BY <2>5 DEF A, B
<1> QED
  BY <1>1, <1>2, <1>3

(* Every rank is taken.                                                    *)
LEMMA RankTaken ==
    ASSUME NEW k \in Nat, NEW S \in SUBSET (1..k), NEW r \in 0..(Cardinality(S) - 1)
    PROVE  \E i \in S : Cardinality({j \in S : j < i}) = r
<1> DEFINE T == 0..(Cardinality(S) - 1)
           f == [i \in S |-> Cardinality({j \in S : j < i})]
<1>1. IsFiniteSet(S) /\ Cardinality(S) \in Nat
  BY Rank
<1>2. \A i \in S : f[i] \in T
  BY Rank
<1>3. \A i, l \in S : i < l => f[i] < f[l]
  BY Rank
<1>4. \A i, l \in S : f[i] = f[l] => i = l
  <2> SUFFICES ASSUME NEW i \in S, NEW l \in S, f[i] = f[l] PROVE i = l
    OBVIOUS
  <2>1. f[i] \in Int /\ f[l] \in Int /\ i \in Int /\ l \in Int
    BY <1>1, <1>2
  <2>2. ~(f[i] < f[l]) /\ ~(f[l] < f[i])
    BY <2>1
  <2>3. ~(i < l) /\ ~(l < i)
    BY <1>3, <2>2
  <2> QED
    BY <2>1, <2>3
<1>5. f \in Injection(S, T)
  BY <1>2, <1>4 DEF Injection, IsInjective
<1>6. IsFiniteSet(T) /\ Cardinality(T) = Cardinality(S)
  BY <1>1, FS_Interval
<1> HIDE DEF f, T
<1>7. f \in Surjection(S, T)
  BY <1>5, <1>6, FS_Injection
<1>8. r \in T
  BY DEF T
<1>9. \E i \in S : f[i] = r
  BY <1>7, <1>8 DEF Surjection
<1> QED
  BY <1>9 DEF f

(* The n-th of a set is the one of rank n - 1, and every element is the n-th
   for some n.                                                             *)
LEMMA NthFacts ==
    ASSUME NEW k \in Nat, NEW S \in SUBSET (1..k)
    PROVE  /\ Cardinality(S) \in Nat
           /\ \A n \in 1..Cardinality(S) : /\ Nth(S, n) \in S
                                            /\ Cardinality({j \in S : j < Nth(S, n)}) = n - 1
           /\ \A i \in S : \E n \in 1..Cardinality(S) : Nth(S, n) = i
           /\ \A m, n \in 1..Cardinality(S) : m < n => Nth(S, m) < Nth(S, n)
<1> DEFINE c(i) == Cardinality({j \in S : j < i})
<1>1. Cardinality(S) \in Nat
  BY Rank
<1>2. ASSUME NEW n \in 1..Cardinality(S) PROVE Nth(S, n) \in S /\ c(Nth(S, n)) = n - 1
  <2>1. n - 1 \in 0..(Cardinality(S) - 1)
    BY <1>1
  <2>2. \E i \in S : c(i) = n - 1
    BY <2>1, RankTaken
  <2>3. Nth(S, n) = CHOOSE i \in S : c(i) = n - 1
    BY DEF Nth
  <2> QED
    BY <2>2, <2>3
<1>3. \A i, l \in S : i < l => c(i) < c(l)
  BY Rank
<1>4. \A i \in S : i \in Int /\ c(i) \in 0..(Cardinality(S) - 1)
  <2>1. \A i \in S : i \in Int
    OBVIOUS
  <2>2. \A i \in S : c(i) \in 0..(Cardinality(S) - 1)
    BY Rank
  <2> QED
    BY <2>1, <2>2
<1> HIDE DEF c
<1>5. \A i, l \in S : c(i) < c(l) => i < l
  <2> SUFFICES ASSUME NEW i \in S, NEW l \in S, c(i) < c(l), ~(i < l) PROVE FALSE
    OBVIOUS
  <2>1. i \in Int /\ l \in Int /\ c(i) \in Int /\ c(l) \in Int
    BY <1>1, <1>4
  <2>2. l = i \/ l < i
    BY <2>1
  <2> QED
    BY <1>3, <2>1, <2>2
<1>6. ASSUME NEW i \in S PROVE \E n \in 1..Cardinality(S) : Nth(S, n) = i
  <2>1. PICK n : n = c(i) + 1
    OBVIOUS
  <2>2. n \in 1..Cardinality(S) /\ n - 1 = c(i)
    BY <1>1, <1>4, <2>1
  <2>3. PICK l \in S : l = Nth(S, n) /\ c(l) = c(i)
    BY <1>2, <2>2
  <2>4. l \in Int /\ i \in Int /\ c(i) \in Int /\ c(l) \in Int
    BY <1>1, <1>4
  <2>5. ~(l < i) /\ ~(i < l)
    BY <1>3, <2>3, <2>4
  <2>6. l = i
    BY <2>4, <2>5
  <2> QED
    BY <2>2, <2>3, <2>6
<1>7. ASSUME NEW m \in 1..Cardinality(S), NEW n \in 1..Cardinality(S), m < n
      PROVE  Nth(S, m) < Nth(S, n)
  <2>1. m - 1 < n - 1
    BY <1>1, <1>7
  <2> QED
    BY <1>2, <1>5, <2>1
<1> QED
  BY <1>1, <1>2, <1>6, <1>7 DEF c

(* The n-th is the only one of its rank.                                   *)
LEMMA NthIs ==
    ASSUME NEW k \in Nat, NEW S \in SUBSET (1..k), NEW i \in S
    PROVE  Nth(S, Cardinality({j \in S : j < i}) + 1) = i
<1>1. PICK n \in 1..Cardinality(S) : Nth(S, n) = i
  BY NthFacts
<1>2. Cardinality({j \in S : j < i}) = n - 1 /\ n \in Int
  BY <1>1, NthFacts
<1>3. Cardinality({j \in S : j < i}) + 1 = n
  BY <1>2
<1> QED
  BY <1>1, <1>3

(* What stands at places of q.                                             *)
LEMMA AtPlacesIsList ==
    ASSUME NEW q, NEW k \in Nat, NEW S \in SUBSET (1..k)
    PROVE  /\ AtPlaces(q, S) \in Seq({q[i] : i \in S})
           /\ Len(AtPlaces(q, S)) = Cardinality(S) /\ Cardinality(S) \in Nat
           /\ DOMAIN AtPlaces(q, S) = 1..Cardinality(S)
           /\ {AtPlaces(q, S)[n] : n \in 1..Cardinality(S)} = {q[i] : i \in S}
<1>1. /\ Cardinality(S) \in Nat /\ \A n \in 1..Cardinality(S) : Nth(S, n) \in S
      /\ \A i \in S : \E n \in 1..Cardinality(S) : Nth(S, n) = i
  BY NthFacts
<1>2. AtPlaces(q, S) = [n \in 1..Cardinality(S) |-> q[Nth(S, n)]]
  BY DEF AtPlaces
<1>3. \A n \in 1..Cardinality(S) : q[Nth(S, n)] \in {q[i] : i \in S}
  BY <1>1
<1>4. AtPlaces(q, S) \in Seq({q[i] : i \in S}) /\ Len(AtPlaces(q, S)) = Cardinality(S)
  BY <1>1, <1>2, <1>3
<1>5. {AtPlaces(q, S)[n] : n \in 1..Cardinality(S)} = {q[i] : i \in S}
  BY <1>1, <1>2
<1> QED
  BY <1>1, <1>2, <1>4, <1>5

(* All places: the list itself.                                            *)
LEMMA AtAllPlaces ==
    ASSUME NEW X, NEW q \in Seq(X)
    PROVE  AtPlaces(q, DOMAIN q) = q
<1>1. PICK k \in Nat : k = Len(q) /\ DOMAIN q = 1..k
  BY LenProperties
<1>2. Cardinality(1..k) = k
  <2>1. 1 \in Int /\ k \in Int
    OBVIOUS
  <2> QED
    BY <2>1, FS_Interval
<1>3. ASSUME NEW n \in 1..k PROVE Nth(1..k, n) = n
  <2>1. {j \in 1..k : j < n} = 1..(n - 1)
    OBVIOUS
  <2>2. Cardinality(1..(n - 1)) = n - 1
    <3>1. /\ 1 \in Int /\ n - 1 \in Int /\ (n - 1) - 1 + 1 = n - 1
          /\ ~(1 > n - 1) \/ n - 1 = 0
      OBVIOUS
    <3> QED
      BY <3>1, FS_Interval
  <2>3. Nth(1..k, Cardinality({j \in 1..k : j < n}) + 1) = n
    BY NthIs
  <2>4. (n - 1) + 1 = n
    OBVIOUS
  <2> QED
    BY <2>1, <2>2, <2>3, <2>4
<1>4. AtPlaces(q, 1..k) = [n \in 1..k |-> q[n]]
  BY <1>2, <1>3 DEF AtPlaces
<1> QED
  BY <1>1, <1>4

(* A greater number comes last, and the others keep their ranks.           *)
LEMMA NthNext ==
    ASSUME NEW k \in Nat, NEW S \in SUBSET (1..k)
    PROVE  /\ S \cup {k + 1} \in SUBSET (1..(k + 1))
           /\ Cardinality(S) \in Nat /\ Cardinality(S \cup {k + 1}) = Cardinality(S) + 1
           /\ \A n \in 1..Cardinality(S) : Nth(S \cup {k + 1}, n) = Nth(S, n)
           /\ Nth(S \cup {k + 1}, Cardinality(S) + 1) = k + 1
<1> DEFINE T == S \cup {k + 1}
<1>1. T \in SUBSET (1..(k + 1)) /\ k + 1 \in Nat /\ k + 1 \notin S /\ S \subseteq Int
  OBVIOUS
<1>2. IsFiniteSet(S) /\ Cardinality(S) \in Nat
  BY Rank
<1>3. Cardinality(T) = Cardinality(S) + 1
  BY <1>1, <1>2, FS_AddElement
<1>4. \A i \in S : {j \in T : j < i} = {j \in S : j < i}
  <2> SUFFICES ASSUME NEW i \in S PROVE ~(k + 1 < i)
    OBVIOUS
  <2>1. i \in 1..k
    OBVIOUS
  <2> QED
    BY <2>1
<1>5. {j \in T : j < k + 1} = S
  <2>1. \A j \in S : j < k + 1
    <3> SUFFICES ASSUME NEW j \in S PROVE j < k + 1
      OBVIOUS
    <3>1. j \in 1..k
      OBVIOUS
    <3> QED
      BY <3>1
  <2>2. ~(k + 1 < k + 1)
    OBVIOUS
  <2> QED
    BY <2>1, <2>2
<1> HIDE DEF T
<1>6. ASSUME NEW n \in 1..Cardinality(S) PROVE Nth(T, n) = Nth(S, n)
  <2>1. PICK i \in S : i = Nth(S, n) /\ Cardinality({j \in S : j < i}) = n - 1
    BY NthFacts
  <2>2. i \in T
    BY DEF T
  <2>3. Nth(T, Cardinality({j \in T : j < i}) + 1) = i
    BY <1>1, <2>2, NthIs
  <2>4. (n - 1) + 1 = n
    BY <1>2
  <2> QED
    BY <1>4, <2>1, <2>3, <2>4
<1>7. Nth(T, Cardinality(S) + 1) = k + 1
  <2>1. k + 1 \in T
    BY DEF T
  <2>2. Nth(T, Cardinality({j \in T : j < k + 1}) + 1) = k + 1
    BY <1>1, <2>1, NthIs
  <2> QED
    BY <1>5, <2>2
<1> QED
  BY <1>1, <1>2, <1>3, <1>6, <1>7 DEF T

(* A list that grows by one element: taken at the old places it is the same, *)
LEMMA AtPlacesStays ==
    ASSUME NEW q, NEW r, NEW k \in Nat, NEW S \in SUBSET (1..k),
           \A i \in 1..k : r[i] = q[i]
    PROVE  AtPlaces(r, S) = AtPlaces(q, S)
<1>1. Cardinality(S) \in Nat /\ \A n \in 1..Cardinality(S) : Nth(S, n) \in 1..k
  BY NthFacts
<1> QED
  BY <1>1 DEF AtPlaces

(* and at the new place too, it has the new element last.                  *)
LEMMA AtPlacesGrows ==
    ASSUME NEW r, NEW k \in Nat, NEW S \in SUBSET (1..k), NEW T, T = S \cup {k + 1}
    PROVE  /\ DOMAIN AtPlaces(r, T) = 1..(Cardinality(S) + 1)
           /\ \A n \in 1..Cardinality(S) : AtPlaces(r, T)[n] = AtPlaces(r, S)[n]
           /\ AtPlaces(r, T)[Cardinality(S) + 1] = r[k + 1]
<1>1. /\ Cardinality(S) \in Nat /\ Cardinality(T) = Cardinality(S) + 1
      /\ \A n \in 1..Cardinality(S) : Nth(T, n) = Nth(S, n)
      /\ Nth(T, Cardinality(S) + 1) = k + 1
  BY NthNext
<1>2. \A n \in 1..Cardinality(S) : Nth(S, n) \in 1..k
  BY NthFacts
<1>3. \A n \in 1..Cardinality(S) : n \in 1..(Cardinality(S) + 1)
  BY <1>1
<1>4. Cardinality(S) + 1 \in 1..(Cardinality(S) + 1)
  BY <1>1
<1> QED
  BY <1>1, <1>2, <1>3, <1>4 DEF AtPlaces

(* A set of places that is not empty has a first one.                      *)
LEMMA FirstPlace ==
    ASSUME NEW k \in Nat, NEW S \in SUBSET (1..k), S # {}
    PROVE  \E i \in S : \A j \in S : i <= j
<1>1. /\ Cardinality(S) \in Nat
      /\ \A i \in S : \E n \in 1..Cardinality(S) : Nth(S, n) = i
      /\ \A m, n \in 1..Cardinality(S) : m < n => Nth(S, m) < Nth(S, n)
      /\ \A n \in 1..Cardinality(S) : Nth(S, n) \in S
  BY NthFacts
<1>2. PICK c \in Nat : c = Cardinality(S)
  BY <1>1
<1>3. \E n : n \in 1..c
  BY <1>1, <1>2
<1>4. 1 \in 1..c /\ \A n \in 1..c : n = 1 \/ 1 < n
  BY <1>3
<1>5. \A i, j \in Int : i = j \/ i < j => i <= j
  OBVIOUS
<1>6. \A i \in S : i \in Int
  OBVIOUS
<1>7. ASSUME NEW j \in S PROVE Nth(S, 1) <= j
  <2>1. PICK n \in 1..c : Nth(S, n) = j
    BY <1>1, <1>2
  <2>2. Nth(S, 1) = j \/ Nth(S, 1) < j
    BY <1>1, <1>2, <1>4, <2>1
  <2>3. Nth(S, 1) \in Int /\ j \in Int
    BY <1>1, <1>2, <1>4, <1>6
  <2> QED
    BY <1>5, <2>2, <2>3
<1> QED
  BY <1>1, <1>2, <1>4, <1>7

(* and a last one.                                                         *)
LEMMA LastPlace ==
    ASSUME NEW k \in Nat, NEW S \in SUBSET (1..k), S # {}
    PROVE  \E i \in S : \A j \in S : j <= i
<1>1. /\ Cardinality(S) \in Nat
      /\ \A i \in S : \E n \in 1..Cardinality(S) : Nth(S, n) = i
      /\ \A m, n \in 1..Cardinality(S) : m < n => Nth(S, m) < Nth(S, n)
      /\ \A n \in 1..Cardinality(S) : Nth(S, n) \in S
  BY NthFacts
<1>2. PICK c \in Nat : c = Cardinality(S)
  BY <1>1
<1>3. \E n : n \in 1..c
  BY <1>1, <1>2
<1>4. c \in 1..c /\ \A n \in 1..c : n = c \/ n < c
  BY <1>3
<1>5. \A i, j \in Int : i = j \/ i < j => i <= j
  OBVIOUS
<1>6. \A i \in S : i \in Int
  OBVIOUS
<1>7. ASSUME NEW j \in S PROVE j <= Nth(S, c)
  <2>1. PICK n \in 1..c : Nth(S, n) = j
    BY <1>1, <1>2
  <2>2. Nth(S, c) = j \/ j < Nth(S, c)
    BY <1>1, <1>2, <1>4, <2>1
  <2>3. Nth(S, c) \in Int /\ j \in Int
    BY <1>1, <1>2, <1>4, <1>6
  <2> QED
    BY <1>5, <2>2, <2>3
<1> QED
  BY <1>1, <1>2, <1>4, <1>7
=============================================================================

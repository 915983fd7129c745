----------------------- MODULE SearchAlgorithms_proof -----------------------
(***************************************************************************)
(* Proofs about the searches as algorithms: naive.h finds a key exactly    *)
(* when it is there, for every sorted vector; and lemmas that the proofs   *)
(* about both multi-lookups need.                                          *)
(***************************************************************************)
EXTENDS SearchAlgorithms, FiniteSetTheorems, WellFoundedInduction, TLAPS

\* Induction over lengths: a set of naturals has a least element.
LEMMA LeastNatural ==
    ASSUME NEW S, S \subseteq Nat, S # {}
    PROVE  \E m \in S : \A n \in S : m <= n
  <1> DEFINE R == OpToRel(<, Nat)
  <1>1. IsWellFoundedOn(R, Nat)
    BY NatLessThanWellFounded
  <1> HIDE DEF R
  <1>2. PICK m \in S : \A n \in S : ~(<<n, m>> \in R)
    BY <1>1, WFMin
  <1>3. ASSUME NEW n \in S
        PROVE  m <= n
    <2>1. n \in Nat /\ m \in Nat /\ ~(<<n, m>> \in R)
      BY <1>2
    <2>2. <<n, m>> \in R <=> n < m
      BY <2>1 DEF R, OpToRel
    <2> QED  BY <2>1, <2>2
  <1> QED  BY <1>3

-----------------------------------------------------------------------------
\* One round.

LEMMA ProbeSide ==
    ASSUME NEW a \in Seq(Int), Sorted(a), NEW m \in 1..Len(a), NEW k \in 1..Len(a)
    PROVE  (a[m] < a[k] => m < k) /\ (a[k] < a[m] => k < m)
  <1>1. /\ DOMAIN a = 1..Len(a) /\ a[m] \in Int /\ a[k] \in Int
        /\ k < m => a[k] <= a[m]
        /\ m < k => a[m] <= a[k]
    BY DEF Sorted
  <1>2. m = k => a[m] = a[k]
    OBVIOUS
  <1> QED  BY <1>1, <1>2

\* naive.h:6-18, and every rewrite of it: a round stays inside, narrows, and misses
\* no key.
LEMMA RoundNarrows ==
    ASSUME NEW a \in Seq(Int), Sorted(a), NEW key \in Int, NEW lo \in Nat, NEW n \in Nat,
           lo >= 1, n > 0, lo + n <= Len(a) + 1
    PROVE  LET r == Round(a, key, lo, n)
           IN  /\ r.first \in Nat /\ r.len \in Nat /\ r.hit \in BOOLEAN
               /\ lo <= r.first /\ r.first + r.len <= lo + n /\ r.len < n
               /\ r.hit => \E k \in lo .. lo + n - 1 : k \in DOMAIN a /\ a[k] = key
               /\ \A k \in lo .. lo + n - 1 :
                     a[k] = key /\ ~r.hit => k \in r.first .. r.first + r.len - 1
  <1> DEFINE r == Round(a, key, lo, n)
  <1>1. PICK half \in Nat : half = n \div 2 /\ half < n
    OBVIOUS
  <1>2. PICK m : m = lo + half
    OBVIOUS
  <1>3. m \in 1..Len(a) /\ a[m] \in Int /\ m >= lo /\ m < lo + n /\ Len(a) \in Nat
    BY <1>1, <1>2
  <1>4. /\ r.first = IF a[m] < key THEN m + 1 ELSE lo
        /\ r.len = IF a[m] < key THEN n - half - 1 ELSE half
        /\ r.hit \in BOOLEAN /\ (r.hit <=> a[m] = key)
    BY <1>1, <1>2 DEF Round
  <1> HIDE DEF r
  <1>5. r.first \in Nat /\ r.len \in Nat
    BY <1>1, <1>3, <1>4
  <1>6. lo <= r.first /\ r.first + r.len <= lo + n /\ r.len < n
    BY <1>1, <1>2, <1>3, <1>4
  <1>7. r.hit => \E k \in lo .. lo + n - 1 : k \in DOMAIN a /\ a[k] = key
    <2>1. m \in DOMAIN a /\ m \in lo .. lo + n - 1
      BY <1>3
    <2> QED  BY <1>4, <2>1
  <1>8. ASSUME NEW k \in lo .. lo + n - 1, a[k] = key, ~r.hit
        PROVE  k \in r.first .. r.first + r.len - 1
    <2>1. k \in 1..Len(a) /\ a[m] # a[k]
      BY <1>3, <1>4, <1>8
    <2>2. (a[m] < a[k] => m < k) /\ (a[k] < a[m] => k < m)
      BY <1>3, <2>1, ProbeSide
    <2>3. a[m] < a[k] \/ a[k] < a[m]
      BY <1>3, <1>8, <2>1
    <2> QED  BY <1>1, <1>2, <1>3, <1>4, <1>8, <2>1, <2>2, <2>3
  <1> QED  BY <1>4, <1>5, <1>6, <1>7, <1>8 DEF r

-----------------------------------------------------------------------------
\* naive_binary_search.

Finds(a, key, w) == \E k \in w.first .. w.first + w.len - 1 : a[k] = key

\* s says for every part of a what the loop returns when it starts from there.
Solves(s, a, key) ==
    s = [w \in Parts(a) |->
            IF w.len = 0 THEN FALSE
            ELSE LET r == Round(a, key, w.first, w.len)
                 IN  r.hit \/ s[Part(r.first, r.len)]]

\* The loop on a part of a returns whether the key is there, if one round later it does.
LEMMA RoundFinds ==
    ASSUME NEW a \in Seq(Int), Sorted(a), NEW key \in Int, NEW w \in Parts(a), w.len # 0
    PROVE  LET r == Round(a, key, w.first, w.len)
           IN  /\ Part(r.first, r.len) \in Parts(a) /\ Part(r.first, r.len).len < w.len
               /\ Finds(a, key, w) <=> r.hit \/ Finds(a, key, Part(r.first, r.len))
  <1>1. PICK lo \in Nat, n \in Nat : lo = w.first /\ n = w.len
    BY DEF Parts
  <1>2. /\ lo >= 1 /\ n > 0 /\ lo + n <= Len(a) + 1 /\ Len(a) \in Nat
    BY <1>1 DEF Parts
  <1> DEFINE r == Round(a, key, lo, n)
  <1>3. /\ r.first \in Nat /\ r.len \in Nat /\ r.hit \in BOOLEAN
        /\ lo <= r.first /\ r.first + r.len <= lo + n /\ r.len < n
        /\ r.hit => \E k \in lo .. lo + n - 1 : k \in DOMAIN a /\ a[k] = key
        /\ \A k \in lo .. lo + n - 1 :
              a[k] = key /\ ~r.hit => k \in r.first .. r.first + r.len - 1
    BY <1>2, RoundNarrows
  <1> HIDE DEF r
  <1>4. PICK x \in Nat, y \in Nat : /\ x = r.first /\ y = r.len
                                    /\ lo <= x /\ x + y <= lo + n /\ y < n
    BY <1>3
  <1>5. Part(x, y) \in Parts(a) /\ Part(x, y).len < n
    <2>1. x \in 1..Len(a) + 1 /\ y \in 0..Len(a) /\ x + y <= Len(a) + 1 /\ y < n
      BY <1>2, <1>4, SMTT(30)
    <2> QED  BY <2>1 DEF Part, Parts
  <1>6. (\E k \in lo .. lo + n - 1 : a[k] = key)
           <=> r.hit \/ \E k \in x .. x + y - 1 : a[k] = key
    <2>1. \A k \in x .. x + y - 1 : k \in lo .. lo + n - 1
      BY <1>4
    <2> QED  BY <1>3, <1>4, <2>1
  <1>7. Finds(a, key, w) <=> r.hit \/ Finds(a, key, Part(x, y))
    BY <1>1, <1>6 DEF Finds, Part
  <1> QED  BY <1>1, <1>4, <1>5, <1>7 DEF r

\* There is a solution, namely whether the key is in the part ...
LEMMA FindsSolves ==
    ASSUME NEW a \in Seq(Int), Sorted(a), NEW key \in Int
    PROVE  Solves([w \in Parts(a) |-> Finds(a, key, w)], a, key)
  <1> DEFINE g == [w \in Parts(a) |-> Finds(a, key, w)]
  <1>1. ASSUME NEW w \in Parts(a)
        PROVE  Finds(a, key, w) = IF w.len = 0 THEN FALSE
                                  ELSE LET r == Round(a, key, w.first, w.len)
                                       IN  r.hit \/ g[Part(r.first, r.len)]
    <2>1. CASE w.len = 0
      <3>1. w.first .. w.first + w.len - 1 = {}
        BY <2>1 DEF Parts
      <3> QED  BY <2>1, <3>1 DEF Finds
    <2>2. CASE w.len # 0
      <3> DEFINE r == Round(a, key, w.first, w.len)
      <3>1. /\ Part(r.first, r.len) \in Parts(a)
            /\ Finds(a, key, w) <=> r.hit \/ Finds(a, key, Part(r.first, r.len))
        BY <2>2, RoundFinds
      <3> HIDE DEF r
      <3>2. g[Part(r.first, r.len)] = Finds(a, key, Part(r.first, r.len))
        BY <3>1
      <3>3. Finds(a, key, w) \in BOOLEAN
        BY DEF Finds
      <3> QED  BY <2>2, <3>1, <3>2, <3>3, Zenon DEF r
    <2> QED  BY <2>1, <2>2
  <1> HIDE DEF g
  <1>2. [w \in Parts(a) |-> Finds(a, key, w)] =
            [w \in Parts(a) |->
                IF w.len = 0 THEN FALSE
                ELSE LET r == Round(a, key, w.first, w.len)
                     IN  r.hit \/ g[Part(r.first, r.len)]]
    BY <1>1, Zenon
  <1> QED  BY <1>2, Zenon DEF Solves, g

\* ... and by induction over the length of the part there is no other.
LEMMA SolvesFinds ==
    ASSUME NEW a \in Seq(Int), Sorted(a), NEW key \in Int, NEW s, Solves(s, a, key)
    PROVE  \A w \in Parts(a) : s[w] <=> Finds(a, key, w)
  <1> DEFINE Wrong == {w \in Parts(a) : ~(s[w] <=> Finds(a, key, w))}
             Lengths == {w.len : w \in Wrong}
  <1> SUFFICES ASSUME Wrong # {} PROVE FALSE
    OBVIOUS
  <1>1. Lengths # {} /\ Lengths \subseteq Nat
    BY DEF Parts
  <1> HIDE DEF Lengths
  <1>2. PICK m \in Lengths : \A n \in Lengths : m <= n
    BY <1>1, LeastNatural
  <1>3. PICK w \in Wrong : w.len = m
    BY <1>2 DEF Lengths
  <1>4. w \in Parts(a) /\ w.len \in Nat
    BY <1>3 DEF Parts
  <1>5. s[w] = IF w.len = 0 THEN FALSE
               ELSE LET r == Round(a, key, w.first, w.len)
                    IN  r.hit \/ s[Part(r.first, r.len)]
    BY <1>4, Zenon DEF Solves
  <1>6. CASE w.len = 0
    <2>1. w.first .. w.first + w.len - 1 = {}
      BY <1>4, <1>6 DEF Parts
    <2> QED  BY <1>3, <1>5, <1>6, <2>1 DEF Finds
  <1>7. CASE w.len # 0
    <2> DEFINE r == Round(a, key, w.first, w.len)
    <2>1. /\ Part(r.first, r.len) \in Parts(a) /\ Part(r.first, r.len).len < w.len
          /\ Finds(a, key, w) <=> r.hit \/ Finds(a, key, Part(r.first, r.len))
      BY <1>4, <1>7, RoundFinds
    <2>2. s[w] = (r.hit \/ s[Part(r.first, r.len)])
      BY <1>5, <1>7, Zenon
    <2> HIDE DEF r
    <2>3. Part(r.first, r.len).len \in Nat
      BY <2>1 DEF Parts
    <2>4. Part(r.first, r.len) \notin Wrong
      <3> SUFFICES ASSUME Part(r.first, r.len) \in Wrong PROVE FALSE
        OBVIOUS
      <3>1. Part(r.first, r.len).len \in Lengths
        BY DEF Lengths
      <3> QED  BY <1>2, <1>3, <1>4, <2>1, <2>3, <3>1
    <2>5. s[Part(r.first, r.len)] <=> Finds(a, key, Part(r.first, r.len))
      BY <2>1, <2>4
    <2> QED  BY <1>3, <2>1, <2>2, <2>5, Zenon
  <1> QED  BY <1>6, <1>7

\* The whole of a is a part of it.
LEMMA WholeIsPart ==
    ASSUME NEW a \in Seq(Int)
    PROVE  Part(1, Len(a)) \in Parts(a)
  BY DEF Part, Parts

\* naive_binary_search (naive.h:4-20) returns true exactly when the key is in the
\* vector, for every sorted vector: its loop ends and drops no part with the key.
THEOREM NaiveFinds ==
    ASSUME NEW a \in Seq(Int), Sorted(a), NEW key \in Int
    PROVE  NaiveBinarySearch(a, key) <=> \E k \in DOMAIN a : a[k] = key
  <1> DEFINE s == CHOOSE g : Solves(g, a, key)
  <1>1. NaiveBinarySearch(a, key) = s[Part(1, Len(a))]
    BY Zenon DEF NaiveBinarySearch, Solves
  <1>2. Solves(s, a, key)
    BY FindsSolves, Zenon
  <1> HIDE DEF s
  <1>3. s[Part(1, Len(a))] <=> Finds(a, key, Part(1, Len(a)))
    BY <1>2, SolvesFinds, WholeIsPart
  <1>4. Finds(a, key, Part(1, Len(a))) <=> \E k \in DOMAIN a : a[k] = key
    BY DEF Finds, Part
  <1> QED  BY <1>1, <1>3, <1>4

-----------------------------------------------------------------------------
\* Counting.

\* Of the members of D that are not pending, those in G, when i ceases to be pending.
LEMMA CountAnswered ==
    ASSUME NEW D, IsFiniteSet(D), NEW P \in SUBSET D, NEW i \in P, NEW G
    PROVE  /\ Cardinality((D \ P) \cap G) \in Nat
           /\ Cardinality((D \ (P \ {i})) \cap G) =
                 IF i \in G THEN Cardinality((D \ P) \cap G) + 1
                 ELSE Cardinality((D \ P) \cap G)
  <1>1. IsFiniteSet((D \ P) \cap G)
    BY FS_Subset
  <1>2. CASE i \in G
    <2>1. (D \ (P \ {i})) \cap G = ((D \ P) \cap G) \cup {i} /\ i \notin (D \ P) \cap G
      BY <1>2
    <2> QED  BY <1>1, <1>2, <2>1, FS_AddElement, FS_CardinalityType
  <1>3. CASE i \notin G
    <2>1. (D \ (P \ {i})) \cap G = (D \ P) \cap G
      BY <1>3
    <2> QED  BY <1>1, <1>3, <2>1, FS_CardinalityType
  <1> QED  BY <1>2, <1>3
=============================================================================

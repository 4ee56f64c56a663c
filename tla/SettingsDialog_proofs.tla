------------------------- MODULE SettingsDialog_proofs -------------------------
(***************************************************************************)
(* Safety theorems about SettingsDialog and SensorDisplay, for any sensors,   *)
(* any layouts of them, any settings and any limits.  The lemmas on lists come  *)
(* first: the code's loops are recursive functions of the number of turns,      *)
(* and what they compute is found by induction on the turns, with sets of        *)
(* numbers.                                                                      *)
(***************************************************************************)
EXTENDS SettingsDialog, FiniteSetTheorems, WellFoundedInduction, TLAPS

(***************************************************************************)
(* Numbers and loops.                                                        *)
(***************************************************************************)

\* A set of numbers with zero and every successor holds all of them.
LEMMA SetInduction ==
  ASSUME NEW S \in SUBSET Nat, 0 \in S, \A n \in S : n + 1 \in S
  PROVE  S = Nat
<1> SUFFICES ASSUME Nat \ S # {} PROVE FALSE
  OBVIOUS
<1> DEFINE R == OpToRel(<, Nat)
<1>1. IsWellFoundedOn(R, Nat)
  BY NatLessThanWellFounded, Zenon
<1>2. PICK m \in Nat \ S : \A y \in Nat \ S : ~ (<<y, m>> \in R)
  <2> HIDE DEF R
  <2> QED BY <1>1, WFMin
<1>3. \A y \in Nat : y < m => <<y, m>> \in R
  BY DEF OpToRel
<1> HIDE DEF R
<1>4. m # 0 /\ m - 1 \in Nat
  OBVIOUS
<1>5. m - 1 \in Nat \ S /\ m - 1 < m
  BY <1>4
<1> QED BY <1>2, <1>3, <1>5

\* A loop whose turns are given by a function leaves a value after each of its turns.
Turns(f, T, a, m, g) ==
    /\ f \in [0..m -> T] /\ f[0] = a
    /\ \A n \in 1..m : f[n] = g[n][f[n - 1]]

LEMMA Iteration ==
  ASSUME NEW T, NEW a \in T, NEW m \in Nat, NEW g \in [1..m -> [T -> T]]
  PROVE  \E f : Turns(f, T, a, m, g)
<1> DEFINE Upto(f, k) == /\ f \in [0..k -> T] /\ f[0] = a
                         /\ \A n \in 1..k : f[n] = g[n][f[n - 1]]
           S == {k \in Nat : k <= m => \E f : Upto(f, k)}
<1>1. 0 \in S
  <2> DEFINE f == [n \in 0..0 |-> a]
  <2>1. f \in [0..0 -> T] /\ f[0] = a
    OBVIOUS
  <2>3. \A n \in 1..0 : FALSE
    OBVIOUS
  <2> HIDE DEF f
  <2>2. Upto(f, 0)
    BY <2>1, <2>3
  <2> QED BY <2>2
<1>2. ASSUME NEW k \in S PROVE k + 1 \in S
  <2>0. k \in Nat /\ (k <= m => \E f : Upto(f, k))
    OBVIOUS
  <2> SUFFICES ASSUME k + 1 <= m PROVE \E f : Upto(f, k + 1)
    BY <2>0
  <2>1. k <= m /\ k \in Nat
    BY <2>0
  <2>2. PICK f : Upto(f, k)
    BY <2>0, <2>1
  <2> DEFINE h == [n \in 0..k + 1 |-> IF n <= k THEN f[n] ELSE g[k + 1][f[k]]]
  <2>3. f[k] \in T /\ k + 1 \in 1..m /\ g[k + 1][f[k]] \in T
    BY <2>1, <2>2
  <2>4. h \in [0..k + 1 -> T]
    BY <2>1, <2>2, <2>3
  <2>5. h[0] = a
    BY <2>1, <2>2
  <2>6. ASSUME NEW n \in 1..k + 1 PROVE h[n] = g[n][h[n - 1]]
    <3>1. n - 1 \in 0..k /\ h[n - 1] = f[n - 1]
      BY <2>1
    <3>2. CASE n <= k
      <4>1. n \in 1..k /\ h[n] = f[n] /\ f[n] = g[n][f[n - 1]]
        BY <2>1, <2>2, <3>2
      <4> QED BY <3>1, <4>1
    <3>3. CASE ~(n <= k)
      <4>1. n = k + 1 /\ n - 1 = k /\ h[n] = g[k + 1][f[k]]
        BY <2>1, <3>3
      <4> QED BY <3>1, <4>1
    <3> QED BY <3>2, <3>3
  <2> HIDE DEF h
  <2>7. Upto(h, k + 1)
    BY <2>4, <2>5, <2>6
  <2> QED BY <2>7
<1>3. S = Nat
  <2>1. S \in SUBSET Nat
    OBVIOUS
  <2> HIDE DEF S
  <2> QED BY <1>1, <1>2, <2>1, SetInduction
<1>4. m \in S
  BY <1>3
<1> QED BY <1>4 DEF Turns

(***************************************************************************)
(* Lists: what is picked, and from where.                                    *)
(***************************************************************************)

\* What is picked after n turns, of s at the places P.
Picking(pick, s, P) ==
    pick = [n \in 0..Len(s) |-> IF n = 0 THEN <<>>
                                ELSE IF n \in P THEN Append(pick[n - 1], s[n]) ELSE pick[n - 1]]

LEMMA PickedIsLoop ==
  ASSUME NEW S, NEW s \in Seq(S), NEW P
  PROVE  \E f : Picking(f, s, P) /\ Picked(s, P) = f[Len(s)]
<1> DEFINE T == Seq(S)
           g == [n \in 1..Len(s) |-> [q \in T |-> IF n \in P THEN Append(q, s[n]) ELSE q]]
<1>1. Len(s) \in Nat /\ <<>> \in T
  OBVIOUS
<1>2. g \in [1..Len(s) -> [T -> T]]
  <2> SUFFICES ASSUME NEW n \in 1..Len(s), NEW q \in T
               PROVE  (IF n \in P THEN Append(q, s[n]) ELSE q) \in T
    OBVIOUS
  <2>1. s[n] \in S
    OBVIOUS
  <2> QED BY <2>1
<1>3. PICK f : f \in [0..Len(s) -> T] /\ f[0] = <<>> /\ \A n \in 1..Len(s) : f[n] = g[n][f[n - 1]]
  <2> DEFINE m == Len(s)
             e == <<>>
  <2> HIDE DEF g, T, m, e
  <2>1. m \in Nat /\ e \in T /\ g \in [1..m -> [T -> T]]
    BY <1>1, <1>2 DEF m, e
  <2>2. \E f : Turns(f, T, e, m, g)
    BY <2>1, Iteration
  <2> QED BY <2>2 DEF m, e, Turns
<1>4. Picking(f, s, P)
  <2> DEFINE h == [n \in 0..Len(s) |-> IF n = 0 THEN <<>>
                                ELSE IF n \in P THEN Append(f[n - 1], s[n]) ELSE f[n - 1]]
  <2>1. ASSUME NEW n \in 0..Len(s) PROVE f[n] = h[n]
    <3>1. CASE n = 0
      BY <1>3, <3>1
    <3>2. CASE n # 0
      <4>1. n \in 1..Len(s) /\ n - 1 \in 0..Len(s) /\ n # 0
        BY <1>1, <3>2
      <4>4. f[n - 1] \in T
        BY <1>3, <4>1
      <4>2. f[n] = g[n][f[n - 1]]
        BY <1>3, <4>1
      <4>3. g[n][f[n - 1]] = IF n \in P THEN Append(f[n - 1], s[n]) ELSE f[n - 1]
        BY <4>1, <4>4
      <4> HIDE DEF g
      <4> QED BY <4>1, <4>2, <4>3
    <3> QED BY <3>1, <3>2
  <2>2. f = [n \in 0..Len(s) |-> f[n]]
    BY <1>3
  <2> HIDE DEF h
  <2>3. f = h
    <3>1. h = [n \in 0..Len(s) |-> h[n]]
      BY DEF h
    <3> QED BY <2>1, <2>2, <3>1, Zenon
  <2> QED BY <2>3 DEF h, Picking
<1> DEFINE c == CHOOSE q : Picking(q, s, P)
<1>5. Picking(c, s, P)
  BY <1>4, Zenon
<1>6. Picked(s, P) = c[Len(s)]
  BY DEF Picked, Picking
<1> HIDE DEF c
<1> QED BY <1>5, <1>6

\* What has been picked of the first n elements: places in the list that increase,
\* with the elements there, and every place that was to be picked.
Places(g, r, s, P, n) ==
    /\ g \in [1..Len(r) -> 1..n]
    /\ \A k \in 1..Len(r) : g[k] \in P /\ r[k] = s[g[k]]
    /\ \A j, k \in 1..Len(r) : j < k => g[j] < g[k]
    /\ \A i \in 1..n : i \in P => \E k \in 1..Len(r) : g[k] = i

LEMMA PlacesOfMore ==
  ASSUME NEW S, NEW s \in Seq(S), NEW P, NEW r \in Seq(S), NEW g,
         NEW n \in 1..Len(s), n \in P, Places(g, r, s, P, n - 1)
  PROVE  \E h : Places(h, Append(r, s[n]), s, P, n)
<1> DEFINE m == Len(r)
           a == Append(r, s[n])
           h == [k \in 1..m + 1 |-> IF k <= m THEN g[k] ELSE n]
<1>1. m \in Nat /\ n \in Nat /\ n # 0 /\ s[n] \in S
  OBVIOUS
<1>2. a \in Seq(S) /\ Len(a) = m + 1 /\ a[m + 1] = s[n] /\ \A k \in 1..m : a[k] = r[k]
  BY <1>1
<1>3. /\ g \in [1..m -> 1..(n - 1)]
      /\ \A k \in 1..m : g[k] \in P /\ r[k] = s[g[k]]
      /\ \A j, k \in 1..m : j < k => g[j] < g[k]
      /\ \A i \in 1..(n - 1) : i \in P => \E k \in 1..m : g[k] = i
  BY DEF Places
<1>4. \A k \in 1..m : k \in 1..m + 1 /\ h[k] = g[k] /\ g[k] \in 1..(n - 1) /\ g[k] \in 1..n
  BY <1>1, <1>3
<1>5. m + 1 \in 1..m + 1 /\ h[m + 1] = n /\ n \in 1..n
  BY <1>1
<1>6. \A k \in 1..m + 1 : k \in 1..m \/ k = m + 1
  BY <1>1
<1>7. h \in [1..m + 1 -> 1..n]
  BY <1>4, <1>5, <1>6
<1> HIDE DEF h, a, m
<1>8. \A k \in 1..m + 1 : h[k] \in P /\ a[k] = s[h[k]]
  BY <1>2, <1>3, <1>4, <1>5, <1>6
<1>9. ASSUME NEW j \in 1..m + 1, NEW k \in 1..m + 1, j < k PROVE h[j] < h[k]
  <2>1. j \in 1..m
    BY <1>1, <1>9
  <2>2. CASE k \in 1..m
    BY <1>3, <1>4, <1>9, <2>1, <2>2
  <2>3. CASE k = m + 1
    BY <1>1, <1>4, <1>5, <2>1, <2>3
  <2> QED BY <1>6, <2>2, <2>3
<1>10. ASSUME NEW i \in 1..n, i \in P PROVE \E k \in 1..m + 1 : h[k] = i
  <2>1. CASE i = n
    BY <1>5, <2>1
  <2>2. CASE i # n
    <3>1. i \in 1..(n - 1)
      BY <1>1, <2>2
    <3>2. PICK k \in 1..m : g[k] = i
      BY <1>3, <1>10, <3>1
    <3> QED BY <1>4, <3>2
  <2> QED BY <2>1, <2>2
<1>11. Places(h, a, s, P, n)
  BY <1>2, <1>7, <1>8, <1>9, <1>10 DEF Places
<1> QED BY <1>11 DEF a

LEMMA PlacesOfSame ==
  ASSUME NEW S, NEW s \in Seq(S), NEW P, NEW r \in Seq(S), NEW g,
         NEW n \in 1..Len(s), n \notin P, Places(g, r, s, P, n - 1)
  PROVE  Places(g, r, s, P, n)
<1> DEFINE m == Len(r)
<1>1. m \in Nat /\ n \in Nat /\ n # 0
  OBVIOUS
<1>2. \A i \in 1..(n - 1) : i \in 1..n
  BY <1>1
<1>3. \A i \in 1..n : i \in P => i \in 1..(n - 1)
  BY <1>1
<1>4. /\ g \in [1..m -> 1..(n - 1)]
      /\ \A k \in 1..m : g[k] \in P /\ r[k] = s[g[k]]
      /\ \A j, k \in 1..m : j < k => g[j] < g[k]
      /\ \A i \in 1..(n - 1) : i \in P => \E k \in 1..m : g[k] = i
  BY DEF Places
<1> HIDE DEF m
<1>5. g \in [1..m -> 1..n]
  BY <1>2, <1>4
<1>6. \A i \in 1..n : i \in P => \E k \in 1..m : g[k] = i
  BY <1>3, <1>4
<1> QED BY <1>4, <1>5, <1>6 DEF Places, m

\* Picked gives the elements at the given places, in their order, each once.
LEMMA PickedPlaces ==
  ASSUME NEW S, NEW s \in Seq(S), NEW P
  PROVE  /\ Picked(s, P) \in Seq(S) /\ Len(Picked(s, P)) <= Len(s)
         /\ \E g : Places(g, Picked(s, P), s, P, Len(s))
<1>1. PICK f : Picking(f, s, P) /\ Picked(s, P) = f[Len(s)]
  BY PickedIsLoop
<1> DEFINE OK(n) == f[n] \in Seq(S) /\ Len(f[n]) <= n /\ \E g : Places(g, f[n], s, P, n)
           I == {n \in Nat : n <= Len(s) => OK(n)}
<1>2. Len(s) \in Nat
  OBVIOUS
<1>3. f[0] = <<>> /\ \A n \in 1..Len(s) :
                        f[n] = IF n \in P THEN Append(f[n - 1], s[n]) ELSE f[n - 1]
  <2>1. 0 \in 0..Len(s) /\ \A n \in 1..Len(s) : n \in 0..Len(s) /\ n # 0
    BY <1>2
  <2> QED BY <1>1, <2>1 DEF Picking
<1>4. 0 \in I
  <2>1. f[0] \in Seq(S) /\ Len(f[0]) = 0
    BY <1>3
  <2> DEFINE g == [k \in 1..0 |-> 1]
  <2>2. Places(g, <<>>, s, P, 0)
    BY DEF Places
  <2>3. \E h : Places(h, f[0], s, P, 0)
    <3> HIDE DEF g
    <3> QED BY <1>3, <2>2
  <2> QED BY <2>1, <2>3
<1>5. ASSUME NEW n \in I PROVE n + 1 \in I
  <2>1. n \in Nat /\ (n <= Len(s) => OK(n))
    OBVIOUS
  <2> SUFFICES ASSUME n + 1 <= Len(s) PROVE OK(n + 1)
    BY <2>1
  <2>2. n <= Len(s) /\ n + 1 \in 1..Len(s) /\ n + 1 - 1 = n /\ s[n + 1] \in S
    BY <1>2, <2>1
  <2>3. f[n] \in Seq(S) /\ Len(f[n]) <= n
    BY <2>1, <2>2
  <2>4. PICK g : Places(g, f[n], s, P, n)
    BY <2>1, <2>2
  <2>7. f[n + 1] = IF n + 1 \in P THEN Append(f[n + 1 - 1], s[n + 1]) ELSE f[n + 1 - 1]
    <3> DEFINE k == n + 1
    <3>1. k \in 1..Len(s)
      BY <2>2
    <3> HIDE DEF k
    <3>2. f[k] = IF k \in P THEN Append(f[k - 1], s[k]) ELSE f[k - 1]
      BY <1>3, <3>1
    <3> QED BY <3>2 DEF k
  <2>5. CASE n + 1 \in P
    <3>1. f[n + 1] = Append(f[n], s[n + 1])
      BY <2>2, <2>5, <2>7
    <3>2. f[n + 1] \in Seq(S) /\ Len(f[n + 1]) = Len(f[n]) + 1 /\ Len(f[n]) \in Nat
      BY <2>2, <2>3, <3>1
    <3>3. Len(f[n + 1]) <= n + 1
      BY <2>1, <2>3, <3>2
    <3>4. \E h : Places(h, Append(f[n], s[n + 1]), s, P, n + 1)
      <4> DEFINE k == n + 1
                 r == f[n]
      <4>1. k \in 1..Len(s) /\ k \in P /\ r \in Seq(S) /\ Places(g, r, s, P, k - 1)
        BY <2>2, <2>3, <2>4, <2>5
      <4> HIDE DEF k, r
      <4>2. \E h : Places(h, Append(r, s[k]), s, P, k)
        BY <4>1, PlacesOfMore
      <4> QED BY <4>2 DEF k, r
    <3> QED BY <3>1, <3>2, <3>3, <3>4
  <2>6. CASE n + 1 \notin P
    <3>1. f[n + 1] = f[n]
      BY <2>2, <2>6, <2>7
    <3>3. Len(f[n]) <= n + 1
      <4>1. Len(f[n]) \in Nat
        BY <2>3
      <4> QED BY <2>1, <2>3, <4>1
    <3>4. Places(g, f[n], s, P, n + 1)
      <4> DEFINE k == n + 1
                 r == f[n]
      <4>1. k \in 1..Len(s) /\ k \notin P /\ r \in Seq(S) /\ Places(g, r, s, P, k - 1)
        BY <2>2, <2>3, <2>4, <2>6
      <4> HIDE DEF k, r
      <4>2. Places(g, r, s, P, k)
        BY <4>1, PlacesOfSame
      <4> QED BY <4>2 DEF k, r
    <3> QED BY <2>3, <3>1, <3>3, <3>4
  <2> QED BY <2>5, <2>6
<1>6. I = Nat
  <2>1. I \in SUBSET Nat
    OBVIOUS
  <2> HIDE DEF I
  <2> QED BY <1>4, <1>5, <2>1, SetInduction
<1>7. OK(Len(s))
  BY <1>2, <1>6
<1> QED BY <1>1, <1>7

(***************************************************************************)
(* Lists: their elements.                                                    *)
(***************************************************************************)

LEMMA Elements ==
  ASSUME NEW S, NEW s \in Seq(S), NEW x
  PROVE  /\ x \in ToSet(s) <=> \E i \in 1..Len(s) : s[i] = x
         /\ Contains(s, x) <=> x \in ToSet(s)
         /\ ToSet(s) \subseteq S
  BY DEF ToSet, Contains

LEMMA ElementType ==
  ASSUME NEW S, NEW s \in Seq(S), NEW i \in 1..Len(s)
  PROVE  s[i] \in S
  OBVIOUS

LEMMA ElementsOfPicked ==
  ASSUME NEW S, NEW s \in Seq(S), NEW P, NEW x
  PROVE  x \in ToSet(Picked(s, P)) <=> \E i \in 1..Len(s) : i \in P /\ s[i] = x
<1> DEFINE r == Picked(s, P)
<1>1. r \in Seq(S) /\ \E g : Places(g, r, s, P, Len(s))
  BY PickedPlaces
<1>2. PICK g : Places(g, r, s, P, Len(s))
  BY <1>1
<1>3. x \in ToSet(r) <=> \E k \in 1..Len(r) : r[k] = x
  BY <1>1, Elements
<1> HIDE DEF r
<1>4. ASSUME NEW k \in 1..Len(r), r[k] = x
      PROVE  \E i \in 1..Len(s) : i \in P /\ s[i] = x
  BY <1>2, <1>4 DEF Places
<1>5. ASSUME NEW i \in 1..Len(s), i \in P, s[i] = x
      PROVE  \E k \in 1..Len(r) : r[k] = x
  BY <1>2, <1>5 DEF Places
<1> QED BY <1>3, <1>4, <1>5 DEF r

\* No element is picked twice if the places have different elements.
LEMMA PickedOnce ==
  ASSUME NEW S, NEW s \in Seq(S), NEW P,
         \A i, j \in 1..Len(s) : i \in P /\ j \in P /\ s[i] = s[j] => i = j
  PROVE  IsInjective(Picked(s, P))
<1> DEFINE r == Picked(s, P)
<1>1. r \in Seq(S) /\ \E g : Places(g, r, s, P, Len(s))
  BY PickedPlaces
<1>2. PICK g : Places(g, r, s, P, Len(s))
  BY <1>1
<1> HIDE DEF r
<1>3. DOMAIN r = 1..Len(r) /\ Len(r) \in Nat /\ Len(s) \in Nat
  BY <1>1
<1>4. ASSUME NEW j \in 1..Len(r), NEW k \in 1..Len(r), r[j] = r[k] PROVE j = k
  <2>1. g[j] \in 1..Len(s) /\ g[k] \in 1..Len(s) /\ g[j] \in P /\ g[k] \in P
        /\ s[g[j]] = s[g[k]]
    BY <1>2, <1>4 DEF Places
  <2>2. g[j] = g[k] /\ g[j] \in Nat
    BY <1>3, <2>1
  <2>3. ~(j < k) /\ ~(k < j)
    BY <1>2, <2>2 DEF Places
  <2> QED BY <1>3, <2>3
<1>5. IsInjective(r)
  BY <1>3, <1>4 DEF IsInjective
<1> QED BY <1>5 DEF r

LEMMA KeptElements ==
  ASSUME NEW S, NEW s \in Seq(S), NEW A
  PROVE  /\ Kept(s, A) \in Seq(S) /\ Len(Kept(s, A)) <= Len(s)
         /\ ToSet(Kept(s, A)) = ToSet(s) \cap A
         /\ IsInjective(s) => IsInjective(Kept(s, A))
<1> DEFINE P == {i \in DOMAIN s : s[i] \in A}
<1>1. DOMAIN s = 1..Len(s)
  OBVIOUS
<1>2. \A i \in 1..Len(s) : i \in P <=> s[i] \in A
  BY <1>1
<1>3. Kept(s, A) = Picked(s, P)
  BY DEF Kept
<1> HIDE DEF P
<1>4. ASSUME NEW x PROVE x \in ToSet(Kept(s, A)) <=> x \in ToSet(s) \cap A
  BY <1>2, <1>3, Elements, ElementsOfPicked
<1>5. ASSUME IsInjective(s) PROVE IsInjective(Kept(s, A))
  <2>1. \A i, j \in 1..Len(s) : s[i] = s[j] => i = j
    BY <1>1, <1>5 DEF IsInjective
  <2> QED BY <1>3, <2>1, PickedOnce
<1>6. ToSet(Kept(s, A)) = ToSet(s) \cap A
  BY <1>4
<1> QED BY <1>3, <1>5, <1>6, PickedPlaces

\* A sequence has the type of its elements.
LEMMA TypeOfElements ==
  ASSUME NEW S, NEW s \in Seq(S), NEW A, ToSet(s) \subseteq A
  PROVE  s \in Seq(A)
<1>1. \A i \in 1..Len(s) : s[i] \in A
  BY Elements
<1> QED BY <1>1

LEMMA DedupedElements ==
  ASSUME NEW S, NEW s \in Seq(S)
  PROVE  /\ Deduped(s) \in Seq(S) /\ Len(Deduped(s)) <= Len(s)
         /\ ToSet(Deduped(s)) = ToSet(s)
         /\ IsInjective(Deduped(s))
<1> DEFINE P == {i \in DOMAIN s : \A j \in 1..(i - 1) : s[j] # s[i]}
<1>1. DOMAIN s = 1..Len(s) /\ Len(s) \in Nat
  OBVIOUS
<1>2. Deduped(s) = Picked(s, P)
  BY DEF Deduped
<1>3. ASSUME NEW i \in 1..Len(s), NEW j \in 1..Len(s), i \in P, j \in P, s[i] = s[j]
      PROVE  i = j
  <2>1. ~(i < j) 
    <3> SUFFICES ASSUME i < j PROVE FALSE
      OBVIOUS
    <3>1. i \in 1..(j - 1)
      BY <1>1
    <3> QED BY <1>3, <3>1
  <2>2. ~(j < i)
    <3> SUFFICES ASSUME j < i PROVE FALSE
      OBVIOUS
    <3>1. j \in 1..(i - 1)
      BY <1>1
    <3> QED BY <1>3, <3>1
  <2> QED BY <1>1, <2>1, <2>2
<1>4. IsInjective(Deduped(s))
  <2> HIDE DEF P
  <2> QED BY <1>2, <1>3, PickedOnce
\* Of the places of an element the least one is picked.
<1>5. ASSUME NEW k \in 1..Len(s)
      PROVE  \E i \in 1..Len(s) : i \in P /\ s[i] = s[k]
  <2> DEFINE I == {n \in Nat : \A m \in 1..Len(s) : m <= n =>
                                   \E i \in 1..Len(s) : i \in P /\ s[i] = s[m]}
  <2>1. 0 \in I
    BY <1>1
  <2>2. ASSUME NEW n \in I PROVE n + 1 \in I
    <3>1. /\ n \in Nat
          /\ \A m \in 1..Len(s) : m <= n => \E i \in 1..Len(s) : i \in P /\ s[i] = s[m]
      OBVIOUS
    <3>2. ASSUME NEW m \in 1..Len(s), m <= n + 1
          PROVE  \E i \in 1..Len(s) : i \in P /\ s[i] = s[m]
      <4>1. CASE m \in P
        BY <4>1
      <4>2. CASE m \notin P
        <5>1. PICK j \in 1..(m - 1) : s[j] = s[m]
          BY <1>1, <4>2
        <5>2. j \in 1..Len(s) /\ j <= n
          BY <1>1, <3>1, <3>2
        <5>3. \E i \in 1..Len(s) : i \in P /\ s[i] = s[j]
          BY <3>1, <5>2
        <5> HIDE DEF P
        <5> QED BY <5>1, <5>3
      <4> QED BY <4>1, <4>2
    <3> HIDE DEF P
    <3> QED BY <3>1, <3>2
  <2>3. I = Nat
    <3>1. I \in SUBSET Nat
      OBVIOUS
    <3> HIDE DEF I
    <3> QED BY <2>1, <2>2, <3>1, SetInduction
  <2>4. k \in Nat /\ k <= k
    BY <1>1
  <2>5. k \in I
    <3> HIDE DEF I
    <3> QED BY <2>3, <2>4
  <2> HIDE DEF P
  <2> QED BY <2>4, <2>5
<1> HIDE DEF P
<1>6. ASSUME NEW x PROVE x \in ToSet(Deduped(s)) <=> x \in ToSet(s)
  <2>1. x \in ToSet(Deduped(s)) <=> \E i \in 1..Len(s) : i \in P /\ s[i] = x
    BY <1>2, ElementsOfPicked
  <2>2. x \in ToSet(s) <=> \E i \in 1..Len(s) : s[i] = x
    BY Elements
  <2> QED BY <1>5, <2>1, <2>2
<1>7. ToSet(Deduped(s)) = ToSet(s)
  BY <1>6
<1> QED BY <1>2, <1>4, <1>7, PickedPlaces

(***************************************************************************)
(* Lists: what is picked is determined by the places.                        *)
(***************************************************************************)

\* One of two such lists reaches no place before the other.
LEMMA PlacesInStep ==
  ASSUME NEW S, NEW s, NEW P, NEW n \in Nat, NEW r \in Seq(S), NEW q \in Seq(S), NEW g, NEW h,
         Places(g, r, s, P, n), Places(h, q, s, P, n),
         NEW k \in 1..Len(r), k \in 1..Len(q),
         \A j \in 1..(k - 1) : g[j] = h[j]
  PROVE  g[k] <= h[k]
<1>1. /\ g \in [1..Len(r) -> 1..n] /\ h \in [1..Len(q) -> 1..n]
      /\ \A i, j \in 1..Len(r) : i < j => g[i] < g[j]
      /\ \A i, j \in 1..Len(q) : i < j => h[i] < h[j]
      /\ \A i \in 1..n : i \in P => \E j \in 1..Len(r) : g[j] = i
      /\ h[k] \in P
  BY DEF Places
<1>2. h[k] \in 1..n /\ g[k] \in 1..n
  BY <1>1
<1>3. PICK j \in 1..Len(r) : g[j] = h[k]
  BY <1>1, <1>2
<1>4. CASE j < k
  <2>1. j \in 1..(k - 1) /\ j \in 1..Len(q)
    BY <1>4
  <2>2. h[j] = h[k] /\ h[j] < h[k]
    BY <1>1, <1>3, <1>4, <2>1
  <2> QED BY <1>2, <2>2
<1>5. CASE j = k
  BY <1>2, <1>3, <1>5
<1>6. CASE k < j
  BY <1>1, <1>2, <1>3, <1>6
<1> QED BY <1>4, <1>5, <1>6

LEMMA PlacesAgree ==
  ASSUME NEW S, NEW s, NEW P, NEW n \in Nat, NEW r \in Seq(S), NEW q \in Seq(S), NEW g, NEW h,
         Places(g, r, s, P, n), Places(h, q, s, P, n)
  PROVE  \A k \in 1..Len(r) : k \in 1..Len(q) => g[k] = h[k]
<1> DEFINE I == {m \in Nat : \A k \in 1..Len(r) : k <= m /\ k \in 1..Len(q) => g[k] = h[k]}
<1>1. 0 \in I
  OBVIOUS
<1>2. ASSUME NEW m \in I PROVE m + 1 \in I
  <2>1. m \in Nat /\ \A k \in 1..Len(r) : k <= m /\ k \in 1..Len(q) => g[k] = h[k]
    OBVIOUS
  <2>2. ASSUME NEW k \in 1..Len(r), k <= m + 1, k \in 1..Len(q) PROVE g[k] = h[k]
    <3>1. \A j \in 1..(k - 1) : j \in 1..Len(r) /\ j \in 1..Len(q) /\ j <= m
      BY <2>1, <2>2
    <3>2. \A j \in 1..(k - 1) : g[j] = h[j] /\ h[j] = g[j]
      BY <2>1, <3>1
    <3>3. g[k] <= h[k]
      BY <2>2, <3>2, PlacesInStep
    <3>4. h[k] <= g[k]
      BY <2>2, <3>2, PlacesInStep
    <3>5. g[k] \in Nat /\ h[k] \in Nat
      BY <2>2 DEF Places
    <3> QED BY <3>3, <3>4, <3>5
  <2> QED BY <2>1, <2>2
<1>3. I = Nat
  <2>1. I \in SUBSET Nat
    OBVIOUS
  <2> HIDE DEF I
  <2> QED BY <1>1, <1>2, <2>1, SetInduction
<1> QED
  <2> SUFFICES ASSUME NEW k \in 1..Len(r), k \in 1..Len(q) PROVE g[k] = h[k]
    OBVIOUS
  <2>1. k \in Nat /\ k <= k
    OBVIOUS
  <2>2. k \in I
    <3> HIDE DEF I
    <3> QED BY <1>3, <2>1
  <2> QED BY <2>1, <2>2

LEMMA PlacesLength ==
  ASSUME NEW S, NEW s, NEW P, NEW n \in Nat, NEW r \in Seq(S), NEW q \in Seq(S), NEW g, NEW h,
         Places(g, r, s, P, n), Places(h, q, s, P, n)
  PROVE  Len(q) <= Len(r)
<1> SUFFICES ASSUME Len(r) < Len(q) PROVE FALSE
  OBVIOUS
<1> DEFINE k == Len(r) + 1
<1>1. k \in 1..Len(q) /\ \A j \in 1..Len(r) : j \in 1..Len(q) /\ j < k
  OBVIOUS
<1> HIDE DEF k
<1>2. h[k] \in 1..n /\ h[k] \in P
  BY <1>1 DEF Places
<1>3. PICK j \in 1..Len(r) : g[j] = h[k]
  BY <1>2 DEF Places
<1>4. g[j] = h[j]
  BY <1>1, PlacesAgree
<1>5. h[j] < h[k]
  BY <1>1 DEF Places
<1> QED BY <1>2, <1>3, <1>4, <1>5

LEMMA PickedIs ==
  ASSUME NEW S, NEW s \in Seq(S), NEW P, NEW q \in Seq(S), NEW h, Places(h, q, s, P, Len(s))
  PROVE  Picked(s, P) = q
<1> DEFINE r == Picked(s, P)
<1>1. r \in Seq(S) /\ \E g : Places(g, r, s, P, Len(s))
  BY PickedPlaces
<1>2. PICK g : Places(g, r, s, P, Len(s))
  BY <1>1
<1>3. Len(s) \in Nat
  OBVIOUS
<1> HIDE DEF r
<1>4. Len(q) <= Len(r) /\ Len(r) <= Len(q) /\ Len(r) \in Nat /\ Len(q) \in Nat
  BY <1>1, <1>2, <1>3, PlacesLength
<1>5. Len(r) = Len(q)
  BY <1>4
<1>6. \A k \in 1..Len(r) : g[k] = h[k]
  BY <1>1, <1>2, <1>3, <1>5, PlacesAgree
<1>7. \A k \in 1..Len(r) : r[k] = q[k]
  BY <1>2, <1>5, <1>6 DEF Places
<1>8. r = q
  BY <1>1, <1>5, <1>7
<1> QED BY <1>8 DEF r

LEMMA AllPicked ==
  ASSUME NEW S, NEW s \in Seq(S), NEW P, \A i \in 1..Len(s) : i \in P
  PROVE  Picked(s, P) = s
<1> DEFINE h == [i \in 1..Len(s) |-> i]
<1>1. Places(h, s, s, P, Len(s))
  BY DEF Places
<1> HIDE DEF h
<1> QED BY <1>1, PickedIs

LEMMA NoneKept ==
  ASSUME NEW S, NEW s \in Seq(S), NEW A, ToSet(s) \cap A = {}
  PROVE  Kept(s, A) = <<>>
<1>1. Kept(s, A) \in Seq(S) /\ ToSet(Kept(s, A)) = {}
  BY KeptElements
<1>2. \A i \in 1..Len(Kept(s, A)) : FALSE
  BY <1>1, Elements
<1> QED BY <1>1, <1>2

LEMMA InjectiveIsDeduped ==
  ASSUME NEW S, NEW s \in Seq(S), IsInjective(s)
  PROVE  Deduped(s) = s
<1> DEFINE P == {i \in DOMAIN s : \A j \in 1..(i - 1) : s[j] # s[i]}
<1>1. ASSUME NEW i \in 1..Len(s), NEW j \in 1..(i - 1), s[j] = s[i] PROVE FALSE
  <2>1. j \in 1..Len(s) /\ i # j /\ i \in DOMAIN s /\ j \in DOMAIN s
    OBVIOUS
  <2> QED BY <1>1, <2>1 DEF IsInjective
<1>2. \A i \in 1..Len(s) : i \in P
  BY <1>1
<1> HIDE DEF P
<1>3. Picked(s, P) = s
  BY <1>2, AllPicked
<1> QED BY <1>3 DEF P, Deduped

\* What is kept of what was kept.
LEMMA KeptTwice ==
  ASSUME NEW S, NEW s \in Seq(S), NEW A, NEW B
  PROVE  Kept(Kept(s, A), B) = Kept(s, A \cap B)
<1> DEFINE P == {i \in DOMAIN s : s[i] \in A}
           r == Kept(s, A)
           Q == {i \in DOMAIN r : r[i] \in B}
           q == Kept(r, B)
           R == {i \in DOMAIN s : s[i] \in A \cap B}
<1>1. r = Picked(s, P) /\ q = Picked(r, Q) /\ Kept(s, A \cap B) = Picked(s, R)
  BY DEF Kept
<1>2. r \in Seq(S) /\ q \in Seq(S)
  BY KeptElements
<1>3. PICK g : Places(g, r, s, P, Len(s))
  <2> HIDE DEF P, r
  <2> QED BY <1>1, PickedPlaces
<1>4. PICK h : Places(h, q, r, Q, Len(r))
  <2> HIDE DEF P, Q, r, q
  <2> QED BY <1>1, <1>2, PickedPlaces
<1> DEFINE f == [k \in 1..Len(q) |-> g[h[k]]]
<1>5. /\ Len(s) \in Nat /\ DOMAIN s = 1..Len(s)
      /\ \A i \in 1..Len(s) : i \in P <=> s[i] \in A
      /\ \A i \in 1..Len(s) : i \in R <=> s[i] \in A /\ s[i] \in B
  OBVIOUS
<1>6. \A i \in 1..Len(r) : i \in Q <=> r[i] \in B
  <2> HIDE DEF r
  <2> QED BY <1>2
<1> HIDE DEF P, r, Q, q, R
<1>7. /\ g \in [1..Len(r) -> 1..Len(s)] /\ h \in [1..Len(q) -> 1..Len(r)]
      /\ \A k \in 1..Len(r) : g[k] \in P /\ r[k] = s[g[k]]
      /\ \A k \in 1..Len(q) : h[k] \in Q /\ q[k] = r[h[k]]
      /\ \A j, k \in 1..Len(r) : j < k => g[j] < g[k]
      /\ \A j, k \in 1..Len(q) : j < k => h[j] < h[k]
      /\ \A i \in 1..Len(s) : i \in P => \E k \in 1..Len(r) : g[k] = i
      /\ \A i \in 1..Len(r) : i \in Q => \E k \in 1..Len(q) : h[k] = i
  BY <1>3, <1>4 DEF Places
<1>8. \A k \in 1..Len(q) : f[k] = g[h[k]] /\ h[k] \in 1..Len(r) /\ f[k] \in 1..Len(s)
  BY <1>7
<1>9. f \in [1..Len(q) -> 1..Len(s)]
  BY <1>7
<1> HIDE DEF f
<1>10. \A k \in 1..Len(q) : f[k] \in R /\ q[k] = s[f[k]]
  BY <1>5, <1>6, <1>7, <1>8
<1>11. ASSUME NEW j \in 1..Len(q), NEW k \in 1..Len(q), j < k PROVE f[j] < f[k]
  <2>1. h[j] \in 1..Len(r) /\ h[k] \in 1..Len(r) /\ h[j] < h[k]
    BY <1>7, <1>8, <1>11
  <2>2. g[h[j]] < g[h[k]]
    BY <1>7, <2>1
  <2> QED BY <1>8, <2>2
<1>12. ASSUME NEW i \in 1..Len(s), i \in R PROVE \E k \in 1..Len(q) : f[k] = i
  <2>1. i \in P /\ s[i] \in B
    BY <1>5, <1>12
  <2>2. PICK m \in 1..Len(r) : g[m] = i
    BY <1>7, <2>1
  <2>3. m \in Q
    BY <1>6, <1>7, <2>1, <2>2
  <2>4. PICK k \in 1..Len(q) : h[k] = m
    BY <1>7, <2>3
  <2> QED BY <1>8, <2>2, <2>4
<1>13. Places(f, q, s, R, Len(s))
  BY <1>9, <1>10, <1>11, <1>12 DEF Places
<1>14. Picked(s, R) = q
  BY <1>2, <1>13, PickedIs
<1> QED BY <1>1, <1>14 DEF q, r

LEMMA KeptOfBoth ==
  ASSUME NEW S, NEW s \in Seq(S), NEW t \in Seq(S), NEW A
  PROVE  Kept(s \o t, A) = Kept(s, A) \o Kept(t, A)
<1> DEFINE P == {i \in DOMAIN s : s[i] \in A}
           Q == {i \in DOMAIN t : t[i] \in A}
           R == {i \in DOMAIN (s \o t) : (s \o t)[i] \in A}
           u == s \o t
           l == Len(s)
           r == Kept(s, A)
           q == Kept(t, A)
           w == r \o q
           m == Len(r)
<1>1. r = Picked(s, P) /\ q = Picked(t, Q) /\ Kept(u, A) = Picked(u, R)
  BY DEF Kept
<1>2. r \in Seq(S) /\ q \in Seq(S)
  BY KeptElements
<1>3. PICK g : Places(g, r, s, P, l)
  <2> HIDE DEF P, r
  <2> QED BY <1>1, PickedPlaces
<1>4. PICK h : Places(h, q, t, Q, Len(t))
  <2> HIDE DEF Q, q
  <2> QED BY <1>1, PickedPlaces
<1>5. /\ u \in Seq(S) /\ Len(u) = l + Len(t) /\ l \in Nat /\ Len(t) \in Nat
      /\ \A i \in 1..l : i \in 1..Len(u) /\ u[i] = s[i]
      /\ \A i \in 1..Len(t) : l + i \in 1..Len(u) /\ u[l + i] = t[i]
      /\ \A i \in 1..Len(u) : i \in 1..l \/ (i - l \in 1..Len(t) /\ i = l + (i - l))
  OBVIOUS
<1>6. /\ w \in Seq(S) /\ Len(w) = m + Len(q) /\ m \in Nat /\ Len(q) \in Nat
      /\ \A i \in 1..m : i \in 1..Len(w) /\ w[i] = r[i]
      /\ \A i \in 1..Len(q) : m + i \in 1..Len(w) /\ w[m + i] = q[i]
      /\ \A i \in 1..Len(w) : i \in 1..m \/ (i - m \in 1..Len(q) /\ i = m + (i - m))
  <2> HIDE DEF r, q
  <2> QED BY <1>2
<1>7. /\ \A i \in 1..l : i \in P <=> s[i] \in A
      /\ \A i \in 1..Len(t) : i \in Q <=> t[i] \in A
  OBVIOUS
<1>8. \A i \in 1..Len(u) : i \in R <=> u[i] \in A
  <2>1. DOMAIN u = 1..Len(u)
    <3> HIDE DEF u
    <3> QED BY <1>5
  <2>2. R = {i \in DOMAIN u : u[i] \in A}
    OBVIOUS
  <2> HIDE DEF u, R
  <2> QED BY <2>1, <2>2
<1> DEFINE f == [k \in 1..Len(w) |-> IF k <= m THEN g[k] ELSE l + h[k - m]]
<1>9. /\ g \in [1..m -> 1..l] /\ h \in [1..Len(q) -> 1..Len(t)]
      /\ \A k \in 1..m : g[k] \in P /\ r[k] = s[g[k]]
      /\ \A k \in 1..Len(q) : h[k] \in Q /\ q[k] = t[h[k]]
      /\ \A j, k \in 1..m : j < k => g[j] < g[k]
      /\ \A j, k \in 1..Len(q) : j < k => h[j] < h[k]
      /\ \A i \in 1..l : i \in P => \E k \in 1..m : g[k] = i
      /\ \A i \in 1..Len(t) : i \in Q => \E k \in 1..Len(q) : h[k] = i
  <2> HIDE DEF P, Q, R, u, r, q, w
  <2> QED BY <1>3, <1>4 DEF Places
<1> HIDE DEF P, Q, R, u, l, r, q, w, m
<1>10. \A k \in 1..m : f[k] = g[k] /\ g[k] \in 1..l
  BY <1>6, <1>9
<1>11. \A k \in 1..Len(q) : f[m + k] = l + h[k] /\ h[k] \in 1..Len(t)
  <2> SUFFICES ASSUME NEW k \in 1..Len(q) PROVE f[m + k] = l + h[k] /\ h[k] \in 1..Len(t)
    OBVIOUS
  <2> DEFINE j == m + k
  <2>1. j \in 1..Len(w) /\ ~(j <= m) /\ j - m = k
    BY <1>6
  <2> HIDE DEF j
  <2>2. f[j] = l + h[j - m]
    BY <2>1
  <2>3. f[j] = l + h[k] /\ h[k] \in 1..Len(t)
    BY <1>9, <2>1, <2>2
  <2> QED BY <2>3 DEF j
<1> HIDE DEF f
<1>12. f \in [1..Len(w) -> 1..Len(u)]
  <2>1. \A k \in 1..m : f[k] \in 1..Len(u)
    BY <1>5, <1>10
  <2>2. \A k \in 1..Len(q) : f[m + k] \in 1..Len(u)
    BY <1>5, <1>11
  <2>3. ASSUME NEW k \in 1..Len(w) PROVE f[k] \in 1..Len(u)
    <3>1. CASE k \in 1..m
      BY <2>1, <3>1
    <3>2. CASE k - m \in 1..Len(q) /\ k = m + (k - m)
      BY <2>2, <3>2
    <3> QED BY <1>6, <3>1, <3>2
  <2> QED BY <2>3 DEF f
<1>13. ASSUME NEW k \in 1..Len(w) PROVE f[k] \in R /\ w[k] = u[f[k]]
  <2>1. CASE k \in 1..m
    <3>1. f[k] = g[k] /\ g[k] \in 1..l /\ g[k] \in P /\ r[k] = s[g[k]] /\ w[k] = r[k]
      BY <1>6, <1>9, <1>10, <2>1
    <3>2. f[k] \in 1..Len(u) /\ u[f[k]] = s[g[k]] /\ s[g[k]] \in A
      BY <1>5, <1>7, <3>1
    <3> QED BY <1>8, <3>1, <3>2
  <2>2. CASE k - m \in 1..Len(q) /\ k = m + (k - m)
    <3>1. PICK i \in 1..Len(q) : k = m + i
      BY <2>2
    <3>2. f[k] = l + h[i] /\ h[i] \in 1..Len(t) /\ h[i] \in Q /\ q[i] = t[h[i]] /\ w[k] = q[i]
      BY <1>6, <1>9, <1>11, <3>1
    <3>3. f[k] \in 1..Len(u) /\ u[f[k]] = t[h[i]] /\ t[h[i]] \in A
      BY <1>5, <1>7, <3>2
    <3> QED BY <1>8, <3>2, <3>3
  <2> QED BY <1>6, <2>1, <2>2
<1>14. ASSUME NEW j \in 1..Len(w), NEW k \in 1..Len(w), j < k PROVE f[j] < f[k]
  <2>1. CASE k \in 1..m
    <3>1. j \in 1..m
      BY <1>6, <1>14, <2>1
    <3> QED BY <1>9, <1>10, <1>14, <2>1, <3>1
  <2>2. CASE k - m \in 1..Len(q) /\ k = m + (k - m)
    <3>1. PICK i \in 1..Len(q) : k = m + i
      BY <2>2
    <3>2. f[k] = l + h[i] /\ h[i] \in 1..Len(t)
      BY <1>11, <3>1
    <3>3. CASE j \in 1..m
      <4>1. f[j] \in 1..l
        BY <1>10, <3>3
      <4> QED BY <1>5, <3>2, <4>1
    <3>4. CASE j - m \in 1..Len(q) /\ j = m + (j - m)
      <4>1. PICK e \in 1..Len(q) : j = m + e
        BY <3>4
      <4>2. e < i
        BY <1>6, <1>14, <3>1, <4>1
      <4>3. f[j] = l + h[e] /\ h[e] \in 1..Len(t) /\ h[e] < h[i]
        BY <1>9, <1>11, <4>1, <4>2
      <4> QED BY <1>5, <3>2, <4>3
    <3> QED BY <1>6, <3>3, <3>4
  <2> QED BY <1>6, <2>1, <2>2
<1>15. ASSUME NEW i \in 1..Len(u), i \in R PROVE \E k \in 1..Len(w) : f[k] = i
  <2>1. CASE i \in 1..l
    <3>1. i \in P
      BY <1>5, <1>7, <1>8, <1>15, <2>1
    <3>2. PICK k \in 1..m : g[k] = i
      BY <1>9, <2>1, <3>1
    <3> QED BY <1>6, <1>10, <3>2
  <2>2. CASE i - l \in 1..Len(t) /\ i = l + (i - l)
    <3>1. PICK e \in 1..Len(t) : i = l + e
      BY <2>2
    <3>2. e \in Q
      BY <1>5, <1>7, <1>8, <1>15, <3>1
    <3>3. PICK k \in 1..Len(q) : h[k] = e
      BY <1>9, <3>2
    <3>4. m + k \in 1..Len(w) /\ f[m + k] = i
      BY <1>6, <1>11, <3>1, <3>3
    <3> QED BY <3>4
  <2> QED BY <1>5, <2>1, <2>2
<1>16. Places(f, w, u, R, Len(u))
  BY <1>12, <1>13, <1>14, <1>15 DEF Places
<1>17. Picked(u, R) = w
  BY <1>5, <1>6, <1>16, PickedIs
<1> QED BY <1>1, <1>17 DEF u, w, r, q

(***************************************************************************)
(* Lists: joined, cut, changed by one element.                               *)
(***************************************************************************)

LEMMA JoinedElements ==
  ASSUME NEW S, NEW s \in Seq(S), NEW t \in Seq(S)
  PROVE  /\ s \o t \in Seq(S) /\ Len(s \o t) = Len(s) + Len(t)
         /\ ToSet(s \o t) = ToSet(s) \cup ToSet(t)
         /\ (IsInjective(s) /\ IsInjective(t) /\ ToSet(s) \cap ToSet(t) = {})
              => IsInjective(s \o t)
<1> DEFINE u == s \o t
           l == Len(s)
<1>1. /\ u \in Seq(S) /\ Len(u) = l + Len(t) /\ l \in Nat /\ Len(t) \in Nat
      /\ \A i \in 1..l : i \in 1..Len(u) /\ u[i] = s[i]
      /\ \A i \in 1..Len(t) : l + i \in 1..Len(u) /\ u[l + i] = t[i]
      /\ \A i \in 1..Len(u) : i \in 1..l \/ (i - l \in 1..Len(t) /\ i = l + (i - l))
  OBVIOUS
<1> HIDE DEF u, l
<1>2. ASSUME NEW x PROVE x \in ToSet(u) <=> x \in ToSet(s) \cup ToSet(t)
  <2>1. (x \in ToSet(s) <=> \E i \in 1..l : s[i] = x)
        /\ (x \in ToSet(t) <=> \E i \in 1..Len(t) : t[i] = x)
    BY Elements DEF l
  <2>2. x \in ToSet(u) <=> \E i \in 1..Len(u) : u[i] = x
    <3>1. u \in Seq(S)
      BY <1>1
    <3> QED BY <3>1, Elements
  <2>3. ASSUME NEW i \in 1..Len(u), u[i] = x
        PROVE  (\E j \in 1..l : s[j] = x) \/ \E j \in 1..Len(t) : t[j] = x
    <3>1. CASE i \in 1..l
      BY <1>1, <2>3, <3>1
    <3>2. CASE i - l \in 1..Len(t) /\ i = l + (i - l)
      <4>1. PICK j \in 1..Len(t) : i = l + j
        BY <3>2
      <4> QED BY <1>1, <2>3, <4>1
    <3> QED BY <1>1, <3>1, <3>2
  <2> QED BY <1>1, <2>1, <2>2, <2>3
<1>3. ASSUME IsInjective(s), IsInjective(t), ToSet(s) \cap ToSet(t) = {}
      PROVE  IsInjective(u)
  <2>1. /\ \A i, j \in 1..l : s[i] = s[j] => i = j
        /\ \A i, j \in 1..Len(t) : t[i] = t[j] => i = j
        /\ \A i \in 1..l, j \in 1..Len(t) : s[i] # t[j]
    BY <1>3 DEF IsInjective, ToSet, l
  <2>2. ASSUME NEW i \in 1..Len(u), NEW j \in 1..Len(u), u[i] = u[j] PROVE i = j
    <3>1. CASE i \in 1..l /\ j \in 1..l
      BY <1>1, <2>1, <2>2, <3>1
    <3>2. CASE i \in 1..l /\ (j - l \in 1..Len(t) /\ j = l + (j - l))
      <4>1. PICK e \in 1..Len(t) : j = l + e
        BY <3>2
      <4> QED BY <1>1, <2>1, <2>2, <3>2, <4>1
    <3>3. CASE j \in 1..l /\ (i - l \in 1..Len(t) /\ i = l + (i - l))
      <4>1. PICK e \in 1..Len(t) : i = l + e
        BY <3>3
      <4> QED BY <1>1, <2>1, <2>2, <3>3, <4>1
    <3>4. CASE (i - l \in 1..Len(t) /\ i = l + (i - l)) /\ (j - l \in 1..Len(t) /\ j = l + (j - l))
      <4>1. PICK d \in 1..Len(t), e \in 1..Len(t) : i = l + d /\ j = l + e
        BY <3>4
      <4>2. t[d] = t[e]
        BY <1>1, <2>2, <4>1
      <4> QED BY <2>1, <4>1, <4>2
    <3> QED BY <1>1, <3>1, <3>2, <3>3, <3>4
  <2>3. DOMAIN u = 1..Len(u)
    BY <1>1
  <2> QED BY <2>2, <2>3 DEF IsInjective
<1>4. ToSet(u) = ToSet(s) \cup ToSet(t)
  BY <1>2
<1> QED BY <1>1, <1>3, <1>4 DEF u, l

LEMMA JoinedOnce ==
  ASSUME NEW S, NEW s \in Seq(S), NEW t \in Seq(S),
         IsInjective(s), IsInjective(t), ToSet(s) \cap ToSet(t) = {}
  PROVE  /\ s \o t \in Seq(S) /\ IsInjective(s \o t)
         /\ ToSet(s \o t) = ToSet(s) \cup ToSet(t) /\ Len(s \o t) = Len(s) + Len(t)
  BY JoinedElements

LEMMA CutElements ==
  ASSUME NEW S, NEW s \in Seq(S), NEW i \in Nat \ {0}, NEW j \in Nat, j <= Len(s)
  PROVE  /\ SubSeq(s, i, j) \in Seq(S)
         /\ Len(SubSeq(s, i, j)) = IF i <= j THEN j - i + 1 ELSE 0
         /\ \A k \in 1..Len(SubSeq(s, i, j)) :
               SubSeq(s, i, j)[k] = s[i + k - 1] /\ i + k - 1 \in i..j /\ i + k - 1 \in 1..Len(s)
         /\ ToSet(SubSeq(s, i, j)) = {s[k] : k \in i..j}
         /\ IsInjective(s) => IsInjective(SubSeq(s, i, j))
<1> DEFINE c == SubSeq(s, i, j)
<1>1. c \in Seq(S) /\ Len(c) = IF i <= j THEN j - i + 1 ELSE 0
  OBVIOUS
<1>2. \A k \in 1..Len(c) : c[k] = s[i + k - 1]
  OBVIOUS
<1> HIDE DEF c
<1>3. \A k \in 1..Len(c) : i + k - 1 \in i..j /\ i + k - 1 \in 1..Len(s)
  BY <1>1
<1>4. \A k \in i..j : k - i + 1 \in 1..Len(c) /\ i + (k - i + 1) - 1 = k
  BY <1>1
<1>5. ASSUME NEW x PROVE x \in ToSet(c) <=> x \in {s[k] : k \in i..j}
  <2>1. x \in ToSet(c) <=> \E k \in 1..Len(c) : c[k] = x
    BY <1>1, Elements
  <2>2. ASSUME NEW k \in 1..Len(c), c[k] = x PROVE x \in {s[n] : n \in i..j}
    BY <1>2, <1>3, <2>2
  <2>3. ASSUME NEW k \in i..j, s[k] = x PROVE \E n \in 1..Len(c) : c[n] = x
    <3>1. k - i + 1 \in 1..Len(c) /\ c[k - i + 1] = s[k]
      BY <1>2, <1>4
    <3> QED BY <2>3, <3>1
  <2> QED BY <2>1, <2>2, <2>3
<1>6. ASSUME IsInjective(s) PROVE IsInjective(c)
  <2>1. ASSUME NEW k \in 1..Len(c), NEW n \in 1..Len(c), c[k] = c[n] PROVE k = n
    <3>1. s[i + k - 1] = s[i + n - 1] /\ i + k - 1 \in DOMAIN s /\ i + n - 1 \in DOMAIN s
      BY <1>2, <1>3, <2>1
    <3>2. i + k - 1 = i + n - 1
      BY <1>6, <3>1 DEF IsInjective
    <3> QED BY <1>1, <3>2
  <2>2. DOMAIN c = 1..Len(c)
    BY <1>1
  <2> QED BY <2>1, <2>2 DEF IsInjective
<1>7. ToSet(c) = {s[k] : k \in i..j}
  BY <1>5
<1> QED BY <1>1, <1>2, <1>3, <1>6, <1>7 DEF c

LEMMA UpElements ==
  ASSUME NEW S, NEW s \in Seq(S), NEW n \in Nat
  PROVE  /\ Up(n, s) \in Seq(S) /\ Len(Up(n, s)) <= n
         /\ ToSet(Up(n, s)) \subseteq ToSet(s)
         /\ IsInjective(s) => IsInjective(Up(n, s))
         /\ Len(s) <= n => Up(n, s) = s
         /\ (n # 0 /\ s # <<>>) => s[1] \in ToSet(Up(n, s))
<1> DEFINE j == IF n < Len(s) THEN n ELSE Len(s)
<1>1. j \in Nat /\ j <= Len(s) /\ j <= n /\ Up(n, s) = SubSeq(s, 1, j)
  BY DEF Up
<1>2. (n # 0 /\ s # <<>>) => 1 \in 1..j
  OBVIOUS
<1>3. Len(s) <= n => j = Len(s)
  OBVIOUS
<1> HIDE DEF j
<1>4. /\ Up(n, s) \in Seq(S) /\ Len(Up(n, s)) = IF 1 <= j THEN j - 1 + 1 ELSE 0
      /\ ToSet(Up(n, s)) = {s[k] : k \in 1..j}
      /\ IsInjective(s) => IsInjective(Up(n, s))
  BY <1>1, CutElements
<1>5. ToSet(Up(n, s)) \subseteq ToSet(s)
  BY <1>1, <1>4 DEF ToSet
<1>6. Len(Up(n, s)) <= n
  BY <1>1, <1>4
<1>7. ASSUME Len(s) <= n PROVE Up(n, s) = s
  BY <1>1, <1>3, <1>7
<1> QED BY <1>2, <1>4, <1>5, <1>6, <1>7

LEMMA AppendElements ==
  ASSUME NEW S, NEW s \in Seq(S), NEW x \in S
  PROVE  /\ Append(s, x) \in Seq(S) /\ Len(Append(s, x)) = Len(s) + 1
         /\ ToSet(Append(s, x)) = ToSet(s) \cup {x}
         /\ (IsInjective(s) /\ x \notin ToSet(s)) => IsInjective(Append(s, x))
<1>1. <<x>> \in Seq(S) /\ Len(<<x>>) = 1 /\ Append(s, x) = s \o <<x>>
  OBVIOUS
<1>2. ToSet(<<x>>) = {x} /\ IsInjective(<<x>>)
  BY DEF ToSet, IsInjective
<1>3. ToSet(s) \cap {x} = {} <=> x \notin ToSet(s)
  OBVIOUS
<1> DEFINE t == <<x>>
<1> HIDE DEF t
<1>4. /\ s \o t \in Seq(S) /\ Len(s \o t) = Len(s) + Len(t)
      /\ ToSet(s \o t) = ToSet(s) \cup ToSet(t)
      /\ (IsInjective(s) /\ IsInjective(t) /\ ToSet(s) \cap ToSet(t) = {})
              => IsInjective(s \o t)
  BY <1>1, JoinedElements DEF t
<1> QED BY <1>1, <1>2, <1>3, <1>4 DEF t

\* An element taken out and put in elsewhere.
LEMMA MovedElements ==
  ASSUME NEW S, NEW r \in Seq(S), IsInjective(r), NEW i \in 1..Len(r), NEW j \in 1..Len(r)
  PROVE  LET w == InsertAt(RemoveAt(r, i), j, r[i])
         IN w \in Seq(S) /\ IsInjective(w) /\ ToSet(w) \subseteq ToSet(r)
<1> DEFINE n == Len(r)
           a == SubSeq(r, 1, i - 1)
           b == SubSeq(r, i + 1, n)
           q == a \o b
           c == SubSeq(q, 1, j - 1)
           d == SubSeq(q, j, Len(q))
           e == <<r[i]>>
<1>1. n \in Nat /\ i \in Nat /\ i # 0 /\ i - 1 \in Nat /\ i - 1 <= n /\ i + 1 \in Nat \ {0} /\ r[i] \in S
  OBVIOUS
<1>2. /\ a \in Seq(S) /\ IsInjective(a) /\ ToSet(a) = {r[k] : k \in 1..(i - 1)}
      /\ Len(a) = i - 1
  BY <1>1, CutElements
<1>3. /\ b \in Seq(S) /\ IsInjective(b) /\ ToSet(b) = {r[k] : k \in (i + 1)..n}
      /\ Len(b) = n - i
  <2>1. Len(b) = IF i + 1 <= n THEN n - (i + 1) + 1 ELSE 0
    BY <1>1, CutElements
  <2>2. Len(b) = n - i
    BY <1>1, <2>1
  <2> QED BY <1>1, <2>2, CutElements
<1>4. \A k \in 1..(i - 1) : k \in DOMAIN r /\ k < i
  BY <1>1
<1>5. \A k \in (i + 1)..n : k \in DOMAIN r /\ i < k /\ k \in Nat
  BY <1>1
<1>6. i \in DOMAIN r /\ \A k, m \in DOMAIN r : r[k] = r[m] => k = m
  BY DEF IsInjective
<1>7. ToSet(a) \cap ToSet(b) = {}
  BY <1>1, <1>2, <1>3, <1>4, <1>5, <1>6
<1>8. r[i] \notin ToSet(a) /\ r[i] \notin ToSet(b) /\ r[i] \in ToSet(r)
  BY <1>1, <1>2, <1>3, <1>4, <1>5, <1>6 DEF ToSet
<1>9. ToSet(a) \subseteq ToSet(r) /\ ToSet(b) \subseteq ToSet(r)
  BY <1>2, <1>3, <1>4, <1>5 DEF ToSet
<1>10. RemoveAt(r, i) = q
  BY DEF RemoveAt
<1> HIDE DEF a, b
<1>11. /\ q \in Seq(S) /\ IsInjective(q) /\ ToSet(q) = ToSet(a) \cup ToSet(b)
       /\ Len(q) = Len(a) + Len(b)
  <2>1. a \in Seq(S) /\ b \in Seq(S) /\ IsInjective(a) /\ IsInjective(b)
    BY <1>2, <1>3
  <2> QED BY <1>7, <2>1, JoinedOnce
<1>12. Len(q) = n - 1
  BY <1>1, <1>2, <1>3, <1>11
<1>13. InsertAt(q, j, r[i]) = (c \o e) \o d
  BY DEF InsertAt
<1>14. j \in Nat \ {0} /\ j - 1 \in Nat /\ j - 1 <= Len(q) /\ Len(q) \in Nat /\ Len(q) <= Len(q)
  BY <1>1, <1>12
<1> HIDE DEF q, n
<1>15. c \in Seq(S) /\ IsInjective(c) /\ ToSet(c) = {q[k] : k \in 1..(j - 1)}
  <2> DEFINE h == j - 1
  <2>1. h \in Nat /\ h <= Len(q) /\ 1 \in Nat \ {0}
    BY <1>14
  <2> HIDE DEF h
  <2>2. /\ SubSeq(q, 1, h) \in Seq(S)
        /\ IsInjective(q) => IsInjective(SubSeq(q, 1, h))
        /\ ToSet(SubSeq(q, 1, h)) = {q[k] : k \in 1..h}
    BY <1>11, <2>1, CutElements
  <2> QED BY <1>11, <2>2 DEF h
<1>16. d \in Seq(S) /\ IsInjective(d) /\ ToSet(d) = {q[k] : k \in j..Len(q)}
  <2> DEFINE h == Len(q)
  <2>1. h \in Nat /\ h <= Len(q) /\ j \in Nat \ {0} /\ q \in Seq(S)
    BY <1>11, <1>14
  <2> HIDE DEF h
  <2>2. /\ SubSeq(q, j, h) \in Seq(S)
        /\ IsInjective(q) => IsInjective(SubSeq(q, j, h))
        /\ ToSet(SubSeq(q, j, h)) = {q[k] : k \in j..h}
    BY <2>1, CutElements
  <2> QED BY <1>11, <2>2 DEF h
<1>17. \A k \in 1..(j - 1) : k \in DOMAIN q /\ k < j
  BY <1>11, <1>14
<1>18. \A k \in j..Len(q) : k \in DOMAIN q /\ ~(k < j)
  BY <1>11, <1>14
<1>19. \A k, m \in DOMAIN q : q[k] = q[m] => k = m
  BY <1>11 DEF IsInjective
<1>20. ToSet(c) \cap ToSet(d) = {}
  BY <1>15, <1>16, <1>17, <1>18, <1>19
<1>21. ToSet(c) \subseteq ToSet(q) /\ ToSet(d) \subseteq ToSet(q)
  BY <1>15, <1>16, <1>17, <1>18 DEF ToSet
<1> HIDE DEF c, d
<1>22. e \in Seq(S) /\ IsInjective(e) /\ ToSet(e) = {r[i]}
  BY <1>1 DEF IsInjective, ToSet
<1> HIDE DEF e
<1>23. ToSet(c) \cap ToSet(e) = {}
  BY <1>8, <1>11, <1>21, <1>22
<1>24. c \o e \in Seq(S) /\ IsInjective(c \o e) /\ ToSet(c \o e) = ToSet(c) \cup ToSet(e)
  BY <1>15, <1>22, <1>23, JoinedOnce
<1>25. ToSet(c \o e) \cap ToSet(d) = {}
  BY <1>8, <1>11, <1>20, <1>21, <1>22, <1>24
<1> DEFINE u == c \o e
<1> HIDE DEF u
<1>26. /\ u \o d \in Seq(S) /\ IsInjective(u \o d)
       /\ ToSet(u \o d) = ToSet(u) \cup ToSet(d) /\ Len(u \o d) = Len(u) + Len(d)
  BY <1>16, <1>24, <1>25, JoinedOnce DEF u
<1>27. ToSet(u \o d) \subseteq ToSet(r)
  BY <1>8, <1>9, <1>11, <1>21, <1>22, <1>24, <1>26 DEF u
<1> QED BY <1>10, <1>13, <1>26, <1>27 DEF u

LEMMA ListIsSeq ==
  ASSUME NEW ids
  PROVE  /\ ids \in Lists <=> ids \in Seq(Sensors) /\ IsInjective(ids)
         /\ ids \in ShortLists <=> ids \in Lists /\ Len(ids) <= MaxIds
         /\ ids \in ShortLists => ids \in Seq(Sensors)
  BY DEF Lists, ShortLists

LEMMA AddIdElements ==
  ASSUME NEW ids \in ShortLists, NEW s \in Sensors
  PROVE  /\ AddId(ids, s) \in ShortLists
         /\ ToSet(ids) \subseteq ToSet(AddId(ids, s))
         /\ ToSet(AddId(ids, s)) \subseteq ToSet(ids) \cup {s}
         /\ Len(ids) # MaxIds => s \in ToSet(AddId(ids, s))
<1>1. /\ ids \in Seq(Sensors) /\ IsInjective(ids) /\ Len(ids) <= MaxIds
      /\ Len(ids) \in Nat /\ MaxIds \in Nat
  BY DisplayAssumption DEF ShortLists, Lists
<1>2. Contains(ids, s) <=> s \in ToSet(ids)
  BY <1>1, Elements
<1>3. CASE Contains(ids, s) \/ Len(ids) >= MaxIds
  BY <1>1, <1>2, <1>3 DEF AddId
<1>4. CASE ~(Contains(ids, s) \/ Len(ids) >= MaxIds)
  <2>1. AddId(ids, s) = Append(ids, s) /\ s \notin ToSet(ids)
    BY <1>2, <1>4 DEF AddId
  <2>2. /\ Append(ids, s) \in Seq(Sensors) /\ Len(Append(ids, s)) = Len(ids) + 1
        /\ ToSet(Append(ids, s)) = ToSet(ids) \cup {s}
        /\ IsInjective(Append(ids, s))
    BY <1>1, <2>1, AppendElements
  <2>3. Len(Append(ids, s)) <= MaxIds
    BY <1>1, <1>4, <2>2
  <2> QED BY <2>1, <2>2, <2>3 DEF ShortLists, Lists
<1> QED BY <1>3, <1>4

LEMMA RemoveIdElements ==
  ASSUME NEW ids \in ShortLists, NEW s
  PROVE  RemoveId(ids, s) \in ShortLists /\ ToSet(RemoveId(ids, s)) = ToSet(ids) \ {s}
<1>1. /\ ids \in Seq(Sensors) /\ IsInjective(ids) /\ Len(ids) <= MaxIds
      /\ Len(ids) \in Nat /\ MaxIds \in Nat
  BY DisplayAssumption DEF ShortLists, Lists
<1> DEFINE A == Sensors \ {s}
<1>2. RemoveId(ids, s) = Kept(ids, A)
  BY DEF RemoveId
<1>3. ToSet(ids) \subseteq Sensors
  BY <1>1, Elements
<1>4. ToSet(ids) \cap A = ToSet(ids) \ {s}
  BY <1>3
<1> HIDE DEF A
<1>5. /\ Kept(ids, A) \in Seq(Sensors) /\ Len(Kept(ids, A)) <= Len(ids)
      /\ ToSet(Kept(ids, A)) = ToSet(ids) \cap A
      /\ IsInjective(ids) => IsInjective(Kept(ids, A))
  BY <1>1, KeptElements
<1>6. Len(Kept(ids, A)) \in Nat
  BY <1>5
<1>7. Len(Kept(ids, A)) <= MaxIds
  BY <1>1, <1>5, <1>6
<1>8. Kept(ids, A) \in ShortLists
  BY <1>1, <1>5, <1>7 DEF ShortLists, Lists
<1> QED BY <1>2, <1>4, <1>5, <1>8

\* The list as it grows.
Adding(add, ids, more) ==
    add = [n \in 0..Len(more) |-> IF n = 0 THEN ids ELSE AddId(add[n - 1], more[n])]

LEMMA AddIdsIsLoop ==
  ASSUME NEW ids \in ShortLists, NEW more \in Seq(Sensors)
  PROVE  \E f : Adding(f, ids, more) /\ AddIds(ids, more) = f[Len(more)]
<1> DEFINE T == ShortLists
           m == Len(more)
           g == [n \in 1..m |-> [q \in T |-> AddId(q, more[n])]]
<1>1. m \in Nat /\ \A n \in 1..m : more[n] \in Sensors
  OBVIOUS
<1> HIDE DEF m
<1>2. g \in [1..m -> [T -> T]]
  <2> SUFFICES ASSUME NEW n \in 1..m, NEW q \in T PROVE AddId(q, more[n]) \in T
    OBVIOUS
  <2> QED BY <1>1, AddIdElements
<1>3. PICK f : Turns(f, T, ids, m, g)
  <2> HIDE DEF g, T
  <2>1. ids \in T /\ m \in Nat /\ g \in [1..m -> [T -> T]]
    BY <1>1, <1>2 DEF T
  <2> QED BY <2>1, Iteration
<1>4. Adding(f, ids, more)
  <2> DEFINE h == [n \in 0..m |-> IF n = 0 THEN ids ELSE AddId(f[n - 1], more[n])]
  <2>1. ASSUME NEW n \in 0..m PROVE f[n] = h[n]
    <3>1. CASE n = 0
      BY <1>3, <3>1 DEF Turns
    <3>2. CASE n # 0
      <4>1. n \in 1..m /\ n - 1 \in 0..m
        BY <1>1, <3>2
      <4>2. f[n - 1] \in T
        BY <1>3, <4>1 DEF Turns
      <4>3. f[n] = g[n][f[n - 1]]
        BY <1>3, <4>1 DEF Turns
      <4>4. g[n][f[n - 1]] = AddId(f[n - 1], more[n])
        BY <4>1, <4>2
      <4> HIDE DEF g
      <4> QED BY <3>2, <4>3, <4>4
    <3> QED BY <3>1, <3>2
  <2>2. f = [n \in 0..m |-> f[n]]
    BY <1>3 DEF Turns
  <2> HIDE DEF h
  <2>3. f = h
    <3>1. h = [n \in 0..m |-> h[n]]
      BY DEF h
    <3> QED BY <2>1, <2>2, <3>1, Zenon
  <2> QED BY <2>3 DEF h, Adding, m
<1> DEFINE c == CHOOSE q : Adding(q, ids, more)
<1>5. Adding(c, ids, more)
  BY <1>4, Zenon
<1>6. AddIds(ids, more) = c[Len(more)]
  BY DEF AddIds, Adding
<1> HIDE DEF c
<1> QED BY <1>5, <1>6

LEMMA AddIdsType ==
  ASSUME NEW ids \in ShortLists, NEW more \in Seq(Sensors)
  PROVE  AddIds(ids, more) \in ShortLists
<1>1. PICK f : Adding(f, ids, more) /\ AddIds(ids, more) = f[Len(more)]
  BY AddIdsIsLoop
<1> DEFINE I == {n \in Nat : n <= Len(more) => f[n] \in ShortLists}
<1>2. Len(more) \in Nat
  OBVIOUS
<1>3. f[0] = ids /\ \A n \in 1..Len(more) : f[n] = AddId(f[n - 1], more[n])
  <2>1. 0 \in 0..Len(more) /\ \A n \in 1..Len(more) : n \in 0..Len(more) /\ n # 0
    BY <1>2
  <2> QED BY <1>1, <2>1 DEF Adding
<1>4. 0 \in I
  BY <1>3
<1>5. ASSUME NEW n \in I PROVE n + 1 \in I
  <2>1. n \in Nat /\ (n <= Len(more) => f[n] \in ShortLists)
    OBVIOUS
  <2> SUFFICES ASSUME n + 1 <= Len(more) PROVE f[n + 1] \in ShortLists
    BY <2>1
  <2> DEFINE k == n + 1
  <2>2. k \in 1..Len(more) /\ k - 1 = n /\ more[k] \in Sensors /\ f[n] \in ShortLists
    BY <1>2, <2>1
  <2> HIDE DEF k
  <2>3. f[k] = AddId(f[n], more[k])
    BY <1>3, <2>2
  <2>4. f[k] \in ShortLists
    BY <2>2, <2>3, AddIdElements
  <2> QED BY <2>4 DEF k
<1>6. I = Nat
  <2>1. I \in SUBSET Nat
    OBVIOUS
  <2> HIDE DEF I
  <2> QED BY <1>4, <1>5, <2>1, SetInduction
<1> QED BY <1>1, <1>2, <1>6

(***************************************************************************)
(* What the views show, as sets.                                             *)
(***************************************************************************)

Readable(snap) == {s \in Sensors : Present(snap, s)}

LEMMA SnapshotIds ==
  ASSUME NEW snap \in Snapshots
  PROVE  /\ Ids(snap) \in Seq(Sensors) /\ IsInjective(Ids(snap)) /\ Len(Ids(snap)) = Len(snap)
         /\ snap \in Seq([id : Sensors, ok : BOOLEAN]) /\ Len(snap) \in Nat
         /\ DOMAIN snap = 1..Len(snap)
         /\ \A i \in 1..Len(snap) : Ids(snap)[i] = snap[i].id /\ snap[i].id \in Sensors
         /\ Readable(snap) \subseteq ToSet(Ids(snap))
<1>1. snap \in Seq([id : Sensors, ok : BOOLEAN]) /\ IsInjective(Ids(snap))
  BY DEF Snapshots
<1>2. /\ Len(snap) \in Nat /\ DOMAIN snap = 1..Len(snap)
      /\ \A i \in 1..Len(snap) : snap[i].id \in Sensors
  <2>1. Len(snap) \in Nat /\ DOMAIN snap = 1..Len(snap)
    BY <1>1
  <2>2. ASSUME NEW i \in 1..Len(snap) PROVE snap[i].id \in Sensors
    <3>1. snap[i] \in [id : Sensors, ok : BOOLEAN]
      BY <1>1, ElementType
    <3> QED BY <3>1
  <2> QED BY <2>1, <2>2
<1>3. Ids(snap) = [i \in 1..Len(snap) |-> snap[i].id]
  BY <1>2 DEF Ids
<1>4. Ids(snap) \in Seq(Sensors) /\ Len(Ids(snap)) = Len(snap) /\ DOMAIN Ids(snap) = 1..Len(snap)
  BY <1>2, <1>3
<1>5. \A i \in 1..Len(snap) : Ids(snap)[i] = snap[i].id
  BY <1>3
<1>6. Readable(snap) \subseteq ToSet(Ids(snap))
  BY <1>2, <1>4, <1>5 DEF Readable, Present, ToSet
<1> QED BY <1>1, <1>2, <1>4, <1>5, <1>6

LEMMA LayoutIsSnapshot == \A snap \in Layouts : snap \in Snapshots
  BY DialogAssumption

LEMMA ShownElements ==
  ASSUME NEW snap, NEW ids \in Seq(Sensors)
  PROVE  /\ Shown(snap, ids) \in Seq(Sensors) /\ Len(Shown(snap, ids)) <= Len(ids)
         /\ ToSet(Shown(snap, ids)) = ToSet(ids) \cap Readable(snap)
         /\ IsInjective(ids) => IsInjective(Shown(snap, ids))
<1>1. Shown(snap, ids) = Kept(ids, Readable(snap))
  BY DEF Shown, Readable
<1> QED BY <1>1, KeptElements

LEMMA KindElements ==
  ASSUME NEW snap \in Snapshots, NEW k
  PROVE  /\ OfKind(snap, k) \in Seq(Sensors) /\ IsInjective(OfKind(snap, k))
         /\ ToSet(OfKind(snap, k)) = {s \in ToSet(Ids(snap)) : KindOf[s] = k}
<1> DEFINE A == {s \in Sensors : KindOf[s] = k}
<1>1. OfKind(snap, k) = Kept(Ids(snap), A)
  BY DEF OfKind
<1>2. Ids(snap) \in Seq(Sensors) /\ IsInjective(Ids(snap))
  BY SnapshotIds
<1>3. ToSet(Ids(snap)) \cap A = {s \in ToSet(Ids(snap)) : KindOf[s] = k}
  BY <1>2, Elements
<1> HIDE DEF A
<1> QED BY <1>1, <1>2, <1>3, KeptElements

\* The frame rate, or its 1% low, if the snapshot has it.
LEMMA FirstOfKind ==
  ASSUME NEW snap \in Snapshots, NEW k \in {"fps", "low"}
  PROVE  /\ Up(1, OfKind(snap, k)) \in Seq(Sensors)
         /\ ToSet(Up(1, OfKind(snap, k))) = {s \in ToSet(Ids(snap)) : KindOf[s] = k}
<1> DEFINE s == OfKind(snap, k)
<1>1. s \in Seq(Sensors) /\ ToSet(s) = {x \in ToSet(Ids(snap)) : KindOf[x] = k}
  BY KindElements
<1> HIDE DEF s
<1>2. /\ Up(1, s) \in Seq(Sensors) /\ ToSet(Up(1, s)) \subseteq ToSet(s)
      /\ s # <<>> => s[1] \in ToSet(Up(1, s))
  BY <1>1, UpElements
<1>3. ASSUME NEW x \in ToSet(s) PROVE x \in ToSet(Up(1, s))
  <2>1. PICK i \in 1..Len(s) : s[i] = x
    BY <1>1, Elements
  <2>2. s # <<>> /\ 1 \in 1..Len(s)
    BY <1>1, <2>1
  <2>3. s[1] \in ToSet(s) /\ ToSet(s) \subseteq Sensors
    BY <1>1, <2>2, Elements
  <2>4. x \in FrameRates /\ s[1] \in FrameRates /\ KindOf[x] = KindOf[s[1]]
    BY <1>1, <2>3 DEF FrameRates, Rates
  <2>5. x = s[1]
    BY <2>4, DisplayAssumption
  <2> QED BY <1>2, <2>2, <2>5
<1> QED BY <1>1, <1>2, <1>3 DEF s

RatesChosen(snap, st) ==
    {s \in ToSet(Ids(snap)) : st.fps /\ (KindOf[s] = "fps" \/ (st.low /\ KindOf[s] = "low"))}

LEMMA RateElements ==
  ASSUME NEW snap \in Snapshots, NEW st \in Settings
  PROVE  /\ FrameRateItems(snap, st) \in Seq(Sensors)
         /\ ToSet(FrameRateItems(snap, st)) = RatesChosen(snap, st)
<1> DEFINE f == Up(1, OfKind(snap, "fps"))
           l == Up(1, OfKind(snap, "low"))
           e == <<>>
<1>1. f \in Seq(Sensors) /\ ToSet(f) = {s \in ToSet(Ids(snap)) : KindOf[s] = "fps"}
  BY FirstOfKind
<1>2. l \in Seq(Sensors) /\ ToSet(l) = {s \in ToSet(Ids(snap)) : KindOf[s] = "low"}
  BY FirstOfKind
<1>3. e \in Seq(Sensors) /\ ToSet(e) = {}
  BY DEF ToSet
<1>4. FrameRateItems(snap, st) = IF ~st.fps THEN e ELSE f \o (IF st.low THEN l ELSE e)
  BY DEF FrameRateItems
<1> HIDE DEF f, l, e
<1>5. CASE ~st.fps
  BY <1>3, <1>4, <1>5 DEF RatesChosen
<1>6. CASE st.fps /\ st.low
  <2>1. FrameRateItems(snap, st) = f \o l
    BY <1>4, <1>6
  <2>2. f \o l \in Seq(Sensors) /\ ToSet(f \o l) = ToSet(f) \cup ToSet(l)
    BY <1>1, <1>2, JoinedElements
  <2>3. RatesChosen(snap, st) = ToSet(f) \cup ToSet(l)
    BY <1>1, <1>2, <1>6 DEF RatesChosen
  <2> QED BY <2>1, <2>2, <2>3
<1>7. CASE st.fps /\ ~st.low
  <2>1. FrameRateItems(snap, st) = f \o e
    BY <1>4, <1>7
  <2>2. f \o e \in Seq(Sensors) /\ ToSet(f \o e) = ToSet(f) \cup ToSet(e)
    BY <1>1, <1>3, JoinedElements
  <2>3. RatesChosen(snap, st) = ToSet(f)
    BY <1>1, <1>7 DEF RatesChosen
  <2> QED BY <1>3, <2>1, <2>2, <2>3
<1> QED BY <1>5, <1>6, <1>7

\* What the categories show is of a chosen category.
LEMMA EasyElements ==
  ASSUME NEW snap \in Snapshots, NEW st
  PROVE  /\ EasyItems(snap, st) \in Seq(Sensors)
         /\ \A s \in ToSet(EasyItems(snap, st)) :
               s \in ToSet(Ids(snap)) /\ st.easyOn /\ KindOf[s] \in st.easy
<1> DEFINE A == {s \in ToSet(Ids(snap)) : /\ st.easyOn /\ KindOf[s] \in st.easy
                                          /\ s = Head(OfKind(snap, KindOf[s]))}
<1>1. EasyItems(snap, st) = Kept(Ids(snap), A)
  BY DEF EasyItems
<1>2. Ids(snap) \in Seq(Sensors)
  BY SnapshotIds
<1>3. \A s \in A : s \in ToSet(Ids(snap)) /\ st.easyOn /\ KindOf[s] \in st.easy
  OBVIOUS
<1> HIDE DEF A
<1>4. Kept(Ids(snap), A) \in Seq(Sensors) /\ ToSet(Kept(Ids(snap), A)) = ToSet(Ids(snap)) \cap A
  BY <1>2, KeptElements
<1> QED BY <1>1, <1>3, <1>4

LEMMA UnorderedElements ==
  ASSUME NEW snap \in Snapshots, NEW st \in Settings
  PROVE  /\ UnorderedItems(snap, st) \in Lists
         /\ ToSet(UnorderedItems(snap, st)) =
              Readable(snap) \cap (RatesChosen(snap, st) \cup ToSet(EasyItems(snap, st))
                                   \cup ToSet(st.pins))
<1> DEFINE f == FrameRateItems(snap, st)
           e == EasyItems(snap, st)
           p == st.pins
<1>1. f \in Seq(Sensors) /\ ToSet(f) = RatesChosen(snap, st)
  BY RateElements
<1>2. e \in Seq(Sensors)
  BY EasyElements
<1>3. p \in Seq(Sensors)
  BY DEF Settings, ShortLists, Lists
<1> DEFINE u == (f \o e) \o p
           d == Deduped(u)
<1>4. UnorderedItems(snap, st) = Shown(snap, d)
  BY DEF UnorderedItems
<1> HIDE DEF f, e, p
<1>5. f \o e \in Seq(Sensors) /\ ToSet(f \o e) = ToSet(f) \cup ToSet(e)
  BY <1>1, <1>2, JoinedElements
<1>6. u \in Seq(Sensors) /\ ToSet(u) = ToSet(f \o e) \cup ToSet(p)
  <2> DEFINE v == f \o e
  <2>1. v \in Seq(Sensors)
    BY <1>5
  <2> HIDE DEF v
  <2>2. v \o p \in Seq(Sensors) /\ ToSet(v \o p) = ToSet(v) \cup ToSet(p)
    BY <1>3, <2>1, JoinedElements
  <2> QED BY <2>2 DEF v
<1> HIDE DEF u
<1>7. d \in Seq(Sensors) /\ ToSet(d) = ToSet(u) /\ IsInjective(d)
  BY <1>6, DedupedElements
<1> HIDE DEF d
<1>8. /\ Shown(snap, d) \in Seq(Sensors) /\ IsInjective(Shown(snap, d))
      /\ ToSet(Shown(snap, d)) = ToSet(d) \cap Readable(snap)
  BY <1>7, ShownElements
<1>9. ToSet(Shown(snap, d)) = Readable(snap) \cap (RatesChosen(snap, st) \cup ToSet(e) \cup ToSet(p))
  BY <1>1, <1>5, <1>6, <1>7, <1>8
<1> QED BY <1>4, <1>8, <1>9 DEF Lists, e, p

\* The order neither adds nor loses a sensor.
LEMMA OrderElements ==
  ASSUME NEW order \in Lists, NEW ids \in Lists
  PROVE  InOrder(order, ids) \in Lists /\ ToSet(InOrder(order, ids)) = ToSet(ids)
<1>1. /\ order \in Seq(Sensors) /\ IsInjective(order) /\ ids \in Seq(Sensors) /\ IsInjective(ids)
      /\ ToSet(ids) \subseteq Sensors /\ ToSet(order) \subseteq Sensors
  BY Elements DEF Lists
<1>2. CASE order = <<>>
  BY <1>2 DEF InOrder
<1>3. CASE order # <<>>
  <2> DEFINE N == Sensors \ FrameRates
             h == Kept(ids, N)
             H == ToSet(h)
             R == Sensors \ ToSet(order)
             a == Kept(ids, FrameRates)
             b == Kept(order, H)
             c == Kept(h, R)
  <2>1. InOrder(order, ids) = (a \o b) \o c
    BY <1>3 DEF InOrder
  <2>2. FrameRates \subseteq Sensors
    BY DEF FrameRates
  <2> HIDE DEF N, H, R
  <2>3. h \in Seq(Sensors) /\ IsInjective(h) /\ ToSet(h) = ToSet(ids) \cap N
    BY <1>1, KeptElements
  <2> HIDE DEF h
  <2>4. a \in Seq(Sensors) /\ IsInjective(a) /\ ToSet(a) = ToSet(ids) \cap FrameRates
    BY <1>1, KeptElements
  <2>5. b \in Seq(Sensors) /\ IsInjective(b) /\ ToSet(b) = ToSet(order) \cap H
    BY <1>1, KeptElements
  <2>6. c \in Seq(Sensors) /\ IsInjective(c) /\ ToSet(c) = ToSet(h) \cap R
    BY <2>3, KeptElements
  <2> HIDE DEF a, b, c
  <2>7. ToSet(a) \cap ToSet(b) = {}
    BY <2>3, <2>4, <2>5 DEF H, N
  <2> DEFINE d == a \o b
  <2>8. d \in Seq(Sensors) /\ IsInjective(d) /\ ToSet(d) = ToSet(a) \cup ToSet(b)
    BY <2>4, <2>5, <2>7, JoinedOnce
  <2> HIDE DEF d
  <2>9. ToSet(d) \cap ToSet(c) = {}
    BY <2>3, <2>4, <2>5, <2>6, <2>8 DEF N, R
  <2>10. d \o c \in Seq(Sensors) /\ IsInjective(d \o c) /\ ToSet(d \o c) = ToSet(d) \cup ToSet(c)
    BY <2>6, <2>8, <2>9, JoinedOnce
  <2>11. ToSet(d \o c) = ToSet(ids)
    BY <1>1, <2>2, <2>3, <2>4, <2>5, <2>6, <2>8, <2>10 DEF H, N, R
  <2> QED BY <2>1, <2>10, <2>11 DEF d, Lists
<1> QED BY <1>2, <1>3

\* Everything on the display, and why it is there.
LEMMA ItemElements ==
  ASSUME NEW snap \in Snapshots, NEW st \in Settings
  PROVE  /\ BuildOsdDisplayItems(snap, st) \in Lists
         /\ ToSet(BuildOsdDisplayItems(snap, st)) =
              Readable(snap) \cap (RatesChosen(snap, st) \cup ToSet(EasyItems(snap, st))
                                   \cup ToSet(st.pins))
<1>1. st.order \in Lists
  BY DEF Settings, ShortLists
<1> QED BY <1>1, UnorderedElements, OrderElements DEF BuildOsdDisplayItems

(***************************************************************************)
(* The types of what the handlers compute.                                   *)
(***************************************************************************)

LEMMA SettingsFields ==
  ASSUME NEW st \in Settings
  PROVE  /\ st.fps \in BOOLEAN /\ st.low \in BOOLEAN /\ st.separate \in BOOLEAN
         /\ st.easyOn \in BOOLEAN /\ st.easy \in SUBSET Categories
         /\ st.pins \in ShortLists /\ st.order \in ShortLists /\ st.favs \in ShortLists
         /\ st.inited \in BOOLEAN /\ st.completed \in SUBSET Categories /\ st.floating \in BOOLEAN
         /\ st.graph \in BOOLEAN /\ st.sources \in SUBSET Sensors
  BY DEF Settings

\* The types of settings of which some fields have changed.
LEMMA SettingsChanged ==
  ASSUME NEW st \in Settings, NEW fps \in BOOLEAN, NEW low \in BOOLEAN,
         NEW easy \in SUBSET Categories, NEW pins \in ShortLists, NEW favs \in ShortLists,
         NEW inited \in BOOLEAN, NEW completed \in SUBSET Categories
  PROVE  /\ [st EXCEPT !.fps = fps] \in Settings
         /\ [st EXCEPT !.low = low] \in Settings
         /\ [st EXCEPT !.floating = FALSE] \in Settings
         /\ [st EXCEPT !.pins = pins] \in Settings
         /\ [st EXCEPT !.pins = pins, !.easy = easy] \in Settings
         /\ [st EXCEPT !.favs = favs, !.inited = inited] \in Settings
         /\ [st EXCEPT !.favs = favs, !.completed = completed, !.inited = inited] \in Settings
  BY DEF Settings

LEMMA GraphChanged ==
  ASSUME NEW st \in Settings, NEW graph \in BOOLEAN, NEW sources \in SUBSET Sensors
  PROVE  [st EXCEPT !.graph = graph, !.sources = sources] \in Settings
  BY DEF Settings

LEMMA SelectedType ==
  ASSUME NEW s \in Sensors, NEW st \in Settings, NEW selected \in BOOLEAN
  PROVE  SetSensorSelectedForOsd(s, st, selected) \in Settings
<1> DEFINE easy == IF st.easyOn THEN st.easy \ {KindOf[s]} ELSE st.easy
           added == AddId(st.pins, s)
           removed == RemoveId(st.pins, s)
           new == SetSensorSelectedForOsd(s, st, selected)
<1>1. easy \in SUBSET Categories
  BY SettingsFields
<1>2. added \in ShortLists /\ removed \in ShortLists
  BY SettingsFields, AddIdElements, RemoveIdElements
<1>3. \/ new = [st EXCEPT !.fps = selected] \/ new = [st EXCEPT !.low = selected]
      \/ new = [st EXCEPT !.graph = selected, !.sources = {s}]
      \/ new = [st EXCEPT !.pins = added] \/ new = [st EXCEPT !.pins = removed, !.easy = easy]
  BY DEF SetSensorSelectedForOsd
<1> HIDE DEF easy, added, removed, new
<1>4. [st EXCEPT !.graph = selected, !.sources = {s}] \in Settings
  BY GraphChanged
<1>5. /\ [st EXCEPT !.fps = selected] \in Settings /\ [st EXCEPT !.low = selected] \in Settings
      /\ [st EXCEPT !.pins = added] \in Settings
      /\ [st EXCEPT !.pins = removed, !.easy = easy] \in Settings
  BY <1>1, <1>2 DEF Settings
<1>6. new \in Settings
  BY <1>3, <1>4, <1>5
<1> QED BY <1>6 DEF new

LEMMA StarredType ==
  ASSUME NEW s \in Sensors, settings \in Settings
  PROVE  /\ Starred(s) \in Settings /\ Starred(s).inited = TRUE
         /\ ToSet(Starred(s).favs) \subseteq
              IF Contains(settings.favs, s) THEN ToSet(settings.favs) \ {s}
                                            ELSE ToSet(settings.favs) \cup {s}
<1> DEFINE favs == IF Contains(settings.favs, s) THEN RemoveId(settings.favs, s)
                                                 ELSE AddId(settings.favs, s)
<1>1. settings.favs \in ShortLists
  BY SettingsFields
<1>2. /\ AddId(settings.favs, s) \in ShortLists /\ RemoveId(settings.favs, s) \in ShortLists
      /\ ToSet(AddId(settings.favs, s)) \subseteq ToSet(settings.favs) \cup {s}
      /\ ToSet(RemoveId(settings.favs, s)) = ToSet(settings.favs) \ {s}
  BY <1>1, AddIdElements, RemoveIdElements
<1>3. Starred(s) = [settings EXCEPT !.favs = favs, !.inited = TRUE]
  BY DEF Starred
<1>4. favs \in ShortLists
  BY <1>2
<1>5. ToSet(favs) \subseteq IF Contains(settings.favs, s) THEN ToSet(settings.favs) \ {s}
                                            ELSE ToSet(settings.favs) \cup {s}
  BY <1>2
<1> HIDE DEF favs
<1>6. [settings EXCEPT !.favs = favs, !.inited = TRUE] \in Settings
  BY <1>4, SettingsChanged
<1>7. Starred(s).favs = favs /\ Starred(s).inited = TRUE
  BY <1>3 DEF Settings
<1> QED BY <1>3, <1>5, <1>6, <1>7

\* The defaults change the favourites only, and nothing once they are initialised.
LEMMA DefaultsType ==
  ASSUME NEW snap \in Snapshots, NEW st \in Settings
  PROVE  LET new == InitializeDefaultFavorites(snap, st)
         IN /\ new \in Settings
            /\ \A f \in {"fps", "low", "separate", "easyOn", "easy", "pins", "order", "floating"} :
                  new[f] = st[f]
            /\ st.inited => new = st
<1> DEFINE new == InitializeDefaultFavorites(snap, st)
<1>1. CASE st.inited \/ snap = <<>>
  BY <1>1 DEF InitializeDefaultFavorites
<1>2. CASE ~(st.inited \/ snap = <<>>)
  <2> DEFINE found == NewDefaults(snap, st)
             added == Kept(Ids(snap), {Default(snap, k) : k \in found})
             favs == AddIds(st.favs, added)
             completed == st.completed \cup found
             inited == st.easy \subseteq completed
  <2>1. added \in Seq(Sensors)
    BY SnapshotIds, KeptElements
  <2>2. completed \in SUBSET Categories
    BY SettingsFields DEF NewDefaults
  <2>3. new = [st EXCEPT !.favs = favs, !.completed = completed, !.inited = inited]
    BY <1>2 DEF InitializeDefaultFavorites
  <2>4. inited \in BOOLEAN
    OBVIOUS
  <2> HIDE DEF added, new
  <2>5. favs \in ShortLists
    BY <2>1, SettingsFields, AddIdsType
  <2> HIDE DEF favs, completed, inited
  <2>6. new \in Settings
    BY <2>2, <2>3, <2>4, <2>5, SettingsChanged
  <2>7. \A f \in {"fps", "low", "separate", "easyOn", "easy", "pins", "order", "floating"} :
           new[f] = st[f]
    BY <2>3 DEF Settings
  <2> QED BY <1>2, <2>6, <2>7 DEF new
<1> QED BY <1>1, <1>2

LEMMA RowsType ==
  ASSUME NEW snap \in Snapshots, NEW st \in Settings
  PROVE  RefreshRows(snap, st) \in Lists /\ Len(RefreshRows(snap, st)) <= TrayRowsMax
<1> DEFINE r == Kept(Ids(snap), {s \in Sensors : KindOf[s] \notin {"time", "other"}})
           u == st.favs \o r
           d == Deduped(u)
           w == Shown(snap, d)
<1>1. st.favs \in Seq(Sensors) /\ TrayRowsMax \in Nat
  BY DisplayAssumption, SettingsFields, ListIsSeq
<1>2. r \in Seq(Sensors)
  BY SnapshotIds, KeptElements
<1>3. RefreshRows(snap, st) = Up(TrayRowsMax, w)
  BY DEF RefreshRows
<1> HIDE DEF r
<1>4. u \in Seq(Sensors)
  BY <1>1, <1>2
<1> HIDE DEF u
<1>5. d \in Seq(Sensors) /\ IsInjective(d)
  BY <1>4, DedupedElements
<1> HIDE DEF d
<1>6. w \in Seq(Sensors) /\ IsInjective(w)
  BY <1>5, ShownElements
<1> HIDE DEF w
<1>7. Up(TrayRowsMax, w) \in Seq(Sensors) /\ IsInjective(Up(TrayRowsMax, w))
      /\ Len(Up(TrayRowsMax, w)) <= TrayRowsMax
  BY <1>1, <1>6, UpElements
<1> QED BY <1>3, <1>7 DEF Lists

LEMMA RankedElements ==
  ASSUME NEW snap \in Snapshots, NEW st \in Settings
  PROVE  /\ Ranked(snap, st) \in Lists
         /\ ToSet(Ranked(snap, st)) = ToSet(BuildOsdDisplayItems(snap, st)) \ FrameRates
<1> DEFINE b == BuildOsdDisplayItems(snap, st)
           N == Sensors \ FrameRates
<1>1. b \in Lists
  BY ItemElements
<1>2. Ranked(snap, st) = Kept(b, N)
  BY DEF Ranked
<1> HIDE DEF b
<1>3. b \in Seq(Sensors) /\ IsInjective(b)
  BY <1>1 DEF Lists
<1>4. ToSet(b) \cap N = ToSet(b) \ FrameRates
  BY <1>3, Elements
<1> HIDE DEF N
<1>5. Kept(b, N) \in Seq(Sensors) /\ IsInjective(Kept(b, N)) /\ ToSet(Kept(b, N)) = ToSet(b) \cap N
  BY <1>3, KeptElements
<1> QED BY <1>2, <1>4, <1>5 DEF b, Lists

\* The positions in the sensor list: of sensors that are no frame rates, each once.
LEMMA PositionElements ==
  ASSUME NEW snap \in Snapshots
  PROVE  /\ Positions(snap) \in Seq(Nat) /\ IsInjective(Positions(snap))
         /\ ToSet(Positions(snap)) = {i \in 1..Len(snap) : snap[i].id \notin FrameRates}
<1> DEFINE n == Len(snap)
           t == [i \in 1..n |-> i]
           P == {i \in 1..n : snap[i].id \notin FrameRates}
<1>1. DOMAIN snap = 1..n /\ n \in Nat
  BY SnapshotIds
<1>2. Positions(snap) = Picked(t, P)
  BY <1>1 DEF Positions
<1> HIDE DEF n
<1>3. t \in Seq(Nat) /\ Len(t) = n /\ \A i \in 1..n : t[i] = i
  BY <1>1
<1> HIDE DEF t
<1>4. Picked(t, P) \in Seq(Nat)
  <2> HIDE DEF P
  <2> QED BY <1>3, PickedPlaces
<1>5. IsInjective(Picked(t, P))
  <2> HIDE DEF P
  <2> QED BY <1>3, PickedOnce
<1>6. ASSUME NEW x PROVE x \in ToSet(Picked(t, P)) <=> x \in P
  <2>1. x \in ToSet(Picked(t, P)) <=> \E i \in 1..Len(t) : i \in P /\ t[i] = x
    <3> HIDE DEF P
    <3> QED BY <1>3, ElementsOfPicked
  <2> QED BY <1>3, <2>1
<1>7. ToSet(Picked(t, P)) = P
  BY <1>6
<1> QED BY <1>2, <1>4, <1>5, <1>7 DEF n

\* The sensors that are pinned by the list, at most one for each chosen entry.
LEMMA PinnedElements ==
  ASSUME snapshot \in Snapshots, NEW list \in Seq(Nat), NEW chosen \in SUBSET (DOMAIN list),
         NEW d, d.list = list, d.chosen = chosen
  PROVE  /\ Pinned(d) \in Seq(Nat)
         /\ ToSet(Pinned(d)) = {list[n] : n \in chosen} \cap DOMAIN snapshot
         /\ IsInjective(list) => IsInjective(Pinned(d))
<1> DEFINE A == {list[n] : n \in chosen} \cap DOMAIN snapshot
<1>1. Pinned(d) = Kept(list, A)
  BY DEF Pinned
<1>2. A \subseteq ToSet(list)
  BY DEF ToSet
<1>3. ToSet(list) \cap A = A
  BY <1>2
<1> HIDE DEF A
<1>4. /\ Kept(list, A) \in Seq(Nat) /\ ToSet(Kept(list, A)) = ToSet(list) \cap A
      /\ IsInjective(list) => IsInjective(Kept(list, A))
  BY KeptElements
<1> QED BY <1>1, <1>3, <1>4 DEF A

\* The settings as read from the controls.
ReadInto(st, fps, low, separate, floating, graph, sources, pins, order) ==
    [st EXCEPT !.fps = fps, !.low = low, !.separate = separate, !.floating = floating,
               !.graph = graph, !.sources = sources,
               !.easyOn = FALSE, !.easy = {}, !.pins = pins, !.order = order]
LEMMA ReadType ==
  ASSUME NEW st \in Settings, NEW fps \in BOOLEAN, NEW low \in BOOLEAN, NEW separate \in BOOLEAN,
         NEW floating \in BOOLEAN, NEW graph \in BOOLEAN, NEW sources \in SUBSET Sensors,
         NEW pins \in ShortLists, NEW order \in ShortLists
  PROVE  ReadInto(st, fps, low, separate, floating, graph, sources, pins, order) \in Settings
<1> DEFINE new == ReadInto(st, fps, low, separate, floating, graph, sources, pins, order)
           a == [st EXCEPT !.fps = fps, !.low = low, !.separate = separate, !.floating = floating]
           b == [a EXCEPT !.graph = graph, !.sources = sources]
           c == [b EXCEPT !.easyOn = FALSE, !.easy = {}]
           e == [c EXCEPT !.pins = pins, !.order = order]
<1>1. a \in Settings
  BY DEF Settings
<1> HIDE DEF a
<1>2. b \in Settings
  BY <1>1 DEF Settings
<1> HIDE DEF b
<1>3. c \in Settings
  BY <1>2 DEF Settings
<1> HIDE DEF c
<1>4. e \in Settings
  BY <1>3 DEF Settings
<1>5. new = e
  BY Zenon DEF a, b, c, ReadInto
<1> QED BY <1>4, <1>5

IsRead(new, st, fps, low, pins, order) ==
    /\ new.favs = st.favs /\ new.inited = st.inited
    /\ new.fps = fps /\ new.low = low /\ new.easyOn = FALSE /\ new.easy = {}
    /\ new.pins = pins /\ new.order = order

LEMMA ReadFields ==
  ASSUME NEW st \in Settings, NEW fps \in BOOLEAN, NEW low \in BOOLEAN, NEW separate \in BOOLEAN,
         NEW floating \in BOOLEAN, NEW graph \in BOOLEAN, NEW sources \in SUBSET Sensors,
         NEW pins \in ShortLists, NEW order \in ShortLists
  PROVE  IsRead(ReadInto(st, fps, low, separate, floating, graph, sources, pins, order),
                st, fps, low, pins, order)
  BY DEF Settings, ReadInto, IsRead

DialogFields(d) ==
    /\ d.draft \in Settings /\ d.list \in Seq(Nat) /\ d.chosen \subseteq DOMAIN d.list
    /\ d.rank \in Lists /\ d.boxes \subseteq Boxes /\ IsInjective(d.list)
    /\ d.graphList \in Seq(Sensors) /\ d.sources \subseteq Sensors

LEMMA PinIds ==
  ASSUME snapshot \in Snapshots, NEW d, DialogFields(d)
  PROVE  LET ids == [i \in DOMAIN Pinned(d) |-> snapshot[Pinned(d)[i]].id]
         IN /\ ids \in Lists /\ Len(ids) = Len(Pinned(d))
            /\ ToSet(ids) = {snapshot[i].id : i \in ToSet(Pinned(d))}
<1> DEFINE p == Pinned(d)
           ids == [i \in DOMAIN p |-> snapshot[p[i]].id]
<1>1. p \in Seq(Nat) /\ ToSet(p) \subseteq DOMAIN snapshot /\ IsInjective(p)
  <2> DEFINE list == d.list
             chosen == d.chosen
  <2>1. list \in Seq(Nat) /\ chosen \in SUBSET (DOMAIN list) /\ IsInjective(list)
    BY DEF DialogFields
  <2>2. d.list = list /\ d.chosen = chosen
    OBVIOUS
  <2> HIDE DEF list, chosen
  <2> QED BY <2>1, <2>2, PinnedElements
<1> HIDE DEF p
<1>2. /\ DOMAIN snapshot = 1..Len(snapshot) /\ Ids(snapshot) \in Seq(Sensors)
      /\ IsInjective(Ids(snapshot)) /\ Len(Ids(snapshot)) = Len(snapshot)
      /\ \A i \in 1..Len(snapshot) : Ids(snapshot)[i] = snapshot[i].id /\ snapshot[i].id \in Sensors
  BY SnapshotIds
<1>3. DOMAIN p = 1..Len(p) /\ Len(p) \in Nat /\ \A i \in 1..Len(p) : p[i] \in 1..Len(snapshot)
  BY <1>1, <1>2 DEF ToSet
<1>4. \A i \in 1..Len(p) : ids[i] = snapshot[p[i]].id /\ ids[i] \in Sensors
  BY <1>2, <1>3
<1>5. ids \in Seq(Sensors) /\ Len(ids) = Len(p) /\ DOMAIN ids = 1..Len(p)
  <2>1. ids = [i \in 1..Len(p) |-> snapshot[p[i]].id]
    BY <1>3
  <2>2. \A i \in 1..Len(p) : snapshot[p[i]].id \in Sensors
    BY <1>2, <1>3
  <2> HIDE DEF ids
  <2>3. ids \in [1..Len(p) -> Sensors]
    BY <2>1, <2>2
  <2> QED BY <1>3, <2>3
<1> HIDE DEF ids
<1>6. ASSUME NEW i \in 1..Len(p), NEW j \in 1..Len(p), ids[i] = ids[j] PROVE i = j
  <2>1. Ids(snapshot)[p[i]] = Ids(snapshot)[p[j]]
    BY <1>2, <1>3, <1>4, <1>6
  <2>2. p[i] \in DOMAIN Ids(snapshot) /\ p[j] \in DOMAIN Ids(snapshot)
    BY <1>2, <1>3
  <2>3. p[i] = p[j]
    BY <1>2, <2>1, <2>2 DEF IsInjective
  <2> QED BY <1>1, <1>3, <2>3 DEF IsInjective
<1>7. IsInjective(ids)
  BY <1>5, <1>6 DEF IsInjective
<1>8. ToSet(ids) = {snapshot[i].id : i \in ToSet(p)}
  BY <1>3, <1>4, <1>5 DEF ToSet
<1> QED BY <1>5, <1>7, <1>8 DEF ids, p, Lists

\* The order is the list's, cut.
LEMMA RankIsList ==
  ASSUME NEW d, DialogFields(d)
  PROVE  /\ OrderRead(d) = Up(MaxIds, d.rank) /\ OrderRead(d) \in ShortLists
         /\ Up(MaxIds, d.rank) \in Lists
<1> DEFINE r == d.rank
           u == Up(MaxIds, r)
<1>1. r \in Seq(Sensors) /\ IsInjective(r) /\ MaxIds \in Nat
  BY DisplayAssumption DEF DialogFields, Lists
<1> HIDE DEF r
<1>2. u \in Seq(Sensors) /\ IsInjective(u) /\ Len(u) <= MaxIds
  BY <1>1, UpElements
<1> HIDE DEF u
<1>3. Deduped(u) = u
  BY <1>2, InjectiveIsDeduped
<1>4. OrderRead(d) = Deduped(u)
  BY DEF OrderRead, u, r
<1> QED BY <1>2, <1>3, <1>4 DEF u, r, ShortLists, Lists

\* The graph's sources are sensors.
LEMMA SourcesType ==
  ASSUME NEW d, DialogFields(d) PROVE SourcesRead(d) \in SUBSET Sensors
<1> DEFINE now == Kept(d.graphList, d.sources \cap ToSet(Ids(snapshot)))
           alike == {s \in Sensors : MeasuredIn[s] = MeasuredIn[Head(now)]}
           k == Kept(now, alike)
           u == Up(MaxSources, k)
<1>1. d.graphList \in Seq(Sensors) /\ d.draft.sources \in SUBSET Sensors /\ MaxSources \in Nat
  BY SettingsFields, DisplayAssumption DEF DialogFields
<1>2. now \in Seq(Sensors)
  BY <1>1, KeptElements
<1>3. SourcesRead(d) = IF now = <<>> THEN d.draft.sources ELSE ToSet(u)
  BY DEF SourcesRead
<1> HIDE DEF now, alike
<1>4. k \in Seq(Sensors)
  BY <1>2, KeptElements
<1> HIDE DEF k
<1>5. u \in Seq(Sensors)
  BY <1>1, <1>4, UpElements
<1> HIDE DEF u
<1>6. ToSet(u) \subseteq Sensors
  BY <1>5, Elements
<1> QED BY <1>1, <1>3, <1>6

\* What is read from the dialog's controls.
LEMMA ReadElements ==
  ASSUME snapshot \in Snapshots, NEW d, DialogFields(d)
  PROVE  LET new == ReadControls(d)
         IN /\ new \in Settings
            /\ new.favs = d.draft.favs /\ new.inited = d.draft.inited
            /\ new.fps = ("fps" \in d.boxes) /\ new.low = ("low" \in d.boxes)
            /\ new.easyOn = FALSE /\ new.easy = {} /\ new.order = Up(MaxIds, d.rank)
            /\ (d.list # <<>> /\ Len(Pinned(d)) <= MaxIds) =>
                  ToSet(new.pins) = {snapshot[i].id : i \in ToSet(Pinned(d))}
<1> DEFINE ids == [i \in DOMAIN Pinned(d) |-> snapshot[Pinned(d)[i]].id]
           pins == IF d.list = <<>> THEN d.draft.pins ELSE Up(MaxIds, ids)
           f == "fps" \in d.boxes
           l == "low" \in d.boxes
           s == "separate" \in d.boxes
           g == "floating" \in d.boxes
           h == "graph" \in d.boxes
           src == SourcesRead(d)
           order == Up(MaxIds, d.rank)
           new == ReadControls(d)
<1>1. ids \in Lists /\ Len(ids) = Len(Pinned(d)) /\ ToSet(ids) = {snapshot[i].id : i \in ToSet(Pinned(d))}
  BY PinIds
<1>2. d.draft \in Settings /\ order \in ShortLists /\ src \in SUBSET Sensors
  BY RankIsList, SourcesType DEF DialogFields
<1>3. new = ReadInto(d.draft, f, l, s, g, h, src, pins, order)
  <2>1. OrderRead(d) = order
    BY RankIsList
  <2> QED BY <2>1, Zenon DEF ReadControls, ReadInto
<1>4. f \in BOOLEAN /\ l \in BOOLEAN
  OBVIOUS
<1>5. s \in BOOLEAN /\ g \in BOOLEAN
  OBVIOUS
<1>6. h \in BOOLEAN
  OBVIOUS
<1> HIDE DEF ids
<1>7. pins \in ShortLists /\ ((d.list # <<>> /\ Len(Pinned(d)) <= MaxIds) =>
                                  ToSet(pins) = {snapshot[i].id : i \in ToSet(Pinned(d))})
  <2>1. MaxIds \in Nat /\ ids \in Seq(Sensors) /\ IsInjective(ids)
    BY <1>1, DisplayAssumption DEF Lists
  <2>2. /\ Up(MaxIds, ids) \in Seq(Sensors) /\ Len(Up(MaxIds, ids)) <= MaxIds
        /\ IsInjective(Up(MaxIds, ids))
        /\ Len(ids) <= MaxIds => Up(MaxIds, ids) = ids
    BY <2>1, UpElements
  <2>3. Up(MaxIds, ids) \in ShortLists
    BY <2>2 DEF ShortLists, Lists
  <2>4. d.draft.pins \in ShortLists
    BY <1>2, SettingsFields
  <2> QED BY <1>1, <2>2, <2>3, <2>4
<1> HIDE DEF pins, f, l, s, g, h, src, order, new
<1>8. new \in Settings
  BY <1>2, <1>3, <1>4, <1>5, <1>6, <1>7, ReadType
<1>9. IsRead(new, d.draft, f, l, pins, order)
  BY <1>2, <1>3, <1>4, <1>5, <1>6, <1>7, ReadFields
<1> QED BY <1>7, <1>8, <1>9 DEF f, l, order, new, IsRead

(***************************************************************************)
(* The invariant of the choices.                                             *)
(***************************************************************************)

\* A star taken away is in no list of favourites that may become the window's, and
\* the defaults are not to be given any more.  Each dialog answers for the stars that
\* were gone when it opened.
StarsGone(favs, inited, gone) == gone \cap ToSet(favs) = {} /\ (gone # {} => inited)
DraftStars(d) == d.imported \/ StarsGone(d.draft.favs, d.draft.inited, d.unstarred)

\* A well-formed dialog: the entries of its sensor list are of different positions.
DialogOK(d) ==
    /\ d \in Dialogs /\ d.chosen \subseteq DOMAIN d.list
    /\ ToSet(d.rank) \cap FrameRates = {} /\ IsInjective(d.list)

\* While nothing was changed in a dialog and the sensors are where they were, it
\* says what the settings said that it opened with.
QuietInv(d, snap) ==
    (d.quiet /\ d.steady) =>
       /\ d.list = Positions(snap) /\ d.chosen = ChosenIn(d.list, snap, d.base)
       /\ ("fps" \in d.boxes <=> d.base.fps) /\ ("low" \in d.boxes <=> d.base.low)

\* What was saved is what was read from the controls, until the dialog returns.
AtChosen(d, snap) ==
    {Ids(snap)[i] : i \in {d.list[n] : n \in d.chosen} \cap DOMAIN Ids(snap)}
SavedInv(d, snap) ==
    d.saved => /\ d.done /\ d.draft.order = Up(MaxIds, d.rank)
               /\ d.draft.fps = ("fps" \in d.boxes) /\ d.draft.low = ("low" \in d.boxes)
               /\ (d.steady /\ d.list # <<>> /\ Cardinality(d.chosen) <= MaxIds) =>
                     ToSet(d.draft.pins) = AtChosen(d, snap)

DialogInv(d, snap) == DialogOK(d) /\ DraftStars(d) /\ QuietInv(d, snap) /\ SavedInv(d, snap)
DialogsOK(ds, snap) == ds \in Seq(Dialogs) /\ \A k \in DOMAIN ds : DialogInv(ds[k], snap)

TrayOK == tray \in [visible : BOOLEAN, snap : Layouts, rows : Lists] /\ Len(tray.rows) <= TrayRowsMax
WindowOK ==
    /\ settings \in Settings /\ snapshot \in Layouts /\ enabled \in BOOLEAN /\ TrayOK
    /\ edits \in 0..MaxEdits /\ unstarred \subseteq Sensors
    /\ StarsGone(settings.favs, settings.inited, unstarred)

DialogIInv == WindowOK /\ DialogsOK(dialogs, snapshot)

LEMMA TypedDialog ==
  ASSUME DialogIInv
  PROVE  snapshot \in Snapshots /\ settings \in Settings /\ tray.snap \in Snapshots
  BY LayoutIsSnapshot DEF DialogIInv, WindowOK, TrayOK

LEMMA DialogStarts == DialogInit => DialogIInv
<1> SUFFICES ASSUME DialogInit PROVE DialogIInv
  OBVIOUS
<1>1. /\ settings = Initially /\ snapshot = <<>> /\ dialogs = <<>> /\ enabled = TRUE
      /\ tray = Hidden /\ edits = 0 /\ unstarred = {}
  BY DEF DialogInit
<1>2. settings \in Settings /\ snapshot \in Layouts /\ MaxEdits \in Nat /\ TrayRowsMax \in Nat
  BY <1>1, DialogAssumption, DisplayAssumption
<1>3. <<>> \in Lists /\ Len(<<>>) = 0
  BY DEF Lists, IsInjective
<1>4. TrayOK
  BY <1>1, <1>2, <1>3 DEF Hidden, TrayOK
<1>5. edits \in 0..MaxEdits
  BY <1>1, <1>2
<1>6. WindowOK
  BY <1>1, <1>2, <1>4, <1>5 DEF WindowOK, StarsGone
<1>7. DialogsOK(dialogs, snapshot)
  BY <1>1 DEF DialogsOK
<1> QED BY <1>6, <1>7 DEF DialogIInv

(***************************************************************************)
(* Dialogs: one more, one less, one that changes.                            *)
(***************************************************************************)

LEMMA OneMore ==
  ASSUME NEW snap, NEW ds, DialogsOK(ds, snap), NEW d, DialogInv(d, snap)
  PROVE  DialogsOK(Append(ds, d), snap)
<1>1. ds \in Seq(Dialogs) /\ d \in Dialogs /\ \A k \in 1..Len(ds) : DialogInv(ds[k], snap)
  BY DEF DialogsOK, DialogInv, DialogOK
<1>2. /\ Append(ds, d) \in Seq(Dialogs) /\ DOMAIN Append(ds, d) = 1..Len(ds) + 1
      /\ \A k \in 1..Len(ds) : Append(ds, d)[k] = ds[k]
      /\ Append(ds, d)[Len(ds) + 1] = d
  BY <1>1
<1>3. \A k \in 1..Len(ds) + 1 : k \in 1..Len(ds) \/ k = Len(ds) + 1
  BY <1>1
<1> QED BY <1>1, <1>2, <1>3 DEF DialogsOK

LEMMA OneLess ==
  ASSUME NEW snap, NEW ds, DialogsOK(ds, snap), ds # <<>>
  PROVE  DialogsOK(Front(ds), snap) /\ DialogInv(Last(ds), snap)
<1>1. ds \in Seq(Dialogs) /\ DOMAIN ds = 1..Len(ds) /\ Len(ds) \in Nat /\ Len(ds) # 0
  BY DEF DialogsOK
<1>2. Len(ds) \in DOMAIN ds /\ Len(ds) - 1 \in Nat
  BY <1>1
<1>3. DialogInv(Last(ds), snap)
  BY <1>2 DEF DialogsOK, Last
<1>4. /\ Front(ds) \in Seq(Dialogs) /\ DOMAIN Front(ds) = 1..(Len(ds) - 1)
      /\ \A k \in 1..(Len(ds) - 1) : Front(ds)[k] = ds[k]
  BY <1>1, <1>2 DEF Front
<1>5. 1..(Len(ds) - 1) \subseteq DOMAIN ds
  BY <1>1
<1> QED BY <1>3, <1>4, <1>5 DEF DialogsOK

LEMMA OneChanged ==
  ASSUME NEW snap, NEW ds, DialogsOK(ds, snap), NEW k \in DOMAIN ds, NEW d, DialogInv(d, snap)
  PROVE  DialogsOK([ds EXCEPT ![k] = d], snap)
<1> DEFINE new == [ds EXCEPT ![k] = d]
<1>1. ds \in Seq(Dialogs) /\ d \in Dialogs /\ DOMAIN ds = 1..Len(ds)
  BY DEF DialogsOK, DialogInv, DialogOK
<1>2. new \in Seq(Dialogs) /\ DOMAIN new = DOMAIN ds
  BY <1>1
<1>3. \A j \in DOMAIN ds : new[j] = IF j = k THEN d ELSE ds[j]
  BY <1>1
<1> HIDE DEF new
<1>4. DialogsOK(new, snap)
  BY <1>2, <1>3 DEF DialogsOK
<1> QED BY <1>4 DEF new

\* A dialog that differs from another in its draft, its order list, its graph's
\* sources or its transfer only, and one in which the user changed something.
SameStars(new, st) == new.favs = st.favs /\ new.inited = st.inited
SameControls(e, d) ==
    /\ e.list = d.list /\ e.chosen = d.chosen /\ e.boxes = d.boxes /\ e.base = d.base
    /\ e.quiet = d.quiet /\ e.steady = d.steady /\ e.imported = d.imported
    /\ e.saved = d.saved /\ e.unstarred = d.unstarred /\ SameStars(e.draft, d.draft)
Touched(e, d) ==
    /\ ~e.quiet /\ e.saved = d.saved /\ e.imported = d.imported
    /\ e.unstarred = d.unstarred /\ SameStars(e.draft, d.draft)

LEMMA OKFields ==
  ASSUME NEW d, DialogOK(d)
  PROVE  /\ DialogFields(d) /\ d.draft \in Settings /\ d.rank \in Lists
         /\ d.chosen \in SUBSET (DOMAIN d.list) /\ d.boxes \in SUBSET Boxes
         /\ d.sources \in SUBSET Sensors /\ d.graphList \in Seq(Sensors)
         /\ d.base \in Settings /\ d.quiet \in BOOLEAN /\ d.steady \in BOOLEAN
         /\ d.saved \in BOOLEAN
<1>1. /\ d.draft \in Settings /\ d.rank \in Lists /\ d.list \in Seq(Nat) /\ d.boxes \in SUBSET Boxes
      /\ d.sources \in SUBSET Sensors /\ d.graphList \in Seq(Sensors)
      /\ d.base \in Settings /\ d.quiet \in BOOLEAN /\ d.steady \in BOOLEAN /\ d.saved \in BOOLEAN
  BY DEF DialogOK, Dialogs
<1> QED BY <1>1 DEF DialogOK, DialogFields

LEMMA SameInv ==
  ASSUME NEW snap, NEW d, DialogInv(d, snap), ~d.saved, NEW e, DialogOK(e), SameControls(e, d)
  PROVE  DialogInv(e, snap)
  BY DEF DialogInv, DraftStars, StarsGone, QuietInv, SavedInv, SameControls, SameStars

LEMMA TouchedInv ==
  ASSUME NEW snap, NEW d, DialogInv(d, snap), ~d.saved, NEW e, DialogOK(e), Touched(e, d)
  PROVE  DialogInv(e, snap)
  BY DEF DialogInv, DraftStars, StarsGone, QuietInv, SavedInv, Touched, SameStars

LEMMA TouchedBefore ==
  ASSUME NEW d, NEW e, NEW f, Touched(e, d), SameControls(f, e) PROVE Touched(f, d)
  BY DEF Touched, SameControls, SameStars

\* Fields of a dialog that change.
LEMMA DraftChanged ==
  ASSUME NEW d, DialogOK(d), NEW draft \in Settings, SameStars(draft, d.draft)
  PROVE  DialogOK([d EXCEPT !.draft = draft]) /\ SameControls([d EXCEPT !.draft = draft], d)
  BY DEF DialogOK, Dialogs, SameControls

LEMMA ChosenChanged ==
  ASSUME NEW d, DialogOK(d), NEW chosen \in SUBSET (DOMAIN d.list)
  PROVE  LET e == [d EXCEPT !.chosen = chosen, !.quiet = FALSE] IN DialogOK(e) /\ Touched(e, d)
<1> DEFINE e == [d EXCEPT !.chosen = chosen, !.quiet = FALSE]
<1>1. chosen \subseteq Nat
  BY DEF DialogOK, Dialogs
<1>2. e \in Dialogs
  BY <1>1 DEF DialogOK, Dialogs
<1>3. e.chosen = chosen /\ e.list = d.list /\ e.rank = d.rank
  BY DEF DialogOK, Dialogs
<1>4. Touched(e, d)
  BY DEF DialogOK, Dialogs, Touched, SameStars
<1> QED BY <1>2, <1>3, <1>4 DEF DialogOK

LEMMA BoxesChanged ==
  ASSUME NEW d, DialogOK(d), NEW boxes \in SUBSET Boxes
  PROVE  LET e == [d EXCEPT !.boxes = boxes, !.quiet = FALSE] IN DialogOK(e) /\ Touched(e, d)
  BY DEF DialogOK, Dialogs, Touched, SameStars

LEMMA SourcesChanged ==
  ASSUME NEW d, DialogOK(d), NEW sources \in SUBSET Sensors
  PROVE  LET e == [d EXCEPT !.sources = sources, !.quiet = FALSE] IN DialogOK(e) /\ Touched(e, d)
  BY DEF DialogOK, Dialogs, Touched, SameStars

LEMMA TransferChanged ==
  ASSUME NEW d, DialogOK(d), NEW transfer \in Transfers
  PROVE  DialogOK([d EXCEPT !.transfer = transfer]) /\ SameControls([d EXCEPT !.transfer = transfer], d)
  BY DEF DialogOK, Dialogs, SameControls, SameStars

LEMMA RankChanged ==
  ASSUME NEW d, DialogOK(d), NEW rank \in Lists, ToSet(rank) \cap FrameRates = {}
  PROVE  DialogOK([d EXCEPT !.rank = rank]) /\ SameControls([d EXCEPT !.rank = rank], d)
  BY DEF DialogOK, Dialogs, SameControls, SameStars

LEMMA WithReadOK ==
  ASSUME snapshot \in Snapshots, NEW d, DialogOK(d)
  PROVE  DialogOK(WithRead(d)) /\ SameControls(WithRead(d), d)
<1> DEFINE r == ReadControls(d)
<1>1. r \in Settings /\ SameStars(r, d.draft)
  BY OKFields, ReadElements DEF SameStars
<1>2. WithRead(d) = [d EXCEPT !.draft = r]
  BY DEF WithRead
<1> HIDE DEF r
<1> QED BY <1>1, <1>2, DraftChanged

LEMMA WithRankOK ==
  ASSUME snapshot \in Snapshots, NEW d, DialogOK(d)
  PROVE  DialogOK(WithRank(d)) /\ SameControls(WithRank(d), d)
<1> DEFINE r == Ranked(snapshot, d.draft)
<1>1. r \in Lists /\ ToSet(r) \cap FrameRates = {}
  <2>1. d.draft \in Settings
    BY OKFields
  <2> QED BY <2>1, RankedElements
<1>2. WithRank(d) = [d EXCEPT !.rank = r]
  BY DEF WithRank
<1> HIDE DEF r
<1> QED BY <1>1, <1>2, RankChanged

\* Where the sensors stay, so do the positions in the list and what is chosen there.
LEMMA PositionsStay ==
  ASSUME NEW snap \in Snapshots, NEW new \in Snapshots, Ids(new) = Ids(snap)
  PROVE  Positions(new) = Positions(snap)
<1>1. Len(new) = Len(snap) /\ DOMAIN new = DOMAIN snap
  BY SnapshotIds
<1>2. \A i \in DOMAIN snap : new[i].id = snap[i].id
  BY SnapshotIds, <1>1
<1>3. {i \in DOMAIN new : new[i].id \notin FrameRates} = {i \in DOMAIN snap : snap[i].id \notin FrameRates}
  BY <1>1, <1>2
<1> QED BY <1>1, <1>3 DEF Positions

LEMMA ChosenStays ==
  ASSUME NEW snap \in Snapshots, NEW new \in Snapshots, Ids(new) = Ids(snap), NEW st
  PROVE  ChosenIn(Positions(snap), new, st) = ChosenIn(Positions(snap), snap, st)
<1> DEFINE list == Positions(snap)
<1>1. Len(new) = Len(snap) /\ DOMAIN snap = 1..Len(snap)
      /\ \A i \in 1..Len(snap) : new[i].id = snap[i].id
  BY SnapshotIds
<1>2. \A n \in DOMAIN list : list[n] \in 1..Len(snap)
  BY PositionElements DEF ToSet
<1> HIDE DEF list
<1>3. \A n \in DOMAIN list : new[list[n]].id = snap[list[n]].id
  BY <1>1, <1>2
<1>4. ChosenIn(list, new, st) = ChosenIn(list, snap, st)
  BY <1>1, <1>3 DEF ChosenIn
<1> QED BY <1>4 DEF list

\* A dialog under which the snapshot changes.
LEMMA SteadyInv ==
  ASSUME NEW snap \in Snapshots, NEW new \in Snapshots, NEW d, DialogInv(d, snap),
         NEW b, b = (d.steady /\ Ids(new) = Ids(snap))
  PROVE  DialogInv([d EXCEPT !.steady = b], new)
<1> DEFINE e == [d EXCEPT !.steady = b]
<1>1. DialogOK(d) /\ d \in Dialogs
  BY DEF DialogInv, DialogOK
<1>2. b \in BOOLEAN /\ (b => d.steady /\ Ids(new) = Ids(snap))
  OBVIOUS
<1>3. /\ e \in Dialogs
      /\ e.list = d.list /\ e.chosen = d.chosen /\ e.boxes = d.boxes /\ e.base = d.base
      /\ e.quiet = d.quiet /\ e.steady = b /\ e.imported = d.imported /\ e.saved = d.saved
      /\ e.unstarred = d.unstarred /\ e.draft = d.draft /\ e.rank = d.rank /\ e.done = d.done
  BY <1>1, <1>2 DEF Dialogs
<1> HIDE DEF e
<1>4. DialogOK(e) /\ DraftStars(e)
  BY <1>1, <1>3 DEF DialogInv, DialogOK, DraftStars
<1>5. QuietInv(e, new)
  <2> SUFFICES ASSUME e.quiet, e.steady
               PROVE  /\ e.list = Positions(new) /\ e.chosen = ChosenIn(e.list, new, e.base)
                      /\ ("fps" \in e.boxes <=> e.base.fps) /\ ("low" \in e.boxes <=> e.base.low)
    BY DEF QuietInv
  <2>1. d.quiet /\ d.steady /\ Ids(new) = Ids(snap)
    BY <1>2, <1>3
  <2>2. /\ d.list = Positions(snap) /\ d.chosen = ChosenIn(d.list, snap, d.base)
        /\ ("fps" \in d.boxes <=> d.base.fps) /\ ("low" \in d.boxes <=> d.base.low)
    BY <2>1 DEF DialogInv, QuietInv
  <2>3. Positions(new) = Positions(snap)
    BY <2>1, PositionsStay
  <2>4. ChosenIn(Positions(snap), new, d.base) = ChosenIn(Positions(snap), snap, d.base)
    BY <2>1, ChosenStays
  <2> QED BY <1>3, <2>2, <2>3, <2>4
<1>6. SavedInv(e, new)
  <2>1. e.steady => AtChosen(e, new) = AtChosen(d, snap)
    BY <1>2, <1>3 DEF AtChosen
  <2> QED BY <1>2, <1>3, <2>1 DEF DialogInv, SavedInv
<1>7. DialogInv(e, new)
  BY <1>4, <1>5, <1>6 DEF DialogInv
<1> QED BY <1>7 DEF e

LEMMA SteadyOK ==
  ASSUME DialogsOK(dialogs, snapshot), snapshot \in Snapshots, snapshot' \in Snapshots
  PROVE  DialogsOK(Steady, snapshot')
<1> DEFINE new == snapshot'
           b(k) == dialogs[k].steady /\ Ids(new) = Ids(snapshot)
<1>1. dialogs \in Seq(Dialogs) /\ \A k \in DOMAIN dialogs : DialogInv(dialogs[k], snapshot)
  BY DEF DialogsOK
<1>2. Steady = [k \in DOMAIN dialogs |-> [dialogs[k] EXCEPT !.steady = b(k)]]
  BY DEF Steady
<1>3. new \in Snapshots
  OBVIOUS
<1> HIDE DEF new
<1>4. ASSUME NEW k \in DOMAIN dialogs PROVE DialogInv([dialogs[k] EXCEPT !.steady = b(k)], new)
  <2> DEFINE d == dialogs[k]
             c == b(k)
  <2>1. DialogInv(d, snapshot) /\ c = (d.steady /\ Ids(new) = Ids(snapshot))
    BY <1>1
  <2> HIDE DEF d, c
  <2>2. DialogInv([d EXCEPT !.steady = c], new)
    BY <1>3, <2>1, SteadyInv
  <2> QED BY <2>2 DEF d, c
<1> HIDE DEF b
<1> DEFINE e(k) == [dialogs[k] EXCEPT !.steady = b(k)]
           s == Steady
<1>5. \A k \in DOMAIN dialogs : DialogInv(e(k), new)
  BY <1>4
<1>6. s = [k \in DOMAIN dialogs |-> e(k)]
  BY <1>2
<1> HIDE DEF e, s
<1>7. \A k \in DOMAIN dialogs : e(k) \in Dialogs
  BY <1>5 DEF DialogInv, DialogOK
<1>8. s \in Seq(Dialogs) /\ DOMAIN s = DOMAIN dialogs
  BY <1>1, <1>6, <1>7
<1>9. \A k \in DOMAIN s : DialogInv(s[k], new)
  BY <1>5, <1>6
<1>10. DialogsOK(s, new)
  BY <1>8, <1>9 DEF DialogsOK
<1> QED BY <1>10 DEF new, s

\* A dialog that was opened.
LEMMA OpenedInv ==
  ASSUME NEW snap \in Snapshots, NEW st \in Settings, unstarred \subseteq Sensors,
         StarsGone(st.favs, st.inited, unstarred)
  PROVE  DialogInv(Opened(snap, st), snap)
<1> DEFINE list == Positions(snap)
           chosen == ChosenIn(list, snap, st)
           rank == Ranked(snap, st)
           boxes == BoxesOf(st)
           graphs == GraphSourceList(snap, st)
           sources == st.sources \cap ToSet(graphs)
           d == Opened(snap, st)
<1>1. list \in Seq(Nat) /\ IsInjective(list)
  BY PositionElements
<1>2. chosen \subseteq DOMAIN list /\ chosen = ChosenIn(list, snap, st) /\ list = Positions(snap)
  BY DEF ChosenIn
<1>3. rank \in Lists /\ ToSet(rank) \cap FrameRates = {}
  BY RankedElements
<1>4. boxes \subseteq Boxes /\ ("fps" \in boxes <=> st.fps) /\ ("low" \in boxes <=> st.low)
  BY DEF BoxesOf, Boxes
<1>5. graphs \in Seq(Sensors)
  <2> DEFINE ids == Shown(snap, Ids(snap))
             a == Kept(ids, st.sources)
             b == Kept(ids, Sensors \ st.sources)
  <2>1. Ids(snap) \in Seq(Sensors)
    BY SnapshotIds
  <2>2. ids \in Seq(Sensors)
    BY <2>1, ShownElements
  <2>3. graphs = a \o b
    BY DEF GraphSourceList
  <2> HIDE DEF ids, graphs
  <2>4. a \in Seq(Sensors) /\ b \in Seq(Sensors)
    BY <2>2, KeptElements
  <2> HIDE DEF a, b
  <2> QED BY <2>3, <2>4
<1>6. sources \subseteq Sensors
  BY SettingsFields
<1>7. d = [draft |-> st, list |-> list, chosen |-> chosen, rank |-> rank, boxes |-> boxes,
           graphList |-> graphs, sources |-> sources, transfer |-> "none",
           done |-> FALSE, saved |-> FALSE, base |-> st, unstarred |-> unstarred,
           quiet |-> TRUE, steady |-> TRUE, imported |-> FALSE]
  BY DEF Opened
<1> HIDE DEF list, chosen, rank, boxes, graphs, sources, d
<1>8. chosen \subseteq Nat
  BY <1>1, <1>2
<1>9. d \in Dialogs
  BY <1>1, <1>3, <1>4, <1>5, <1>6, <1>7, <1>8 DEF Dialogs, Transfers
<1>10. /\ d.draft = st /\ d.list = list /\ d.chosen = chosen /\ d.rank = rank /\ d.boxes = boxes
       /\ d.saved = FALSE /\ d.base = st /\ d.unstarred = unstarred
  BY <1>7
<1>11. DialogOK(d) /\ DraftStars(d) /\ SavedInv(d, snap)
  <2>1. DialogOK(d)
    BY <1>1, <1>2, <1>3, <1>9, <1>10 DEF DialogOK
  <2>2. DraftStars(d) /\ SavedInv(d, snap)
    BY <1>10 DEF DraftStars, SavedInv
  <2> QED BY <2>1, <2>2
<1>12. QuietInv(d, snap)
  BY <1>2, <1>4, <1>10 DEF QuietInv
<1>13. DialogInv(d, snap)
  BY <1>11, <1>12 DEF DialogInv
<1> QED BY <1>13 DEF d

\* No more is pinned than was chosen.
LEMMA PinnedAreFew ==
  ASSUME snapshot \in Snapshots, NEW d, DialogFields(d)
  PROVE  Len(Pinned(d)) <= Cardinality(d.chosen)
<1> DEFINE p == Pinned(d)
           list == d.list
           chosen == d.chosen
           l == Len(p)
           g == [k \in 1..l |-> CHOOSE n \in chosen : list[n] = p[k]]
<1>1. list \in Seq(Nat) /\ chosen \in SUBSET (DOMAIN list) /\ IsInjective(list)
  BY DEF DialogFields
<1>2. d.list = list /\ d.chosen = chosen
  OBVIOUS
<1> HIDE DEF list, chosen, p
<1>3. /\ p \in Seq(Nat) /\ ToSet(p) = {list[n] : n \in chosen} \cap DOMAIN snapshot /\ IsInjective(p)
  BY <1>1, <1>2, PinnedElements DEF p
<1>4. l \in Nat /\ \A k \in 1..l : p[k] \in ToSet(p)
  BY <1>3 DEF ToSet
<1>5. \A k \in 1..l : \E n \in chosen : list[n] = p[k]
  BY <1>3, <1>4
<1>6. \A k \in 1..l : g[k] \in chosen /\ list[g[k]] = p[k]
  BY <1>5
<1>7. g \in [1..l -> chosen] /\ DOMAIN g = 1..l
  BY <1>6
<1> HIDE DEF g
<1>8. ASSUME NEW j \in 1..l, NEW k \in 1..l, g[j] = g[k] PROVE j = k
  <2>1. p[j] = p[k]
    BY <1>6, <1>8
  <2> QED BY <1>3, <2>1 DEF IsInjective
<1>9. g \in Injection(1..l, chosen)
  BY <1>7, <1>8 DEF Injection, IsInjective
<1>10. IsFiniteSet(chosen)
  <2> DEFINE m == Len(list)
             D == 1..m
  <2>1. m \in Nat /\ chosen \in SUBSET D
    BY <1>1
  <2>2. IsFiniteSet(D)
    <3> HIDE DEF m
    <3>1. 1 \in Int /\ m \in Int
      BY <2>1
    <3> QED BY <3>1, FS_Interval
  <2> HIDE DEF D
  <2> QED BY <2>1, <2>2, FS_Subset
<1> HIDE DEF l
<1>11. Cardinality(1..l) <= Cardinality(chosen)
  BY <1>9, <1>10, FS_Injection
<1>12. Cardinality(1..l) = l
  <2>1. 1 \in Int /\ l \in Int
    BY <1>4
  <2>2. Cardinality(1..l) = IF 1 > l THEN 0 ELSE l - 1 + 1
    BY <2>1, FS_Interval
  <2> QED BY <1>4, <2>2
<1> QED BY <1>2, <1>11, <1>12 DEF l, p

LEMMA FewPinned ==
  ASSUME snapshot \in Snapshots, NEW d, DialogFields(d), Cardinality(d.chosen) <= MaxIds
  PROVE  Len(Pinned(d)) <= MaxIds
<1> DEFINE p == Pinned(d)
           chosen == d.chosen
           m == Len(d.list)
           D == 1..m
<1>1. p \in Seq(Nat) /\ Len(p) <= Cardinality(chosen)
  <2>1. d.list \in Seq(Nat) /\ d.chosen \in SUBSET (DOMAIN d.list)
    BY DEF DialogFields
  <2> QED BY <2>1, PinnedAreFew, PinnedElements
<1>2. m \in Nat /\ chosen \in SUBSET D
  BY DEF DialogFields
<1>3. IsFiniteSet(D)
  <2> HIDE DEF m
  <2>1. 1 \in Int /\ m \in Int
    BY <1>2
  <2> QED BY <2>1, FS_Interval
<1>4. Cardinality(chosen) <= MaxIds
  OBVIOUS
<1> HIDE DEF p, D, chosen
<1>5. Cardinality(chosen) \in Nat
  BY <1>2, <1>3, FS_Subset, FS_CardinalityType
<1>6. Len(p) \in Nat /\ MaxIds \in Nat
  BY <1>1, DisplayAssumption
<1>7. Len(p) <= MaxIds
  BY <1>1, <1>4, <1>5, <1>6
<1> QED BY <1>7 DEF p

\* A dialog that is saved.
LEMMA SavedOK ==
  ASSUME snapshot \in Snapshots, NEW d, DialogInv(d, snapshot)
  PROVE  DialogInv([WithRead(d) EXCEPT !.saved = TRUE, !.done = TRUE], snapshot)
<1> DEFINE w == WithRead(d)
           r == ReadControls(d)
           e == [w EXCEPT !.saved = TRUE, !.done = TRUE]
           p == Pinned(d)
<1>1. DialogOK(d) /\ DialogFields(d)
  BY OKFields DEF DialogInv
<1>2. DialogOK(w) /\ SameControls(w, d)
  BY <1>1, WithReadOK
<1>3. /\ r.fps = ("fps" \in d.boxes) /\ r.low = ("low" \in d.boxes) /\ r.order = Up(MaxIds, d.rank)
      /\ (d.list # <<>> /\ Len(p) <= MaxIds) => ToSet(r.pins) = {snapshot[i].id : i \in ToSet(p)}
  BY <1>1, ReadElements
<1>4. w.draft = r /\ w.rank = d.rank
  <2>1. w = [d EXCEPT !.draft = r]
    BY DEF WithRead
  <2> HIDE DEF w, r
  <2> QED BY <1>1, <2>1 DEF DialogOK, Dialogs
<1>5. {snapshot[i].id : i \in ToSet(p)} = AtChosen(d, snapshot)
  <2> DEFINE list == d.list
             chosen == d.chosen
             A == {list[n] : n \in chosen}
             ids == Ids(snapshot)
  <2>1. list \in Seq(Nat) /\ chosen \in SUBSET (DOMAIN list) /\ d.list = list /\ d.chosen = chosen
    BY <1>1 DEF DialogFields
  <2>2. /\ DOMAIN snapshot = DOMAIN ids /\ \A i \in DOMAIN ids : ids[i] = snapshot[i].id
    BY DEF Ids
  <2> HIDE DEF list, chosen, p, ids
  <2>3. ToSet(Pinned(d)) = A \cap DOMAIN snapshot
    BY <2>1, PinnedElements
  <2>4. AtChosen(d, snapshot) = {ids[i] : i \in A \cap DOMAIN ids}
    BY <2>1 DEF AtChosen, ids
  <2> HIDE DEF A
  <2>5. ToSet(p) = A \cap DOMAIN ids
    BY <2>2, <2>3 DEF p
  <2>6. {ids[i] : i \in A \cap DOMAIN ids} = {snapshot[i].id : i \in A \cap DOMAIN ids}
    BY <2>2
  <2> QED BY <2>4, <2>5, <2>6
<1>6. Cardinality(d.chosen) <= MaxIds => Len(p) <= MaxIds
  BY <1>1, FewPinned
<1> HIDE DEF w, r, p
<1>7. /\ e \in Dialogs /\ e.saved = TRUE /\ e.done = TRUE
      /\ e.list = w.list /\ e.chosen = w.chosen /\ e.boxes = w.boxes /\ e.base = w.base
      /\ e.quiet = w.quiet /\ e.steady = w.steady /\ e.imported = w.imported
      /\ e.unstarred = w.unstarred /\ e.draft = w.draft /\ e.rank = w.rank
  BY <1>2 DEF DialogOK, Dialogs
<1> HIDE DEF e
<1>8. DialogOK(e)
  BY <1>2, <1>7 DEF DialogOK
<1>9. DraftStars(e) /\ QuietInv(e, snapshot)
  BY <1>2, <1>7 DEF SameControls, SameStars, DialogInv, DraftStars, StarsGone, QuietInv
<1>10. /\ e.list = d.list /\ e.chosen = d.chosen /\ e.boxes = d.boxes /\ e.draft = r /\ e.rank = d.rank
  BY <1>2, <1>4, <1>7 DEF SameControls
<1>11. AtChosen(e, snapshot) = AtChosen(d, snapshot)
  BY <1>10 DEF AtChosen
<1>12. SavedInv(e, snapshot)
  BY <1>3, <1>5, <1>6, <1>7, <1>10, <1>11 DEF SavedInv
<1>13. DialogInv(e, snapshot)
  BY <1>8, <1>9, <1>12 DEF DialogInv
<1> QED BY <1>13 DEF e, w

(***************************************************************************)
(* The steps keep the invariant.                                             *)
(***************************************************************************)

LEMMA SelectedStars ==
  ASSUME NEW s, NEW st \in Settings, NEW selected \in BOOLEAN
  PROVE  SameStars(SetSensorSelectedForOsd(s, st, selected), st)
<1> DEFINE easy == IF st.easyOn THEN st.easy \ {KindOf[s]} ELSE st.easy
           removed == RemoveId(st.pins, s)
           added == AddId(st.pins, s)
           new == SetSensorSelectedForOsd(s, st, selected)
<1>1. \/ new = [st EXCEPT !.fps = selected]
      \/ new = [st EXCEPT !.low = selected]
      \/ new = [st EXCEPT !.graph = selected, !.sources = {s}]
      \/ new = [st EXCEPT !.pins = added]
      \/ new = [st EXCEPT !.pins = removed, !.easy = easy]
  BY DEF SetSensorSelectedForOsd
<1> HIDE DEF easy, removed, added, new
<1>2. ASSUME new = [st EXCEPT !.fps = selected] PROVE SameStars(new, st)
  BY <1>2 DEF Settings, SameStars
<1>3. ASSUME new = [st EXCEPT !.low = selected] PROVE SameStars(new, st)
  BY <1>3 DEF Settings, SameStars
<1>4. ASSUME new = [st EXCEPT !.pins = added] PROVE SameStars(new, st)
  BY <1>4 DEF Settings, SameStars
<1>5. ASSUME new = [st EXCEPT !.pins = removed, !.easy = easy] PROVE SameStars(new, st)
  BY <1>5 DEF Settings, SameStars
<1>6. ASSUME new = [st EXCEPT !.graph = selected, !.sources = {s}] PROVE SameStars(new, st)
  BY <1>6 DEF Settings, SameStars
<1>7. SameStars(new, st)
  BY <1>1, <1>2, <1>3, <1>4, <1>5, <1>6
<1> QED BY <1>7 DEF new

LEMMA EditedType == ASSUME edits \in 0..MaxEdits, Edit PROVE edits' \in 0..MaxEdits
  BY DialogAssumption DEF Edit

LEMMA TrayType ==
  ASSUME TrayOK, NEW snap \in Layouts, NEW st \in Settings
  PROVE  /\ TrayOf(snap, st) \in [visible : BOOLEAN, snap : Layouts, rows : Lists]
         /\ Len(TrayOf(snap, st).rows) <= TrayRowsMax
         /\ TrayRefreshed(snap, st) \in [visible : BOOLEAN, snap : Layouts, rows : Lists]
         /\ Len(TrayRefreshed(snap, st).rows) <= TrayRowsMax
         /\ Hidden \in [visible : BOOLEAN, snap : Layouts, rows : Lists]
         /\ Len(Hidden.rows) <= TrayRowsMax
<1>1. snap \in Snapshots /\ <<>> \in Layouts /\ TrayRowsMax \in Nat
  BY LayoutIsSnapshot, DialogAssumption, DisplayAssumption
<1>2. RefreshRows(snap, st) \in Lists /\ Len(RefreshRows(snap, st)) <= TrayRowsMax
  BY <1>1, RowsType
<1>3. <<>> \in Lists /\ Len(<<>>) = 0
  BY DEF Lists, IsInjective
<1>4. /\ Hidden \in [visible : BOOLEAN, snap : Layouts, rows : Lists]
      /\ Len(Hidden.rows) <= TrayRowsMax
  BY <1>1, <1>3 DEF Hidden
<1>5. /\ TrayOf(snap, st) \in [visible : BOOLEAN, snap : Layouts, rows : Lists]
      /\ Len(TrayOf(snap, st).rows) <= TrayRowsMax
  BY <1>2 DEF TrayOf
<1> QED BY <1>4, <1>5 DEF TrayRefreshed, TrayOK

\* The steps outside the dialogs.
LEMMA MainStepKeeps ==
  ASSUME DialogIInv, MainStep PROVE DialogIInv'
<1>1. /\ settings \in Settings /\ snapshot \in Layouts /\ enabled \in BOOLEAN /\ TrayOK
      /\ edits \in 0..MaxEdits /\ unstarred \subseteq Sensors
      /\ StarsGone(settings.favs, settings.inited, unstarred)
      /\ DialogsOK(dialogs, snapshot) /\ snapshot \in Snapshots
  BY LayoutIsSnapshot DEF DialogIInv, WindowOK
<1>2. ASSUME snapshot' \in Layouts
      PROVE  snapshot' \in Snapshots /\ DialogsOK(Steady, snapshot')
  BY <1>1, <1>2, LayoutIsSnapshot, SteadyOK
<1>3. ASSUME snapshot' \in Layouts, dialogs' = Steady, edits' \in 0..MaxEdits, enabled' \in BOOLEAN,
             settings' \in Settings, TrayOK', unstarred' \subseteq Sensors,
             StarsGone(settings'.favs, settings'.inited, unstarred')
      PROVE  DialogIInv'
  BY <1>2, <1>3 DEF DialogIInv, WindowOK
<1>4. CASE HandleSnapshotMessage
  <2>1. /\ snapshot' \in Layouts /\ dialogs' = Steady /\ UNCHANGED <<enabled, edits, unstarred>>
        /\ settings' = InitializeDefaultFavorites(snapshot', settings)
        /\ tray' = TrayRefreshed(snapshot', settings')
    BY <1>4 DEF HandleSnapshotMessage, ReadLatest
  <2>2. settings' \in Settings /\ (settings.inited => settings' = settings)
    BY <1>1, <1>2, <2>1, DefaultsType
  <2>3. StarsGone(settings'.favs, settings'.inited, unstarred')
    BY <1>1, <2>1, <2>2 DEF StarsGone
  <2>4. TrayOK'
    BY <1>1, <2>1, <2>2, TrayType DEF TrayOK
  <2> QED BY <1>1, <1>3, <2>1, <2>2, <2>3, <2>4
<1>5. CASE Render
  <2>1. snapshot' \in Layouts /\ dialogs' = Steady /\ UNCHANGED <<settings, enabled, tray, edits, unstarred>>
    BY <1>5 DEF Render, ReadLatest
  <2> QED BY <1>1, <1>3, <2>1 DEF TrayOK
<1>6. CASE ShowSettings
  <2> DEFINE snap == snapshot'
             d == Opened(snap, settings)
             ds == Steady
  <2>1. /\ Edit /\ snap \in Layouts /\ enabled' = FALSE /\ UNCHANGED <<settings, tray, unstarred>>
        /\ dialogs' = Append(ds, d)
    BY <1>6 DEF ShowSettings, ReadLatest
  <2>2. snap \in Snapshots /\ DialogsOK(ds, snap)
    BY <1>2, <2>1
  <2> HIDE DEF snap, ds
  <2>3. DialogInv(d, snap)
    BY <1>1, <2>2, OpenedInv
  <2> HIDE DEF d
  <2>4. DialogsOK(Append(ds, d), snap)
    BY <2>2, <2>3, OneMore
  <2>5. edits' \in 0..MaxEdits
    BY <1>1, <2>1, EditedType
  <2> QED BY <1>1, <2>1, <2>4, <2>5 DEF DialogIInv, WindowOK, TrayOK, snap
<1>7. ASSUME NEW s \in Sensors, ClickOsd(s) PROVE DialogIInv'
  <2>1. /\ Edit /\ snapshot' \in Layouts /\ dialogs' = Steady /\ UNCHANGED <<enabled, tray, unstarred>>
        /\ settings' = SetSensorSelectedForOsd(s, settings, ~IsSensorSelectedForOsd(s, settings))
    BY <1>7 DEF ClickOsd, ReadLatest
  <2>2. settings' \in Settings /\ settings'.favs = settings.favs /\ settings'.inited = settings.inited
    <3> DEFINE selected == ~IsSensorSelectedForOsd(s, settings)
    <3>1. selected \in BOOLEAN
      OBVIOUS
    <3>2. settings' = SetSensorSelectedForOsd(s, settings, selected)
      BY <2>1
    <3> HIDE DEF selected
    <3> QED BY <1>1, <3>1, <3>2, SelectedType, SelectedStars DEF SameStars
  <2>3. edits' \in 0..MaxEdits
    BY <1>1, <2>1, EditedType
  <2> QED BY <1>1, <1>3, <2>1, <2>2, <2>3 DEF TrayOK
<1>8. ASSUME NEW s \in Sensors, ClickFavorite(s) PROVE DialogIInv'
  <2>1. /\ Edit /\ snapshot' \in Layouts /\ dialogs' = Steady /\ UNCHANGED <<enabled, tray>>
        /\ settings' = Starred(s)
        /\ unstarred' = IF Contains(settings.favs, s) THEN unstarred \cup {s} ELSE unstarred \ {s}
    BY <1>8 DEF ClickFavorite, ReadLatest
  <2>2. /\ settings' \in Settings /\ settings'.inited = TRUE
        /\ ToSet(settings'.favs) \subseteq
              IF Contains(settings.favs, s) THEN ToSet(settings.favs) \ {s}
                                            ELSE ToSet(settings.favs) \cup {s}
    BY <1>1, <2>1, StarredType
  <2>3. unstarred' \cap ToSet(settings'.favs) = {} /\ unstarred' \subseteq Sensors
    BY <1>1, <2>1, <2>2 DEF StarsGone
  <2>4. edits' \in 0..MaxEdits
    BY <1>1, <2>1, EditedType
  <2> QED BY <1>1, <1>3, <2>1, <2>2, <2>3, <2>4 DEF StarsGone, TrayOK
<1>9. CASE GraphClosed
  <2>1. Edit /\ UNCHANGED <<snapshot, dialogs, enabled, tray, unstarred>>
        /\ settings' = [settings EXCEPT !.floating = FALSE]
    BY <1>9 DEF GraphClosed
  <2>2. settings' \in Settings /\ settings'.favs = settings.favs /\ settings'.inited = settings.inited
    BY <1>1, <2>1 DEF Settings
  <2>3. edits' \in 0..MaxEdits
    BY <1>1, <2>1, EditedType
  <2> QED BY <1>1, <2>1, <2>2, <2>3 DEF DialogIInv, WindowOK, TrayOK
<1>10. CASE ToggleTray
  <2>1. /\ Edit /\ snapshot' \in Layouts /\ dialogs' = Steady
        /\ UNCHANGED <<settings, enabled, unstarred>>
        /\ tray' = IF tray.visible THEN Hidden ELSE TrayOf(snapshot', settings)
    BY <1>10 DEF ToggleTray, ReadLatest
  <2>2. TrayOK'
    BY <1>1, <2>1, TrayType DEF TrayOK
  <2>3. edits' \in 0..MaxEdits
    BY <1>1, <2>1, EditedType
  <2> QED BY <1>1, <1>3, <2>1, <2>2, <2>3
<1>11. CASE DialogReturns
  <2> DEFINE d == Last(dialogs)
  <2>1. /\ dialogs # <<>> /\ dialogs' = Front(dialogs) /\ enabled' = TRUE
        /\ UNCHANGED <<snapshot, edits>>
        /\ IF d.saved
             THEN /\ settings' = d.draft
                  /\ tray' = TrayRefreshed(tray.snap, settings')
                  /\ unstarred' = IF d.imported THEN {} ELSE unstarred \cap d.unstarred
             ELSE UNCHANGED <<settings, tray, unstarred>>
    BY <1>11 DEF DialogReturns, Running, Innermost
  <2>2. DialogsOK(Front(dialogs), snapshot) /\ DialogInv(d, snapshot)
    BY <1>1, <2>1, OneLess
  <2> HIDE DEF d
  <2>3. CASE d.saved
    <3>1. d.draft \in Settings /\ DraftStars(d)
      BY <2>2, OKFields DEF DialogInv
    <3>2. StarsGone(settings'.favs, settings'.inited, unstarred') /\ unstarred' \subseteq Sensors
      BY <1>1, <2>1, <2>3, <3>1 DEF DraftStars, StarsGone
    <3>3. TrayOK'
      <4>1. tray.snap \in Layouts /\ settings' \in Settings
        BY <1>1, <2>1, <2>3, <3>1 DEF TrayOK
      <4> QED BY <1>1, <2>1, <2>3, <4>1, TrayType DEF TrayOK
    <3> QED BY <1>1, <2>1, <2>2, <2>3, <3>1, <3>2, <3>3 DEF DialogIInv, WindowOK
  <2>4. CASE ~d.saved
    BY <1>1, <2>1, <2>2, <2>4 DEF DialogIInv, WindowOK, TrayOK
  <2> QED BY <2>3, <2>4
<1> QED BY <1>4, <1>5, <1>6, <1>7, <1>8, <1>9, <1>10, <1>11 DEF MainStep

\* A step in one of the dialogs changes that dialog only.
LEMMA InDialogKeeps ==
  ASSUME DialogIInv, NEW k \in DOMAIN dialogs, NEW d, InDialog(k, d), DialogInv(d, snapshot),
         edits' \in 0..MaxEdits
  PROVE  DialogIInv'
<1>1. dialogs' = [dialogs EXCEPT ![k] = d] /\ UNCHANGED <<settings, snapshot, enabled, tray, unstarred>>
  BY DEF InDialog
<1>2. DialogsOK([dialogs EXCEPT ![k] = d], snapshot)
  BY OneChanged DEF DialogIInv
<1> QED BY <1>1, <1>2 DEF DialogIInv, WindowOK, TrayOK

\* The steps in a dialog.
LEMMA DialogStepKeeps ==
  ASSUME DialogIInv, NEW k \in DOMAIN dialogs, StepOf(k) PROVE DialogIInv'
<1> DEFINE c == dialogs[k]
<1>1. DialogInv(c, snapshot) /\ DialogOK(c) /\ snapshot \in Snapshots /\ edits \in 0..MaxEdits
  BY LayoutIsSnapshot DEF DialogIInv, WindowOK, DialogsOK, DialogInv
<1>2. ASSUME NEW d, InDialog(k, d) PROVE ~c.saved
  BY <1>1, <1>2 DEF InDialog, DialogInv, SavedInv
<1>3. ASSUME NEW d, InDialog(k, d), Edit \/ UNCHANGED edits, DialogOK(d),
             SameControls(d, c) \/ Touched(d, c)
      PROVE  DialogIInv'
  <2>1. ~c.saved
    BY <1>2, <1>3
  <2> HIDE DEF c
  <2>2. DialogInv(d, snapshot)
    BY <1>1, <1>3, <2>1, SameInv, TouchedInv
  <2>3. edits' \in 0..MaxEdits
    BY <1>1, <1>3, EditedType
  <2> QED BY <1>3, <2>2, <2>3, InDialogKeeps
<1>4. ASSUME NEW n \in DOMAIN c.list, ChooseSensor(k, n) PROVE DialogIInv'
  <2>1. PICK x \in Clicked(c.chosen, n) :
           Edit /\ InDialog(k, WithRank(WithRead([c EXCEPT !.chosen = x, !.quiet = FALSE])))
    BY <1>4 DEF ChooseSensor
  <2> DEFINE d == [c EXCEPT !.chosen = x, !.quiet = FALSE]
             e == WithRead(d)
             f == WithRank(e)
  <2>2. InDialog(k, f) /\ Edit
    BY <2>1
  <2> HIDE DEF c
  <2>3. x \in SUBSET (DOMAIN c.list)
    BY <1>1 DEF Clicked, DialogOK
  <2>4. DialogOK(d) /\ Touched(d, c)
    BY <1>1, <2>3, ChosenChanged
  <2> HIDE DEF d
  <2>5. DialogOK(e) /\ SameControls(e, d)
    BY <1>1, <2>4, WithReadOK
  <2> HIDE DEF e
  <2>6. DialogOK(f) /\ SameControls(f, e)
    BY <1>1, <2>5, WithRankOK
  <2> HIDE DEF f
  <2>7. Touched(e, c)
    BY <2>4, <2>5, TouchedBefore
  <2>8. Touched(f, c)
    BY <2>6, <2>7, TouchedBefore
  <2> QED BY <1>3, <2>2, <2>6, <2>8
<1>5. ASSUME NEW s \in ToSet(c.graphList), ChooseSource(k, s) PROVE DialogIInv'
  <2>1. PICK x \in Clicked(c.sources, s) :
           /\ Edit
           /\ InDialog(k, [c EXCEPT !.sources = IF Allowed(x, s) THEN x ELSE x \ {s}, !.quiet = FALSE])
    BY <1>5 DEF ChooseSource
  <2> DEFINE y == IF Allowed(x, s) THEN x ELSE x \ {s}
             d == [c EXCEPT !.sources = y, !.quiet = FALSE]
  <2>2. InDialog(k, d) /\ Edit
    BY <2>1
  <2> HIDE DEF c
  <2>3. s \in Sensors
    <3> DEFINE l == c.graphList
    <3>1. l \in Seq(Sensors) /\ s \in ToSet(l)
      BY <1>1, OKFields
    <3> HIDE DEF l
    <3> QED BY <3>1, Elements
  <2>4. y \in SUBSET Sensors
    BY <1>1, <2>3, OKFields DEF Clicked
  <2> HIDE DEF y
  <2>5. DialogOK(d) /\ Touched(d, c)
    BY <1>1, <2>4, SourcesChanged
  <2> HIDE DEF d
  <2> QED BY <1>3, <2>2, <2>5
<1>6. ASSUME NEW b \in Boxes, TickBox(k, b) PROVE DialogIInv'
  <2> DEFINE t == IF b \in c.boxes THEN c.boxes \ {b} ELSE c.boxes \cup {b}
             d == [c EXCEPT !.boxes = t, !.quiet = FALSE]
             e == IF b = "floating" THEN d ELSE WithRead(d)
  <2>1. InDialog(k, e) /\ Edit
    BY <1>6 DEF TickBox
  <2> HIDE DEF c
  <2>2. t \in SUBSET Boxes
    BY <1>1, OKFields
  <2> HIDE DEF t
  <2>3. DialogOK(d) /\ Touched(d, c)
    BY <1>1, <2>2, BoxesChanged
  <2> HIDE DEF d
  <2>4. DialogOK(WithRead(d)) /\ SameControls(WithRead(d), d)
    BY <1>1, <2>3, WithReadOK
  <2>5. Touched(WithRead(d), c)
    BY <2>3, <2>4, TouchedBefore
  <2>6. DialogOK(e) /\ Touched(e, c)
    BY <2>3, <2>4, <2>5
  <2> HIDE DEF e
  <2> QED BY <1>3, <2>1, <2>6
<1>7. ASSUME NEW i \in DOMAIN c.rank, NEW j \in DOMAIN c.rank, DragOrder(k, i, j)
      PROVE DialogIInv'
  <2> DEFINE q == c.rank
             r == InsertAt(RemoveAt(q, i), j, q[i])
             u == Up(MaxIds, r)
             draft == [c.draft EXCEPT !.order = u]
             d == [c EXCEPT !.rank = r, !.draft.order = u, !.quiet = FALSE]
  <2>1. InDialog(k, d) /\ Edit
    BY <1>7 DEF DragOrder
  <2> HIDE DEF c
  <2>2. q \in Seq(Sensors) /\ IsInjective(q) /\ ToSet(q) \cap FrameRates = {}
        /\ i \in 1..Len(q) /\ j \in 1..Len(q)
    <3>1. q \in Lists
      BY <1>1, OKFields
    <3>2. ToSet(q) \cap FrameRates = {}
      BY <1>1 DEF DialogOK
    <3>3. i \in DOMAIN q /\ j \in DOMAIN q
      OBVIOUS
    <3> HIDE DEF q
    <3> QED BY <3>1, <3>2, <3>3 DEF Lists
  <2>3. r \in Seq(Sensors) /\ IsInjective(r) /\ ToSet(r) \subseteq ToSet(q)
    <3> HIDE DEF q
    <3> QED BY <2>2, MovedElements
  <2> HIDE DEF r
  <2>4. r \in Lists /\ ToSet(r) \cap FrameRates = {} /\ MaxIds \in Nat
    BY <2>2, <2>3, DisplayAssumption DEF Lists
  <2>5. u \in ShortLists
    BY <2>3, <2>4, UpElements DEF ShortLists, Lists
  <2> HIDE DEF u
  <2>6. c.draft \in Settings
    BY <1>1, OKFields
  <2>7. draft \in Settings /\ SameStars(draft, c.draft)
    BY <2>5, <2>6 DEF Settings, SameStars
  <2>8. d = [c EXCEPT !.rank = r, !.draft = draft, !.quiet = FALSE]
    BY <1>1 DEF DialogOK, Dialogs
  <2> HIDE DEF d, draft
  <2>9. d \in Dialogs
    BY <1>1, <2>4, <2>7, <2>8 DEF DialogOK, Dialogs
  <2>10. /\ d.quiet = FALSE /\ d.saved = c.saved /\ d.imported = c.imported /\ d.draft = draft
         /\ d.unstarred = c.unstarred /\ d.rank = r /\ d.list = c.list /\ d.chosen = c.chosen
    BY <1>1, <2>8 DEF DialogOK, Dialogs
  <2>11. DialogOK(d) /\ Touched(d, c)
    BY <1>1, <2>4, <2>7, <2>9, <2>10 DEF DialogOK, Touched
  <2> QED BY <1>3, <2>1, <2>11
<1>8. ASSUME NEW kind \in {"export", "import"}, StartTransfer(k, kind) PROVE DialogIInv'
  <2> DEFINE d == IF kind = "export" THEN WithRead(c) ELSE c
             e == [d EXCEPT !.transfer = kind]
  <2>1. InDialog(k, e) /\ Edit
    BY <1>8 DEF StartTransfer
  <2> HIDE DEF c
  <2>2. DialogOK(d) /\ SameControls(d, c)
    BY <1>1, WithReadOK DEF SameControls, SameStars
  <2> HIDE DEF d
  <2>3. kind \in Transfers
    BY DEF Transfers
  <2>4. DialogOK(e) /\ SameControls(e, d)
    BY <2>2, <2>3, TransferChanged
  <2> HIDE DEF e
  <2>5. SameControls(e, c)
    BY <2>2, <2>4 DEF SameControls, SameStars
  <2> QED BY <1>3, <2>1, <2>4, <2>5
<1>9. CASE SwitchTab(k)
  <2> DEFINE d == WithRead(c)
             e == WithRank(d)
  <2>1. Edit /\ (InDialog(k, d) \/ InDialog(k, e))
    BY <1>9 DEF SwitchTab
  <2> HIDE DEF c
  <2>2. DialogOK(d) /\ SameControls(d, c)
    BY <1>1, WithReadOK
  <2> HIDE DEF d
  <2>3. DialogOK(e) /\ SameControls(e, d)
    BY <1>1, <2>2, WithRankOK
  <2> HIDE DEF e
  <2>4. SameControls(e, c)
    BY <2>2, <2>3 DEF SameControls, SameStars
  <2> QED BY <1>3, <2>1, <2>2, <2>3, <2>4
<1>10. CASE TransferDone(k)
  <2> DEFINE d == [c EXCEPT !.transfer = "none"]
  <2>1. /\ UNCHANGED edits
        /\ InDialog(k, d) \/ \E st \in Imports : InDialog(k, Applied(d, st))
    BY <1>10 DEF TransferDone
  <2>2. ASSUME NEW e, InDialog(k, e) PROVE ~c.saved
    BY <1>2, <2>2
  <2> HIDE DEF c
  <2>3. DialogOK(d) /\ SameControls(d, c)
    <3>1. "none" \in Transfers
      BY DEF Transfers
    <3> QED BY <1>1, <3>1, TransferChanged
  <2> HIDE DEF d
  <2>4. CASE InDialog(k, d)
    BY <1>3, <2>1, <2>3, <2>4
  <2>5. ASSUME NEW st \in Imports, InDialog(k, Applied(d, st)) PROVE DialogIInv'
    <3> DEFINE boxes == BoxesOf(st)
               chosen == ChosenIn(d.list, snapshot, st)
               sources == st.sources \cap ToSet(d.graphList)
               e == [d EXCEPT !.draft = st, !.boxes = boxes, !.chosen = chosen, !.sources = sources,
                              !.quiet = FALSE, !.imported = TRUE]
               f == WithRank(e)
    <3>1. st \in Settings
      BY DialogAssumption
    <3>2. boxes \in SUBSET Boxes /\ chosen \in SUBSET (DOMAIN d.list) /\ sources \in SUBSET Sensors
      BY <3>1, SettingsFields DEF BoxesOf, ChosenIn
    <3>3. InDialog(k, f)
      BY <2>5 DEF Applied
    <3> HIDE DEF boxes, chosen, sources
    <3>4. chosen \subseteq Nat
      BY <2>3, <3>2 DEF DialogOK, Dialogs
    <3>5. e \in Dialogs
      BY <2>3, <3>1, <3>2, <3>4 DEF DialogOK, Dialogs
    <3>6. /\ e.quiet = FALSE /\ e.saved = d.saved /\ e.imported = TRUE /\ e.chosen = chosen
          /\ e.list = d.list /\ e.rank = d.rank
      BY <2>3 DEF DialogOK, Dialogs
    <3> HIDE DEF e
    <3>7. DialogOK(e)
      BY <2>3, <3>2, <3>5, <3>6 DEF DialogOK
    <3>8. DialogOK(f) /\ SameControls(f, e)
      BY <1>1, <3>7, WithRankOK
    <3> HIDE DEF f
    <3>9. ~f.quiet /\ ~f.saved /\ f.imported
      BY <2>2, <2>3, <3>3, <3>6, <3>8 DEF SameControls
    <3>10. DialogInv(f, snapshot)
      BY <3>8, <3>9 DEF DialogInv, DraftStars, QuietInv, SavedInv
    <3>11. edits' \in 0..MaxEdits
      BY <1>1, <2>1
    <3> QED BY <3>3, <3>10, <3>11, InDialogKeeps
  <2> QED BY <2>1, <2>4, <2>5
<1>11. CASE Save(k)
  <2> DEFINE d == [WithRead(c) EXCEPT !.saved = TRUE, !.done = TRUE]
  <2>1. InDialog(k, d) /\ UNCHANGED edits
    BY <1>11 DEF Save
  <2> HIDE DEF c
  <2>2. DialogInv(d, snapshot)
    BY <1>1, SavedOK
  <2> HIDE DEF d
  <2>3. edits' \in 0..MaxEdits
    BY <1>1, <2>1
  <2> QED BY <2>1, <2>2, <2>3, InDialogKeeps
<1>12. CASE Cancel(k)
  <2> DEFINE d == [c EXCEPT !.done = TRUE]
  <2>1. InDialog(k, d) /\ UNCHANGED edits
    BY <1>12 DEF Cancel
  <2> HIDE DEF c
  <2>2. DialogOK(d) /\ SameControls(d, c)
    BY <1>1 DEF DialogOK, Dialogs, SameControls, SameStars
  <2> HIDE DEF d
  <2> QED BY <1>3, <2>1, <2>2
<1> QED BY <1>4, <1>5, <1>6, <1>7, <1>8, <1>9, <1>10, <1>11, <1>12 DEF StepOf

LEMMA DialogSteps == ASSUME DialogIInv, [DialogNext]_dialogVars PROVE DialogIInv'
<1>1. CASE DialogNext
  BY <1>1, MainStepKeeps, DialogStepKeeps DEF DialogNext
<1>2. CASE UNCHANGED dialogVars
  BY <1>2 DEF dialogVars, DialogIInv, WindowOK, TrayOK
<1> QED BY <1>1, <1>2

LEMMA DialogInvariance == DialogSpec => []DialogIInv
<1>1. DialogInit => DialogIInv
  BY DialogStarts
<1>2. DialogIInv /\ [DialogNext]_dialogVars => DialogIInv'
  BY DialogSteps
<1> QED BY <1>1, <1>2, PTL DEF DialogSpec

LEMMA DialogTyped == ASSUME DialogIInv PROVE DialogTypeOK
<1>1. \A k \in DOMAIN dialogs : /\ dialogs[k].chosen \subseteq DOMAIN dialogs[k].list
                                /\ ToSet(dialogs[k].rank) \cap FrameRates = {}
  BY DEF DialogIInv, DialogsOK, DialogInv, DialogOK
<1> QED BY <1>1 DEF DialogIInv, WindowOK, TrayOK, DialogsOK, DialogTypeOK

(* The choices stay within their types, whatever dialogs are open: no list of         *)
(* sensors has one twice or is longer than the code's limits, and no order list holds *)
(* a frame rate (app_settings.cpp:84-107, 181-190; settings_window.cpp:141-178).        *)
THEOREM DialogTypeCorrect == DialogSpec => []DialogTypeOK
  BY DialogTyped, DialogInvariance, PTL

(***************************************************************************)
(* What the views show.                                                      *)
(***************************************************************************)

LEMMA ShownOnce == ASSUME DialogIInv PROVE NothingShownTwice
<1> DEFINE items == Items
           main == BuildOsdSurfaceItems(snapshot, settings, FALSE)
           fps == BuildOsdSurfaceItems(snapshot, settings, TRUE)
           F == FrameRates
           H == Sensors \ FrameRates
<1>1. items \in Seq(Sensors) /\ IsInjective(items) /\ ToSet(items) \subseteq Sensors
  <2>1. items \in Lists
    BY TypedDialog, ItemElements DEF Items
  <2> HIDE DEF items
  <2> QED BY <2>1, Elements DEF Lists
<1>2. IsInjective(tray.rows)
  BY DEF DialogIInv, WindowOK, TrayOK, Lists
<1>3. CASE ~settings.separate
  <2>1. main = items /\ fps = <<>>
    BY <1>3 DEF BuildOsdSurfaceItems, Items
  <2>2. ToSet(<<>>) = {}
    BY DEF ToSet
  <2> HIDE DEF main, fps, items
  <2>3. ToSet(main) \cap ToSet(fps) = {} /\ ToSet(main) \cup ToSet(fps) = ToSet(items)
    BY <2>1, <2>2
  <2> QED BY <1>1, <1>2, <2>3 DEF NothingShownTwice, items, main, fps
<1>4. CASE settings.separate
  <2>1. main = Kept(items, H) /\ fps = Kept(items, F)
    BY <1>4 DEF BuildOsdSurfaceItems, Items
  <2>2. F \cap H = {} /\ Sensors = F \cup H
    BY DEF FrameRates
  <2> HIDE DEF main, fps, items, H, F
  <2>3. ToSet(main) = ToSet(items) \cap H /\ ToSet(fps) = ToSet(items) \cap F
    BY <1>1, <2>1, KeptElements
  <2>4. ToSet(main) \cap ToSet(fps) = {} /\ ToSet(main) \cup ToSet(fps) = ToSet(items)
    BY <1>1, <2>2, <2>3
  <2> QED BY <1>1, <1>2, <2>4 DEF NothingShownTwice, items, main, fps
<1> QED BY <1>3, <1>4

\* Whatever is displayed and was not pinned as a frame rate is selected.
LEMMA ShownSelected ==
  ASSUME NEW snap \in Snapshots, NEW st \in Settings, NEW s \in ToSet(BuildOsdDisplayItems(snap, st)),
         ~(s \in FrameRates /\ s \in ToSet(st.pins))
  PROVE  s \in Sensors /\ IsSensorSelectedForOsd(s, st)
<1>1. /\ s \in Sensors
      /\ s \in RatesChosen(snap, st) \/ s \in ToSet(EasyItems(snap, st)) \/ s \in ToSet(st.pins)
  BY ItemElements DEF Readable
<1>2. CASE s \in RatesChosen(snap, st)
  BY <1>1, <1>2 DEF RatesChosen, IsSensorSelectedForOsd
<1>3. CASE s \in ToSet(EasyItems(snap, st))
  <2>1. st.easyOn /\ KindOf[s] \in st.easy
    BY <1>3, EasyElements
  <2>2. KindOf[s] \in Categories
    BY <2>1, SettingsFields
  <2> QED BY <1>1, <2>1, <2>2 DEF IsSensorSelectedForOsd, Categories
<1>4. CASE s \in ToSet(st.pins)
  <2>1. s \notin FrameRates
    BY <1>4
  <2>2. KindOf[s] # "fps" /\ KindOf[s] # "low" /\ KindOf[s] # "time"
    BY <1>1, <2>1 DEF FrameRates, Rates
  <2>3. Contains(st.pins, s)
    BY <1>4, SettingsFields, ListIsSeq, Elements
  <2> QED BY <1>1, <2>2, <2>3 DEF IsSensorSelectedForOsd
<1> QED BY <1>1, <1>2, <1>3, <1>4

LEMMA SelectedIfShown == ASSUME DialogIInv PROVE ShownIsSelected
<1> SUFFICES ASSUME NEW s \in ToSet(Items), s \notin PinnedRates
             PROVE  IsSensorSelectedForOsd(s, settings)
  BY DEF ShownIsSelected
<1>1. snapshot \in Snapshots /\ settings \in Settings
  BY TypedDialog
<1>2. s \in ToSet(BuildOsdDisplayItems(snapshot, settings)) /\ ~(s \in FrameRates /\ s \in ToSet(settings.pins))
  BY DEF Items, PinnedRates
<1> QED BY <1>1, <1>2, ShownSelected

(***************************************************************************)
(* The rows of the table.                                                     *)
(***************************************************************************)

TableRows == [section : ToSet(Sections), sensor : Sensors \cup {"header", "placeholder"}]

\* The rows that there may be.
RowsOf(snap) ==
    {Header(sec) : sec \in ToSet(Sections)} \cup {Row(Head(Sections), "placeholder")}
    \cup {Row(SectionOf[s], s) : s \in ToSet(Ids(snap))}

\* A header is of a collapsed section, or a row of its section follows.
Followed(rows, collapsed) ==
    \A i \in 1..Len(rows) : rows[i].sensor = "header" =>
        \/ rows[i].section \in collapsed
        \/ i < Len(rows) /\ rows[i + 1].section = rows[i].section

LEMMA ListedElements ==
  ASSUME NEW snap \in Snapshots, NEW st, NEW sec, NEW only
  PROVE  /\ Listed(snap, st, sec, only) \in Seq(Sensors) /\ IsInjective(Listed(snap, st, sec, only))
         /\ \A s \in ToSet(Listed(snap, st, sec, only)) : s \in ToSet(Ids(snap)) /\ SectionOf[s] = sec
         /\ ~only => \A s \in ToSet(Ids(snap)) : SectionOf[s] = sec => s \in ToSet(Listed(snap, st, sec, only))
<1> DEFINE ids == Ids(snap)
           A == {s \in Sensors : SectionOf[s] = sec /\ (only => Contains(st.favs, s))}
           l == Listed(snap, st, sec, only)
<1>1. ids \in Seq(Sensors) /\ IsInjective(ids) /\ ToSet(ids) \subseteq Sensors
  <2>1. ids \in Seq(Sensors) /\ IsInjective(ids)
    BY SnapshotIds
  <2> HIDE DEF ids
  <2> QED BY <2>1, Elements
<1>2. l = Kept(ids, A)
  BY DEF Listed
<1>3. l \in Seq(Sensors) /\ IsInjective(l) /\ ToSet(l) = ToSet(ids) \cap A
  <2> HIDE DEF ids, A, l
  <2> QED BY <1>1, <1>2, KeptElements
<1> QED BY <1>1, <1>3

\* Rows of sensors of one section.
LEMMA SensorRows ==
  ASSUME NEW sec \in ToSet(Sections), NEW ids \in Seq(Sensors), IsInjective(ids)
  PROVE  LET r == [i \in DOMAIN ids |-> Row(sec, ids[i])]
         IN /\ r \in Seq(TableRows) /\ IsInjective(r) /\ Len(r) = Len(ids)
            /\ ToSet(r) = {Row(sec, s) : s \in ToSet(ids)}
<1> DEFINE r == [i \in DOMAIN ids |-> Row(sec, ids[i])]
<1>1. DOMAIN ids = 1..Len(ids) /\ Len(ids) \in Nat /\ \A i \in 1..Len(ids) : ids[i] \in Sensors
  OBVIOUS
<1>2. \A s \in Sensors : Row(sec, s) \in TableRows
  BY DEF Row, TableRows
<1>3. r \in [1..Len(ids) -> TableRows] /\ \A i \in 1..Len(ids) : r[i] = Row(sec, ids[i])
  BY <1>1, <1>2
<1>4. \A s, t : Row(sec, s) = Row(sec, t) => s = t
  BY DEF Row
<1> HIDE DEF r
<1>5. r \in Seq(TableRows) /\ Len(r) = Len(ids) /\ DOMAIN r = 1..Len(ids)
  BY <1>1, <1>3
<1>6. ASSUME NEW i \in 1..Len(ids), NEW j \in 1..Len(ids), r[i] = r[j] PROVE i = j
  <2>1. ids[i] = ids[j]
    BY <1>3, <1>4, <1>6
  <2> QED BY <1>1, <2>1 DEF IsInjective
<1>7. IsInjective(r)
  BY <1>5, <1>6 DEF IsInjective
<1>8. ToSet(r) = {Row(sec, s) : s \in ToSet(ids)}
  BY <1>1, <1>3, <1>5 DEF ToSet
<1> QED BY <1>5, <1>7, <1>8 DEF r

LEMMA SectionElements ==
  ASSUME NEW snap \in Snapshots, NEW st, NEW sec \in ToSet(Sections), NEW collapsed, NEW only
  PROVE  LET rows == SectionRows(snap, st, sec, collapsed, only)
         IN /\ rows \in Seq(TableRows) /\ IsInjective(rows) /\ ToSet(rows) \subseteq RowsOf(snap)
            /\ \A r \in ToSet(rows) : r.section = sec
            /\ Followed(rows, collapsed)
            /\ (~only /\ sec \notin collapsed) =>
                  \A s \in ToSet(Ids(snap)) : SectionOf[s] = sec => Row(sec, s) \in ToSet(rows)
<1> DEFINE rows == SectionRows(snap, st, sec, collapsed, only)
           ids == Listed(snap, st, sec, only)
           ph == Placeholder(snap, sec)
           h == <<Header(sec)>>
           p == <<Row(sec, "placeholder")>>
           l == [i \in DOMAIN ids |-> Row(sec, ids[i])]
           below == IF sec \in collapsed THEN <<>> ELSE IF ph THEN p ELSE l
<1>1. /\ ids \in Seq(Sensors) /\ IsInjective(ids)
      /\ \A s \in ToSet(ids) : s \in ToSet(Ids(snap)) /\ SectionOf[s] = sec
      /\ ~only => \A s \in ToSet(Ids(snap)) : SectionOf[s] = sec => s \in ToSet(ids)
  BY ListedElements
<1>2. ph => sec = Head(Sections) /\ \A s \in ToSet(Ids(snap)) : SectionOf[s] # sec
  BY SnapshotIds DEF Placeholder, ToSet
<1>3. rows = IF ids = <<>> /\ ~ph THEN <<>> ELSE h \o below
  BY DEF SectionRows
<1>4. l \in Seq(TableRows) /\ IsInjective(l) /\ Len(l) = Len(ids) /\ ToSet(l) = {Row(sec, s) : s \in ToSet(ids)}
  <2> HIDE DEF ids
  <2> QED BY <1>1, SensorRows
<1>5. /\ h \in Seq(TableRows) /\ IsInjective(h) /\ Len(h) = 1 /\ ToSet(h) = {Header(sec)} /\ h[1] = Header(sec)
      /\ p \in Seq(TableRows) /\ IsInjective(p) /\ Len(p) = 1 /\ ToSet(p) = {Row(sec, "placeholder")}
  <2>1. Header(sec) \in TableRows /\ Row(sec, "placeholder") \in TableRows
    BY DEF Header, Row, TableRows
  <2>2. \A x \in TableRows : <<x>> \in Seq(TableRows) /\ Len(<<x>>) = 1 /\ DOMAIN <<x>> = 1..1 /\ <<x>>[1] = x
    OBVIOUS
  <2>3. \A x \in TableRows : IsInjective(<<x>>) /\ ToSet(<<x>>) = {x}
    BY <2>2 DEF IsInjective, ToSet
  <2> QED BY <2>1, <2>2, <2>3
<1>6. /\ <<>> \in Seq(TableRows) /\ IsInjective(<<>>) /\ Len(<<>>) = 0 /\ ToSet(<<>>) = {}
  BY DEF IsInjective, ToSet
<1>7. /\ Header(sec).section = sec /\ Header(sec).sensor = "header"
      /\ \A s : Row(sec, s).section = sec /\ Row(sec, s).sensor = s
  BY DEF Header, Row
<1>8. "header" \notin Sensors /\ ToSet(ids) \subseteq Sensors
  BY <1>1, DisplayAssumption DEF ToSet
<1>9. /\ Header(sec) \in RowsOf(snap)
      /\ ph => Row(sec, "placeholder") \in RowsOf(snap)
      /\ \A s \in ToSet(ids) : Row(sec, s) \in RowsOf(snap)
  BY <1>1, <1>2 DEF RowsOf
<1> HIDE DEF rows, ids, ph, h, p, l
<1>10. /\ below \in Seq(TableRows) /\ IsInjective(below) /\ Header(sec) \notin ToSet(below)
       /\ ToSet(below) \subseteq RowsOf(snap) /\ \A r \in ToSet(below) : r.section = sec /\ r.sensor # "header"
  BY <1>4, <1>5, <1>6, <1>7, <1>8, <1>9
<1>11. (ids # <<>> \/ ph) /\ sec \notin collapsed => Len(below) # 0
  <2>1. ids # <<>> => Len(ids) # 0
    BY <1>1
  <2> QED BY <1>4, <1>5, <2>1
<1>12. CASE ids = <<>> /\ ~ph
  <2>1. rows = <<>> /\ ToSet(ids) = {}
    BY <1>3, <1>12 DEF ToSet
  <2>2. Followed(rows, collapsed)
    BY <1>6, <2>1 DEF Followed
  <2> QED BY <1>1, <1>6, <2>1, <2>2 DEF rows
<1>13. CASE ~(ids = <<>> /\ ~ph)
  <2>1. rows = h \o below
    BY <1>3, <1>13
  <2>2. (~only /\ sec \notin collapsed) =>
                  \A s \in ToSet(Ids(snap)) : SectionOf[s] = sec => Row(sec, s) \in ToSet(below)
    BY <1>1, <1>2, <1>4
  <2> HIDE DEF below
  <2>3. /\ rows \in Seq(TableRows) /\ IsInjective(rows) /\ ToSet(rows) = ToSet(h) \cup ToSet(below)
        /\ Len(rows) = 1 + Len(below)
    <3>1. ToSet(h) \cap ToSet(below) = {}
      BY <1>5, <1>10
    <3>2. h \in Seq(TableRows) /\ below \in Seq(TableRows) /\ IsInjective(h) /\ IsInjective(below)
      BY <1>5, <1>10
    <3>3. /\ h \o below \in Seq(TableRows) /\ IsInjective(h \o below)
          /\ ToSet(h \o below) = ToSet(h) \cup ToSet(below)
          /\ Len(h \o below) = Len(h) + Len(below)
      BY <3>1, <3>2, JoinedOnce
    <3> QED BY <1>5, <2>1, <3>3
  <2>4. \A r \in ToSet(rows) : r.section = sec
    BY <1>5, <1>7, <1>10, <2>3
  <2>5. Followed(rows, collapsed)
    <3> SUFFICES ASSUME NEW i \in 1..Len(rows), rows[i].sensor = "header", sec \notin collapsed
                 PROVE  i < Len(rows) /\ rows[i + 1].section = rows[i].section
      BY <2>3, <2>4 DEF Followed, ToSet
    <3>1. Len(below) \in Nat /\ Len(below) # 0
      BY <1>10, <1>11, <1>13
    <3>2. i = 1
      <4> SUFFICES ASSUME i # 1 PROVE FALSE
        OBVIOUS
      <4>1. i - 1 \in 1..Len(below) /\ rows[i] = below[i - 1]
        BY <1>5, <1>10, <2>1, <2>3, <3>1
      <4>2. rows[i] \in ToSet(below)
        BY <1>10, <4>1 DEF ToSet
      <4> QED BY <1>10, <4>2
    <3>3. 2 \in 1..Len(rows) /\ 1 \in 1..Len(rows)
      BY <2>3, <3>1
    <3>4. rows[1] \in ToSet(rows) /\ rows[2] \in ToSet(rows)
      BY <2>3, <3>3 DEF ToSet
    <3> QED BY <2>3, <2>4, <3>1, <3>2, <3>4
  <2>6. ToSet(rows) \subseteq RowsOf(snap)
    BY <1>5, <1>9, <1>10, <2>3
  <2>7. (~only /\ sec \notin collapsed) =>
                  \A s \in ToSet(Ids(snap)) : SectionOf[s] = sec => Row(sec, s) \in ToSet(rows)
    BY <2>2, <2>3
  <2> QED BY <2>3, <2>4, <2>5, <2>6, <2>7 DEF rows
<1> QED BY <1>12, <1>13

\* The view as it grows.
Viewing(view, snap, st, collapsed, only) ==
    view = [n \in 0..Len(Sections) |->
               IF n = 0 THEN <<>>
               ELSE view[n - 1] \o SectionRows(snap, st, Sections[n], collapsed, only)]

LEMMA SectionsListed ==
  /\ Sections \in Seq(ToSet(Sections)) /\ Len(Sections) \in Nat /\ Len(Sections) # 0
  /\ \A n \in 1..Len(Sections) : Sections[n] \in ToSet(Sections)
  /\ \A i, j \in 1..Len(Sections) : Sections[i] = Sections[j] => i = j
  /\ \A sec \in ToSet(Sections) : \E n \in 1..Len(Sections) : Sections[n] = sec
<1>1. Sections \in Seq(ToSet(Sections)) /\ Sections # <<>> /\ IsInjective(Sections)
  BY DisplayAssumption
<1>2. \A sec \in ToSet(Sections) : \E n \in 1..Len(Sections) : Sections[n] = sec
  BY <1>1 DEF ToSet
<1> DEFINE S == ToSet(Sections)
<1>3. Sections \in Seq(S)
  BY <1>1
<1> HIDE DEF S
<1> QED BY <1>1, <1>2, <1>3 DEF IsInjective, S

LEMMA ViewIsLoop ==
  ASSUME NEW snap \in Snapshots, NEW st, NEW collapsed, NEW only
  PROVE  \E f : /\ Viewing(f, snap, st, collapsed, only)
                /\ BuildSensorView(snap, st, collapsed, only) = f[Len(Sections)]
<1> DEFINE T == Seq(TableRows)
           m == Len(Sections)
           R(n) == SectionRows(snap, st, Sections[n], collapsed, only)
           g == [n \in 1..m |-> [q \in T |-> q \o R(n)]]
           e == <<>>
<1>1. m \in Nat /\ e \in T
  BY SectionsListed
<1>2. \A n \in 1..m : R(n) \in Seq(TableRows)
  <2> SUFFICES ASSUME NEW n \in 1..m PROVE R(n) \in Seq(TableRows)
    OBVIOUS
  <2> DEFINE sec == Sections[n]
  <2>1. sec \in ToSet(Sections)
    BY SectionsListed
  <2> HIDE DEF sec
  <2>2. SectionRows(snap, st, sec, collapsed, only) \in Seq(TableRows)
    BY <2>1, SectionElements
  <2> QED BY <2>2 DEF sec
<1> HIDE DEF m, R, e
<1>3. g \in [1..m -> [T -> T]]
  <2> SUFFICES ASSUME NEW n \in 1..m, NEW q \in T PROVE q \o R(n) \in T
    OBVIOUS
  <2> QED BY <1>2
<1>4. PICK f : Turns(f, T, e, m, g)
  <2> HIDE DEF g, T
  <2> QED BY <1>1, <1>3, Iteration
<1>5. Viewing(f, snap, st, collapsed, only)
  <2> DEFINE h == [n \in 0..m |-> IF n = 0 THEN e ELSE f[n - 1] \o R(n)]
  <2>1. ASSUME NEW n \in 0..m PROVE f[n] = h[n]
    <3>1. CASE n = 0
      BY <1>4, <3>1 DEF Turns
    <3>2. CASE n # 0
      <4>1. n \in 1..m /\ n - 1 \in 0..m
        BY <1>1, <3>2
      <4>2. f[n - 1] \in T
        BY <1>4, <4>1 DEF Turns
      <4>3. f[n] = g[n][f[n - 1]]
        BY <1>4, <4>1 DEF Turns
      <4>4. g[n][f[n - 1]] = f[n - 1] \o R(n)
        BY <4>1, <4>2
      <4> HIDE DEF g
      <4> QED BY <3>2, <4>3, <4>4
    <3> QED BY <3>1, <3>2
  <2>2. f = [n \in 0..m |-> f[n]]
    BY <1>4 DEF Turns
  <2> HIDE DEF h
  <2>3. f = h
    <3>1. h = [n \in 0..m |-> h[n]]
      BY DEF h
    <3> QED BY <2>1, <2>2, <3>1, Zenon
  <2> QED BY <2>3 DEF h, Viewing, m, R, e
<1> DEFINE c == CHOOSE q : Viewing(q, snap, st, collapsed, only)
<1>6. Viewing(c, snap, st, collapsed, only)
  BY <1>5, Zenon
<1>7. BuildSensorView(snap, st, collapsed, only) = c[Len(Sections)]
  BY DEF BuildSensorView, Viewing
<1> HIDE DEF c
<1> QED BY <1>6, <1>7

\* What holds of the rows of the first n sections.
RowsSoFar(rows, n, snap, collapsed, only) ==
    /\ rows \in Seq(TableRows) /\ IsInjective(rows) /\ ToSet(rows) \subseteq RowsOf(snap)
    /\ \A r \in ToSet(rows) : \E i \in 1..n : r.section = Sections[i]
    /\ Followed(rows, collapsed)
    /\ (~only /\ collapsed = {}) =>
          \A s \in ToSet(Ids(snap)), i \in 1..n :
             SectionOf[s] = Sections[i] => Row(Sections[i], s) \in ToSet(rows)

LEMMA JoinedFollowed ==
  ASSUME NEW S, NEW s \in Seq(S), NEW t \in Seq(S), NEW collapsed,
         Followed(s, collapsed), Followed(t, collapsed)
  PROVE  Followed(s \o t, collapsed)
<1> DEFINE u == s \o t
           l == Len(s)
<1>1. /\ Len(u) = l + Len(t) /\ l \in Nat /\ Len(t) \in Nat
      /\ \A i \in 1..l : u[i] = s[i]
      /\ \A i \in 1..Len(t) : u[l + i] = t[i]
  <2>1. Len(u) = l + Len(t) /\ l \in Nat /\ Len(t) \in Nat
    OBVIOUS
  <2>2. \A i \in 1..l : u[i] = s[i]
    OBVIOUS
  <2>3. ASSUME NEW i \in 1..Len(t) PROVE u[l + i] = t[i]
    <3>1. l + i \in 1..Len(u) /\ ~(l + i <= l) /\ l + i - l = i
      BY <2>1
    <3> QED BY <3>1
  <2> QED BY <2>1, <2>2, <2>3
<1> HIDE DEF u, l
<1>2. ASSUME NEW i \in 1..Len(u), u[i].sensor = "header", u[i].section \notin collapsed
      PROVE  i < Len(u) /\ u[i + 1].section = u[i].section
  <2>1. CASE i <= l
    <3>1. i \in 1..l /\ u[i] = s[i]
      BY <1>1, <2>1
    <3>2. i < l /\ s[i + 1].section = s[i].section
      BY <1>2, <3>1 DEF Followed, l
    <3>3. i + 1 \in 1..l
      BY <1>1, <3>1, <3>2
    <3>4. u[i + 1] = s[i + 1]
      BY <1>1, <3>3
    <3> QED BY <1>1, <3>1, <3>2, <3>4
  <2>2. CASE ~(i <= l)
    <3> DEFINE k == i - l
    <3>1. k \in 1..Len(t) /\ l + k = i
      BY <1>1, <2>2
    <3> HIDE DEF k
    <3>2. u[i] = t[k]
      BY <1>1, <3>1
    <3>3. k < Len(t) /\ t[k + 1].section = t[k].section
      BY <1>2, <3>1, <3>2 DEF Followed
    <3> DEFINE m == k + 1
    <3>4. m \in 1..Len(t) /\ l + m = i + 1
      BY <1>1, <3>1, <3>3
    <3>5. t[m].section = t[k].section
      BY <3>3
    <3> HIDE DEF m
    <3>6. u[i + 1] = t[m]
      BY <1>1, <3>4
    <3>7. i < Len(u)
      BY <1>1, <3>1, <3>3
    <3> QED BY <3>2, <3>5, <3>6, <3>7
  <2> QED BY <2>1, <2>2
<1> QED BY <1>2 DEF Followed, u

LEMMA RowsGrow ==
  ASSUME NEW snap \in Snapshots, NEW st, NEW collapsed, NEW only,
         NEW n \in Nat, n + 1 <= Len(Sections),
         NEW rows, RowsSoFar(rows, n, snap, collapsed, only)
  PROVE  RowsSoFar(rows \o SectionRows(snap, st, Sections[n + 1], collapsed, only), n + 1,
                   snap, collapsed, only)
<1> DEFINE k == n + 1
           sec == Sections[k]
           t == SectionRows(snap, st, sec, collapsed, only)
           new == rows \o t
<1>1. k \in 1..Len(Sections) /\ sec \in ToSet(Sections)
  BY SectionsListed
<1>2. \A i \in 1..n : i \in 1..Len(Sections) /\ i \in 1..k /\ i # k
  BY SectionsListed
<1>3. \A i \in 1..k : i \in 1..n \/ i = k
  OBVIOUS
<1>4. \A i \in 1..n : Sections[i] # sec
  BY <1>1, <1>2, SectionsListed
<1> HIDE DEF sec
<1>5. /\ t \in Seq(TableRows) /\ IsInjective(t) /\ ToSet(t) \subseteq RowsOf(snap)
      /\ \A r \in ToSet(t) : r.section = sec
      /\ Followed(t, collapsed)
      /\ (~only /\ sec \notin collapsed) =>
            \A s \in ToSet(Ids(snap)) : SectionOf[s] = sec => Row(sec, s) \in ToSet(t)
  BY <1>1, SectionElements
<1> HIDE DEF t, k
<1>6. rows \in Seq(TableRows) /\ IsInjective(rows) /\ ToSet(rows) \subseteq RowsOf(snap)
      /\ Followed(rows, collapsed)
  BY DEF RowsSoFar
<1>7. ToSet(rows) \cap ToSet(t) = {}
  BY <1>4, <1>5 DEF RowsSoFar
<1>8. /\ new \in Seq(TableRows) /\ IsInjective(new)
      /\ ToSet(new) = ToSet(rows) \cup ToSet(t)
  BY <1>5, <1>6, <1>7, JoinedOnce
<1>9. Followed(new, collapsed)
  BY <1>5, <1>6, JoinedFollowed
<1> HIDE DEF new
<1>10. k \in 1..k
  BY <1>1
<1>11. \A r \in ToSet(new) : \E i \in 1..k : r.section = Sections[i]
  BY <1>2, <1>5, <1>8, <1>10 DEF RowsSoFar, sec
<1>12. ASSUME ~only, collapsed = {}, NEW s \in ToSet(Ids(snap)), NEW i \in 1..k,
              SectionOf[s] = Sections[i]
       PROVE  Row(Sections[i], s) \in ToSet(new)
  BY <1>3, <1>5, <1>8, <1>12 DEF RowsSoFar, sec
<1>13. RowsSoFar(new, k, snap, collapsed, only)
  BY <1>5, <1>6, <1>8, <1>9, <1>11, <1>12 DEF RowsSoFar
<1> QED BY <1>13 DEF new, t, sec, k

LEMMA ViewElements ==
  ASSUME NEW snap \in Snapshots, NEW st, NEW collapsed, NEW only
  PROVE  RowsSoFar(BuildSensorView(snap, st, collapsed, only), Len(Sections), snap, collapsed, only)
<1>1. PICK f : /\ Viewing(f, snap, st, collapsed, only)
               /\ BuildSensorView(snap, st, collapsed, only) = f[Len(Sections)]
  BY ViewIsLoop
<1> DEFINE I == {n \in Nat : n <= Len(Sections) => RowsSoFar(f[n], n, snap, collapsed, only)}
<1>2. Len(Sections) \in Nat
  BY SectionsListed
<1>3. /\ f[0] = <<>>
      /\ \A n \in 1..Len(Sections) :
            f[n] = f[n - 1] \o SectionRows(snap, st, Sections[n], collapsed, only)
  <2>1. 0 \in 0..Len(Sections) /\ \A n \in 1..Len(Sections) : n \in 0..Len(Sections) /\ n # 0
    BY <1>2
  <2> QED BY <1>1, <2>1 DEF Viewing
<1>4. 0 \in I
  <2>1. <<>> \in Seq(TableRows) /\ IsInjective(<<>>) /\ ToSet(<<>>) = {} /\ Len(<<>>) = 0
    BY DEF IsInjective, ToSet
  <2>2. \A i \in 1..0 : FALSE
    OBVIOUS
  <2>3. Followed(<<>>, collapsed)
    BY <2>1, <2>2 DEF Followed
  <2>4. RowsSoFar(<<>>, 0, snap, collapsed, only)
    BY <2>1, <2>2, <2>3 DEF RowsSoFar
  <2> QED BY <1>3, <2>4
<1>5. ASSUME NEW n \in I PROVE n + 1 \in I
  <2>1. n \in Nat /\ (n <= Len(Sections) => RowsSoFar(f[n], n, snap, collapsed, only))
    OBVIOUS
  <2> SUFFICES ASSUME n + 1 <= Len(Sections) PROVE RowsSoFar(f[n + 1], n + 1, snap, collapsed, only)
    BY <2>1
  <2>2. n + 1 \in 1..Len(Sections) /\ (n + 1) - 1 = n /\ RowsSoFar(f[n], n, snap, collapsed, only)
    BY <1>2, <2>1
  <2>3. f[n + 1] = f[n] \o SectionRows(snap, st, Sections[n + 1], collapsed, only)
    BY <1>3, <2>2
  <2>4. RowsSoFar(f[n] \o SectionRows(snap, st, Sections[n + 1], collapsed, only), n + 1,
                  snap, collapsed, only)
    BY <2>1, <2>2, RowsGrow
  <2> QED BY <2>3, <2>4
<1>6. I = Nat
  <2>1. I \in SUBSET Nat
    OBVIOUS
  <2> HIDE DEF I
  <2> QED BY <1>4, <1>5, <2>1, SetInduction
<1> QED BY <1>1, <1>2, <1>6

\* Rows that are all different are no more than there may be.
LEMMA RowsFit ==
  ASSUME NEW snap \in Snapshots, NEW rows \in Seq(TableRows), IsInjective(rows),
         ToSet(rows) \subseteq RowsOf(snap)
  PROVE  Len(rows) <= Len(snap) + Len(Sections) + 1
<1> DEFINE V == RowsOf(snap)
           a == Len(Sections)
           b == Len(snap)
           n == b + a + 1
           ids == Ids(snap)
           h == [i \in 1..n |-> IF i <= a THEN Header(Sections[i])
                                ELSE IF i = a + 1 THEN Row(Head(Sections), "placeholder")
                                ELSE Row(SectionOf[ids[i - a - 1]], ids[i - a - 1])]
<1>1. /\ a \in Nat /\ b \in Nat /\ n \in Nat /\ a # 0
      /\ \A i \in 1..a : Sections[i] \in ToSet(Sections)
      /\ \A sec \in ToSet(Sections) : \E i \in 1..a : Sections[i] = sec
  BY SectionsListed, SnapshotIds
<1>2. /\ \A i \in 1..b : ids[i] \in ToSet(ids)
      /\ \A s \in ToSet(ids) : \E i \in 1..b : ids[i] = s
  BY SnapshotIds DEF ToSet
<1> HIDE DEF a, b, ids
<1>3. h \in Surjection(1..n, V)
  <2>1. ASSUME NEW i \in 1..n PROVE h[i] \in V
    <3>1. CASE i <= a
      BY <1>1, <3>1 DEF RowsOf
    <3>2. CASE i = a + 1
      BY <1>1, <3>2 DEF RowsOf
    <3>3. CASE i > a + 1
      <4>1. i - a - 1 \in 1..b
        BY <1>1, <3>3
      <4>2. ids[i - a - 1] \in ToSet(ids)
        BY <1>2, <4>1
      <4>3. h[i] = Row(SectionOf[ids[i - a - 1]], ids[i - a - 1])
        BY <1>1, <3>3
      <4> QED BY <4>2, <4>3 DEF RowsOf, ids
    <3> QED BY <1>1, <3>1, <3>2, <3>3
  <2>2. ASSUME NEW v \in V PROVE \E i \in 1..n : h[i] = v
    <3>1. ASSUME NEW sec \in ToSet(Sections), v = Header(sec) PROVE \E i \in 1..n : h[i] = v
      <4>1. PICK i \in 1..a : Sections[i] = sec
        BY <1>1
      <4>2. i \in 1..n /\ i <= a
        BY <1>1
      <4>3. h[i] = Header(Sections[i])
        BY <4>2
      <4> QED BY <3>1, <4>1, <4>2, <4>3
    <3>2. ASSUME v = Row(Head(Sections), "placeholder") PROVE \E i \in 1..n : h[i] = v
      <4>1. a + 1 \in 1..n /\ ~(a + 1 <= a)
        BY <1>1
      <4>2. h[a + 1] = Row(Head(Sections), "placeholder")
        BY <4>1
      <4> QED BY <3>2, <4>1, <4>2
    <3>3. ASSUME NEW s \in ToSet(ids), v = Row(SectionOf[s], s) PROVE \E i \in 1..n : h[i] = v
      <4>1. PICK i \in 1..b : ids[i] = s
        BY <1>2
      <4> DEFINE j == i + a + 1
      <4>2. j \in 1..n /\ ~(j <= a) /\ j # a + 1 /\ j - a - 1 = i
        BY <1>1
      <4> HIDE DEF j
      <4>3. h[j] = Row(SectionOf[ids[i]], ids[i])
        BY <4>2
      <4> QED BY <3>3, <4>1, <4>2, <4>3
    <3> QED BY <3>1, <3>2, <3>3 DEF RowsOf, ids
  <2>3. h = [i \in 1..n |-> h[i]]
    OBVIOUS
  <2> HIDE DEF h, V
  <2> QED BY <2>1, <2>2, <2>3 DEF Surjection
<1> HIDE DEF h, V
<1>4. IsFiniteSet(1..n) /\ Cardinality(1..n) = n
  <2> HIDE DEF n
  <2>1. 1 \in Int /\ n \in Int
    BY <1>1
  <2>2. Cardinality(1..n) = IF 1 > n THEN 0 ELSE n - 1 + 1
    BY <2>1, FS_Interval
  <2>3. IsFiniteSet(1..n)
    BY <2>1, FS_Interval
  <2> QED BY <1>1, <2>2, <2>3
<1>5. IsFiniteSet(V) /\ Cardinality(V) <= n
  <2> HIDE DEF n
  <2> QED BY <1>3, <1>4, FS_Surjection
<1> DEFINE l == Len(rows)
<1>6. l \in Nat /\ rows \in [1..l -> V]
  <2>1. rows \in Seq(V)
    BY TypeOfElements DEF V
  <2> QED BY <2>1
<1>7. rows \in Injection(1..l, V)
  <2>1. DOMAIN rows = 1..l
    BY <1>6
  <2> QED BY <1>6, <2>1 DEF Injection
<1> HIDE DEF l
<1>8. Cardinality(1..l) <= Cardinality(V)
  BY <1>5, <1>7, FS_Injection
<1>9. Cardinality(1..l) = l
  <2>1. 1 \in Int /\ l \in Int
    BY <1>6
  <2>2. Cardinality(1..l) = IF 1 > l THEN 0 ELSE l - 1 + 1
    BY <2>1, FS_Interval
  <2> QED BY <1>6, <2>2
<1>10. Cardinality(V) \in Nat
  BY <1>5, FS_CardinalityType
<1>11. l <= n
  BY <1>1, <1>5, <1>6, <1>8, <1>9, <1>10
<1> QED BY <1>11 DEF l, n, a, b

LEMMA RowForEach == ASSUME DialogIInv PROVE EverySensorHasARow
<1> DEFINE rows == BuildSensorView(snapshot, settings, {}, FALSE)
           Of(s) == {i \in DOMAIN rows : rows[i].sensor = s}
           View(c) == BuildSensorView(snapshot, settings, c, TRUE)
<1>1. snapshot \in Snapshots
  BY TypedDialog
<1>2. RowsSoFar(rows, Len(Sections), snapshot, {}, FALSE)
  BY <1>1, ViewElements
<1>3. ASSUME NEW i \in DOMAIN snapshot PROVE Cardinality(Of(snapshot[i].id)) = 1
  <2> DEFINE s == snapshot[i].id
             sec == SectionOf[s]
  <2>1. s \in ToSet(Ids(snapshot)) /\ s \in Sensors
    BY <1>1, SnapshotIds DEF ToSet
  <2>2. sec \in ToSet(Sections) /\ "header" \notin Sensors /\ "placeholder" \notin Sensors
    BY <2>1, DisplayAssumption
  <2>3. PICK n \in 1..Len(Sections) : Sections[n] = sec
    BY <2>2, SectionsListed
  <2> HIDE DEF rows, s
  <2>4. Row(sec, s) \in ToSet(rows)
    BY <1>2, <2>1, <2>3 DEF RowsSoFar
  <2>5. PICK k \in 1..Len(rows) : rows[k] = Row(sec, s)
    BY <1>2, <2>4 DEF RowsSoFar, ToSet
  <2>6. DOMAIN rows = 1..Len(rows) /\ IsInjective(rows) /\ ToSet(rows) \subseteq RowsOf(snapshot)
    BY <1>2 DEF RowsSoFar
  <2>7. k \in Of(s)
    BY <2>5, <2>6 DEF Row
  <2>8. ASSUME NEW j \in Of(s) PROVE j = k
    <3>1. j \in 1..Len(rows) /\ rows[j].sensor = s /\ rows[j] \in RowsOf(snapshot)
      BY <2>6 DEF ToSet
    <3>2. rows[j] = Row(sec, s)
      BY <2>1, <2>2, <3>1 DEF RowsOf, Row, Header
    <3> QED BY <2>5, <2>6, <3>1, <3>2 DEF IsInjective
  <2>9. Of(s) = {k}
    BY <2>7, <2>8
  <2> HIDE DEF Of
  <2>10. Cardinality(Of(s)) = 1
    BY <2>9, FS_Singleton
  <2> QED BY <2>10 DEF s
<1>4. ASSUME NEW c PROVE
        /\ Len(View(c)) <= Len(snapshot) + Len(Sections) + 1
        /\ \A i \in DOMAIN View(c) : View(c)[i].sensor = "header" =>
              \/ View(c)[i].section \in c
              \/ i < Len(View(c)) /\ View(c)[i + 1].section = View(c)[i].section
  <2> DEFINE v == View(c)
  <2>1. RowsSoFar(v, Len(Sections), snapshot, c, TRUE)
    BY <1>1, ViewElements
  <2> HIDE DEF v
  <2>2. v \in Seq(TableRows) /\ IsInjective(v) /\ ToSet(v) \subseteq RowsOf(snapshot) /\ Followed(v, c)
    BY <2>1 DEF RowsSoFar
  <2>3. Len(v) <= Len(snapshot) + Len(Sections) + 1
    BY <1>1, <2>2, RowsFit
  <2>4. \A i \in DOMAIN v : v[i].sensor = "header" =>
           v[i].section \in c \/ (i < Len(v) /\ v[i + 1].section = v[i].section)
    BY <2>2 DEF Followed
  <2> QED BY <2>3, <2>4 DEF v
<1> HIDE DEF rows, View
<1> QED BY <1>3, <1>4 DEF EverySensorHasARow, rows, View

(* Whatever the user and the providers do, and for every layout of sensors, the     *)
(* views agree with one another and with the user's choices (osd_model.cpp:69-170,  *)
(* sensor_view_model.cpp:98-163, tray_panel_window.cpp:133-153).                      *)
THEOREM DisplayConsistency == DialogSpec => []DisplayIsConsistent
<1>1. DialogIInv => DisplayIsConsistent
  <2>1. DialogIInv => UnstarredStays
    BY DEF DialogIInv, WindowOK, StarsGone, UnstarredStays
  <2> QED BY <2>1, ShownOnce, SelectedIfShown, RowForEach DEF DisplayIsConsistent
<1> QED BY <1>1, DialogInvariance, PTL

(***************************************************************************)
(* Clicks, and what is saved.                                                 *)
(***************************************************************************)

\* What a click makes of the settings.
TurnedOff(s, st, new) ==
    /\ new.easyOn = st.easyOn
    /\ s \in FrameRates => new.pins = st.pins /\ new.easy = st.easy
    /\ KindOf[s] = "fps" => new.fps = FALSE
    /\ KindOf[s] = "low" => new.low = FALSE
    /\ KindOf[s] = "time" => new.graph = FALSE
    /\ s \notin FrameRates => s \notin ToSet(new.pins) /\ (st.easyOn => KindOf[s] \notin new.easy)
TurnedOn(s, st, new) ==
    /\ s \in FrameRates => new.pins = st.pins
    /\ KindOf[s] = "fps" => new.fps = TRUE
    /\ KindOf[s] = "low" => new.low = TRUE /\ new.fps = st.fps
    /\ KindOf[s] = "time" => new.graph = TRUE /\ new.sources = {s}
    /\ s \notin FrameRates => Len(st.pins) = MaxIds \/ s \in ToSet(new.pins)

LEMMA SelectedFields ==
  ASSUME NEW s \in Sensors, NEW st \in Settings
  PROVE  /\ TurnedOff(s, st, SetSensorSelectedForOsd(s, st, FALSE))
         /\ TurnedOn(s, st, SetSensorSelectedForOsd(s, st, TRUE))
<1> DEFINE easy == IF st.easyOn THEN st.easy \ {KindOf[s]} ELSE st.easy
           removed == RemoveId(st.pins, s)
           added == AddId(st.pins, s)
           off == SetSensorSelectedForOsd(s, st, FALSE)
           on == SetSensorSelectedForOsd(s, st, TRUE)
<1>1. ToSet(removed) = ToSet(st.pins) \ {s} /\ (Len(st.pins) # MaxIds => s \in ToSet(added))
  BY SettingsFields, AddIdElements, RemoveIdElements
<1>2. st.easyOn => KindOf[s] \notin easy
  OBVIOUS
<1>3. s \in FrameRates <=> KindOf[s] \in {"fps", "low", "time"}
  BY DEF FrameRates, Rates
<1>4. off = IF KindOf[s] = "fps" THEN [st EXCEPT !.fps = FALSE]
            ELSE IF KindOf[s] = "low" THEN [st EXCEPT !.low = FALSE]
            ELSE IF KindOf[s] = "time" THEN [st EXCEPT !.graph = FALSE, !.sources = {s}]
            ELSE [st EXCEPT !.pins = removed, !.easy = easy]
  BY DEF SetSensorSelectedForOsd, Rates
<1>5. on = IF KindOf[s] = "fps" THEN [st EXCEPT !.fps = TRUE]
           ELSE IF KindOf[s] = "low" THEN [st EXCEPT !.low = TRUE]
           ELSE IF KindOf[s] = "time" THEN [st EXCEPT !.graph = TRUE, !.sources = {s}]
           ELSE [st EXCEPT !.pins = added]
  BY DEF SetSensorSelectedForOsd, Rates
<1> HIDE DEF easy, removed, added, off, on
<1>6. CASE KindOf[s] = "fps"
  <2>1. off = [st EXCEPT !.fps = FALSE] /\ on = [st EXCEPT !.fps = TRUE]
    BY <1>4, <1>5, <1>6
  <2>2. /\ off.fps = FALSE /\ off.pins = st.pins /\ off.easy = st.easy /\ off.easyOn = st.easyOn
        /\ on.fps = TRUE /\ on.pins = st.pins
    BY <2>1 DEF Settings
  <2>3. TurnedOff(s, st, off) /\ TurnedOn(s, st, on)
    BY <1>3, <1>6, <2>2 DEF TurnedOff, TurnedOn
  <2> QED BY <2>3 DEF off, on
<1>7. CASE KindOf[s] = "low"
  <2>1. off = [st EXCEPT !.low = FALSE] /\ on = [st EXCEPT !.low = TRUE]
    BY <1>4, <1>5, <1>7
  <2>2. off.low = FALSE /\ off.pins = st.pins /\ off.easy = st.easy /\ off.easyOn = st.easyOn
        /\ on.low = TRUE /\ on.fps = st.fps /\ on.pins = st.pins
    BY <2>1 DEF Settings
  <2>3. TurnedOff(s, st, off) /\ TurnedOn(s, st, on)
    BY <1>3, <1>7, <2>2 DEF TurnedOff, TurnedOn
  <2> QED BY <2>3 DEF off, on
<1>8. CASE KindOf[s] = "time"
  <2>1. off = [st EXCEPT !.graph = FALSE, !.sources = {s}] /\ on = [st EXCEPT !.graph = TRUE, !.sources = {s}]
    BY <1>4, <1>5, <1>8
  <2>2. off.graph = FALSE /\ off.pins = st.pins /\ off.easy = st.easy /\ off.easyOn = st.easyOn
        /\ on.graph = TRUE /\ on.sources = {s} /\ on.pins = st.pins
    BY <2>1 DEF Settings
  <2>3. TurnedOff(s, st, off) /\ TurnedOn(s, st, on)
    BY <1>3, <1>8, <2>2 DEF TurnedOff, TurnedOn
  <2> QED BY <2>3 DEF off, on
<1>9. CASE KindOf[s] \notin {"fps", "low", "time"}
  <2>1. off = [st EXCEPT !.pins = removed, !.easy = easy] /\ on = [st EXCEPT !.pins = added]
    BY <1>4, <1>5, <1>9
  <2>2. off.pins = removed /\ off.easy = easy /\ off.easyOn = st.easyOn /\ on.pins = added
    BY <2>1 DEF Settings
  <2>3. TurnedOff(s, st, off)
    BY <1>1, <1>2, <1>3, <1>9, <2>2 DEF TurnedOff
  <2>4. TurnedOn(s, st, on)
    BY <1>1, <1>3, <1>9, <2>2 DEF TurnedOn
  <2> QED BY <2>3, <2>4 DEF off, on
<1> QED BY <1>6, <1>7, <1>8, <1>9

\* What a click on s makes of the display, stated of a step.
Toggled(s) ==
    LET items == BuildOsdDisplayItems(snapshot', settings')
        selected == IsSensorSelectedForOsd(s, settings)
    IN IF KindOf[s] = "time"
         THEN /\ ~Contains(items, s)
              /\ selected <=> ~(settings'.graph /\ s \in settings'.sources)
       ELSE IF selected THEN ~Contains(items, s)
       ELSE \/ Contains(items, s) \/ ~Present(snapshot', s)
            \/ Len(settings.pins) = MaxIds
            \/ KindOf[s] = "low" /\ ~settings.fps

LEMMA ClickResult ==
  ASSUME DialogIInv, NEW s \in Sensors, s \notin PinnedRates, ClickOsd(s), snapshot' \in Snapshots,
         settings' \in Settings
  PROVE  Toggled(s)
<1> DEFINE snap == snapshot'
           new == settings'
           items == BuildOsdDisplayItems(snap, new)
           sel == IsSensorSelectedForOsd(s, settings)
<1>1. settings \in Settings /\ snap \in Snapshots /\ new \in Settings
  BY TypedDialog
<1>2. Contains(Ids(snap), s) /\ new = SetSensorSelectedForOsd(s, settings, ~sel)
  BY DEF ClickOsd
<1>3. s \in ToSet(Ids(snap))
  BY <1>1, <1>2, SnapshotIds, Elements
<1>4. s \in FrameRates => s \notin ToSet(settings.pins)
  BY DEF PinnedRates
<1>5. s \in FrameRates <=> KindOf[s] \in {"fps", "low", "time"}
  BY DEF FrameRates, Rates
<1>6. new.easy \subseteq Categories
  BY <1>1, SettingsFields
<1>7. KindOf[s] = "time" => (sel <=> settings.graph /\ s \in settings.sources)
  BY DEF IsSensorSelectedForOsd
<1>8. sel \in BOOLEAN
  BY <1>1, SettingsFields DEF IsSensorSelectedForOsd, Contains
<1>9. Toggled(s) <=>
        IF KindOf[s] = "time" THEN ~Contains(items, s) /\ (sel <=> ~(new.graph /\ s \in new.sources))
        ELSE IF sel THEN ~Contains(items, s)
        ELSE \/ Contains(items, s) \/ ~Present(snap, s) \/ Len(settings.pins) = MaxIds
             \/ KindOf[s] = "low" /\ ~settings.fps
  BY DEF Toggled
<1> HIDE DEF snap, new
<1>10. /\ items \in Seq(Sensors)
       /\ ToSet(items) = Readable(snap) \cap (RatesChosen(snap, new) \cup ToSet(EasyItems(snap, new))
                                              \cup ToSet(new.pins))
  BY <1>1, ItemElements DEF Lists
<1>11. s \in ToSet(EasyItems(snap, new)) => new.easyOn /\ KindOf[s] \in new.easy
  BY <1>1, EasyElements
<1> HIDE DEF items, sel
<1>12. Contains(items, s) <=> s \in ToSet(items)
  BY <1>10, Elements
<1>13. (sel => TurnedOff(s, settings, new)) /\ (~sel => TurnedOn(s, settings, new))
  <2>1. CASE sel
    <3>1. new = SetSensorSelectedForOsd(s, settings, FALSE)
      BY <1>2, <2>1
    <3> QED BY <1>1, <2>1, <3>1, SelectedFields
  <2>2. CASE ~sel
    <3>1. new = SetSensorSelectedForOsd(s, settings, TRUE)
      BY <1>2, <2>2
    <3> QED BY <1>1, <2>2, <3>1, SelectedFields
  <2> QED BY <1>8, <2>1, <2>2
<1>14. CASE KindOf[s] = "time"
  <2>1. s \in FrameRates /\ new.pins = settings.pins
    BY <1>5, <1>8, <1>13, <1>14 DEF TurnedOff, TurnedOn
  <2>2. s \notin RatesChosen(snap, new) /\ s \notin ToSet(new.pins)
    BY <1>4, <1>14, <2>1 DEF RatesChosen
  <2>3. s \notin ToSet(EasyItems(snap, new))
    BY <1>6, <1>11, <1>14 DEF Categories
  <2>4. ~Contains(items, s)
    BY <1>10, <1>12, <2>2, <2>3
  <2>5. sel <=> ~(new.graph /\ s \in new.sources)
    BY <1>8, <1>13, <1>14 DEF TurnedOff, TurnedOn
  <2> QED BY <1>9, <1>14, <2>4, <2>5
<1>15. CASE sel /\ KindOf[s] # "time"
  <2>1. TurnedOff(s, settings, new)
    BY <1>13, <1>15
  <2>2. s \notin RatesChosen(snap, new)
    BY <1>5, <1>15, <2>1 DEF RatesChosen, TurnedOff
  <2>3. s \notin ToSet(EasyItems(snap, new))
    BY <1>5, <1>6, <1>11, <2>1 DEF TurnedOff, Categories
  <2>4. s \notin ToSet(new.pins)
    BY <1>4, <1>5, <2>1 DEF TurnedOff
  <2>5. ~Contains(items, s)
    BY <1>10, <1>12, <2>2, <2>3, <2>4
  <2> QED BY <1>9, <1>15, <2>5
<1>16. CASE ~sel /\ KindOf[s] # "time"
  <2>1. TurnedOn(s, settings, new)
    BY <1>13, <1>16
  <2>2. ASSUME Present(snap, s), Len(settings.pins) # MaxIds, ~(KindOf[s] = "low" /\ ~settings.fps)
        PROVE  s \in ToSet(items)
    <3>1. s \in Readable(snap)
      BY <2>2 DEF Readable
    <3>2. s \in RatesChosen(snap, new) \/ s \in ToSet(new.pins)
      BY <1>3, <1>5, <1>16, <2>1, <2>2 DEF RatesChosen, TurnedOn
    <3> QED BY <1>10, <3>1, <3>2
  <2> QED BY <1>9, <1>12, <1>16, <2>2
<1> QED BY <1>8, <1>14, <1>15, <1>16

(* A click takes a selected sensor off the display and puts any other on it, but    *)
(* for a full list of pins and the 1% low without the frame rate, whatever the      *)
(* settings and the dialogs that are open; the frame time's row switches the graph    *)
(* of it, and puts nothing on the list (osd_model.cpp:153-197,                         *)
(* native_window.cpp:1164-1170).                                                       *)
THEOREM ClicksToggle == DialogSpec => ClickToggles
<1>1. ASSUME DialogIInv, DialogIInv', [DialogNext]_dialogVars
      PROVE  \A s \in Sensors \ PinnedRates : ClickOsd(s) => Toggled(s)
  <2>1. snapshot' \in Layouts /\ settings' \in Settings
    BY <1>1 DEF DialogIInv, WindowOK
  <2>2. snapshot' \in Snapshots
    BY <2>1, LayoutIsSnapshot
  <2> QED BY <1>1, <2>1, <2>2, ClickResult
<1>2. ASSUME DialogIInv, DialogIInv', [DialogNext]_dialogVars
      PROVE  [\A s \in Sensors \ PinnedRates : ClickOsd(s) =>
          LET items == BuildOsdDisplayItems(snapshot', settings')
              selected == IsSensorSelectedForOsd(s, settings)
          IN IF KindOf[s] = "time"
               THEN /\ ~Contains(items, s)
                    /\ selected <=> ~(settings'.graph /\ s \in settings'.sources)
             ELSE IF selected THEN ~Contains(items, s)
             ELSE \/ Contains(items, s) \/ ~Present(snapshot', s)
                  \/ Len(settings.pins) = MaxIds
                  \/ KindOf[s] = "low" /\ ~settings.fps]_dialogVars
  BY <1>1, <1>2, Zenon DEF Toggled
<1> QED BY <1>2, DialogInvariance, PTL DEF DialogSpec, ClickToggles

\* The order list, put together anew, keeps the order it was saved in.
LEMMA OrderObeyed ==
  ASSUME NEW snap \in Snapshots, NEW st \in Settings, NEW rank \in Lists, st.order = rank
  PROVE  LET items == Ranked(snap, st)
             both == ToSet(items) \cap ToSet(rank)
         IN Kept(items, both) = Kept(rank, both)
<1> DEFINE items == Ranked(snap, st)
           both == ToSet(items) \cap ToSet(rank)
           u == UnorderedItems(snap, st)
           all == BuildOsdDisplayItems(snap, st)
           F == FrameRates
           N == Sensors \ FrameRates
           h == Kept(u, N)
           H == ToSet(h)
           R == Sensors \ ToSet(rank)
           x == Kept(u, F)
           y == Kept(rank, H)
           z == Kept(h, R)
<1>1. u \in Seq(Sensors) /\ rank \in Seq(Sensors) /\ all \in Seq(Sensors)
  BY UnorderedElements, ItemElements DEF Lists
<1>2. ToSet(all) = ToSet(u)
  BY ItemElements, UnorderedElements
<1>3. items = Kept(all, N)
  BY DEF Ranked
<1>4. all = IF rank = <<>> THEN u ELSE x \o y \o z
  BY DEF BuildOsdDisplayItems, InOrder
<1>5. F \cap N = {}
  OBVIOUS
<1>6. ToSet(rank) \cap R = {}
  OBVIOUS
<1> HIDE DEF u, all, F, N, items
<1>7. h \in Seq(Sensors) /\ H = ToSet(u) \cap N
  BY <1>1, KeptElements
<1>8. items \in Seq(Sensors) /\ ToSet(items) = H
  <2>1. items \in Seq(Sensors) /\ ToSet(items) = ToSet(all) \cap N
    BY <1>1, <1>3, KeptElements
  <2> QED BY <1>2, <1>7, <2>1
<1> HIDE DEF h, H, R
<1>9. x \in Seq(Sensors) /\ ToSet(x) \cap N = {}
  <2>1. x \in Seq(Sensors) /\ ToSet(x) = ToSet(u) \cap F
    BY <1>1, KeptElements
  <2> QED BY <1>5, <2>1
<1>10. y \in Seq(Sensors)
  BY <1>1, KeptElements
<1>11. z \in Seq(Sensors) /\ ToSet(z) \cap ToSet(rank) = {}
  <2>1. z \in Seq(Sensors) /\ ToSet(z) = ToSet(h) \cap R
    BY <1>7, KeptElements
  <2> QED BY <1>6, <2>1
<1>12. both \subseteq H /\ both \subseteq N /\ both \subseteq ToSet(rank)
  BY <1>7, <1>8
<1>13. CASE rank = <<>>
  <2>1. ToSet(rank) = {}
    BY <1>13 DEF ToSet
  <2>2. both = {}
    BY <2>1
  <2> HIDE DEF both
  <2>3. ToSet(items) \cap both = {} /\ ToSet(rank) \cap both = {}
    BY <2>2
  <2>4. Kept(items, both) = <<>> /\ Kept(rank, both) = <<>>
    BY <1>1, <1>8, <2>3, NoneKept
  <2> QED BY <2>4 DEF both, items
<1>14. CASE rank # <<>>
  <2> HIDE DEF both, x, y, z
  <2>1. all = x \o y \o z
    BY <1>4, <1>14
  <2>2. Kept(items, both) = Kept(all, N \cap both)
    BY <1>1, <1>3, KeptTwice
  <2>3. N \cap both = both /\ H \cap both = both
    BY <1>12
  <2> DEFINE w == x \o y
  <2>4. w \in Seq(Sensors)
    BY <1>9, <1>10
  <2>5. Kept(w, both) = Kept(x, both) \o Kept(y, both)
    BY <1>9, <1>10, KeptOfBoth
  <2>6. all = w \o z
    BY <2>1
  <2> HIDE DEF w
  <2>7. Kept(w \o z, both) = Kept(w, both) \o Kept(z, both)
    BY <1>11, <2>4, KeptOfBoth
  <2>8. ToSet(x) \cap both = {} /\ ToSet(z) \cap both = {}
    BY <1>9, <1>11, <1>12
  <2>9. Kept(x, both) = <<>>
    BY <1>9, <2>8, NoneKept
  <2>10. Kept(z, both) = <<>>
    BY <1>11, <2>8, NoneKept
  <2>11. Kept(y, both) = Kept(rank, both)
    <3>1. Kept(y, both) = Kept(rank, H \cap both)
      BY <1>1, KeptTwice DEF y
    <3> QED BY <2>3, <3>1
  <2> DEFINE k == Kept(rank, both)
  <2>12. k \in Seq(Sensors)
    BY <1>1, KeptElements
  <2>13. Kept(all, both) = (<<>> \o k) \o <<>>
    BY <2>5, <2>6, <2>7, <2>9, <2>10, <2>11
  <2> HIDE DEF k
  <2>14. (<<>> \o k) \o <<>> = k
    BY <2>12
  <2>15. Kept(items, both) = k
    BY <2>2, <2>3, <2>13, <2>14
  <2> QED BY <2>15 DEF k, both, items
<1> QED BY <1>13, <1>14

\* Nothing that the settings show with which a dialog opened is lost, if it says what
\* they say and was read.
LEMMA QuietSave ==
  ASSUME snapshot \in Snapshots, NEW d, DialogInv(d, snapshot), d.saved, settings' = d.draft
  PROVE  QuietSaveKeepsShown(d)
<1> SUFFICES ASSUME d.quiet, d.steady, d.list # <<>>, Cardinality(d.chosen) <= MaxIds,
                    NEW s \in ToSet(BuildOsdDisplayItems(snapshot, d.base)),
                    s \notin FrameRates \cap ToSet(d.base.pins)
             PROVE  s \in ToSet(BuildOsdDisplayItems(snapshot, settings'))
  BY DEF QuietSaveKeepsShown
<1> DEFINE new == d.draft
           base == d.base
           list == d.list
           chosen == d.chosen
<1>1. new \in Settings /\ base \in Settings
  BY OKFields DEF DialogInv
<1>2. /\ list = Positions(snapshot) /\ chosen = ChosenIn(list, snapshot, base)
      /\ ("fps" \in d.boxes <=> base.fps) /\ ("low" \in d.boxes <=> base.low)
  BY DEF DialogInv, QuietInv
<1>3. /\ new.fps = ("fps" \in d.boxes) /\ new.low = ("low" \in d.boxes)
      /\ ToSet(new.pins) = AtChosen(d, snapshot)
  BY DEF DialogInv, SavedInv
<1>4. AtChosen(d, snapshot) = {Ids(snapshot)[i] : i \in {list[n] : n \in chosen} \cap DOMAIN Ids(snapshot)}
  BY DEF AtChosen
<1>5. s \in ToSet(BuildOsdDisplayItems(snapshot, base)) /\ ~(s \in FrameRates /\ s \in ToSet(base.pins))
  OBVIOUS
<1>6. settings' = new
  OBVIOUS
<1> HIDE DEF new, base, list, chosen
<1>7. s \in Sensors /\ IsSensorSelectedForOsd(s, base)
  BY <1>1, <1>5, ShownSelected
<1>8. /\ s \in Readable(snapshot)
      /\ \/ s \in RatesChosen(snapshot, base) \/ s \in ToSet(EasyItems(snapshot, base))
         \/ s \in ToSet(base.pins)
  BY <1>1, <1>5, ItemElements
<1>9. s \in FrameRates <=> KindOf[s] \in {"fps", "low", "time"}
  BY <1>7 DEF FrameRates, Rates
<1>10. s \in RatesChosen(snapshot, new) \/ s \in ToSet(new.pins)
  <2>1. CASE s \in FrameRates
    <3>1. s \notin ToSet(EasyItems(snapshot, base))
      <4>1. base.easy \subseteq Categories
        BY <1>1, SettingsFields
      <4>2. s \in ToSet(EasyItems(snapshot, base)) => KindOf[s] \in base.easy
        BY <1>1, EasyElements
      <4> QED BY <1>9, <2>1, <4>1, <4>2 DEF Categories
    <3>2. s \in RatesChosen(snapshot, base)
      BY <1>5, <1>8, <2>1, <3>1
    <3> QED BY <1>2, <1>3, <3>2 DEF RatesChosen
  <2>2. CASE s \notin FrameRates
    <3>1. PICK i \in 1..Len(snapshot) : snapshot[i].id = s
      BY <1>8, SnapshotIds DEF Readable, Present
    <3>2. i \in ToSet(list) /\ i \in DOMAIN Ids(snapshot) /\ Ids(snapshot)[i] = s /\ i <= Len(snapshot)
      <4>1. i \in ToSet(Positions(snapshot))
        BY <2>2, <3>1, PositionElements
      <4> QED BY <1>2, <3>1, <4>1, SnapshotIds
    <3>3. PICK n \in DOMAIN list : list[n] = i
      BY <1>2, <3>2, PositionElements DEF ToSet
    <3>4. n \in chosen
      BY <1>2, <1>7, <3>1, <3>2, <3>3 DEF ChosenIn
    <3>5. s \in AtChosen(d, snapshot)
      BY <1>4, <3>2, <3>3, <3>4
    <3> QED BY <1>3, <3>5
  <2> QED BY <2>1, <2>2
<1>11. s \in ToSet(BuildOsdDisplayItems(snapshot, new))
  BY <1>1, <1>8, <1>10, ItemElements
<1> QED BY <1>6, <1>11

(* What a dialog showed when it was saved is what is displayed when it returns,      *)
(* whatever was clicked and whatever other dialogs did meanwhile: nothing is lost of    *)
(* what it opened with by saving it unchanged, and its order list is obeyed             *)
(* (settings_window.cpp:800-809, 901-902, 954-963, 141-178, 689-711).                   *)
THEOREM SavingKeepsShown == DialogSpec => SavedAsShown
<1>1. ASSUME DialogIInv
      PROVE  LET d == Last(dialogs)
             IN (DialogReturns /\ d.saved) => QuietSaveKeepsShown(d) /\ OrderListIsObeyed(d)
  <2> DEFINE d == Last(dialogs)
             st == d.draft
             rank == Up(MaxIds, d.rank)
  <2> SUFFICES ASSUME DialogReturns, d.saved PROVE QuietSaveKeepsShown(d) /\ OrderListIsObeyed(d)
    OBVIOUS
  <2>1. dialogs # <<>> /\ settings' = st /\ snapshot' = snapshot
    BY DEF DialogReturns, Running, Innermost
  <2>2. snapshot \in Snapshots /\ DialogInv(d, snapshot)
    BY <1>1, <2>1, TypedDialog, OneLess DEF DialogIInv
  <2>3. d.saved
    OBVIOUS
  <2> HIDE DEF d
  <2>4. DialogOK(d) /\ DialogFields(d) /\ st \in Settings /\ st.order = rank
    BY <2>2, <2>3, OKFields DEF DialogInv, SavedInv
  <2>5. rank \in Lists
    BY <2>4, RankIsList
  <2> HIDE DEF st, rank
  <2>6. LET items == Ranked(snapshot, st)
            both == ToSet(items) \cap ToSet(rank)
        IN Kept(items, both) = Kept(rank, both)
    BY <2>2, <2>4, <2>5, OrderObeyed
  <2>7. OrderListIsObeyed(d)
    BY <2>1, <2>6 DEF OrderListIsObeyed, rank
  <2>8. QuietSaveKeepsShown(d)
    BY <2>1, <2>2, <2>3, QuietSave DEF st
  <2> QED BY <2>7, <2>8
<1>2. DialogIInv => [LET d == Last(dialogs)
                     IN (DialogReturns /\ d.saved) => QuietSaveKeepsShown(d) /\ OrderListIsObeyed(d)]_dialogVars
  BY <1>1
<1> QED BY <1>2, DialogInvariance, PTL DEF DialogSpec, SavedAsShown
=============================================================================

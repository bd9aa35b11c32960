-------------------------- MODULE ChannelPosts_proof --------------------------
(***************************************************************************)
(* What the webapp keeps of a channel's posts, whatever overtakes what:    *)
(* the reducer's sort and merge are correct, it drops no post, and no gap  *)
(* opens in silence.                                                       *)
(*                                                                         *)
(* Induction over the natural numbers is by a least counterexample         *)
(* (IntervalInduction), with a set for the predicate.                      *)
(***************************************************************************)
EXTENDS ChannelPosts, FiniteSetTheorems, WellFoundedInduction, SequenceTheorems,
        TLAPS

-----------------------------------------------------------------------------
(* Induction *)

\* A set of natural numbers has a least element.
LEMMA LeastElement ==
  ASSUME NEW S \in SUBSET Nat, S # {}
  PROVE  \E x \in S : \A y \in S : x <= y
<1> DEFINE R == OpToRel(<, Nat)
<1>1. \E x \in S : \A y \in S : <<y, x>> \notin R
  <2> HIDE DEF R
  <2>1. IsWellFoundedOn(R, Nat)
    BY NatLessThanWellFounded DEF R
  <2> QED BY <2>1, WFMin
<1>2. PICK x \in S : \A y \in S : <<y, x>> \notin R
  BY <1>1
<1>3. ASSUME NEW y \in S PROVE x <= y
  <2>1. SUFFICES ASSUME y < x PROVE FALSE
    OBVIOUS
  <2>2. <<y, x>> \in R
    BY <2>1 DEF OpToRel
  <2> QED BY <1>2, <2>2
<1> QED BY <1>3

\* Induction on the numbers up to n.
LEMMA IntervalInduction ==
  ASSUME NEW n \in Nat, NEW S, 0 \in S,
         \A i \in 0 .. n - 1 : i \in S => i + 1 \in S
  PROVE  0 .. n \subseteq S
<1> DEFINE C == (0 .. n) \ S
<1>1. SUFFICES ASSUME C # {} PROVE FALSE
  OBVIOUS
<1>2. PICK x \in C : \A y \in C : x <= y
  <2> C \in SUBSET Nat
    OBVIOUS
  <2> HIDE DEF C
  <2> QED BY <1>1, LeastElement
<1>3. x - 1 \in 0 .. n - 1 /\ x - 1 \in S
  BY <1>2
<1> QED BY <1>2, <1>3

-----------------------------------------------------------------------------
(* The sort *)

\* The places before i's in a stable sort by these keys.
Before(keys, i) ==
  {j \in DOMAIN keys : \/ keys[j] > keys[i]
                       \/ keys[j] = keys[i] /\ j < i}

\* What goes before something goes before less.
LEMMA BeforeIsSmaller ==
  ASSUME NEW D \in SUBSET Nat, IsFiniteSet(D), NEW keys \in [D -> Int],
         NEW i \in D, NEW j \in D, i \in Before(keys, j)
  PROVE  Cardinality(Before(keys, i)) < Cardinality(Before(keys, j))
<1>1. /\ IsFiniteSet(Before(keys, i)) /\ IsFiniteSet(Before(keys, j))
      /\ Cardinality(Before(keys, i)) \in Nat
      /\ Cardinality(Before(keys, j)) \in Nat
  <2>1. Before(keys, i) \in SUBSET D /\ Before(keys, j) \in SUBSET D
    BY DEF Before
  <2> QED BY <2>1, FS_Subset, FS_CardinalityType
<1>2. Before(keys, i) \cup {i} \subseteq Before(keys, j)
  <2>1. ASSUME NEW k \in Before(keys, i) PROVE k \in Before(keys, j)
    <3>1. k \in D /\ k \in Nat /\ i \in Nat /\ j \in Nat
      BY <2>1 DEF Before
    <3>2. keys[k] \in Int /\ keys[i] \in Int /\ keys[j] \in Int
      BY <3>1
    <3> QED BY <2>1, <3>1, <3>2 DEF Before
  <2> QED BY <2>1
<1>3. i \notin Before(keys, i)
  BY DEF Before
<1>4. Cardinality(Before(keys, i) \cup {i}) = Cardinality(Before(keys, i)) + 1
  BY <1>1, <1>3, FS_AddElement
<1>5. Cardinality(Before(keys, i) \cup {i}) <= Cardinality(Before(keys, j))
  BY <1>1, <1>2, FS_Subset
<1> QED BY <1>1, <1>4, <1>5

\* Each goes to a place of its own, and every place is taken.
LEMMA Places ==
  ASSUME NEW D \in SUBSET Nat, IsFiniteSet(D), NEW keys \in [D -> Int],
         NEW n, n = Cardinality(D)
  PROVE  /\ \A i \in D :
              \E place \in 1 .. n : Cardinality(Before(keys, i)) = place - 1
         /\ \A i, j \in D :
              i # j => Cardinality(Before(keys, i)) # Cardinality(Before(keys, j))
         /\ \A place \in 1 .. n :
              \E i \in D : Cardinality(Before(keys, i)) = place - 1
<1> DEFINE rank == [i \in D |-> Cardinality(Before(keys, i)) + 1]
<1>1. n \in Nat /\ IsFiniteSet(1 .. n) /\ Cardinality(1 .. n) = n
  BY FS_CardinalityType, FS_Interval
<1>2. ASSUME NEW i \in D PROVE Cardinality(Before(keys, i)) \in 0 .. n - 1
  <2>1. Before(keys, i) \in SUBSET (D \ {i})
    BY DEF Before
  <2>2. IsFiniteSet(D \ {i}) /\ Cardinality(D \ {i}) = n - 1
    BY FS_RemoveElement
  <2>3. /\ IsFiniteSet(Before(keys, i))
        /\ Cardinality(Before(keys, i)) <= n - 1
    BY <2>1, <2>2, FS_Subset
  <2> QED BY <2>3, FS_CardinalityType
<1>3. ASSUME NEW i \in D, NEW j \in D, i # j
      PROVE  Cardinality(Before(keys, i)) # Cardinality(Before(keys, j))
  <2>1. i \in Before(keys, j) \/ j \in Before(keys, i)
    BY <1>3 DEF Before
  <2>2. Cardinality(Before(keys, i)) \in Nat /\ Cardinality(Before(keys, j)) \in Nat
    BY <1>2
  <2> QED BY <2>1, <2>2, BeforeIsSmaller
<1>4. rank \in [D -> 1 .. n]
  BY <1>1, <1>2
<1>5. rank \in Injection(D, 1 .. n)
  <2>1. ASSUME NEW i \in D, NEW j \in D, rank[i] = rank[j] PROVE i = j
    BY <1>2, <1>3, <2>1
  <2> QED BY <1>4, <2>1 DEF Injection, IsInjective
<1>6. rank \in Surjection(D, 1 .. n)
  <2> HIDE DEF rank
  <2> QED BY <1>1, <1>5, FS_Injection
<1>7. \A place \in 1 .. n : \E i \in D : rank[i] = place
  <2> HIDE DEF rank
  <2> QED BY <1>6 DEF Surjection
<1>8. ASSUME NEW place \in 1 .. n, NEW i \in D, rank[i] = place
      PROVE  Cardinality(Before(keys, i)) = place - 1
  <2>1. Cardinality(Before(keys, i)) \in 0 .. n - 1
    BY <1>2
  <2>2. Cardinality(Before(keys, i)) + 1 = place
    BY <1>8
  <2> QED BY <2>1, <2>2
<1>9. ASSUME NEW i \in D
      PROVE  \E place \in 1 .. n : Cardinality(Before(keys, i)) = place - 1
  <2>1. Cardinality(Before(keys, i)) \in 0 .. n - 1
    BY <1>2
  <2>2. /\ Cardinality(Before(keys, i)) + 1 \in 1 .. n
        /\ Cardinality(Before(keys, i)) = (Cardinality(Before(keys, i)) + 1) - 1
    BY <1>1, <2>1
  <2> QED BY <2>2
<1> QED BY <1>3, <1>7, <1>8, <1>9

\* Each of at's is at its place, there is none that at misses, and u has them.
Ranked(keys, at, n) ==
  \A place \in 1 .. n : Cardinality(Before(keys, at[place])) = place - 1
Onto(at, n, D) == \A i \in D : \E place \in 1 .. n : at[place] = i
Arranged(u, s, at, n) == \A place \in 1 .. n : u[place] = s[at[place]]
Gathers(t, s, D) == \A x : x \in ToSet(t) <=> \E i \in D : x = s[i]

\* Those at these places, each in its place, are all there, in order.
LEMMA InPlace ==
  ASSUME NEW D \in SUBSET Nat, IsFiniteSet(D), NEW keys \in [D -> Int],
         NEW n, n = Cardinality(D), NEW at \in [1 .. n -> D],
         Ranked(keys, at, n)
  PROVE  /\ n \in Nat
         /\ Onto(at, n, D)
         /\ \A j, k \in 1 .. n :
              j < k => at[j] # at[k] /\ keys[at[j]] >= keys[at[k]]
<1>1. n \in Nat
  BY FS_CardinalityType
<1>2. ASSUME NEW i \in D PROVE \E place \in 1 .. n : at[place] = i
  <2>1. PICK place \in 1 .. n : Cardinality(Before(keys, i)) = place - 1
    BY Places
  <2>2. at[place] \in D /\ Cardinality(Before(keys, at[place])) = place - 1
    BY DEF Ranked
  <2>3. Cardinality(Before(keys, at[place])) = Cardinality(Before(keys, i))
    BY <2>1, <2>2
  <2> QED BY <2>2, <2>3, Places
<1>3. ASSUME NEW j \in 1 .. n, NEW k \in 1 .. n, j < k
      PROVE  at[j] # at[k] /\ keys[at[j]] >= keys[at[k]]
  <2>1. /\ at[j] \in D /\ Cardinality(Before(keys, at[j])) = j - 1
        /\ at[k] \in D /\ Cardinality(Before(keys, at[k])) = k - 1
    BY DEF Ranked
  <2>2. at[k] \notin Before(keys, at[j])
    <3>1. SUFFICES ASSUME at[k] \in Before(keys, at[j]) PROVE FALSE
      OBVIOUS
    <3>2. Cardinality(Before(keys, at[k])) < Cardinality(Before(keys, at[j]))
      BY <2>1, <3>1, BeforeIsSmaller
    <3> QED BY <1>1, <1>3, <2>1, <3>2
  <2>3. keys[at[j]] \in Int /\ keys[at[k]] \in Int /\ DOMAIN keys = D
    BY <2>1
  <2>4. ~(keys[at[k]] > keys[at[j]])
    BY <2>1, <2>2, <2>3 DEF Before
  <2>5. at[j] # at[k]
    BY <1>1, <1>3, <2>1
  <2> QED BY <2>3, <2>4, <2>5
<1> QED BY <1>1, <1>2, <1>3 DEF Onto

\* A function on an interval from 1 is a sequence, and SubSeq returns all of it.
LEMMA WholeSequence ==
  ASSUME NEW n \in Nat, NEW T, NEW u \in [1 .. n -> T]
  PROVE  u \in Seq(T) /\ Len(u) = n /\ SubSeq(u, 1, n) = u
<1>1. u \in Seq(T) /\ Len(u) = n
  BY LenProperties, SeqDef
<1> QED BY <1>1, SubSeqFull

\* The elements of s at all these places, and no others.
LEMMA AllInPlace ==
  ASSUME NEW T, NEW s, NEW D, NEW n \in Nat, NEW at \in [1 .. n -> D],
         Onto(at, n, D), NEW u \in [1 .. n -> T], Arranged(u, s, at, n)
  PROVE  Gathers(u, s, D)
<1>1. ToSet(u) = {u[place] : place \in 1 .. n}
  BY DEF ToSet
<1>2. ASSUME NEW place \in 1 .. n PROVE \E i \in D : u[place] = s[i]
  <2>1. u[place] = s[at[place]] /\ at[place] \in D
    BY DEF Arranged
  <2> QED BY <2>1
<1>3. ASSUME NEW i \in D PROVE s[i] \in ToSet(u)
  <2>1. PICK place \in 1 .. n : at[place] = i
    BY DEF Onto
  <2> QED BY <1>1, <2>1 DEF Arranged
<1>4. ASSUME NEW x PROVE x \in ToSet(u) <=> \E i \in D : x = s[i]
  <2>1. x \in ToSet(u) <=> \E place \in 1 .. n : x = u[place]
    BY <1>1
  <2>2. ASSUME NEW i \in D, x = s[i] PROVE x \in ToSet(u)
    BY <1>3, <2>2
  <2>3. ASSUME NEW place \in 1 .. n, x = u[place] PROVE \E i \in D : x = s[i]
    BY <1>2, <2>3
  <2> QED BY <2>1, <2>2, <2>3
<1> QED BY <1>4 DEF Gathers

\* Newest first, and none twice.
Decreasing(order) == \A j, k \in DOMAIN order : j < k => order[j] > order[k]

\* An order with new posts: the same and the new ones, from the newest to the oldest.
LEMMA WithNewSorts ==
  ASSUME NEW P \in SUBSET Nat, NEW l \in Seq(P), NEW r \in Seq(P),
         NEW new \in SUBSET DOMAIN r
  PROVE  /\ WithNew(l, r, new) \in Seq(P)
         /\ ToSet(WithNew(l, r, new)) = ToSet(l) \cup {r[i] : i \in new}
         /\ \A j, k \in DOMAIN WithNew(l, r, new) :
              j < k => WithNew(l, r, new)[j] >= WithNew(l, r, new)[k]
         /\ /\ Decreasing(l)
            /\ \A i, j \in new : i # j => r[i] # r[j]
            /\ \A i \in new : r[i] \notin ToSet(l)
            => Decreasing(WithNew(l, r, new))
<1> DEFINE s == l \o r
           D == DOMAIN l \cup {Len(l) + i : i \in new}
           n == Cardinality(D)
           keys == [i \in D |-> s[i]]
           before(i) == {j \in D : \/ s[j] > s[i]
                                   \/ s[j] = s[i] /\ j < i}
           at == [place \in 1 .. n |->
                    CHOOSE i \in D : Cardinality(before(i)) = place - 1]
           t == WithNew(l, r, new)
<1>1. /\ s \in Seq(P) /\ Len(l) \in Nat /\ Len(r) \in Nat
      /\ DOMAIN l = 1 .. Len(l) /\ DOMAIN r = 1 .. Len(r)
      /\ DOMAIN s = 1 .. Len(l) + Len(r)
      /\ \A i \in DOMAIN l : s[i] = l[i]
      /\ \A i \in DOMAIN r : s[Len(l) + i] = r[i]
  <2>1. /\ s \in Seq(P) /\ Len(s) = Len(l) + Len(r)
        /\ Len(l) \in Nat /\ Len(r) \in Nat
        /\ DOMAIN l = 1 .. Len(l) /\ DOMAIN r = 1 .. Len(r)
        /\ DOMAIN s = 1 .. Len(s)
    BY ConcatProperties, LenProperties
  <2>2. \A i \in 1 .. Len(l) : s[i] = l[i]
    BY ConcatProperties, <2>1
  <2>3. ASSUME NEW i \in 1 .. Len(r) PROVE s[Len(l) + i] = r[i]
    <3>1. Len(l) + i \in 1 .. Len(l) + Len(r) /\ Len(l) + i > Len(l)
      BY <2>1
    <3> QED BY <3>1, <2>1
  <2> QED BY <2>1, <2>2, <2>3
<1> HIDE DEF s
<1>2. D \in SUBSET DOMAIN s
  <2>1. ASSUME NEW i \in new PROVE Len(l) + i \in DOMAIN s
    BY <1>1
  <2> QED BY <1>1, <2>1
<1>3. ASSUME NEW x
      PROVE  (\E i \in D : x = s[i]) <=> x \in ToSet(l) \cup {r[i] : i \in new}
  <2>1. (\E i \in DOMAIN l : x = s[i]) <=> x \in ToSet(l)
    BY <1>1 DEF ToSet
  <2>2. (\E i \in new : x = s[Len(l) + i]) <=> x \in {r[i] : i \in new}
    BY <1>1
  <2>3. (\E i \in D : x = s[i]) <=> \/ \E i \in DOMAIN l : x = s[i]
                                    \/ \E i \in new : x = s[Len(l) + i]
    OBVIOUS
  <2> QED BY <2>1, <2>2, <2>3
<1>4. /\ IsFiniteSet(D) /\ D \in SUBSET Nat
      /\ \A i \in DOMAIN s : s[i] \in P /\ s[i] \in Int
  <2>1. IsFiniteSet(DOMAIN s)
    BY <1>1, FS_Interval
  <2>2. DOMAIN s \subseteq Nat
    BY <1>1
  <2> HIDE DEF D
  <2>3. IsFiniteSet(D)
    BY <1>2, <2>1, FS_Subset
  <2>4. ASSUME NEW i \in DOMAIN s PROVE s[i] \in P /\ s[i] \in Int
    <3>1. s[i] \in P
      BY <1>1
    <3>2. \A x \in P : x \in Int
      OBVIOUS
    <3> QED BY <3>1, <3>2
  <2> QED BY <1>2, <2>2, <2>3, <2>4
<1> DEFINE u == [place \in 1 .. n |->
                   s[CHOOSE i \in D : Cardinality(before(i)) = place - 1]]
<1>5. t = SubSeq(u, 1, n) /\ Arranged(u, s, at, n)
  <2>1. t = SubSeq(u, 1, n)
    BY DEF WithNew, LargestFirst, s
  <2>2. Arranged(u, s, at, n)
    <3> HIDE DEF n, D, before
    <3> QED BY DEF Arranged
  <2> QED BY <2>1, <2>2
<1>6. keys \in [D -> Int]
  BY <1>2, <1>4
<1>7. \A i \in D : before(i) = Before(keys, i)
  BY DEF Before
<1> HIDE DEF D
<1>8. ASSUME NEW place \in 1 .. n
      PROVE  /\ at[place] \in D
             /\ Cardinality(Before(keys, at[place])) = place - 1
  <2>1. \E i \in D : Cardinality(Before(keys, i)) = place - 1
    <3> HIDE DEF keys
    <3> QED BY <1>4, <1>6, Places
  <2>2. \E i \in D : Cardinality(before(i)) = place - 1
    BY <1>7, <2>1
  <2> HIDE DEF keys, before
  <2>3. at[place] \in D /\ Cardinality(before(at[place])) = place - 1
    BY <2>2
  <2> QED BY <1>7, <2>3
<1>9. at \in [1 .. n -> D]
  BY <1>8
<1>10. \A i \in D : keys[i] = s[i]
  OBVIOUS
<1> HIDE DEF at, t, keys, n, u
<1>11. /\ n \in Nat /\ t \in Seq(P) /\ Len(t) = n /\ DOMAIN t = 1 .. n
       /\ Gathers(t, s, D)
       /\ Arranged(t, s, at, n)
       /\ \A j, k \in 1 .. n :
            j < k => at[j] # at[k] /\ keys[at[j]] >= keys[at[k]]
  <2>1. Ranked(keys, at, n)
    BY <1>8 DEF Ranked
  <2>2. n = Cardinality(D)
    BY DEF n
  <2>3. /\ n \in Nat
        /\ Onto(at, n, D)
        /\ \A j, k \in 1 .. n :
             j < k => at[j] # at[k] /\ keys[at[j]] >= keys[at[k]]
    <3>1. D \in SUBSET Nat /\ IsFiniteSet(D)
      BY <1>4
    <3> QED BY <1>6, <1>9, <2>1, <2>2, <3>1, InPlace
  <2>4. \A i \in D : s[i] \in P
    BY <1>2, <1>4
  <2>5. u \in [1 .. n -> P]
    BY <1>5, <1>9, <2>4 DEF u, Arranged
  <2> HIDE DEF u
  <2>6. /\ t \in Seq(P) /\ Len(t) = n /\ DOMAIN t = 1 .. n
        /\ Arranged(t, s, at, n)
        /\ Gathers(t, s, D)
    <3>1. u \in Seq(P) /\ Len(u) = n /\ t = u
      BY <1>5, <2>3, <2>5, WholeSequence
    <3>2. Gathers(u, s, D)
      BY <1>5, <1>9, <2>3, <2>5, AllInPlace
    <3> QED BY <1>5, <2>5, <3>1, <3>2
  <2> QED BY <2>3, <2>6
<1>12. ASSUME NEW j \in DOMAIN t, NEW k \in DOMAIN t, j < k
       PROVE  t[j] >= t[k]
  BY <1>9, <1>10, <1>11, <1>12 DEF Arranged
<1>13. ASSUME Decreasing(l), \A i, j \in new : i # j => r[i] # r[j],
              \A i \in new : r[i] \notin ToSet(l)
       PROVE  Decreasing(t)
  <2>1. ASSUME NEW i \in D, NEW j \in D, i # j PROVE s[i] # s[j]
    <3>1. ASSUME NEW x \in DOMAIN l, NEW y \in DOMAIN l, x # y PROVE s[x] # s[y]
      BY <1>1, <1>4, <1>13, <3>1 DEF Decreasing
    <3>2. ASSUME NEW x \in DOMAIN l, NEW y \in new PROVE s[x] # s[Len(l) + y]
      BY <1>1, <1>13 DEF ToSet
    <3>3. ASSUME NEW x \in new, NEW y \in new, Len(l) + x # Len(l) + y
          PROVE  s[Len(l) + x] # s[Len(l) + y]
      BY <1>1, <1>13, <3>3
    <3> QED BY <2>1, <3>1, <3>2, <3>3 DEF D
  <2>2. ASSUME NEW j \in DOMAIN t, NEW k \in DOMAIN t, j < k
        PROVE  t[j] > t[k]
    <3>1. /\ t[j] = s[at[j]] /\ t[k] = s[at[k]] /\ at[j] # at[k]
          /\ at[j] \in D /\ at[k] \in D
      BY <1>9, <1>11, <2>2 DEF Arranged
    <3>2. t[j] >= t[k] /\ s[at[j]] \in Int /\ s[at[k]] \in Int
      BY <1>2, <1>4, <1>12, <2>2, <3>1
    <3> QED BY <2>1, <3>1, <3>2
  <2> QED BY <2>2 DEF Decreasing
<1>14. ToSet(t) = ToSet(l) \cup {r[i] : i \in new}
  <2>1. ToSet(t) \subseteq ToSet(l) \cup {r[i] : i \in new}
    BY <1>3, <1>11 DEF Gathers
  <2>2. ToSet(l) \cup {r[i] : i \in new} \subseteq ToSet(t)
    BY <1>3, <1>11 DEF Gathers
  <2> QED BY <2>1, <2>2
<1> QED BY <1>11, <1>12, <1>13, <1>14 DEF t

\* The blocks after a sort: the same, from the most recent to the least.
LEMMA BlocksSorted ==
  ASSUME NEW T, NEW s \in Seq(T), \A b \in T : Newest(b) \in Nat,
         NEW t, t = LargestFirst(s, DOMAIN s, Newest)
  PROVE  /\ t \in Seq(T) /\ Len(t) = Len(s) /\ ToSet(t) = ToSet(s)
         /\ \A j, k \in DOMAIN t : j < k => Newest(t[j]) >= Newest(t[k])
<1> DEFINE D == DOMAIN s
           n == Cardinality(D)
           keys == [i \in D |-> Newest(s[i])]
           before(i) == {j \in D : \/ Newest(s[j]) > Newest(s[i])
                                   \/ Newest(s[j]) = Newest(s[i]) /\ j < i}
           at == [place \in 1 .. n |->
                    CHOOSE i \in D : Cardinality(before(i)) = place - 1]
<1>1. /\ D = 1 .. Len(s) /\ Len(s) \in Nat /\ D \in SUBSET Nat
      /\ IsFiniteSet(D) /\ n = Len(s)
      /\ \A i \in D : s[i] \in T
  <2>1. DOMAIN s = 1 .. Len(s) /\ Len(s) \in Nat
    BY LenProperties
  <2>2. IsFiniteSet(1 .. Len(s)) /\ Cardinality(1 .. Len(s)) = Len(s)
    BY <2>1, FS_Interval
  <2>3. \A i \in DOMAIN s : s[i] \in T
    BY <2>1
  <2> QED BY <2>1, <2>2, <2>3
<1> DEFINE u == [place \in 1 .. n |->
                   s[CHOOSE i \in D : Cardinality(before(i)) = place - 1]]
<1>2. t = SubSeq(u, 1, n) /\ Arranged(u, s, at, n)
  <2>1. t = SubSeq(u, 1, n)
    BY DEF LargestFirst
  <2>2. Arranged(u, s, at, n)
    <3> HIDE DEF n, D, before
    <3> QED BY DEF Arranged
  <2> QED BY <2>1, <2>2
<1>3. keys \in [D -> Int]
  BY <1>1
<1>4. \A i \in D : before(i) = Before(keys, i)
  BY DEF Before
<1>5. ASSUME NEW place \in 1 .. n
      PROVE  /\ at[place] \in D
             /\ Cardinality(Before(keys, at[place])) = place - 1
  <2> HIDE DEF D
  <2>1. \E i \in D : Cardinality(Before(keys, i)) = place - 1
    <3> HIDE DEF keys, before, at, u
    <3>1. n = Cardinality(D) /\ D \in SUBSET Nat /\ IsFiniteSet(D)
      BY <1>1
    <3> HIDE DEF n
    <3> QED BY <1>3, <3>1, Places
  <2>2. \E i \in D : Cardinality(before(i)) = place - 1
    BY <1>4, <2>1
  <2> HIDE DEF keys, before
  <2>3. at[place] \in D /\ Cardinality(before(at[place])) = place - 1
    BY <2>2
  <2> QED BY <1>4, <2>3
<1>6. at \in [1 .. n -> D]
  BY <1>5
<1>7. \A i \in D : keys[i] = Newest(s[i])
  OBVIOUS
<1>8. \A x : x \in ToSet(s) <=> \E i \in D : x = s[i]
  BY DEF ToSet
<1> HIDE DEF at, keys, n, D, u
<1>9. /\ n \in Nat /\ t \in Seq(T) /\ Len(t) = n /\ DOMAIN t = 1 .. n
      /\ Gathers(t, s, D)
      /\ Arranged(t, s, at, n)
      /\ \A j, k \in 1 .. n :
           j < k => at[j] # at[k] /\ keys[at[j]] >= keys[at[k]]
  <2>1. Ranked(keys, at, n)
    BY <1>5 DEF Ranked
  <2>2. n = Cardinality(D)
    BY DEF n
  <2>3. /\ n \in Nat
        /\ Onto(at, n, D)
        /\ \A j, k \in 1 .. n :
             j < k => at[j] # at[k] /\ keys[at[j]] >= keys[at[k]]
    BY <1>1, <1>3, <1>6, <2>1, <2>2, InPlace
  <2>4. \A i \in D : s[i] \in T
    BY <1>1
  <2>5. u \in [1 .. n -> T]
    BY <1>2, <1>6, <2>4 DEF u, Arranged
  <2> HIDE DEF u
  <2>6. /\ t \in Seq(T) /\ Len(t) = n /\ DOMAIN t = 1 .. n
        /\ Arranged(t, s, at, n)
        /\ Gathers(t, s, D)
    <3>1. u \in Seq(T) /\ Len(u) = n /\ t = u
      BY <1>2, <2>3, <2>5, WholeSequence
    <3>2. Gathers(u, s, D)
      BY <1>2, <1>6, <2>3, <2>5, AllInPlace
    <3> QED BY <1>2, <2>5, <3>1, <3>2
  <2> QED BY <2>3, <2>6
<1>10. ASSUME NEW j \in DOMAIN t, NEW k \in DOMAIN t, j < k
       PROVE  Newest(t[j]) >= Newest(t[k])
  <2>1. /\ at[j] \in D /\ t[j] = s[at[j]] /\ keys[at[j]] = Newest(s[at[j]])
        /\ at[k] \in D /\ t[k] = s[at[k]] /\ keys[at[k]] = Newest(s[at[k]])
    BY <1>6, <1>7, <1>9 DEF Arranged
  <2>2. keys[at[j]] >= keys[at[k]]
    BY <1>9, <1>10
  <2> QED BY <2>1, <2>2
<1>11. ToSet(t) = ToSet(s)
  <2>1. ToSet(t) \subseteq ToSet(s)
    BY <1>8, <1>9 DEF Gathers
  <2>2. ToSet(s) \subseteq ToSet(t)
    BY <1>8, <1>9 DEF Gathers
  <2> QED BY <2>1, <2>2
<1> QED BY <1>1, <1>9, <1>10, <1>11

-----------------------------------------------------------------------------
(* The merge *)

\* Two orders merged: every post of either, and newest first if both were.
LEMMA OrderMerged ==
  ASSUME NEW P \in SUBSET Nat, NEW l \in Seq(P), NEW r \in Seq(P)
  PROVE  /\ mergePostOrder(l, r) \in Seq(P)
         /\ ToSet(mergePostOrder(l, r)) = ToSet(l) \cup ToSet(r)
         /\ \/ mergePostOrder(l, r) = l /\ ToSet(r) \subseteq ToSet(l)
            \/ \A j, k \in DOMAIN mergePostOrder(l, r) :
                 j < k => mergePostOrder(l, r)[j] >= mergePostOrder(l, r)[k]
         /\ Decreasing(l) /\ Decreasing(r) => Decreasing(mergePostOrder(l, r))
<1> DEFINE new == {i \in DOMAIN r : r[i] \notin ToSet(l)}
<1>1. CASE new = {}
  <2>1. mergePostOrder(l, r) = l
    BY <1>1 DEF mergePostOrder
  <2>2. ToSet(r) \subseteq ToSet(l)
    BY <1>1 DEF ToSet
  <2>3. ToSet(l) \cup ToSet(r) = ToSet(l)
    BY <2>2
  <2> QED BY <2>1, <2>2, <2>3
<1>2. CASE new # {}
  <2>1. mergePostOrder(l, r) = WithNew(l, r, new)
    BY <1>2 DEF mergePostOrder
  <2>2. new \in SUBSET DOMAIN r
    OBVIOUS
  <2>3. ToSet(l) \cup {r[i] : i \in new} = ToSet(l) \cup ToSet(r)
    <3>1. \A x \in ToSet(r) : x \in ToSet(l) \/ x \in {r[i] : i \in new}
      BY DEF ToSet
    <3>2. {r[i] : i \in new} \subseteq ToSet(r)
      BY DEF ToSet
    <3> QED BY <3>1, <3>2
  <2>4. \A i \in new : r[i] \notin ToSet(l)
    OBVIOUS
  <2>5. ASSUME Decreasing(r), NEW i \in new, NEW j \in new, i # j PROVE r[i] # r[j]
    <3>1. i \in DOMAIN r /\ j \in DOMAIN r /\ DOMAIN r = 1 .. Len(r)
      BY <2>2, LenProperties
    <3>2. r[i] \in P /\ r[j] \in P /\ i \in Nat /\ j \in Nat
      BY <3>1, LenProperties
    <3>3. \A x \in P : x \in Nat
      OBVIOUS
    <3>4. r[i] \in Nat /\ r[j] \in Nat
      BY <3>2, <3>3
    <3> QED BY <2>5, <3>1, <3>2, <3>4 DEF Decreasing
  <2> HIDE DEF new
  <2>6. /\ WithNew(l, r, new) \in Seq(P)
        /\ ToSet(WithNew(l, r, new)) = ToSet(l) \cup {r[i] : i \in new}
        /\ \A j, k \in DOMAIN WithNew(l, r, new) :
             j < k => WithNew(l, r, new)[j] >= WithNew(l, r, new)[k]
    BY <2>2, WithNewSorts
  <2>7. Decreasing(l) /\ Decreasing(r) => Decreasing(WithNew(l, r, new))
    BY <2>2, <2>4, <2>5, WithNewSorts
  <2> QED BY <2>1, <2>3, <2>6, <2>7
<1> QED BY <1>1, <1>2

\* A set of blocks with posts.
BlockSet(T, P) == T \subseteq Block(P) /\ \A b \in T : b.order # << >>

\* A set of blocks that has what is made of two of its blocks that overlap.
MergeClosed(T) ==
  \A a, b \in T : (\E p \in ToSet(a.order) : p >= Newest(b)) /\ Overlap(a, b)
                    => Merge(a, b) \in T

\* Held, and what it becomes with one more block.
LEMMA HeldElements ==
  ASSUME NEW bs, NEW p
  PROVE  p \in Held(bs) <=> \E i \in DOMAIN bs : p \in ToSet(bs[i].order)
BY DEF Held

LEMMA HeldAppend ==
  ASSUME NEW T, NEW bs \in Seq(T), NEW b \in T
  PROVE  Held(Append(bs, b)) = Held(bs) \cup ToSet(b.order)
<1>1. /\ Len(bs) \in Nat /\ DOMAIN bs = 1 .. Len(bs)
      /\ DOMAIN Append(bs, b) = 1 .. Len(bs) + 1
      /\ \A i \in 1 .. Len(bs) : Append(bs, b)[i] = bs[i]
      /\ Append(bs, b)[Len(bs) + 1] = b
  BY AppendProperties, LenProperties
<1>2. ASSUME NEW p \in Held(Append(bs, b)) PROVE p \in Held(bs) \cup ToSet(b.order)
  <2>1. PICK i \in 1 .. Len(bs) + 1 : p \in ToSet(Append(bs, b)[i].order)
    BY <1>1, HeldElements
  <2>2. CASE i = Len(bs) + 1
    BY <1>1, <2>1, <2>2
  <2>3. CASE i \in 1 .. Len(bs)
    BY <1>1, <2>1, <2>3, HeldElements
  <2> QED BY <1>1, <2>2, <2>3
<1>3. ASSUME NEW p \in Held(bs) PROVE p \in Held(Append(bs, b))
  <2>1. PICK i \in 1 .. Len(bs) : p \in ToSet(bs[i].order)
    BY <1>1, HeldElements
  <2>2. i \in DOMAIN Append(bs, b) /\ Append(bs, b)[i] = bs[i]
    BY <1>1
  <2> QED BY <2>1, <2>2, HeldElements
<1>4. ASSUME NEW p \in ToSet(b.order) PROVE p \in Held(Append(bs, b))
  <2>1. Len(bs) + 1 \in DOMAIN Append(bs, b) /\ Append(bs, b)[Len(bs) + 1] = b
    BY <1>1
  <2> QED BY <2>1, HeldElements
<1> QED BY <1>2, <1>3, <1>4

LEMMA HeldFront ==
  ASSUME NEW T, NEW bs \in Seq(T), bs # << >>
  PROVE  /\ Front(bs) \in Seq(T) /\ Last(bs) \in T
         /\ Held(bs) = Held(Front(bs)) \cup ToSet(Last(bs).order)
<1>1. Len(bs) \in Nat \ {0} /\ DOMAIN bs = 1 .. Len(bs)
  BY EmptySeq, LenProperties
<1>2. /\ Front(bs) \in Seq(T) /\ DOMAIN Front(bs) = 1 .. Len(bs) - 1
      /\ \A i \in 1 .. Len(bs) - 1 : Front(bs)[i] = bs[i]
  BY <1>1, SubSeqProperties DEF Front
<1>3. Last(bs) \in T /\ Last(bs) = bs[Len(bs)]
  BY <1>1, ElementOfSeq DEF Last
<1>4. ASSUME NEW p \in Held(bs)
      PROVE  p \in Held(Front(bs)) \cup ToSet(Last(bs).order)
  <2>1. PICK i \in 1 .. Len(bs) : p \in ToSet(bs[i].order)
    BY <1>1, HeldElements
  <2>2. CASE i = Len(bs)
    BY <1>3, <2>1, <2>2
  <2>3. CASE i \in 1 .. Len(bs) - 1
    <3>1. i \in DOMAIN Front(bs) /\ Front(bs)[i] = bs[i]
      BY <1>2, <2>3
    <3> QED BY <2>1, <3>1, HeldElements
  <2>4. i = Len(bs) \/ i \in 1 .. Len(bs) - 1
    <3>1. Len(bs) \in Nat /\ i \in Nat /\ 1 <= i /\ i <= Len(bs)
      BY <1>1, <2>1
    <3> QED BY <3>1
  <2> QED BY <2>2, <2>3, <2>4
<1>5. ASSUME NEW p \in Held(Front(bs)) PROVE p \in Held(bs)
  <2>1. PICK i \in 1 .. Len(bs) - 1 : p \in ToSet(Front(bs)[i].order)
    BY <1>2, HeldElements
  <2>2. i \in DOMAIN bs /\ Front(bs)[i] = bs[i]
    BY <1>1, <1>2
  <2> QED BY <2>1, <2>2, HeldElements
<1>6. ASSUME NEW p \in ToSet(Last(bs).order) PROVE p \in Held(bs)
  BY <1>1, <1>3, HeldElements
<1> QED BY <1>2, <1>3, <1>4, <1>5, <1>6

\* What a merge has of each of the two blocks.
LEMMA MergeOrder ==
  ASSUME NEW P \in SUBSET Nat, NEW a \in Block(P), NEW b \in Block(P)
  PROVE  /\ Merge(a, b) \in Block(P)
         /\ ToSet(Merge(a, b).order) = ToSet(a.order) \cup ToSet(b.order)
<1>1. a.order \in Seq(P) /\ b.order \in Seq(P)
  BY DEF Block
<1>2. /\ mergePostOrder(a.order, b.order) \in Seq(P)
      /\ ToSet(mergePostOrder(a.order, b.order)) = ToSet(a.order) \cup ToSet(b.order)
  BY <1>1, OrderMerged
<1> QED BY <1>2 DEF Merge, Block

\* The last block is one with which those that follow may overlap.
Reaches(done, b) ==
  done # << >> => \E p \in ToSet(Last(done).order) : p >= Newest(b)

\* One more block: the posts of all, and those of the new block are in the last.
LEMMA BlockAdded ==
  ASSUME NEW P \in SUBSET Nat, NEW T, BlockSet(T, P), MergeClosed(T),
         NEW done \in Seq(T), NEW b \in T, Reaches(done, b)
  PROVE  /\ AddBlock(done, b) \in Seq(T)
         /\ AddBlock(done, b) # << >>
         /\ Held(AddBlock(done, b)) = Held(done) \cup ToSet(b.order)
         /\ ToSet(b.order) \subseteq ToSet(Last(AddBlock(done, b)).order)
<1>0. \A ds \in Seq(T), c \in T :
        /\ Append(ds, c) \in Seq(T)
        /\ Append(ds, c) # << >>
        /\ Last(Append(ds, c)) = c
        /\ Held(Append(ds, c)) = Held(ds) \cup ToSet(c.order)
  <2> SUFFICES ASSUME NEW ds \in Seq(T), NEW c \in T
               PROVE  /\ Append(ds, c) \in Seq(T)
                      /\ Append(ds, c) # << >>
                      /\ Last(Append(ds, c)) = c
                      /\ Held(Append(ds, c)) = Held(ds) \cup ToSet(c.order)
    OBVIOUS
  <2>1. /\ Append(ds, c) \in Seq(T) /\ Append(ds, c) # << >>
        /\ Append(ds, c)[Len(Append(ds, c))] = c
    BY AppendProperties
  <2> QED BY <2>1, HeldAppend DEF Last
<1>1. CASE done # << >> /\ Overlap(Last(done), b)
  <2>1. AddBlock(done, b) = Append(Front(done), Merge(Last(done), b))
    BY <1>1 DEF AddBlock
  <2>2. /\ Front(done) \in Seq(T) /\ Last(done) \in T
        /\ Held(done) = Held(Front(done)) \cup ToSet(Last(done).order)
    BY <1>1, HeldFront
  <2>3. Merge(Last(done), b) \in T
    BY <1>1, <2>2 DEF MergeClosed, Reaches
  <2>4. ToSet(Merge(Last(done), b).order) = ToSet(Last(done).order) \cup ToSet(b.order)
    BY <2>2, MergeOrder DEF BlockSet
  <2>5. /\ AddBlock(done, b) \in Seq(T) /\ AddBlock(done, b) # << >>
        /\ Last(AddBlock(done, b)) = Merge(Last(done), b)
        /\ Held(AddBlock(done, b)) =
             Held(Front(done)) \cup ToSet(Merge(Last(done), b).order)
    BY <1>0, <2>1, <2>2, <2>3
  <2> QED BY <2>2, <2>4, <2>5
<1>2. CASE ~(done # << >> /\ Overlap(Last(done), b))
  <2>1. AddBlock(done, b) = Append(done, b)
    BY <1>2 DEF AddBlock
  <2> QED BY <1>0, <2>1
<1> QED BY <1>1, <1>2

\* The recursion of the merge has a value, with these for each block in turn.
Merging(f, s) ==
  /\ f = [i \in 0 .. Len(s) |-> f[i]]
  /\ f[0] = << >>
  /\ \A i \in 1 .. Len(s) : f[i] = AddBlock(f[i - 1], s[i])

LEMMA MergingExists ==
  ASSUME NEW T, NEW s \in Seq(T)
  PROVE  \E f : Merging(f, s) /\ MergeInTurn(s) = f[Len(s)]
<1> DEFINE n == Len(s)
           Upto(f, k) == /\ f[0] = << >>
                         /\ \A i \in 1 .. k : f[i] = AddBlock(f[i - 1], s[i])
           S == {k \in 0 .. n : \E f : Upto(f, k)}
<1>1. n \in Nat
  BY LenProperties
<1> HIDE DEF n
<1>2. 0 \in S
  <2>1. Upto([i \in 0 .. 0 |-> << >>], 0)
    OBVIOUS
  <2>2. 0 \in 0 .. n
    BY <1>1
  <2> HIDE DEF Upto
  <2>3. \E f : Upto(f, 0)
    BY <2>1
  <2> QED BY <2>2, <2>3
<1>3. ASSUME NEW k \in 0 .. n - 1, k \in S PROVE k + 1 \in S
  <2>1. PICK f : Upto(f, k)
    BY <1>3
  <2> DEFINE g == [i \in 0 .. k + 1 |->
                     IF i = k + 1 THEN AddBlock(f[k], s[k + 1]) ELSE f[i]]
  <2>2. g[0] = << >>
    BY <1>1, <2>1
  <2>3. ASSUME NEW i \in 1 .. k + 1 PROVE g[i] = AddBlock(g[i - 1], s[i])
    <3>1. i \in 0 .. k + 1 /\ i - 1 \in 0 .. k + 1 /\ i - 1 # k + 1
      BY <1>1
    <3>2. g[i - 1] = f[i - 1]
      BY <3>1
    <3>3. CASE i = k + 1
      BY <1>1, <3>1, <3>2, <3>3
    <3>4. CASE i \in 1 .. k
      BY <1>1, <2>1, <3>1, <3>2, <3>4
    <3> QED BY <1>1, <3>3, <3>4
  <2>4. Upto(g, k + 1)
    BY <2>2, <2>3
  <2>5. k + 1 \in 0 .. n
    BY <1>1
  <2> HIDE DEF g, Upto
  <2> QED BY <2>4, <2>5
<1>4. n \in S
  <2> HIDE DEF S
  <2>1. 0 .. n \subseteq S
    BY <1>1, <1>2, <1>3, IntervalInduction
  <2> QED BY <1>1, <2>1
<1>5. PICK f : Upto(f, n)
  BY <1>4
<1> DEFINE h == [i \in 0 .. n |-> f[i]]
           Rec(g) == g = [i \in 0 .. n |->
                            IF i = 0 THEN << >> ELSE AddBlock(g[i - 1], s[i])]
<1>6. Rec(h)
  <2>1. ASSUME NEW i \in 0 .. n
        PROVE  h[i] = IF i = 0 THEN << >> ELSE AddBlock(h[i - 1], s[i])
    <3>1. CASE i = 0
      BY <1>1, <1>5, <3>1
    <3>2. CASE i # 0
      <4>1. i \in 1 .. n /\ i - 1 \in 0 .. n
        BY <1>1, <3>2
      <4> QED BY <1>5, <3>2, <4>1
    <3> QED BY <3>1, <3>2
  <2> QED BY <2>1
<1> DEFINE m == CHOOSE g : Rec(g)
<1>7. MergeInTurn(s) = m[n]
  BY DEF MergeInTurn, n
<1>8. Rec(m)
  <2> HIDE DEF Rec, h
  <2> QED BY <1>6
<1> HIDE DEF m, h
<1>9. Merging(m, s)
  <2>1. m = [i \in 0 .. n |-> IF i = 0 THEN << >> ELSE AddBlock(m[i - 1], s[i])]
    BY <1>8
  <2>2. DOMAIN m = 0 .. n
    BY <2>1
  <2>3. m = [i \in 0 .. n |-> m[i]]
    BY <2>1
  <2>4. m[0] = << >>
    BY <1>1, <2>1
  <2>5. ASSUME NEW i \in 1 .. n PROVE m[i] = AddBlock(m[i - 1], s[i])
    <3>1. i \in 0 .. n /\ i # 0
      BY <1>1
    <3> QED BY <2>1, <3>1
  <2> QED BY <2>3, <2>4, <2>5 DEF Merging, n
<1> QED BY <1>7, <1>9 DEF n

\* The ends of an order.
LEMMA Ends ==
  ASSUME NEW P, NEW order \in Seq(P), order # << >>
  PROVE  /\ Len(order) \in Nat \ {0} /\ DOMAIN order = 1 .. Len(order)
         /\ ToSet(order) \subseteq P
         /\ Head(order) = order[1] /\ Head(order) \in ToSet(order)
         /\ Last(order) = order[Len(order)] /\ Last(order) \in ToSet(order)
<1>1. Len(order) \in Nat \ {0} /\ DOMAIN order = 1 .. Len(order)
  BY EmptySeq, LenProperties
<1>2. \A i \in 1 .. Len(order) : order[i] \in P
  BY <1>1, ElementOfSeq
<1>3. ToSet(order) \subseteq P
  BY <1>1, <1>2 DEF ToSet
<1>4. Head(order) = order[1] /\ 1 \in DOMAIN order /\ Len(order) \in DOMAIN order
  BY <1>1, HeadTailProperties
<1> QED BY <1>1, <1>3, <1>4 DEF Last, ToSet

\* The same from the newest to the oldest, and no post twice.
LEMMA DecreasingEnds ==
  ASSUME NEW P \in SUBSET Nat, NEW order \in Seq(P), order # << >>,
         Decreasing(order), NEW p \in ToSet(order)
  PROVE  Last(order) <= p /\ p <= Head(order)
<1>1. PICK i \in DOMAIN order : p = order[i]
  BY DEF ToSet
<1>2. /\ Len(order) \in Nat \ {0} /\ DOMAIN order = 1 .. Len(order)
      /\ ToSet(order) \subseteq P
      /\ Head(order) = order[1] /\ Head(order) \in ToSet(order)
      /\ Last(order) = order[Len(order)] /\ Last(order) \in ToSet(order)
  BY Ends
<1>3. \A x \in ToSet(order) : x \in Nat
  BY <1>2
<1>4. Head(order) \in Nat /\ Last(order) \in Nat /\ p \in Nat
  BY <1>2, <1>3
<1>5. i = 1 \/ order[1] > order[i]
  BY <1>1, <1>2 DEF Decreasing
<1>6. i = Len(order) \/ order[i] > order[Len(order)]
  BY <1>1, <1>2 DEF Decreasing
<1> QED BY <1>1, <1>2, <1>4, <1>5, <1>6

Sorted(s) == \A j, k \in DOMAIN s : j < k => Newest(s[j]) >= Newest(s[k])

\* Merged in turn from the most recent: no post is lost, and none comes in.
LEMMA MergedInTurn ==
  ASSUME NEW P \in SUBSET Nat, NEW T, BlockSet(T, P), MergeClosed(T),
         NEW s \in Seq(T), Sorted(s)
  PROVE  /\ MergeInTurn(s) \in Seq(T)
         /\ Held(MergeInTurn(s)) = Held(s)
<1>1. PICK f : Merging(f, s) /\ MergeInTurn(s) = f[Len(s)]
  BY MergingExists
<1> DEFINE n == Len(s)
           InT(i) == f[i] \in Seq(T)
           Done(i) == /\ InT(i)
                      /\ i = 0 => f[i] = << >>
                      /\ i # 0 => /\ f[i] # << >>
                                  /\ ToSet(s[i].order) \subseteq ToSet(Last(f[i]).order)
                      /\ \A p : p \in Held(f[i]) <=>
                                  \E j \in 1 .. i : p \in ToSet(s[j].order)
           S == {i \in 0 .. n : Done(i)}
<1>2. n \in Nat /\ DOMAIN s = 1 .. n /\ \A i \in 1 .. n : s[i] \in T
  BY ElementOfSeq, LenProperties
<1>3. Done(0)
  <2>1. f[0] = << >>
    BY <1>1 DEF Merging
  <2>2. \A p : p \notin Held(<< >>)
    BY DEF Held
  <2>3. \A p : ~ \E j \in 1 .. 0 : p \in ToSet(s[j].order)
    OBVIOUS
  <2> QED BY <2>1, <2>2, <2>3, EmptySeq
<1>4. ASSUME NEW i \in 0 .. n - 1, Done(i) PROVE Done(i + 1)
  <2>0. i \in Nat /\ i + 1 \in 1 .. n /\ (i + 1) - 1 = i
    BY <1>2
  <2>1. f[i + 1] = AddBlock(f[i], s[i + 1]) /\ s[i + 1] \in T
    BY <1>1, <1>2, <2>0 DEF Merging
  <2>2. Reaches(f[i], s[i + 1])
    <3>1. SUFFICES ASSUME f[i] # << >>
                   PROVE \E p \in ToSet(Last(f[i]).order) : p >= Newest(s[i + 1])
      BY DEF Reaches
    <3>2. i # 0 /\ i \in 1 .. n /\ s[i] \in T
      BY <1>2, <1>4, <2>0, <3>1
    <3>3. ToSet(s[i].order) \subseteq ToSet(Last(f[i]).order)
      BY <1>4, <3>2
    <3>4. s[i].order \in Seq(P) /\ s[i].order # << >>
      BY <3>2 DEF BlockSet, Block
    <3>5. Newest(s[i]) \in ToSet(s[i].order)
      BY <3>4, Ends DEF Newest
    <3>6. Newest(s[i]) >= Newest(s[i + 1])
      BY <1>2, <2>0, <3>2 DEF Sorted
    <3> QED BY <3>3, <3>5, <3>6
  <2>3. /\ f[i + 1] \in Seq(T) /\ f[i + 1] # << >>
        /\ Held(f[i + 1]) = Held(f[i]) \cup ToSet(s[i + 1].order)
        /\ ToSet(s[i + 1].order) \subseteq ToSet(Last(f[i + 1]).order)
    <3>1. f[i] \in Seq(T)
      BY <1>4
    <3> DEFINE done == f[i]
               b == s[i + 1]
    <3>2. done \in Seq(T) /\ b \in T /\ Reaches(done, b)
      BY <2>1, <2>2, <3>1
    <3>3. f[i + 1] = AddBlock(done, b)
      BY <2>1
    <3> HIDE DEF done, b
    <3>4. /\ AddBlock(done, b) \in Seq(T)
          /\ AddBlock(done, b) # << >>
          /\ Held(AddBlock(done, b)) = Held(done) \cup ToSet(b.order)
          /\ ToSet(b.order) \subseteq ToSet(Last(AddBlock(done, b)).order)
      BY <3>2, BlockAdded
    <3> QED BY <3>3, <3>4 DEF done, b
  <2>4. ASSUME NEW p
        PROVE  p \in Held(f[i + 1]) <=>
                 \E j \in 1 .. i + 1 : p \in ToSet(s[j].order)
    <3>1. p \in Held(f[i + 1]) <=> p \in Held(f[i]) \/ p \in ToSet(s[i + 1].order)
      BY <2>3
    <3>2. p \in Held(f[i]) <=> \E j \in 1 .. i : p \in ToSet(s[j].order)
      BY <1>4
    <3>3. \A j : j \in 1 .. i + 1 <=> j \in 1 .. i \/ j = i + 1
      BY <2>0
    <3> QED BY <3>1, <3>2, <3>3
  <2>5. i + 1 # 0
    BY <2>0
  <2> QED BY <2>3, <2>4, <2>5
<1>5. n \in S
  <2>1. 0 \in S
    BY <1>2, <1>3
  <2>2. ASSUME NEW i \in 0 .. n - 1, i \in S PROVE i + 1 \in S
    <3>1. Done(i) /\ i + 1 \in 0 .. n
      BY <1>2, <2>2
    <3> HIDE DEF Done
    <3> QED BY <1>4, <3>1
  <2> HIDE DEF S
  <2>3. 0 .. n \subseteq S
    BY <1>2, <2>1, <2>2, IntervalInduction
  <2> QED BY <1>2, <2>3
<1>6. Done(n)
  <2> HIDE DEF Done
  <2> QED BY <1>5
<1>7. \A p : p \in Held(f[n]) <=> p \in Held(s)
  BY <1>2, <1>6, HeldElements
<1>8. Held(f[n]) = Held(s)
  BY <1>7
<1> QED BY <1>1, <1>6, <1>8

\* mergePostBlocks keeps all posts, and its blocks are what merges make of the given.
LEMMA MergedBlocks ==
  ASSUME NEW P \in SUBSET Nat, NEW T, BlockSet(T, P), MergeClosed(T),
         NEW bs \in Seq(T)
  PROVE  /\ mergePostBlocks(bs) \in Seq(T)
         /\ Held(mergePostBlocks(bs)) = Held(bs)
<1> DEFINE s == LargestFirst(bs, DOMAIN bs, Newest)
<1>1. \A b \in T : Newest(b) \in Nat
  <2>1. SUFFICES ASSUME NEW b \in T PROVE Newest(b) \in Nat
    OBVIOUS
  <2>2. b.order \in Seq(P) /\ b.order # << >>
    BY DEF BlockSet, Block
  <2>3. Newest(b) \in P
    BY <2>2, Ends DEF Newest
  <2> QED BY <2>3
<1>2. /\ s \in Seq(T) /\ ToSet(s) = ToSet(bs)
      /\ \A j, k \in DOMAIN s : j < k => Newest(s[j]) >= Newest(s[k])
  <2> HIDE DEF s
  <2>1. s = LargestFirst(bs, DOMAIN bs, Newest)
    BY DEF s
  <2> QED BY <1>1, <2>1, BlocksSorted
<1> DEFINE m == MergeInTurn(s)
<1>3. m \in Seq(T) /\ Held(m) = Held(s)
  <2> HIDE DEF s
  <2>1. Sorted(s)
    BY <1>2 DEF Sorted
  <2> QED BY <1>2, <2>1, MergedInTurn
<1>4. Held(s) = Held(bs)
  <2> HIDE DEF s
  <2>1. \A p : p \in Held(s) <=> \E b \in ToSet(s) : p \in ToSet(b.order)
    BY HeldElements DEF ToSet
  <2>2. \A p : p \in Held(bs) <=> \E b \in ToSet(bs) : p \in ToSet(b.order)
    BY HeldElements DEF ToSet
  <2> QED BY <1>2, <2>1, <2>2
<1>5. mergePostBlocks(bs) = IF Len(m) = Len(bs) THEN bs ELSE m
  BY DEF mergePostBlocks
<1> HIDE DEF m, s
<1> QED BY <1>3, <1>4, <1>5
-----------------------------------------------------------------------------
(* The inductive invariant *)

\* Between two posts of an order, none is missing but these.
Covers(order, gaps) ==
  \A u, v \in ToSet(order) : \A p \in u .. v : p \in ToSet(order) \cup gaps

\* What was published since the app started.
Later == {p \in Nat : p > InitialPosts}

\* A block has posts, and lacks none between them that was there at the start.  A recent
\* block reaches that time, and one marked oldest the first post, which ends it.
Sound(block) ==
  /\ block.order # << >>
  /\ Covers(block.order, Later)
  /\ block.recent => \E p \in ToSet(block.order) : p >= InitialPosts
  /\ block.oldest => 1 \in ToSet(block.order)
  /\ 1 \in ToSet(block.order) => Oldest(block) = 1

SoundBlocks(n) == {b \in Block(1 .. n) : Sound(b)}

\* The posts from lo to hi, newest first.
Span(lo, hi) == [i \in 1 .. hi + 1 - lo |-> hi + 1 - i]

Pages == {"unreads", "prefetch", "latest", "reload", "around"}

\* What the answer to a request has, when n posts are published.
AnswerOK(q, n) ==
  \E lo \in 1 .. n + 1 : \E hi \in lo - 1 .. n :
    /\ q.order = Span(lo, hi)
    /\ q.kind \in Kinds
    /\ q.kind \in Pages => lo <= hi
    /\ q.kind = "before" => hi + 1 = q.arg
    /\ q.kind \in {"after", "sync"} => lo = q.arg + 1
    /\ q.kind = "sync" => q.time.at <= hi
    /\ q.latest \/ q.kind \in {"latest", "reload"} => lo <= hi /\ InitialPosts <= hi

RequestOK(q, n) ==
  /\ q.arg <= n
  /\ q.time.at <= n
  /\ q.tracked # 0 => q.arg = q.tracked
  /\ q.kind \in {"around", "before", "after"} => 1 <= q.arg
  /\ q.answered => AnswerOK(q, n)

\* Every post since the start is held, missed or still to be pushed.
PublishedKept ==
  \A p \in InitialPosts + 1 .. count : p \in Held(blocks) \cup missed \cup pending

RequestsOK ==
  /\ requests \in [Requests -> Request]
  /\ \A r \in Requests : RequestOK(requests[r], count)

CountersOK ==
  /\ count \in InitialPosts .. MaxPosts
  /\ pending \subseteq InitialPosts + 1 .. count
  /\ socket \in Sockets
  /\ lastGetPosts \in Times /\ lastGetPosts.at <= count
  /\ missed \subseteq Posts

Inv ==
  /\ CountersOK
  /\ RequestsOK
  /\ blocks \in Seq(SoundBlocks(count))
  /\ PublishedKept

-----------------------------------------------------------------------------
(* Blocks *)

\* Two orders that overlap lack between them only what each lacks.
LEMMA CoversMerged ==
  ASSUME NEW P \in SUBSET Nat, NEW l \in Seq(P), NEW r \in Seq(P), NEW m, NEW gaps,
         l # << >>, r # << >>, Covers(l, gaps), Covers(r, gaps),
         NEW top \in ToSet(l), top >= Head(r), Last(l) <= Head(r),
         ToSet(m) = ToSet(l) \cup ToSet(r)
  PROVE  Covers(m, gaps)
<1>1. /\ Last(l) \in ToSet(l) /\ Head(r) \in ToSet(r)
      /\ ToSet(l) \subseteq P /\ ToSet(r) \subseteq P
  BY Ends
<1>2. \A x \in ToSet(l) \cup ToSet(r) : x \in Nat
  BY <1>1
<1>3. Last(l) \in Nat /\ Head(r) \in Nat /\ top \in Nat
  BY <1>1, <1>2
<1>4. ASSUME NEW u \in ToSet(m), NEW v \in ToSet(m), NEW p \in u .. v
      PROVE  p \in ToSet(m) \cup gaps
  <2>0. u \in Nat /\ v \in Nat /\ p \in Nat /\ u <= p /\ p <= v
    BY <1>2
  <2>1. SUFFICES \/ p \in ToSet(l) \cup gaps
                 \/ p \in ToSet(r) \cup gaps
    OBVIOUS
  <2>2. ASSUME NEW x \in ToSet(l), NEW y \in ToSet(l), x <= p, p <= y
        PROVE  p \in ToSet(l) \cup gaps
    <3>1. p \in x .. y
      BY <1>2, <2>0, <2>2
    <3> QED BY <3>1 DEF Covers
  <2>3. ASSUME NEW x \in ToSet(r), NEW y \in ToSet(r), x <= p, p <= y
        PROVE  p \in ToSet(r) \cup gaps
    <3>1. p \in x .. y
      BY <1>2, <2>0, <2>3
    <3> QED BY <3>1 DEF Covers
  <2>4. CASE u \in ToSet(l) /\ v \in ToSet(l)
    BY <2>0, <2>2, <2>4
  <2>5. CASE u \in ToSet(r) /\ v \in ToSet(r)
    BY <2>0, <2>3, <2>5
  <2>6. CASE u \in ToSet(l) /\ v \in ToSet(r)
    <3>1. p <= top \/ Head(r) <= p
      BY <1>3, <2>0
    <3> QED BY <1>1, <2>0, <2>2, <2>3, <2>6, <3>1
  <2>7. CASE u \in ToSet(r) /\ v \in ToSet(l)
    <3>1. p <= Head(r) \/ Last(l) <= p
      BY <1>3, <2>0
    <3> QED BY <1>1, <2>0, <2>2, <2>3, <2>7, <3>1
  <2> QED BY <2>4, <2>5, <2>6, <2>7
<1> QED BY <1>4 DEF Covers

\* A sound block, and what it has.
LEMMA SoundBlock ==
  ASSUME NEW n \in Nat, NEW b \in SoundBlocks(n)
  PROVE  /\ b \in Block(1 .. n) /\ b.order \in Seq(1 .. n) /\ Sound(b)
         /\ b.order # << >>
         /\ b.recent \in BOOLEAN /\ b.oldest \in BOOLEAN
         /\ Newest(b) \in ToSet(b.order) /\ Oldest(b) \in ToSet(b.order)
         /\ ToSet(b.order) \subseteq 1 .. n
<1>1. b \in Block(1 .. n) /\ Sound(b)
  BY DEF SoundBlocks
<1>2. /\ b.order \in Seq(1 .. n) /\ b.order # << >>
      /\ b.recent \in BOOLEAN /\ b.oldest \in BOOLEAN
  BY <1>1 DEF Block, Sound
<1>3. /\ Head(b.order) \in ToSet(b.order) /\ Last(b.order) \in ToSet(b.order)
      /\ ToSet(b.order) \subseteq 1 .. n
  BY <1>2, Ends
<1> QED BY <1>1, <1>2, <1>3 DEF Newest, Oldest

LEMMA SoundSet ==
  ASSUME NEW n \in Nat
  PROVE  BlockSet(SoundBlocks(n), 1 .. n)
BY DEF BlockSet, SoundBlocks, Sound

\* What is made of two sound blocks that overlap is sound.
LEMMA MergeSound ==
  ASSUME NEW n \in Nat
  PROVE  MergeClosed(SoundBlocks(n))
<1> SUFFICES ASSUME NEW a \in SoundBlocks(n), NEW b \in SoundBlocks(n),
                    NEW top \in ToSet(a.order), top >= Newest(b), Overlap(a, b)
             PROVE  Merge(a, b) \in SoundBlocks(n)
  BY DEF MergeClosed
<1> DEFINE m == mergePostOrder(a.order, b.order)
<1>1. /\ a \in Block(1 .. n) /\ a.order \in Seq(1 .. n) /\ a.order # << >> /\ Sound(a)
      /\ b \in Block(1 .. n) /\ b.order \in Seq(1 .. n) /\ b.order # << >> /\ Sound(b)
      /\ Newest(b) \in ToSet(b.order)
  BY SoundBlock
<1>2. 1 .. n \in SUBSET Nat
  OBVIOUS
<1>3. /\ m \in Seq(1 .. n)
      /\ ToSet(m) = ToSet(a.order) \cup ToSet(b.order)
      /\ \/ m = a.order /\ ToSet(b.order) \subseteq ToSet(a.order)
         \/ \A j, k \in DOMAIN m : j < k => m[j] >= m[k]
  BY <1>1, <1>2, OrderMerged
<1>4. /\ Merge(a, b) \in Block(1 .. n)
      /\ Merge(a, b).order = m
      /\ Merge(a, b).recent = (a.recent \/ b.recent)
      /\ Merge(a, b).oldest = (a.oldest \/ b.oldest)
  <2>1. Merge(a, b) \in Block(1 .. n)
    BY <1>1, <1>2, MergeOrder
  <2> QED BY <2>1 DEF Merge
<1> HIDE DEF m
<1>5. m # << >>
  <2>1. ToSet(m) # {}
    BY <1>3
  <2>2. ToSet(<< >>) = {}
    BY DEF ToSet
  <2> QED BY <2>1, <2>2
<1>6. Covers(m, Later)
  <2>1. /\ Covers(a.order, Later) /\ Covers(b.order, Later)
        /\ top >= Head(b.order) /\ Last(a.order) <= Head(b.order)
    BY <1>1 DEF Sound, Newest, Oldest, Overlap
  <2> QED BY <1>1, <1>2, <1>3, <2>1, CoversMerged
<1>7. a.recent \/ b.recent => \E p \in ToSet(m) : p >= InitialPosts
  BY <1>1, <1>3 DEF Sound
<1>8. a.oldest \/ b.oldest => 1 \in ToSet(m)
  BY <1>1, <1>3 DEF Sound
<1>9. ASSUME 1 \in ToSet(m) PROVE Last(m) = 1
  <2>1. CASE m = a.order /\ ToSet(b.order) \subseteq ToSet(a.order)
    BY <1>1, <1>9, <2>1 DEF Sound, Oldest
  <2>2. CASE \A j, k \in DOMAIN m : j < k => m[j] >= m[k]
    <3>1. PICK i \in DOMAIN m : m[i] = 1
      BY <1>9 DEF ToSet
    <3>2. /\ Len(m) \in Nat \ {0} /\ DOMAIN m = 1 .. Len(m)
          /\ ToSet(m) \subseteq 1 .. n
          /\ Last(m) = m[Len(m)] /\ Last(m) \in ToSet(m)
      BY <1>3, <1>5, Ends
    <3>3. i = Len(m) \/ m[i] >= m[Len(m)]
      BY <2>2, <3>1, <3>2
    <3>4. m[Len(m)] \in 1 .. n
      BY <3>2
    <3> QED BY <3>1, <3>2, <3>3, <3>4
  <2> QED BY <1>3, <2>1, <2>2
<1>10. Sound(Merge(a, b))
  BY <1>4, <1>5, <1>6, <1>7, <1>8, <1>9 DEF Sound, Oldest
<1> QED BY <1>4, <1>10 DEF SoundBlocks

\* The recent block is one of the blocks.
LEMMA RecentFound ==
  ASSUME NEW T, NEW bs \in Seq(T), HasRecent(bs)
  PROVE  /\ RecentIndex(bs) \in 1 .. Len(bs)
         /\ RecentBlock(bs) \in T
         /\ RecentBlock(bs).recent
<1> DEFINE I == {i \in 1 .. Len(bs) : bs[i].recent}
<1>1. Len(bs) \in Nat /\ DOMAIN bs = 1 .. Len(bs)
  BY LenProperties
<1>2. I # {} /\ I \in SUBSET Nat
  BY <1>1 DEF HasRecent
<1>3. RecentIndex(bs) = CHOOSE x \in I : \A y \in I : x <= y
  <2>1. RecentIndex(bs) = IF I # {} THEN CHOOSE x \in I : \A y \in I : x <= y ELSE 0
    BY DEF RecentIndex, SelectInSeq, Min
  <2> QED BY <1>2, <2>1
<1>4. \E x \in I : \A y \in I : x <= y
  <2> HIDE DEF I
  <2> QED BY <1>2, LeastElement
<1>5. RecentIndex(bs) \in I
  <2> HIDE DEF I
  <2> QED BY <1>3, <1>4
<1>6. RecentIndex(bs) \in 1 .. Len(bs) /\ bs[RecentIndex(bs)].recent
  BY <1>5
<1> QED BY <1>6, ElementOfSeq DEF RecentBlock

\* A block in the place of another that it contains.
LEMMA HeldExcept ==
  ASSUME NEW T, NEW bs \in Seq(T), NEW i \in 1 .. Len(bs), NEW c \in T,
         ToSet(bs[i].order) \subseteq ToSet(c.order)
  PROVE  /\ [bs EXCEPT ![i] = c] \in Seq(T)
         /\ Held(bs) \cup ToSet(c.order) \subseteq Held([bs EXCEPT ![i] = c])
<1> DEFINE es == [bs EXCEPT ![i] = c]
<1>1. /\ es \in Seq(T) /\ Len(es) = Len(bs)
      /\ \A j \in 1 .. Len(bs) : es[j] = IF j = i THEN c ELSE bs[j]
  BY ExceptSeq
<1>2. DOMAIN bs = 1 .. Len(bs) /\ DOMAIN es = 1 .. Len(bs)
  <2> HIDE DEF es
  <2> QED BY <1>1, LenProperties
<1> HIDE DEF es
<1>3. \A p \in ToSet(c.order) : p \in Held(es)
  BY <1>1, <1>2, HeldElements
<1>4. ASSUME NEW p \in Held(bs) PROVE p \in Held(es)
  <2>1. PICK j \in 1 .. Len(bs) : p \in ToSet(bs[j].order)
    BY <1>2, HeldElements
  <2>2. CASE j = i
    BY <1>3, <2>1, <2>2
  <2>3. CASE j # i
    BY <1>1, <1>2, <2>1, <2>3, HeldElements
  <2> QED BY <2>2, <2>3
<1> QED BY <1>1, <1>3, <1>4 DEF es

\* A span, and what one more post at an end makes of it.
LEMMA Spans ==
  ASSUME NEW lo \in Nat, NEW hi \in Nat, lo <= hi
  PROVE  /\ Span(lo, hi) \in Seq(lo .. hi)
         /\ Span(lo, hi) # << >>
         /\ ToSet(Span(lo, hi)) = lo .. hi
         /\ Decreasing(Span(lo, hi))
         /\ Head(Span(lo, hi)) = hi
         /\ Last(Span(lo, hi)) = lo
<1> DEFINE n == hi + 1 - lo
           s == Span(lo, hi)
<1>1. n \in Nat \ {0} /\ s = [i \in 1 .. n |-> hi + 1 - i]
  BY DEF Span
<1> HIDE DEF s
<1>2. s \in [1 .. n -> lo .. hi]
  BY <1>1
<1>3. /\ s \in Seq(lo .. hi) /\ Len(s) = n /\ DOMAIN s = 1 .. n
  <2> HIDE DEF n
  <2> QED BY <1>1, <1>2, WholeSequence
<1>4. s # << >>
  BY <1>1, <1>3, EmptySeq
<1>5. ToSet(s) = lo .. hi
  <2>1. ToSet(s) \subseteq lo .. hi
    BY <1>2, <1>3 DEF ToSet
  <2>2. ASSUME NEW p \in lo .. hi PROVE p \in ToSet(s)
    <3>1. hi + 1 - p \in 1 .. n /\ s[hi + 1 - p] = p
      BY <1>1
    <3> QED BY <1>3, <3>1 DEF ToSet
  <2> QED BY <2>1, <2>2
<1>6. Decreasing(s)
  BY <1>1 DEF Decreasing
<1>7. s[1] = hi /\ s[n] = lo
  BY <1>1
<1>8. Head(s) = hi /\ Last(s) = lo
  <2>1. Head(s) = s[1] /\ Last(s) = s[n]
    BY <1>3, <1>4, Ends DEF Last
  <2> QED BY <1>7, <2>1
<1> QED BY <1>3, <1>4, <1>5, <1>6, <1>8 DEF s

LEMMA SpanEmpty ==
  ASSUME NEW lo \in Nat, NEW hi \in Int, hi < lo
  PROVE  Span(lo, hi) = << >>
<1>1. 1 .. hi + 1 - lo = {} /\ 1 .. 0 = {}
  OBVIOUS
<1>2. DOMAIN Span(lo, hi) = 1 .. 0
  BY <1>1 DEF Span
<1>3. Span(lo, hi) \in [1 .. 0 -> Nat]
  BY <1>1 DEF Span
<1>4. Span(lo, hi) \in Seq(Nat) /\ Len(Span(lo, hi)) = 0
  BY <1>3, WholeSequence
<1> QED BY <1>4, EmptySeq

LEMMA SpanMore ==
  ASSUME NEW lo \in Nat, NEW hi \in Nat, lo <= hi
  PROVE  /\ <<hi + 1>> \o Span(lo, hi) = Span(lo, hi + 1)
         /\ lo > 0 => Append(Span(lo, hi), lo - 1) = Span(lo - 1, hi)
<1>1. /\ Span(lo, hi) \in Seq(Nat) /\ Len(Span(lo, hi)) = hi + 1 - lo
      /\ \A i \in 1 .. hi + 1 - lo : Span(lo, hi)[i] = hi + 1 - i
  <2>1. Span(lo, hi) \in [1 .. hi + 1 - lo -> Nat]
    BY DEF Span
  <2>2. \A i \in 1 .. hi + 1 - lo : Span(lo, hi)[i] = hi + 1 - i
    BY DEF Span
  <2> QED BY <2>1, <2>2, WholeSequence
<1>2. <<hi + 1>> \o Span(lo, hi) = Span(lo, hi + 1)
  <2>1. Span(lo, hi + 1) \in [1 .. hi + 2 - lo -> Nat]
    BY DEF Span
  <2>2. \A i \in 1 .. hi + 2 - lo : Span(lo, hi + 1)[i] = hi + 2 - i
    BY DEF Span
  <2>3. Span(lo, hi + 1) \in Seq(Nat) /\ Len(Span(lo, hi + 1)) = hi + 2 - lo
    BY <2>1, WholeSequence
  <2>4. <<hi + 1>> \in Seq(Nat) /\ Len(<<hi + 1>>) = 1 /\ <<hi + 1>>[1] = hi + 1
    OBVIOUS
  <2> DEFINE a == <<hi + 1>>
             b == Span(lo, hi)
  <2>5. a \in Seq(Nat) /\ b \in Seq(Nat) /\ Len(a) = 1 /\ a[1] = hi + 1
        /\ Len(b) = hi + 1 - lo /\ \A i \in 1 .. hi + 1 - lo : b[i] = hi + 1 - i
    BY <1>1, <2>4
  <2> HIDE DEF a, b
  <2>6. /\ a \o b \in Seq(Nat) /\ Len(a \o b) = hi + 2 - lo
        /\ \A i \in 1 .. hi + 2 - lo :
             (a \o b)[i] = IF i <= 1 THEN a[i] ELSE b[i - 1]
    <3>1. /\ a \o b \in Seq(Nat) /\ Len(a \o b) = Len(a) + Len(b)
          /\ \A i \in 1 .. Len(a) + Len(b) :
               (a \o b)[i] = IF i <= Len(a) THEN a[i] ELSE b[i - Len(a)]
      BY <2>5, ConcatProperties
    <3>2. Len(a) = 1 /\ Len(a) + Len(b) = hi + 2 - lo
      BY <2>5
    <3> QED BY <3>1, <3>2
  <2>7. ASSUME NEW i \in 1 .. hi + 2 - lo PROVE (a \o b)[i] = hi + 2 - i
    <3>1. CASE i <= 1
      <4>1. i = 1
        BY <3>1
      <4> QED BY <2>5, <2>6, <4>1
    <3>2. CASE ~(i <= 1)
      <4>1. i - 1 \in 1 .. hi + 1 - lo
        BY <3>2
      <4> QED BY <2>5, <2>6, <3>2, <4>1
    <3> QED BY <3>1, <3>2
  <2> DEFINE c == Span(lo, hi + 1)
             d == a \o b
  <2>8. /\ c \in Seq(Nat) /\ d \in Seq(Nat) /\ Len(c) = Len(d)
        /\ \A i \in 1 .. Len(d) : d[i] = c[i]
    <3>1. \A i \in 1 .. hi + 2 - lo : d[i] = c[i]
      BY <2>2, <2>7
    <3> HIDE DEF c, d
    <3>2. /\ c \in Seq(Nat) /\ Len(c) = hi + 2 - lo
          /\ d \in Seq(Nat) /\ Len(d) = hi + 2 - lo
      BY <2>3, <2>6 DEF c, d
    <3> QED BY <3>1, <3>2
  <2>9. d = c
    <3>1. c \in Seq(Nat) /\ d \in Seq(Nat) /\ Len(d) = Len(c)
      BY <2>8
    <3>2. \A i \in 1 .. Len(d) : d[i] = c[i]
      BY <2>8
    <3> HIDE DEF c, d
    <3> QED BY <3>1, <3>2, SeqEqual
  <2> QED BY <2>9 DEF a, b
<1>3. ASSUME lo > 0 PROVE Append(Span(lo, hi), lo - 1) = Span(lo - 1, hi)
  <2>0. lo - 1 \in Nat
    BY <1>3
  <2>1. Span(lo - 1, hi) \in [1 .. hi + 2 - lo -> Nat]
    BY <2>0 DEF Span
  <2>2. \A i \in 1 .. hi + 2 - lo : Span(lo - 1, hi)[i] = hi + 1 - i
    BY <2>0 DEF Span
  <2>3. Span(lo - 1, hi) \in Seq(Nat) /\ Len(Span(lo - 1, hi)) = hi + 2 - lo
    BY <2>1, WholeSequence
  <2> DEFINE b == Span(lo, hi)
  <2>4. /\ b \in Seq(Nat) /\ Len(b) = hi + 1 - lo
        /\ \A i \in 1 .. hi + 1 - lo : b[i] = hi + 1 - i
    BY <1>1
  <2> HIDE DEF b
  <2>5. /\ Append(b, lo - 1) \in Seq(Nat) /\ Len(Append(b, lo - 1)) = Len(b) + 1
        /\ \A i \in 1 .. Len(b) : Append(b, lo - 1)[i] = b[i]
        /\ Append(b, lo - 1)[Len(b) + 1] = lo - 1
    BY <2>0, <2>4, AppendProperties
  <2>6. ASSUME NEW i \in 1 .. hi + 2 - lo PROVE Append(b, lo - 1)[i] = hi + 1 - i
    <3>1. i = Len(b) + 1 \/ i \in 1 .. Len(b)
      BY <2>4
    <3> QED BY <2>4, <2>5, <3>1
  <2>7. Len(Append(b, lo - 1)) = hi + 2 - lo
    BY <2>4, <2>5
  <2>8. Append(b, lo - 1) = Span(lo - 1, hi)
    BY <2>2, <2>3, <2>5, <2>6, <2>7, SeqEqual
  <2> QED BY <2>8 DEF b
<1> QED BY <1>2, <1>3

SpanBlock(lo, hi, recent, oldest) ==
  [order |-> Span(lo, hi), recent |-> recent, oldest |-> oldest]

\* A span of posts is a sound block.
LEMMA SpanSound ==
  ASSUME NEW n \in Nat, NEW lo \in 1 .. n, NEW hi \in lo .. n,
         NEW recent \in BOOLEAN, recent => InitialPosts <= hi,
         NEW oldest \in BOOLEAN, oldest => lo = 1
  PROVE  SpanBlock(lo, hi, recent, oldest) \in SoundBlocks(n)
<1> DEFINE b == SpanBlock(lo, hi, recent, oldest)
<1>1. /\ b.order = Span(lo, hi) /\ b.recent = recent /\ b.oldest = oldest
      /\ b \in [order : {Span(lo, hi)}, recent : BOOLEAN, oldest : BOOLEAN]
  BY DEF SpanBlock
<1> HIDE DEF b
<1>2. lo \in Nat /\ hi \in Nat /\ lo <= hi /\ 1 <= lo /\ hi <= n
  OBVIOUS
<1>3. /\ b.order \in Seq(lo .. hi) /\ b.order # << >> /\ ToSet(b.order) = lo .. hi
      /\ Last(b.order) = lo
  BY <1>1, <1>2, Spans
<1>4. lo .. hi \subseteq 1 .. n
  BY <1>2
<1>5. b.order \in Seq(1 .. n)
  BY <1>3, <1>4, SeqMonotonic
<1>6. b \in Block(1 .. n)
  BY <1>1, <1>5 DEF Block
<1>7. Covers(b.order, Later)
  BY <1>2, <1>3 DEF Covers
<1>8. b.recent => \E p \in ToSet(b.order) : p >= InitialPosts
  <2>1. hi \in ToSet(b.order)
    BY <1>2, <1>3
  <2> QED BY <1>1, <1>2, <2>1
<1>9. b.oldest => 1 \in ToSet(b.order)
  BY <1>1, <1>2, <1>3
<1>10. 1 \in ToSet(b.order) => Oldest(b) = 1
  BY <1>2, <1>3 DEF Oldest
<1>11. Sound(b)
  BY <1>3, <1>7, <1>8, <1>9, <1>10 DEF Sound
<1> QED BY <1>6, <1>11 DEF SoundBlocks, b

-----------------------------------------------------------------------------
(* The actions of the reducer *)

\* A set of blocks in which each may lose the mark of a recent one.
Unmarkable(T) == \A b \in T : [b EXCEPT !.recent = FALSE] \in T

\* A page of its own, older posts or newer ones: no post is dropped.
LEMMA BlockAppended ==
  ASSUME NEW P \in SUBSET Nat, NEW T, BlockSet(T, P), MergeClosed(T),
         NEW bs \in Seq(T), NEW b \in T
  PROVE  /\ mergePostBlocks(Append(bs, b)) \in Seq(T)
         /\ Held(bs) \subseteq Held(mergePostBlocks(Append(bs, b)))
<1>1. Append(bs, b) \in Seq(T)
  BY AppendProperties
<1>2. Held(bs) \subseteq Held(Append(bs, b))
  BY HeldAppend
<1> QED BY <1>1, <1>2, MergedBlocks

LEMMA PageReceived ==
  ASSUME NEW P \in SUBSET Nat, NEW T, BlockSet(T, P), MergeClosed(T), Unmarkable(T),
         NEW bs \in Seq(T), NEW order, NEW recent, NEW oldest,
         [order |-> order, recent |-> recent, oldest |-> oldest] \in T
  PROVE  /\ ReceivedPostsInChannel(bs, order, recent, oldest) \in Seq(T)
         /\ Held(bs) \subseteq Held(ReceivedPostsInChannel(bs, order, recent, oldest))
<1> DEFINE page == [order |-> order, recent |-> recent, oldest |-> oldest]
           i == RecentIndex(bs)
           unmarked == [bs EXCEPT ![i].recent = FALSE]
           new == ReceivedPostsInChannel(bs, order, recent, oldest)
<1>1. \/ new = bs
      \/ new = mergePostBlocks(Append(bs, page))
      \/ HasRecent(bs) /\ new = mergePostBlocks(Append(unmarked, page))
  BY DEF ReceivedPostsInChannel
<1>2. page \in T
  OBVIOUS
<1> HIDE DEF page, new
<1>3. CASE new = bs
  BY <1>3 DEF new
<1>4. CASE new = mergePostBlocks(Append(bs, page))
  BY <1>2, <1>4, BlockAppended DEF new
<1>5. CASE HasRecent(bs) /\ new = mergePostBlocks(Append(unmarked, page))
  <2>1. i \in 1 .. Len(bs) /\ bs[i] \in T
    BY <1>5, RecentFound DEF RecentBlock
  <2> DEFINE c == [bs[i] EXCEPT !.recent = FALSE]
  <2>2. c \in T
    BY <2>1 DEF Unmarkable
  <2>3. c.order = bs[i].order
    BY <2>1 DEF BlockSet, Block
  <2>4. unmarked = [bs EXCEPT ![i] = c]
    OBVIOUS
  <2> HIDE DEF c, i, unmarked
  <2>5. unmarked \in Seq(T) /\ Held(bs) \subseteq Held(unmarked)
    <3>1. ToSet(bs[i].order) \subseteq ToSet(c.order)
      BY <2>3
    <3> QED BY <2>1, <2>2, <2>4, <3>1, HeldExcept
  <2>6. /\ new \in Seq(T)
        /\ Held(unmarked) \subseteq Held(new)
    BY <1>2, <1>5, <2>5, BlockAppended
  <2> QED BY <2>5, <2>6 DEF new
<1> QED BY <1>1, <1>3, <1>4, <1>5

LEMMA UnmarkSound ==
  ASSUME NEW n \in Nat
  PROVE  Unmarkable(SoundBlocks(n))
<1> SUFFICES ASSUME NEW b \in SoundBlocks(n)
             PROVE  [b EXCEPT !.recent = FALSE] \in SoundBlocks(n)
  BY DEF Unmarkable
<1> DEFINE c == [b EXCEPT !.recent = FALSE]
<1>1. b \in Block(1 .. n) /\ Sound(b)
  BY SoundBlock
<1>2. /\ c \in Block(1 .. n)
      /\ c.order = b.order /\ c.recent = FALSE /\ c.oldest = b.oldest
  BY <1>1 DEF Block
<1> HIDE DEF c
<1>3. Sound(c)
  BY <1>1, <1>2 DEF Sound, Oldest
<1> QED BY <1>2, <1>3 DEF SoundBlocks, c

\* The blocks of one moment are sound later.
LEMMA SoundLater ==
  ASSUME NEW n \in Nat, NEW m \in Nat, n <= m
  PROVE  SoundBlocks(n) \subseteq SoundBlocks(m)
<1> SUFFICES ASSUME NEW b \in SoundBlocks(n)
             PROVE  b \in SoundBlocks(m)
  OBVIOUS
<1>1. b \in Block(1 .. n) /\ Sound(b) /\ b.order \in Seq(1 .. n)
  BY SoundBlock
<1>2. 1 .. n \subseteq 1 .. m
  OBVIOUS
<1>3. b.order \in Seq(1 .. m)
  BY <1>1, <1>2, SeqMonotonic
<1>4. b \in Block(1 .. m)
  BY <1>1, <1>3 DEF Block
<1> QED BY <1>1, <1>4 DEF SoundBlocks

\* A post that is pushed is held, if the channel is loaded.
LEMMA NewPostReceived ==
  ASSUME NEW n \in Nat, NEW bs \in Seq(SoundBlocks(n)), NEW p \in 1 .. n,
         InitialPosts < p
  PROVE  /\ ReceivedNewPost(bs, p) \in Seq(SoundBlocks(n))
         /\ Held(bs) \subseteq Held(ReceivedNewPost(bs, p))
         /\ bs # << >> => p \in Held(ReceivedNewPost(bs, p))
<1> DEFINE new == ReceivedNewPost(bs, p)
           i == RecentIndex(bs)
           T == SoundBlocks(n)
<1>0. InitialPosts \in Nat \ {0} /\ p \in Nat /\ p <= n
  BY ChannelPostsAssumption
<1>1. CASE bs = << >>
  BY <1>1 DEF ReceivedNewPost
<1>2. CASE bs # << >> /\ ~HasRecent(bs)
  <2>1. new = Append(bs, [order |-> <<p>>, recent |-> TRUE, oldest |-> FALSE])
    BY <1>2 DEF ReceivedNewPost
  <2>2. Span(p, p) = <<p>>
    <3>1. p + 1 - p = 1
      BY <1>0
    <3>2. Span(p, p) = [j \in 1 .. 1 |-> p + 1 - j]
      BY <3>1 DEF Span
    <3> QED BY <1>0, <3>2
  <2>3. SpanBlock(p, p, TRUE, FALSE) \in T
    <3>1. p \in p .. n /\ InitialPosts <= p
      BY <1>0
    <3> HIDE DEF new, i
    <3>2. TRUE => InitialPosts <= p
      BY <3>1
    <3>3. FALSE => p = 1
      OBVIOUS
    <3> DEFINE yes == TRUE
               no == FALSE
    <3>4. yes \in BOOLEAN /\ no \in BOOLEAN
      OBVIOUS
    <3>5. (yes => InitialPosts <= p) /\ (no => p = 1)
      BY <3>2
    <3> HIDE DEF yes, no
    <3>6. SpanBlock(p, p, yes, no) \in T
      BY <3>1, <3>4, <3>5, SpanSound
    <3> QED BY <3>6 DEF yes, no
  <2> DEFINE b == SpanBlock(p, p, TRUE, FALSE)
  <2>4. new = Append(bs, b) /\ b \in T
    BY <2>1, <2>2, <2>3 DEF SpanBlock
  <2>5. p \in ToSet(b.order)
    BY <1>0, Spans DEF SpanBlock
  <2> HIDE DEF b, new, T
  <2>6. new \in Seq(T) /\ Held(new) = Held(bs) \cup ToSet(b.order)
    BY <2>4, AppendProperties, HeldAppend DEF T
  <2> QED BY <2>5, <2>6 DEF new, T
<1>3. CASE HasRecent(bs) /\ p \in ToSet(RecentBlock(bs).order)
  <2>1. i \in DOMAIN bs
    BY <1>3, RecentFound, LenProperties
  <2>2. p \in Held(bs)
    BY <1>3, <2>1, HeldElements DEF RecentBlock
  <2>3. new = bs
    BY <1>3 DEF ReceivedNewPost
  <2> QED BY <2>2, <2>3
<1>4. CASE bs # << >> /\ HasRecent(bs) /\ p \notin ToSet(RecentBlock(bs).order)
  <2> DEFINE b == bs[i]
             c == [b EXCEPT !.order = <<p>> \o @]
  <2>1. new = [bs EXCEPT ![i] = c]
    BY <1>4 DEF ReceivedNewPost
  <2>2. i \in 1 .. Len(bs) /\ b \in T /\ b.recent
    BY <1>4, RecentFound DEF RecentBlock
  <2> HIDE DEF b, i
  <2>3. /\ b \in Block(1 .. n) /\ b.order \in Seq(1 .. n) /\ Sound(b)
        /\ b.order # << >>
        /\ ToSet(b.order) \subseteq 1 .. n
    BY <2>2, SoundBlock
  <2>4. /\ c.order = <<p>> \o b.order /\ c.recent = b.recent /\ c.oldest = b.oldest
    BY <2>3 DEF Block
  <2>5. /\ c.order \in Seq(1 .. n) /\ c.order # << >>
        /\ ToSet(c.order) = {p} \cup ToSet(b.order)
        /\ Last(c.order) = Last(b.order)
    <3>1. <<p>> \in Seq(1 .. n) /\ Len(<<p>>) = 1 /\ <<p>>[1] = p
      BY <1>0
    <3> DEFINE a == <<p>>
               l == b.order
               s == a \o l
    <3>2. /\ a \in Seq(1 .. n) /\ l \in Seq(1 .. n) /\ l # << >>
          /\ Len(a) = 1 /\ a[1] = p
      BY <2>3, <3>1
    <3>3. s = c.order
      BY <2>4
    <3> HIDE DEF a, l
    <3>4. /\ s \in Seq(1 .. n) /\ Len(s) = Len(l) + 1 /\ DOMAIN s = 1 .. Len(l) + 1
          /\ s[1] = p
          /\ \A j \in 1 .. Len(l) : s[j + 1] = l[j]
          /\ Len(l) \in Nat \ {0} /\ DOMAIN l = 1 .. Len(l)
      <4>1. /\ s \in Seq(1 .. n) /\ Len(s) = Len(a) + Len(l)
            /\ \A j \in 1 .. Len(a) + Len(l) :
                 s[j] = IF j <= Len(a) THEN a[j] ELSE l[j - Len(a)]
        BY <3>2, ConcatProperties
      <4>2. Len(l) \in Nat \ {0} /\ DOMAIN l = 1 .. Len(l)
        BY <3>2, Ends
      <4> HIDE DEF s
      <4>3. DOMAIN s = 1 .. Len(s)
        BY <4>1, LenProperties
      <4>4. s[1] = p
        BY <3>2, <4>1, <4>2
      <4>5. ASSUME NEW j \in 1 .. Len(l) PROVE s[j + 1] = l[j]
        <5>1. /\ j + 1 \in 1 .. Len(a) + Len(l) /\ ~(j + 1 <= Len(a))
              /\ (j + 1) - Len(a) = j
          BY <3>2, <4>2
        <5> QED BY <4>1, <5>1
      <4> QED BY <3>2, <4>1, <4>2, <4>3, <4>4, <4>5
    <3> HIDE DEF s
    <3>5. s # << >>
      BY <3>4, EmptySeq
    <3>6. ToSet(s) \subseteq {p} \cup ToSet(l)
      <4>1. ASSUME NEW j \in 1 .. Len(l) + 1 PROVE s[j] \in {p} \cup ToSet(l)
        <5>1. CASE j = 1
          BY <3>4, <5>1
        <5>2. CASE j # 1
          <6>1. j - 1 \in 1 .. Len(l) /\ (j - 1) + 1 = j
            BY <3>4, <5>2
          <6>2. s[j] = l[j - 1]
            BY <3>4, <6>1
          <6> QED BY <3>4, <6>1, <6>2 DEF ToSet
        <5> QED BY <5>1, <5>2
      <4> QED BY <3>4, <4>1 DEF ToSet
    <3>7. {p} \cup ToSet(l) \subseteq ToSet(s)
      <4>1. 1 \in DOMAIN s /\ \A j \in 1 .. Len(l) : j + 1 \in DOMAIN s
        BY <3>4
      <4>2. p \in ToSet(s)
        BY <3>4, <4>1 DEF ToSet
      <4>3. ASSUME NEW j \in 1 .. Len(l) PROVE l[j] \in ToSet(s)
        <5>1. j + 1 \in DOMAIN s /\ s[j + 1] = l[j]
          BY <3>4, <4>1
        <5> QED BY <5>1 DEF ToSet
      <4> QED BY <3>4, <4>2, <4>3 DEF ToSet
    <3>8. Last(s) = Last(l)
      BY <3>4 DEF Last
    <3> QED BY <3>3, <3>4, <3>5, <3>6, <3>7, <3>8 DEF l
  <2>6. c \in Block(1 .. n)
    BY <2>3, <2>4, <2>5 DEF Block
  <2> HIDE DEF c
  <2>7. Covers(c.order, Later)
    <3>1. PICK top \in ToSet(b.order) : top >= InitialPosts
      BY <2>2, <2>3 DEF Sound
    <3>2. ASSUME NEW u \in ToSet(c.order), NEW v \in ToSet(c.order), NEW q \in u .. v
          PROVE  q \in ToSet(c.order) \cup Later
      <4>1. u \in Nat /\ v \in Nat /\ q \in Nat /\ u <= q /\ q <= v /\ top \in Nat
        BY <1>0, <2>3, <2>5
      <4>2. CASE q > InitialPosts
        BY <4>1, <4>2 DEF Later
      <4>3. CASE q <= InitialPosts
        <5>1. u # p /\ u \in ToSet(b.order) /\ q \in u .. top
          BY <1>0, <2>5, <3>1, <4>1, <4>3
        <5>2. q \in ToSet(b.order) \cup Later
          BY <2>3, <5>1 DEF Sound, Covers
        <5> QED BY <2>5, <5>2
      <4> QED BY <1>0, <4>1, <4>2, <4>3
    <3> QED BY <3>2 DEF Covers
  <2>8. Sound(c)
    <3>1. c.recent => \E q \in ToSet(c.order) : q >= InitialPosts
      BY <2>3, <2>4, <2>5 DEF Sound
    <3>2. c.oldest => 1 \in ToSet(c.order)
      BY <2>3, <2>4, <2>5 DEF Sound
    <3>3. p # 1
      BY <1>0
    <3>4. 1 \in ToSet(c.order) => Oldest(c) = 1
      BY <2>3, <2>5, <3>3 DEF Sound, Oldest
    <3> QED BY <2>5, <2>7, <3>1, <3>2, <3>4 DEF Sound
  <2>9. c \in T
    BY <2>6, <2>8 DEF SoundBlocks
  <2> HIDE DEF new
  <2>10. /\ new \in Seq(T)
         /\ Held(bs) \cup ToSet(c.order) \subseteq Held(new)
    <3>1. ToSet(bs[i].order) \subseteq ToSet(c.order)
      BY <2>5 DEF b
    <3> HIDE DEF T
    <3>2. bs \in Seq(T)
      BY DEF T
    <3> QED BY <2>1, <2>2, <2>9, <3>1, <3>2, HeldExcept
  <2> QED BY <2>5, <2>10 DEF new
<1> QED BY <1>1, <1>2, <1>3, <1>4

\* A sync: the recent block has, of all posts since, those after its oldest.
LEMMA SinceReceived ==
  ASSUME NEW n \in Nat, NEW bs \in Seq(SoundBlocks(n)), NEW order \in Seq(1 .. n)
  PROVE  /\ ReceivedPostsSince(bs, order) \in Seq(SoundBlocks(n))
         /\ Held(bs) \subseteq Held(ReceivedPostsSince(bs, order))
         /\ HasRecent(bs) =>
              \A p \in ToSet(order) :
                p >= Oldest(RecentBlock(bs)) => p \in Held(ReceivedPostsSince(bs, order))
         /\ InOrder(bs) /\ Decreasing(order) => InOrder(ReceivedPostsSince(bs, order))
<1> DEFINE after == ReceivedPostsSince(bs, order)
           T == SoundBlocks(n)
           i == RecentIndex(bs)
           b == RecentBlock(bs)
           new == {j \in DOMAIN order : /\ order[j] > Oldest(b)
                                        /\ order[j] \notin ToSet(b.order)}
           c == [b EXCEPT !.order = WithNew(@, order, new)]
<1>1. CASE ~HasRecent(bs)
  <2>1. after = bs
    BY <1>1 DEF ReceivedPostsSince
  <2> QED BY <1>1, <2>1
<1>2. CASE HasRecent(bs)
  <2>0. after = IF new = {} THEN bs ELSE [bs EXCEPT ![i] = c]
    BY <1>2 DEF ReceivedPostsSince, RecentBlock
  <2>1. i \in 1 .. Len(bs) /\ b = bs[i] /\ b \in T /\ b.recent
    BY <1>2, RecentFound DEF RecentBlock
  <2>2. /\ b \in Block(1 .. n) /\ b.order \in Seq(1 .. n) /\ Sound(b)
        /\ b.order # << >>
        /\ ToSet(b.order) \subseteq 1 .. n
        /\ Oldest(b) \in ToSet(b.order)
    BY <2>1, SoundBlock
  <2>3. /\ new \in SUBSET DOMAIN order
        /\ \A j \in new : /\ order[j] > Oldest(b)
                          /\ order[j] \notin ToSet(b.order)
    OBVIOUS
  <2>4. ASSUME NEW j \in DOMAIN order
        PROVE  \/ j \in new
               \/ order[j] \in ToSet(b.order)
               \/ ~(order[j] > Oldest(b))
    OBVIOUS
  <2>5. ASSUME NEW p \in ToSet(order), p >= Oldest(b)
        PROVE  p \in ToSet(b.order) \/ \E j \in new : p = order[j]
    <3>1. PICK j \in DOMAIN order : p = order[j]
      BY DEF ToSet
    <3>2. order[j] \in 1 .. n
      BY <3>1, LenProperties
    <3>3. Oldest(b) \in Nat /\ p \in Nat
      BY <2>2, <3>1, <3>2
    <3>4. CASE p = Oldest(b)
      BY <2>2, <3>4
    <3>5. CASE p > Oldest(b)
      BY <2>4, <3>1, <3>5
    <3> QED BY <2>5, <3>3, <3>4, <3>5
  <2>6. c.order = WithNew(b.order, order, new) /\ c.recent = b.recent
        /\ c.oldest = b.oldest
        /\ c \in [order : {WithNew(b.order, order, new)},
                  recent : BOOLEAN, oldest : BOOLEAN]
    BY <2>2 DEF Block
  <2> HIDE DEF new, c, b, i
  <2>7. /\ c.order \in Seq(1 .. n)
        /\ ToSet(c.order) = ToSet(b.order) \cup {order[j] : j \in new}
        /\ \A j, k \in DOMAIN c.order : j < k => c.order[j] >= c.order[k]
        /\ /\ Decreasing(b.order)
           /\ \A x, y \in new : x # y => order[x] # order[y]
           /\ \A x \in new : order[x] \notin ToSet(b.order)
           => Decreasing(c.order)
    <3> DEFINE P == 1 .. n
               l == b.order
               w == WithNew(l, order, new)
    <3>1. P \in SUBSET Nat /\ l \in Seq(P) /\ order \in Seq(P)
      BY <2>2
    <3> HIDE DEF P, l
    <3>2. /\ w \in Seq(P)
          /\ ToSet(w) = ToSet(l) \cup {order[j] : j \in new}
          /\ \A j, k \in DOMAIN w : j < k => w[j] >= w[k]
      BY <2>3, <3>1, WithNewSorts
    <3>3. /\ Decreasing(l)
          /\ \A x, y \in new : x # y => order[x] # order[y]
          /\ \A x \in new : order[x] \notin ToSet(l)
          => Decreasing(w)
      BY <2>3, <3>1, WithNewSorts
    <3>4. w = c.order
      BY <2>6 DEF l
    <3> HIDE DEF w
    <3> QED BY <3>2, <3>3, <3>4 DEF P, l
  <2>8. c.order # << >>
    <3>1. ToSet(c.order) # {}
      BY <2>2, <2>7
    <3>2. ToSet(<< >>) = {}
      BY DEF ToSet
    <3> QED BY <3>1, <3>2
  <2>9. Covers(c.order, Later)
    <3>1. PICK top \in ToSet(b.order) : top >= InitialPosts
      BY <2>1, <2>2 DEF Sound
    <3>2. ASSUME NEW u \in ToSet(c.order), NEW v \in ToSet(c.order), NEW q \in u .. v
          PROVE  q \in ToSet(c.order) \cup Later
      <4>1. ToSet(c.order) \subseteq 1 .. n
        BY <2>7, <2>8, Ends
      <4>2. u \in Nat /\ v \in Nat /\ q \in Nat /\ u <= q /\ q <= v
            /\ top \in Nat /\ Oldest(b) \in Nat
        BY <2>2, <4>1
      <4>3. CASE q > InitialPosts
        BY <4>2, <4>3 DEF Later
      <4>4. CASE q <= InitialPosts
        <5>1. u \in ToSet(b.order) \/ u > Oldest(b)
          BY <2>3, <2>7
        <5>2. q \in u .. top \/ q \in Oldest(b) .. top
          BY <3>1, <4>2, <4>4, <5>1, ChannelPostsAssumption
        <5>3. CASE u \in ToSet(b.order)
          <6>1. q \in u .. top
            BY <3>1, <4>2, <4>4, ChannelPostsAssumption
          <6>2. q \in ToSet(b.order) \cup Later
            BY <2>2, <5>3, <6>1 DEF Sound, Covers
          <6> QED BY <2>7, <6>2
        <5>4. CASE u > Oldest(b)
          <6>1. q \in Oldest(b) .. top
            BY <3>1, <4>2, <4>4, <5>4, ChannelPostsAssumption
          <6>2. q \in ToSet(b.order) \cup Later
            BY <2>2, <6>1 DEF Sound, Covers
          <6> QED BY <2>7, <6>2
        <5> QED BY <5>1, <5>3, <5>4
      <4> QED BY <4>2, <4>3, <4>4, ChannelPostsAssumption
    <3> QED BY <3>2 DEF Covers
  <2>10. Sound(c)
    <3>1. c.recent => \E q \in ToSet(c.order) : q >= InitialPosts
      BY <2>2, <2>6, <2>7 DEF Sound
    <3>2. c.oldest => 1 \in ToSet(c.order)
      BY <2>2, <2>6, <2>7 DEF Sound
    <3>3. ASSUME 1 \in ToSet(c.order) PROVE Oldest(c) = 1
      <4>1. PICK x \in DOMAIN c.order : c.order[x] = 1
        BY <3>3 DEF ToSet
      <4>2. /\ Len(c.order) \in Nat \ {0} /\ DOMAIN c.order = 1 .. Len(c.order)
            /\ ToSet(c.order) \subseteq 1 .. n
            /\ Last(c.order) = c.order[Len(c.order)] /\ Last(c.order) \in ToSet(c.order)
        BY <2>7, <2>8, Ends
      <4>3. x = Len(c.order) \/ c.order[x] >= c.order[Len(c.order)]
        <5>1. Len(c.order) \in DOMAIN c.order /\ (x = Len(c.order) \/ x < Len(c.order))
          BY <4>1, <4>2
        <5> QED BY <2>7, <4>1, <5>1
      <4>4. c.order[Len(c.order)] \in 1 .. n
        BY <4>2
      <4> QED BY <4>1, <4>2, <4>3, <4>4 DEF Oldest
    <3> QED BY <2>8, <2>9, <3>1, <3>2, <3>3 DEF Sound
  <2>11. c \in T
    <3>1. c \in Block(1 .. n)
      BY <2>6, <2>7 DEF Block
    <3> QED BY <2>10, <3>1 DEF SoundBlocks
  <2> HIDE DEF after
  <2>12. CASE new = {}
    <3>1. after = bs
      BY <2>0, <2>12
    <3>2. ASSUME NEW p \in ToSet(order), p >= Oldest(b) PROVE p \in Held(bs)
      <4>1. p \in ToSet(b.order)
        BY <2>5, <2>12, <3>2
      <4>2. i \in DOMAIN bs
        BY <2>1, LenProperties
      <4> QED BY <2>1, <4>1, <4>2, HeldElements
    <3> QED BY <3>1, <3>2 DEF after, b
  <2>13. CASE new # {}
    <3>1. after = [bs EXCEPT ![i] = c]
      BY <2>0, <2>13
    <3> HIDE DEF T
    <3>2. after \in Seq(T) /\ Held(bs) \cup ToSet(c.order) \subseteq Held(after)
      <4>1. bs \in Seq(T) /\ ToSet(bs[i].order) \subseteq ToSet(c.order)
        BY <2>1, <2>7 DEF T
      <4> QED BY <2>1, <2>11, <3>1, <4>1, HeldExcept
    <3>3. ASSUME NEW p \in ToSet(order), p >= Oldest(b) PROVE p \in Held(after)
      BY <2>5, <2>7, <3>2, <3>3
    <3>4. ASSUME InOrder(bs), Decreasing(order) PROVE InOrder(after)
      <4>1. DOMAIN bs = 1 .. Len(bs) /\ DOMAIN order = 1 .. Len(order)
            /\ \A j \in DOMAIN order : order[j] \in Nat
        <5>1. /\ DOMAIN bs = 1 .. Len(bs) /\ DOMAIN order = 1 .. Len(order)
              /\ order \in [1 .. Len(order) -> 1 .. n]
          BY LenProperties
        <5> QED BY <5>1
      <4>2. \A j \in DOMAIN bs : Decreasing(bs[j].order)
        BY <3>4 DEF InOrder, Decreasing
      <4>3. \A x, y \in new : x # y => order[x] # order[y]
        <5>1. ASSUME NEW x \in new, NEW y \in new, x # y PROVE order[x] # order[y]
          <6>1. x \in DOMAIN order /\ y \in DOMAIN order
            BY <2>3
          <6>2. x < y \/ y < x
            BY <4>1, <5>1, <6>1
          <6>3. order[x] > order[y] \/ order[y] > order[x]
            BY <3>4, <6>1, <6>2 DEF Decreasing
          <6> QED BY <4>1, <6>1, <6>3
        <5> QED BY <5>1
      <4>4. Decreasing(c.order)
        BY <2>1, <2>3, <2>7, <4>1, <4>2, <4>3
      <4>5. DOMAIN after = DOMAIN bs
            /\ \A j \in DOMAIN bs : after[j] = IF j = i THEN c ELSE bs[j]
        BY <3>1
      <4>6. \A j \in DOMAIN after : Decreasing(after[j].order)
        BY <4>2, <4>4, <4>5
      <4> QED BY <4>6 DEF InOrder, Decreasing
    <3> QED BY <3>2, <3>3, <3>4 DEF after, T, b
  <2> QED BY <2>12, <2>13
<1> QED BY <1>1, <1>2

-----------------------------------------------------------------------------
(* Answers *)

\* A page that starts at a post or before the next, and does not end before it.
LEMMA PageSpan ==
  ASSUME count \in Nat, count >= 1, NEW lo \in Int, NEW hi \in Int,
         lo <= count + 1, 0 <= hi, lo <= hi + 1,
         NEW first, first = IF lo < 1 THEN 1 ELSE lo,
         NEW last, last = IF hi > count THEN count ELSE hi
  PROVE  /\ first \in 1 .. count + 1 /\ last \in first - 1 .. count
         /\ Page(lo, hi) = Span(first, last)
<1>1. first \in 1 .. count + 1 /\ last \in first - 1 .. count
  OBVIOUS
<1>2. 1 .. (IF last < first THEN 0 ELSE last + 1 - first) = 1 .. last + 1 - first
  BY <1>1
<1>3. Page(lo, hi) = [i \in 1 .. (IF last < first THEN 0 ELSE last + 1 - first) |->
                        last + 1 - i]
  BY DEF Page
<1>4. Page(lo, hi) = [i \in 1 .. last + 1 - first |-> last + 1 - i]
  BY <1>2, <1>3
<1> QED BY <1>1, <1>4 DEF Span

\* The span that a page is, and where it starts and ends.
Answering(q, order, n, lo, hi) ==
  /\ order = Span(lo, hi)
  /\ q.kind \in Pages => lo <= hi
  /\ q.kind = "before" => hi + 1 = q.arg
  /\ q.kind \in {"after", "sync"} => lo = q.arg + 1
  /\ q.kind \in {"sync", "latest", "reload"} => hi = n

LEMMA Answered ==
  ASSUME count \in Nat, count >= 1, NEW q \in Request, q.kind \in Kinds,
         RequestOK(q, count), NEW order \in Answers(q)
  PROVE  \E lo \in 1 .. count + 1 : \E hi \in lo - 1 .. count :
           Answering(q, order, count, lo, hi)
<1>0. PageSize \in Nat /\ PageSize >= 1
  BY ChannelPostsAssumption
<1>1. /\ q.arg \in Nat /\ q.arg <= count
      /\ q.kind \in {"around", "before", "after"} => 1 <= q.arg
  BY DEF RequestOK, Request
<1>2. ASSUME NEW lo \in Int, NEW hi \in Int, order = Page(lo, hi),
             lo <= count, 1 <= hi, lo <= hi, q.kind \in Pages,
             q.kind \in {"latest", "reload"} => hi = count
      PROVE  \E x \in 1 .. count + 1 : \E y \in x - 1 .. count :
               Answering(q, order, count, x, y)
  <2> DEFINE first == IF lo < 1 THEN 1 ELSE lo
             last == IF hi > count THEN count ELSE hi
  <2>1. /\ first \in 1 .. count + 1 /\ last \in first - 1 .. count
        /\ order = Span(first, last)
    <3>1. lo <= count + 1 /\ 0 <= hi /\ lo <= hi + 1
      BY <1>2
    <3> HIDE DEF first, last
    <3>2. /\ first = IF lo < 1 THEN 1 ELSE lo
          /\ last = IF hi > count THEN count ELSE hi
      BY DEF first, last
    <3> QED BY <1>2, <3>1, <3>2, PageSpan
  <2>2. first <= last /\ (q.kind \in {"latest", "reload"} => last = count)
    BY <1>2
  <2>3. q.kind \notin {"before", "after", "sync"}
    BY <1>2 DEF Pages
  <2> HIDE DEF first, last
  <2>4. Answering(q, order, count, first, last)
    BY <2>1, <2>2, <2>3 DEF Answering
  <2> QED BY <2>1, <2>4
<1>3. CASE q.kind \in {"unreads", "prefetch"}
  <2>1. \/ order = Page(count + 1 - PageSize, count)
        \/ \E viewed \in 0 .. count - 1 :
             order = Page(viewed + 1 - PageSize, viewed + PageSize)
    BY <1>3 DEF Answers
  <2>2. q.kind \in Pages /\ q.kind \notin {"latest", "reload"}
    BY <1>3 DEF Pages
  <2>3. CASE order = Page(count + 1 - PageSize, count)
    <3>1. count + 1 - PageSize \in Int /\ count + 1 - PageSize <= count
      BY <1>0
    <3> QED BY <1>2, <2>2, <2>3, <3>1
  <2>4. ASSUME NEW viewed \in 0 .. count - 1,
               order = Page(viewed + 1 - PageSize, viewed + PageSize)
        PROVE  \E x \in 1 .. count + 1 : \E y \in x - 1 .. count :
                 Answering(q, order, count, x, y)
    <3>1. /\ viewed + 1 - PageSize \in Int /\ viewed + PageSize \in Int
          /\ viewed + 1 - PageSize <= count /\ 1 <= viewed + PageSize
          /\ viewed + 1 - PageSize <= viewed + PageSize
      BY <1>0
    <3> QED BY <1>2, <2>2, <2>4, <3>1
  <2> QED BY <2>1, <2>3, <2>4
<1>4. CASE q.kind = "latest"
  <2>1. order = Page(count + 1 - PageSize, count)
    BY <1>4 DEF Answers
  <2>2. q.kind \in Pages
    BY <1>4 DEF Pages
  <2>3. count + 1 - PageSize \in Int /\ count + 1 - PageSize <= count
    BY <1>0
  <2> QED BY <1>2, <2>1, <2>2, <2>3
<1>5. CASE q.kind = "reload"
  <2>1. order = Page(count + 1 - 2 * PageSize, count)
    BY <1>5 DEF Answers
  <2>2. q.kind \in Pages
    BY <1>5 DEF Pages
  <2>3. count + 1 - 2 * PageSize \in Int /\ count + 1 - 2 * PageSize <= count
    BY <1>0
  <2> QED BY <1>2, <2>1, <2>2, <2>3
<1>6. CASE q.kind = "around"
  <2>1. order = Page(q.arg - PageSize, q.arg + PageSize)
    BY <1>6 DEF Answers
  <2>2. q.kind \in Pages /\ q.kind \notin {"latest", "reload"}
    BY <1>6 DEF Pages
  <2>3. /\ q.arg - PageSize \in Int /\ q.arg + PageSize \in Int
        /\ q.arg - PageSize <= count /\ 1 <= q.arg + PageSize
        /\ q.arg - PageSize <= q.arg + PageSize
    BY <1>0, <1>1
  <2> QED BY <1>2, <2>1, <2>2, <2>3
<1>7. CASE q.kind = "before"
  <2>1. order = Page(q.arg - PageSize, q.arg - 1)
    BY <1>7 DEF Answers
  <2> DEFINE lo == q.arg - PageSize
             hi == q.arg - 1
             first == IF lo < 1 THEN 1 ELSE lo
             last == IF hi > count THEN count ELSE hi
  <2>2. /\ lo \in Int /\ hi \in Int
        /\ lo <= count + 1 /\ 0 <= hi /\ lo <= hi + 1 /\ hi + 1 = q.arg
        /\ last = hi
    BY <1>0, <1>1, <1>7
  <2> HIDE DEF lo, hi, first, last
  <2>3. /\ first \in 1 .. count + 1 /\ last \in first - 1 .. count
        /\ order = Span(first, last)
    <3>1. order = Page(lo, hi) /\ first = (IF lo < 1 THEN 1 ELSE lo)
          /\ last = (IF hi > count THEN count ELSE hi)
      BY <2>1 DEF lo, hi, first, last
    <3> QED BY <2>2, <3>1, PageSpan
  <2>4. Answering(q, order, count, first, last)
    BY <1>7, <2>2, <2>3 DEF Answering, Pages
  <2> QED BY <2>3, <2>4
<1>8. CASE q.kind = "after" \/ q.kind = "sync"
  <2> DEFINE lo == q.arg + 1
             hi == IF q.kind = "after" THEN q.arg + PageSize ELSE count
             first == IF lo < 1 THEN 1 ELSE lo
             last == IF hi > count THEN count ELSE hi
  <2>1. order = Page(lo, hi)
    BY <1>8 DEF Answers
  <2>2. /\ lo \in Int /\ hi \in Int
        /\ lo <= count + 1 /\ 0 <= hi /\ lo <= hi + 1
        /\ first = q.arg + 1
        /\ q.kind = "sync" => last = count
    BY <1>0, <1>1, <1>8
  <2> HIDE DEF lo, hi, first, last
  <2>3. /\ first \in 1 .. count + 1 /\ last \in first - 1 .. count
        /\ order = Span(first, last)
    <3>1. first = (IF lo < 1 THEN 1 ELSE lo) /\ last = (IF hi > count THEN count ELSE hi)
      BY DEF first, last
    <3> QED BY <2>1, <2>2, <3>1, PageSpan
  <2>4. Answering(q, order, count, first, last)
    BY <1>8, <2>2, <2>3 DEF Answering, Pages
  <2> QED BY <2>3, <2>4
<1> QED BY <1>3, <1>4, <1>5, <1>6, <1>7, <1>8 DEF Kinds

\* A set of blocks that has every page.
HasSpans(T, n) ==
  \A lo \in 1 .. n : \A hi \in lo .. n : \A recent, oldest \in BOOLEAN :
    (recent => InitialPosts <= hi) /\ (oldest => lo = 1)
      => SpanBlock(lo, hi, recent, oldest) \in T

\* A page that is received keeps the blocks in such a set, and drops no post.
LEMMA PageStep ==
  ASSUME count \in Nat,
         NEW T, BlockSet(T, 1 .. count), MergeClosed(T), Unmarkable(T),
         HasSpans(T, count), blocks \in Seq(T),
         NEW r \in Requests, ReceivePage(r),
         requests[r] \in Request, RequestOK(requests[r], count)
  PROVE  blocks' \in Seq(T) /\ Held(blocks) \subseteq Held(blocks')
<1> DEFINE q == requests[r]
           oldest == q.order # << >> /\ Last(q.order) = 1
           recent == q.latest \/ q.kind \in {"latest", "reload"}
<1>1. /\ q.answered /\ q.kind # "sync"
      /\ q.kind \in Pages =>
           blocks' = ReceivedPostsInChannel(blocks, q.order, recent, oldest)
      /\ q.kind = "before" => blocks' = ReceivedPostsBefore(blocks, q.order, q.arg, oldest)
      /\ q.kind = "after" => blocks' = ReceivedPostsAfter(blocks, q.order, q.arg, recent)
  <2>1. q.answered /\ q.kind # "sync"
    BY DEF ReceivePage
  <2>2. ASSUME q.kind \in Pages
        PROVE  blocks' = ReceivedPostsInChannel(blocks, q.order, recent, oldest)
    BY <2>2 DEF ReceivePage, Pages
  <2>3. ASSUME q.kind = "before"
        PROVE  blocks' = ReceivedPostsBefore(blocks, q.order, q.arg, oldest)
    BY <2>3 DEF ReceivePage
  <2>4. ASSUME q.kind = "after"
        PROVE  blocks' = ReceivedPostsAfter(blocks, q.order, q.arg, recent)
    BY <2>4 DEF ReceivePage
  <2> QED BY <2>1, <2>2, <2>3, <2>4
<1> DEFINE Bounds(lo, hi) ==
             /\ q.order = Span(lo, hi)
             /\ q.kind \in Kinds
             /\ q.kind \in Pages => lo <= hi
             /\ q.kind = "before" => hi + 1 = q.arg
             /\ q.kind \in {"after", "sync"} => lo = q.arg + 1
             /\ recent => lo <= hi /\ InitialPosts <= hi
<1>a. PICK lo \in 1 .. count + 1 : \E hi \in lo - 1 .. count : Bounds(lo, hi)
  BY <1>1 DEF RequestOK, AnswerOK
<1>b. PICK hi \in lo - 1 .. count : Bounds(lo, hi)
  BY <1>a
<1>2. lo \in 1 .. count + 1 /\ hi \in lo - 1 .. count /\ Bounds(lo, hi)
  BY <1>a, <1>b
<1>3. /\ q.latest \in BOOLEAN /\ recent \in BOOLEAN /\ oldest \in BOOLEAN
      /\ q.arg \in Nat /\ q.arg <= count
      /\ q.kind \in {"before", "after"} => 1 <= q.arg
  BY DEF RequestOK, Request
<1>4. lo \in Nat /\ hi \in Int /\ 1 <= lo /\ hi <= count
  BY <1>2
<1>5. ASSUME lo <= hi PROVE q.order # << >> /\ (oldest => lo = 1)
  BY <1>2, <1>4, <1>5, Spans
<1>6. ASSUME hi < lo PROVE q.order = << >>
  BY <1>2, <1>4, <1>6, SpanEmpty
<1>7. CASE q.kind \in Pages
  <2>1. SpanBlock(lo, hi, recent, oldest) \in T
    <3>1. lo \in 1 .. count /\ hi \in lo .. count
      BY <1>2, <1>4, <1>7
    <3>2. (recent => InitialPosts <= hi) /\ (oldest => lo = 1)
      BY <1>2, <1>5, <1>7
    <3> HIDE DEF recent, oldest
    <3> QED BY <1>3, <3>1, <3>2 DEF HasSpans
  <2>2. [order |-> q.order, recent |-> recent, oldest |-> oldest] \in T
    BY <1>2, <2>1 DEF SpanBlock
  <2>3. 1 .. count \in SUBSET Nat
    OBVIOUS
  <2> HIDE DEF recent, oldest, q
  <2> QED BY <1>1, <1>7, <2>2, <2>3, PageReceived
<1>8. CASE q.kind = "before"
  <2>1. CASE q.order = << >>
    BY <1>1, <1>8, <2>1 DEF ReceivedPostsBefore
  <2>2. CASE q.order # << >>
    <3>1. lo <= hi /\ hi \in Nat
      BY <1>4, <1>6, <2>2
    <3>2. <<q.arg>> \o q.order = Span(lo, hi + 1)
      BY <1>2, <1>4, <1>8, <3>1, SpanMore
    <3>3. SpanBlock(lo, hi + 1, FALSE, oldest) \in T
      <4>1. lo \in 1 .. count /\ hi + 1 \in lo .. count
        BY <1>2, <1>3, <1>4, <1>8, <3>1
      <4>2. oldest => lo = 1
        BY <1>5, <3>1
      <4> HIDE DEF oldest
      <4> QED BY <1>3, <4>1, <4>2 DEF HasSpans
    <3> DEFINE b == SpanBlock(lo, hi + 1, FALSE, oldest)
    <3>4. blocks' = mergePostBlocks(Append(blocks, b))
      BY <1>1, <1>8, <2>2, <3>2 DEF ReceivedPostsBefore, SpanBlock
    <3>5. b \in T
      BY <3>3
    <3>6. 1 .. count \in SUBSET Nat
      OBVIOUS
    <3> HIDE DEF b
    <3> QED BY <3>4, <3>5, <3>6, BlockAppended
  <2> QED BY <2>1, <2>2
<1>9. CASE q.kind = "after"
  <2>1. CASE q.order = << >>
    BY <1>1, <1>9, <2>1 DEF ReceivedPostsAfter
  <2>2. CASE q.order # << >>
    <3>1. lo <= hi /\ hi \in Nat
      BY <1>4, <1>6, <2>2
    <3>2. Append(q.order, q.arg) = Span(lo - 1, hi)
      <4>1. lo > 0 /\ lo - 1 = q.arg
        BY <1>2, <1>3, <1>4, <1>9
      <4> QED BY <1>2, <1>4, <3>1, <4>1, SpanMore
    <3>3. SpanBlock(lo - 1, hi, recent, FALSE) \in T
      <4>1. lo - 1 \in 1 .. count /\ hi \in lo - 1 .. count
        BY <1>2, <1>3, <1>4, <1>9, <3>1
      <4>2. recent => InitialPosts <= hi
        BY <1>2
      <4> HIDE DEF recent
      <4> QED BY <1>3, <4>1, <4>2 DEF HasSpans
    <3> DEFINE b == SpanBlock(lo - 1, hi, recent, FALSE)
    <3>4. blocks' = mergePostBlocks(Append(blocks, b))
      BY <1>1, <1>9, <2>2, <3>2 DEF ReceivedPostsAfter, SpanBlock
    <3>5. b \in T
      BY <3>3
    <3>6. 1 .. count \in SUBSET Nat
      OBVIOUS
    <3> HIDE DEF b
    <3> QED BY <3>4, <3>5, <3>6, BlockAppended
  <2> QED BY <2>1, <2>2
<1> QED BY <1>1, <1>2, <1>7, <1>8, <1>9 DEF Kinds, Pages

-----------------------------------------------------------------------------
(* The invariant is inductive *)

LEMMA NumbersOK ==
  ASSUME CountersOK
  PROVE  /\ InitialPosts \in Nat \ {0} /\ MaxPosts \in Nat
         /\ count \in Nat /\ count >= 1 /\ InitialPosts <= count /\ count <= MaxPosts
         /\ pending \subseteq 1 .. count
         /\ 1 .. count \subseteq Posts
BY ChannelPostsAssumption DEF CountersOK, Posts

\* No request is a request, and a sound one.
LEMMA NoRequestOK ==
  /\ NoRequest \in Request
  /\ \A n \in Nat : RequestOK(NoRequest, n)
<1>1. Never \in Times /\ Never.at = 0
  BY ChannelPostsAssumption DEF Never, Times
<1>2. << >> \in Seq(Posts) /\ 0 \in 0 .. MaxPosts
  BY ChannelPostsAssumption, EmptySeq
<1>3. /\ NoRequest \in Request
      /\ NoRequest.arg = 0 /\ NoRequest.time = Never /\ NoRequest.tracked = 0
      /\ NoRequest.kind = "none" /\ NoRequest.answered = FALSE
  BY <1>1, <1>2 DEF NoRequest, Request
<1> QED BY <1>1, <1>3 DEF RequestOK

\* What holds of a request holds later.
LEMMA RequestLater ==
  ASSUME NEW q \in Request, NEW n \in Nat, NEW m \in Nat, n <= m, RequestOK(q, n)
  PROVE  RequestOK(q, m)
<1>1. q.arg \in Nat /\ q.time.at \in Nat
  BY DEF Request, Times
<1>2. ASSUME AnswerOK(q, n) PROVE AnswerOK(q, m)
  <2>1. 1 .. n + 1 \subseteq 1 .. m + 1
        /\ \A lo \in 1 .. n + 1 : lo - 1 .. n \subseteq lo - 1 .. m
    OBVIOUS
  <2> QED BY <1>2, <2>1 DEF AnswerOK
<1> QED BY <1>1, <1>2 DEF RequestOK

\* A request is done with.
LEMMA RequestCleared ==
  ASSUME CountersOK, RequestsOK, NEW r \in Requests,
         requests' = [requests EXCEPT ![r] = NoRequest], count' = count
  PROVE  RequestsOK'
<1>1. count \in Nat
  BY NumbersOK
<1>2. requests' \in [Requests -> Request]
  BY NoRequestOK DEF RequestsOK
<1>3. \A s \in Requests : requests'[s] = IF s = r THEN NoRequest ELSE requests[s]
  BY DEF RequestsOK
<1>4. \A s \in Requests : RequestOK(requests'[s], count)
  BY <1>1, <1>3, NoRequestOK DEF RequestsOK
<1> QED BY <1>2, <1>4 DEF RequestsOK

\* A request is sent.
LEMMA RequestSent ==
  ASSUME CountersOK, RequestsOK, NEW r \in Requests, NEW kind \in Kinds,
         NEW arg \in 0 .. count, Send(r, kind, arg), count' = count,
         kind \in {"around", "before", "after"} => 1 <= arg,
         kind = "sync" /\ lastGetPosts.stale => arg = lastGetPosts.at
  PROVE  RequestsOK'
<1>1. count \in Nat /\ count <= MaxPosts /\ MaxPosts \in Nat
  BY NumbersOK
<1> DEFINE time == IF kind \in Timed THEN Now ELSE Never
           tracked == IF kind = "sync" /\ lastGetPosts.stale THEN lastGetPosts.at ELSE 0
           q == [NoRequest EXCEPT !.kind = kind, !.arg = arg,
                                  !.time = time, !.tracked = tracked]
<1>2. requests' = [requests EXCEPT ![r] = q]
  BY DEF Send
<1>3. time \in Times /\ time.at <= count
  <2>1. Now \in Times /\ Now.at = count /\ Never \in Times /\ Never.at = 0
    BY <1>1 DEF Now, Never, Times
  <2> QED BY <1>1, <2>1
<1>4. tracked \in 0 .. MaxPosts /\ (tracked # 0 => arg = tracked)
  BY <1>1 DEF CountersOK, Times
<1>5. arg \in 0 .. MaxPosts /\ arg <= count
  BY <1>1
<1> HIDE DEF time, tracked
<1>6. /\ q \in Request
      /\ q.kind = kind /\ q.arg = arg /\ q.time = time /\ q.tracked = tracked
      /\ q.answered = FALSE
  BY <1>3, <1>4, <1>5, NoRequestOK DEF Request, NoRequest
<1> HIDE DEF q
<1>7. RequestOK(q, count)
  BY <1>3, <1>4, <1>5, <1>6 DEF RequestOK
<1>8. requests' \in [Requests -> Request]
  BY <1>2, <1>6 DEF RequestsOK
<1>9. \A s \in Requests : requests'[s] = IF s = r THEN q ELSE requests[s]
  BY <1>2 DEF RequestsOK
<1>10. \A s \in Requests : RequestOK(requests'[s], count)
  BY <1>7, <1>9 DEF RequestsOK
<1> QED BY <1>8, <1>10 DEF RequestsOK

\* A sync since a post that is published.
LEMMA SyncSent ==
  ASSUME CountersOK, RequestsOK, NEW r \in Requests, NEW since \in 1 .. count,
         SyncPostsInChannel(r, since), count' = count
  PROVE  RequestsOK'
<1> DEFINE arg == IF lastGetPosts.stale THEN lastGetPosts.at ELSE since
<1>1. Send(r, "sync", arg)
  BY DEF SyncPostsInChannel
<1>2. arg \in 0 .. count /\ (lastGetPosts.stale => arg = lastGetPosts.at)
  BY NumbersOK DEF CountersOK, Times
<1>3. "sync" \in Kinds /\ "sync" \notin {"around", "before", "after"}
  BY DEF Kinds
<1> HIDE DEF arg
<1> QED BY <1>1, <1>2, <1>3, RequestSent

\* The server's answer.
LEMMA AnswerStep ==
  ASSUME CountersOK, RequestsOK, NEW r \in Requests, Answer(r)
  PROVE  RequestsOK'
<1> DEFINE q == requests[r]
<1>1. /\ count \in Nat /\ count >= 1 /\ count <= MaxPosts /\ InitialPosts <= count
      /\ 1 .. count \subseteq Posts /\ InitialPosts \in Nat
  BY NumbersOK
<1>2. q \in Request /\ RequestOK(q, count) /\ q.kind \in Kinds /\ count' = count
  BY DEF RequestsOK, Answer, Request
<1> DEFINE With(order) ==
             [q EXCEPT !.order = order, !.answered = TRUE,
                       !.latest = (order # << >> /\ Head(order) = count)]
<1>3. PICK order \in Answers(q) : requests' = [requests EXCEPT ![r] = With(order)]
  BY DEF Answer
<1>4. PICK lo \in 1 .. count + 1 :
        \E hi \in lo - 1 .. count : Answering(q, order, count, lo, hi)
  BY <1>1, <1>2, Answered
<1>5. PICK hi \in lo - 1 .. count : Answering(q, order, count, lo, hi)
  BY <1>4
<1> DEFINE a == With(order)
<1>6. order \in Seq(Posts) /\ (order # << >> => lo <= hi /\ Head(order) = hi)
  <2>1. CASE hi < lo
    <3>1. order = << >>
      BY <1>4, <1>5, <2>1, SpanEmpty DEF Answering
    <3> QED BY <3>1, EmptySeq
  <2>2. CASE lo <= hi
    <3>1. lo \in Nat /\ hi \in Nat /\ lo .. hi \subseteq 1 .. count
      BY <1>1, <1>4, <1>5, <2>2
    <3>2. order \in Seq(lo .. hi) /\ Head(order) = hi
      BY <1>5, <2>2, <3>1, Spans DEF Answering
    <3>3. lo .. hi \subseteq Posts
      BY <1>1, <3>1
    <3> QED BY <2>2, <3>2, <3>3, SeqMonotonic
  <2> QED BY <1>1, <1>4, <1>5, <2>1, <2>2
<1>7. /\ a \in Request
      /\ a.kind = q.kind /\ a.arg = q.arg /\ a.time = q.time /\ a.tracked = q.tracked
      /\ a.order = order /\ a.answered = TRUE
      /\ a.latest = (order # << >> /\ Head(order) = count)
  BY <1>2, <1>6 DEF Request
<1>8. RequestOK(a, count)
  <2> HIDE DEF a, q
  <2>1. a.kind \in Kinds /\ a.arg = q.arg /\ a.time.at <= count
        /\ (a.tracked # 0 => a.arg = a.tracked) /\ a.arg <= count
        /\ (a.kind \in {"around", "before", "after"} => 1 <= a.arg)
    BY <1>2, <1>7 DEF RequestOK
  <2>2. /\ a.order = Span(lo, hi)
        /\ a.kind \in Pages => lo <= hi
        /\ a.kind = "before" => hi + 1 = a.arg
        /\ a.kind \in {"after", "sync"} => lo = a.arg + 1
        /\ a.kind \in {"sync", "latest", "reload"} => hi = count
    BY <1>5, <1>7 DEF Answering
  <2>3. a.latest \/ a.kind \in {"latest", "reload"} => lo <= hi /\ InitialPosts <= hi
    <3>1. ASSUME a.latest PROVE lo <= hi /\ InitialPosts <= hi
      BY <1>1, <1>6, <1>7, <3>1
    <3>2. ASSUME a.kind \in {"latest", "reload"} PROVE lo <= hi /\ InitialPosts <= hi
      BY <1>1, <2>2, <3>2 DEF Pages
    <3> QED BY <3>1, <3>2
  <2>4. a.kind = "sync" => a.time.at <= hi
    BY <2>1, <2>2
  <2>5. AnswerOK(a, count)
    BY <1>4, <1>5, <2>1, <2>2, <2>3, <2>4 DEF AnswerOK
  <2> QED BY <2>1, <2>5 DEF RequestOK
<1> HIDE DEF a, q
<1>9. requests' = [requests EXCEPT ![r] = a]
  BY <1>3 DEF a
<1>10. requests' \in [Requests -> Request]
  BY <1>7, <1>9 DEF RequestsOK
<1>11. \A s \in Requests : requests'[s] = IF s = r THEN a ELSE requests[s]
  BY <1>9 DEF RequestsOK
<1>12. \A s \in Requests : RequestOK(requests'[s], count)
  BY <1>8, <1>11 DEF RequestsOK
<1> QED BY <1>2, <1>10, <1>12 DEF RequestsOK

\* The websocket is lost: the marks change, and nothing else.
LEMMA DisconnectStep ==
  ASSUME CountersOK, RequestsOK, Disconnect
  PROVE  RequestsOK' /\ lastGetPosts' \in Times /\ lastGetPosts'.at = lastGetPosts.at
<1>1. /\ count' = count
      /\ lastGetPosts' = [lastGetPosts EXCEPT !.stale = @ \/ lastGetPosts.at # 0]
      /\ requests' = [r \in Requests |->
                        [requests[r] EXCEPT !.time.stale = requests[r].time.at # 0]]
  BY DEF Disconnect
<1>2. lastGetPosts' \in Times /\ lastGetPosts'.at = lastGetPosts.at
  BY <1>1 DEF CountersOK, Times
<1>3. ASSUME NEW r \in Requests
      PROVE  requests'[r] \in Request /\ RequestOK(requests'[r], count)
  <2> DEFINE q == requests[r]
             a == [q EXCEPT !.time.stale = q.time.at # 0]
  <2>1. q \in Request /\ RequestOK(q, count) /\ requests'[r] = a
    BY <1>1 DEF RequestsOK
  <2>2. q.time \in Times
    BY <2>1 DEF Request
  <2>3. a = [q EXCEPT !.time = [q.time EXCEPT !.stale = q.time.at # 0]]
    OBVIOUS
  <2> DEFINE t == [q.time EXCEPT !.stale = q.time.at # 0]
  <2>4. t \in Times /\ t.at = q.time.at
    BY <2>2 DEF Times
  <2>5. a = [q EXCEPT !.time = t]
    BY <2>3
  <2> HIDE DEF t, a, q
  <2>6. /\ a \in Request
        /\ a.kind = q.kind /\ a.arg = q.arg /\ a.tracked = q.tracked
        /\ a.time.at = q.time.at /\ a.order = q.order /\ a.answered = q.answered
        /\ a.latest = q.latest
    BY <2>1, <2>4, <2>5 DEF Request
  <2>7. AnswerOK(q, count) => AnswerOK(a, count)
    BY <2>6 DEF AnswerOK
  <2>8. RequestOK(a, count)
    BY <2>1, <2>6, <2>7 DEF RequestOK
  <2> QED BY <2>1, <2>6, <2>8
<1>4. requests' \in [Requests -> Request]
  <2>1. requests' = [r \in Requests |-> requests'[r]]
    BY <1>1
  <2> QED BY <1>3, <2>1
<1> QED BY <1>1, <1>2, <1>3, <1>4 DEF RequestsOK

\* The sound blocks are a set that the reducer keeps.
LEMMA SoundSpans ==
  ASSUME NEW n \in Nat
  PROVE  HasSpans(SoundBlocks(n), n)
<1> SUFFICES ASSUME NEW lo \in 1 .. n, NEW hi \in lo .. n,
                    NEW recent \in BOOLEAN, NEW oldest \in BOOLEAN,
                    recent => InitialPosts <= hi, oldest => lo = 1
             PROVE  SpanBlock(lo, hi, recent, oldest) \in SoundBlocks(n)
  BY DEF HasSpans
<1> QED BY SpanSound

\* The ends of a block on display are posts that are published.
LEMMA EndsPublished ==
  ASSUME CountersOK, blocks \in Seq(SoundBlocks(count)), NEW i \in DOMAIN blocks
  PROVE  /\ Newest(blocks[i]) \in 1 .. count /\ Oldest(blocks[i]) \in 1 .. count
<1>1. count \in Nat
  BY NumbersOK
<1>2. blocks[i] \in SoundBlocks(count)
  BY LenProperties
<1> QED BY <1>1, <1>2, SoundBlock

\* What was published stays held, missed or to be pushed while all three only grow.
LEMMA PublishedStay ==
  ASSUME PublishedKept, count' = count,
         Held(blocks) \subseteq Held(blocks'),
         missed \subseteq missed', pending \subseteq pending'
  PROVE  PublishedKept'
BY DEF PublishedKept

LEMMA InitInv ==
  ASSUME Init
  PROVE  Inv
<1>1. InitialPosts \in Nat \ {0} /\ MaxPosts \in Nat /\ InitialPosts <= MaxPosts
  BY ChannelPostsAssumption
<1>2. CountersOK
  <2>1. Never \in Times /\ Never.at = 0
    BY <1>1 DEF Never, Times
  <2> QED BY <1>1, <2>1 DEF Init, CountersOK, Sockets
<1>3. RequestsOK
  <2>1. requests \in [Requests -> Request]
    BY NoRequestOK DEF Init
  <2>2. \A r \in Requests : RequestOK(requests[r], count)
    BY <1>1, NoRequestOK DEF Init
  <2> QED BY <2>1, <2>2 DEF RequestsOK
<1>4. blocks \in Seq(SoundBlocks(count))
  BY EmptySeq DEF Init
<1>5. PublishedKept
  BY <1>1 DEF Init, PublishedKept
<1> QED BY <1>2, <1>3, <1>4, <1>5 DEF Inv

\* A step that concerns requests only.
LEMMA RequestStep ==
  ASSUME Inv, RequestsOK', UNCHANGED <<count, pending, socket, blocks, missed>>,
         lastGetPosts' \in Times, lastGetPosts'.at <= count
  PROVE  Inv'
<1>1. CountersOK'
  BY DEF Inv, CountersOK
<1>2. PublishedKept' /\ (blocks \in Seq(SoundBlocks(count)))'
  BY DEF Inv, PublishedKept
<1> QED BY <1>1, <1>2 DEF Inv

LEMMA PublishInv ==
  ASSUME Inv, Publish
  PROVE  Inv'
<1>0. CountersOK /\ RequestsOK /\ PublishedKept /\ blocks \in Seq(SoundBlocks(count))
  BY DEF Inv
<1>1. /\ count \in Nat /\ count + 1 \in Nat /\ count <= count + 1
      /\ count' = count + 1 /\ count' <= MaxPosts
      /\ \/ pending' = pending \cup {count + 1} /\ missed' = missed
         \/ missed' = missed \cup {count + 1} /\ pending' = pending
      /\ UNCHANGED <<socket, blocks, lastGetPosts, requests>>
  BY <1>0, NumbersOK DEF Publish
<1>2. CountersOK'
  <2>1. /\ InitialPosts \in Nat \ {0} /\ MaxPosts \in Nat
        /\ InitialPosts <= count /\ count + 1 \in Posts
    BY <1>0, <1>1, NumbersOK DEF Posts
  <2>2. /\ InitialPosts + 1 .. count \subseteq InitialPosts + 1 .. count + 1
        /\ count + 1 \in InitialPosts + 1 .. count + 1
    BY <1>1, <2>1
  <2>3. pending' \subseteq InitialPosts + 1 .. count + 1 /\ missed' \subseteq Posts
    BY <1>0, <1>1, <2>1, <2>2 DEF CountersOK
  <2> QED BY <1>0, <1>1, <2>1, <2>3 DEF CountersOK, Times
<1>3. RequestsOK'
  <2>1. \A r \in Requests : requests[r] \in Request /\ RequestOK(requests[r], count)
    BY <1>0 DEF RequestsOK
  <2>2. \A r \in Requests : RequestOK(requests[r], count + 1)
    BY <1>1, <2>1, RequestLater
  <2> QED BY <1>0, <1>1, <2>2 DEF RequestsOK
<1>4. blocks' \in Seq(SoundBlocks(count'))
  BY <1>0, <1>1, SoundLater, SeqMonotonic
<1>5. PublishedKept'
  <2>1. ASSUME NEW p \in InitialPosts + 1 .. count + 1
        PROVE  p \in Held(blocks) \cup missed' \cup pending'
    <3>1. InitialPosts \in Nat
      BY ChannelPostsAssumption
    <3>2. p = count + 1 \/ p \in InitialPosts + 1 .. count
      BY <1>1, <2>1, <3>1
    <3> QED BY <1>0, <1>1, <3>2 DEF PublishedKept
  <2> QED BY <1>1, <2>1 DEF PublishedKept
<1> QED BY <1>2, <1>3, <1>4, <1>5 DEF Inv

LEMMA NewPostInv ==
  ASSUME Inv, ReceiveNewPost
  PROVE  Inv' /\ Held(blocks) \subseteq Held(blocks')
<1>0. CountersOK /\ RequestsOK /\ PublishedKept /\ blocks \in Seq(SoundBlocks(count))
  BY DEF Inv
<1>1. PICK post \in pending :
        /\ pending' = pending \ {post}
        /\ blocks' = ReceivedNewPost(blocks, post)
        /\ missed' = IF blocks = << >> THEN missed \cup {post} ELSE missed
  BY DEF ReceiveNewPost
<1>2. UNCHANGED <<count, socket, lastGetPosts, requests>>
  BY DEF ReceiveNewPost
<1>3. /\ count \in Nat /\ InitialPosts \in Nat /\ post \in 1 .. count
      /\ post \in InitialPosts + 1 .. count /\ InitialPosts < post /\ post \in Posts
  BY <1>0, <1>1, NumbersOK DEF CountersOK
<1>4. /\ blocks' \in Seq(SoundBlocks(count))
      /\ Held(blocks) \subseteq Held(blocks')
      /\ blocks # << >> => post \in Held(blocks')
  BY <1>0, <1>1, <1>3, NewPostReceived
<1>5. CountersOK'
  BY <1>0, <1>1, <1>2, <1>3 DEF CountersOK
<1>6. RequestsOK'
  BY <1>0, <1>2 DEF RequestsOK
<1>7. PublishedKept'
  BY <1>0, <1>1, <1>2, <1>4 DEF PublishedKept
<1> QED BY <1>2, <1>4, <1>5, <1>6, <1>7 DEF Inv

LEMMA DisconnectInv ==
  ASSUME Inv, Disconnect
  PROVE  Inv'
<1>0. CountersOK /\ RequestsOK /\ PublishedKept /\ blocks \in Seq(SoundBlocks(count))
  BY DEF Inv
<1>1. socket' = "closed" /\ UNCHANGED <<count, pending, blocks, missed>>
  BY DEF Disconnect
<1>2. RequestsOK' /\ lastGetPosts' \in Times /\ lastGetPosts'.at = lastGetPosts.at
  BY <1>0, DisconnectStep
<1>3. CountersOK'
  BY <1>0, <1>1, <1>2 DEF CountersOK, Sockets
<1>4. PublishedKept'
  BY <1>0, <1>1, PublishedStay
<1> QED BY <1>0, <1>1, <1>2, <1>3, <1>4 DEF Inv

\* reconnect sends a request that is sound.
LEMMA CurrentChannelSynced ==
  ASSUME Inv, NEW r \in Requests, SyncCurrentChannel(r), count' = count
  PROVE  RequestsOK'
<1>0. CountersOK /\ RequestsOK /\ blocks \in Seq(SoundBlocks(count)) /\ count \in Nat
  BY NumbersOK DEF Inv
<1>1. CASE HasRecent(blocks) /\ SyncPostsInChannel(r, Newest(RecentBlock(blocks)))
  <2>1. RecentIndex(blocks) \in DOMAIN blocks
    BY <1>0, <1>1, RecentFound, LenProperties
  <2>2. Newest(RecentBlock(blocks)) \in 1 .. count
    BY <1>0, <2>1, EndsPublished DEF RecentBlock
  <2> QED BY <1>0, <1>1, <2>2, SyncSent
<1>2. CASE Send(r, "reload", 0)
  <2>1. /\ "reload" \in Kinds /\ "reload" \notin {"around", "before", "after", "sync"}
        /\ 0 \in 0 .. count
    BY <1>0 DEF Kinds
  <2> QED BY <1>0, <1>2, <2>1, RequestSent
<1> QED BY <1>1, <1>2 DEF SyncCurrentChannel

LEMMA ReconnectInv ==
  ASSUME Inv, NEW r \in Requests, Reconnect(r)
  PROVE  Inv'
<1>0. CountersOK /\ PublishedKept /\ blocks \in Seq(SoundBlocks(count))
  BY DEF Inv
<1>1. /\ socket' = "connected" /\ SyncCurrentChannel(r)
      /\ UNCHANGED <<count, pending, blocks, lastGetPosts, missed>>
  BY DEF Reconnect
<1>2. CountersOK'
  BY <1>0, <1>1 DEF CountersOK, Sockets
<1>3. RequestsOK'
  BY <1>1, CurrentChannelSynced
<1>4. PublishedKept'
  BY <1>0, <1>1, PublishedStay
<1> QED BY <1>0, <1>1, <1>2, <1>3, <1>4 DEF Inv

LEMMA ResumeInv ==
  ASSUME Inv, Resume
  PROVE  Inv'
<1>0. CountersOK /\ RequestsOK /\ PublishedKept /\ blocks \in Seq(SoundBlocks(count))
  BY DEF Inv
<1>1. /\ socket' = "receiving"
      /\ UNCHANGED <<count, pending, blocks, lastGetPosts, requests, missed>>
  BY DEF Resume
<1>2. CountersOK' /\ RequestsOK'
  BY <1>0, <1>1 DEF CountersOK, RequestsOK, Sockets
<1>3. PublishedKept'
  BY <1>0, <1>1, PublishedStay
<1> QED BY <1>0, <1>1, <1>2, <1>3 DEF Inv

\* What a new stream leaves out is missed, unless it is held.
LEMMA RestartInv ==
  ASSUME Inv, NEW r \in Requests, Restart(r)
  PROVE  Inv'
<1>0. CountersOK /\ PublishedKept /\ blocks \in Seq(SoundBlocks(count))
  BY DEF Inv
<1>1. /\ socket' = "receiving" /\ SyncCurrentChannel(r)
      /\ UNCHANGED <<count, blocks, lastGetPosts>>
  BY DEF Restart
<1>2. PICK lost \in SUBSET pending :
        pending' = pending \ lost /\ missed' = missed \cup (lost \ Held(blocks))
  BY DEF Restart
<1>3. pending \subseteq Posts
  BY <1>0, NumbersOK
<1>4. CountersOK'
  BY <1>0, <1>1, <1>2, <1>3 DEF CountersOK, Sockets
<1>5. RequestsOK'
  BY <1>1, CurrentChannelSynced
<1>6. PublishedKept'
  BY <1>0, <1>1, <1>2 DEF PublishedKept
<1> QED BY <1>0, <1>1, <1>4, <1>5, <1>6 DEF Inv

\* The steps of a request that leave the blocks alone.
RequestOnly(r) ==
  \/ \E p \in Posts : OpenPermalink(r, p)
  \/ OpenFirst(r)
  \/ OpenDisplayed(r)
  \/ OpenElsewhere(r)
  \/ Prefetch(r)
  \/ LoadPosts(r)
  \/ Answer(r)
  \/ RequestFails(r)

LEMMA RequestOnlyInv ==
  ASSUME Inv, NEW r \in Requests, RequestOnly(r)
  PROVE  Inv' /\ blocks' = blocks
<1>0. CountersOK /\ RequestsOK /\ PublishedKept /\ blocks \in Seq(SoundBlocks(count))
  BY DEF Inv
<1>1. UNCHANGED <<count, pending, socket, blocks, lastGetPosts, missed>>
  BY DEF RequestOnly, OpenPermalink, OpenFirst, OpenDisplayed, OpenElsewhere, Prefetch,
         LoadPosts, Answer, RequestFails
<1>2. count \in Nat /\ count' = count /\ 0 \in 0 .. count
  BY <1>0, <1>1, NumbersOK
<1>3. ASSUME NEW p \in Posts, OpenPermalink(r, p) PROVE RequestsOK'
  <2>1. p \in 0 .. count /\ 1 <= p /\ Send(r, "around", p)
    BY <1>2, <1>3, ChannelPostsAssumption DEF OpenPermalink, Posts
  <2>2. "around" \in Kinds /\ "around" # "sync"
    BY DEF Kinds
  <2> QED BY <1>0, <1>2, <2>1, <2>2, RequestSent
<1>4. ASSUME OpenFirst(r) PROVE RequestsOK'
  <2>1. "unreads" \in Kinds /\ "unreads" \notin {"around", "before", "after", "sync"}
    BY DEF Kinds
  <2> QED BY <1>0, <1>2, <1>4, <2>1, RequestSent DEF OpenFirst
<1>5. ASSUME OpenDisplayed(r) PROVE RequestsOK'
  <2>1. PICK i \in DOMAIN blocks : SyncPostsInChannel(r, Newest(blocks[i]))
    BY <1>5 DEF OpenDisplayed
  <2>2. Newest(blocks[i]) \in 1 .. count
    BY <1>0, <2>1, EndsPublished
  <2> QED BY <1>0, <1>2, <2>1, <2>2, SyncSent
<1>6. ASSUME OpenElsewhere(r) PROVE RequestsOK'
  <2>1. "latest" \in Kinds /\ "latest" \notin {"around", "before", "after", "sync"}
    BY DEF Kinds
  <2> QED BY <1>0, <1>2, <1>6, <2>1, RequestSent DEF OpenElsewhere
<1>7. ASSUME Prefetch(r) PROVE RequestsOK'
  <2>1. CASE Send(r, "prefetch", 0)
    <3>1. "prefetch" \in Kinds /\ "prefetch" \notin {"around", "before", "after", "sync"}
      BY DEF Kinds
    <3> QED BY <1>0, <1>2, <2>1, <3>1, RequestSent
  <2>2. CASE HasRecent(blocks) /\ SyncPostsInChannel(r, Newest(RecentBlock(blocks)))
    <3>1. RecentIndex(blocks) \in DOMAIN blocks
      BY <1>0, <2>2, RecentFound, LenProperties
    <3>2. Newest(RecentBlock(blocks)) \in 1 .. count
      BY <1>0, <3>1, EndsPublished DEF RecentBlock
    <3> QED BY <1>0, <1>2, <2>2, <3>2, SyncSent
  <2> QED BY <1>7, <2>1, <2>2 DEF Prefetch
<1>8. ASSUME LoadPosts(r) PROVE RequestsOK'
  <2>1. PICK i \in DOMAIN blocks :
          \/ Send(r, "before", Oldest(blocks[i]))
          \/ Send(r, "after", Newest(blocks[i]))
    BY <1>8 DEF LoadPosts
  <2>2. /\ Newest(blocks[i]) \in 0 .. count /\ 1 <= Newest(blocks[i])
        /\ Oldest(blocks[i]) \in 0 .. count /\ 1 <= Oldest(blocks[i])
    BY <1>0, <1>2, <2>1, EndsPublished
  <2>3. /\ "before" \in Kinds /\ "after" \in Kinds
        /\ "before" # "sync" /\ "after" # "sync"
    BY DEF Kinds
  <2> QED BY <1>0, <1>2, <2>1, <2>2, <2>3, RequestSent
<1>9. ASSUME Answer(r) PROVE RequestsOK'
  BY <1>0, <1>9, AnswerStep
<1>10. ASSUME RequestFails(r) PROVE RequestsOK'
  BY <1>0, <1>2, <1>10, RequestCleared DEF RequestFails
<1>11. RequestsOK'
  BY <1>3, <1>4, <1>5, <1>6, <1>7, <1>8, <1>9, <1>10 DEF RequestOnly
<1>12. lastGetPosts' \in Times /\ lastGetPosts'.at <= count
  BY <1>0, <1>1 DEF CountersOK
<1> QED BY <1>1, <1>11, <1>12, RequestStep

LEMMA PageInv ==
  ASSUME Inv, NEW r \in Requests, ReceivePage(r)
  PROVE  Inv' /\ Held(blocks) \subseteq Held(blocks')
<1>0. CountersOK /\ RequestsOK /\ PublishedKept /\ blocks \in Seq(SoundBlocks(count))
  BY DEF Inv
<1>1. /\ requests' = [requests EXCEPT ![r] = NoRequest]
      /\ missed' = missed \ Held(blocks')
      /\ UNCHANGED <<count, pending, socket>>
      /\ lastGetPosts' \in {lastGetPosts, requests[r].time}
  BY DEF ReceivePage
<1>2. count \in Nat /\ requests[r] \in Request /\ RequestOK(requests[r], count)
  BY <1>0, NumbersOK DEF RequestsOK
<1>3. blocks' \in Seq(SoundBlocks(count)) /\ Held(blocks) \subseteq Held(blocks')
  BY <1>0, <1>2, PageStep, SoundSet, MergeSound, UnmarkSound, SoundSpans
<1>4. CountersOK'
  <2>1. requests[r].time \in Times /\ requests[r].time.at <= count
    BY <1>2 DEF Request, RequestOK
  <2> QED BY <1>0, <1>1, <2>1 DEF CountersOK
<1>5. RequestsOK'
  BY <1>0, <1>1, RequestCleared
<1>6. PublishedKept'
  BY <1>0, <1>1, <1>3 DEF PublishedKept
<1> QED BY <1>1, <1>3, <1>4, <1>5, <1>6 DEF Inv

LEMMA SyncInv ==
  ASSUME Inv, NEW r \in Requests, ReceiveSync(r)
  PROVE  Inv' /\ Held(blocks) \subseteq Held(blocks')
<1> DEFINE q == requests[r]
<1>0. CountersOK /\ RequestsOK /\ PublishedKept /\ blocks \in Seq(SoundBlocks(count))
  BY DEF Inv
<1> DEFINE due == IF q.tracked # 0 /\ HasRecent(blocks)
                  THEN {p \in q.tracked + 1 .. q.time.at : p >= Oldest(RecentBlock(blocks))}
                  ELSE {}
<1>1. /\ q.answered /\ q.kind = "sync"
      /\ blocks' = ReceivedPostsSince(blocks, q.order)
      /\ lastGetPosts' = q.time
      /\ missed' = missed \ (due \cup Held(blocks'))
      /\ requests' = [requests EXCEPT ![r] = NoRequest]
      /\ UNCHANGED <<count, pending, socket>>
  BY DEF ReceiveSync
<1>2. /\ count \in Nat /\ q \in Request /\ RequestOK(q, count) /\ AnswerOK(q, count)
      /\ q.arg \in Nat /\ q.tracked \in Nat /\ q.time \in Times /\ q.time.at \in Nat
  BY <1>0, <1>1, NumbersOK DEF RequestsOK, RequestOK, Request, Times
<1> HIDE DEF q
<1>3. PICK lo \in 1 .. count + 1 :
        \E hi \in lo - 1 .. count :
          q.order = Span(lo, hi) /\ lo = q.arg + 1 /\ q.time.at <= hi
  BY <1>1, <1>2 DEF AnswerOK
<1>4. PICK hi \in lo - 1 .. count :
        q.order = Span(lo, hi) /\ lo = q.arg + 1 /\ q.time.at <= hi
  BY <1>3
<1>5. q.order \in Seq(1 .. count) /\ \A p \in lo .. hi : p \in ToSet(q.order)
  <2>1. CASE hi < lo
    <3>1. q.order = << >>
      BY <1>2, <1>4, <2>1, SpanEmpty
    <3>2. lo .. hi = {}
      BY <1>2, <1>4, <2>1
    <3> QED BY <3>1, <3>2, EmptySeq
  <2>2. CASE lo <= hi
    <3>1. lo \in Nat /\ hi \in Nat /\ lo .. hi \subseteq 1 .. count
      BY <1>2, <1>3, <1>4, <2>2
    <3>2. q.order \in Seq(lo .. hi) /\ ToSet(q.order) = lo .. hi
      BY <1>4, <2>2, <3>1, Spans
    <3> QED BY <3>1, <3>2, SeqMonotonic
  <2> QED BY <1>2, <1>3, <1>4, <2>1, <2>2
<1>6. /\ blocks' \in Seq(SoundBlocks(count))
      /\ Held(blocks) \subseteq Held(blocks')
      /\ HasRecent(blocks) =>
           \A p \in ToSet(q.order) :
             p >= Oldest(RecentBlock(blocks)) => p \in Held(blocks')
  BY <1>0, <1>1, <1>2, <1>5, SinceReceived
<1>7. CountersOK'
  <2>1. q.time.at <= count
    BY <1>2 DEF RequestOK
  <2>2. missed' \subseteq missed
    BY <1>1
  <2> QED BY <1>0, <1>1, <1>2, <2>1, <2>2 DEF CountersOK
<1>8. RequestsOK'
  BY <1>0, <1>1, RequestCleared
<1>9. PublishedKept'
  <2>1. ASSUME NEW p \in due PROVE p \in Held(blocks')
    <3>1. /\ q.tracked # 0 /\ HasRecent(blocks)
          /\ p \in q.tracked + 1 .. q.time.at
          /\ p >= Oldest(RecentBlock(blocks))
      BY <2>1
    <3>2. q.arg = q.tracked
      BY <1>2, <3>1 DEF RequestOK
    <3>3. p \in lo .. hi
      BY <1>2, <1>3, <1>4, <3>1, <3>2
    <3> QED BY <1>5, <1>6, <3>1, <3>3
  <2> HIDE DEF due
  <2>2. missed \subseteq missed' \cup Held(blocks')
    BY <1>1, <2>1
  <2> QED BY <1>0, <1>1, <1>6, <2>2 DEF PublishedKept
<1> QED BY <1>1, <1>6, <1>7, <1>8, <1>9 DEF Inv

LEMMA NextInv ==
  ASSUME Inv, [Next]_vars
  PROVE  Inv' /\ Held(blocks) \subseteq Held(blocks')
<1>1. CASE Publish
  BY <1>1, PublishInv DEF Publish
<1>2. CASE ReceiveNewPost
  BY <1>2, NewPostInv
<1>3. CASE Disconnect
  BY <1>3, DisconnectInv DEF Disconnect
<1>4. ASSUME NEW r \in Requests, Reconnect(r) \/ Restart(r)
      PROVE  Inv' /\ Held(blocks) \subseteq Held(blocks')
  BY <1>4, ReconnectInv, RestartInv DEF Reconnect, Restart
<1>5. ASSUME NEW r \in Requests, RequestOnly(r)
      PROVE  Inv' /\ Held(blocks) \subseteq Held(blocks')
  BY <1>5, RequestOnlyInv
<1>6. ASSUME NEW r \in Requests, ReceivePage(r)
      PROVE  Inv' /\ Held(blocks) \subseteq Held(blocks')
  BY <1>6, PageInv
<1>7. ASSUME NEW r \in Requests, ReceiveSync(r)
      PROVE  Inv' /\ Held(blocks) \subseteq Held(blocks')
  BY <1>7, SyncInv
<1>8. CASE UNCHANGED vars
  BY <1>8 DEF vars, Inv, CountersOK, RequestsOK, PublishedKept
<1>9. CASE Resume
  BY <1>9, ResumeInv DEF Resume
<1> QED BY <1>1, <1>2, <1>3, <1>4, <1>5, <1>6, <1>7, <1>8, <1>9 DEF Next, RequestOnly

-----------------------------------------------------------------------------
(* Blocks in order *)

\* Sound blocks in order that lack no others between their ends.
OrderedBlocks(n, gaps) ==
  {b \in SoundBlocks(n) : Decreasing(b.order) /\ Covers(b.order, gaps)}

LEMMA OrderedMerge ==
  ASSUME NEW n \in Nat, NEW gaps
  PROVE  MergeClosed(OrderedBlocks(n, gaps))
<1> SUFFICES ASSUME NEW a \in OrderedBlocks(n, gaps), NEW b \in OrderedBlocks(n, gaps),
                    NEW top \in ToSet(a.order), top >= Newest(b), Overlap(a, b)
             PROVE  Merge(a, b) \in OrderedBlocks(n, gaps)
  BY DEF MergeClosed
<1>1. /\ a \in SoundBlocks(n) /\ Decreasing(a.order) /\ Covers(a.order, gaps)
      /\ b \in SoundBlocks(n) /\ Decreasing(b.order) /\ Covers(b.order, gaps)
  BY DEF OrderedBlocks
<1>2. Merge(a, b) \in SoundBlocks(n)
  BY <1>1, MergeSound DEF MergeClosed
<1>3. /\ a.order \in Seq(1 .. n) /\ a.order # << >>
      /\ b.order \in Seq(1 .. n) /\ b.order # << >>
  BY <1>1, SoundBlock
<1> DEFINE m == mergePostOrder(a.order, b.order)
<1>4. 1 .. n \in SUBSET Nat
  OBVIOUS
<1>5. ToSet(m) = ToSet(a.order) \cup ToSet(b.order) /\ Decreasing(m)
  BY <1>1, <1>3, <1>4, OrderMerged
<1>6. Merge(a, b).order = m
  BY DEF Merge
<1>7. Covers(m, gaps)
  <2>1. top >= Head(b.order) /\ Last(a.order) <= Head(b.order)
    BY DEF Newest, Oldest, Overlap
  <2> HIDE DEF m
  <2> QED BY <1>1, <1>3, <1>4, <1>5, <2>1, CoversMerged
<1> QED BY <1>2, <1>5, <1>6, <1>7 DEF OrderedBlocks

LEMMA OrderedSet ==
  ASSUME NEW n \in Nat, NEW gaps
  PROVE  /\ BlockSet(OrderedBlocks(n, gaps), 1 .. n)
         /\ Unmarkable(OrderedBlocks(n, gaps))
         /\ HasSpans(OrderedBlocks(n, gaps), n)
<1>1. BlockSet(OrderedBlocks(n, gaps), 1 .. n)
  BY SoundSet DEF BlockSet, OrderedBlocks
<1>2. ASSUME NEW b \in OrderedBlocks(n, gaps)
      PROVE  [b EXCEPT !.recent = FALSE] \in OrderedBlocks(n, gaps)
  <2>1. b \in SoundBlocks(n) /\ b \in Block(1 .. n)
    BY SoundBlock DEF OrderedBlocks
  <2>2. [b EXCEPT !.recent = FALSE] \in SoundBlocks(n)
    BY <2>1, UnmarkSound DEF Unmarkable
  <2>3. [b EXCEPT !.recent = FALSE].order = b.order
    BY <2>1 DEF Block
  <2> QED BY <2>2, <2>3 DEF OrderedBlocks
<1>3. ASSUME NEW lo \in 1 .. n, NEW hi \in lo .. n,
             NEW recent \in BOOLEAN, NEW oldest \in BOOLEAN,
             recent => InitialPosts <= hi, oldest => lo = 1
      PROVE  SpanBlock(lo, hi, recent, oldest) \in OrderedBlocks(n, gaps)
  <2>1. SpanBlock(lo, hi, recent, oldest) \in SoundBlocks(n)
    BY <1>3, SpanSound
  <2>2. SpanBlock(lo, hi, recent, oldest).order = Span(lo, hi)
    BY DEF SpanBlock
  <2>3. lo \in Nat /\ hi \in Nat /\ lo <= hi
    OBVIOUS
  <2>4. Decreasing(Span(lo, hi)) /\ ToSet(Span(lo, hi)) = lo .. hi
    BY <2>3, Spans
  <2>5. Covers(Span(lo, hi), gaps)
    BY <2>3, <2>4 DEF Covers
  <2> QED BY <2>1, <2>2, <2>4, <2>5 DEF OrderedBlocks
<1> QED BY <1>1, <1>2, <1>3 DEF Unmarkable, HasSpans

\* To be in order, and to have no gaps but these, is to have ordered blocks.
LEMMA OrderedIffInOrder ==
  ASSUME NEW n \in Nat, NEW bs \in Seq(SoundBlocks(n)), InOrder(bs)
  PROVE  bs \in Seq(OrderedBlocks(n, Gaps(bs)))
<1>1. Len(bs) \in Nat /\ DOMAIN bs = 1 .. Len(bs) /\ bs \in [1 .. Len(bs) -> SoundBlocks(n)]
  BY LenProperties
<1>2. ASSUME NEW i \in 1 .. Len(bs) PROVE bs[i] \in OrderedBlocks(n, Gaps(bs))
  <2> DEFINE order == bs[i].order
  <2>1. /\ bs[i] \in SoundBlocks(n) /\ order \in Seq(1 .. n) /\ order # << >>
        /\ ToSet(order) \subseteq 1 .. n /\ 1 .. n \in SUBSET Nat
        /\ Newest(bs[i]) \in 1 .. n /\ Oldest(bs[i]) \in 1 .. n
    BY <1>1, SoundBlock
  <2>2. Decreasing(order)
    BY <1>1 DEF InOrder, Decreasing
  <2>3. ASSUME NEW u \in ToSet(order), NEW v \in ToSet(order), NEW p \in u .. v
        PROVE  p \in ToSet(order) \cup Gaps(bs)
    <3>1. Last(order) <= u /\ v <= Head(order)
      <4> HIDE DEF order
      <4> QED BY <2>1, <2>2, DecreasingEnds
    <3>2. u \in Nat /\ v \in Nat
      BY <2>1
    <3>3. p \in Oldest(bs[i]) .. Newest(bs[i])
      BY <2>1, <3>1, <3>2 DEF Oldest, Newest
    <3> QED BY <1>1, <3>3 DEF Gaps
  <2>4. Covers(order, Gaps(bs))
    BY <2>3 DEF Covers
  <2> QED BY <2>1, <2>2, <2>4 DEF OrderedBlocks
<1>3. bs \in [1 .. Len(bs) -> OrderedBlocks(n, Gaps(bs))]
  BY <1>1, <1>2
<1> QED BY <1>1, <1>3, WholeSequence

LEMMA OrderedHasNoOthers ==
  ASSUME NEW n \in Nat, NEW gaps, NEW bs \in Seq(OrderedBlocks(n, gaps))
  PROVE  InOrder(bs) /\ Gaps(bs) \subseteq gaps
<1>1. Len(bs) \in Nat /\ DOMAIN bs = 1 .. Len(bs)
      /\ \A i \in 1 .. Len(bs) : bs[i] \in OrderedBlocks(n, gaps)
  BY LenProperties
<1>2. InOrder(bs)
  BY <1>1 DEF InOrder, OrderedBlocks, Decreasing
<1>3. ASSUME NEW i \in 1 .. Len(bs),
             NEW p \in Oldest(bs[i]) .. Newest(bs[i]), p \notin ToSet(bs[i].order)
      PROVE  p \in gaps
  <2>1. bs[i] \in SoundBlocks(n) /\ Covers(bs[i].order, gaps)
    BY <1>1 DEF OrderedBlocks
  <2>2. Oldest(bs[i]) \in ToSet(bs[i].order) /\ Newest(bs[i]) \in ToSet(bs[i].order)
    BY <2>1, SoundBlock
  <2> QED BY <1>3, <2>1, <2>2 DEF Covers
<1> QED BY <1>1, <1>2, <1>3 DEF Gaps

\* What is received changes blocks as this says; a push receives nothing.
LEMMA ReceivingStep ==
  ASSUME Inv, Next, NEW kinds, kinds \subseteq Kinds, Receives(kinds), blocks' # blocks
  PROVE  \E r \in Requests : ReceivePage(r) \/ (ReceiveSync(r) /\ "sync" \in kinds)
<1>0. RequestsOK
  BY DEF Inv
<1>1. PICK s \in Requests : requests[s].kind \in kinds /\ requests'[s] = NoRequest
  BY DEF Receives
<1>2. NoRequest.kind \notin kinds
  BY DEF NoRequest, Kinds
<1>3. requests'[s] # requests[s]
  BY <1>1, <1>2
<1>4. ~Publish /\ ~ReceiveNewPost /\ ~Disconnect /\ ~Resume
  BY <1>3 DEF Publish, ReceiveNewPost, Disconnect, Resume
<1>5. ASSUME NEW r \in Requests PROVE ~Reconnect(r) /\ ~Restart(r)
  BY DEF Reconnect, Restart
<1>6. ASSUME NEW r \in Requests PROVE ~RequestOnly(r)
  BY RequestOnlyInv
<1>7. PICK r \in Requests : ReceivePage(r) \/ ReceiveSync(r)
  BY <1>4, <1>5, <1>6 DEF Next, RequestOnly
<1>8. ASSUME ReceiveSync(r) PROVE "sync" \in kinds
  <2>1. requests' = [requests EXCEPT ![r] = NoRequest] /\ requests[r].kind = "sync"
    BY <1>8 DEF ReceiveSync
  <2>2. s = r
    BY <1>0, <1>3, <2>1 DEF RequestsOK
  <2> QED BY <1>1, <2>1, <2>2
<1> QED BY <1>7, <1>8

\* A page keeps order and opens no gap.
LEMMA PageOrdered ==
  ASSUME Inv, InOrder(blocks), NEW r \in Requests, ReceivePage(r)
  PROVE  InOrder(blocks') /\ Gaps(blocks') \subseteq Gaps(blocks)
<1> DEFINE T == OrderedBlocks(count, Gaps(blocks))
<1>1. /\ count \in Nat /\ requests[r] \in Request /\ RequestOK(requests[r], count)
      /\ blocks \in Seq(SoundBlocks(count))
  BY NumbersOK DEF Inv, RequestsOK
<1>2. blocks \in Seq(T)
  BY <1>1, OrderedIffInOrder
<1>3. /\ BlockSet(T, 1 .. count) /\ Unmarkable(T) /\ HasSpans(T, count)
      /\ MergeClosed(T)
  BY <1>1, OrderedSet, OrderedMerge
<1>4. blocks' \in Seq(T)
  <2> HIDE DEF T
  <2> QED BY <1>1, <1>2, <1>3, PageStep
<1> DEFINE gaps == Gaps(blocks)
           after == blocks'
<1>5. after \in Seq(OrderedBlocks(count, gaps))
  BY <1>4
<1> HIDE DEF gaps, after
<1>6. InOrder(after) /\ Gaps(after) \subseteq gaps
  BY <1>1, <1>5, OrderedHasNoOthers
<1> QED BY <1>6 DEF gaps, after

\* A sync keeps order.
LEMMA SyncOrdered ==
  ASSUME Inv, InOrder(blocks), NEW r \in Requests, ReceiveSync(r)
  PROVE  InOrder(blocks')
<1> DEFINE q == requests[r]
<1>1. /\ q.answered /\ blocks' = ReceivedPostsSince(blocks, q.order)
      /\ RequestOK(q, count) /\ q \in Request /\ count \in Nat
      /\ blocks \in Seq(SoundBlocks(count))
  BY NumbersOK DEF ReceiveSync, Inv, RequestsOK
<1> HIDE DEF q
<1>2. PICK lo \in 1 .. count + 1 : \E hi \in lo - 1 .. count : q.order = Span(lo, hi)
  BY <1>1 DEF RequestOK, AnswerOK
<1>3. PICK hi \in lo - 1 .. count : q.order = Span(lo, hi)
  BY <1>2
<1>4. q.order \in Seq(1 .. count) /\ Decreasing(q.order)
  <2>1. CASE hi < lo
    <3>1. q.order = << >>
      BY <1>1, <1>2, <1>3, <2>1, SpanEmpty
    <3>2. Decreasing(<< >>)
      BY DEF Decreasing
    <3> QED BY <3>1, <3>2, EmptySeq
  <2>2. CASE lo <= hi
    <3>1. lo \in Nat /\ hi \in Nat /\ lo .. hi \subseteq 1 .. count
      BY <1>1, <1>2, <1>3, <2>2
    <3>2. q.order \in Seq(lo .. hi) /\ Decreasing(q.order)
      BY <1>3, <2>2, <3>1, Spans
    <3> QED BY <3>1, <3>2, SeqMonotonic
  <2> QED BY <1>1, <1>2, <1>3, <2>1, <2>2
<1> QED BY <1>1, <1>4, SinceReceived

-----------------------------------------------------------------------------
(* The theorems *)

\* The inductive invariant: blocks are sound, answers are spans, what was published
\* is held, missed or still to be pushed.
THEOREM PostsInvariance == Spec => []Inv
<1>1. Init => Inv
  BY InitInv
<1>2. Inv /\ [Next]_vars => Inv'
  BY NextInv
<1> QED BY <1>1, <1>2, PTL DEF Spec

\* Every variable has its type: every block that the reducer makes is a block.
THEOREM TypeCorrect == Spec => []TypeOK
<1>1. Inv => TypeOK
  <2>1. SUFFICES ASSUME Inv PROVE TypeOK
    OBVIOUS
  <2>2. CountersOK /\ RequestsOK /\ blocks \in Seq(SoundBlocks(count))
    BY <2>1 DEF Inv
  <2>3. /\ count \in Nat /\ 1 .. count \subseteq Posts
        /\ count \in Posts /\ pending \subseteq Posts
    BY <2>2, NumbersOK DEF Posts
  <2>4. ASSUME NEW b \in SoundBlocks(count) PROVE b \in Block(Posts)
    <3>1. b \in Block(1 .. count) /\ b.order \in Seq(1 .. count)
      BY <2>3, SoundBlock
    <3>2. b.order \in Seq(Posts)
      BY <2>3, <3>1, SeqMonotonic
    <3> QED BY <3>1, <3>2 DEF Block
  <2>5. blocks \in Seq(Block(Posts))
    BY <2>2, <2>4, SeqMonotonic
  <2> QED BY <2>2, <2>3, <2>5 DEF TypeOK, CountersOK, RequestsOK
<1> QED BY <1>1, PostsInvariance, PTL

\* No gap between the ends of a block is silent, in whatever order pages, pushes and
\* syncs arrive.
THEOREM GapsAreKnown == Spec => []NoSilentGap
<1>1. Inv => NoSilentGap
  <2>1. SUFFICES ASSUME Inv, NEW i \in DOMAIN blocks,
                        NEW p \in Oldest(blocks[i]) .. Newest(blocks[i])
                 PROVE  p \in Held(blocks) \cup missed \cup pending
    BY DEF NoSilentGap
  <2>2. CountersOK /\ PublishedKept /\ blocks \in Seq(SoundBlocks(count))
    BY <2>1 DEF Inv
  <2>3. count \in Nat /\ InitialPosts \in Nat
    BY <2>2, NumbersOK
  <2>4. blocks[i] \in SoundBlocks(count)
    BY <2>2, LenProperties
  <2>5. /\ Sound(blocks[i]) /\ ToSet(blocks[i].order) \subseteq 1 .. count
        /\ Newest(blocks[i]) \in ToSet(blocks[i].order)
        /\ Oldest(blocks[i]) \in ToSet(blocks[i].order)
    BY <2>3, <2>4, SoundBlock
  <2>6. p \in Nat
    BY <2>1, <2>5
  <2>7. CASE p <= InitialPosts
    <3>1. p \in ToSet(blocks[i].order) \cup Later
      BY <2>1, <2>5 DEF Sound, Covers
    <3>2. p \notin Later
      BY <2>3, <2>6, <2>7 DEF Later
    <3> QED BY <2>1, <3>1, <3>2, HeldElements
  <2>8. CASE InitialPosts < p
    <3>1. p \in InitialPosts + 1 .. count
      BY <2>1, <2>3, <2>5, <2>6, <2>8
    <3> QED BY <2>2, <3>1 DEF PublishedKept
  <2> QED BY <2>3, <2>6, <2>7, <2>8
<1> QED BY <1>1, PostsInvariance, PTL

\* The reducer drops no post, whatever it merges.
THEOREM NoPostIsDropped == Spec => PostsKept
<1>1. Inv /\ [Next]_vars
        => [blocks' # blocks => Held(blocks) \subseteq Held(blocks')]_blocks
  BY NextInv
<1> QED BY <1>1, PostsInvariance, PTL DEF Spec, PostsKept

\* What is fetched keeps the order of the blocks, and a block marked oldest ends with the
\* first post.
THEOREM FetchesKeepOrder == Spec => OrderKept
<1> DEFINE Kept == /\ InOrder(blocks) /\ Receives(Kinds) => InOrder(blocks')
                   /\ \A i \in DOMAIN blocks' : blocks'[i].oldest => Oldest(blocks'[i]) = 1
<1>1. Inv /\ [Next]_vars => [blocks' # blocks => Kept]_blocks
  <2>1. SUFFICES ASSUME Inv, Next, blocks' # blocks PROVE Kept
    BY DEF vars
  <2>2. ASSUME InOrder(blocks), Receives(Kinds) PROVE InOrder(blocks')
    <3>1. PICK r \in Requests : ReceivePage(r) \/ ReceiveSync(r)
      BY <2>1, <2>2, ReceivingStep
    <3> QED BY <2>1, <2>2, <3>1, PageOrdered, SyncOrdered
  <2>3. ASSUME NEW i \in DOMAIN blocks', blocks'[i].oldest PROVE Oldest(blocks'[i]) = 1
    <3>1. Inv'
      BY <2>1, NextInv
    <3>2. blocks' \in Seq(SoundBlocks(count'))
      BY <3>1 DEF Inv
    <3>3. blocks'[i] \in SoundBlocks(count')
      BY <3>2, LenProperties
    <3> QED BY <2>3, <3>3 DEF SoundBlocks, Sound
  <2> QED BY <2>2, <2>3
<1> QED BY <1>1, PostsInvariance, PTL DEF Spec, OrderKept

\* A page opens no gap in blocks that are in order.
THEOREM PagesOpenNoGap == Spec => PageOpensNoGap
<1>1. Inv /\ [Next]_vars
        => [blocks' # blocks /\ InOrder(blocks) /\ Receives(Kinds \ {"sync"})
              => Gaps(blocks') \subseteq Gaps(blocks)]_blocks
  <2>1. SUFFICES ASSUME Inv, Next, blocks' # blocks, InOrder(blocks),
                        Receives(Kinds \ {"sync"})
                 PROVE  Gaps(blocks') \subseteq Gaps(blocks)
    BY DEF vars
  <2> DEFINE kinds == Kinds \ {"sync"}
  <2>2. kinds \subseteq Kinds /\ "sync" \notin kinds /\ Receives(kinds)
    BY <2>1
  <2> HIDE DEF kinds
  <2>3. PICK r \in Requests : ReceivePage(r)
    BY <2>1, <2>2, ReceivingStep
  <2> QED BY <2>1, <2>3, PageOrdered
<1> QED BY <1>1, PostsInvariance, PTL DEF Spec, PageOpensNoGap
=============================================================================

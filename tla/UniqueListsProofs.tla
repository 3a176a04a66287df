-------------------------- MODULE UniqueListsProofs --------------------------
(* What the operations on the lists of pages do to the set of elements.    *)
EXTENDS UniqueLists, SequenceTheorems, FiniteSetTheorems, WellFoundedInduction, TLAPS

\* The members of a list are the elements at its positions.
LEMMA ListMembers ==
  ASSUME NEW S, NEW list \in Seq(S)
  PROVE  /\ DOMAIN list = 1 .. Len(list) /\ Len(list) \in Nat
         /\ \A i \in 1 .. Len(list) : list[i] \in S
         /\ ToSet(list) = {list[i] : i \in 1 .. Len(list)}
         /\ ToSet(list) \subseteq S
BY DEF ToSet

\* A list without duplicates is as long as its set of members is large.
LEMMA DistinctCount ==
  ASSUME NEW S, NEW list \in Seq(S), Distinct(list)
  PROVE  IsFiniteSet(ToSet(list)) /\ Cardinality(ToSet(list)) = Len(list)
<1> DEFINE n == Len(list)
           f == [i \in 1 .. n |-> list[i]]
<1>1. /\ DOMAIN list = 1 .. n /\ n \in Nat
      /\ ToSet(list) = {list[i] : i \in 1 .. n}
  BY ListMembers
<1>2. f \in Bijection(1 .. n, ToSet(list))
  <2>1. f \in Injection(1 .. n, ToSet(list))
    BY <1>1 DEF Injection, IsInjective, Distinct
  <2>2. f \in Surjection(1 .. n, ToSet(list))
    BY <1>1 DEF Surjection
  <2>3. QED  BY <2>1, <2>2 DEF Bijection
<1>3. ExistsBijection(1 .. n, ToSet(list))
  BY <1>2 DEF ExistsBijection
<1>4. IsFiniteSet(1 .. n) /\ Cardinality(1 .. n) = n
  BY <1>1, FS_Interval
<1>5. QED  BY <1>3, <1>4, FS_Bijection, FS_SameCardinalityBij

\* The front of a list: what is cut off is not in it.
LEMMA FrontOfList ==
  ASSUME NEW S, NEW list \in Seq(S), Distinct(list), NEW n \in 0 .. Len(list)
  PROVE  /\ SubSeq(list, 1, n) \in Seq(S) /\ Distinct(SubSeq(list, 1, n))
         /\ ToSet(SubSeq(list, 1, n)) = {list[i] : i \in 1 .. n}
         /\ ToSet(list) \ ToSet(SubSeq(list, 1, n)) = {list[i] : i \in n + 1 .. Len(list)}
<1> DEFINE front == SubSeq(list, 1, n)
<1>1. /\ DOMAIN list = 1 .. Len(list) /\ Len(list) \in Nat
      /\ ToSet(list) = {list[i] : i \in 1 .. Len(list)}
  BY ListMembers
<1>2. front \in Seq(S) /\ Len(front) = n /\ \A i \in 1 .. n : front[i] = list[i]
  BY <1>1
<1> HIDE DEF front
<1>3. DOMAIN front = 1 .. n /\ ToSet(front) = {front[i] : i \in 1 .. n}
  BY <1>2, ListMembers
<1>4. Distinct(front)
  BY <1>1, <1>2, <1>3 DEF Distinct
<1>5. ToSet(front) = {list[i] : i \in 1 .. n}
  BY <1>2, <1>3
<1>6. ToSet(list) \ ToSet(front) = {list[i] : i \in n + 1 .. Len(list)}
  BY <1>1, <1>5 DEF Distinct
<1>7. QED  BY <1>2, <1>4, <1>5, <1>6 DEF front

\* push_front of a new element.
LEMMA PushFront ==
  ASSUME NEW S, NEW list \in Seq(S), Distinct(list), NEW e \in S, e \notin ToSet(list)
  PROVE  /\ <<e>> \o list \in Seq(S) /\ Distinct(<<e>> \o list)
         /\ ToSet(<<e>> \o list) = {e} \cup ToSet(list)
<1> DEFINE longer == <<e>> \o list
<1>1. /\ DOMAIN list = 1 .. Len(list) /\ Len(list) \in Nat
      /\ ToSet(list) = {list[i] : i \in 1 .. Len(list)}
  BY ListMembers
<1>2. /\ longer \in Seq(S) /\ Len(longer) = Len(list) + 1 /\ longer[1] = e
      /\ \A i \in 1 .. Len(list) : longer[i + 1] = list[i]
  BY <1>1
<1> HIDE DEF longer
<1>3. DOMAIN longer = 1 .. Len(list) + 1 /\ ToSet(longer) = {longer[i] : i \in 1 .. Len(list) + 1}
  BY <1>2, ListMembers
<1>4. \A i \in 2 .. Len(list) + 1 : i - 1 \in 1 .. Len(list) /\ longer[i] = list[i - 1]
  BY <1>1, <1>2
<1>5. Distinct(longer)
  <2>1. SUFFICES ASSUME NEW i \in 1 .. Len(list) + 1, NEW j \in 1 .. Len(list) + 1,
                        longer[i] = longer[j]
                 PROVE  i = j
    BY <1>3 DEF Distinct
  <2>2. \A x \in 2 .. Len(list) + 1 : longer[x] # e
    BY <1>1, <1>4
  <2>3. CASE i = 1 \/ j = 1
    BY <1>1, <1>2, <2>1, <2>2, <2>3
  <2>4. CASE i # 1 /\ j # 1
    <3>1. i \in 2 .. Len(list) + 1 /\ j \in 2 .. Len(list) + 1
      BY <1>1, <2>4
    <3>2. i - 1 = j - 1
      BY <1>1, <1>4, <2>1, <3>1 DEF Distinct
    <3>3. QED  BY <1>1, <3>2
  <2>5. QED  BY <2>3, <2>4
<1>6. ToSet(longer) \subseteq {e} \cup ToSet(list)
  BY <1>1, <1>2, <1>3, <1>4
<1>7. {e} \cup ToSet(list) \subseteq ToSet(longer)
  <2>1. e \in ToSet(longer)
    <3>1. 1 \in 1 .. Len(list) + 1
      BY <1>1
    <3>2. QED  BY <1>2, <1>3, <3>1
  <2>2. ASSUME NEW i \in 1 .. Len(list) PROVE list[i] \in ToSet(longer)
    <3>1. i + 1 \in 1 .. Len(list) + 1 /\ longer[i + 1] = list[i]
      BY <1>1, <1>2
    <3>2. QED  BY <1>3, <3>1
  <2>3. QED  BY <1>1, <2>1, <2>2
<1>8. QED  BY <1>2, <1>5, <1>6, <1>7 DEF longer

\* push_back of a new element.
LEMMA PushBack ==
  ASSUME NEW S, NEW list \in Seq(S), Distinct(list), NEW e \in S, e \notin ToSet(list)
  PROVE  /\ Append(list, e) \in Seq(S) /\ Distinct(Append(list, e))
         /\ ToSet(Append(list, e)) = ToSet(list) \cup {e}
<1> DEFINE longer == Append(list, e)
<1>1. /\ DOMAIN list = 1 .. Len(list) /\ Len(list) \in Nat
      /\ ToSet(list) = {list[i] : i \in 1 .. Len(list)}
  BY ListMembers
<1>2. /\ longer \in Seq(S) /\ Len(longer) = Len(list) + 1 /\ longer[Len(list) + 1] = e
      /\ \A i \in 1 .. Len(list) : longer[i] = list[i]
  BY <1>1
<1> HIDE DEF longer
<1>3. DOMAIN longer = 1 .. Len(list) + 1 /\ ToSet(longer) = {longer[i] : i \in 1 .. Len(list) + 1}
  BY <1>2, ListMembers
<1>4. Distinct(longer)
  BY <1>1, <1>2, <1>3 DEF Distinct
<1>5. ToSet(longer) \subseteq ToSet(list) \cup {e}
  BY <1>1, <1>2, <1>3
<1>6. ToSet(list) \cup {e} \subseteq ToSet(longer)
  BY <1>1, <1>2, <1>3
<1>7. QED  BY <1>2, <1>4, <1>5, <1>6 DEF longer

\* pop_front.
LEMMA PopFront ==
  ASSUME NEW S, NEW list \in Seq(S), Distinct(list), list # <<>>
  PROVE  /\ Head(list) \in ToSet(list) /\ Tail(list) \in Seq(S) /\ Distinct(Tail(list))
         /\ ToSet(Tail(list)) = ToSet(list) \ {Head(list)}
<1> DEFINE rest == Tail(list)
<1>1. /\ DOMAIN list = 1 .. Len(list) /\ Len(list) \in Nat
      /\ ToSet(list) = {list[i] : i \in 1 .. Len(list)}
  BY ListMembers
<1>2. /\ rest \in Seq(S) /\ Len(rest) = Len(list) - 1 /\ Head(list) = list[1]
      /\ \A i \in 1 .. Len(list) - 1 : rest[i] = list[i + 1]
      /\ Len(list) > 0
  BY <1>1
<1> HIDE DEF rest
<1>3. DOMAIN rest = 1 .. Len(list) - 1 /\ ToSet(rest) = {rest[i] : i \in 1 .. Len(list) - 1}
  BY <1>2, ListMembers
<1>4. Distinct(rest)
  BY <1>1, <1>2, <1>3 DEF Distinct
<1>5. ToSet(rest) \subseteq ToSet(list) \ {Head(list)}
  BY <1>1, <1>2, <1>3 DEF Distinct
<1>6. ASSUME NEW i \in 2 .. Len(list) PROVE list[i] \in ToSet(rest)
  <2>1. i - 1 \in 1 .. Len(list) - 1 /\ rest[i - 1] = list[i]
    BY <1>1, <1>2
  <2>2. QED  BY <1>3, <2>1
<1>7. ToSet(list) \ {Head(list)} \subseteq ToSet(rest)
  BY <1>1, <1>2, <1>6
<1>8. QED  BY <1>1, <1>2, <1>4, <1>5, <1>7 DEF rest

\* erase.
LEMMA EraseOne ==
  ASSUME NEW S, NEW list \in Seq(S), Distinct(list), NEW e
  PROVE  /\ Erase(list, e) \in Seq(S) /\ Distinct(Erase(list, e))
         /\ ToSet(Erase(list, e)) = ToSet(list) \ {e}
<1>1. /\ DOMAIN list = 1 .. Len(list) /\ Len(list) \in Nat
      /\ ToSet(list) = {list[i] : i \in 1 .. Len(list)}
  BY ListMembers
<1>2. CASE e \notin ToSet(list)
  BY <1>2 DEF Erase
<1>3. CASE e \in ToSet(list)
  <2> DEFINE n == Len(list)
             k == CHOOSE i \in DOMAIN list : list[i] = e
             left == SubSeq(list, 1, k - 1)
             right == SubSeq(list, k + 1, n)
             rest == left \o right
  <2>1. k \in 1 .. n /\ list[k] = e
    BY <1>1, <1>3
  <2>2. Erase(list, e) = rest
    BY <1>3 DEF Erase, RemoveAt
  <2> HIDE DEF k
  <2>3. left \in Seq(S) /\ Len(left) = k - 1 /\ \A i \in 1 .. k - 1 : left[i] = list[i]
    BY <1>1, <2>1
  <2>4. right \in Seq(S) /\ Len(right) = n - k /\ \A i \in 1 .. n - k : right[i] = list[k + i]
    <3>1. k + 1 \in 1 .. n + 1 /\ n \in k .. n
      BY <1>1, <2>1
    <3>2. /\ right \in Seq(S)
          /\ Len(right) = IF k + 1 <= n THEN n - (k + 1) + 1 ELSE 0
          /\ \A i \in 1 .. n - (k + 1) + 1 : right[i] = list[k + 1 + i - 1]
      BY <1>1, <3>1, SubSeqProperties
    <3>3. Len(right) = n - k
      <4>1. n \in Int /\ k \in Int /\ k <= n
        BY <1>1, <2>1
      <4>2. Len(right) = IF k + 1 <= n THEN n - (k + 1) + 1 ELSE 0
        BY <3>2
      <4> HIDE DEF right, n
      <4>3. CASE k + 1 <= n
        BY <4>1, <4>2, <4>3
      <4>4. CASE ~(k + 1 <= n)
        BY <4>1, <4>2, <4>4
      <4>5. QED  BY <4>3, <4>4
    <3>4. ASSUME NEW i \in 1 .. n - k PROVE right[i] = list[k + i]
      <4>1. i \in 1 .. n - (k + 1) + 1 /\ k + 1 + i - 1 = k + i
        BY <1>1, <2>1
      <4>2. QED  BY <3>2, <4>1
    <3>5. QED  BY <3>2, <3>3, <3>4
  <2> HIDE DEF left, right
  <2>5. /\ rest \in Seq(S) /\ Len(rest) = n - 1
        /\ \A i \in 1 .. n - 1 : rest[i] = IF i <= k - 1 THEN left[i] ELSE right[i - (k - 1)]
    <3>1. /\ rest \in Seq(S) /\ Len(rest) = Len(left) + Len(right)
          /\ \A i \in 1 .. Len(left) + Len(right) :
               rest[i] = IF i <= Len(left) THEN left[i] ELSE right[i - Len(left)]
      BY <2>3, <2>4, ConcatProperties
    <3>2. Len(left) + Len(right) = n - 1
      BY <1>1, <2>1, <2>3, <2>4
    <3>3. QED  BY <2>3, <3>1, <3>2
  <2>6. /\ \A i \in 1 .. k - 1 : i \in 1 .. n - 1 /\ rest[i] = list[i]
        /\ \A i \in k .. n - 1 : i \in 1 .. n - 1 /\ rest[i] = list[i + 1]
        /\ \A i \in 1 .. n - 1 : i \in 1 .. k - 1 \/ i \in k .. n - 1
    <3>1. ASSUME NEW i \in 1 .. k - 1 PROVE i \in 1 .. n - 1 /\ rest[i] = list[i]
      BY <1>1, <2>1, <2>3, <2>5
    <3>2. ASSUME NEW i \in k .. n - 1 PROVE i \in 1 .. n - 1 /\ rest[i] = list[i + 1]
      <4>1. /\ i \in 1 .. n - 1 /\ ~(i <= k - 1) /\ i - (k - 1) \in 1 .. n - k
            /\ k + (i - (k - 1)) = i + 1
        BY <1>1, <2>1
      <4>2. QED  BY <2>4, <2>5, <4>1
    <3>3. ASSUME NEW i \in 1 .. n - 1 PROVE i \in 1 .. k - 1 \/ i \in k .. n - 1
      BY <1>1, <2>1
    <3>4. QED  BY <3>1, <3>2, <3>3
  <2> HIDE DEF rest
  <2>7. DOMAIN rest = 1 .. n - 1 /\ ToSet(rest) = {rest[i] : i \in 1 .. n - 1}
    BY <1>1, <2>5, ListMembers
  <2>8. Distinct(rest)
    <3>1. SUFFICES ASSUME NEW i \in 1 .. n - 1, NEW j \in 1 .. n - 1, rest[i] = rest[j]
                   PROVE  i = j
      BY <2>7 DEF Distinct
    <3>2. PICK x \in 1 .. n :
            rest[i] = list[x] /\ ((x = i /\ x <= k - 1) \/ (x = i + 1 /\ x >= k + 1))
      BY <1>1, <2>1, <2>6
    <3>3. PICK y \in 1 .. n :
            rest[j] = list[y] /\ ((y = j /\ y <= k - 1) \/ (y = j + 1 /\ y >= k + 1))
      BY <1>1, <2>1, <2>6
    <3>4. x = y
      BY <1>1, <3>1, <3>2, <3>3 DEF Distinct
    <3>5. QED  BY <1>1, <2>1, <3>2, <3>3, <3>4
  <2>9. ToSet(rest) \subseteq ToSet(list) \ {e}
    <3>1. ASSUME NEW i \in 1 .. n - 1 PROVE rest[i] \in ToSet(list) \ {e}
      <4>1. PICK x \in 1 .. n : rest[i] = list[x] /\ x # k
        BY <1>1, <2>1, <2>6
      <4>2. QED  BY <1>1, <2>1, <4>1 DEF Distinct
    <3>2. QED  BY <2>7, <3>1
  <2>10. ASSUME NEW x \in 1 .. n, list[x] # e PROVE list[x] \in ToSet(rest)
    <3>1. x # k
      BY <2>1, <2>10
    <3>2. CASE x < k
      <4>1. x \in 1 .. k - 1
        BY <1>1, <2>1, <3>2
      <4>2. QED  BY <2>6, <2>7, <4>1
    <3>3. CASE x > k
      <4>1. x - 1 \in k .. n - 1 /\ (x - 1) + 1 = x
        BY <1>1, <2>1, <3>3
      <4>2. rest[x - 1] = list[x] /\ x - 1 \in 1 .. n - 1
        BY <2>6, <4>1
      <4>3. QED  BY <2>7, <4>2
    <3>4. QED  BY <1>1, <2>1, <3>1, <3>2, <3>3
  <2>11. ToSet(list) \ {e} \subseteq ToSet(rest)
    BY <1>1, <2>10
  <2>12. QED  BY <2>2, <2>5, <2>8, <2>9, <2>11
<1>4. QED  BY <1>2, <1>3

\* A set of positions that is not empty has a last one.
LEMMA LastPosition ==
  ASSUME NEW n \in Nat, NEW T \in SUBSET (1 .. n), T # {}
  PROVE  \E i \in T : \A j \in T : j <= i
<1> DEFINE U == {n - i : i \in T}
<1>1. U \subseteq Nat /\ U # {}
  <2>1. ASSUME NEW i \in T PROVE n - i \in Nat
    <3>1. i \in 1 .. n
      OBVIOUS
    <3>2. QED  BY <3>1
  <2>2. PICK i \in T : TRUE
    OBVIOUS
  <2>3. n - i \in U
    BY <2>2
  <2>4. QED  BY <2>1, <2>3
<1>2. PICK x \in U : \A y \in U : ~(<<y, x>> \in OpToRel(<, Nat))
  <2>1. IsWellFoundedOn(OpToRel(<, Nat), Nat)
    BY NatLessThanWellFounded
  <2>2. QED  BY <1>1, <2>1, WFMin
<1>3. \A y \in U : ~(y < x)
  BY <1>1, <1>2 DEF OpToRel
<1>4. PICK i \in T : x = n - i
  OBVIOUS
<1>5. ASSUME NEW j \in T PROVE j <= i
  <2>1. ~(n - j < n - i)
    BY <1>3, <1>4
  <2>2. QED  BY <2>1
<1>6. QED  BY <1>5

\* ... and a first one; Min and Max find them.
LEMMA FirstPosition ==
  ASSUME NEW n \in Nat, NEW T \in SUBSET (1 .. n), T # {}
  PROVE  \E i \in T : \A j \in T : i <= j
<1>1. T \subseteq Nat
  OBVIOUS
<1>2. PICK i \in T : \A j \in T : ~(<<j, i>> \in OpToRel(<, Nat))
  <2>1. IsWellFoundedOn(OpToRel(<, Nat), Nat)
    BY NatLessThanWellFounded
  <2>2. QED  BY <1>1, <2>1, WFMin
<1>3. \A j \in T : ~(j < i)
  BY <1>1, <1>2 DEF OpToRel
<1>4. QED  BY <1>1, <1>3

LEMMA EndPositions ==
  ASSUME NEW n \in Nat, NEW T \in SUBSET (1 .. n), T # {}
  PROVE  /\ Min(T) \in T /\ \A j \in T : Min(T) <= j
         /\ Max(T) \in T /\ \A j \in T : j <= Max(T)
<1>1. /\ \E i \in T : \A j \in T : i <= j
      /\ \E i \in T : \A j \in T : j <= i
  BY FirstPosition, LastPosition
<1>2. /\ \E i \in T : \A j \in T : i <= j
      /\ \E i \in T : \A j \in T : i >= j
  BY <1>1
<1>3. /\ Min(T) \in T /\ \A j \in T : Min(T) <= j
      /\ Max(T) \in T /\ \A j \in T : Max(T) >= j
  BY <1>2 DEF Min, Max
<1>4. QED  BY <1>3
=============================================================================

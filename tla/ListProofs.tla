----------------------------- MODULE ListProofs -----------------------------
(***************************************************************************)
(* Lists that are read page by page.  First what a listing of a finite set *)
(* is, which positions an order leaves to choice, and what a page holds;   *)
(* then what a client that pages through the accounts may rely on.  The    *)
(* list of rules rests on the same lemmas (RulesProofs).                   *)
(*                                                                         *)
(* An order is a set of pairs, so that a lemma can be cited for any.       *)
(***************************************************************************)
EXTENDS Accounts, FunctionTheorems, FiniteSetTheorems, WellFoundedInduction, TLAPS

(* Any two elements compare, as rows do by the columns they are sorted by. *)
Ranks(R, S) ==
  /\ \A a, b \in S : <<a, b>> \in R \/ <<b, a>> \in R
  /\ \A a, b, c \in S : <<a, b>> \in R /\ <<b, c>> \in R => <<a, c>> \in R

InOrder(list, R) ==
  \A i, j \in DOMAIN list : i < j => <<list[i], list[j]>> \in R

-----------------------------------------------------------------------------
(* Listings of a finite set                                                *)

(* A set of naturals that is not empty has a least element.                *)
LEMMA LeastNatural ==
  ASSUME NEW T, T \subseteq Nat, T # {}
  PROVE  \E n \in T : \A m \in T : n <= m
<1> DEFINE R == OpToRel(<, Nat)
<1>1. IsWellFoundedOn(R, Nat)
  BY NatLessThanWellFounded
<1>2. PICK n \in T : \A m \in T : <<m, n>> \notin R
  <2> HIDE DEF R
  <2> QED BY <1>1, WFMin
<1>3. \A m \in T : ~(m < n)
  BY <1>2 DEF OpToRel
<1> QED BY <1>3

LEMMA Positions ==
  ASSUME NEW n \in Nat
  PROVE  IsFiniteSet(1..n) /\ Cardinality(1..n) = n
<1>1. 1 \in Int /\ n \in Int
  OBVIOUS
<1> QED BY <1>1, FS_Interval

(* A listing shows every element of the set at one position.               *)
LEMMA ListingShowsAll ==
  ASSUME NEW S, IsFiniteSet(S), NEW list \in SetToSeqs(S)
  PROVE  /\ Cardinality(S) \in Nat
         /\ list \in [1..Cardinality(S) -> S]
         /\ list \in Seq(S) /\ Len(list) = Cardinality(S)
         /\ DOMAIN list = 1..Cardinality(S)
         /\ \A i, j \in 1..Cardinality(S) : list[i] = list[j] => i = j
         /\ \A a \in S : \E i \in 1..Cardinality(S) : list[i] = a
         /\ ToSet(list) = S
<1> DEFINE n == Cardinality(S)
<1>1. n \in Nat
  BY FS_CardinalityType
<1>2. list \in [1..n -> S] /\ \A i, j \in 1..n : list[i] = list[j] => i = j
  BY DEF SetToSeqs
<1>3. list \in Seq(S) /\ Len(list) = n /\ DOMAIN list = 1..n
  BY <1>1, <1>2
<1>4. IsFiniteSet(1..n) /\ Cardinality(1..n) = n
  BY <1>1, FS_Interval
<1>5. list \in Injection(1..n, S)
  BY <1>2, Fun_IsInj
<1>6. list \in Surjection(1..n, S)
  BY <1>4, <1>5, FS_Injection
<1>7. \A a \in S : \E i \in 1..n : list[i] = a
  BY <1>6 DEF Surjection
<1> QED BY <1>1, <1>2, <1>3, <1>7 DEF ToSet

(* The set of which the first positions of a listing are.                  *)
LEMMA Prefix ==
  ASSUME NEW S, IsFiniteSet(S), NEW list \in SetToSeqs(S), NEW i \in 0..Cardinality(S)
  PROVE  /\ IsFiniteSet({list[k] : k \in 1..i})
         /\ Cardinality({list[k] : k \in 1..i}) = i
         /\ {list[k] : k \in 1..i} \subseteq S
<1> DEFINE T == {list[k] : k \in 1..i}
           f == [k \in 1..i |-> list[k]]
<1>1. /\ Cardinality(S) \in Nat /\ list \in [1..Cardinality(S) -> S]
      /\ \A k, l \in 1..Cardinality(S) : list[k] = list[l] => k = l
  BY ListingShowsAll
<1>2. i \in Nat /\ 1..i \subseteq 1..Cardinality(S)
  BY <1>1
<1>3. IsFiniteSet(1..i) /\ Cardinality(1..i) = i
  BY <1>2, FS_Interval
<1>4. f \in [1..i -> T] /\ \A k, l \in 1..i : f[k] = f[l] => k = l
  BY <1>1, <1>2
<1>5. f \in Injection(1..i, T)
  BY <1>4, Fun_IsInj
<1>6. f \in Surjection(1..i, T)
  BY <1>4, Fun_IsSurj
<1> HIDE DEF f
<1>7. IsFiniteSet(T) /\ Cardinality(T) = i
  BY <1>3, <1>5, <1>6, FS_Surjection
<1> QED BY <1>1, <1>2, <1>7

(* Two listings in order show elements of the same rank at each position.  *)
LEMMA SameRank ==
  ASSUME NEW S, IsFiniteSet(S), NEW R, Ranks(R, S),
         NEW list \in SetToSeqs(S), InOrder(list, R),
         NEW other \in SetToSeqs(S), InOrder(other, R),
         NEW i \in 1..Cardinality(S)
  PROVE  <<list[i], other[i]>> \in R
<1> DEFINE n == Cardinality(S)
           T == {a \in S : <<a, other[i]>> \in R}
<1>1. /\ n \in Nat /\ list \in [1..n -> S] /\ other \in [1..n -> S]
      /\ DOMAIN list = 1..n /\ DOMAIN other = 1..n
      /\ \A a \in S : \E k \in 1..n : list[k] = a
  BY ListingShowsAll
<1> SUFFICES ASSUME <<list[i], other[i]>> \notin R PROVE FALSE
  OBVIOUS
<1>2. \A k \in 1..i : other[k] \in T
  BY <1>1 DEF Ranks, InOrder
<1>3. \A k \in i..n : list[k] \notin T
  <2> SUFFICES ASSUME NEW k \in i..n, list[k] \in T PROVE FALSE
    OBVIOUS
  <2>1. k = i \/ <<list[i], list[k]>> \in R
    BY <1>1 DEF InOrder
  <2> QED BY <1>1, <2>1 DEF Ranks
<1>4. T \subseteq {list[k] : k \in 1..(i - 1)}
  <2> SUFFICES ASSUME NEW a \in T PROVE \E k \in 1..(i - 1) : list[k] = a
    OBVIOUS
  <2>1. PICK k \in 1..n : list[k] = a
    BY <1>1
  <2>2. ~(k \in i..n)
    BY <1>3, <2>1
  <2>3. k \in 1..(i - 1)
    BY <1>1, <2>1, <2>2
  <2> QED BY <2>1, <2>3
<1> HIDE DEF T
<1>5. IsFiniteSet(T)
  BY FS_Subset DEF T
<1>6. Cardinality({other[k] : k \in 1..i}) = i /\ {other[k] : k \in 1..i} \in SUBSET T
  <2>1. i \in 0..n
    BY <1>1
  <2> QED BY <1>2, <2>1, Prefix
<1>7. i <= Cardinality(T)
  BY <1>5, <1>6, FS_Subset
<1>8. /\ IsFiniteSet({list[k] : k \in 1..(i - 1)})
      /\ Cardinality({list[k] : k \in 1..(i - 1)}) = i - 1
  <2>1. i - 1 \in 0..n
    BY <1>1
  <2> QED BY <2>1, Prefix
<1>9. Cardinality(T) <= i - 1
  <2>1. T \in SUBSET {list[k] : k \in 1..(i - 1)}
    BY <1>4
  <2> QED BY <1>8, <2>1, FS_Subset
<1>10. Cardinality(T) \in Nat
  BY <1>5, FS_CardinalityType
<1> QED BY <1>7, <1>9, <1>10

(* With no ties there is one listing in order, and an element's position   *)
(* is the number of elements up to it.                                     *)
LEMMA OneListing ==
  ASSUME NEW S, IsFiniteSet(S), NEW R, Ranks(R, S),
         \A a, b \in S : <<a, b>> \in R /\ <<b, a>> \in R => a = b,
         NEW list \in SetToSeqs(S), InOrder(list, R)
  PROVE  /\ \A other \in SetToSeqs(S) : InOrder(other, R) => other = list
         /\ \A i \in 1..Cardinality(S) : Cardinality({a \in S : <<a, list[i]>> \in R}) = i
<1> DEFINE n == Cardinality(S)
<1>1. /\ n \in Nat /\ list \in [1..n -> S] /\ DOMAIN list = 1..n
      /\ \A i, j \in 1..n : list[i] = list[j] => i = j
      /\ \A a \in S : \E k \in 1..n : list[k] = a
  BY ListingShowsAll
<1>2. ASSUME NEW other \in SetToSeqs(S), InOrder(other, R)
      PROVE  other = list
  <2>1. other \in [1..n -> S]
    BY ListingShowsAll
  <2>2. \A i \in 1..n : <<list[i], other[i]>> \in R /\ <<other[i], list[i]>> \in R
    BY <1>2, SameRank
  <2>3. \A i \in 1..n : list[i] = other[i]
    BY <1>1, <2>1, <2>2
  <2> QED BY <1>1, <2>1, <2>3
<1>3. ASSUME NEW i \in 1..n
      PROVE  Cardinality({a \in S : <<a, list[i]>> \in R}) = i
  <2>1. \A k \in 1..n : <<list[k], list[i]>> \in R <=> k <= i
    <3> SUFFICES ASSUME NEW k \in 1..n PROVE <<list[k], list[i]>> \in R <=> k <= i
      OBVIOUS
    <3>1. k < i => <<list[k], list[i]>> \in R
      BY <1>1 DEF InOrder
    <3>2. k = i => <<list[k], list[i]>> \in R
      BY <1>1 DEF Ranks
    <3>3. i < k => <<list[i], list[k]>> \in R
      BY <1>1 DEF InOrder
    <3>4. i < k => <<list[k], list[i]>> \notin R
      BY <1>1, <3>3
    <3> QED BY <1>1, <3>1, <3>2, <3>4
  <2>2. {a \in S : <<a, list[i]>> \in R} = {list[k] : k \in 1..i}
    <3>1. \A a \in S : <<a, list[i]>> \in R => \E k \in 1..i : list[k] = a
      BY <1>1, <2>1
    <3>2. \A k \in 1..i : list[k] \in S /\ <<list[k], list[i]>> \in R
      BY <1>1, <2>1
    <3> QED BY <3>1, <3>2
  <2>3. Cardinality({list[k] : k \in 1..i}) = i
    <3>1. i \in 0..n
      BY <1>1
    <3> QED BY <3>1, Prefix
  <2> QED BY <2>2, <2>3
<1> QED BY <1>2, <1>3

(* A finite set can be listed in any order that ranks it: an element goes  *)
(* after the last one that does not come after it.                         *)
LEMMA CanBeListed ==
  ASSUME NEW S, IsFiniteSet(S), NEW R, Ranks(R, S)
  PROVE  \E list \in SetToSeqs(S) : InOrder(list, R)
<1> DEFINE Listable(T) == \E list \in SetToSeqs(T) : InOrder(list, R)
           Bad == {n \in Nat : \E T \in SUBSET S : Cardinality(T) = n /\ ~Listable(T)}
<1>1. \A T \in SUBSET S : IsFiniteSet(T) /\ Cardinality(T) \in Nat
  BY FS_Subset, FS_CardinalityType
<1>2. ASSUME NEW n \in Bad, \A m \in Bad : n <= m
      PROVE  FALSE
  <2>1. PICK T \in SUBSET S : Cardinality(T) = n /\ ~Listable(T)
    BY <1>2
  <2>2. n \in Nat /\ IsFiniteSet(T)
    BY <1>1, <2>1
  <2>3. T # {}
    <3> SUFFICES ASSUME T = {} PROVE FALSE
      OBVIOUS
    <3>1. Cardinality(T) = 0
      BY FS_EmptySet
    <3>2. << >> \in SetToSeqs(T) /\ InOrder(<< >>, R)
      BY <3>1 DEF SetToSeqs, InOrder
    <3> QED BY <2>1, <3>2
  <2>4. PICK x \in T : TRUE
    BY <2>3
  <2> DEFINE U == T \ {x}
  <2>5. IsFiniteSet(U) /\ Cardinality(U) = n - 1 /\ n - 1 \in Nat
    <3>1. IsFiniteSet(U) /\ Cardinality(U) = n - 1
      BY <2>1, <2>2, <2>4, FS_RemoveElement
    <3> QED BY <2>2, <3>1, FS_CardinalityType
  <2>6. PICK list \in SetToSeqs(U) : InOrder(list, R)
    <3>1. n - 1 \notin Bad
      BY <1>2, <2>2
    <3> QED BY <2>5, <3>1
  <2>7. /\ list \in [1..(n - 1) -> U] /\ DOMAIN list = 1..(n - 1)
        /\ \A i, j \in 1..(n - 1) : list[i] = list[j] => i = j
    BY <2>5, ListingShowsAll
  <2> HIDE DEF U
  <2> DEFINE Places == {k \in 1..n : k = n \/ <<list[k], x>> \notin R}
  <2>8. PICK k \in Places : \A l \in Places : k <= l
    <3>1. Places \subseteq Nat /\ n \in Places
      BY <2>2, <2>5
    <3> QED BY <3>1, LeastNatural
  <2>9. \A i \in 1..(k - 1) : i \in 1..(n - 1) /\ <<list[i], x>> \in R
    BY <2>5, <2>8
  <2>10. \A i \in k..(n - 1) : i \in 1..(n - 1) /\ <<x, list[i]>> \in R
    <3> SUFFICES ASSUME NEW i \in k..(n - 1) PROVE i \in 1..(n - 1) /\ <<x, list[i]>> \in R
      OBVIOUS
    <3>1. k \in 1..(n - 1) /\ i \in 1..(n - 1) /\ <<list[k], x>> \notin R
      BY <2>5, <2>8
    <3>2. x \in S /\ list[k] \in S /\ list[i] \in S
      BY <2>7, <3>1 DEF U
    <3>3. <<x, list[k]>> \in R
      BY <3>1, <3>2 DEF Ranks
    <3>4. k = i \/ <<list[k], list[i]>> \in R
      BY <2>6, <2>7, <3>1 DEF InOrder
    <3> QED BY <3>1, <3>2, <3>3, <3>4 DEF Ranks
  <2> DEFINE longer == [i \in 1..n |-> IF i < k THEN list[i]
                                      ELSE IF i = k THEN x ELSE list[i - 1]]
  <2>11. k \in 1..n
    BY <2>8
  <2>12. \A i \in 1..n : longer[i] = IF i < k THEN list[i] ELSE IF i = k THEN x ELSE list[i - 1]
    OBVIOUS
  <2>13. longer \in SetToSeqs(T)
    <3>1. longer \in [1..n -> T]
      <4> SUFFICES ASSUME NEW i \in 1..n PROVE longer[i] \in T
        OBVIOUS
      <4>1. i < k => i \in 1..(n - 1)
        BY <2>5, <2>11
      <4>2. i > k => i - 1 \in 1..(n - 1)
        BY <2>5, <2>11
      <4> QED BY <2>4, <2>7, <2>11, <2>12, <4>1, <4>2 DEF U
    <3>2. ASSUME NEW i \in 1..n, NEW j \in 1..n, i < j
          PROVE  longer[i] # longer[j]
      <4>1. x \notin U
        BY DEF U
      <4>2. /\ (i < k => i \in 1..(n - 1)) /\ (i > k => i - 1 \in 1..(n - 1))
            /\ (j < k => j \in 1..(n - 1)) /\ (j > k => j - 1 \in 1..(n - 1))
        BY <2>5, <2>11
      <4>3. CASE j < k
        BY <2>7, <2>12, <4>2, <4>3, <3>2
      <4>4. CASE j = k
        BY <2>7, <2>11, <2>12, <4>1, <4>2, <4>4, <3>2
      <4>5. CASE j > k
        <5>1. longer[j] = list[j - 1] /\ longer[j] \in U
          BY <2>7, <2>11, <2>12, <4>2, <4>5
        <5>2. CASE i < k
          <6>1. longer[i] = list[i] /\ i # j - 1
            BY <2>11, <2>12, <5>2, <4>5
          <6> QED BY <2>7, <4>2, <4>5, <5>1, <5>2, <6>1
        <5>3. CASE i = k
          BY <2>11, <2>12, <4>1, <5>1, <5>3
        <5>4. CASE i > k
          <6>1. longer[i] = list[i - 1] /\ i - 1 # j - 1
            BY <2>11, <2>12, <5>4, <3>2
          <6> QED BY <2>7, <4>2, <4>5, <5>1, <5>4, <6>1
        <5> QED BY <2>11, <5>2, <5>3, <5>4
      <4> QED BY <2>11, <4>3, <4>4, <4>5
    <3>3. \A i, j \in 1..n : i # j => longer[i] # longer[j]
      <4> SUFFICES ASSUME NEW i \in 1..n, NEW j \in 1..n, i # j PROVE longer[i] # longer[j]
        OBVIOUS
      <4>1. i < j \/ j < i
        BY <2>2
      <4> QED BY <3>2, <4>1
    <3> HIDE DEF longer
    <3> QED BY <2>1, <3>1, <3>3 DEF SetToSeqs
  <2>14. InOrder(longer, R)
    <3> SUFFICES ASSUME NEW i \in 1..n, NEW j \in 1..n, i < j
                 PROVE  <<longer[i], longer[j]>> \in R
      BY DEF InOrder
    <3>1. CASE j < k
      <4>1. i \in 1..(n - 1) /\ j \in 1..(n - 1) /\ i < k
        BY <2>5, <2>11, <3>1
      <4> QED BY <2>6, <2>7, <2>12, <3>1, <4>1 DEF InOrder
    <3>2. CASE j = k
      <4>1. i \in 1..(k - 1) /\ i < k
        BY <2>5, <2>11, <3>2
      <4> QED BY <2>9, <2>12, <3>2, <4>1
    <3>3. CASE j > k
      <4>1. longer[j] = list[j - 1] /\ j - 1 \in k..(n - 1) /\ j - 1 \in 1..(n - 1)
        BY <2>5, <2>11, <2>12, <3>3
      <4>2. CASE i < k
        <5>1. i \in 1..(n - 1) /\ i < j - 1 /\ longer[i] = list[i]
          BY <2>5, <2>11, <2>12, <3>3, <4>2
        <5> QED BY <2>6, <2>7, <4>1, <5>1 DEF InOrder
      <4>3. CASE i = k
        <5>1. longer[i] = x
          BY <2>12, <4>3
        <5> QED BY <2>10, <4>1, <5>1
      <4>4. CASE i > k
        <5>1. i - 1 \in 1..(n - 1) /\ i - 1 < j - 1 /\ longer[i] = list[i - 1]
          BY <2>5, <2>11, <2>12, <4>4
        <5> QED BY <2>6, <2>7, <4>1, <5>1 DEF InOrder
      <4> QED BY <2>11, <4>2, <4>3, <4>4
    <3> QED BY <2>11, <3>1, <3>2, <3>3
  <2> QED BY <2>1, <2>13, <2>14
<1>3. Bad = {}
  <2> SUFFICES ASSUME Bad # {} PROVE FALSE
    OBVIOUS
  <2>1. PICK n \in Bad : \A m \in Bad : n <= m
    <3>1. Bad \subseteq Nat
      OBVIOUS
    <3> HIDE DEF Bad
    <3> QED BY <3>1, LeastNatural
  <2> HIDE DEF Bad
  <2> QED BY <1>2, <2>1
<1>4. S \in SUBSET S /\ Cardinality(S) \in Nat
  BY <1>1
<1> QED BY <1>3, <1>4

(* The position a page ends at.                                            *)
EndOfPage(offset, limit, length) ==
  IF offset + limit < length THEN offset + limit ELSE length

(* A page holds the next rows of the list, as many as fit, and says truly  *)
(* whether any are left (pagination.ts:32-37).                             *)
LEMMA PageHolds ==
  ASSUME NEW S, NEW list \in Seq(S), NEW limit \in Nat \ {0}, NEW offset \in 0..Len(list),
         NEW page, page = Paginate(list, offset, limit),
         NEW end, end = EndOfPage(offset, limit, Len(list))
  PROVE  /\ end \in offset..Len(list)
         /\ page.data \in Seq(S) /\ Len(page.data) = end - offset
         /\ \A k \in 1..(end - offset) : page.data[k] = list[offset + k]
         /\ page.hasMore <=> end < Len(list)
<1> DEFINE data == SubSeq(list, offset + 1, end)
<1>1. Len(list) \in Nat /\ end \in offset..Len(list)
  BY DEF EndOfPage
<1>2. data = [k \in 1..(end - offset) |-> list[offset + k]]
  <2>1. data = [k \in 1..(end - (offset + 1) + 1) |-> list[offset + 1 + k - 1]]
    BY <1>1
  <2> QED BY <1>1, <2>1
<1>3. data \in Seq(S) /\ Len(data) = end - offset
      /\ \A k \in 1..(end - offset) : data[k] = list[offset + k]
  BY <1>1, <1>2
<1>4. page = [data |-> data, total |-> Len(list), hasMore |-> offset + Len(data) < Len(list)]
  BY DEF Paginate, PageOf, EndOfPage
<1> HIDE DEF data
<1>5. (offset + Len(data) < Len(list)) <=> end < Len(list)
  BY <1>1, <1>3
<1>6. page.data = data /\ page.hasMore = (offset + Len(data) < Len(list))
  BY <1>4
<1> QED BY <1>1, <1>3, <1>5, <1>6

-----------------------------------------------------------------------------
(* Folds                                                                   *)

(* Induction over an interval, for a set in the place of a predicate.      *)
LEMMA IntervalInduction ==
  ASSUME NEW n \in Nat, NEW Good, 0 \in Good,
         \A k \in 1..n : k - 1 \in Good => k \in Good
  PROVE  0..n \subseteq Good
<1> DEFINE Bad == (0..n) \ Good
<1>1. Bad \subseteq Nat
  OBVIOUS
<1> SUFFICES ASSUME Bad # {} PROVE FALSE
  OBVIOUS
<1>2. PICK k \in Bad : \A m \in Bad : k <= m
  <2> HIDE DEF Bad
  <2> QED BY <1>1, LeastNatural
<1>3. k \in 1..n /\ k - 1 \in 0..n
  BY <1>2
<1>4. k - 1 \in Good
  BY <1>2, <1>3
<1> QED BY <1>2, <1>3, <1>4

(* The greatest of some positions is one of them.                          *)
LEMMA GreatestPosition ==
  ASSUME NEW n \in Nat, NEW s \in SUBSET (1..n), s # {}
  PROVE  Max(s) \in s /\ \A i \in s : i <= Max(s)
<1> DEFINE T == {n - i : i \in s}
<1>1. PICK m \in T : \A l \in T : m <= l
  <2>1. T \subseteq Nat
    <3> SUFFICES ASSUME NEW i \in s PROVE n - i \in Nat
      OBVIOUS
    <3>1. i \in 1..n
      OBVIOUS
    <3> QED BY <3>1
  <2>2. T # {}
    OBVIOUS
  <2> HIDE DEF T
  <2> QED BY <2>1, <2>2, LeastNatural
<1>2. PICK x \in s : m = n - x
  BY <1>1
<1>3. \A i \in s : x >= i
  <2> SUFFICES ASSUME NEW i \in s PROVE x >= i
    OBVIOUS
  <2>1. n - x <= n - i
    BY <1>1, <1>2
  <2> QED BY <1>2, <2>1
<1> QED BY <1>2, <1>3 DEF Max

(* What a fold over n positions is defined by.                             *)
Solves(f, n, A, base, step) ==
  /\ f \in [SUBSET (1..n) -> A]
  /\ \A s \in SUBSET (1..n) :
       f[s] = IF s = {} THEN base ELSE step[Max(s)][f[s \ {Max(s)}]]

(* Such a function there is.                                               *)
LEMMA FoldExists ==
  ASSUME NEW n \in Nat, NEW A, NEW base \in A, NEW step \in [1..n -> [A -> A]]
  PROVE  \E f : Solves(f, n, A, base, step)
<1> DEFINE Good == {k \in 0..n : \E f : Solves(f, k, A, base, step)}
<1>1. 0 \in Good
  <2> DEFINE f == [s \in SUBSET (1..0) |-> base]
  <2>1. \A s \in SUBSET (1..0) : s = {} /\ f[s] = base
    OBVIOUS
  <2>2. f \in [SUBSET (1..0) -> A]
    OBVIOUS
  <2> HIDE DEF f
  <2>3. Solves(f, 0, A, base, step)
    BY <2>1, <2>2 DEF Solves
  <2> QED BY <2>3
<1>2. ASSUME NEW k \in 1..n, k - 1 \in Good
      PROVE  k \in Good
  <2>1. PICK f : Solves(f, k - 1, A, base, step)
    BY <1>2
  <2> DEFINE g == [s \in SUBSET (1..k) |->
                     IF s = {} THEN base ELSE step[Max(s)][f[s \ {Max(s)}]]]
  <2>2. ASSUME NEW s \in SUBSET (1..k), s # {}
        PROVE  /\ Max(s) \in 1..n
               /\ s \ {Max(s)} \in SUBSET (1..(k - 1)) /\ s \ {Max(s)} \in SUBSET (1..k)
    <3>1. k \in Nat
      OBVIOUS
    <3>2. Max(s) \in s /\ \A i \in s : i <= Max(s)
      BY <2>2, <3>1, GreatestPosition
    <3>3. Max(s) \in 1..k /\ Max(s) \in 1..n /\ s \ {Max(s)} \in SUBSET (1..k)
      <4>1. Max(s) \in 1..k
        BY <3>2
      <4>2. Max(s) \in 1..n
        BY <4>1
      <4> QED BY <4>1, <4>2
    <3>4. ASSUME NEW i \in s, i # Max(s)
          PROVE  i \in 1..(k - 1)
      <4>1. i \in 1..k /\ i <= Max(s)
        BY <3>2
      <4> QED BY <3>3, <3>4, <4>1
    <3> QED BY <3>3, <3>4
  <2>3. g \in [SUBSET (1..k) -> A]
    <3> SUFFICES ASSUME NEW s \in SUBSET (1..k), s # {}
                 PROVE  step[Max(s)][f[s \ {Max(s)}]] \in A
      OBVIOUS
    <3>1. f[s \ {Max(s)}] \in A /\ Max(s) \in 1..n
      BY <2>1, <2>2 DEF Solves
    <3> QED BY <3>1
  <2>4. \A s \in SUBSET (1..(k - 1)) : s \in SUBSET (1..k) /\ g[s] = f[s]
    <3> SUFFICES ASSUME NEW s \in SUBSET (1..(k - 1))
                 PROVE  s \in SUBSET (1..k) /\ g[s] = f[s]
      OBVIOUS
    <3>1. s \in SUBSET (1..k)
      OBVIOUS
    <3>2. g[s] = IF s = {} THEN base ELSE step[Max(s)][f[s \ {Max(s)}]]
      BY <3>1
    <3>3. f[s] = IF s = {} THEN base ELSE step[Max(s)][f[s \ {Max(s)}]]
      BY <2>1 DEF Solves
    <3> QED BY <3>1, <3>2, <3>3
  <2>5. ASSUME NEW s \in SUBSET (1..k)
        PROVE  g[s] = IF s = {} THEN base ELSE step[Max(s)][g[s \ {Max(s)}]]
    <3>1. g[s] = IF s = {} THEN base ELSE step[Max(s)][f[s \ {Max(s)}]]
      OBVIOUS
    <3>2. s # {} => g[s \ {Max(s)}] = f[s \ {Max(s)}]
      BY <2>2, <2>4
    <3> HIDE DEF g
    <3> QED BY <3>1, <3>2
  <2> HIDE DEF g
  <2>6. Solves(g, k, A, base, step)
    BY <2>3, <2>5 DEF Solves
  <2> QED BY <2>6
<1>3. n \in Good
  <2>1. \A k \in 1..n : k - 1 \in Good => k \in Good
    BY <1>2
  <2> HIDE DEF Good
  <2>2. 0..n \subseteq Good
    BY <1>1, <2>1, IntervalInduction
  <2> QED BY <2>2
<1> QED BY <1>3

(* Cutting the last position off an interval of positions.                 *)
LEMMA LastPosition ==
  ASSUME NEW k \in Nat \ {0}
  PROVE  Max(1..k) = k /\ (1..k) \ {Max(1..k)} = 1..(k - 1) /\ 1..k # {}
<1>1. 1..k # {} /\ k \in 1..k
  OBVIOUS
<1>2. Max(1..k) \in 1..k /\ \A i \in 1..k : i <= Max(1..k)
  BY <1>1, GreatestPosition
<1>3. Max(1..k) = k
  BY <1>1, <1>2
<1> QED BY <1>1, <1>3

(* The values that a loop over n positions has, one after the other.       *)
Runs(g, n, A, base, step) ==
  /\ g \in [0..n -> A]
  /\ g[0] = base
  /\ \A k \in 1..n : g[k] = step[k][g[k - 1]]

(* A fold passes through them.                                             *)
LEMMA LoopRuns ==
  ASSUME NEW n \in Nat, NEW A, NEW base \in A, NEW step \in [1..n -> [A -> A]],
         NEW iter, iter[{}] = base,
         \A k \in 1..n : iter[1..(k - 1)] \in A => iter[1..k] = step[k][iter[1..(k - 1)]]
  PROVE  \E g : Runs(g, n, A, base, step) /\ g[n] = iter[1..n]
<1> DEFINE Good == {k \in 0..n : iter[1..k] \in A}
<1>1. 0 \in Good
  <2>1. 1..0 = {}
    OBVIOUS
  <2> QED BY <2>1
<1>2. \A k \in 1..n : k - 1 \in Good => k \in Good
  OBVIOUS
<1>3. 0..n \subseteq Good
  <2> HIDE DEF Good
  <2> QED BY <1>1, <1>2, IntervalInduction
<1> DEFINE g == [k \in 0..n |-> iter[1..k]]
<1>4. g \in [0..n -> A]
  BY <1>3
<1>5. g[0] = base /\ g[n] = iter[1..n]
  <2>1. 1..0 = {} /\ 0 \in 0..n /\ n \in 0..n
    OBVIOUS
  <2> QED BY <2>1
<1>6. ASSUME NEW k \in 1..n
      PROVE  g[k] = step[k][g[k - 1]]
  <2>1. k - 1 \in 0..n /\ k \in 0..n
    OBVIOUS
  <2>2. g[k] = iter[1..k] /\ g[k - 1] = iter[1..(k - 1)] /\ iter[1..(k - 1)] \in A
    BY <1>3, <2>1
  <2> QED BY <2>2
<1> HIDE DEF g
<1> QED BY <1>4, <1>5, <1>6 DEF Runs

-----------------------------------------------------------------------------
(* The listing of accounts                                                 *)

ByName == {p \in AccountIds \X AccountIds : Name[p[1]] <= Name[p[2]]}

(* The client in the middle of a listing.                                  *)
MidListing ==
  client = [at |-> client.at, filter |-> client.filter, offset |-> client.offset,
            seen |-> client.seen, quiet |-> client.quiet]

(* While nothing is synced, what has been read so far has, place by place, *)
(* the names that any query of the same filter would have shown.           *)
NamesSoFar ==
  LET selected == Selected(client.filter)
      seen == client.seen
  IN /\ client.offset \in Nat /\ seen \in Seq(selected)
     /\ client.at = "next" => /\ client.offset <= Cardinality(selected)
                              /\ Len(seen) = client.offset
     /\ client.at = "done" => Len(seen) = Cardinality(selected)
     /\ \A list \in Results(client.filter) :
          \A i \in 1..Len(seen) : Name[seen[i]] = Name[list[i]]

ListingInv ==
  /\ client = [at |-> "rest"] \/ (client.at \in {"next", "done"} /\ MidListing)
  /\ client.at # "rest" /\ client.quiet => NamesSoFar

(* What a query may answer: the selected rows, by name.                    *)
LEMMA ResultsByName ==
  ASSUME NEW filter
  PROVE  /\ Selected(filter) \subseteq AccountIds /\ IsFiniteSet(Selected(filter))
         /\ Ranks(ByName, Selected(filter))
         /\ Results(filter) = {list \in SetToSeqs(Selected(filter)) : InOrder(list, ByName)}
         /\ Results(filter) # {}
<1> DEFINE S == Selected(filter)
<1>1. S \subseteq AccountIds /\ IsFiniteSet(S)
  <2>1. S \in SUBSET AccountIds
    BY DEF Selected
  <2> QED BY <2>1, AccountsAssumption, FS_Subset
<1> HIDE DEF S
<1>2. \A a, b \in S : <<a, b>> \in ByName <=> Name[a] <= Name[b]
  BY <1>1 DEF ByName
<1>3. Ranks(ByName, S)
  <2>1. \A a \in S : Name[a] \in Int
    BY <1>1, AccountsAssumption
  <2> QED BY <1>2, <2>1 DEF Ranks
<1>4. ASSUME NEW list \in SetToSeqs(S)
      PROVE  InOrder(list, ByName)
               <=> \A i, j \in DOMAIN list : i < j => Name[list[i]] <= Name[list[j]]
  <2>1. \A i \in DOMAIN list : list[i] \in S
    BY <1>1, ListingShowsAll
  <2> QED BY <1>2, <2>1 DEF InOrder
<1>5. Results(filter) = {list \in SetToSeqs(S) : InOrder(list, ByName)}
  BY <1>4 DEF Results, S
<1>6. Results(filter) # {}
  BY <1>1, <1>3, <1>5, CanBeListed
<1> QED BY <1>1, <1>3, <1>5, <1>6 DEF S

(* Two answers to the same query have the same names, place by place.      *)
LEMMA SameNames ==
  ASSUME NEW filter, NEW list \in Results(filter), NEW other \in Results(filter),
         NEW i \in 1..Cardinality(Selected(filter))
  PROVE  Name[list[i]] = Name[other[i]]
<1> DEFINE S == Selected(filter)
<1>1. /\ S \subseteq AccountIds /\ IsFiniteSet(S) /\ Ranks(ByName, S)
      /\ list \in SetToSeqs(S) /\ InOrder(list, ByName)
      /\ other \in SetToSeqs(S) /\ InOrder(other, ByName)
  BY ResultsByName
<1>2. <<list[i], other[i]>> \in ByName /\ <<other[i], list[i]>> \in ByName
  BY <1>1, SameRank
<1>3. list[i] \in AccountIds /\ other[i] \in AccountIds
  BY <1>2 DEF ByName
<1> QED BY <1>2, <1>3, AccountsAssumption DEF ByName

(* A page continues what was read with the names that follow.              *)
LEMMA PageOfNames ==
  ASSUME ListingInv, ListPage
  PROVE  ListingInv'
<1>1. /\ client.at = "next" /\ status' = status /\ MidListing
      /\ client.quiet => NamesSoFar
  BY DEF ListPage, ListingInv
<1> DEFINE filter == client.filter
           S == Selected(filter)
           n == Cardinality(S)
           seen == client.seen
<1>2. PICK list \in Results(filter) :
        LET page == Paginate(list, client.offset, PageSize)
        IN client' = [client EXCEPT !.at = IF page.hasMore THEN "next" ELSE "done",
                                    !.seen = @ \o page.data, !.offset = @ + PageSize]
  BY DEF ListPage
<1> DEFINE page == Paginate(list, client.offset, PageSize)
<1>3. client' = [at |-> IF page.hasMore THEN "next" ELSE "done", filter |-> filter,
                 offset |-> client.offset + PageSize, seen |-> seen \o page.data,
                 quiet |-> client.quiet]
  BY <1>1, <1>2 DEF MidListing
<1>4. Selected(client.filter)' = S /\ Results(client.filter)' = Results(filter)
  BY <1>1, <1>3 DEF Selected, Results
<1>5. client'.at \in {"next", "done"} /\ MidListing'
  BY <1>3 DEF MidListing
<1>6. ASSUME client.quiet
      PROVE  NamesSoFar'
  <2> DEFINE off == client.offset
             data == page.data
             more == seen \o data
             end == EndOfPage(off, PageSize, n)
  <2>1. n \in Nat /\ list \in Seq(S) /\ Len(list) = n
    <3>1. list \in SetToSeqs(S) /\ IsFiniteSet(S)
      BY ResultsByName
    <3> QED BY <3>1, ListingShowsAll
  <2>2. off \in 0..n /\ seen \in Seq(S) /\ Len(seen) = off
    BY <1>1, <1>6, <2>1 DEF NamesSoFar
  <2> HIDE DEF S, n, filter
  <2>3. /\ end \in off..n
        /\ data \in Seq(S) /\ Len(data) = end - off
        /\ \A k \in 1..(end - off) : data[k] = list[off + k]
        /\ page.hasMore <=> end < n
    <3>1. off \in 0..Len(list) /\ end = EndOfPage(off, PageSize, Len(list))
      BY <2>1, <2>2
    <3>2. page = Paginate(list, off, PageSize)
      OBVIOUS
    <3> HIDE DEF end, off, page
    <3>3. /\ end \in off..Len(list)
          /\ page.data \in Seq(S) /\ Len(page.data) = end - off
          /\ \A k \in 1..(end - off) : page.data[k] = list[off + k]
          /\ page.hasMore <=> end < Len(list)
      BY <2>1, <3>1, <3>2, AccountsAssumption, PageHolds
    <3> QED BY <2>1, <3>3
  <2> HIDE DEF page, data, seen, off
  <2>4. /\ more \in Seq(S) /\ Len(more) = end
        /\ \A i \in 1..off : more[i] = seen[i]
        /\ \A i \in 1..end : i > off => more[i] = list[i]
    <3> HIDE DEF end
    <3>1. more \in Seq(S) /\ Len(more) = end
      <4>1. off \in Nat /\ end \in Nat
        BY <2>1, <2>2, <2>3
      <4>2. more \in Seq(S) /\ Len(more) = Len(seen) + Len(data)
        BY <2>2, <2>3
      <4> QED BY <2>2, <2>3, <4>1, <4>2
    <3>2. \A i \in 1..off : more[i] = seen[i]
      BY <2>2, <2>3
    <3>3. ASSUME NEW i \in 1..end, i > off
          PROVE  more[i] = list[i]
      <4>1. i - off \in 1..(end - off)
        BY <2>1, <2>2, <2>3, <3>3
      <4>2. more[i] = data[i - off]
        BY <2>2, <2>3, <3>3, <4>1
      <4>3. off + (i - off) = i
        BY <2>1, <2>2, <2>3
      <4> QED BY <2>3, <4>1, <4>2, <4>3
    <3> QED BY <3>1, <3>2, <3>3
  <2> HIDE DEF more
  <2>5. ASSUME NEW other \in Results(filter), NEW i \in 1..end
        PROVE  Name[more[i]] = Name[other[i]]
    <3>1. i \in 1..n
      BY <2>1, <2>2, <2>3
    <3>2. CASE i > off
      <4>1. more[i] = list[i]
        BY <2>4, <3>2
      <4>2. Name[list[i]] = Name[other[i]]
        BY <3>1, SameNames DEF n, S
      <4> QED BY <4>1, <4>2
    <3>3. CASE ~(i > off)
      <4>1. i \in 1..Len(seen) /\ more[i] = seen[i]
        BY <2>2, <2>3, <2>4, <3>3
      <4>2. Name[seen[i]] = Name[other[i]]
        BY <1>1, <1>6, <4>1 DEF NamesSoFar, seen, filter
      <4> QED BY <4>1, <4>2
    <3> QED BY <3>2, <3>3
  <2>6. client'.at = "next" => off + PageSize <= n /\ end = off + PageSize
    BY <1>3, <2>1, <2>2, <2>3, AccountsAssumption DEF EndOfPage
  <2>7. client'.at = "done" => end = n
    BY <1>3, <2>1, <2>2, <2>3
  <2>8. off + PageSize \in Nat
    BY <2>1, <2>2, AccountsAssumption
  <2>9. client'.filter = filter /\ client'.seen = more /\ client'.offset = off + PageSize
    BY <1>3 DEF more, data, off
  <2> HIDE DEF end
  <2> QED BY <1>4, <2>4, <2>5, <2>6, <2>7, <2>8, <2>9 DEF NamesSoFar, n, S
<1>7. client'.quiet = client.quiet
  BY <1>3
<1> QED BY <1>5, <1>6, <1>7 DEF ListingInv

LEMMA ListingStep ==
  ASSUME ListingInv, [AccountsNext]_accountVars
  PROVE  ListingInv'
<1>1. ASSUME NEW a \in AccountIds, Sync(a)
      PROVE  ListingInv'
  <2>1. CASE client.at = "rest"
    BY <1>1, <2>1 DEF Sync, ListingInv
  <2>2. CASE client.at # "rest"
    <3>1. client' = [client EXCEPT !.quiet = FALSE] /\ MidListing /\ client.at \in {"next", "done"}
      BY <1>1, <2>2 DEF Sync, ListingInv
    <3>2. client' = [at |-> client.at, filter |-> client.filter, offset |-> client.offset,
                     seen |-> client.seen, quiet |-> FALSE]
      BY <3>1 DEF MidListing
    <3> QED BY <3>1, <3>2 DEF ListingInv, MidListing
  <2> QED BY <2>1, <2>2
<1>2. ASSUME NEW filter \in Filters, StartListing(filter)
      PROVE  ListingInv'
  <2>1. client' = [at |-> "next", filter |-> filter, offset |-> 0, seen |-> <<>>, quiet |-> TRUE]
    BY <1>2 DEF StartListing
  <2>2. Cardinality(Selected(filter))' \in Nat
    <3>1. status' = status
      BY <1>2 DEF StartListing
    <3>2. Selected(filter)' = Selected(filter)
      BY <3>1 DEF Selected
    <3> QED BY <3>2, ResultsByName, FS_CardinalityType
  <2>3. client'.at = "next" /\ MidListing'
    BY <2>1 DEF MidListing
  <2>4. NamesSoFar'
    BY <2>1, <2>2 DEF NamesSoFar
  <2> QED BY <2>3, <2>4 DEF ListingInv
<1>3. CASE ListPage
  BY <1>3, PageOfNames
<1>4. CASE StopListing
  BY <1>4 DEF StopListing, ListingInv
<1>5. CASE UNCHANGED accountVars
  BY <1>5 DEF accountVars, ListingInv, NamesSoFar, MidListing, Results, Selected
<1> QED BY <1>1, <1>2, <1>3, <1>4, <1>5 DEF AccountsNext

(* What was read so far has the names of any answer, in every state.       *)
THEOREM ListingInvariant == AccountsSpec => []ListingInv
<1>1. AccountsInit => ListingInv
  BY DEF AccountsInit, ListingInv
<1> QED BY <1>1, ListingStep, PTL DEF AccountsSpec

(* Whatever the accounts, their names and the page size, pages of one      *)
(* unchanging table hold the right number of rows in the order of their    *)
(* names, and only rows of one name can be missed or repeated              *)
(* (accounts.repository.ts:28-44).                                         *)
THEOREM OnlyNamesakes == AccountsSpec => []OnlyNamesakesSlip
<1>1. ListingInv => OnlyNamesakesSlip
  <2> SUFFICES ASSUME ListingInv, client.at = "done", client.quiet
               PROVE  LET selected == Selected(client.filter)
                          seen == client.seen
                      IN /\ Len(seen) = Cardinality(selected)
                         /\ \A i, j \in DOMAIN seen : i < j => Name[seen[i]] <= Name[seen[j]]
                         /\ \A a \in selected :
                              (\A b \in selected : Name[b] = Name[a] => b = a)
                                => \E i \in DOMAIN seen : \A j \in DOMAIN seen : seen[j] = a <=> j = i
    BY DEF OnlyNamesakesSlip
  <2> DEFINE S == Selected(client.filter)
             n == Cardinality(S)
             seen == client.seen
  <2>1. NamesSoFar
    BY DEF ListingInv
  <2>2. PICK list \in Results(client.filter) : TRUE
    BY ResultsByName
  <2>3. /\ n \in Nat /\ list \in [1..n -> S] /\ DOMAIN list = 1..n
        /\ \A i, j \in 1..n : list[i] = list[j] => i = j
        /\ \A a \in S : \E i \in 1..n : list[i] = a
    BY <2>2, ResultsByName, ListingShowsAll
  <2>4. /\ seen \in Seq(S) /\ Len(seen) = n /\ DOMAIN seen = 1..n
        /\ \A i \in 1..n : seen[i] \in S /\ Name[seen[i]] = Name[list[i]]
    BY <2>1, <2>2 DEF NamesSoFar
  <2>5. \A i, j \in 1..n : i < j => Name[list[i]] <= Name[list[j]]
    BY <2>2, <2>3 DEF Results
  <2>6. ASSUME NEW a \in S, \A b \in S : Name[b] = Name[a] => b = a
        PROVE  \E i \in 1..n : \A j \in 1..n : seen[j] = a <=> j = i
    <3>1. PICK i \in 1..n : list[i] = a
      BY <2>3
    <3>2. \A j \in 1..n : seen[j] = a <=> j = i
      <4> SUFFICES ASSUME NEW j \in 1..n PROVE seen[j] = a <=> j = i
        OBVIOUS
      <4>1. list[j] \in S /\ seen[j] \in S /\ Name[seen[j]] = Name[list[j]]
        BY <2>3, <2>4
      <4>2. seen[j] = a <=> list[j] = a
        BY <2>6, <4>1
      <4> QED BY <2>3, <3>1, <4>2
    <3> QED BY <3>2
  <2>7. \A i, j \in 1..n : i < j => Name[seen[i]] <= Name[seen[j]]
    BY <2>4, <2>5
  <2> HIDE DEF S, n, seen
  <2>8. /\ Len(seen) = n
        /\ \A i, j \in DOMAIN seen : i < j => Name[seen[i]] <= Name[seen[j]]
        /\ \A a \in S : (\A b \in S : Name[b] = Name[a] => b = a)
             => \E i \in DOMAIN seen : \A j \in DOMAIN seen : seen[j] = a <=> j = i
    BY <2>4, <2>6, <2>7
  <2> QED BY <2>8 DEF S, n, seen
<1> QED BY <1>1, ListingInvariant, PTL
=============================================================================

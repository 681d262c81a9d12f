-------------------------- MODULE Projection_proofs --------------------------
(* Lemmas about the rows and documents of Projection: what sorting, picking *)
(* and merging rows yields, for any rows, and what the parts of a document  *)
(* are made of.                                                             *)
EXTENDS Projection, NaturalSets, SequenceTheorems

---------------------------------------------------------------------------
(* Sets in a strict order *)

StrictOrder(S, B) ==
  /\ \A x, y \in S : <<x, y>> \in B => <<y, x>> \notin B
  /\ \A x, y \in S : x = y \/ <<x, y>> \in B \/ <<y, x>> \in B
  /\ \A x, y, z \in S : <<x, y>> \in B /\ <<y, z>> \in B => <<x, z>> \in B

Preceding(S, B, x) == {y \in S : <<y, x>> \in B}
Position(S, B, x) == Cardinality(Preceding(S, B, x))

(* A later member has more members before it. *)
LEMMA PositionGrows ==
  ASSUME NEW S, IsFiniteSet(S), NEW B, StrictOrder(S, B),
         NEW x \in S, NEW y \in S, <<x, y>> \in B
  PROVE  /\ Position(S, B, x) \in Nat /\ Position(S, B, y) \in Nat
         /\ Position(S, B, x) < Position(S, B, y)
  <1> DEFINE X == Preceding(S, B, x)
             Y == Preceding(S, B, y)
  <1>1. X \in SUBSET Y
    BY DEF Preceding, StrictOrder
  <1>2. x \in Y /\ x \notin X
    BY DEF Preceding, StrictOrder
  <1>3. Y \in SUBSET S /\ X \in SUBSET S
    BY DEF Preceding
  <1>4. IsFiniteSet(X) /\ IsFiniteSet(Y)
    BY <1>3, FS_Subset
  <1>5. Cardinality(X) \in Nat /\ Cardinality(Y) \in Nat
    BY <1>4, FS_CardinalityType
  <1>6. Cardinality(X) <= Cardinality(Y) /\ Cardinality(X) # Cardinality(Y)
    BY <1>1, <1>2, <1>4, FS_Subset
  <1> QED BY <1>5, <1>6 DEF Position

LEMMA SamePosition ==
  ASSUME NEW S, IsFiniteSet(S), NEW B, StrictOrder(S, B),
         NEW x \in S, NEW y \in S, Position(S, B, x) = Position(S, B, y)
  PROVE  x = y
  <1>1. <<x, y>> \notin B
    <2> SUFFICES ASSUME <<x, y>> \in B PROVE FALSE
      OBVIOUS
    <2> QED BY PositionGrows
  <1>2. <<y, x>> \notin B
    <2> SUFFICES ASSUME <<y, x>> \in B PROVE FALSE
      OBVIOUS
    <2> QED BY PositionGrows
  <1> QED BY <1>1, <1>2 DEF StrictOrder

(* There is a member at each position. *)
LEMMA PositionedMember ==
  ASSUME NEW S, IsFiniteSet(S), NEW B, StrictOrder(S, B)
  PROVE  /\ Cardinality(S) \in Nat
         /\ \A x \in S : Position(S, B, x) \in Nat /\ Position(S, B, x) + 1 \in 1 .. Cardinality(S)
         /\ \A k \in 1 .. Cardinality(S) : \E x \in S : Position(S, B, x) = k - 1
  <1> DEFINE n == Cardinality(S)
             number == [x \in S |-> Position(S, B, x) + 1]
  <1>1. n \in Nat
    BY FS_CardinalityType
  <1>2. ASSUME NEW x \in S
        PROVE  Position(S, B, x) \in Nat /\ Position(S, B, x) + 1 \in 1 .. n
    <2> DEFINE X == Preceding(S, B, x)
    <2>1. X \in SUBSET S /\ x \notin X
      BY DEF Preceding, StrictOrder
    <2>2. IsFiniteSet(X) /\ Cardinality(X) <= n /\ Cardinality(X) # n
      BY <2>1, FS_Subset
    <2>3. Cardinality(X) \in Nat
      BY <2>2, FS_CardinalityType
    <2> QED BY <1>1, <2>2, <2>3 DEF Position
  <1>3. number \in [S -> 1 .. n]
    BY <1>2
  <1>4. ASSUME NEW x \in S, NEW y \in S, number[x] = number[y]
        PROVE  x = y
    <2>1. Position(S, B, x) = Position(S, B, y)
      BY <1>2, <1>4
    <2> QED BY <2>1, SamePosition
  <1>5. IsFiniteSet(1 .. n) /\ Cardinality(1 .. n) = n
    BY <1>1, FS_Interval
  <1>6. number \in Surjection(S, 1 .. n)
    <2> HIDE DEF number
    <2>1. number \in Injection(S, 1 .. n)
      BY <1>3, <1>4 DEF Injection, IsInjective
    <2> QED BY <1>5, <2>1, FS_Injection
  <1>7. ASSUME NEW k \in 1 .. n
        PROVE  \E x \in S : Position(S, B, x) = k - 1
    <2>1. PICK x \in S : number[x] = k
      BY <1>6 DEF Surjection
    <2> QED BY <1>2, <2>1
  <1> QED BY <1>1, <1>2, <1>7

(* Arranged lists every member once, in the order. *)
LEMMA ArrangedIs ==
  ASSUME NEW S, IsFiniteSet(S), NEW B, StrictOrder(S, B)
  PROVE  \E s \in Seq(S) :
           /\ Arranged(S, B) = s /\ Len(s) = Cardinality(S)
           /\ \A k \in 1 .. Len(s) : s[k] \in S /\ Position(S, B, s[k]) = k - 1
           /\ \A i, j \in 1 .. Len(s) : i < j => <<s[i], s[j]>> \in B
           /\ \A i, j \in 1 .. Len(s) : s[i] = s[j] => i = j
           /\ \A x \in S : \E k \in 1 .. Len(s) : s[k] = x
  <1> DEFINE n == Cardinality(S)
             member(k) == CHOOSE x \in S : Position(S, B, x) = k - 1
  <1>1. n \in Nat
    BY FS_CardinalityType
  <1>2. PICK s : s = Arranged(S, B)
    OBVIOUS
  <1>3. s = [k \in 1 .. n |-> member(k)]
    BY <1>2 DEF Arranged, Position, Preceding
  <1>4. \A k \in 1 .. n : member(k) \in S /\ Position(S, B, member(k)) = k - 1
    BY PositionedMember
  <1> HIDE DEF member
  <1>5. s \in [1 .. n -> S] /\ \A k \in 1 .. n : s[k] \in S /\ Position(S, B, s[k]) = k - 1
    BY <1>3, <1>4
  <1>6. s \in Seq(S) /\ Len(s) = n
    BY <1>1, <1>5
  <1>7. ASSUME NEW i \in 1 .. n, NEW j \in 1 .. n, i < j
        PROVE  <<s[i], s[j]>> \in B
    <2>0. i \in Nat /\ j \in Nat
      BY <1>1
    <2>1. PICK x \in S : x = s[i] /\ Position(S, B, x) = i - 1
      BY <1>5
    <2>2. PICK y \in S : y = s[j] /\ Position(S, B, y) = j - 1
      BY <1>5
    <2>3. x # y
      BY <1>7, <2>0, <2>1, <2>2
    <2>4. <<y, x>> \notin B
      <3> SUFFICES ASSUME <<y, x>> \in B PROVE FALSE
        OBVIOUS
      <3>1. Position(S, B, y) < Position(S, B, x)
        BY PositionGrows
      <3> QED BY <1>7, <2>0, <2>1, <2>2, <3>1
    <2> QED BY <2>1, <2>2, <2>3, <2>4 DEF StrictOrder
  <1>8. ASSUME NEW i \in 1 .. n, NEW j \in 1 .. n, s[i] = s[j]
        PROVE  i = j
    <2>1. i - 1 = j - 1 /\ i \in Nat /\ j \in Nat
      BY <1>1, <1>5, <1>8
    <2> QED BY <2>1
  <1>9. ASSUME NEW x \in S
        PROVE  \E k \in 1 .. n : s[k] = x
    <2>1. PICK k \in 1 .. n : k = Position(S, B, x) + 1
      BY PositionedMember
    <2>2. PICK y \in S : y = s[k] /\ Position(S, B, y) = k - 1
      BY <1>5
    <2>3. Position(S, B, x) = Position(S, B, y)
      BY <2>1, <2>2, PositionedMember
    <2> QED BY <2>2, <2>3, SamePosition
  <1> HIDE DEF n
  <1> QED BY <1>2, <1>5, <1>6, <1>7, <1>8, <1>9 DEF n

(* There is only one way to do so. *)
LEMMA ArrangedUnique ==
  ASSUME NEW S, IsFiniteSet(S), NEW B, StrictOrder(S, B), NEW s \in Seq(S),
         \A i, j \in 1 .. Len(s) : i < j => <<s[i], s[j]>> \in B,
         \A x \in S : \E i \in 1 .. Len(s) : s[i] = x
  PROVE  Arranged(S, B) = s /\ Cardinality(S) = Len(s)
  <1> DEFINE n == Len(s)
  <1>1. n \in Nat /\ s \in [1 .. n -> S]
    OBVIOUS
  <1>2. \A i \in 1 .. n : s[i] \in S /\ i \in Nat
    BY <1>1
  <1>3. ASSUME NEW i \in 1 .. n, NEW j \in 1 .. n, s[i] = s[j]
        PROVE  i = j
    <2>1. ~(i < j) /\ ~(j < i)
      BY <1>2, <1>3 DEF StrictOrder
    <2> QED BY <1>2, <2>1
  <1>4. Cardinality(S) = n
    <2>1. s \in Bijection(1 .. n, S)
      <3> HIDE DEF n
      <3> QED BY <1>1, <1>3 DEF Bijection, Injection, Surjection, IsInjective, n
    <2>2. IsFiniteSet(1 .. n) /\ Cardinality(1 .. n) = n
      BY <1>1, FS_Interval
    <2> HIDE DEF n
    <2> QED BY <2>1, <2>2, FS_Bijection DEF ExistsBijection
  <1>5. ASSUME NEW k \in 1 .. n
        PROVE  Position(S, B, s[k]) = k - 1
    <2> DEFINE first == [j \in 1 .. k - 1 |-> s[j]]
               P == Preceding(S, B, s[k])
    <2>1. k \in Nat /\ k - 1 \in Nat /\ k <= n /\ \A j \in 1 .. k - 1 : j \in 1 .. n /\ j < k
      BY <1>1
    <2>2. \A j \in 1 .. k - 1 : first[j] \in P
      BY <1>2, <2>1 DEF Preceding
    <2>3. \A x \in P : \E j \in 1 .. k - 1 : first[j] = x
      <3> SUFFICES ASSUME NEW x \in P
                   PROVE  \E j \in 1 .. k - 1 : first[j] = x
        OBVIOUS
      <3>1. x \in S /\ <<x, s[k]>> \in B
        BY DEF Preceding
      <3>2. PICK j \in 1 .. n : s[j] = x
        BY <3>1
      <3>3. ~(k < j) /\ k # j
        <4>1. k < j => <<s[k], s[j]>> \in B
          OBVIOUS
        <4> QED BY <1>2, <3>1, <3>2, <4>1 DEF StrictOrder
      <3>4. j \in 1 .. k - 1
        BY <1>2, <2>1, <3>3
      <3> QED BY <3>2, <3>4
    <2>4. first \in Bijection(1 .. k - 1, P)
      <3>1. first \in [1 .. k - 1 -> P]
        BY <2>2
      <3>2. \A i, j \in 1 .. k - 1 : first[i] = first[j] => i = j
        BY <1>3, <2>1
      <3> HIDE DEF first, P
      <3> QED BY <2>3, <3>1, <3>2 DEF Bijection, Injection, Surjection, IsInjective
    <2>5. IsFiniteSet(1 .. k - 1) /\ Cardinality(1 .. k - 1) = k - 1
      <3>1. PICK m \in Nat : m = k - 1
        BY <2>1
      <3>2. IsFiniteSet(1 .. m) /\ Cardinality(1 .. m) = m
        BY ONLY m \in Nat, FS_Interval
      <3> QED BY <3>1, <3>2
    <2> HIDE DEF first, P
    <2>6. Cardinality(P) = k - 1
      BY <2>4, <2>5, FS_Bijection DEF ExistsBijection
    <2> QED BY <2>6 DEF Position, P
  <1>6. PICK a \in Seq(S) : /\ Arranged(S, B) = a /\ Len(a) = Cardinality(S)
                            /\ \A k \in 1 .. Len(a) : a[k] \in S /\ Position(S, B, a[k]) = k - 1
    BY ArrangedIs
  <1>7. \A k \in 1 .. n : a[k] = s[k]
    <2> SUFFICES ASSUME NEW k \in 1 .. n PROVE a[k] = s[k]
      OBVIOUS
    <2>1. PICK x \in S : x = s[k] /\ Position(S, B, x) = k - 1
      BY <1>2, <1>5
    <2>2. PICK y \in S : y = a[k] /\ Position(S, B, y) = k - 1
      BY <1>4, <1>6
    <2>3. Position(S, B, x) = Position(S, B, y)
      BY <2>1, <2>2
    <2>4. x = y
      BY ONLY <2>3, SamePosition, IsFiniteSet(S), StrictOrder(S, B), x \in S, y \in S
    <2> QED BY <2>1, <2>2, <2>4
  <1>8. a = s
    BY <1>4, <1>6, <1>7, SeqEqual
  <1> QED BY <1>4, <1>6, <1>8

---------------------------------------------------------------------------
(* Sets of numbers in ascending order *)

Lesser(S) == {p \in S \X S : p[1] < p[2]}
Below(S, x) == {m \in S : m < x}
CountBelow(S, x) == Cardinality(Below(S, x))

LEMMA LesserOrder ==
  ASSUME NEW S \in SUBSET Nat
  PROVE  /\ StrictOrder(S, Lesser(S))
         /\ \A x, y \in S : <<x, y>> \in Lesser(S) <=> x < y
         /\ \A x \in S : Position(S, Lesser(S), x) = CountBelow(S, x)
  <1>1. \A x \in S : x \in Nat
    OBVIOUS
  <1>2. \A x, y \in S : <<x, y>> \in Lesser(S) <=> x < y
    BY DEF Lesser
  <1>3. StrictOrder(S, Lesser(S))
    BY <1>1, <1>2 DEF StrictOrder
  <1>4. ASSUME NEW x \in S
        PROVE  Position(S, Lesser(S), x) = CountBelow(S, x)
    <2>1. Preceding(S, Lesser(S), x) = Below(S, x)
      BY <1>2 DEF Preceding, Below
    <2> QED BY <2>1 DEF Position, CountBelow
  <1> QED BY <1>2, <1>3, <1>4

LEMMA SameRank ==
  ASSUME NEW S \in SUBSET Nat, IsFiniteSet(S), NEW x \in S, NEW y \in S,
         CountBelow(S, x) = CountBelow(S, y)
  PROVE  x = y
  <1>1. Position(S, Lesser(S), x) = Position(S, Lesser(S), y)
    BY LesserOrder
  <1> QED BY <1>1, LesserOrder, SamePosition

(* Ascending lists every member once, each at the place of its rank. *)
LEMMA AscendingIs ==
  ASSUME NEW S \in SUBSET Nat, IsFiniteSet(S)
  PROVE  \E s \in Seq(S) :
           /\ Ascending(S) = s /\ Len(s) = Cardinality(S)
           /\ \A i \in 1 .. Len(s) : s[i] \in S /\ s[i] \in Nat
           /\ \A i, j \in 1 .. Len(s) : i < j => s[i] < s[j]
           /\ \A x \in S : \E i \in 1 .. Len(s) : s[i] = x
           /\ \A i \in 1 .. Len(s) : CountBelow(S, s[i]) = i - 1
  <1>1. Ascending(S) = Arranged(S, Lesser(S))
    BY DEF Ascending, Lesser
  <1>2. PICK s \in Seq(S) :
           /\ Arranged(S, Lesser(S)) = s /\ Len(s) = Cardinality(S)
           /\ \A k \in 1 .. Len(s) : s[k] \in S /\ Position(S, Lesser(S), s[k]) = k - 1
           /\ \A i, j \in 1 .. Len(s) : i < j => <<s[i], s[j]>> \in Lesser(S)
           /\ \A x \in S : \E k \in 1 .. Len(s) : s[k] = x
    BY LesserOrder, ArrangedIs
  <1>3. \A i \in 1 .. Len(s) : s[i] \in S /\ s[i] \in Nat
    <2>1. \A x \in S : x \in Nat
      OBVIOUS
    <2> QED BY <1>2, <2>1
  <1>4. \A i, j \in 1 .. Len(s) : i < j => s[i] < s[j]
    BY <1>2, LesserOrder
  <1>5. ASSUME NEW i \in 1 .. Len(s)
        PROVE  CountBelow(S, s[i]) = i - 1
    <2>1. PICK x \in S : x = s[i]
      BY <1>2
    <2> QED BY <1>2, <2>1, LesserOrder
  <1> QED BY <1>1, <1>2, <1>3, <1>4, <1>5

LEMMA AscendingLists ==
  ASSUME NEW S \in SUBSET Nat, IsFiniteSet(S)
  PROVE  /\ Ascending(S) \in Seq(S)
         /\ Len(Ascending(S)) = Cardinality(S)
         /\ Cardinality(S) \in Nat
         /\ \A k \in 1 .. Cardinality(S) :
              Ascending(S)[k] \in S /\ CountBelow(S, Ascending(S)[k]) = k - 1
         /\ \A i, j \in 1 .. Cardinality(S) : i < j => Ascending(S)[i] < Ascending(S)[j]
         /\ \A x \in S : \E k \in 1 .. Cardinality(S) : Ascending(S)[k] = x
  <1>1. Cardinality(S) \in Nat
    BY FS_CardinalityType
  <1> QED BY <1>1, AscendingIs

(* There is only one way to list a set of numbers in ascending order. *)
LEMMA AscendingUnique ==
  ASSUME NEW S \in SUBSET Nat, IsFiniteSet(S), NEW s \in Seq(S),
         \A i, j \in 1 .. Len(s) : i < j => s[i] < s[j],
         \A x \in S : \E i \in 1 .. Len(s) : s[i] = x
  PROVE  Ascending(S) = s /\ Cardinality(S) = Len(s)
  <1>1. \A i \in 1 .. Len(s) : s[i] \in S
    OBVIOUS
  <1>2. \A i, j \in 1 .. Len(s) : i < j => <<s[i], s[j]>> \in Lesser(S)
    BY <1>1, LesserOrder
  <1>3. Arranged(S, Lesser(S)) = s /\ Cardinality(S) = Len(s)
    BY <1>2, LesserOrder, ArrangedUnique
  <1> QED BY <1>3 DEF Ascending, Lesser

(* A set whose members come before all others of S comes first. *)
LEMMA AscendingPrefix ==
  ASSUME NEW S \in SUBSET Nat, IsFiniteSet(S), NEW T \in SUBSET S,
         \A t \in T, s \in S \ T : t < s
  PROVE  /\ IsFiniteSet(T) /\ T \in SUBSET Nat
         /\ Cardinality(T) <= Cardinality(S)
         /\ \A k \in 1 .. Cardinality(T) : Ascending(S)[k] = Ascending(T)[k]
  <1>1. IsFiniteSet(T) /\ T \in SUBSET Nat /\ Cardinality(T) <= Cardinality(S)
    BY FS_Subset
  <1>2. Cardinality(T) \in Nat /\ Cardinality(S) \in Nat
    BY <1>1, FS_CardinalityType
  <1>3. ASSUME NEW k \in 1 .. Cardinality(T)
        PROVE  Ascending(S)[k] = Ascending(T)[k]
    <2>1. PICK x \in T : x = Ascending(T)[k] /\ CountBelow(T, x) = k - 1
      BY <1>1, AscendingLists
    <2>2. Below(S, x) = Below(T, x)
      <3>1. \A m \in S : m < x => m \in T
        <4> SUFFICES ASSUME NEW m \in S, m < x, m \notin T PROVE FALSE
          OBVIOUS
        <4>1. x < m
          OBVIOUS
        <4>2. m \in Nat /\ x \in Nat
          BY <1>1
        <4> QED BY <4>1, <4>2
      <3> QED BY <3>1 DEF Below
    <2>3. x \in S /\ CountBelow(S, x) = k - 1
      BY <2>1, <2>2 DEF CountBelow
    <2>4. PICK y \in S : y = Ascending(S)[k] /\ CountBelow(S, y) = k - 1
      <3>1. k \in 1 .. Cardinality(S)
        BY <1>1, <1>2
      <3> QED BY <3>1, AscendingLists
    <2> QED BY <2>1, <2>3, <2>4, SameRank
  <1> QED BY <1>1, <1>3

(* A member greater than all others comes last. *)
LEMMA AscendingAppend ==
  ASSUME NEW S \in SUBSET Nat, IsFiniteSet(S), NEW x \in Nat, \A s \in S : s < x
  PROVE  /\ Cardinality(S) \in Nat
         /\ IsFiniteSet(S \cup {x}) /\ S \cup {x} \in SUBSET Nat
         /\ Cardinality(S \cup {x}) = Cardinality(S) + 1
         /\ \A k \in 1 .. Cardinality(S) : Ascending(S \cup {x})[k] = Ascending(S)[k]
         /\ Ascending(S \cup {x})[Cardinality(S) + 1] = x
  <1> DEFINE R == S \cup {x}
  <1>0. x \notin S
    OBVIOUS
  <1>1. /\ IsFiniteSet(R) /\ R \in SUBSET Nat /\ Cardinality(S) \in Nat
        /\ Cardinality(R) = Cardinality(S) + 1
    BY <1>0, FS_AddElement, FS_CardinalityType
  <1>2. \A k \in 1 .. Cardinality(S) : Ascending(R)[k] = Ascending(S)[k]
    <2>1. S \in SUBSET R /\ \A t \in S, s \in R \ S : t < s
      OBVIOUS
    <2> HIDE DEF R
    <2> QED BY <1>1, <2>1, AscendingPrefix
  <1>3. Below(R, x) = S
    <2>1. ~(x < x)
      OBVIOUS
    <2> QED BY <2>1 DEF Below
  <1>4. Ascending(R)[Cardinality(S) + 1] = x
    <2>1. Cardinality(S) + 1 \in 1 .. Cardinality(R) /\ x \in R
      BY <1>1
    <2>2. CountBelow(R, x) = Cardinality(S)
      BY <1>3 DEF CountBelow
    <2> HIDE DEF R
    <2>0. \A i \in 1 .. Cardinality(R) :
            Ascending(R)[i] \in R /\ CountBelow(R, Ascending(R)[i]) = i - 1
      BY <1>1, AscendingLists
    <2> DEFINE k == Cardinality(S) + 1
               y == Ascending(R)[k]
    <2>3. y \in R /\ CountBelow(R, y) = k - 1
      <3> HIDE DEF k
      <3> QED BY <2>0, <2>1 DEF k
    <2>4. CountBelow(R, y) = CountBelow(R, x)
      BY <1>1, <2>2, <2>3
    <2>5. y = x
      <3> HIDE DEF y
      <3> QED BY <1>1, <2>1, <2>3, <2>4, SameRank
    <2> QED BY <2>3, <2>5
  <1> QED BY <1>1, <1>2, <1>4

---------------------------------------------------------------------------
(* What a sequence in ascending order is *)

(* One set after another *)
LEMMA AscendingJoin ==
  ASSUME NEW A \in SUBSET Nat, IsFiniteSet(A), NEW B \in SUBSET Nat, IsFiniteSet(B),
         \A a \in A, b \in B : a < b
  PROVE  /\ Ascending(A \cup B) = Ascending(A) \o Ascending(B)
         /\ Cardinality(A \cup B) = Cardinality(A) + Cardinality(B)
  <1>1. PICK a \in Seq(A) :
           /\ Ascending(A) = a /\ Len(a) = Cardinality(A)
           /\ \A i \in 1 .. Len(a) : a[i] \in A /\ a[i] \in Nat
           /\ \A i, j \in 1 .. Len(a) : i < j => a[i] < a[j]
           /\ \A x \in A : \E i \in 1 .. Len(a) : a[i] = x
    BY AscendingIs
  <1>2. PICK b \in Seq(B) :
           /\ Ascending(B) = b /\ Len(b) = Cardinality(B)
           /\ \A i \in 1 .. Len(b) : b[i] \in B /\ b[i] \in Nat
           /\ \A i, j \in 1 .. Len(b) : i < j => b[i] < b[j]
           /\ \A x \in B : \E i \in 1 .. Len(b) : b[i] = x
    BY AscendingIs
  <1> DEFINE R == A \cup B
             r == a \o b
             n == Len(a)
             m == Len(b)
  <1>3. R \in SUBSET Nat /\ IsFiniteSet(R)
    BY FS_Union
  <1>4. /\ n \in Nat /\ m \in Nat /\ r \in Seq(R) /\ Len(r) = n + m
        /\ \A i \in 1 .. n : r[i] = a[i]
        /\ \A i \in 1 .. m : r[n + i] = b[i]
    <2>1. a \in Seq(R) /\ b \in Seq(R)
      OBVIOUS
    <2>2. n \in Nat /\ m \in Nat
      OBVIOUS
    <2> HIDE DEF R
    <2> QED BY <2>1, <2>2
  <1>5. \A i \in 1 .. n + m : i \in 1 .. n \/ \E j \in 1 .. m : i = n + j
    <2> SUFFICES ASSUME NEW i \in 1 .. n + m, i \notin 1 .. n
                 PROVE  \E j \in 1 .. m : i = n + j
      OBVIOUS
    <2>1. i - n \in 1 .. m /\ i = n + (i - n)
      BY <1>4
    <2> QED BY <2>1
  <1> HIDE DEF n, m, r
  <1>6. \A i, j \in 1 .. Len(r) : i < j => r[i] < r[j]
    <2> SUFFICES ASSUME NEW i \in 1 .. n + m, NEW j \in 1 .. n + m, i < j
                 PROVE  r[i] < r[j]
      BY <1>4
    <2>1. CASE i \in 1 .. n /\ j \in 1 .. n
      BY <1>1, <1>4, <2>1 DEF n
    <2>2. CASE i \in 1 .. n /\ j \notin 1 .. n
      <3>1. PICK k \in 1 .. m : j = n + k
        BY <1>5, <2>2
      <3>2. r[i] = a[i] /\ r[j] = b[k] /\ a[i] \in A /\ b[k] \in B
        BY <1>1, <1>2, <1>4, <2>2, <3>1 DEF n, m
      <3> QED BY <3>2
    <2>3. CASE i \notin 1 .. n
      <3>1. PICK k \in 1 .. m : i = n + k
        BY <1>5, <2>3
      <3>2. j \notin 1 .. n
        BY <1>4, <2>3
      <3>3. PICK l \in 1 .. m : j = n + l
        BY <1>5, <3>2
      <3>4. k < l
        BY <1>4, <3>1, <3>3
      <3>5. r[i] = b[k] /\ r[j] = b[l] /\ b[k] < b[l]
        BY <1>2, <1>4, <3>1, <3>3, <3>4 DEF m
      <3> QED BY <3>5
    <2> QED BY <2>1, <2>2, <2>3
  <1>7. \A x \in R : \E i \in 1 .. Len(r) : r[i] = x
    <2> SUFFICES ASSUME NEW x \in R
                 PROVE  \E i \in 1 .. n + m : r[i] = x
      BY <1>4
    <2>1. CASE x \in A
      <3>1. PICK i \in 1 .. n : a[i] = x
        BY <1>1, <2>1 DEF n
      <3>2. i \in 1 .. n + m
        BY <1>4
      <3> QED BY <1>4, <3>1, <3>2
    <2>2. CASE x \in B
      <3>1. PICK i \in 1 .. m : b[i] = x
        BY <1>2, <2>2 DEF m
      <3>2. n + i \in 1 .. n + m
        BY <1>4
      <3> QED BY <1>4, <3>1, <3>2
    <2> QED BY <2>1, <2>2
  <1> HIDE DEF R
  <1>8. Ascending(R) = r /\ Cardinality(R) = Len(r)
    BY <1>3, <1>4, <1>6, <1>7, AscendingUnique
  <1> QED BY <1>1, <1>2, <1>4, <1>8 DEF R, r, n, m

(* A set moved up *)
LEMMA AscendingShift ==
  ASSUME NEW B \in SUBSET Nat, IsFiniteSet(B), NEW n \in Nat
  PROVE  /\ {n + i : i \in B} \in SUBSET Nat /\ IsFiniteSet({n + i : i \in B})
         /\ Cardinality({n + i : i \in B}) = Cardinality(B)
         /\ \A k \in 1 .. Cardinality(B) :
              Ascending({n + i : i \in B})[k] = n + Ascending(B)[k]
  <1>1. PICK b \in Seq(B) :
           /\ Ascending(B) = b /\ Len(b) = Cardinality(B)
           /\ \A i \in 1 .. Len(b) : b[i] \in B /\ b[i] \in Nat
           /\ \A i, j \in 1 .. Len(b) : i < j => b[i] < b[j]
           /\ \A x \in B : \E i \in 1 .. Len(b) : b[i] = x
    BY AscendingIs
  <1> DEFINE C == {n + i : i \in B}
             c == [k \in 1 .. Len(b) |-> n + b[k]]
             move == [i \in B |-> n + i]
  <1>2. C \in SUBSET Nat
    OBVIOUS
  <1>3. IsFiniteSet(C)
    <2>1. move \in Surjection(B, C)
      BY DEF Surjection
    <2> HIDE DEF move, C
    <2> QED BY <2>1, FS_Surjection
  <1>4. Len(b) \in Nat /\ \A k \in 1 .. Len(b) : c[k] = n + b[k] /\ c[k] \in C
    BY <1>1
  <1>5. c \in Seq(C) /\ Len(c) = Len(b)
    <2>1. c \in [1 .. Len(b) -> C]
      BY <1>4
    <2> HIDE DEF c, C
    <2> QED BY <1>4, <2>1
  <1>6. \A i, j \in 1 .. Len(c) : i < j => c[i] < c[j]
    <2> SUFFICES ASSUME NEW i \in 1 .. Len(b), NEW j \in 1 .. Len(b), i < j
                 PROVE  c[i] < c[j]
      BY <1>5
    <2>1. b[i] < b[j] /\ b[i] \in Nat /\ b[j] \in Nat
      BY <1>1
    <2> QED BY <1>4, <2>1
  <1>7. \A x \in C : \E i \in 1 .. Len(c) : c[i] = x
    <2> SUFFICES ASSUME NEW y \in B
                 PROVE  \E i \in 1 .. Len(b) : c[i] = n + y
      BY <1>5
    <2> QED BY <1>1, <1>4
  <1> HIDE DEF C, c
  <1>8. Ascending(C) = c /\ Cardinality(C) = Len(c)
    BY <1>2, <1>3, <1>5, <1>6, <1>7, AscendingUnique
  <1> QED BY <1>1, <1>2, <1>3, <1>4, <1>5, <1>8 DEF C

(* The members up to the m-th one come first. *)
LEMMA AscendingFirst ==
  ASSUME NEW S \in SUBSET Nat, IsFiniteSet(S), NEW m \in 1 .. Cardinality(S)
  PROVE  /\ SubSeq(Ascending(S), 1, m) = Ascending({x \in S : x <= Ascending(S)[m]})
         /\ Cardinality({x \in S : x <= Ascending(S)[m]}) = m
  <1>1. PICK s \in Seq(S) :
           /\ Ascending(S) = s /\ Len(s) = Cardinality(S)
           /\ \A i \in 1 .. Len(s) : s[i] \in S /\ s[i] \in Nat
           /\ \A i, j \in 1 .. Len(s) : i < j => s[i] < s[j]
           /\ \A x \in S : \E i \in 1 .. Len(s) : s[i] = x
    BY AscendingIs
  <1> DEFINE T == {x \in S : x <= s[m]}
             t == SubSeq(s, 1, m)
  <1>2. T \in SUBSET Nat /\ IsFiniteSet(T)
    BY FS_Subset
  <1>3. m \in Nat /\ m <= Len(s) /\ Len(s) \in Nat /\ \A i \in 1 .. m : i \in 1 .. Len(s)
    BY <1>1
  <1>4. t \in Seq(S) /\ Len(t) = m /\ \A i \in 1 .. m : t[i] = s[i]
    BY <1>3
  <1>5. \A i \in 1 .. m : s[i] \in T
    <2> SUFFICES ASSUME NEW i \in 1 .. m
                 PROVE  s[i] \in S /\ s[i] <= s[m]
      OBVIOUS
    <2>1. i = m \/ i < m
      BY <1>3
    <2>2. m \in 1 .. Len(s)
      BY <1>3
    <2> QED BY <1>1, <1>3, <2>1, <2>2
  <1>6. t \in Seq(T)
    <2>1. t \in [1 .. m -> T]
      <3>1. DOMAIN t = 1 .. m /\ t = [i \in 1 .. m |-> t[i]]
        BY <1>4
      <3> HIDE DEF t, T
      <3> QED BY <1>4, <1>5, <3>1
    <2> HIDE DEF t, T
    <2> QED BY <1>3, <2>1
  <1>7. \A i, j \in 1 .. Len(t) : i < j => t[i] < t[j]
    <2> HIDE DEF t
    <2> QED BY <1>1, <1>3, <1>4
  <1>8. \A x \in T : \E i \in 1 .. Len(t) : t[i] = x
    <2> SUFFICES ASSUME NEW x \in S, x <= s[m]
                 PROVE  \E i \in 1 .. m : t[i] = x
      BY <1>4
    <2>1. PICK i \in 1 .. Len(s) : s[i] = x
      BY <1>1
    <2>2. ~(m < i)
      <3>1. m \in 1 .. Len(s) /\ s[m] \in Nat /\ s[i] \in Nat
        BY <1>1, <1>3
      <3>2. m < i => s[m] < s[i]
        BY <1>1, <3>1
      <3> QED BY <2>1, <3>1, <3>2
    <2>3. i \in 1 .. m
      BY <1>3, <2>2
    <2> QED BY <1>4, <2>1, <2>3
  <1> HIDE DEF T, t
  <1>9. Ascending(T) = t /\ Cardinality(T) = Len(t)
    BY <1>2, <1>6, <1>7, <1>8, AscendingUnique
  <1> QED BY <1>1, <1>4, <1>9 DEF T, t
---------------------------------------------------------------------------

---------------------------------------------------------------------------
(* The elements at some places of a sequence *)

LEMMA SeqJoin ==
  ASSUME NEW S, NEW s \in Seq(S), NEW t \in Seq(S)
  PROVE  /\ s \o t \in Seq(S) /\ Len(s \o t) = Len(s) + Len(t)
         /\ \A i \in 1 .. Len(s) : (s \o t)[i] = s[i]
         /\ \A i \in 1 .. Len(t) : (s \o t)[Len(s) + i] = t[i]
  OBVIOUS

LEMMA PickedType ==
  ASSUME NEW S, NEW s \in Seq(S), NEW P \in SUBSET (1 .. Len(s))
  PROVE  /\ P \in SUBSET Nat /\ IsFiniteSet(P) /\ Cardinality(P) \in Nat
         /\ Picked(s, P) \in Seq(S)
         /\ Len(Picked(s, P)) = Cardinality(P)
         /\ \A k \in 1 .. Cardinality(P) :
              Ascending(P)[k] \in P /\ Picked(s, P)[k] = s[Ascending(P)[k]]
  <1> DEFINE n == Cardinality(P)
             r == Picked(s, P)
             a == Ascending(P)
  <1>1. Len(s) \in Nat /\ P \in SUBSET Nat
    OBVIOUS
  <1>2. IsFiniteSet(P) /\ n \in Nat
    <2>1. IsFiniteSet(1 .. Len(s))
      BY <1>1, FS_Interval
    <2> QED BY <2>1, FS_Subset, FS_CardinalityType
  <1>3. \A k \in 1 .. n : a[k] \in P
    BY <1>1, <1>2, AscendingLists
  <1>4. r = [k \in 1 .. n |-> s[a[k]]]
    BY DEF Picked
  <1>5. \A k \in 1 .. n : s[a[k]] \in S
    <2>1. \A i \in P : s[i] \in S
      OBVIOUS
    <2> QED BY <1>3, <2>1
  <1> HIDE DEF n, r, a
  <1>6. r \in [1 .. n -> S] /\ \A k \in 1 .. n : r[k] = s[a[k]]
    BY <1>4, <1>5
  <1>7. r \in Seq(S) /\ Len(r) = n
    BY <1>2, <1>6
  <1> QED BY <1>1, <1>2, <1>3, <1>6, <1>7 DEF n, r, a

LEMMA PickedEvery ==
  ASSUME NEW S, NEW s \in Seq(S)
  PROVE  Picked(s, 1 .. Len(s)) = s
  <1> DEFINE n == Len(s)
             P == 1 .. n
             id == [i \in 1 .. n |-> i]
  <1>1. n \in Nat /\ P \in SUBSET Nat /\ P \in SUBSET (1 .. Len(s))
    OBVIOUS
  <1>2. IsFiniteSet(P)
    BY <1>1, FS_Interval
  <1>3. id \in Seq(P) /\ Len(id) = n /\ \A i \in 1 .. n : id[i] = i
    BY <1>1
  <1>4. \A i, j \in 1 .. Len(id) : i < j => id[i] < id[j]
    BY <1>3
  <1>5. \A x \in P : \E i \in 1 .. Len(id) : id[i] = x
    BY <1>3
  <1> HIDE DEF id, P
  <1>6. Ascending(P) = id /\ Cardinality(P) = n
    BY <1>1, <1>2, <1>3, <1>4, <1>5, AscendingUnique
  <1> DEFINE r == Picked(s, P)
  <1>7. r \in Seq(S) /\ Len(r) = n /\ \A k \in 1 .. n : r[k] = s[k]
    BY <1>1, <1>3, <1>6, PickedType
  <1> HIDE DEF r
  <1>8. r = s
    BY <1>7, SeqEqual
  <1> QED BY <1>8 DEF r, P

Shifted(n, Q) == {n + i : i \in Q}
Joined(s, t) == s \o t   \* opaque to the provers unless its definition is cited

LEMMA PickedJoin ==
  ASSUME NEW S, NEW s \in Seq(S), NEW d \in Seq(S),
         NEW P \in SUBSET (1 .. Len(s)), NEW Q \in SUBSET (1 .. Len(d))
  PROVE  Picked(Joined(s, d), P \cup Shifted(Len(s), Q)) = Joined(Picked(s, P), Picked(d, Q))
  <1> DEFINE n == Len(s)
             B == Shifted(n, Q)
             R == P \cup B
             sd == s \o d
             p == Picked(s, P)
             q == Picked(d, Q)
             r == Picked(sd, R)
             c == Cardinality(P)
             e == Cardinality(Q)
  <1>1. /\ n \in Nat /\ Len(d) \in Nat /\ sd \in Seq(S) /\ Len(sd) = n + Len(d)
        /\ \A i \in 1 .. n : sd[i] = s[i]
        /\ \A i \in 1 .. Len(d) : sd[n + i] = d[i]
    OBVIOUS
  <1>2. /\ P \in SUBSET Nat /\ IsFiniteSet(P) /\ c \in Nat
        /\ p \in Seq(S) /\ Len(p) = c
        /\ \A k \in 1 .. c : Ascending(P)[k] \in P /\ p[k] = s[Ascending(P)[k]]
    BY PickedType
  <1>3. /\ Q \in SUBSET Nat /\ IsFiniteSet(Q) /\ e \in Nat
        /\ q \in Seq(S) /\ Len(q) = e
        /\ \A k \in 1 .. e : Ascending(Q)[k] \in Q /\ q[k] = d[Ascending(Q)[k]]
    BY PickedType
  <1>4. /\ B \in SUBSET Nat /\ IsFiniteSet(B) /\ Cardinality(B) = e
        /\ \A k \in 1 .. e : Ascending(B)[k] = n + Ascending(Q)[k]
    <2> HIDE DEF n
    <2> QED BY <1>1, <1>3, AscendingShift DEF Shifted
  <1>5. \A a \in P, b \in B : a < b
    BY DEF Shifted
  <1>6. R \in SUBSET (1 .. Len(sd))
    <2>1. P \in SUBSET (1 .. n + Len(d)) /\ B \in SUBSET (1 .. n + Len(d))
      BY DEF Shifted
    <2> QED BY <1>1, <2>1
  <1> HIDE DEF B, n, sd, p, q
  <1>7. Ascending(R) = Ascending(P) \o Ascending(B) /\ Cardinality(R) = c + e
    BY <1>2, <1>4, <1>5, AscendingJoin
  <1>8. /\ r \in Seq(S) /\ Len(r) = c + e
        /\ \A k \in 1 .. c + e : r[k] = sd[Ascending(R)[k]]
    <2>1. PICK t \in SUBSET (1 .. Len(sd)) : t = R
      BY <1>6
    <2>2. PICK k : k = Cardinality(t)
      OBVIOUS
    <2>3. /\ Picked(sd, t) \in Seq(S) /\ Len(Picked(sd, t)) = k
          /\ \A i \in 1 .. k : Picked(sd, t)[i] = sd[Ascending(t)[i]]
      BY <1>1, <2>2, PickedType
    <2>4. k = c + e
      BY <1>7, <2>1, <2>2
    <2> HIDE DEF R, c, e
    <2> QED BY <2>1, <2>3, <2>4
  <1>9. /\ \A k \in 1 .. c : Ascending(R)[k] = Ascending(P)[k]
        /\ \A k \in 1 .. e : Ascending(R)[c + k] = Ascending(B)[k]
    <2>1. PICK a : a = Ascending(P)
      OBVIOUS
    <2>2. PICK b : b = Ascending(B)
      OBVIOUS
    <2>3. a \in Seq(P) /\ Len(a) = c
      BY <1>2, <2>1, AscendingLists
    <2>4. b \in Seq(B) /\ Len(b) = e
      BY <1>4, <2>2, AscendingLists
    <2>5. a \in Seq(Nat) /\ b \in Seq(Nat)
      <3>1. \A x \in P : x \in Nat
        BY <1>2
      <3>2. \A x \in B : x \in Nat
        BY <1>4
      <3>5. c \in Nat /\ e \in Nat
        BY <1>2, <1>3
      <3> HIDE DEF c, e
      <3>a. \A i \in 1 .. c : a[i] \in P
        BY <2>3
      <3>b. \A i \in 1 .. e : b[i] \in B
        BY <2>4
      <3>3. \A i \in 1 .. c : a[i] \in Nat
        BY <3>1, <3>a
      <3>4. \A i \in 1 .. e : b[i] \in Nat
        BY <3>2, <3>b
      <3>6. a = [i \in 1 .. c |-> a[i]] /\ b = [i \in 1 .. e |-> b[i]]
        BY <2>3, <2>4
      <3>7. a \in [1 .. c -> Nat] /\ b \in [1 .. e -> Nat]
        BY <3>3, <3>4, <3>6
      <3> QED BY <3>5, <3>7
    <2>6. /\ \A k \in 1 .. c : (a \o b)[k] = a[k]
          /\ \A k \in 1 .. e : (a \o b)[c + k] = b[k]
      BY SMTT(30), <1>2, <1>3, <2>3, <2>4, <2>5
    <2> QED BY <1>7, <2>1, <2>2, <2>6
  <1>10. \A k \in 1 .. c + e : r[k] = (p \o q)[k]
    <2> SUFFICES ASSUME NEW k \in 1 .. c + e
                 PROVE  r[k] = (p \o q)[k]
      OBVIOUS
    <2>1. k \in 1 .. c \/ \E l \in 1 .. e : k = c + l
      <3>1. \/ k \in 1 .. c
            \/ k - c \in 1 .. e /\ k = c + (k - c)
        BY <1>2, <1>3
      <3> QED BY <3>1
    <2>2. CASE k \in 1 .. c
      <3>1. r[k] = sd[Ascending(P)[k]]
        BY <1>8, <1>9, <2>2
      <3>2. Ascending(P)[k] \in 1 .. n
        BY <1>2, <2>2 DEF n
      <3>3. r[k] = p[k]
        BY <1>1, <1>2, <2>2, <3>1, <3>2
      <3>4. (p \o q)[k] = p[k]
        BY <1>2, <1>3, <2>2
      <3> QED BY <3>3, <3>4
    <2>3. CASE \E l \in 1 .. e : k = c + l
      <3>1. PICK l \in 1 .. e : k = c + l
        BY <2>3
      <3>2. r[k] = sd[n + Ascending(Q)[l]]
        <4>1. r[c + l] = sd[Ascending(R)[c + l]]
          BY <1>8, <3>1
        <4>2. Ascending(R)[c + l] = n + Ascending(Q)[l]
          BY <1>4, <1>9
        <4> QED BY <3>1, <4>1, <4>2
      <3>3. Ascending(Q)[l] \in 1 .. Len(d)
        BY <1>3
      <3>4. r[k] = q[l]
        BY <1>1, <1>3, <3>2, <3>3
      <3>5. (p \o q)[k] = q[l]
        BY <1>2, <1>3, <3>1
      <3> QED BY <3>4, <3>5
    <2> QED BY <2>1, <2>2, <2>3
  <1>11. r = p \o q
    <2>1. p \o q \in Seq(S) /\ Len(p \o q) = c + e
      BY <1>2, <1>3, SeqJoin
    <2> HIDE DEF r
    <2> QED BY <1>8, <1>10, <2>1, SeqEqual
  <1> QED BY <1>11 DEF p, q, sd, B, n, Joined


(* r has the elements of s at the places P, the k-th from place a[k].      *)
PickedFrom(S, s, P, r, a) ==
  /\ r \in Seq(S) /\ a \in Seq(P) /\ a = Ascending(P)
  /\ Len(r) = Cardinality(P) /\ Len(a) = Len(r) /\ Len(r) \in Nat /\ DOMAIN r = 1 .. Len(r)
  /\ \A k \in 1 .. Len(r) : a[k] \in P /\ a[k] \in Nat /\ r[k] = s[a[k]]
  /\ \A i, j \in 1 .. Len(r) : i < j => a[i] < a[j]
  /\ \A i, j \in 1 .. Len(r) : a[i] = a[j] => i = j
  /\ \A i \in P : \E k \in 1 .. Len(r) : a[k] = i
  /\ \A x : x \in ToSet(r) <=> \E i \in P : x = s[i]

LEMMA PickedIs ==
  ASSUME NEW S, NEW s \in Seq(S), NEW P \in SUBSET (1 .. Len(s))
  PROVE  \E r, a : r = Picked(s, P) /\ PickedFrom(S, s, P, r, a)
  <1>1. PICK r : r = Picked(s, P)
    OBVIOUS
  <1>2. /\ P \in SUBSET Nat /\ IsFiniteSet(P) /\ Cardinality(P) \in Nat
        /\ r \in Seq(S) /\ Len(r) = Cardinality(P)
        /\ \A k \in 1 .. Cardinality(P) : Ascending(P)[k] \in P /\ r[k] = s[Ascending(P)[k]]
    BY <1>1, PickedType
  <1>3. PICK a \in Seq(P) :
           /\ Ascending(P) = a /\ Len(a) = Cardinality(P)
           /\ \A i \in 1 .. Len(a) : a[i] \in P /\ a[i] \in Nat
           /\ \A i, j \in 1 .. Len(a) : i < j => a[i] < a[j]
           /\ \A x \in P : \E i \in 1 .. Len(a) : a[i] = x
    BY <1>2, AscendingIs
  <1>4. DOMAIN r = 1 .. Len(r)
    BY <1>2
  <1>5. \A x : x \in ToSet(r) <=> \E i \in P : x = s[i]
    <2>1. \A k \in 1 .. Len(r) : \E i \in P : r[k] = s[i]
      BY <1>2
    <2>2. \A i \in P : \E k \in 1 .. Len(r) : s[i] = r[k]
      <3> SUFFICES ASSUME NEW i \in P PROVE \E k \in 1 .. Len(r) : s[i] = r[k]
        OBVIOUS
      <3>1. PICK k \in 1 .. Len(r) : a[k] = i
        BY <1>2, <1>3
      <3> QED BY <1>2, <1>3, <3>1
    <2>3. \A x : x \in ToSet(r) <=> \E k \in 1 .. Len(r) : x = r[k]
      BY <1>4 DEF ToSet
    <2> SUFFICES ASSUME NEW x PROVE x \in ToSet(r) <=> \E i \in P : x = s[i]
      OBVIOUS
    <2>4. ASSUME x \in ToSet(r) PROVE \E i \in P : x = s[i]
      <3>1. PICK k \in 1 .. Len(r) : x = r[k]
        BY <2>3, <2>4
      <3> QED BY <2>1, <3>1
    <2>5. ASSUME NEW i \in P, x = s[i] PROVE x \in ToSet(r)
      BY <2>2, <2>3, <2>5
    <2> QED BY <2>4, <2>5
  <1>6. ASSUME NEW i \in 1 .. Len(r), NEW j \in 1 .. Len(r), a[i] = a[j]
        PROVE  i = j
    <2>1. i \in Nat /\ j \in Nat
      BY <1>2
    <2>2. ~(i < j) /\ ~(j < i)
      BY <1>2, <1>3, <1>6
    <2> QED BY <2>1, <2>2
  <1>7. PickedFrom(S, s, P, r, a)
    BY <1>2, <1>3, <1>4, <1>5, <1>6 DEF PickedFrom
  <1> QED BY <1>1, <1>7

---------------------------------------------------------------------------
(* Sorting *)

WeakOrder(D, W) ==
  /\ \A x, y \in D : <<x, y>> \in W => <<y, x>> \notin W
  /\ \A x, y, z \in D : <<x, z>> \in W => <<x, y>> \in W \/ <<y, z>> \in W

LEMMA StablyOrders ==
  ASSUME NEW S, NEW s \in Seq(S), NEW W, WeakOrder(1 .. Len(s), W)
  PROVE  /\ StrictOrder(1 .. Len(s), Stably(s, W))
         /\ \A x, y \in 1 .. Len(s) : <<x, y>> \in Stably(s, W) =>
              <<x, y>> \in W \/ (<<y, x>> \notin W /\ x < y)
  <1> DEFINE D == 1 .. Len(s)
             E == Stably(s, W)
  <1>1. DOMAIN s = D /\ \A x \in D : x \in Nat
    OBVIOUS
  <1>2. \A x, y \in D : <<x, y>> \in E <=> <<x, y>> \in W \/ (<<y, x>> \notin W /\ x < y)
    BY <1>1 DEF Stably
  <1> HIDE DEF D, E
  <1>3. \A x, y \in D : <<x, y>> \in E => <<y, x>> \notin E
    BY <1>1, <1>2 DEF WeakOrder, D
  <1>4. \A x, y \in D : x = y \/ <<x, y>> \in E \/ <<y, x>> \in E
    <2> SUFFICES ASSUME NEW x \in D, NEW y \in D, x # y
                 PROVE  <<x, y>> \in E \/ <<y, x>> \in E
      OBVIOUS
    <2>1. x < y \/ y < x
      BY <1>1
    <2> QED BY <1>2, <2>1
  <1>5. ASSUME NEW x \in D, NEW y \in D, NEW z \in D, <<x, y>> \in E, <<y, z>> \in E
        PROVE  <<x, z>> \in E
    <2>0. /\ \A u, v \in D : <<u, v>> \in W => <<v, u>> \notin W
          /\ \A u, v, w \in D : <<u, w>> \in W => <<u, v>> \in W \/ <<v, w>> \in W
      BY DEF WeakOrder, D
    <2>1. CASE <<x, y>> \in W
      <3>1. <<x, z>> \in W \/ <<z, y>> \in W
        BY <2>0, <2>1
      <3>2. <<z, y>> \notin W
        BY <1>2, <1>5, <2>0
      <3> QED BY <1>2, <3>1, <3>2
    <2>2. CASE <<x, y>> \notin W /\ <<y, z>> \in W
      <3>1. <<y, x>> \in W \/ <<x, z>> \in W
        BY <2>0, <2>2
      <3>2. <<y, x>> \notin W
        BY <1>2, <1>5, <2>0
      <3> QED BY <1>2, <3>1, <3>2
    <2>3. CASE <<x, y>> \notin W /\ <<y, z>> \notin W
      <3>1. <<y, x>> \notin W /\ x < y /\ <<z, y>> \notin W /\ y < z
        BY <1>2, <1>5, <2>3
      <3>2. x < z
        BY <1>1, <3>1
      <3>3. <<z, x>> \notin W
        BY <2>0, <3>1
      <3> QED BY <1>2, <3>2, <3>3
    <2> QED BY <2>1, <2>2, <2>3
  <1> QED BY <1>2, <1>3, <1>4, <1>5 DEF StrictOrder, D, E

(* r is s sorted by W, its k-th element the one at place o[k] of s.        *)
SortedFrom(S, s, W, r, o) ==
  /\ r \in Seq(S) /\ o \in Seq(1 .. Len(s))
  /\ Len(r) = Len(s) /\ Len(o) = Len(s) /\ Len(s) \in Nat /\ DOMAIN r = 1 .. Len(s)
  /\ \A k \in 1 .. Len(s) : o[k] \in 1 .. Len(s) /\ r[k] = s[o[k]]
  /\ \A i, j \in 1 .. Len(s) : o[i] = o[j] => i = j
  /\ \A i \in 1 .. Len(s) : \E k \in 1 .. Len(s) : o[k] = i
  /\ \A i, j \in 1 .. Len(s) : i < j => <<o[i], o[j]>> \in Stably(s, W)
  /\ \A i, j \in 1 .. Len(s) : i < j => <<o[j], o[i]>> \notin W
  /\ ToSet(r) = ToSet(s)

LEMMA SortedIs ==
  ASSUME NEW S, NEW s \in Seq(S), NEW W, WeakOrder(1 .. Len(s), W)
  PROVE  \E r, o : r = Sorted(s, W) /\ SortedFrom(S, s, W, r, o)
  <1> DEFINE D == 1 .. Len(s)
  <1>1. DOMAIN s = D /\ Len(s) \in Nat
    OBVIOUS
  <1>2. IsFiniteSet(D) /\ Cardinality(D) = Len(s)
    BY <1>1, FS_Interval
  <1>3. PICK o \in Seq(D) :
           /\ Arranged(D, Stably(s, W)) = o /\ Len(o) = Cardinality(D)
           /\ \A k \in 1 .. Len(o) : o[k] \in D
           /\ \A i, j \in 1 .. Len(o) : i < j => <<o[i], o[j]>> \in Stably(s, W)
           /\ \A i, j \in 1 .. Len(o) : o[i] = o[j] => i = j
           /\ \A x \in D : \E k \in 1 .. Len(o) : o[k] = x
    <2> HIDE DEF D
    <2>1. StrictOrder(D, Stably(s, W))
      BY StablyOrders DEF D
    <2> QED BY <1>2, <2>1, ArrangedIs
  <1>4. PICK r : r = [k \in D |-> s[o[k]]]
    OBVIOUS
  <1>5. Sorted(s, W) = r
    BY <1>1, <1>3, <1>4 DEF Sorted
  <1>6. \A k \in D : o[k] \in D
    BY <1>2, <1>3
  <1>7. r \in [D -> S] /\ \A k \in D : r[k] = s[o[k]]
    <2>1. \A i \in D : s[i] \in S
      OBVIOUS
    <2> HIDE DEF D
    <2> QED BY <1>4, <1>6, <2>1
  <1>8. r \in Seq(S) /\ Len(r) = Len(s)
    BY <1>1, <1>7
  <1>9. ASSUME NEW i \in D, NEW j \in D, i < j
        PROVE  <<o[j], o[i]>> \notin W
    <2>1. <<o[i], o[j]>> \in Stably(s, W)
      BY <1>2, <1>3, <1>9
    <2>2. PICK x \in D : x = o[i]
      BY <1>6
    <2>3. PICK y \in D : y = o[j]
      BY <1>6
    <2>4. <<x, y>> \in W \/ <<y, x>> \notin W
      BY <2>1, <2>2, <2>3, StablyOrders
    <2> QED BY <2>2, <2>3, <2>4 DEF WeakOrder
  <1>10. ToSet(r) = ToSet(s)
    <2>0. DOMAIN r = D
      BY <1>7
    <2>1. \A k \in D : \E i \in D : r[k] = s[i]
      BY <1>6, <1>7
    <2>2. \A i \in D : \E k \in D : s[i] = r[k]
      BY <1>2, <1>3, <1>7
    <2> QED BY <1>1, <2>0, <2>1, <2>2 DEF ToSet
  <1>11. Len(o) = Len(s) /\ o \in Seq(1 .. Len(s))
    BY <1>2, <1>3
  <1>12. \A k \in D : o[k] \in D /\ r[k] = s[o[k]]
    BY <1>6, <1>7
  <1>13. /\ \A i, j \in D : o[i] = o[j] => i = j
         /\ \A i \in D : \E k \in D : o[k] = i
         /\ \A i, j \in D : i < j => <<o[i], o[j]>> \in Stably(s, W)
    BY <1>3, <1>11
  <1>14. SortedFrom(S, s, W, r, o)
    BY <1>1, <1>7, <1>8, <1>9, <1>10, <1>11, <1>12, <1>13 DEF SortedFrom
  <1> QED BY <1>5, <1>14

---------------------------------------------------------------------------
(* The orders the rows are sorted by *)

LEMMA NullsLastOrder ==
  ASSUME NEW x \in Int, NEW y \in Int, NEW z \in Int
  PROVE  /\ NullsLast(x, y) => ~NullsLast(y, x)
         /\ x = y \/ NullsLast(x, y) \/ NullsLast(y, x)
         /\ NullsLast(x, y) /\ NullsLast(y, z) => NullsLast(x, z)
         /\ NullsLast(x, z) => NullsLast(x, y) \/ NullsLast(y, z)
  BY DEF NullsLast, Null

LEMMA EpisodeOrder ==
  ASSUME NEW a, NEW b, NEW c,
         \A row \in {a, b, c} : row.t \in Int /\ row.season \in Int /\ row.number \in Int
  PROVE  /\ EpisodeBefore(a, b) => ~EpisodeBefore(b, a)
         /\ EpisodeBefore(a, c) => EpisodeBefore(a, b) \/ EpisodeBefore(b, c)
  BY DEF EpisodeBefore, NullsLast, Null

(* Rows sorted by numbers, unknown ones last.                              *)
LEMMA NumbersOrder ==
  ASSUME NEW K \in SUBSET Int
  PROVE  /\ StrictOrder(K, {p \in K \X K : NullsLast(p[1], p[2])})
         /\ \A x, y \in K : <<x, y>> \in {p \in K \X K : NullsLast(p[1], p[2])}
                              <=> NullsLast(x, y)
  <1> DEFINE B == {p \in K \X K : NullsLast(p[1], p[2])}
  <1>1. \A x, y \in K : <<x, y>> \in B <=> NullsLast(x, y)
    OBVIOUS
  <1>2. \A x \in K : x \in Int
    OBVIOUS
  <1> HIDE DEF B
  <1>3. StrictOrder(K, B)
    BY <1>1, <1>2, NullsLastOrder DEF StrictOrder
  <1> QED BY <1>1, <1>3 DEF B

---------------------------------------------------------------------------
(* Seasons *)

OwnRows(rows, t) == {row \in ToSet(rows) : row.parent = t}
OfSeason(rows, season) == {row \in rows : row.season = season}

(* An entry of a series with the rows own                                  *)
SeasonOf(S, own, entry) ==
  LET here == OfSeason(own, entry.season)
      episodes == entry.episodes
  IN  /\ episodes \in Seq(S)
      /\ ToSet(episodes) = here
      /\ Len(episodes) = Cardinality(here)
      /\ \A i, j \in 1 .. Len(episodes) :
           i < j => ~NullsLast(episodes[j].number, episodes[i].number)

SeasonsOf(S, own, f) ==
  \E n \in Nat :
    /\ DOMAIN f = 1 .. n
    /\ \A row \in own : \E k \in 1 .. n : f[k].season = row.season
    /\ \A k \in 1 .. n : \E row \in own : f[k].season = row.season
    /\ \A i, j \in 1 .. n : i < j => NullsLast(f[i].season, f[j].season)
    /\ \A k \in 1 .. n : SeasonOf(S, own, f[k])

(* FetchEpisodes lists the episodes of t once, under their seasons.        *)
LEMMA EpisodesFetched ==
  ASSUME NEW S, NEW e \in Seq(S), NEW t,
         \A row \in S : row.t \in Int /\ row.season \in Int /\ row.number \in Int,
         \A i, j \in 1 .. Len(e) : e[i].t = e[j].t => i = j
  PROVE  SeasonsOf(S, OwnRows(e, t), FetchEpisodes(e, t))
  <1> DEFINE P == {i \in DOMAIN e : e[i].parent = t}
             own == Picked(e, P)
             W == {p \in (DOMAIN own) \X (DOMAIN own) : EpisodeBefore(own[p[1]], own[p[2]])}
             rows == Sorted(own, W)
             keys == {SeasonKey(row) : row \in ToSet(rows)}
             B == {p \in keys \X keys : NullsLast(p[1], p[2])}
             seasons == Arranged(keys, B)
             episodes(k) == Picked(rows, {i \in DOMAIN rows : SeasonKey(rows[i]) = seasons[k]})
             f == FetchEpisodes(e, t)
  <1>0. f = [k \in DOMAIN seasons |-> [season |-> seasons[k], episodes |-> episodes(k)]]
    BY DEF FetchEpisodes, StableSort
  <1>1. DOMAIN e = 1 .. Len(e) /\ Len(e) \in Nat /\ P \in SUBSET (1 .. Len(e))
    OBVIOUS
  <1> HIDE DEF P
  <1>2. PICK own1, a : own1 = own /\ PickedFrom(S, e, P, own1, a)
    BY <1>1, PickedIs
  <1>3. /\ own = own1 /\ own1 \in Seq(S) /\ Len(own1) \in Nat /\ DOMAIN own1 = 1 .. Len(own1)
        /\ \A k \in 1 .. Len(own1) : a[k] \in P /\ own1[k] = e[a[k]]
        /\ \A i, j \in 1 .. Len(own1) : a[i] = a[j] => i = j
        /\ \A x : x \in ToSet(own1) <=> \E i \in P : x = e[i]
    BY <1>2 DEF PickedFrom
  <1>4. DOMAIN own = 1 .. Len(own) /\ own \in Seq(S)
    BY <1>3
  <1>5. ToSet(own) = OwnRows(e, t)
    <2>1. \A x : x \in OwnRows(e, t) <=> \E i \in P : x = e[i]
      BY <1>1 DEF OwnRows, ToSet, P
    <2> HIDE DEF own
    <2> QED BY <1>3, <2>1
  <1>6. \A i, j \in 1 .. Len(own) : own[i].t = own[j].t => i = j
    <2> SUFFICES ASSUME NEW i \in 1 .. Len(own1), NEW j \in 1 .. Len(own1),
                        own1[i].t = own1[j].t
                 PROVE  i = j
      BY <1>3
    <2>1. a[i] \in 1 .. Len(e) /\ a[j] \in 1 .. Len(e)
      BY <1>1, <1>3
    <2>2. e[a[i]].t = e[a[j]].t
      BY <1>3
    <2>3. a[i] = a[j]
      BY <2>1, <2>2
    <2> QED BY <1>3, <2>3
  <1> HIDE DEF own
  <1>7. WeakOrder(1 .. Len(own), W)
    <2>1. \A x, y \in 1 .. Len(own) : <<x, y>> \in W <=> EpisodeBefore(own[x], own[y])
      BY <1>4
    <2>2. \A x \in 1 .. Len(own) :
            own[x].t \in Int /\ own[x].season \in Int /\ own[x].number \in Int
      BY <1>4
    <2> HIDE DEF W
    <2>3. \A x, y \in 1 .. Len(own) : <<x, y>> \in W => <<y, x>> \notin W
      BY <2>1, <2>2, EpisodeOrder
    <2>4. \A x, y, z \in 1 .. Len(own) : <<x, z>> \in W => <<x, y>> \in W \/ <<y, z>> \in W
      BY <2>1, <2>2, EpisodeOrder
    <2> QED BY <2>3, <2>4 DEF WeakOrder
  <1>8. \A x, y \in 1 .. Len(own) : EpisodeBefore(own[x], own[y]) => <<x, y>> \in W
    BY <1>4
  <1> HIDE DEF W
  <1>91. PICK r, o : r = rows /\ SortedFrom(S, own, W, r, o)
    <2>1. own \in Seq(S)
      BY <1>4
    <2> QED BY <1>7, <2>1, SortedIs
  <1>9. /\ rows = r /\ r \in Seq(S) /\ Len(r) = Len(own) /\ Len(own) \in Nat
        /\ \A k \in 1 .. Len(own) : o[k] \in 1 .. Len(own) /\ r[k] = own[o[k]]
        /\ \A i, j \in 1 .. Len(own) : o[i] = o[j] => i = j
        /\ \A i, j \in 1 .. Len(own) : i < j => <<o[j], o[i]>> \notin W
        /\ ToSet(r) = ToSet(own)
    BY <1>91 DEF SortedFrom
  <1>10. rows = r /\ DOMAIN r = 1 .. Len(r) /\ Len(r) \in Nat
    BY <1>9
  <1>11. \A i, j \in 1 .. Len(r) : r[i].t = r[j].t => i = j
    <2> SUFFICES ASSUME NEW i \in 1 .. Len(own), NEW j \in 1 .. Len(own), r[i].t = r[j].t
                 PROVE  i = j
      BY <1>9
    <2>1. o[i] \in 1 .. Len(own) /\ o[j] \in 1 .. Len(own) /\ own[o[i]].t = own[o[j]].t
      BY <1>9
    <2>2. o[i] = o[j]
      BY <1>6, <2>1
    <2> QED BY <1>9, <2>2
  <1>12. \A i, j \in 1 .. Len(r) : i < j => ~EpisodeBefore(r[j], r[i])
    <2> SUFFICES ASSUME NEW i \in 1 .. Len(own), NEW j \in 1 .. Len(own), i < j
                 PROVE  ~EpisodeBefore(r[j], r[i])
      BY <1>9
    <2>1. o[i] \in 1 .. Len(own) /\ o[j] \in 1 .. Len(own) /\ <<o[j], o[i]>> \notin W
      BY <1>9
    <2>2. ~EpisodeBefore(own[o[j]], own[o[i]])
      BY <1>8, <2>1
    <2> QED BY <1>9, <2>2
  <1>13. keys = {row.season : row \in OwnRows(e, t)}
    BY <1>5, <1>9, <1>10 DEF SeasonKey
  <1> HIDE DEF rows
  <1>14. IsFiniteSet(keys)
    <2>1. keys = {r[i].season : i \in 1 .. Len(r)}
      BY <1>10 DEF SeasonKey, ToSet
    <2>2. IsFiniteSet(1 .. Len(r))
      BY <1>10, FS_Interval
    <2> DEFINE g == [i \in 1 .. Len(r) |-> r[i].season]
    <2>3. g \in Surjection(1 .. Len(r), keys)
      BY <2>1 DEF Surjection
    <2> HIDE DEF g, keys
    <2> QED BY <2>2, <2>3, FS_Surjection
  <1>15. keys \in SUBSET Int
    <2>1. \A row \in OwnRows(e, t) : row \in S
      BY DEF OwnRows, ToSet
    <2> HIDE DEF keys
    <2> QED BY <1>13, <2>1
  <1>16. /\ StrictOrder(keys, B)
         /\ \A x, y \in keys : <<x, y>> \in B <=> NullsLast(x, y)
    <2> HIDE DEF keys
    <2> QED BY <1>15, NumbersOrder
  <1> HIDE DEF keys, B
  <1>17. PICK s \in Seq(keys) :
           /\ Arranged(keys, B) = s /\ Len(s) = Cardinality(keys)
           /\ \A k \in 1 .. Len(s) : s[k] \in keys
           /\ \A i, j \in 1 .. Len(s) : i < j => <<s[i], s[j]>> \in B
           /\ \A x \in keys : \E k \in 1 .. Len(s) : s[k] = x
    BY <1>14, <1>16, ArrangedIs
  <1>18. seasons = s /\ DOMAIN s = 1 .. Len(s) /\ Len(s) \in Nat
    BY <1>17
  <1> HIDE DEF seasons
  <1>19. /\ DOMAIN f = 1 .. Len(s)
         /\ \A k \in 1 .. Len(s) : f[k].season = s[k] /\ f[k].episodes = episodes(k)
    <2> HIDE DEF episodes, f
    <2> QED BY <1>0, <1>18
  <1>20. ASSUME NEW k \in 1 .. Len(s)
         PROVE  SeasonOf(S, OwnRows(e, t), f[k])
    <2> DEFINE Q == {i \in DOMAIN r : SeasonKey(r[i]) = s[k]}
               here == OfSeason(OwnRows(e, t), s[k])
    <2>1. Q \in SUBSET (1 .. Len(r)) /\ \A i \in Q : r[i].season = s[k]
      BY <1>10 DEF SeasonKey
    <2>2. episodes(k) = Picked(r, Q)
      BY <1>10, <1>18
    <2>31. PICK q, b : q = Picked(r, Q) /\ PickedFrom(S, r, Q, q, b)
      <3> HIDE DEF Q
      <3> QED BY <1>9, <2>1, PickedIs
    <2>3. /\ q \in Seq(S) /\ Len(q) \in Nat
          /\ \A i \in 1 .. Len(q) : b[i] \in Q /\ b[i] \in Nat /\ q[i] = r[b[i]]
          /\ \A i, j \in 1 .. Len(q) : i < j => b[i] < b[j]
          /\ \A i, j \in 1 .. Len(q) : b[i] = b[j] => i = j
          /\ \A x : x \in ToSet(q) <=> \E i \in Q : x = r[i]
      <3> HIDE DEF Q
      <3> QED BY <2>31 DEF PickedFrom
    <2>4. ToSet(q) = here
      <3>1. ToSet(r) = OwnRows(e, t)
        BY <1>5, <1>9
      <3>2. \A x : x \in OwnRows(e, t) <=> \E i \in DOMAIN r : x = r[i]
        BY <3>1 DEF ToSet
      <3> QED BY <2>3, <3>2 DEF OfSeason, SeasonKey
    <2>5. ASSUME NEW i \in 1 .. Len(q), NEW j \in 1 .. Len(q), i < j
          PROVE  ~NullsLast(q[j].number, q[i].number)
      <3>1. b[i] < b[j] /\ b[i] \in 1 .. Len(r) /\ b[j] \in 1 .. Len(r)
        BY <2>1, <2>3, <2>5
      <3>2. ~EpisodeBefore(q[j], q[i])
        BY <1>12, <2>3, <3>1
      <3>3. q[j].season = q[i].season
        <4> HIDE DEF Q
        <4>1. b[i] \in Q /\ b[j] \in Q /\ q[i] = r[b[i]] /\ q[j] = r[b[j]]
          BY <2>3
        <4>2. r[b[i]].season = s[k] /\ r[b[j]].season = s[k]
          BY ONLY <2>1, <4>1
        <4> QED BY ONLY <4>1, <4>2
      <3> QED BY <3>2, <3>3 DEF EpisodeBefore
    <2>6. Len(q) = Cardinality(here)
      <3>1. \A i, j \in 1 .. Len(q) : q[i] = q[j] => i = j
        <4> SUFFICES ASSUME NEW i \in 1 .. Len(q), NEW j \in 1 .. Len(q), q[i] = q[j]
                     PROVE  i = j
          OBVIOUS
        <4>0. b[i] \in 1 .. Len(r) /\ b[j] \in 1 .. Len(r) /\ r[b[i]] = r[b[j]]
          BY <2>1, <2>3
        <4>1. b[i] = b[j]
          BY <1>11, <4>0
        <4> QED BY <2>3, <4>1
      <3>2. q \in Bijection(1 .. Len(q), here)
        <4>1. DOMAIN q = 1 .. Len(q) /\ Len(q) \in Nat /\ q = [i \in 1 .. Len(q) |-> q[i]]
          BY <2>3
        <4>2. \A x : x \in here <=> \E i \in 1 .. Len(q) : x = q[i]
          BY <2>4, <4>1 DEF ToSet
        <4> HIDE DEF here
        <4>3. q \in [1 .. Len(q) -> here]
          BY <4>1, <4>2
        <4> QED BY <3>1, <4>2, <4>3 DEF Bijection, Injection, Surjection, IsInjective
      <3>3. PICK n \in Nat : n = Len(q)
        OBVIOUS
      <3>4. IsFiniteSet(1 .. n) /\ Cardinality(1 .. n) = n
        BY ONLY n \in Nat, FS_Interval
      <3> HIDE DEF here
      <3> QED BY <3>2, <3>3, <3>4, FS_Bijection DEF ExistsBijection
    <2> HIDE DEF Q, here
    <2>7. f[k].season = s[k] /\ f[k].episodes = q
      BY <1>19, <2>2, <2>31
    <2> QED BY <2>3, <2>4, <2>5, <2>6, <2>7 DEF SeasonOf, here
  <1>21. /\ \A row \in OwnRows(e, t) : \E k \in 1 .. Len(s) : s[k] = row.season
         /\ \A k \in 1 .. Len(s) : \E row \in OwnRows(e, t) : s[k] = row.season
    <2>1. \A x : x \in keys <=> \E row \in OwnRows(e, t) : x = row.season
      BY <1>13
    <2> QED BY <1>17, <2>1
  <1>22. \A i, j \in 1 .. Len(s) : i < j => NullsLast(s[i], s[j])
    BY <1>16, <1>17
  <1> HIDE DEF episodes, f
  <1>24. PICK n \in Nat : n = Len(s)
    BY <1>18
  <1>25. /\ \A row \in OwnRows(e, t) : \E k \in 1 .. n : f[k].season = row.season
         /\ \A k \in 1 .. n : \E row \in OwnRows(e, t) : f[k].season = row.season
         /\ \A i, j \in 1 .. n : i < j => NullsLast(f[i].season, f[j].season)
    <2>1. \A k \in 1 .. n : f[k].season = s[k]
      BY <1>19, <1>24
    <2>2. \A row \in OwnRows(e, t) : \E k \in 1 .. n : f[k].season = row.season
      BY ONLY <1>21, <1>24, <2>1
    <2>3. \A k \in 1 .. n : \E row \in OwnRows(e, t) : f[k].season = row.season
      BY ONLY <1>21, <1>24, <2>1
    <2>4. \A i, j \in 1 .. n : i < j => NullsLast(f[i].season, f[j].season)
      BY ONLY <1>22, <1>24, <2>1
    <2> QED BY <2>2, <2>3, <2>4
  <1>26. DOMAIN f = 1 .. n /\ \A k \in 1 .. n : SeasonOf(S, OwnRows(e, t), f[k])
    BY <1>19, <1>20, <1>24
  <1>27. SeasonsOf(S, OwnRows(e, t), f)
    BY <1>25, <1>26 DEF SeasonsOf
  <1> QED BY <1>27 DEF f


---------------------------------------------------------------------------
(* Rows with an ordering of their own *)

Numbered(S, s) ==
  /\ s \in Seq(S) /\ Len(s) \in Nat /\ DOMAIN s = 1 .. Len(s)
  /\ \A i, j \in 1 .. Len(s) : s[i].ordering = s[j].ordering => i = j
  /\ \A x : x \in ToSet(s) <=> \E i \in 1 .. Len(s) : x = s[i]

LEMMA NumberedPick ==
  ASSUME NEW S, NEW s \in Seq(S), NEW P \in SUBSET (1 .. Len(s)),
         \A i, j \in P : s[i].ordering = s[j].ordering => i = j
  PROVE  /\ Numbered(S, Picked(s, P))
         /\ \A x : x \in ToSet(Picked(s, P)) <=> \E i \in P : x = s[i]
  <1>1. PICK r, a : r = Picked(s, P) /\ PickedFrom(S, s, P, r, a)
    BY PickedIs
  <1>2. /\ r \in Seq(S) /\ Len(r) \in Nat /\ DOMAIN r = 1 .. Len(r)
        /\ \A k \in 1 .. Len(r) : a[k] \in P /\ r[k] = s[a[k]]
        /\ \A i, j \in 1 .. Len(r) : a[i] = a[j] => i = j
        /\ \A x : x \in ToSet(r) <=> \E i \in P : x = s[i]
    BY <1>1 DEF PickedFrom
  <1>3. ASSUME NEW i \in 1 .. Len(r), NEW j \in 1 .. Len(r), r[i].ordering = r[j].ordering
        PROVE  i = j
    <2>1. a[i] \in P /\ a[j] \in P /\ s[a[i]].ordering = s[a[j]].ordering
      BY <1>2, <1>3
    <2>2. a[i] = a[j]
      BY <2>1
    <2> QED BY <1>2, <2>2
  <1>4. \A x : x \in ToSet(r) <=> \E i \in 1 .. Len(r) : x = r[i]
    BY <1>2 DEF ToSet
  <1> QED BY <1>1, <1>2, <1>3, <1>4 DEF Numbered

LEMMA NumberedSort ==
  ASSUME NEW S, NEW s, Numbered(S, s), NEW W, WeakOrder(1 .. Len(s), W)
  PROVE  \E r, o : /\ r = Sorted(s, W) /\ Numbered(S, r) /\ SortedFrom(S, s, W, r, o)
  <1>1. s \in Seq(S)
    BY DEF Numbered
  <1>2. PICK r, o : r = Sorted(s, W) /\ SortedFrom(S, s, W, r, o)
    BY <1>1, SortedIs
  <1>3. /\ r \in Seq(S) /\ Len(r) = Len(s) /\ Len(s) \in Nat /\ DOMAIN r = 1 .. Len(s)
        /\ \A k \in 1 .. Len(s) : o[k] \in 1 .. Len(s) /\ r[k] = s[o[k]]
        /\ \A i, j \in 1 .. Len(s) : o[i] = o[j] => i = j
    BY <1>2 DEF SortedFrom
  <1>4. ASSUME NEW i \in 1 .. Len(s), NEW j \in 1 .. Len(s), r[i].ordering = r[j].ordering
        PROVE  i = j
    <2>1. /\ o[i] \in 1 .. Len(s) /\ o[j] \in 1 .. Len(s)
          /\ s[o[i]].ordering = s[o[j]].ordering
      BY <1>3, <1>4
    <2>2. o[i] = o[j]
      BY <2>1 DEF Numbered
    <2> QED BY <1>3, <2>2
  <1>5. \A x : x \in ToSet(r) <=> \E i \in 1 .. Len(s) : x = r[i]
    BY <1>3 DEF ToSet
  <1>6. Numbered(S, r)
    BY <1>3, <1>4, <1>5 DEF Numbered
  <1> QED BY <1>2, <1>6

(* By ordering: strictly, for no two are the same.                         *)
LEMMA OrderedIs ==
  ASSUME NEW S, NEW s, Numbered(S, s), \A row \in S : row.ordering \in Int
  PROVE  \E r : /\ r = OrderedByOrdering(s) /\ Numbered(S, r) /\ Len(r) = Len(s)
                /\ ToSet(r) = ToSet(s)
                /\ \A i, j \in 1 .. Len(r) :
                     i < j => NullsLast(r[i].ordering, r[j].ordering)
  <1> DEFINE W == {p \in (DOMAIN s) \X (DOMAIN s) :
                     NullsLast(s[p[1]].ordering, s[p[2]].ordering)}
  <1>1. OrderedByOrdering(s) = Sorted(s, W)
    BY DEF OrderedByOrdering, StableSort
  <1>2. /\ s \in Seq(S) /\ Len(s) \in Nat /\ DOMAIN s = 1 .. Len(s)
        /\ \A i \in 1 .. Len(s) : s[i].ordering \in Int
        /\ \A i, j \in 1 .. Len(s) : s[i].ordering = s[j].ordering => i = j
    BY DEF Numbered
  <1>3. \A x, y \in 1 .. Len(s) :
          <<x, y>> \in W <=> NullsLast(s[x].ordering, s[y].ordering)
    BY <1>2
  <1> HIDE DEF W
  <1>4. WeakOrder(1 .. Len(s), W)
    <2>1. \A x, y \in 1 .. Len(s) : <<x, y>> \in W => <<y, x>> \notin W
      BY <1>2, <1>3, NullsLastOrder
    <2>2. \A x, y, z \in 1 .. Len(s) : <<x, z>> \in W => <<x, y>> \in W \/ <<y, z>> \in W
      BY <1>2, <1>3, NullsLastOrder
    <2> QED BY <2>1, <2>2 DEF WeakOrder
  <1>5. PICK r, o : r = Sorted(s, W) /\ Numbered(S, r) /\ SortedFrom(S, s, W, r, o)
    BY <1>4, NumberedSort
  <1>6. /\ Len(r) = Len(s) /\ ToSet(r) = ToSet(s)
        /\ \A k \in 1 .. Len(s) : o[k] \in 1 .. Len(s) /\ r[k] = s[o[k]]
        /\ \A i, j \in 1 .. Len(s) : o[i] = o[j] => i = j
        /\ \A i, j \in 1 .. Len(s) : i < j => <<o[j], o[i]>> \notin W
    BY <1>5 DEF SortedFrom
  <1>7. ASSUME NEW i \in 1 .. Len(s), NEW j \in 1 .. Len(s), i < j
        PROVE  NullsLast(r[i].ordering, r[j].ordering)
    <2>1. PICK x \in 1 .. Len(s), y \in 1 .. Len(s) :
            x = o[i] /\ y = o[j] /\ r[i] = s[x] /\ r[j] = s[y]
      BY <1>6
    <2>2. x # y
      BY <1>2, <1>6, <1>7, <2>1
    <2>3. s[x].ordering # s[y].ordering
      BY <1>2, <2>2
    <2>4. ~NullsLast(s[y].ordering, s[x].ordering)
      BY <1>3, <1>6, <1>7, <2>1
    <2>5. s[x].ordering \in Int /\ s[y].ordering \in Int
      BY <1>2
    <2> QED BY <2>1, <2>3, <2>4, <2>5, NullsLastOrder
  <1> QED BY <1>1, <1>5, <1>6, <1>7

---------------------------------------------------------------------------
(* Akas *)

AkaRow(row) ==
  /\ row.ordering \in Int /\ Key(row.title) \in Int
  /\ row.display \in BOOLEAN /\ row.original \in BOOLEAN
AkaRank(row) == (IF row.display THEN 0 ELSE 2) + (IF row.original THEN 0 ELSE 1)
AkaAhead(a, b) ==
  \/ AkaRank(a) < AkaRank(b)
  \/ AkaRank(a) = AkaRank(b) /\ NullsLast(a.ordering, b.ordering)

LEMMA AkaRanked ==
  ASSUME NEW a, NEW b, AkaRow(a), AkaRow(b)
  PROVE  /\ AkaRank(a) \in Int /\ AkaRank(b) \in Int
         /\ AkaBefore(a, b) <=>
              \/ AkaRank(a) < AkaRank(b)
              \/ /\ AkaRank(a) = AkaRank(b)
                 /\ \/ NullsLast(a.ordering, b.ordering)
                    \/ a.ordering = b.ordering /\ Key(a.title) < Key(b.title)
  <1> DEFINE later == \/ NullsLast(a.ordering, b.ordering)
                      \/ a.ordering = b.ordering /\ Key(a.title) < Key(b.title)
  <1>1. AkaBefore(a, b) <=> \/ a.display /\ ~b.display
                            \/ /\ a.display = b.display
                               /\ \/ a.original /\ ~b.original
                                  \/ a.original = b.original /\ later
    BY DEF AkaBefore
  <1>2. /\ a.display \in BOOLEAN /\ a.original \in BOOLEAN
        /\ b.display \in BOOLEAN /\ b.original \in BOOLEAN
    BY DEF AkaRow
  <1> HIDE DEF later
  <1>3. AkaRank(a) \in Int /\ AkaRank(b) \in Int
    BY DEF AkaRank
  <1>4. AkaBefore(a, b) <=> \/ AkaRank(a) < AkaRank(b)
                            \/ AkaRank(a) = AkaRank(b) /\ later
    <2>1. CASE a.display /\ b.display
      BY <1>1, <1>2, <2>1 DEF AkaRank
    <2>2. CASE a.display /\ ~b.display
      <3>1. AkaRank(a) <= 1 /\ AkaRank(b) >= 2
        BY <1>2, <2>2 DEF AkaRank
      <3>2. AkaBefore(a, b)
        BY <1>1, <2>2
      <3> QED BY <1>3, <3>1, <3>2
    <2>3. CASE ~a.display /\ b.display
      <3>1. AkaRank(a) >= 2 /\ AkaRank(b) <= 1
        BY <1>2, <2>3 DEF AkaRank
      <3>2. ~AkaBefore(a, b)
        BY <1>1, <1>2, <2>3
      <3> QED BY <1>3, <3>1, <3>2
    <2>4. CASE ~a.display /\ ~b.display
      BY <1>1, <1>2, <2>4 DEF AkaRank
    <2> QED BY <2>1, <2>2, <2>3, <2>4
  <1> QED BY <1>3, <1>4 DEF later

LEMMA AkaOrder ==
  ASSUME NEW a, NEW b, NEW c, AkaRow(a), AkaRow(b), AkaRow(c)
  PROVE  /\ AkaBefore(a, b) => ~AkaBefore(b, a)
         /\ AkaBefore(a, c) => AkaBefore(a, b) \/ AkaBefore(b, c)
         /\ a.ordering = b.ordering \/ AkaBefore(b, a) \/ AkaAhead(a, b)
  <1>1. /\ a.ordering \in Int /\ b.ordering \in Int /\ c.ordering \in Int
        /\ Key(a.title) \in Int /\ Key(b.title) \in Int /\ Key(c.title) \in Int
        /\ AkaRank(a) \in Int /\ AkaRank(b) \in Int /\ AkaRank(c) \in Int
    BY AkaRanked DEF AkaRow
  <1> DEFINE Before(x, y) == \/ AkaRank(x) < AkaRank(y)
                             \/ /\ AkaRank(x) = AkaRank(y)
                                /\ \/ NullsLast(x.ordering, y.ordering)
                                   \/ x.ordering = y.ordering /\ Key(x.title) < Key(y.title)
  <1>2. /\ AkaBefore(a, b) <=> Before(a, b)
        /\ AkaBefore(b, a) <=> Before(b, a)
        /\ AkaBefore(a, c) <=> Before(a, c)
        /\ AkaBefore(b, c) <=> Before(b, c)
    BY AkaRanked
  <1>3. /\ Before(a, b) => ~Before(b, a)
        /\ Before(a, c) => Before(a, b) \/ Before(b, c)
        /\ a.ordering = b.ordering \/ Before(b, a) \/ AkaAhead(a, b)
    BY <1>1 DEF NullsLast, Null, AkaAhead
  <1> QED BY <1>2, <1>3

LEMMA AkasSorted ==
  ASSUME NEW S, NEW s, Numbered(S, s), \A row \in S : AkaRow(row)
  PROVE  \E r : /\ r = StableSort(s, AkaBefore) /\ Numbered(S, r) /\ ToSet(r) = ToSet(s)
                /\ \A i, j \in 1 .. Len(r) : i < j => AkaAhead(r[i], r[j])
  <1> DEFINE W == {p \in (DOMAIN s) \X (DOMAIN s) : AkaBefore(s[p[1]], s[p[2]])}
  <1>1. StableSort(s, AkaBefore) = Sorted(s, W)
    BY DEF StableSort
  <1>2. /\ s \in Seq(S) /\ Len(s) \in Nat /\ DOMAIN s = 1 .. Len(s)
        /\ \A i \in 1 .. Len(s) : AkaRow(s[i])
        /\ \A i, j \in 1 .. Len(s) : s[i].ordering = s[j].ordering => i = j
    BY DEF Numbered
  <1>3. \A x, y \in 1 .. Len(s) : <<x, y>> \in W <=> AkaBefore(s[x], s[y])
    BY <1>2
  <1> HIDE DEF W
  <1>4. WeakOrder(1 .. Len(s), W)
    <2>1. \A x, y \in 1 .. Len(s) : <<x, y>> \in W => <<y, x>> \notin W
      BY <1>2, <1>3, AkaOrder
    <2>2. \A x, y, z \in 1 .. Len(s) : <<x, z>> \in W => <<x, y>> \in W \/ <<y, z>> \in W
      BY <1>2, <1>3, AkaOrder
    <2> QED BY <2>1, <2>2 DEF WeakOrder
  <1>5. PICK r, o : r = Sorted(s, W) /\ Numbered(S, r) /\ SortedFrom(S, s, W, r, o)
    BY <1>4, NumberedSort
  <1>6. /\ Len(r) = Len(s) /\ ToSet(r) = ToSet(s)
        /\ \A k \in 1 .. Len(s) : o[k] \in 1 .. Len(s) /\ r[k] = s[o[k]]
        /\ \A i, j \in 1 .. Len(s) : o[i] = o[j] => i = j
        /\ \A i, j \in 1 .. Len(s) : i < j => <<o[j], o[i]>> \notin W
    BY <1>5 DEF SortedFrom
  <1>7. ASSUME NEW i \in 1 .. Len(s), NEW j \in 1 .. Len(s), i < j
        PROVE  AkaAhead(r[i], r[j])
    <2>1. PICK x \in 1 .. Len(s), y \in 1 .. Len(s) :
            x = o[i] /\ y = o[j] /\ r[i] = s[x] /\ r[j] = s[y]
      BY <1>6
    <2>2. x # y
      BY <1>2, <1>6, <1>7, <2>1
    <2>3. s[x].ordering # s[y].ordering
      BY <1>2, <2>2
    <2>4. ~AkaBefore(s[y], s[x])
      BY <1>3, <1>6, <1>7, <2>1
    <2>5. AkaRow(s[x]) /\ AkaRow(s[y])
      BY <1>2
    <2> QED BY <2>1, <2>3, <2>4, <2>5, AkaOrder
  <1> QED BY <1>1, <1>5, <1>6, <1>7

(* f lists, for each region of the rows, its rows in the order of display. *)
AkaList(S, rows, region, list) ==
  /\ list \in Seq(S) /\ Len(list) \in Nat /\ DOMAIN list = 1 .. Len(list)
  /\ \A x : x \in ToSet(list) <=> x \in rows /\ Region(x) = region
  /\ \A i, j \in 1 .. Len(list) : i < j => AkaAhead(list[i], list[j])

AkasOf(S, rows, f) ==
  /\ DOMAIN f = {Region(x) : x \in rows}
  /\ \A region \in DOMAIN f : AkaList(S, rows, region, f[region])

TitleRows(s, t) == {row \in ToSet(s) : row.t = t}

LEMMA TitlePick ==
  ASSUME NEW S, NEW s \in Seq(S), NEW t,
         \A i, j \in 1 .. Len(s) :
           s[i].t = s[j].t /\ s[i].ordering = s[j].ordering => i = j
  PROVE  Numbered(S, OfTitle(s, t)) /\ ToSet(OfTitle(s, t)) = TitleRows(s, t)
  <1> DEFINE P == {i \in DOMAIN s : s[i].t = t}
  <1>1. OfTitle(s, t) = Picked(s, P)
    BY DEF OfTitle
  <1>2. DOMAIN s = 1 .. Len(s) /\ P \in SUBSET (1 .. Len(s))
    OBVIOUS
  <1>3. \A i, j \in P : s[i].ordering = s[j].ordering => i = j
    BY <1>2
  <1>4. \A x : x \in TitleRows(s, t) <=> \E i \in P : x = s[i]
    BY DEF TitleRows, ToSet
  <1> HIDE DEF P
  <1>5. /\ Numbered(S, Picked(s, P))
        /\ \A x : x \in ToSet(Picked(s, P)) <=> \E i \in P : x = s[i]
    BY <1>2, <1>3, NumberedPick
  <1> QED BY <1>1, <1>4, <1>5

(* FetchAkas lists the akas of the title.                                  *)
LEMMA AkasFetched ==
  ASSUME NEW S, NEW e \in Seq(S), NEW t, \A row \in S : AkaRow(row),
         \A i, j \in 1 .. Len(e) :
           e[i].t = e[j].t /\ e[i].ordering = e[j].ordering => i = j
  PROVE  AkasOf(S, TitleRows(e, t), FetchAkas(e, t))
  <1>1. PICK own : /\ own = OfTitle(e, t) /\ Numbered(S, own)
                   /\ ToSet(own) = TitleRows(e, t)
    BY TitlePick
  <1>2. \A row \in S : row.ordering \in Int
    BY DEF AkaRow
  <1>3. PICK r : r = OrderedByOrdering(own) /\ Numbered(S, r) /\ ToSet(r) = ToSet(own)
    BY <1>1, <1>2, OrderedIs
  <1> DEFINE list(region) ==
               StableSort(Picked(r, {i \in DOMAIN r : Region(r[i]) = region}), AkaBefore)
             f == FetchAkas(e, t)
  <1>4. f = [region \in {Region(row) : row \in ToSet(r)} |-> list(region)]
    BY <1>1, <1>3 DEF FetchAkas
  <1>5. ASSUME NEW region
        PROVE  AkaList(S, TitleRows(e, t), region, list(region))
    <2> DEFINE Q == {i \in DOMAIN r : Region(r[i]) = region}
    <2>1. r \in Seq(S) /\ Q \in SUBSET (1 .. Len(r))
      BY <1>3 DEF Numbered
    <2>2. \A i, j \in Q : r[i].ordering = r[j].ordering => i = j
      BY <1>3 DEF Numbered
    <2>3. \A x : (\E i \in Q : x = r[i]) <=> x \in ToSet(r) /\ Region(x) = region
      BY DEF ToSet
    <2>4. list(region) = StableSort(Picked(r, Q), AkaBefore)
      OBVIOUS
    <2> HIDE DEF Q, list
    <2>5. PICK q : /\ q = Picked(r, Q) /\ Numbered(S, q)
                   /\ \A x : x \in ToSet(q) <=> \E i \in Q : x = r[i]
      BY <2>1, <2>2, NumberedPick
    <2>6. PICK u : /\ u = StableSort(q, AkaBefore) /\ Numbered(S, u) /\ ToSet(u) = ToSet(q)
                   /\ \A i, j \in 1 .. Len(u) : i < j => AkaAhead(u[i], u[j])
      BY <2>5, AkasSorted
    <2>7. AkaList(S, TitleRows(e, t), region, u)
      <3>1. \A x : x \in ToSet(u) <=> x \in TitleRows(e, t) /\ Region(x) = region
        BY <1>1, <1>3, <2>3, <2>5, <2>6
      <3> QED BY <2>6, <3>1 DEF AkaList, Numbered
    <2> QED BY <2>4, <2>5, <2>6, <2>7
  <1> HIDE DEF list, f
  <1>6. DOMAIN f = {Region(x) : x \in TitleRows(e, t)}
    BY <1>1, <1>3, <1>4
  <1>7. \A region \in DOMAIN f : f[region] = list(region)
    BY <1>4
  <1>8. AkasOf(S, TitleRows(e, t), f)
    BY <1>5, <1>6, <1>7 DEF AkasOf
  <1> QED BY <1>8 DEF f

(* Whether an aka differs from the title's own names                       *)
Differs(aka, basic) ==
  Key(aka.title) \notin {Key(basic.primary), Key(basic.original)} \ {0}

(* FilterAkas leaves the akas that differ, in their order.                 *)
LEMMA AkasFiltered ==
  ASSUME NEW S, NEW rows, NEW f, AkasOf(S, rows, f), NEW basic
  PROVE  AkasOf(S, {x \in rows : Differs(x, basic)}, FilterAkas(f, basic))
  <1> DEFINE R == {x \in rows : Differs(x, basic)}
             differs(aka) == ~SameTitle(aka.title, basic.primary)
                               /\ ~SameTitle(aka.title, basic.original)
             kept == [region \in DOMAIN f |->
                        Picked(f[region], {i \in DOMAIN f[region] : differs(f[region][i])})]
             g == [region \in {r \in DOMAIN f : kept[r] # << >>} |-> kept[region]]
  <1>1. FilterAkas(f, basic) =
          IF Key(basic.primary) = 0 /\ Key(basic.original) = 0 THEN f ELSE g
    BY DEF FilterAkas
  <1>2. \A aka : differs(aka) <=> Differs(aka, basic)
    BY DEF SameTitle, Differs
  <1> HIDE DEF differs
  <1>3. CASE Key(basic.primary) = 0 /\ Key(basic.original) = 0
    <2>1. R = rows
      BY <1>3 DEF Differs
    <2>2. FilterAkas(f, basic) = f
      BY <1>1, <1>3
    <2> HIDE DEF R
    <2>3. AkasOf(S, R, FilterAkas(f, basic))
      BY <2>1, <2>2
    <2> QED BY <2>3 DEF R
  <1>4. CASE ~(Key(basic.primary) = 0 /\ Key(basic.original) = 0)
    <2>1. ASSUME NEW region \in DOMAIN f
          PROVE  AkaList(S, R, region, kept[region])
      <3> DEFINE list == f[region]
                 Q == {i \in DOMAIN list : differs(list[i])}
      <3>1. /\ list \in Seq(S) /\ DOMAIN list = 1 .. Len(list)
            /\ \A x : x \in ToSet(list) <=> x \in rows /\ Region(x) = region
            /\ \A i, j \in 1 .. Len(list) : i < j => AkaAhead(list[i], list[j])
        BY DEF AkasOf, AkaList
      <3>2. kept[region] = Picked(list, Q)
        OBVIOUS
      <3>3. Q \in SUBSET (1 .. Len(list))
        BY <3>1
      <3>4. \A x : (\E i \in Q : x = list[i]) <=> x \in ToSet(list) /\ Differs(x, basic)
        BY <1>2 DEF ToSet
      <3> HIDE DEF Q, list, kept
      <3>5. PICK q, a : q = Picked(list, Q) /\ PickedFrom(S, list, Q, q, a)
        BY <3>1, <3>3, PickedIs
      <3>6. /\ q \in Seq(S) /\ Len(q) \in Nat /\ DOMAIN q = 1 .. Len(q)
            /\ \A k \in 1 .. Len(q) : a[k] \in Q /\ q[k] = list[a[k]]
            /\ \A i, j \in 1 .. Len(q) : i < j => a[i] < a[j]
            /\ \A x : x \in ToSet(q) <=> \E i \in Q : x = list[i]
        BY <3>5 DEF PickedFrom
      <3>7. ASSUME NEW i \in 1 .. Len(q), NEW j \in 1 .. Len(q), i < j
            PROVE  AkaAhead(q[i], q[j])
        <4>1. PICK x \in Q, y \in Q : x = a[i] /\ y = a[j] /\ q[i] = list[x] /\ q[j] = list[y]
          BY <3>6
        <4>2. x < y
          BY <3>6, <3>7, <4>1
        <4> QED BY <3>1, <3>3, <4>1, <4>2
      <3>8. \A x : x \in ToSet(q) <=> x \in R /\ Region(x) = region
        BY <3>1, <3>4, <3>6
      <3>9. AkaList(S, R, region, q)
        <4> HIDE DEF R
        <4> QED BY <3>6, <3>7, <3>8 DEF AkaList
      <3> QED BY <3>2, <3>5, <3>9
    <2>2. FilterAkas(f, basic) = g
      BY <1>1, <1>4
    <2>3. DOMAIN g = {r \in DOMAIN f : kept[r] # << >>}
          /\ \A region \in DOMAIN g : region \in DOMAIN f /\ g[region] = kept[region]
      <3> HIDE DEF kept
      <3> QED OBVIOUS
    <2>4. \A region : region \in DOMAIN g <=> \E x \in R : Region(x) = region
      <3>1. \A region : region \in DOMAIN f <=> \E x \in rows : Region(x) = region
        BY DEF AkasOf
      <3>2. ASSUME NEW region \in DOMAIN f
            PROVE  kept[region] # << >> <=> \E x \in R : Region(x) = region
        <4>1. PICK q : q = kept[region] /\ AkaList(S, R, region, q)
          BY <2>1
        <4>2. /\ q \in Seq(S) /\ DOMAIN q = 1 .. Len(q) /\ Len(q) \in Nat
              /\ \A x : x \in ToSet(q) <=> x \in R /\ Region(x) = region
          BY <4>1 DEF AkaList
        <4>3. q # << >> <=> \E x : x \in ToSet(q)
          <5>1. CASE q = << >>
            BY <5>1 DEF ToSet
          <5>2. CASE q # << >>
            <6>1. 1 \in DOMAIN q
              BY <4>2, <5>2
            <6> QED BY <5>2, <6>1 DEF ToSet
          <5> QED BY <5>1, <5>2
        <4> HIDE DEF R, kept
        <4> QED BY <4>1, <4>2, <4>3
      <3> HIDE DEF kept, g
      <3> QED BY <2>3, <3>1, <3>2
    <2> HIDE DEF kept, g, R
    <2>5. DOMAIN g = {Region(x) : x \in R}
      BY <2>4
    <2>6. AkasOf(S, R, g)
      BY <2>1, <2>3, <2>5 DEF AkasOf
    <2> QED BY <2>2, <2>6 DEF R
  <1> QED BY <1>3, <1>4

---------------------------------------------------------------------------
(* Sequences one after the other *)

(* f has what the first sequences come to.                                 *)
Concatenates(T, n, seqs, f) ==
  /\ f \in [0 .. n -> Seq(T)] /\ f[0] = << >>
  /\ \A i \in 1 .. n : f[i] = f[i - 1] \o seqs[i]

LEMMA Concatenation ==
  ASSUME NEW T, NEW n \in Nat, NEW seqs \in [1 .. n -> Seq(T)]
  PROVE  \E f : Concatenates(T, n, seqs, f)
  <1> DEFINE Bad == {k \in 0 .. n : ~\E f : Concatenates(T, k, seqs, f)}
  <1>1. SUFFICES ASSUME Bad # {} PROVE FALSE
    <2>1. n \in 0 .. n
      OBVIOUS
    <2>2. n \notin Bad => \E f : Concatenates(T, n, seqs, f)
      BY <2>1
    <2> HIDE DEF Bad
    <2> QED BY <2>2
  <1>2. Bad \in SUBSET Nat
    OBVIOUS
  <1>3. PICK k \in Bad : \A l \in Bad : k <= l
    <2> HIDE DEF Bad
    <2> QED BY <1>1, <1>2, HasLeast
  <1>4. k \in 0 .. n /\ ~\E f : Concatenates(T, k, seqs, f)
    OBVIOUS
  <1>5. CASE k = 0
    <2> DEFINE f == [i \in 0 .. 0 |-> << >>]
    <2>1. << >> \in Seq(T)
      OBVIOUS
    <2>2. f \in [0 .. 0 -> Seq(T)] /\ f[0] = << >>
      BY <2>1
    <2>3. \A i \in 1 .. 0 : FALSE
      OBVIOUS
    <2> HIDE DEF f
    <2>4. Concatenates(T, 0, seqs, f)
      BY <2>2, <2>3 DEF Concatenates
    <2> QED BY <1>4, <1>5, <2>4
  <1>6. CASE k # 0
    <2>1. k - 1 \in 0 .. n /\ k - 1 \notin Bad /\ k \in 1 .. n
      <3>1. k \in 1 .. n /\ k - 1 \in 0 .. n /\ ~(k <= k - 1)
        BY <1>4, <1>6
      <3> HIDE DEF Bad
      <3> QED BY <1>3, <3>1
    <2>2. PICK f : Concatenates(T, k - 1, seqs, f)
      BY <2>1
    <2>3. /\ f \in [0 .. k - 1 -> Seq(T)] /\ f[0] = << >>
          /\ \A i \in 1 .. k - 1 : f[i] = f[i - 1] \o seqs[i]
      BY <2>2 DEF Concatenates
    <2> DEFINE g == [i \in 0 .. k |-> IF i = k THEN f[k - 1] \o seqs[k] ELSE f[i]]
    <2>4. f[k - 1] \o seqs[k] \in Seq(T)
      <3>1. f[k - 1] \in Seq(T) /\ seqs[k] \in Seq(T)
        BY <2>1, <2>3
      <3> QED BY <3>1
    <2>5. \A i \in 0 .. k - 1 : i \in 0 .. k /\ i # k /\ f[i] \in Seq(T)
      BY <2>1, <2>3
    <2>6. \A i \in 0 .. k : i = k \/ i \in 0 .. k - 1
      BY <2>1
    <2>7. g \in [0 .. k -> Seq(T)] /\ g[k] = f[k - 1] \o seqs[k]
          /\ \A i \in 0 .. k - 1 : g[i] = f[i]
      BY <2>1, <2>4, <2>5, <2>6
    <2> HIDE DEF g
    <2>8. ASSUME NEW i \in 1 .. k
          PROVE  g[i] = g[i - 1] \o seqs[i]
      <3>1. i - 1 \in 0 .. k - 1
        BY <2>1
      <3>2. CASE i = k
        BY <2>7, <3>1, <3>2
      <3>3. CASE i # k
        <4>1. i \in 1 .. k - 1 /\ i \in 0 .. k - 1
          BY <2>1, <3>3
        <4> QED BY <2>3, <2>7, <3>1, <4>1
      <3> QED BY <3>2, <3>3
    <2>9. g[0] = << >>
      <3>1. 0 \in 0 .. k - 1
        BY <2>1
      <3> QED BY <2>3, <2>7, <3>1
    <2>10. Concatenates(T, k, seqs, g)
      BY <2>7, <2>8, <2>9 DEF Concatenates
    <2> QED BY <1>4, <2>10
  <1> QED BY <1>5, <1>6

LEMMA FlattenIs ==
  ASSUME NEW T, NEW n \in Nat, NEW seqs \in [1 .. n -> Seq(T)], NEW f,
         Concatenates(T, n, seqs, f)
  PROVE  FlattenSeq(seqs) = f[n] /\ f[n] \in Seq(T)
  <1>1. /\ f \in [0 .. n -> Seq(T)] /\ f[0] = << >>
        /\ \A i \in 1 .. n : f[i] = f[i - 1] \o seqs[i]
    BY DEF Concatenates
  <1>2. Len(seqs) = n /\ n \in 0 .. n /\ seqs \in Seq(Seq(T))
    OBVIOUS
  <1>3. f[n] \in Seq(T)
    BY <1>1, <1>2
  <1>0. ASSUME n # 0
        PROVE  f[1] = seqs[1]
    <2>1. 1 \in 1 .. n
      BY <1>0
    <2>2. f[1] = f[0] \o seqs[1]
      <3>1. PICK i \in 1 .. n : i = 1
        BY <2>1
      <3>2. \A j \in 1 .. n : f[j] = f[j - 1] \o seqs[j]
        BY DEF Concatenates
      <3>3. f[i] = f[i - 1] \o seqs[i]
        BY ONLY <3>2, i \in 1 .. n
      <3>4. i - 1 = 0
        BY <3>1
      <3> QED BY <3>1, <3>3, <3>4
    <2>3. f[1] = << >> \o seqs[1] /\ seqs[1] \in Seq(T)
      BY <1>1, <2>1, <2>2
    <2>4. << >> \o seqs[1] = seqs[1]
      BY <2>3
    <2> QED BY <2>3, <2>4
  <1>4. CASE n = 0
    <2>1. FlattenSeq(seqs) = seqs
      BY <1>2, <1>4 DEF FlattenSeq
    <2>2. seqs = << >>
      BY <1>2, <1>4
    <2> QED BY <1>1, <1>3, <1>4, <2>1, <2>2
  <1>5. CASE n # 0
    <2> DEFINE Step(h) == [i \in 1 .. Len(seqs) |->
                             IF i = 1 THEN seqs[i] ELSE h[i - 1] \o seqs[i]]
               flatten == CHOOSE h : h = Step(h)
               h0 == [i \in 1 .. n |-> f[i]]
    <2>1. FlattenSeq(seqs) = flatten[n]
      BY <1>2, <1>5 DEF FlattenSeq
    <2>2. h0 = Step(h0)
      <3>1. ASSUME NEW i \in 1 .. n
            PROVE  f[i] = IF i = 1 THEN seqs[i] ELSE h0[i - 1] \o seqs[i]
        <4>1. CASE i = 1
          BY <1>0, <1>5, <4>1
        <4>2. CASE i # 1
          <5>1. i - 1 \in 1 .. n
            BY <4>2
          <5> QED BY <1>1, <4>2, <5>1
        <4> QED BY <4>1, <4>2
      <3> QED BY <1>2, <3>1
    <2> HIDE DEF h0
    <2>3. flatten = Step(flatten)
      <3> HIDE DEF Step
      <3> QED BY <2>2
    <2>4. PICK g : g = flatten
      OBVIOUS
    <2>5. g = [i \in 1 .. n |-> IF i = 1 THEN seqs[i] ELSE g[i - 1] \o seqs[i]]
      <3> HIDE DEF flatten
      <3> QED BY <1>2, <2>3, <2>4
    <2> DEFINE Bad == {i \in 1 .. n : g[i] # f[i]}
    <2>6. Bad = {}
      <3>1. SUFFICES ASSUME Bad # {} PROVE FALSE
        OBVIOUS
      <3>2. Bad \in SUBSET Nat
        OBVIOUS
      <3>3. PICK i \in Bad : \A j \in Bad : i <= j
        <4> HIDE DEF Bad
        <4> QED BY <3>1, <3>2, HasLeast
      <3>4. i \in 1 .. n /\ g[i] # f[i]
        OBVIOUS
      <3>5. CASE i = 1
        <4>1. g[1] = seqs[1]
          BY <2>5, <3>4, <3>5
        <4> QED BY <1>0, <1>5, <3>4, <3>5, <4>1
      <3>6. CASE i # 1
        <4>1. i - 1 \in 1 .. n /\ i - 1 \notin Bad
          BY <3>3, <3>4, <3>6
        <4>2. g[i - 1] = f[i - 1]
          BY <4>1
        <4>3. g[i] = g[i - 1] \o seqs[i]
          BY <2>5, <3>4, <3>6
        <4> QED BY <1>1, <3>4, <4>2, <4>3
      <3> QED BY <3>5, <3>6
    <2>7. g[n] = f[n]
      <3>1. n \in 1 .. n
        BY <1>5
      <3> QED BY <2>6, <3>1
    <2> QED BY <1>3, <2>1, <2>4, <2>7
  <1> QED BY <1>4, <1>5

LEMMA FlattenEmpty == FlattenSeq(<< >>) = << >>
  BY DEF FlattenSeq

LEMMA FlattenAppend ==
  ASSUME NEW T, NEW n \in Nat, NEW seqs \in [1 .. n + 1 -> Seq(T)]
  PROVE  /\ FlattenSeq([i \in 1 .. n |-> seqs[i]]) \in Seq(T)
         /\ FlattenSeq(seqs) = FlattenSeq([i \in 1 .. n |-> seqs[i]]) \o seqs[n + 1]
         /\ FlattenSeq(seqs) \in Seq(T)
  <1>1. PICK f : Concatenates(T, n + 1, seqs, f)
    BY Concatenation
  <1>2. FlattenSeq(seqs) = f[n + 1] /\ f[n + 1] \in Seq(T)
    BY <1>1, FlattenIs
  <1>3. /\ f \in [0 .. n + 1 -> Seq(T)] /\ f[0] = << >>
        /\ \A i \in 1 .. n + 1 : f[i] = f[i - 1] \o seqs[i]
    BY <1>1 DEF Concatenates
  <1> DEFINE first == [i \in 1 .. n |-> seqs[i]]
             g == [i \in 0 .. n |-> f[i]]
  <1>4. first \in [1 .. n -> Seq(T)] /\ \A i \in 1 .. n : first[i] = seqs[i]
    OBVIOUS
  <1>5. g \in [0 .. n -> Seq(T)] /\ \A i \in 0 .. n : g[i] = f[i]
    BY <1>3
  <1> HIDE DEF first, g
  <1>6. g[0] = << >>
    BY <1>3, <1>5
  <1>7. ASSUME NEW i \in 1 .. n
        PROVE  g[i] = g[i - 1] \o first[i]
    <2>1. i \in 1 .. n + 1 /\ i \in 0 .. n /\ i - 1 \in 0 .. n
      OBVIOUS
    <2> QED BY <1>3, <1>4, <1>5, <2>1
  <1>8. Concatenates(T, n, first, g)
    BY <1>5, <1>6, <1>7 DEF Concatenates
  <1>9. FlattenSeq(first) = g[n] /\ g[n] \in Seq(T)
    BY <1>4, <1>8, FlattenIs
  <1>10. n + 1 \in 1 .. n + 1 /\ (n + 1) - 1 = n /\ n \in 0 .. n
    OBVIOUS
  <1> QED BY <1>2, <1>3, <1>5, <1>9, <1>10 DEF first

(* Sequences of a sequence: all of their elements, in order                *)
LEMMA FlattenType ==
  ASSUME NEW T, NEW seqs \in Seq(Seq(T))
  PROVE  FlattenSeq(seqs) \in Seq(T)
  <1>1. PICK n \in Nat : n = Len(seqs)
    OBVIOUS
  <1>2. seqs \in [1 .. n -> Seq(T)]
    BY <1>1
  <1>3. PICK f : Concatenates(T, n, seqs, f)
    BY <1>2, Concatenation
  <1> QED BY <1>2, <1>3, FlattenIs

---------------------------------------------------------------------------
(* Names without those that repeat an earlier one *)

Spelled(s) ==
  {i \in DOMAIN s : Key(s[i]) # 0 /\ \A j \in 1 .. i - 1 : Key(s[j]) # Key(s[i])}
Distinct(s) == Picked(s, Spelled(s))
KeysOf(s) == {Key(x) : x \in ToSet(s)}

LEMMA AppendIs ==
  ASSUME NEW T, NEW s \in Seq(T), NEW x \in T
  PROVE  /\ Append(s, x) \in Seq(T) /\ Len(Append(s, x)) = Len(s) + 1 /\ Len(s) \in Nat
         /\ DOMAIN Append(s, x) = 1 .. Len(s) + 1
         /\ Append(s, x) = [k \in 1 .. Len(s) + 1 |-> Append(s, x)[k]]
         /\ Append(s, x)[Len(s) + 1] = x
         /\ \A k \in 1 .. Len(s) : Append(s, x)[k] = s[k]
  <1>1. PICK w : w = Append(s, x)
    OBVIOUS
  <1>2. /\ w \in Seq(T) /\ Len(w) = Len(s) + 1 /\ Len(s) \in Nat
        /\ w[Len(s) + 1] = x
        /\ \A k \in 1 .. Len(s) : w[k] = s[k]
    BY <1>1
  <1>3. DOMAIN w = 1 .. Len(s) + 1
    BY <1>2
  <1>4. w = [k \in DOMAIN w |-> w[k]]
    BY <1>2
  <1>5. w = [k \in 1 .. Len(s) + 1 |-> w[k]]
    BY <1>3, <1>4
  <1> QED BY <1>1, <1>2, <1>3, <1>5

(* One more place, after the others *)
LEMMA PickedNext ==
  ASSUME NEW T, NEW s \in Seq(T), NEW k \in 1 .. Len(s), NEW P \in SUBSET (1 .. k - 1)
  PROVE  Picked(s, P \cup {k}) = Append(Picked(s, P), s[k])
  <1>1. k \in Nat /\ Len(s) \in Nat /\ P \in SUBSET (1 .. Len(s)) /\ s[k] \in T
    OBVIOUS
  <1>2. PICK r, a : r = Picked(s, P) /\ PickedFrom(T, s, P, r, a)
    BY <1>1, PickedIs
  <1>3. /\ r \in Seq(T) /\ Len(r) \in Nat /\ DOMAIN r = 1 .. Len(r)
        /\ Len(r) = Cardinality(P) /\ a = Ascending(P)
        /\ \A i \in 1 .. Len(r) : a[i] \in P /\ r[i] = s[a[i]]
    BY <1>2 DEF PickedFrom
  <1>4. /\ P \in SUBSET Nat /\ IsFiniteSet(P) /\ \A p \in P : p < k
    BY <1>1, PickedType
  <1>5. /\ Cardinality(P \cup {k}) = Len(r) + 1
        /\ \A i \in 1 .. Len(r) : Ascending(P \cup {k})[i] = a[i]
        /\ Ascending(P \cup {k})[Len(r) + 1] = k
    <2>1. /\ Cardinality(P \cup {k}) = Cardinality(P) + 1
          /\ \A i \in 1 .. Cardinality(P) : Ascending(P \cup {k})[i] = Ascending(P)[i]
          /\ Ascending(P \cup {k})[Cardinality(P) + 1] = k
      BY <1>1, <1>4, AscendingAppend
    <2> QED BY <1>3, <2>1
  <1>6. PICK Q, q : Q = P \cup {k} /\ q = Picked(s, Q)
    OBVIOUS
  <1>7. q = [i \in 1 .. Len(r) + 1 |-> s[Ascending(Q)[i]]]
    BY <1>5, <1>6 DEF Picked
  <1>8. q[Len(r) + 1] = s[k]
    <2>1. Len(r) + 1 \in 1 .. Len(r) + 1
      BY <1>3
    <2> QED BY <1>5, <1>6, <1>7, <2>1
  <1>9. \A i \in 1 .. Len(r) : q[i] = r[i]
    <2> SUFFICES ASSUME NEW i \in 1 .. Len(r) PROVE q[i] = r[i]
      OBVIOUS
    <2>1. i \in 1 .. Len(r) + 1
      BY <1>3
    <2>2. q[i] = s[Ascending(Q)[i]]
      BY <1>7, <2>1
    <2>3. Ascending(Q)[i] = a[i]
      BY <1>5, <1>6
    <2> QED BY <1>3, <2>2, <2>3
  <1>10. PICK w : w = Append(r, s[k])
    OBVIOUS
  <1>11. /\ w = [i \in 1 .. Len(r) + 1 |-> w[i]] /\ w[Len(r) + 1] = s[k]
         /\ \A i \in 1 .. Len(r) : w[i] = r[i]
    BY <1>1, <1>3, <1>10, AppendIs
  <1>12. \A i \in 1 .. Len(r) + 1 : q[i] = w[i]
    <2>1. \A i \in 1 .. Len(r) + 1 : i \in 1 .. Len(r) \/ i = Len(r) + 1
      BY <1>3
    <2> QED BY <1>8, <1>9, <1>11, <2>1
  <1>13. q = [i \in 1 .. Len(r) + 1 |-> q[i]]
    BY <1>7
  <1>14. q = w
    BY <1>11, <1>12, <1>13
  <1> QED BY <1>2, <1>6, <1>10, <1>14

LEMMA PickedAppend ==
  ASSUME NEW T, NEW s \in Seq(T), NEW x \in T, NEW P \in SUBSET (1 .. Len(s))
  PROVE  /\ Picked(Append(s, x), P) = Picked(s, P)
         /\ Picked(Append(s, x), P \cup {Len(s) + 1}) = Append(Picked(s, P), x)
         /\ Picked(s, P) \in Seq(T)
  <1> DEFINE n == Len(s)
             u == Append(s, x)
  <1>1. /\ n \in Nat /\ u \in Seq(T) /\ Len(u) = n + 1 /\ u[n + 1] = x
        /\ \A i \in 1 .. n : u[i] = s[i]
    OBVIOUS
  <1>2. PICK r, a : r = Picked(s, P) /\ PickedFrom(T, s, P, r, a)
    BY PickedIs
  <1>3. /\ r \in Seq(T) /\ DOMAIN r = 1 .. Len(r)
        /\ Len(r) = Cardinality(P) /\ a = Ascending(P)
        /\ \A k \in 1 .. Len(r) : a[k] \in P /\ r[k] = s[a[k]]
    BY <1>2 DEF PickedFrom
  <1>4. \A k \in 1 .. Len(r) : r[k] = u[a[k]]
    BY <1>1, <1>3
  <1> HIDE DEF u, n
  <1>5. Picked(u, P) = r
    <2>1. Picked(u, P) = [k \in 1 .. Len(r) |-> u[a[k]]]
      BY <1>3 DEF Picked
    <2>2. r = [k \in 1 .. Len(r) |-> r[k]]
      BY <1>3
    <2> QED BY <1>4, <2>1, <2>2
  <1>6. Picked(u, P \cup {n + 1}) = Append(Picked(u, P), u[n + 1])
    <2>1. n + 1 \in 1 .. Len(u) /\ P \in SUBSET (1 .. (n + 1) - 1)
      BY <1>1 DEF n
    <2> QED BY <1>1, <2>1, PickedNext
  <1> QED BY <1>1, <1>2, <1>3, <1>5, <1>6 DEF u, n

LEMMA DistinctEmpty == Distinct(<< >>) = << >>
  <1>1. << >> \in Seq({}) /\ Len(<< >>) = 0
    OBVIOUS
  <1>2. Spelled(<< >>) \in SUBSET (1 .. Len(<< >>))
    BY DEF Spelled
  <1>3. PICK e : e = << >>
    OBVIOUS
  <1>4. PICK P \in SUBSET (1 .. Len(e)) : P = Spelled(e)
    BY <1>2, <1>3
  <1>5. e \in Seq({})
    BY <1>1, <1>3
  <1>6. Picked(e, P) \in Seq({})
    BY <1>4, <1>5, PickedType
  <1>7. Picked(e, P) = << >>
    BY <1>6
  <1> QED BY <1>3, <1>4, <1>7 DEF Distinct

LEMMA DistinctAppend ==
  ASSUME NEW T, NEW s \in Seq(T), NEW x \in T
  PROVE  /\ Distinct(s) \in Seq(T)
         /\ Key(x) \in {0} \cup KeysOf(s) => Distinct(Append(s, x)) = Distinct(s)
         /\ Key(x) \notin {0} \cup KeysOf(s) =>
              Distinct(Append(s, x)) = Append(Distinct(s), x)
  <1> DEFINE n == Len(s)
             u == Append(s, x)
             P == Spelled(s)
  <1>1. /\ n \in Nat /\ DOMAIN s = 1 .. n /\ DOMAIN u = 1 .. n + 1 /\ u[n + 1] = x
        /\ \A i \in 1 .. n : u[i] = s[i]
    OBVIOUS
  <1>2. P \in SUBSET (1 .. Len(s))
    BY DEF Spelled
  <1>3. \A i \in 1 .. n : \A j \in 1 .. i - 1 : j \in 1 .. n
    BY <1>1
  <1> HIDE DEF n, u
  <1>4. \A i \in 1 .. n : i \in Spelled(u) <=> i \in P
    <2>1. \A i \in 1 .. n : i \in 1 .. n + 1
      BY <1>1
    <2>2. ASSUME NEW i \in 1 .. n
          PROVE  (\A j \in 1 .. i - 1 : Key(u[j]) # Key(u[i]))
                   <=> (\A j \in 1 .. i - 1 : Key(s[j]) # Key(s[i]))
      BY <1>1, <1>3
    <2> QED BY <1>1, <2>1, <2>2 DEF Spelled
  <1>5. n + 1 \in Spelled(u) <=> Key(x) \notin {0} \cup KeysOf(s)
    <2>1. n + 1 \in 1 .. n + 1 /\ (n + 1) - 1 = n
      BY <1>1
    <2>2. n + 1 \in Spelled(u) <=> Key(x) # 0 /\ \A j \in 1 .. n : Key(s[j]) # Key(x)
      <3>1. n + 1 \in Spelled(u) <=>
              Key(u[n + 1]) # 0 /\ \A j \in 1 .. (n + 1) - 1 : Key(u[j]) # Key(u[n + 1])
        BY <1>1, <2>1 DEF Spelled
      <3> QED BY <1>1, <2>1, <3>1
    <2>3. Key(x) \in KeysOf(s) <=> \E j \in 1 .. n : Key(s[j]) = Key(x)
      BY <1>1 DEF KeysOf, ToSet
    <2> QED BY <2>2, <2>3
  <1>6. \A i \in Spelled(u) : i \in 1 .. n \/ i = n + 1
    <2>1. \A i \in 1 .. n + 1 : i \in 1 .. n \/ i = n + 1
      BY <1>1
    <2> QED BY <1>1, <2>1 DEF Spelled
  <1>7. P \in SUBSET (1 .. n)
    BY <1>2 DEF n
  <1> HIDE DEF P
  <1>8. /\ Picked(u, P) = Picked(s, P)
        /\ Picked(u, P \cup {n + 1}) = Append(Picked(s, P), x)
        /\ Picked(s, P) \in Seq(T)
    BY <1>2, PickedAppend DEF u, n
  <1>9. ASSUME Key(x) \in {0} \cup KeysOf(s)
        PROVE  Distinct(u) = Distinct(s)
    <2>1. Spelled(u) = P
      BY <1>4, <1>5, <1>6, <1>7, <1>9
    <2> QED BY <1>8, <2>1 DEF Distinct, P
  <1>10. ASSUME Key(x) \notin {0} \cup KeysOf(s)
         PROVE  Distinct(u) = Append(Distinct(s), x)
    <2>1. Spelled(u) = P \cup {n + 1}
      BY <1>4, <1>5, <1>6, <1>7, <1>10
    <2> QED BY <1>8, <2>1 DEF Distinct, P
  <1> QED BY <1>8, <1>9, <1>10 DEF Distinct, P, u

(* What is left has the same keys, except the one of no name, each once.   *)
LEMMA DistinctKeys ==
  ASSUME NEW T, NEW s \in Seq(T)
  PROVE  /\ Distinct(s) \in Seq(T)
         /\ KeysOf(Distinct(s)) = KeysOf(s) \ {0}
         /\ Distinct(Distinct(s)) = Distinct(s)
  <1> DEFINE P == Spelled(s)
  <1>1. Len(s) \in Nat /\ DOMAIN s = 1 .. Len(s) /\ P \in SUBSET (1 .. Len(s))
    BY DEF Spelled
  <1>2. PICK r, a : r = Picked(s, P) /\ PickedFrom(T, s, P, r, a)
    <2> HIDE DEF P
    <2> QED BY <1>1, PickedIs
  <1>3. /\ r \in Seq(T) /\ Len(r) \in Nat /\ DOMAIN r = 1 .. Len(r)
        /\ \A k \in 1 .. Len(r) : a[k] \in P /\ r[k] = s[a[k]]
        /\ \A i, j \in 1 .. Len(r) : i < j => a[i] < a[j]
        /\ \A x : x \in ToSet(r) <=> \E i \in P : x = s[i]
    BY <1>2 DEF PickedFrom
  <1>4. \A i \in P : Key(s[i]) # 0 /\ \A j \in 1 .. i - 1 : Key(s[j]) # Key(s[i])
    BY DEF Spelled
  <1>5. ASSUME NEW k, k # 0
        PROVE  k \in KeysOf(r) <=> k \in KeysOf(s)
    <2>1. k \in KeysOf(r) <=> \E i \in P : k = Key(s[i])
      BY <1>3 DEF KeysOf
    <2>2. k \in KeysOf(s) <=> \E i \in 1 .. Len(s) : k = Key(s[i])
      BY <1>1 DEF KeysOf, ToSet
    <2>3. ASSUME NEW i \in 1 .. Len(s), k = Key(s[i])
          PROVE  \E j \in P : k = Key(s[j])
      <3> DEFINE E == {j \in 1 .. Len(s) : Key(s[j]) = k}
      <3>1. E \in SUBSET Nat /\ E # {}
        BY <2>3
      <3>2. PICK j \in E : \A l \in E : j <= l
        <4> HIDE DEF E
        <4> QED BY <3>1, HasLeast
      <3>3. j \in 1 .. Len(s) /\ Key(s[j]) = k
        OBVIOUS
      <3>4. ASSUME NEW l \in 1 .. j - 1 PROVE Key(s[l]) # Key(s[j])
        <4>1. l \in 1 .. Len(s) /\ ~(j <= l)
          BY <1>1, <3>3
        <4> QED BY <3>2, <3>3, <4>1
      <3>5. j \in P
        BY <1>1, <1>5, <3>3, <3>4 DEF Spelled
      <3> QED BY <3>3, <3>5
    <2> QED BY <1>1, <2>1, <2>2, <2>3
  <1>6. 0 \notin KeysOf(r)
    BY <1>3, <1>4 DEF KeysOf
  <1>7. KeysOf(r) = KeysOf(s) \ {0}
    BY <1>5, <1>6
  <1>8. Spelled(r) = 1 .. Len(r)
    <2> SUFFICES ASSUME NEW i \in 1 .. Len(r) PROVE i \in Spelled(r)
      BY <1>3 DEF Spelled
    <2>1. a[i] \in P /\ r[i] = s[a[i]]
      BY <1>3
    <2>2. Key(r[i]) # 0
      BY <1>4, <2>1
    <2>3. ASSUME NEW j \in 1 .. i - 1 PROVE Key(r[j]) # Key(r[i])
      <3>1. j \in 1 .. Len(r) /\ j < i
        BY <1>3
      <3>2. PICK x \in P, y \in P : x = a[i] /\ y = a[j] /\ y < x /\ r[i] = s[x] /\ r[j] = s[y]
        BY <1>3, <3>1
      <3>3. y \in 1 .. x - 1
        BY <1>1, <3>2
      <3> QED BY <1>4, <3>2, <3>3
    <2> QED BY <1>3, <2>2, <2>3 DEF Spelled
  <1>9. Distinct(r) = r
    BY <1>3, <1>8, PickedEvery DEF Distinct
  <1> QED BY <1>2, <1>3, <1>7, <1>9 DEF Distinct

(* The first k elements *)
First(s, k) == [i \in 1 .. k |-> s[i]]

LEMMA FirstIs ==
  ASSUME NEW T, NEW s \in Seq(T), NEW k \in 0 .. Len(s)
  PROVE  /\ First(s, k) \in Seq(T) /\ Len(First(s, k)) = k
         /\ First(s, 0) = << >> /\ First(s, Len(s)) = s
         /\ k # 0 => /\ k - 1 \in 0 .. Len(s) /\ s[k] \in T
                     /\ First(s, k) = Append(First(s, k - 1), s[k])
  <1>1. Len(s) \in Nat /\ k \in Nat /\ DOMAIN s = 1 .. Len(s)
    OBVIOUS
  <1>2. \A i \in 1 .. Len(s) : s[i] \in T
    OBVIOUS
  <1>3. ASSUME NEW l \in 0 .. Len(s)
        PROVE  First(s, l) \in Seq(T) /\ Len(First(s, l)) = l
    <2>1. \A i \in 1 .. l : s[i] \in T
      BY <1>1, <1>2
    <2>2. PICK f : f = First(s, l)
      OBVIOUS
    <2>3. f \in [1 .. l -> T]
      BY <2>1, <2>2 DEF First
    <2> QED BY <2>2, <2>3
  <1>4. First(s, 0) = << >> /\ First(s, Len(s)) = s
    <2>1. First(s, 0) = << >>
      BY DEF First
    <2>2. s = [i \in 1 .. Len(s) |-> s[i]]
      BY <1>1
    <2> QED BY <2>1, <2>2 DEF First
  <1>5. ASSUME k # 0
        PROVE  /\ k - 1 \in 0 .. Len(s) /\ s[k] \in T
               /\ First(s, k) = Append(First(s, k - 1), s[k])
    <2>1. k - 1 \in 0 .. Len(s) /\ k \in 1 .. Len(s) /\ s[k] \in T
      BY <1>1, <1>2, <1>5
    <2>2. PICK f : f = First(s, k - 1)
      OBVIOUS
    <2>3. f \in Seq(T) /\ Len(f) = k - 1
      BY <1>3, <2>1, <2>2
    <2>4. \A i \in 1 .. k - 1 : f[i] = s[i]
      BY <2>2 DEF First
    <2>5. PICK g : g = Append(f, s[k])
      OBVIOUS
    <2>6. /\ g \in Seq(T) /\ Len(g) = k /\ g[k] = s[k]
          /\ \A i \in 1 .. k - 1 : g[i] = s[i]
      <3>1. /\ g \in Seq(T) /\ Len(g) = (k - 1) + 1 /\ g[(k - 1) + 1] = s[k]
            /\ \A i \in 1 .. k - 1 : g[i] = f[i]
        BY <2>1, <2>3, <2>5, AppendIs
      <3>2. (k - 1) + 1 = k
        BY <1>1
      <3> QED BY <2>4, <3>1, <3>2
    <2>7. \A i \in 1 .. k : g[i] = s[i]
      <3>1. \A i \in 1 .. k : i = k \/ i \in 1 .. k - 1
        BY <1>1
      <3> QED BY <2>6, <3>1
    <2>8. g = [i \in 1 .. k |-> s[i]]
      <3>1. DOMAIN g = 1 .. k /\ g = [i \in DOMAIN g |-> g[i]]
        BY <2>6
      <3> QED BY <2>7, <3>1
    <2> QED BY <2>1, <2>2, <2>5, <2>8 DEF First
  <1> QED BY <1>3, <1>4, <1>5

(* DedupeCharacters keeps the first spelling of every name.                *)
LEMMA DedupeIs ==
  ASSUME NEW T, NEW s \in Seq(T)
  PROVE  DedupeCharacters(s) = Distinct(s)
  <1> DEFINE n == Len(s)
             Step(h) == [k \in 0 .. Len(s) |->
                           IF k = 0 THEN << >>
                           ELSE IF Key(s[k]) \in {0} \cup {Key(o) : o \in ToSet(h[k - 1])}
                                THEN h[k - 1]
                                ELSE Append(h[k - 1], s[k])]
             out == CHOOSE h : h = Step(h)
             d == [k \in 0 .. n |-> Distinct(First(s, k))]
  <1>1. n \in Nat
    OBVIOUS
  <1>2. DedupeCharacters(s) = out[n]
    BY DEF DedupeCharacters
  <1>3. d[0] = << >> /\ d[n] = Distinct(s)
    <2>1. 0 \in 0 .. n /\ n \in 0 .. n
      BY <1>1
    <2>2. First(s, 0) = << >> /\ First(s, n) = s
      BY <2>1, FirstIs
    <2> QED BY <2>1, <2>2, DistinctEmpty
  <1>4. ASSUME NEW k \in 1 .. n
        PROVE  /\ k - 1 \in 0 .. n
               /\ d[k] = IF Key(s[k]) \in {0} \cup {Key(o) : o \in ToSet(d[k - 1])}
                         THEN d[k - 1] ELSE Append(d[k - 1], s[k])
    <2>1. k \in 0 .. n /\ k # 0 /\ k - 1 \in 0 .. n
      BY <1>1
    <2>2. PICK p, x : p = First(s, k - 1) /\ x = s[k]
      OBVIOUS
    <2>3. p \in Seq(T) /\ x \in T /\ First(s, k) = Append(p, x)
      <3>1. First(s, k - 1) \in Seq(T)
        BY <2>1, FirstIs
      <3>2. s[k] \in T /\ First(s, k) = Append(First(s, k - 1), s[k])
        BY <2>1, FirstIs
      <3> QED BY <2>2, <3>1, <3>2
    <2>4. d[k] = Distinct(Append(p, x)) /\ d[k - 1] = Distinct(p)
      BY <2>1, <2>2, <2>3
    <2> HIDE DEF d
    <2>5. {Key(o) : o \in ToSet(d[k - 1])} = KeysOf(p) \ {0}
      BY <2>3, <2>4, DistinctKeys DEF KeysOf
    <2>6. Key(x) \in {0} \cup {Key(o) : o \in ToSet(d[k - 1])}
            <=> Key(x) \in {0} \cup KeysOf(p)
      BY <2>5
    <2>7. CASE Key(x) \in {0} \cup KeysOf(p)
      <3>1. d[k] = d[k - 1]
        BY <2>3, <2>4, <2>7, DistinctAppend
      <3> QED BY <2>1, <2>2, <2>6, <2>7, <3>1
    <2>8. CASE Key(x) \notin {0} \cup KeysOf(p)
      <3>1. d[k] = Append(d[k - 1], x)
        BY <2>3, <2>4, <2>8, DistinctAppend
      <3> QED BY <2>1, <2>2, <2>6, <2>8, <3>1
    <2> QED BY <2>7, <2>8
  <1>5. d = Step(d)
    <2>1. d = [k \in 0 .. n |-> d[k]]
      OBVIOUS
    <2>2. \A k \in 0 .. n : k = 0 \/ k \in 1 .. n
      BY <1>1
    <2> HIDE DEF d
    <2>3. \A k \in 0 .. n :
            d[k] = IF k = 0 THEN << >>
                   ELSE IF Key(s[k]) \in {0} \cup {Key(o) : o \in ToSet(d[k - 1])}
                        THEN d[k - 1] ELSE Append(d[k - 1], s[k])
      BY <1>3, <1>4, <2>2
    <2> QED BY <2>1, <2>3
  <1> HIDE DEF d
  <1>6. out = Step(out)
    <2> HIDE DEF Step
    <2> QED BY <1>5
  <1>7. PICK g : g = out
    OBVIOUS
  <1>8. g = Step(g)
    <2> HIDE DEF out, Step
    <2> QED BY <1>6, <1>7
  <1>9. /\ g[0] = << >>
        /\ \A k \in 1 .. n : g[k] = IF Key(s[k]) \in {0} \cup {Key(o) : o \in ToSet(g[k - 1])}
                                    THEN g[k - 1] ELSE Append(g[k - 1], s[k])
    <2>1. 0 \in 0 .. n /\ \A k \in 1 .. n : k \in 0 .. n /\ k # 0
      BY <1>1
    <2> QED BY <1>8, <2>1
  <1> HIDE DEF out, Step
  <1> DEFINE Bad == {k \in 0 .. n : g[k] # d[k]}
  <1>10. Bad = {}
    <2>1. SUFFICES ASSUME Bad # {} PROVE FALSE
      OBVIOUS
    <2>2. Bad \in SUBSET Nat
      BY <1>1
    <2>3. PICK k \in Bad : \A l \in Bad : k <= l
      <3> HIDE DEF Bad
      <3> QED BY <2>1, <2>2, HasLeast
    <2>4. k \in 0 .. n /\ g[k] # d[k]
      OBVIOUS
    <2>5. k # 0
      BY <1>3, <1>9, <2>4
    <2>6. k \in 1 .. n /\ k - 1 \in 0 .. n /\ ~(k <= k - 1)
      BY <1>1, <2>4, <2>5
    <2>7. g[k - 1] = d[k - 1]
      BY <2>3, <2>6
    <2> QED BY <1>4, <1>9, <2>4, <2>6, <2>7
  <1>11. g[n] = d[n]
    <2>1. n \in 0 .. n
      BY <1>1
    <2> QED BY <1>10, <2>1
  <1> QED BY <1>2, <1>3, <1>7, <1>11

LEMMA KeysJoin ==
  ASSUME NEW T, NEW x \in Seq(T), NEW y \in Seq(T), NEW z, z = Joined(x, y)
  PROVE  KeysOf(z) = KeysOf(x) \cup KeysOf(y)
  <1>2. /\ z \in Seq(T) /\ Len(z) = Len(x) + Len(y) /\ Len(x) \in Nat /\ Len(y) \in Nat
        /\ \A i \in 1 .. Len(x) : z[i] = x[i]
        /\ \A i \in 1 .. Len(y) : z[Len(x) + i] = y[i]
    BY SeqJoin DEF Joined
  <1>3. /\ DOMAIN z = 1 .. Len(x) + Len(y)
        /\ DOMAIN x = 1 .. Len(x) /\ DOMAIN y = 1 .. Len(y)
    BY <1>2
  <1>4. \A i \in 1 .. Len(x) + Len(y) :
          i \in 1 .. Len(x) \/ \E j \in 1 .. Len(y) : i = Len(x) + j
    <2> SUFFICES ASSUME NEW i \in 1 .. Len(x) + Len(y), i \notin 1 .. Len(x)
                 PROVE  \E j \in 1 .. Len(y) : i = Len(x) + j
      OBVIOUS
    <2>1. i - Len(x) \in 1 .. Len(y) /\ i = Len(x) + (i - Len(x))
      BY <1>2
    <2> QED BY <2>1
  <1>5. ASSUME NEW k
        PROVE  k \in KeysOf(z) <=> k \in KeysOf(x) \/ k \in KeysOf(y)
    <2>1. k \in KeysOf(z) <=> \E i \in 1 .. Len(x) + Len(y) : k = Key(z[i])
      BY <1>3 DEF KeysOf, ToSet
    <2>2. k \in KeysOf(x) <=> \E i \in 1 .. Len(x) : k = Key(x[i])
      BY <1>3 DEF KeysOf, ToSet
    <2>3. k \in KeysOf(y) <=> \E i \in 1 .. Len(y) : k = Key(y[i])
      BY <1>3 DEF KeysOf, ToSet
    <2>4. ASSUME NEW i \in 1 .. Len(x), k = Key(x[i])
          PROVE  \E j \in 1 .. Len(x) + Len(y) : k = Key(z[j])
      <3>1. i \in 1 .. Len(x) + Len(y)
        BY <1>2
      <3> QED BY <1>2, <2>4, <3>1
    <2>5. ASSUME NEW i \in 1 .. Len(y), k = Key(y[i])
          PROVE  \E j \in 1 .. Len(x) + Len(y) : k = Key(z[j])
      <3>1. Len(x) + i \in 1 .. Len(x) + Len(y)
        BY <1>2
      <3> QED BY <1>2, <2>5, <3>1
    <2>6. ASSUME NEW i \in 1 .. Len(x) + Len(y), k = Key(z[i])
          PROVE  \/ \E j \in 1 .. Len(x) : k = Key(x[j])
                 \/ \E j \in 1 .. Len(y) : k = Key(y[j])
      BY <1>2, <1>4, <2>6
    <2> QED BY <2>1, <2>2, <2>3, <2>4, <2>5, <2>6
  <1> QED BY <1>5

(* Merging before or after taking the repeated names out is the same.      *)
LEMMA DistinctJoin ==
  ASSUME NEW T, NEW x \in Seq(T), NEW y \in Seq(T)
  PROVE  Distinct(Distinct(x) \o Distinct(y)) = Distinct(x \o y)
  <1> DEFINE n == Len(y)
             Bad == {k \in 0 .. n : Distinct(Distinct(x) \o Distinct(First(y, k)))
                                      # Distinct(x \o First(y, k))}
  <1>1. n \in Nat
    OBVIOUS
  <1>2. Bad = {}
    <2>1. SUFFICES ASSUME Bad # {} PROVE FALSE
      OBVIOUS
    <2>2. Bad \in SUBSET Nat
      BY <1>1
    <2>3. PICK k \in Bad : \A l \in Bad : k <= l
      <3> HIDE DEF Bad
      <3> QED BY <2>1, <2>2, HasLeast
    <2>4. k \in 0 .. n /\ Distinct(Distinct(x) \o Distinct(First(y, k)))
                            # Distinct(x \o First(y, k))
      OBVIOUS
    <2>5. PICK a : a = Distinct(x)
      OBVIOUS
    <2>6. a \in Seq(T) /\ KeysOf(a) = KeysOf(x) \ {0} /\ Distinct(a) = a
      BY <2>5, DistinctKeys
    <2>7. k # 0
      <3> SUFFICES ASSUME k = 0 PROVE FALSE
        OBVIOUS
      <3>1. First(y, 0) = << >>
        BY <2>4, FirstIs
      <3>2. a \o << >> = a /\ x \o << >> = x
        BY <2>6
      <3> QED BY <2>4, <2>5, <2>6, <3>1, <3>2, DistinctEmpty
    <2>8. PICK p, e : p = First(y, k - 1) /\ e = y[k]
      OBVIOUS
    <2>9. p \in Seq(T) /\ e \in T /\ First(y, k) = Append(p, e) /\ k - 1 \in 0 .. n
      <3>1. k - 1 \in 0 .. n /\ y[k] \in T /\ First(y, k) = Append(First(y, k - 1), y[k])
        BY <2>4, <2>7, FirstIs
      <3>2. First(y, k - 1) \in Seq(T)
        BY <3>1, FirstIs
      <3> QED BY <2>8, <3>1, <3>2
    <2>10. PICK d : d = Distinct(p)
      OBVIOUS
    <2>11. d \in Seq(T) /\ KeysOf(d) = KeysOf(p) \ {0}
      BY <2>9, <2>10, DistinctKeys
    <2>12. Distinct(a \o d) = Distinct(x \o p)
      <3>1. ~(k <= k - 1)
        BY <2>4
      <3>2. k - 1 \notin Bad
        BY <2>3, <2>9, <3>1
      <3>3. Distinct(Distinct(x) \o Distinct(First(y, k - 1))) = Distinct(x \o First(y, k - 1))
        BY <2>9, <3>2
      <3> QED BY <2>5, <2>8, <2>10, <3>3
    <2> HIDE DEF Bad, n
    <2>14. PICK u, v : u = x \o p /\ v = a \o d
      OBVIOUS
    <2>13. /\ u \in Seq(T) /\ x \o Append(p, e) = Append(u, e)
           /\ KeysOf(u) = KeysOf(x) \cup KeysOf(p)
           /\ v \in Seq(T) /\ a \o Append(d, e) = Append(v, e)
           /\ KeysOf(v) = KeysOf(a) \cup KeysOf(d)
      <3>1. u \in Seq(T) /\ x \o Append(p, e) = Append(u, e)
        BY <2>9, <2>14
      <3>2. v \in Seq(T) /\ a \o Append(d, e) = Append(v, e)
        BY <2>6, <2>9, <2>11, <2>14
      <3>5. u = Joined(x, p) /\ v = Joined(a, d)
        BY <2>14 DEF Joined
      <3>3. KeysOf(u) = KeysOf(x) \cup KeysOf(p)
        BY <2>9, <3>5, KeysJoin
      <3>4. KeysOf(v) = KeysOf(a) \cup KeysOf(d)
        BY <2>6, <2>11, <3>5, KeysJoin
      <3> QED BY <3>1, <3>2, <3>3, <3>4
    <2>15. Distinct(x \o First(y, k)) = Distinct(Append(u, e))
      BY <2>9, <2>13, <2>14
    <2>16. /\ u \in Seq(T) /\ v \in Seq(T) /\ Distinct(v) = Distinct(u)
           /\ Key(e) \in {0} \cup KeysOf(u) <=> Key(e) \in {0} \cup KeysOf(x) \cup KeysOf(p)
           /\ Key(e) \in {0} \cup KeysOf(v) <=> Key(e) \in {0} \cup KeysOf(x) \cup KeysOf(p)
      BY <2>6, <2>11, <2>12, <2>13, <2>14
    <2>17. CASE Key(e) \in {0} \cup KeysOf(p)
      <3>1. Distinct(Append(p, e)) = d
        BY <2>9, <2>10, <2>17, DistinctAppend
      <3>2. Distinct(Append(u, e)) = Distinct(u)
        BY <2>9, <2>16, <2>17, DistinctAppend
      <3> QED BY <2>4, <2>5, <2>9, <2>14, <2>15, <2>16, <3>1, <3>2
    <2>18. CASE Key(e) \notin {0} \cup KeysOf(p)
      <3>1. Distinct(Append(p, e)) = Append(d, e)
        BY <2>9, <2>10, <2>18, DistinctAppend
      <3>2. Distinct(Distinct(x) \o Distinct(First(y, k))) = Distinct(Append(v, e))
        BY <2>5, <2>9, <2>13, <2>14, <3>1
      <3>3. Distinct(Append(u, e)) = Distinct(Append(v, e))
        <4>1. CASE Key(e) \in {0} \cup KeysOf(u)
          <5>1. Distinct(Append(u, e)) = Distinct(u) /\ Distinct(Append(v, e)) = Distinct(v)
            BY <2>9, <2>16, <4>1, DistinctAppend
          <5> QED BY <2>16, <5>1
        <4>2. CASE Key(e) \notin {0} \cup KeysOf(u)
          <5>1. /\ Distinct(Append(u, e)) = Append(Distinct(u), e)
                /\ Distinct(Append(v, e)) = Append(Distinct(v), e)
            BY <2>9, <2>16, <4>2, DistinctAppend
          <5> QED BY <2>16, <5>1
        <4> QED BY <4>1, <4>2
      <3> QED BY <2>4, <2>15, <3>2, <3>3
    <2> QED BY <2>17, <2>18
  <1>3. n \in 0 .. n /\ n \notin Bad
    BY <1>1, <1>2
  <1>4. First(y, n) = y
    BY <1>3, FirstIs
  <1> QED BY <1>3, <1>4

(* MergeDedupe of two lists without repeated names                         *)
LEMMA MergeIs ==
  ASSUME NEW T, NEW x \in Seq(T), NEW y \in Seq(T), NEW z, z = Joined(x, y)
  PROVE  MergeDedupe(Distinct(x), Distinct(y)) = Distinct(z)
  <1>1. PICK a, d : a = Distinct(x) /\ d = Distinct(y)
    OBVIOUS
  <1>2. a \in Seq(T) /\ d \in Seq(T) /\ Distinct(a) = a /\ Distinct(d) = d
    BY <1>1, DistinctKeys
  <1>3. Distinct(a \o d) = Distinct(z)
    BY <1>1, DistinctJoin DEF Joined
  <1>4. CASE d = << >>
    <2>1. a \o d = a
      BY <1>2, <1>4
    <2> QED BY <1>1, <1>2, <1>3, <1>4, <2>1 DEF MergeDedupe
  <1>5. CASE d # << >> /\ a = << >>
    <2>1. a \o d = d
      BY <1>2, <1>5
    <2> QED BY <1>1, <1>2, <1>3, <1>5, <2>1 DEF MergeDedupe
  <1>6. CASE d # << >> /\ a # << >>
    <2>1. a \o d \in Seq(T)
      BY <1>2
    <2>2. DedupeCharacters(a \o d) = Distinct(a \o d)
      BY <2>1, DedupeIs
    <2> QED BY <1>1, <1>3, <1>6, <2>2 DEF MergeDedupe
  <1> QED BY <1>4, <1>5, <1>6

---------------------------------------------------------------------------
(* The cast *)

Role(row) == <<row.n, row.cat>>

(* The first of the rows in each role, among the first k                   *)
Firsts(rows, k) ==
  {i \in 1 .. k : \A j \in 1 .. i - 1 : Role(rows[j]) # Role(rows[i])}

(* What the first k rows say of a role                                     *)
SaidOf(rows, r, i) ==
  IF Role(rows[i]) = r THEN FlattenSeq(rows[i].characters) ELSE << >>
SaidBy(rows, r, k) == FlattenSeq([i \in 1 .. k |-> SaidOf(rows, r, i)])

Entry(rows, names, row, k) ==
  [n |-> row.n, cat |-> row.cat, name |-> NameOf(names, row.n),
   characters |-> Distinct(SaidBy(rows, Role(row), k))]
CastUpTo(rows, names, k) ==
  [i \in 1 .. Cardinality(Firsts(rows, k)) |->
     Entry(rows, names, Picked(rows, Firsts(rows, k))[i], k)]

(* The rows of R bill characters as lists of names in T.                   *)
Speaking(R, T) == \A row \in R : row.characters \in Seq(Seq(T))

LEMMA SaidNext ==
  ASSUME NEW R, NEW T, Speaking(R, T),
         NEW rows \in Seq(R), NEW k \in 1 .. Len(rows), NEW r
  PROVE  /\ SaidBy(rows, r, k - 1) \in Seq(T)
         /\ FlattenSeq(rows[k].characters) \in Seq(T)
         /\ Role(rows[k]) # r => SaidBy(rows, r, k) = SaidBy(rows, r, k - 1)
         /\ Role(rows[k]) = r =>
              SaidBy(rows, r, k)
                = Joined(SaidBy(rows, r, k - 1), FlattenSeq(rows[k].characters))
  <1>1. \A i \in 1 .. Len(rows) : rows[i] \in R
    OBVIOUS
  <1>2. k \in Nat /\ k - 1 \in Nat /\ Len(rows) \in Nat /\ (k - 1) + 1 = k
    OBVIOUS
  <1>3. \A i \in 1 .. Len(rows) : FlattenSeq(rows[i].characters) \in Seq(T)
    BY <1>1, FlattenType DEF Speaking
  <1>4. \A i \in 1 .. Len(rows) : SaidOf(rows, r, i) \in Seq(T)
    <2>1. << >> \in Seq(T)
      OBVIOUS
    <2> QED BY <1>3, <2>1 DEF SaidOf
  <1>5. PICK n \in Nat : n = k - 1
    BY <1>2
  <1> DEFINE all == [i \in 1 .. n + 1 |-> SaidOf(rows, r, i)]
  <1>6. /\ all \in [1 .. n + 1 -> Seq(T)]
        /\ \A i \in 1 .. n : all[i] = SaidOf(rows, r, i)
        /\ all[n + 1] = SaidOf(rows, r, n + 1)
    <2>1. \A i \in 1 .. n + 1 : i \in 1 .. Len(rows)
      BY <1>2, <1>5
    <2>2. \A i \in 1 .. n : i \in 1 .. n + 1
      BY <1>5
    <2> QED BY <1>4, <2>1, <2>2
  <1>7. SaidBy(rows, r, k) = FlattenSeq(all)
    BY <1>2, <1>5 DEF SaidBy
  <1> HIDE DEF all
  <1>8. [i \in 1 .. n |-> all[i]] = [i \in 1 .. n |-> SaidOf(rows, r, i)]
    BY <1>6
  <1>9. SaidBy(rows, r, k - 1) = FlattenSeq([i \in 1 .. n |-> all[i]])
    BY <1>5, <1>8 DEF SaidBy
  <1>10. PICK u, v : /\ u = FlattenSeq([i \in 1 .. n |-> all[i]]) /\ v = all[n + 1]
                     /\ u \in Seq(T) /\ FlattenSeq(all) = u \o v
    BY <1>6, FlattenAppend
  <1>11. v = SaidOf(rows, r, k)
    <2>1. n + 1 = k
      BY <1>2, <1>5
    <2> QED BY <1>6, <1>10, <2>1
  <1>12. ASSUME Role(rows[k]) # r
         PROVE  SaidBy(rows, r, k) = SaidBy(rows, r, k - 1)
    <2>1. v = << >>
      BY <1>11, <1>12 DEF SaidOf
    <2>2. u \o << >> = u
      BY <1>10
    <2> QED BY <1>7, <1>9, <1>10, <2>1, <2>2
  <1>13. ASSUME Role(rows[k]) = r
         PROVE  SaidBy(rows, r, k)
                  = Joined(SaidBy(rows, r, k - 1), FlattenSeq(rows[k].characters))
    <2>1. v = FlattenSeq(rows[k].characters)
      BY <1>11, <1>13 DEF SaidOf
    <2> QED BY <1>7, <1>9, <1>10, <2>1 DEF Joined
  <1> QED BY <1>3, <1>9, <1>10, <1>12, <1>13

(* Nothing is said of a role before its first row.                         *)
LEMMA SaidNothing ==
  ASSUME NEW R, NEW T, Speaking(R, T),
         NEW rows \in Seq(R), NEW k \in 0 .. Len(rows), NEW r,
         \A j \in 1 .. k : Role(rows[j]) # r
  PROVE  SaidBy(rows, r, k) = << >>
  <1> DEFINE Bad == {l \in 0 .. k : SaidBy(rows, r, l) # << >>}
  <1>1. SUFFICES ASSUME Bad # {} PROVE FALSE
    <2>1. k \in 0 .. k
      OBVIOUS
    <2> HIDE DEF Bad
    <2>2. k \notin Bad
      BY <1>1
    <2> QED BY <2>1, <2>2 DEF Bad
  <1>2. Bad \in SUBSET Nat
    OBVIOUS
  <1>3. PICK l \in Bad : \A m \in Bad : l <= m
    <2> HIDE DEF Bad
    <2> QED BY <1>1, <1>2, HasLeast
  <1>4. l \in 0 .. k /\ SaidBy(rows, r, l) # << >>
    OBVIOUS
  <1>5. CASE l = 0
    <2>1. [i \in 1 .. 0 |-> SaidOf(rows, r, i)] = << >>
      OBVIOUS
    <2> QED BY <1>4, <1>5, <2>1, FlattenEmpty DEF SaidBy
  <1>6. CASE l # 0
    <2>1. l \in 1 .. Len(rows) /\ l \in 1 .. k /\ l - 1 \in 0 .. k /\ ~(l <= l - 1)
      BY <1>4, <1>6
    <2>2. SaidBy(rows, r, l - 1) = << >>
      <3>1. l - 1 \notin Bad
        BY <1>3, <2>1
      <3> QED BY <2>1, <3>1
    <2>3. SaidBy(rows, r, l) = SaidBy(rows, r, l - 1)
      <3>1. PICK m \in 1 .. Len(rows) : m = l /\ Role(rows[m]) # r
        BY <2>1
      <3>2. SaidBy(rows, r, m) = SaidBy(rows, r, m - 1)
        BY <3>1, SaidNext
      <3> QED BY <3>1, <3>2
    <2> QED BY <1>4, <2>2, <2>3
  <1> QED BY <1>5, <1>6

LEMMA FirstsIs ==
  ASSUME NEW R, NEW rows \in Seq(R), NEW k \in 0 .. Len(rows)
  PROVE  \E e, a :
           /\ Firsts(rows, k) \in SUBSET (1 .. k)
           /\ e = Picked(rows, Firsts(rows, k))
           /\ PickedFrom(R, rows, Firsts(rows, k), e, a)
           /\ \A i, j \in 1 .. Len(e) : Role(e[i]) = Role(e[j]) => i = j
           /\ \A j \in 1 .. k : \E i \in 1 .. Len(e) : Role(e[i]) = Role(rows[j])
  <1> DEFINE F == Firsts(rows, k)
  <1>1. /\ k \in Nat /\ Len(rows) \in Nat /\ F \in SUBSET (1 .. k) /\ F \in SUBSET (1 .. Len(rows))
        /\ \A i \in F : \A j \in 1 .. i - 1 : Role(rows[j]) # Role(rows[i])
    BY DEF Firsts
  <1>2. \A i \in 1 .. k : (\A j \in 1 .. i - 1 : Role(rows[j]) # Role(rows[i])) => i \in F
    BY DEF Firsts
  <1> HIDE DEF F
  <1>3. PICK e, a : e = Picked(rows, F) /\ PickedFrom(R, rows, F, e, a)
    BY <1>1, PickedIs
  <1>4. /\ \A i \in 1 .. Len(e) : a[i] \in F /\ a[i] \in Nat /\ e[i] = rows[a[i]]
        /\ \A i, j \in 1 .. Len(e) : i < j => a[i] < a[j]
        /\ \A i \in F : \E j \in 1 .. Len(e) : a[j] = i
        /\ Len(e) \in Nat
    BY <1>3 DEF PickedFrom
  <1>5. \A i, j \in 1 .. Len(e) : i < j => Role(e[i]) # Role(e[j])
    <2> SUFFICES ASSUME NEW i \in 1 .. Len(e), NEW j \in 1 .. Len(e), i < j
                 PROVE  Role(e[i]) # Role(e[j])
      OBVIOUS
    <2>1. PICK x \in F, y \in F : x = a[i] /\ y = a[j] /\ x < y /\ e[i] = rows[x] /\ e[j] = rows[y]
      BY <1>4
    <2>2. x \in 1 .. y - 1
      BY <1>1, <2>1
    <2> QED BY <1>1, <2>1, <2>2
  <1>6. \A i, j \in 1 .. Len(e) : Role(e[i]) = Role(e[j]) => i = j
    <2> SUFFICES ASSUME NEW i \in 1 .. Len(e), NEW j \in 1 .. Len(e), Role(e[i]) = Role(e[j])
                 PROVE  i = j
      OBVIOUS
    <2>1. ~(i < j) /\ ~(j < i)
      BY <1>5
    <2> QED BY <1>4, <2>1
  <1>7. ASSUME NEW j \in 1 .. k
        PROVE  \E i \in 1 .. Len(e) : Role(e[i]) = Role(rows[j])
    <2> DEFINE E == {i \in 1 .. k : Role(rows[i]) = Role(rows[j])}
    <2>1. E \in SUBSET Nat /\ E # {}
      OBVIOUS
    <2>2. PICK f \in E : \A i \in E : f <= i
      <3> HIDE DEF E
      <3> QED BY <2>1, HasLeast
    <2>3. f \in 1 .. k /\ Role(rows[f]) = Role(rows[j])
      OBVIOUS
    <2>4. ASSUME NEW i \in 1 .. f - 1 PROVE Role(rows[i]) # Role(rows[f])
      <3>1. i \in 1 .. k /\ ~(f <= i)
        BY <1>1, <2>3
      <3> QED BY <2>2, <2>3, <3>1
    <2>5. f \in F
      BY <1>2, <2>3, <2>4
    <2>6. PICK i \in 1 .. Len(e) : a[i] = f
      BY <1>4, <2>5
    <2> QED BY <1>4, <2>3, <2>6
  <1> QED BY <1>1, <1>3, <1>6, <1>7 DEF F

(* Adding the next row to the cast of the rows before makes the cast up to *)
(* it: a person new in a category gets an entry, a known one more          *)
(* characters.                                                             *)
LEMMA CastNext ==
  ASSUME NEW R, NEW T, Speaking(R, T), NEW rows \in Seq(R), NEW names,
         NEW k \in 1 .. Len(rows)
  PROVE  AddCastRow(names, CastUpTo(rows, names, k - 1), rows[k]) = CastUpTo(rows, names, k)
  <1>1. PICK p \in Nat : p = k - 1
    OBVIOUS
  <1>2. /\ k \in Nat /\ k \in 0 .. Len(rows) /\ p \in 0 .. Len(rows) /\ Len(rows) \in Nat
        /\ \A i \in 1 .. k : i = k \/ i \in 1 .. p
        /\ k \notin 1 .. p /\ 1 .. p \in SUBSET (1 .. k)
    BY <1>1
  <1>3. PICK row : row = rows[k] /\ row \in R
    OBVIOUS
  <1>4. PICK F, e, a :
          /\ F = Firsts(rows, p) /\ F \in SUBSET (1 .. p)
          /\ e = Picked(rows, F) /\ PickedFrom(R, rows, F, e, a)
          /\ \A i, j \in 1 .. Len(e) : Role(e[i]) = Role(e[j]) => i = j
          /\ \A j \in 1 .. p : \E i \in 1 .. Len(e) : Role(e[i]) = Role(rows[j])
    BY <1>2, FirstsIs
  <1>5. /\ e \in Seq(R) /\ Len(e) \in Nat /\ DOMAIN e = 1 .. Len(e) /\ Len(e) = Cardinality(F)
        /\ \A i \in 1 .. Len(e) : a[i] \in F /\ e[i] = rows[a[i]]
    BY <1>4 DEF PickedFrom
  <1>6. PICK flat, chars :
          /\ flat = FlattenSeq(row.characters) /\ flat \in Seq(T)
          /\ chars = NormalizeCharacters(row.characters) /\ chars = Distinct(flat)
    <2>1. row.characters \in Seq(Seq(T))
      BY <1>3 DEF Speaking
    <2>2. FlattenSeq(row.characters) \in Seq(T)
      BY <2>1, FlattenType
    <2> QED BY <2>2, DedupeIs DEF NormalizeCharacters
  <1>7. PICK c : c = CastUpTo(rows, names, p)
    OBVIOUS
  <1>8. /\ DOMAIN c = 1 .. Len(e)
        /\ \A i \in 1 .. Len(e) : c[i] = Entry(rows, names, e[i], p)
        /\ c = [i \in 1 .. Len(e) |-> c[i]]
    <2>1. c = [i \in 1 .. Len(e) |-> Entry(rows, names, e[i], p)]
      BY <1>4, <1>5, <1>7 DEF CastUpTo
    <2> QED BY <2>1
  <1> DEFINE known == {i \in DOMAIN c : c[i].n = row.n /\ c[i].cat = row.cat}
             fresh == [n |-> row.n, cat |-> row.cat, name |-> NameOf(names, row.n),
                       characters |-> chars]
  <1>9. AddCastRow(names, c, row) =
          IF known = {} THEN Append(c, fresh)
          ELSE [c EXCEPT ![CHOOSE i \in known : TRUE].characters = MergeDedupe(@, chars)]
    BY <1>6 DEF AddCastRow
  <1>10. \A i : i \in known <=> i \in 1 .. Len(e) /\ Role(e[i]) = Role(row)
    <2>1. \A i \in 1 .. Len(e) : c[i].n = e[i].n /\ c[i].cat = e[i].cat
      BY <1>8 DEF Entry
    <2> QED BY <1>8, <2>1 DEF Role
  <1> HIDE DEF known, fresh
  <1>11. \A r : /\ SaidBy(rows, r, p) \in Seq(T)
                /\ Role(row) # r => SaidBy(rows, r, k) = SaidBy(rows, r, p)
                /\ Role(row) = r => SaidBy(rows, r, k) = Joined(SaidBy(rows, r, p), flat)
    <2> SUFFICES ASSUME NEW r
                 PROVE  /\ SaidBy(rows, r, p) \in Seq(T)
                        /\ Role(row) # r => SaidBy(rows, r, k) = SaidBy(rows, r, p)
                        /\ Role(row) = r => SaidBy(rows, r, k) = Joined(SaidBy(rows, r, p), flat)
      OBVIOUS
    <2> QED BY <1>1, <1>3, <1>6, SaidNext
  <1>12. \A i \in 1 .. Len(e) :
           Role(e[i]) # Role(row) => Entry(rows, names, e[i], k) = Entry(rows, names, e[i], p)
    BY <1>11 DEF Entry
  <1>13. CASE \A j \in 1 .. p : Role(rows[j]) # Role(row)
    <2>1. known = {}
      <3>1. \A i \in 1 .. Len(e) : Role(e[i]) # Role(row)
        <4> SUFFICES ASSUME NEW i \in 1 .. Len(e) PROVE Role(e[i]) # Role(row)
          OBVIOUS
        <4>1. PICK x \in 1 .. p : e[i] = rows[x]
          BY <1>4, <1>5
        <4> QED BY <1>13, <4>1
      <3> QED BY <1>10, <3>1
    <2>2. Firsts(rows, k) = F \cup {k}
      <3>1. k - 1 = p /\ k \in 1 .. k
        BY <1>1
      <3>2. k \in Firsts(rows, k)
        BY <1>3, <1>13, <3>1 DEF Firsts
      <3> QED BY <1>2, <1>4, <3>2 DEF Firsts
    <2>3. Picked(rows, F \cup {k}) = Append(e, row)
      <3>1. F \in SUBSET (1 .. k - 1)
        BY <1>1, <1>4
      <3>2. PICK P \in SUBSET (1 .. k - 1) : P = F
        BY <3>1
      <3>3. Picked(rows, P \cup {k}) = Append(Picked(rows, P), rows[k])
        BY PickedNext
      <3> QED BY <1>3, <1>4, <3>2, <3>3
    <2>4. PICK f : f = Append(e, row)
      OBVIOUS
    <2>5. /\ Len(f) = Len(e) + 1 /\ f[Len(e) + 1] = row
          /\ \A i \in 1 .. Len(e) : f[i] = e[i]
      BY <1>3, <1>5, <2>4, AppendIs
    <2>6. Cardinality(F \cup {k}) = Len(e) + 1
      <3>1. PICK Q \in SUBSET (1 .. Len(rows)) : Q = F \cup {k}
        <4>1. k \in 1 .. Len(rows) /\ 1 .. p \in SUBSET (1 .. Len(rows))
          BY <1>1
        <4>2. F \cup {k} \in SUBSET (1 .. Len(rows))
          BY <1>4, <4>1
        <4> QED BY <4>2
      <3>2. Len(Picked(rows, Q)) = Cardinality(Q)
        BY PickedType
      <3> QED BY <2>3, <2>4, <2>5, <3>1, <3>2
    <2>7. CastUpTo(rows, names, k) = [i \in 1 .. Len(e) + 1 |-> Entry(rows, names, f[i], k)]
      BY <2>2, <2>3, <2>4, <2>6 DEF CastUpTo
    <2>8. fresh = Entry(rows, names, row, k)
      <3>1. SaidBy(rows, Role(row), p) = << >>
        BY <1>2, <1>13, SaidNothing
      <3>2. SaidBy(rows, Role(row), k) = Joined(<< >>, flat)
        BY <1>11, <3>1
      <3>3. Joined(<< >>, flat) = flat
        BY <1>6 DEF Joined
      <3> QED BY <1>6, <3>2, <3>3 DEF Entry, fresh
    <2>9. PICK w : w = Append(c, fresh)
      OBVIOUS
    <2>10. /\ w = [i \in 1 .. Len(e) + 1 |-> w[i]] /\ w[Len(e) + 1] = fresh
           /\ \A i \in 1 .. Len(e) : w[i] = c[i]
      <3> DEFINE X == {c[i] : i \in 1 .. Len(e)} \cup {fresh}
      <3>1. \A i \in 1 .. Len(e) : c[i] \in X
        OBVIOUS
      <3>2. fresh \in X
        OBVIOUS
      <3> HIDE DEF X
      <3>3. c \in [1 .. Len(e) -> X]
        BY <1>8, <3>1
      <3>4. c \in Seq(X) /\ Len(c) = Len(e)
        BY <1>5, <3>3
      <3> QED BY <2>9, <3>2, <3>4, AppendIs
    <2>11. \A i \in 1 .. Len(e) + 1 : w[i] = Entry(rows, names, f[i], k)
      <3> SUFFICES ASSUME NEW i \in 1 .. Len(e) + 1
                   PROVE  w[i] = Entry(rows, names, f[i], k)
        OBVIOUS
      <3>1. CASE i = Len(e) + 1
        BY <2>5, <2>8, <2>10, <3>1
      <3>2. CASE i # Len(e) + 1
        <4>1. i \in 1 .. Len(e)
          BY <1>5, <3>2
        <4>2. Role(e[i]) # Role(row)
          BY <1>10, <2>1, <4>1
        <4> QED BY <1>8, <1>12, <2>5, <2>10, <4>1, <4>2
      <3> QED BY <3>1, <3>2
    <2>12. w = CastUpTo(rows, names, k)
      BY <2>7, <2>10, <2>11
    <2>13. AddCastRow(names, c, row) = w
      BY <1>9, <2>1, <2>9
    <2> QED BY <1>1, <1>3, <1>7, <2>12, <2>13
  <1>14. CASE ~ \A j \in 1 .. p : Role(rows[j]) # Role(row)
    <2>1. PICK j \in 1 .. p : Role(rows[j]) = Role(row)
      BY <1>14
    <2>2. PICK i \in 1 .. Len(e) : Role(e[i]) = Role(row)
      BY <1>4, <2>1
    <2>3. known = {i}
      BY <1>4, <1>10, <2>2
    <2>4. Firsts(rows, k) = F
      <3>1. k - 1 = p
        BY <1>1
      <3>2. k \notin Firsts(rows, k)
        BY <1>3, <2>1, <3>1 DEF Firsts
      <3> QED BY <1>2, <1>4, <3>2 DEF Firsts
    <2>5. CastUpTo(rows, names, k) = [l \in 1 .. Len(e) |-> Entry(rows, names, e[l], k)]
      BY <1>4, <1>5, <2>4 DEF CastUpTo
    <2>6. PICK w : w = [c EXCEPT ![i] = [c[i] EXCEPT !.characters =
                                           MergeDedupe(c[i].characters, chars)]]
      OBVIOUS
    <2>7. AddCastRow(names, c, row) = w
      <3>1. (CHOOSE x \in known : TRUE) = i /\ known # {}
        BY <2>3
      <3> QED BY <1>9, <2>6, <3>1
    <2>8. /\ w = [l \in 1 .. Len(e) |-> w[l]]
          /\ w[i] = [c[i] EXCEPT !.characters = MergeDedupe(c[i].characters, chars)]
          /\ \A l \in 1 .. Len(e) : l # i => w[l] = c[l]
      BY <1>8, <2>6
    <2>9. w[i] = Entry(rows, names, e[i], k)
      <3>1. PICK s : s = SaidBy(rows, Role(row), p)
        OBVIOUS
      <3>2. s \in Seq(T) /\ SaidBy(rows, Role(row), k) = Joined(s, flat)
        BY <1>11, <3>1
      <3>3. MergeDedupe(Distinct(s), chars) = Distinct(Joined(s, flat))
        BY <1>6, <3>2, MergeIs
      <3>4. c[i] = [n |-> e[i].n, cat |-> e[i].cat, name |-> NameOf(names, e[i].n),
                    characters |-> Distinct(s)]
        BY <1>8, <2>2, <3>1 DEF Entry
      <3>5. Entry(rows, names, e[i], k)
              = [n |-> e[i].n, cat |-> e[i].cat, name |-> NameOf(names, e[i].n),
                 characters |-> Distinct(Joined(s, flat))]
        BY <2>2, <3>2 DEF Entry
      <3>6. PICK m : m = Distinct(Joined(s, flat))
        OBVIOUS
      <3>7. w[i] = [c[i] EXCEPT !.characters = m]
        BY <2>8, <3>3, <3>4, <3>6
      <3>8. w[i] = [n |-> e[i].n, cat |-> e[i].cat, name |-> NameOf(names, e[i].n),
                    characters |-> m]
        BY <3>4, <3>7
      <3> QED BY <3>5, <3>6, <3>8
    <2>10. \A l \in 1 .. Len(e) : w[l] = Entry(rows, names, e[l], k)
      <3> SUFFICES ASSUME NEW l \in 1 .. Len(e), l # i
                   PROVE  w[l] = Entry(rows, names, e[l], k)
        BY <2>9
      <3>1. Role(e[l]) # Role(row)
        BY <1>4, <2>2
      <3> QED BY <1>8, <1>12, <2>8, <3>1
    <2>11. w = CastUpTo(rows, names, k)
      BY <2>5, <2>8, <2>10
    <2> QED BY <1>1, <1>3, <1>7, <2>7, <2>11
  <1> QED BY <1>13, <1>14

(* Whatever rows bill whomever, buildCast, which adds one row after the    *)
(* other to what it has, yields the cast CastUpTo describes at once: an    *)
(* entry for each person and category, at the place of its first row, with *)
(* the characters of all its rows, each once and in its first spelling.    *)
THEOREM CastIs ==
  ASSUME NEW R, NEW T, Speaking(R, T), NEW rows \in Seq(R), NEW names
  PROVE  BuildCast(rows, names) = CastUpTo(rows, names, Len(rows))
  <1> DEFINE n == Len(rows)
             Step(h) == [k \in 0 .. Len(rows) |->
                           IF k = 0 THEN << >> ELSE AddCastRow(names, h[k - 1], rows[k])]
             cast == CHOOSE h : h = Step(h)
             d == [k \in 0 .. n |-> CastUpTo(rows, names, k)]
  <1>1. n \in Nat
    OBVIOUS
  <1>2. BuildCast(rows, names) = cast[n]
    BY DEF BuildCast
  <1>3. CastUpTo(rows, names, 0) = << >>
    <2>1. Firsts(rows, 0) = {}
      BY DEF Firsts
    <2>2. Cardinality({}) = 0
      BY FS_EmptySet
    <2>3. PICK m : m = Cardinality(Firsts(rows, 0)) /\ m = 0
      BY <2>1, <2>2
    <2>4. 1 .. m = {}
      BY <2>3
    <2> DEFINE V(i) == Entry(rows, names, Picked(rows, Firsts(rows, 0))[i], 0)
    <2>5. CastUpTo(rows, names, 0) = [i \in 1 .. m |-> V(i)]
      BY <2>3 DEF CastUpTo
    <2> HIDE DEF V
    <2>6. PICK g : g = [i \in 1 .. m |-> V(i)]
      OBVIOUS
    <2>7. DOMAIN g = {}
      BY <2>4, <2>6
    <2>8. g = [i \in {} |-> V(i)]
      BY <2>4, <2>6
    <2>9. g \in Seq({}) /\ Len(g) = 0
      BY <2>3, <2>6, <2>7
    <2>10. g = << >>
      BY <2>9
    <2> QED BY <2>5, <2>6, <2>10
  <1>4. ASSUME NEW k \in 1 .. n
        PROVE  k - 1 \in 0 .. n /\ d[k] = AddCastRow(names, d[k - 1], rows[k])
    <2>1. k \in 0 .. n /\ k - 1 \in 0 .. n
      BY <1>1
    <2>2. AddCastRow(names, CastUpTo(rows, names, k - 1), rows[k]) = CastUpTo(rows, names, k)
      BY CastNext
    <2> QED BY <2>1, <2>2
  <1>5. d[0] = << >> /\ d[n] = CastUpTo(rows, names, n)
    <2>1. 0 \in 0 .. n /\ n \in 0 .. n
      BY <1>1
    <2> QED BY <1>3, <2>1
  <1>6. d = Step(d)
    <2>1. d = [k \in 0 .. n |-> d[k]]
      OBVIOUS
    <2>2. \A k \in 0 .. n : k = 0 \/ k \in 1 .. n
      BY <1>1
    <2> HIDE DEF d
    <2>3. \A k \in 0 .. n :
            d[k] = IF k = 0 THEN << >> ELSE AddCastRow(names, d[k - 1], rows[k])
      BY <1>4, <1>5, <2>2
    <2> QED BY <2>1, <2>3
  <1> HIDE DEF d
  <1>7. cast = Step(cast)
    <2> HIDE DEF Step
    <2> QED BY <1>6
  <1>8. PICK g : g = cast
    OBVIOUS
  <1>9. g = Step(g)
    <2> HIDE DEF cast, Step
    <2> QED BY <1>7, <1>8
  <1>10. /\ g[0] = << >>
         /\ \A k \in 1 .. n : g[k] = AddCastRow(names, g[k - 1], rows[k])
    <2>1. /\ 0 \in 0 .. n
          /\ \A k \in 1 .. n : k \in 0 .. n /\ k # 0
      BY <1>1
    <2> QED BY <1>9, <2>1
  <1> HIDE DEF cast, Step
  <1> DEFINE Bad == {k \in 0 .. n : g[k] # d[k]}
  <1>11. Bad = {}
    <2>1. SUFFICES ASSUME Bad # {} PROVE FALSE
      OBVIOUS
    <2>2. Bad \in SUBSET Nat
      BY <1>1
    <2>3. PICK k \in Bad : \A l \in Bad : k <= l
      <3> HIDE DEF Bad
      <3> QED BY <2>1, <2>2, HasLeast
    <2>4. k \in 0 .. n /\ g[k] # d[k]
      OBVIOUS
    <2>5. k # 0
      BY <1>5, <1>10, <2>4
    <2>6. k \in 1 .. n /\ k - 1 \in 0 .. n /\ ~(k <= k - 1)
      BY <1>1, <2>4, <2>5
    <2>7. g[k - 1] = d[k - 1]
      BY <2>3, <2>6
    <2> QED BY <1>4, <1>10, <2>4, <2>6, <2>7
  <1>12. g[n] = d[n]
    <2>1. n \in 0 .. n
      BY <1>1
    <2> QED BY <1>11, <2>1
  <1> QED BY <1>2, <1>5, <1>8, <1>12

---------------------------------------------------------------------------
(* Billing *)

LEMMA CappedIs ==
  ASSUME NEW S, NEW s \in Seq(S), NEW n \in Nat
  PROVE  /\ Capped(s, n) \in Seq(S)
         /\ \A x \in ToSet(Capped(s, n)) : x \in ToSet(s)
  <1> DEFINE m == IF Len(s) < n THEN Len(s) ELSE n
  <1>1. m \in Nat /\ m <= Len(s) /\ Len(s) \in Nat
    OBVIOUS
  <1>2. Capped(s, n) = SubSeq(s, 1, m)
    BY DEF Capped
  <1> HIDE DEF m
  <1>3. PICK c : c = SubSeq(s, 1, m)
    OBVIOUS
  <1>4. /\ c \in Seq(S) /\ Len(c) = m /\ DOMAIN c = 1 .. m
        /\ \A i \in 1 .. m : c[i] = s[i]
    BY <1>1, <1>3
  <1>5. \A i \in 1 .. m : c[i] \in ToSet(s)
    <2>1. \A i \in 1 .. m : i \in DOMAIN s
      BY <1>1
    <2> QED BY <1>4, <2>1 DEF ToSet
  <1>6. \A x \in ToSet(c) : x \in ToSet(s)
    BY <1>4, <1>5 DEF ToSet
  <1> QED BY <1>2, <1>3, <1>4, <1>6

(* The rows of a title, of actors or of the others, by ordering            *)
ByOrdering(rows) == {p \in rows \X rows : NullsLast(p[1].ordering, p[2].ordering)}
CreditRows(s, t, actors) == {row \in ToSet(s) : row.t = t /\ IsActor(row) = actors}

LEMMA OrderingOrders ==
  ASSUME NEW rows, \A x \in rows : x.ordering \in Int,
         \A x, y \in rows : x.ordering = y.ordering => x = y
  PROVE  /\ StrictOrder(rows, ByOrdering(rows))
         /\ \A x, y \in rows :
              <<x, y>> \in ByOrdering(rows) <=> NullsLast(x.ordering, y.ordering)
  <1> DEFINE B == ByOrdering(rows)
  <1>1. \A x, y \in rows : <<x, y>> \in B <=> NullsLast(x.ordering, y.ordering)
    BY DEF ByOrdering
  <1> HIDE DEF B
  <1>2. \A x, y \in rows : <<x, y>> \in B => <<y, x>> \notin B
    BY <1>1, NullsLastOrder
  <1>3. \A x, y \in rows : x = y \/ <<x, y>> \in B \/ <<y, x>> \in B
    <2> SUFFICES ASSUME NEW x \in rows, NEW y \in rows, x # y
                 PROVE  <<x, y>> \in B \/ <<y, x>> \in B
      OBVIOUS
    <2>1. x.ordering \in Int /\ y.ordering \in Int /\ x.ordering # y.ordering
      OBVIOUS
    <2>2. NullsLast(x.ordering, y.ordering) \/ NullsLast(y.ordering, x.ordering)
      BY <2>1, NullsLastOrder
    <2> QED BY <1>1, <2>2
  <1>4. \A x, y, z \in rows : <<x, y>> \in B /\ <<y, z>> \in B => <<x, z>> \in B
    BY <1>1, NullsLastOrder
  <1> QED BY <1>1, <1>2, <1>3, <1>4 DEF StrictOrder, B

LEMMA BillingIs ==
  ASSUME NEW S, NEW s \in Seq(S), NEW t, NEW actors, \A row \in S : row.ordering \in Int,
         \A i, j \in 1 .. Len(s) :
           s[i].t = s[j].t /\ s[i].ordering = s[j].ordering => i = j
  PROVE  /\ Billing(s, t, actors) \in Seq(CreditRows(s, t, actors))
         /\ Billing(s, t, actors) = Arranged(CreditRows(s, t, actors),
                                             ByOrdering(CreditRows(s, t, actors)))
  <1> DEFINE P == {i \in DOMAIN s : s[i].t = t /\ IsActor(s[i]) = actors}
  <1>1. DOMAIN s = 1 .. Len(s) /\ P \in SUBSET (1 .. Len(s))
    OBVIOUS
  <1>2. \A i, j \in P : s[i].ordering = s[j].ordering => i = j
    BY <1>1
  <1>3. PICK rows : rows = CreditRows(s, t, actors)
    OBVIOUS
  <1>4. \A x : x \in rows <=> \E i \in P : x = s[i]
    BY <1>3 DEF CreditRows, ToSet
  <1>5. Billing(s, t, actors) = OrderedByOrdering(Picked(s, P))
    BY DEF Billing
  <1> HIDE DEF P
  <1>6. PICK own : /\ own = Picked(s, P) /\ Numbered(S, own)
                   /\ \A x : x \in ToSet(own) <=> \E i \in P : x = s[i]
    BY <1>1, <1>2, NumberedPick
  <1>7. PICK r : /\ r = OrderedByOrdering(own) /\ Numbered(S, r) /\ ToSet(r) = ToSet(own)
                 /\ \A i, j \in 1 .. Len(r) :
                      i < j => NullsLast(r[i].ordering, r[j].ordering)
    BY <1>6, OrderedIs
  <1>8. /\ r \in Seq(S) /\ Len(r) \in Nat /\ DOMAIN r = 1 .. Len(r)
        /\ \A i, j \in 1 .. Len(r) : r[i].ordering = r[j].ordering => i = j
        /\ \A x : x \in rows <=> \E i \in 1 .. Len(r) : x = r[i]
    <2>1. /\ r \in Seq(S) /\ Len(r) \in Nat /\ DOMAIN r = 1 .. Len(r)
          /\ \A i, j \in 1 .. Len(r) : r[i].ordering = r[j].ordering => i = j
          /\ \A x : x \in ToSet(r) <=> \E i \in 1 .. Len(r) : x = r[i]
      BY <1>7 DEF Numbered
    <2>2. \A x : x \in rows <=> x \in ToSet(r)
      BY <1>4, <1>6, <1>7
    <2> QED BY <2>1, <2>2
  <1>9. r \in [1 .. Len(r) -> rows]
    BY <1>8
  <1>10. r \in Seq(rows)
    BY <1>8, <1>9
  <1>11. IsFiniteSet(rows)
    <2>1. r \in Surjection(1 .. Len(r), rows)
      BY <1>8, <1>9 DEF Surjection
    <2>2. IsFiniteSet(1 .. Len(r))
      BY <1>8, FS_Interval
    <2> QED BY <2>1, <2>2, FS_Surjection
  <1>12. /\ \A x \in rows : x.ordering \in Int
         /\ \A x, y \in rows : x.ordering = y.ordering => x = y
    BY <1>8
  <1>13. /\ StrictOrder(rows, ByOrdering(rows))
         /\ \A x, y \in rows :
              <<x, y>> \in ByOrdering(rows) <=> NullsLast(x.ordering, y.ordering)
    BY <1>12, OrderingOrders
  <1>14. \A i, j \in 1 .. Len(r) : i < j => <<r[i], r[j]>> \in ByOrdering(rows)
    BY <1>7, <1>8, <1>13
  <1>15. \A x \in rows : \E i \in 1 .. Len(r) : r[i] = x
    BY <1>8
  <1>16. Arranged(rows, ByOrdering(rows)) = r
    BY <1>10, <1>11, <1>13, <1>14, <1>15, ArrangedUnique
  <1> QED BY <1>3, <1>5, <1>6, <1>7, <1>10, <1>16

(* The last row of a title, if it has any *)
LEMMA LastOfTitle ==
  ASSUME NEW S, NEW s \in Seq(S), NEW t
  PROVE  \/ OfTitle(s, t) = << >> /\ TitleRows(s, t) = {}
         \/ OfTitle(s, t) # << >> /\ Last(OfTitle(s, t)) \in TitleRows(s, t)
  <1> DEFINE P == {i \in DOMAIN s : s[i].t = t}
  <1>1. OfTitle(s, t) = Picked(s, P) /\ P \in SUBSET (1 .. Len(s))
    BY DEF OfTitle
  <1>2. \A x : x \in TitleRows(s, t) <=> \E i \in P : x = s[i]
    BY DEF TitleRows, ToSet
  <1> HIDE DEF P
  <1>3. PICK r, a : r = Picked(s, P) /\ PickedFrom(S, s, P, r, a)
    BY <1>1, PickedIs
  <1>4. /\ r \in Seq(S) /\ Len(r) \in Nat /\ DOMAIN r = 1 .. Len(r)
        /\ \A x : x \in ToSet(r) <=> \E i \in P : x = s[i]
    BY <1>3 DEF PickedFrom
  <1>5. CASE r = << >>
    <2>1. ToSet(r) = {}
      BY <1>5 DEF ToSet
    <2> QED BY <1>1, <1>2, <1>3, <1>4, <1>5, <2>1
  <1>6. CASE r # << >>
    <2>1. Len(r) \in DOMAIN r
      BY <1>4, <1>6
    <2>2. Last(r) \in ToSet(r)
      BY <2>1 DEF Last, ToSet
    <2> QED BY <1>1, <1>2, <1>3, <1>4, <1>6, <2>2
  <1> QED BY <1>5, <1>6
=============================================================================

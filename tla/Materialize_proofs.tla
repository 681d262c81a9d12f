------------------------- MODULE Materialize_proofs -------------------------
(* Theorems about Materialize, for any data directories that meet          *)
(* InputsAssumption and ColumnsAssumption, any limits and batch sizes:     *)
(* what staging holds, which titles are built, and what their documents    *)
(* say.                                                                    *)
EXTENDS Materialize, Projection_proofs

(* What staging holds of a file after some of its lines *)

RowAt(f, i) == files[f][i].row
AllRows == {RowAt(f, i) : f \in Files, i \in Nat}

(* The lines up to p whose rows are wanted, and these rows *)
Picks(f, p) == {i \in RowLines(files[f]) : i <= p /\ Selected(f, RowAt(f, i))}
Staged(f, p) ==
  [k \in 1 .. Cardinality(Picks(f, p)) |-> RowAt(f, Ascending(Picks(f, p))[k])]

LEMMA FilesAreSequences ==
  ASSUME files \in Inputs, NEW f \in Files
  PROVE  /\ files[f] \in Seq(ToSet(files[f]))
         /\ Len(files[f]) \in Nat
         /\ DOMAIN files[f] = 1 .. Len(files[f])
         /\ \A i \in RowLines(files[f]) : i \in 1 .. Len(files[f]) /\ files[f][i].kind = "row"
         /\ \A i \in RowLines(files[f]) : i \in Nat
  <1>1. files[f] \in Seq(ToSet(files[f]))
    BY InputsAssumption
  <1>2. \A i \in RowLines(files[f]) : files[f][i].kind = "row"
    BY InputsAssumption
  <1>3. Len(files[f]) \in Nat /\ DOMAIN files[f] = 1 .. Len(files[f])
    BY <1>1
  <1> QED BY <1>1, <1>2, <1>3 DEF RowLines

LEMMA PicksType ==
  ASSUME files \in Inputs, NEW f \in Files, NEW p \in Nat
  PROVE  /\ Picks(f, p) \in SUBSET Nat
         /\ IsFiniteSet(Picks(f, p))
         /\ Cardinality(Picks(f, p)) \in Nat
         /\ \A i \in Picks(f, p) : i <= p
  <1>1. Picks(f, p) \in SUBSET Nat /\ \A i \in Picks(f, p) : i <= p
    BY FilesAreSequences DEF Picks
  <1>2. IsFiniteSet(Picks(f, p))
    BY <1>1, FS_BoundedSetOfNaturals
  <1> QED BY <1>1, <1>2, FS_CardinalityType

LEMMA StagedType ==
  ASSUME files \in Inputs, NEW f \in Files, NEW p \in Nat
  PROVE  /\ Staged(f, p) \in Seq(AllRows)
         /\ Len(Staged(f, p)) = Cardinality(Picks(f, p))
         /\ \A k \in 1 .. Cardinality(Picks(f, p)) :
              Staged(f, p)[k] = RowAt(f, Ascending(Picks(f, p))[k])
  <1> DEFINE n == Cardinality(Picks(f, p))
             s == Staged(f, p)
             a == Ascending(Picks(f, p))
  <1>1. n \in Nat /\ \A k \in 1 .. n : a[k] \in Nat
    BY PicksType, AscendingLists
  <1>2. s = [k \in 1 .. n |-> RowAt(f, a[k])]
    BY DEF Staged
  <1>3. \A k \in 1 .. n : RowAt(f, a[k]) \in AllRows
    BY <1>1 DEF AllRows
  <1> HIDE DEF n, s, a
  <1>4. s \in [1 .. n -> AllRows]
    BY <1>2, <1>3
  <1>5. s \in Seq(AllRows) /\ Len(s) = n
    BY <1>1, <1>4
  <1> QED BY <1>2, <1>5 DEF n, s, a

(* This is the selection of these lines. *)
LEMMA StagedSelection ==
  ASSUME files \in Inputs, NEW f \in Files, NEW p \in 0 .. Len(files[f])
  PROVE  Selection(f, SubSeq(files[f], 1, p)) = Staged(f, p)
  <1> DEFINE lines == files[f]
             part == SubSeq(lines, 1, p)
             S == {i \in RowLines(part) : Selected(f, part[i].row)}
             n == Cardinality(S)
  <1>1. Len(lines) \in Nat /\ DOMAIN lines = 1 .. Len(lines)
    BY FilesAreSequences
  <1>2. DOMAIN part = 1 .. p /\ \A i \in 1 .. p : part[i] = lines[i]
    BY <1>1, FilesAreSequences
  <1>3. \A i : i \in RowLines(part) <=> i \in RowLines(lines) /\ i <= p
    <2>1. p \in Nat /\ \A i \in 1 .. p : i \in DOMAIN lines
      BY <1>1
    <2> HIDE DEF part, lines
    <2>2. ASSUME NEW i \in 1 .. p
          PROVE  i \in RowLines(part) <=> i \in RowLines(lines)
      <3>1. i \in DOMAIN part /\ i \in DOMAIN lines /\ part[i] = lines[i]
        BY <1>2, <2>1
      <3>2. \A j \in 1 .. i - 1 : part[j] = lines[j]
        BY <1>2, <2>1
      <3> QED BY <3>1, <3>2 DEF RowLines
    <2>3. \A i : i \in RowLines(part) => i \in 1 .. p
      BY <1>2 DEF RowLines
    <2>4. \A i : i \in RowLines(lines) /\ i <= p => i \in 1 .. p
      BY <1>1, <2>1 DEF RowLines
    <2>5. \A i \in 1 .. p : i <= p
      BY <2>1
    <2> QED BY <2>2, <2>3, <2>4, <2>5
  <1>4. S = Picks(f, p)
    <2>1. \A i \in RowLines(part) : part[i] = lines[i]
      <3> HIDE DEF part, lines
      <3> QED BY <1>2 DEF RowLines
    <2>2. \A i : i \in S <=> i \in Picks(f, p)
      BY <1>3, <2>1 DEF Picks, RowAt
    <2> QED BY <2>2
  <1>5. \A k \in 1 .. n : part[Ascending(S)[k]] = lines[Ascending(S)[k]]
    <2> SUFFICES ASSUME NEW k \in 1 .. n
                 PROVE  part[Ascending(S)[k]] = lines[Ascending(S)[k]]
      OBVIOUS
    <2>1. Ascending(S)[k] \in S /\ S \in SUBSET Nat
      BY <1>4, p \in Nat, PicksType, AscendingLists
    <2>2. Ascending(S)[k] \in RowLines(part)
      BY <2>1
    <2> HIDE DEF part, lines, S
    <2> QED BY <1>2, <2>2 DEF RowLines
  <1>6. Selection(f, part) = [k \in 1 .. n |-> part[Ascending(S)[k]].row]
    <2> HIDE DEF part
    <2> QED BY DEF Selection, Picked
  <1>7. Staged(f, p) = [k \in 1 .. n |-> lines[Ascending(S)[k]].row]
    BY <1>4 DEF Staged, RowAt
  <1> HIDE DEF part, lines, S
  <1> QED BY <1>5, <1>6, <1>7 DEF part, lines

LEMMA WholeSelection ==
  ASSUME files \in Inputs, NEW f \in Files
  PROVE  Selection(f, files[f]) = Staged(f, Len(files[f]))
  <1>1. Len(files[f]) \in 0 .. Len(files[f])
    BY FilesAreSequences
  <1>2. SubSeq(files[f], 1, Len(files[f])) = files[f]
    BY FilesAreSequences
  <1> QED BY <1>1, <1>2, StagedSelection

(* One line more: nothing new, or one row more at the end *)
LEMMA StagedSkip ==
  ASSUME files \in Inputs, NEW f \in Files, NEW p \in Nat,
         p + 1 \notin RowLines(files[f]) \/ ~Selected(f, RowAt(f, p + 1))
  PROVE  Picks(f, p + 1) = Picks(f, p) /\ Staged(f, p + 1) = Staged(f, p)
  <1>0. \A i \in RowLines(files[f]) : i \in Nat
    BY FilesAreSequences
  <1>1. \A i : i \in Picks(f, p + 1) <=> i \in Picks(f, p)
    <2>1. \A i \in Nat : i <= p + 1 <=> i <= p \/ i = p + 1
      OBVIOUS
    <2> QED BY <1>0, <2>1 DEF Picks
  <1>2. Picks(f, p + 1) = Picks(f, p)
    BY <1>1
  <1> QED BY <1>2 DEF Staged

LEMMA StagedTake ==
  ASSUME files \in Inputs, NEW f \in Files, NEW p \in Nat,
         p + 1 \in RowLines(files[f]), Selected(f, RowAt(f, p + 1))
  PROVE  /\ Picks(f, p + 1) = Picks(f, p) \cup {p + 1}
         /\ Staged(f, p + 1) = Append(Staged(f, p), RowAt(f, p + 1))
  <1> DEFINE S == Picks(f, p)
             n == Cardinality(S)
             x == p + 1
  <1>1. x \in Nat /\ x \in 1 .. Len(files[f])
    BY FilesAreSequences
  <1>2. Picks(f, p + 1) = S \cup {x}
    <2>0. \A i \in RowLines(files[f]) : i \in Nat
      BY FilesAreSequences
    <2>1. \A i \in Nat : i <= p + 1 <=> i <= p \/ i = p + 1
      OBVIOUS
    <2>2. \A i : i \in Picks(f, p + 1) <=> i \in S \/ i = x
      BY <1>1, <2>0, <2>1 DEF Picks
    <2> QED BY <2>2
  <1>3. S \in SUBSET Nat /\ IsFiniteSet(S) /\ n \in Nat /\ \A s \in S : s < x
    BY PicksType
  <1>4. /\ Cardinality(S \cup {x}) = n + 1
        /\ \A k \in 1 .. n : Ascending(S \cup {x})[k] = Ascending(S)[k]
        /\ Ascending(S \cup {x})[n + 1] = x
    <2> HIDE DEF S, x
    <2> QED BY <1>1, <1>3, AscendingAppend
  <1> DEFINE s == Staged(f, p)
             r == Staged(f, p + 1)
             new == RowAt(f, x)
  <1>5. /\ s \in Seq(AllRows) /\ Len(s) = n
        /\ \A k \in 1 .. n : s[k] = RowAt(f, Ascending(S)[k])
    BY StagedType
  <1>6. /\ r \in Seq(AllRows) /\ Len(r) = n + 1
        /\ \A k \in 1 .. n + 1 : r[k] = RowAt(f, Ascending(S \cup {x})[k])
    <2>1. p + 1 \in Nat /\ Picks(f, p + 1) = S \cup {x} /\ Cardinality(S \cup {x}) = n + 1
      BY <1>1, <1>2, <1>4
    <2>2. /\ r \in Seq(AllRows) /\ Len(r) = Cardinality(Picks(f, p + 1))
          /\ \A k \in 1 .. Cardinality(Picks(f, p + 1)) :
               r[k] = RowAt(f, Ascending(Picks(f, p + 1))[k])
      BY <2>1, StagedType
    <2> HIDE DEF r, S, x, n
    <2> QED BY <2>1, <2>2
  <1>7. new \in AllRows
    BY <1>1 DEF AllRows
  <1> HIDE DEF s, r, n, x, S
  <1>0. n + 1 \in 1 .. n + 1 /\ \A k \in 1 .. n : k \in 1 .. n + 1
    BY <1>3
  <1>8. \A k \in 1 .. n : r[k] = s[k]
    BY <1>0, <1>4, <1>5, <1>6
  <1>9. r[n + 1] = new
    BY <1>0, <1>4, <1>6
  <1> HIDE DEF new
  <1>10. r = Append(s, new)
    BY <1>3, <1>5, <1>6, <1>7, <1>8, <1>9
  <1>11. Staged(f, p + 1) = Append(Staged(f, p), RowAt(f, p + 1))
    BY <1>10 DEF s, r, new, x
  <1> QED BY <1>2, <1>11 DEF S, x

LEMMA StagedNone ==
  ASSUME files \in Inputs, NEW f \in Files
  PROVE  Picks(f, 0) = {} /\ Staged(f, 0) = << >>
  <1>1. Picks(f, 0) = {}
    BY FilesAreSequences DEF Picks
  <1>2. Cardinality(Picks(f, 0)) = 0
    BY <1>1, FS_EmptySet
  <1>3. Staged(f, 0) \in Seq(AllRows) /\ Len(Staged(f, 0)) = 0
    BY <1>2, StagedType
  <1> QED BY <1>1, <1>3

(* What was staged first stays in front. *)
LEMMA StagedPrefix ==
  ASSUME files \in Inputs, NEW f \in Files, NEW p \in Nat, NEW q \in Nat, p <= q,
         NEW s \in Seq(AllRows), NEW t \in Seq(AllRows), s \o t = Staged(f, p)
  PROVE  IsPrefix(s, Staged(f, q))
  <1> DEFINE S == Picks(f, p)
             T == Picks(f, q)
             whole == Staged(f, q)
  <1>1. T \in SUBSET Nat /\ IsFiniteSet(T)
    BY PicksType
  <1>2. S \in SUBSET T /\ \A i \in S, j \in T \ S : i < j
    <2>0. \A i \in RowLines(files[f]) : i \in Nat
      BY FilesAreSequences
    <2>1. \A i \in S : i \in T
      <3>1. \A i \in Nat : i <= p => i <= q
        OBVIOUS
      <3> QED BY <2>0, <3>1 DEF Picks
    <2>2. \A i \in S, j \in T : j \notin S => i < j
      <3>1. \A i, j \in Nat : i <= p /\ ~(j <= p) => i < j
        OBVIOUS
      <3> QED BY <2>0, <3>1 DEF Picks
    <2> QED BY <2>1, <2>2
  <1>3. /\ Cardinality(S) <= Cardinality(T)
        /\ \A k \in 1 .. Cardinality(S) : Ascending(T)[k] = Ascending(S)[k]
    <2> HIDE DEF S, T
    <2> QED BY <1>1, <1>2, AscendingPrefix
  <1>4. Cardinality(S) \in Nat /\ Cardinality(T) \in Nat
    BY PicksType
  <1>5. /\ Staged(f, p) \in Seq(AllRows) /\ Len(Staged(f, p)) = Cardinality(S)
        /\ \A k \in 1 .. Cardinality(S) : Staged(f, p)[k] = RowAt(f, Ascending(S)[k])
    BY StagedType
  <1>6. /\ whole \in Seq(AllRows) /\ Len(whole) = Cardinality(T)
        /\ \A k \in 1 .. Cardinality(T) : whole[k] = RowAt(f, Ascending(T)[k])
    BY StagedType
  <1>7. \A k \in 1 .. Cardinality(S) : whole[k] = Staged(f, p)[k]
    BY <1>3, <1>4, <1>5, <1>6
  <1> HIDE DEF whole, S, T
  <1>8. /\ Len(s) \in Nat /\ Len(s) <= Len(whole)
        /\ \A k \in 1 .. Len(s) : s[k] = whole[k]
    <2>1. Len(s) \in Nat /\ Len(t) \in Nat /\ Len(s) + Len(t) = Cardinality(S)
      BY <1>5
    <2>2. \A k \in 1 .. Len(s) : s[k] = (s \o t)[k]
      OBVIOUS
    <2>3. \A k \in 1 .. Len(s) : k \in 1 .. Cardinality(S)
      BY <1>4, <2>1
    <2> QED BY <1>3, <1>4, <1>6, <1>7, <2>1, <2>2, <2>3
  <1>9. SubSeq(s, 1, Len(s)) = SubSeq(whole, 1, Len(s))
    <2>1. SubSeq(s, 1, Len(s)) = s
      OBVIOUS
    <2>2. /\ SubSeq(whole, 1, Len(s)) \in Seq(AllRows)
          /\ Len(SubSeq(whole, 1, Len(s))) = Len(s)
          /\ \A k \in 1 .. Len(s) : SubSeq(whole, 1, Len(s))[k] = whole[k]
      BY <1>6, <1>8
    <2> QED BY <1>8, <2>1, <2>2, SeqEqual
  <1> QED BY <1>8, <1>9 DEF IsPrefix, whole
---------------------------------------------------------------------------
(* What the allowlists hold after some lines of a file *)

Place == [basics |-> 1, ratings |-> 2, akas |-> 3, principals |-> 4,
          crew |-> 5, episode |-> 6, names |-> 7]

(* How much of file f has been read at line p of the n-th file *)
UpTo(f, n, p) ==
  IF Place[f] < n THEN Len(files[f]) ELSE IF Place[f] = n THEN p ELSE 0

TypedBy(p) == {RowAt("basics", i).t : i \in Picks("basics", p)}
OfYear(p) ==
  {RowAt("basics", i).t :
     i \in {j \in Picks("basics", p) : RowAt("basics", j).year = DatasetYear}}
VotedBy(p) ==
  {RowAt("ratings", i).t :
     i \in {j \in Picks("ratings", p) : RowAt("ratings", j).votes >= MinNumVotes}}
BilledBy(p) == {RowAt("principals", i).n : i \in Picks("principals", p)}
CrewAt(i) == ToSet(RowAt("crew", i).directors) \cup ToSet(RowAt("crew", i).writers)
CrewBy(p) == UNION {CrewAt(i) : i \in Picks("crew", p)}

Allowed(n, p) ==
  [type |-> IF n <= 2 THEN TypedBy(UpTo("basics", n, p)) ELSE {},
   year |-> IF n <= 2 THEN OfYear(UpTo("basics", n, p)) ELSE {},
   voted |-> IF n <= 2 THEN VotedBy(UpTo("ratings", n, p)) ELSE {},
   final |-> IF n <= 2 THEN {} ELSE Chosen,
   names |-> BilledBy(UpTo("principals", n, p)) \cup CrewBy(UpTo("crew", n, p))]

LEMMA PlaceOfFile ==
  /\ Files = {"basics", "ratings", "akas", "principals", "crew", "episode", "names"}
  /\ \A f \in Files : Place[f] \in 1 .. 7 /\ LoadOrder[Place[f]] = f
  /\ \A n \in 1 .. 7 : LoadOrder[n] \in Files /\ Place[LoadOrder[n]] = n
  /\ Len(LoadOrder) = 7
  <1>1. Len(LoadOrder) = 7 /\ DOMAIN LoadOrder = 1 .. 7
    BY DEF LoadOrder
  <1>2. /\ LoadOrder[1] = "basics" /\ LoadOrder[2] = "ratings" /\ LoadOrder[3] = "akas"
        /\ LoadOrder[4] = "principals" /\ LoadOrder[5] = "crew"
        /\ LoadOrder[6] = "episode" /\ LoadOrder[7] = "names"
    BY DEF LoadOrder
  <1>3. \A n \in 1 .. 7 : n = 1 \/ n = 2 \/ n = 3 \/ n = 4 \/ n = 5 \/ n = 6 \/ n = 7
    OBVIOUS
  <1>4. Files = {LoadOrder[n] : n \in 1 .. 7}
    BY <1>1 DEF Files, ToSet
  <1>5. /\ 1 \in 1 .. 7 /\ 2 \in 1 .. 7 /\ 3 \in 1 .. 7 /\ 4 \in 1 .. 7
        /\ 5 \in 1 .. 7 /\ 6 \in 1 .. 7 /\ 7 \in 1 .. 7
    OBVIOUS
  <1>6. Files = {"basics", "ratings", "akas", "principals", "crew", "episode", "names"}
    <2> HIDE DEF Files, LoadOrder
    <2> QED BY <1>2, <1>3, <1>4, <1>5
  <1>7. \A f \in Files : Place[f] \in 1 .. 7 /\ LoadOrder[Place[f]] = f
    <2> HIDE DEF Files, LoadOrder
    <2> QED BY <1>2, <1>5, <1>6 DEF Place
  <1>8. \A n \in 1 .. 7 : LoadOrder[n] \in Files /\ Place[LoadOrder[n]] = n
    <2> HIDE DEF Files, LoadOrder
    <2> QED BY <1>2, <1>3, <1>6 DEF Place
  <1> QED BY <1>1, <1>6, <1>7, <1>8

(* The rows that were picked of a whole file are its wanted rows. *)
LEMMA PickedAll ==
  ASSUME files \in Inputs, NEW f \in Files
  PROVE  /\ \A row : row \in RowsOf(f) /\ Selected(f, row)
              => \E i \in Picks(f, Len(files[f])) : RowAt(f, i) = row
         /\ \A i \in Picks(f, Len(files[f])) :
              RowAt(f, i) \in RowsOf(f) /\ Selected(f, RowAt(f, i))
  <1>1. \A i \in RowLines(files[f]) : i <= Len(files[f])
    BY FilesAreSequences
  <1> QED BY <1>1 DEF Picks, RowsOf, RowAt

LEMMA TypedWhole ==
  ASSUME files \in Inputs
  PROVE  Typed = TypedBy(Len(files["basics"]))
  <1>1. "basics" \in Files
    BY PlaceOfFile
  <1>2. \A row : Selected("basics", row) <=> row.type \in KeptTypes
    BY Zenon DEF Selected, Wanted
  <1>3. \A t : t \in Typed <=> t \in TypedBy(Len(files["basics"]))
    BY <1>1, <1>2, PickedAll DEF Typed, TypedBy
  <1> QED BY <1>3

(* A title has one row in basics. *)
LEMMA OneBasic ==
  ASSUME files \in Inputs,
         NEW a \in RowsOf("basics"), NEW b \in RowsOf("basics"), a.t = b.t
  PROVE  a = b
  <1>1. PICK i \in RowLines(files["basics"]) : a = files["basics"][i].row
    BY DEF RowsOf
  <1>2. PICK j \in RowLines(files["basics"]) : b = files["basics"][j].row
    BY DEF RowsOf
  <1>3. Unique(files["basics"], LAMBDA row : row.t)
    BY InputsAssumption
  <1>4. i = j
    BY <1>1, <1>2, <1>3 DEF Unique
  <1> QED BY <1>1, <1>2, <1>4

(* The union that is made after ratings is the set of chosen titles. *)
LEMMA ChosenWhole ==
  ASSUME files \in Inputs
  PROVE  Chosen = OfYear(Len(files["basics"])) \cup VotedBy(Len(files["ratings"]))
  <1> DEFINE P == Picks("basics", Len(files["basics"]))
             Q == Picks("ratings", Len(files["ratings"]))
  <1>1. "basics" \in Files /\ "ratings" \in Files
    BY PlaceOfFile
  <1>2. /\ \A row : Selected("basics", row) <=> row.type \in KeptTypes
        /\ \A row : Selected("ratings", row) <=> row.t \in Typed
    BY Zenon DEF Selected, Wanted
  <1>3. ASSUME NEW t \in Chosen
        PROVE  t \in OfYear(Len(files["basics"])) \cup VotedBy(Len(files["ratings"]))
    <2>1. t \in Typed
      BY DEF Chosen
    <2>2. CASE \E b \in RowsOf("basics") : b.t = t /\ b.year = DatasetYear
      <3>1. PICK b \in RowsOf("basics") : b.t = t /\ b.year = DatasetYear
        BY <2>2
      <3>2. PICK a \in RowsOf("basics") : a.t = t /\ a.type \in KeptTypes
        BY <2>1 DEF Typed
      <3>3. a = b
        BY <3>1, <3>2, OneBasic
      <3>4. PICK i \in P : RowAt("basics", i) = b
        BY <1>1, <1>2, <3>2, <3>3, PickedAll
      <3> QED BY <3>1, <3>4 DEF OfYear
    <2>3. CASE \E r \in RowsOf("ratings") : r.t = t /\ r.votes >= MinNumVotes
      <3>1. PICK r \in RowsOf("ratings") : r.t = t /\ r.votes >= MinNumVotes
        BY <2>3
      <3>2. PICK i \in Q : RowAt("ratings", i) = r
        BY <1>1, <1>2, <2>1, <3>1, PickedAll
      <3> QED BY <3>1, <3>2 DEF VotedBy
    <2> QED BY <2>2, <2>3 DEF Chosen
  <1>4. ASSUME NEW t \in OfYear(Len(files["basics"]))
        PROVE  t \in Chosen
    <2>1. PICK i \in P : RowAt("basics", i).t = t /\ RowAt("basics", i).year = DatasetYear
      BY DEF OfYear
    <2>2. RowAt("basics", i) \in RowsOf("basics") /\ RowAt("basics", i).type \in KeptTypes
      BY <1>1, <1>2, PickedAll
    <2>3. t \in Typed
      BY <2>1, <2>2 DEF Typed
    <2> QED BY <2>1, <2>2, <2>3 DEF Chosen
  <1>5. ASSUME NEW t \in VotedBy(Len(files["ratings"]))
        PROVE  t \in Chosen
    <2>1. PICK i \in Q : RowAt("ratings", i).t = t /\ RowAt("ratings", i).votes >= MinNumVotes
      BY DEF VotedBy
    <2>2. RowAt("ratings", i) \in RowsOf("ratings") /\ RowAt("ratings", i).t \in Typed
      BY <1>1, <1>2, PickedAll
    <2> QED BY <2>1, <2>2 DEF Chosen
  <1>6. \A t : t \in Chosen <=>
          t \in OfYear(Len(files["basics"])) \cup VotedBy(Len(files["ratings"]))
    BY <1>3, <1>4, <1>5
  <1> QED BY <1>6

(* So are the names that were met in principals and crew. *)
LEMMA CreditedWhole ==
  ASSUME files \in Inputs
  PROVE  Credited = BilledBy(Len(files["principals"])) \cup CrewBy(Len(files["crew"]))
  <1>1. "principals" \in Files /\ "crew" \in Files
    BY PlaceOfFile
  <1>2. /\ \A row : Selected("principals", row) <=> Wanted("principals", row)
        /\ \A row : Selected("crew", row) <=> Wanted("crew", row)
    BY DEF Selected
  <1> DEFINE P == {row \in RowsOf("principals") : Wanted("principals", row)}
             C == {row \in RowsOf("crew") : Wanted("crew", row)}
             Of(c) == ToSet(c.directors) \cup ToSet(c.writers)
  <1>3. \A n : n \in {p.n : p \in P} <=> n \in BilledBy(Len(files["principals"]))
    BY <1>1, <1>2, PickedAll DEF BilledBy
  <1>4. \A n : (\E c \in C : n \in Of(c)) <=> n \in CrewBy(Len(files["crew"]))
    <2> HIDE DEF C
    <2>1. \A row : row \in C <=> \E i \in Picks("crew", Len(files["crew"])) : RowAt("crew", i) = row
      BY <1>1, <1>2, PickedAll DEF C
    <2> QED BY <2>1 DEF CrewBy, CrewAt
  <1>5. \A n : n \in UNION {Of(c) : c \in C} <=> \E c \in C : n \in Of(c)
    OBVIOUS
  <1>6. \A n : n \in Credited <=> n \in {p.n : p \in P} \/ n \in UNION {Of(c) : c \in C}
    BY DEF Credited
  <1>7. \A n : n \in Credited <=>
          n \in BilledBy(Len(files["principals"])) \cup CrewBy(Len(files["crew"]))
    <2> HIDE DEF P, C, Of
    <2> QED BY <1>3, <1>4, <1>5, <1>6
  <1> QED BY <1>7
---------------------------------------------------------------------------
(* How the allowlists follow the lines *)

LEMMA SevenFiles ==
  ASSUME NEW n \in 1 .. 7
  PROVE  \/ n = 1 /\ LoadOrder[n] = "basics"
         \/ n = 2 /\ LoadOrder[n] = "ratings"
         \/ n = 3 /\ LoadOrder[n] = "akas"
         \/ n = 4 /\ LoadOrder[n] = "principals"
         \/ n = 5 /\ LoadOrder[n] = "crew"
         \/ n = 6 /\ LoadOrder[n] = "episode"
         \/ n = 7 /\ LoadOrder[n] = "names"
  BY DEF LoadOrder

(* The filter, which knows only what was read, decides as the files do. *)
LEMMA FilterIsSelection ==
  ASSUME files \in Inputs, NEW n \in 1 .. 7, at = n, NEW p \in Nat,
         allow = Allowed(n, p), NEW row
  PROVE  FilterRaw(row) <=> Selected(LoadOrder[n], row)
  <1>0. File = LoadOrder[n]
    BY DEF File
  <1>1. CASE n = 1
    <2>1. LoadOrder[n] = "basics"
      BY <1>1, SevenFiles
    <2>2. FilterRaw(row) <=> row.type \in KeptTypes
      BY <1>0, <2>1, Zenon DEF FilterRaw
    <2>3. Selected("basics", row) <=> row.type \in KeptTypes
      BY Zenon DEF Selected, Wanted
    <2> QED BY <2>1, <2>2, <2>3
  <1>2. CASE n = 2
    <2>1. LoadOrder[n] = "ratings"
      BY <1>2, SevenFiles
    <2>2. FilterRaw(row) <=> row.t \in allow.type
      BY <1>0, <2>1, Zenon DEF FilterRaw
    <2>3. Selected("ratings", row) <=> row.t \in Typed
      BY Zenon DEF Selected, Wanted
    <2>4. UpTo("basics", n, p) = Len(files["basics"])
      BY <1>2 DEF UpTo, Place
    <2>5. allow.type = TypedBy(UpTo("basics", n, p))
      BY <1>2 DEF Allowed
    <2> QED BY <2>1, <2>2, <2>3, <2>4, <2>5, TypedWhole
  <1>3. CASE n \in 3 .. 6
    <2>1. allow.final = Chosen
      BY <1>3 DEF Allowed
    <2>2. CASE LoadOrder[n] \in {"akas", "crew"}
      <3>1. FilterRaw(row) <=> row.t \in allow.final
        BY <1>0, <2>2, Zenon DEF FilterRaw
      <3>2. Selected(LoadOrder[n], row) <=> row.t \in Chosen
        BY <2>2, Zenon DEF Selected, Wanted
      <3> QED BY <2>1, <3>1, <3>2
    <2>3. CASE LoadOrder[n] = "principals"
      <3>0. File = "principals"
        BY <1>0, <2>3
      <3>1. FilterRaw(row) <=> row.t \in allow.final /\ row.cat \in KeptCategories
        BY <3>0, Zenon DEF FilterRaw
      <3>2. Selected("principals", row) <=> row.t \in Chosen /\ row.cat \in KeptCategories
        BY Zenon DEF Selected, Wanted
      <3> QED BY <2>1, <2>3, <3>1, <3>2
    <2>4. CASE LoadOrder[n] = "episode"
      <3>1. FilterRaw(row) <=> row.parent \in allow.final
        BY <1>0, <2>4, Zenon DEF FilterRaw
      <3>2. Selected("episode", row) <=> row.parent \in Chosen
        BY Zenon DEF Selected, Wanted
      <3> QED BY <2>1, <2>4, <3>1, <3>2
    <2> QED BY <1>3, <2>2, <2>3, <2>4, SevenFiles
  <1>4. CASE n = 7
    <2>1. LoadOrder[n] = "names"
      BY <1>4, SevenFiles
    <2>2. FilterRaw(row) <=> row.n \in allow.names
      BY <1>0, <2>1, Zenon DEF FilterRaw
    <2>3. Selected("names", row) <=> row.n \in Credited
      BY Zenon DEF Selected
    <2>4. /\ UpTo("principals", n, p) = Len(files["principals"])
          /\ UpTo("crew", n, p) = Len(files["crew"])
      BY <1>4 DEF UpTo, Place
    <2>5. allow.names = BilledBy(UpTo("principals", n, p)) \cup CrewBy(UpTo("crew", n, p))
      BY DEF Allowed
    <2> QED BY <2>1, <2>2, <2>3, <2>4, <2>5, CreditedWhole
  <1> QED BY <1>1, <1>2, <1>3, <1>4

(* A line that is not taken changes nothing. *)
LEMMA AllowedSkip ==
  ASSUME NEW n \in 1 .. 7, NEW p \in Nat,
         Picks(LoadOrder[n], p + 1) = Picks(LoadOrder[n], p)
  PROVE  Allowed(n, p + 1) = Allowed(n, p)
  <1>1. \A f \in {"basics", "ratings", "principals", "crew"} :
          Picks(f, UpTo(f, n, p + 1)) = Picks(f, UpTo(f, n, p))
    <2> SUFFICES ASSUME NEW f \in {"basics", "ratings", "principals", "crew"}
                 PROVE  Picks(f, UpTo(f, n, p + 1)) = Picks(f, UpTo(f, n, p))
      OBVIOUS
    <2>1. CASE f = LoadOrder[n]
      <3>1. UpTo(f, n, p + 1) = p + 1 /\ UpTo(f, n, p) = p
        BY <2>1, PlaceOfFile DEF UpTo
      <3> QED BY <2>1, <3>1
    <2>2. CASE f # LoadOrder[n]
      <3>1. f \in Files
        BY PlaceOfFile
      <3>2. Place[f] # n
        BY <2>2, <3>1, PlaceOfFile
      <3> QED BY <3>2 DEF UpTo
    <2> QED BY <2>1, <2>2
  <1> QED BY <1>1 DEF Allowed, TypedBy, OfYear, VotedBy, BilledBy, CrewBy

LEMMA NamesReplaced ==
  ASSUME NEW a, NEW new, NEW t, NEW y, NEW v, NEW f, NEW m,
         a = [type |-> t, year |-> y, voted |-> v, final |-> f, names |-> m]
  PROVE  [a EXCEPT !.names = new]
           = [type |-> t, year |-> y, voted |-> v, final |-> f, names |-> new]
  OBVIOUS

(* OnRecord adds what the taken row says. *)
LEMMA AllowedTake ==
  ASSUME NEW n \in 1 .. 7, at = n, NEW p \in Nat, allow = Allowed(n, p),
         Picks(LoadOrder[n], p + 1) = Picks(LoadOrder[n], p) \cup {p + 1}
  PROVE  OnRecord(RowAt(LoadOrder[n], p + 1)) = Allowed(n, p + 1)
  <1> DEFINE row == RowAt(LoadOrder[n], p + 1)
  <1> SUFFICES OnRecord(row) = Allowed(n, p + 1)
    OBVIOUS
  <1>1. File = LoadOrder[n]
    BY DEF File
  <1>2. \A f \in Files : f # LoadOrder[n] => UpTo(f, n, p + 1) = UpTo(f, n, p)
    <2>1. \A f \in Files : f # LoadOrder[n] => Place[f] # n
      BY PlaceOfFile
    <2> QED BY <2>1 DEF UpTo
  <1>3. \A q \in Nat : UpTo(LoadOrder[n], n, q) = q
    BY PlaceOfFile DEF UpTo
  <1>4. {"basics", "ratings", "principals", "crew"} \in SUBSET Files
    BY PlaceOfFile
  <1>5. /\ allow = [type |-> allow.type, year |-> allow.year, voted |-> allow.voted,
                    final |-> allow.final, names |-> allow.names]
        /\ n <= 2 => allow.final = {}
        /\ ~(n <= 2) => /\ allow.type = {} /\ allow.year = {} /\ allow.voted = {}
                        /\ allow.final = Chosen
        /\ n <= 2 => /\ allow.type = TypedBy(UpTo("basics", n, p))
                     /\ allow.year = OfYear(UpTo("basics", n, p))
                     /\ allow.voted = VotedBy(UpTo("ratings", n, p))
        /\ allow.names = BilledBy(UpTo("principals", n, p)) \cup CrewBy(UpTo("crew", n, p))
    BY DEF Allowed
  <1>6. /\ n <= 2 => Allowed(n, p + 1) =
              [type |-> TypedBy(UpTo("basics", n, p + 1)),
               year |-> OfYear(UpTo("basics", n, p + 1)),
               voted |-> VotedBy(UpTo("ratings", n, p + 1)),
               final |-> {},
               names |-> BilledBy(UpTo("principals", n, p + 1))
                           \cup CrewBy(UpTo("crew", n, p + 1))]
        /\ ~(n <= 2) => Allowed(n, p + 1) =
              [type |-> {}, year |-> {}, voted |-> {}, final |-> Chosen,
               names |-> BilledBy(UpTo("principals", n, p + 1))
                           \cup CrewBy(UpTo("crew", n, p + 1))]
    BY DEF Allowed
  <1>7. CASE n = 1
    <2>0. LoadOrder[n] = "basics"
      BY <1>7, SevenFiles
    <2>1. OnRecord(row) = [allow EXCEPT !.type = @ \cup {row.t},
                             !.year = IF row.year = DatasetYear THEN @ \cup {row.t} ELSE @]
      BY <1>1, <2>0, Zenon DEF OnRecord
    <2>2. TypedBy(p + 1) = TypedBy(p) \cup {row.t}
      BY <2>0 DEF TypedBy
    <2>3. OfYear(p + 1) = IF row.year = DatasetYear THEN OfYear(p) \cup {row.t} ELSE OfYear(p)
      BY <2>0 DEF OfYear
    <2>4. /\ UpTo("basics", n, p + 1) = p + 1 /\ UpTo("basics", n, p) = p
          /\ UpTo("ratings", n, p + 1) = UpTo("ratings", n, p)
          /\ UpTo("principals", n, p + 1) = UpTo("principals", n, p)
          /\ UpTo("crew", n, p + 1) = UpTo("crew", n, p)
      BY <1>2, <1>3, <1>4, <2>0
    <2> HIDE DEF row
    <2>5. OnRecord(row) =
            [type |-> TypedBy(p + 1), year |-> OfYear(p + 1), voted |-> allow.voted,
             final |-> allow.final, names |-> allow.names]
      <3>1. allow.type = TypedBy(p) /\ allow.year = OfYear(p)
        BY <1>7, <1>5, <2>4
      <3> QED BY <1>5, <2>1, <2>2, <2>3, <3>1
    <2>6. /\ allow.voted = VotedBy(UpTo("ratings", n, p + 1)) /\ allow.final = {}
          /\ allow.names = BilledBy(UpTo("principals", n, p + 1))
                             \cup CrewBy(UpTo("crew", n, p + 1))
      BY <1>7, <1>5, <2>4
    <2>7. n <= 2
      BY <1>7
    <2> QED BY <1>6, <2>4, <2>5, <2>6, <2>7
  <1>8. CASE n = 2
    <2>0. LoadOrder[n] = "ratings"
      BY <1>8, SevenFiles
    <2>1. OnRecord(row) =
            [allow EXCEPT !.voted = IF row.votes >= MinNumVotes THEN @ \cup {row.t} ELSE @]
      BY <1>1, <2>0, Zenon DEF OnRecord
    <2>2. VotedBy(p + 1) =
            IF row.votes >= MinNumVotes THEN VotedBy(p) \cup {row.t} ELSE VotedBy(p)
      BY <2>0 DEF VotedBy
    <2>4. /\ UpTo("ratings", n, p + 1) = p + 1 /\ UpTo("ratings", n, p) = p
          /\ UpTo("basics", n, p + 1) = UpTo("basics", n, p)
          /\ UpTo("principals", n, p + 1) = UpTo("principals", n, p)
          /\ UpTo("crew", n, p + 1) = UpTo("crew", n, p)
      BY <1>2, <1>3, <1>4, <2>0
    <2> HIDE DEF row
    <2>5. OnRecord(row) =
            [type |-> allow.type, year |-> allow.year, voted |-> VotedBy(p + 1),
             final |-> allow.final, names |-> allow.names]
      <3>1. allow.voted = VotedBy(p)
        BY <1>8, <1>5, <2>4
      <3> QED BY <1>5, <2>1, <2>2, <3>1
    <2>6. /\ allow.type = TypedBy(UpTo("basics", n, p + 1))
          /\ allow.year = OfYear(UpTo("basics", n, p + 1)) /\ allow.final = {}
          /\ allow.names = BilledBy(UpTo("principals", n, p + 1))
                             \cup CrewBy(UpTo("crew", n, p + 1))
      BY <1>8, <1>5, <2>4
    <2>7. n <= 2
      BY <1>8
    <2> QED BY <1>6, <2>4, <2>5, <2>6, <2>7
  <1>9. CASE n = 4
    <2>0. LoadOrder[n] = "principals"
      BY <1>9, SevenFiles
    <2>1. OnRecord(row) = [allow EXCEPT !.names = @ \cup {row.n}]
      BY <1>1, <2>0, Zenon DEF OnRecord
    <2>2. BilledBy(p + 1) = BilledBy(p) \cup {row.n}
      BY <2>0 DEF BilledBy
    <2>4. /\ UpTo("principals", n, p + 1) = p + 1 /\ UpTo("principals", n, p) = p
          /\ UpTo("crew", n, p + 1) = UpTo("crew", n, p)
      BY <1>2, <1>3, <1>4, <2>0
    <2> HIDE DEF row
    <2>5. OnRecord(row) =
            [type |-> {}, year |-> {}, voted |-> {}, final |-> Chosen,
             names |-> allow.names \cup {row.n}]
      <3>1. allow = [type |-> {}, year |-> {}, voted |-> {}, final |-> Chosen,
                     names |-> allow.names]
        BY <1>9, <1>5
      <3> DEFINE new == allow.names \cup {row.n}
      <3>2. OnRecord(row) = [allow EXCEPT !.names = new]
        BY <2>1
      <3> HIDE DEF row, new
      <3>3. OnRecord(row) =
              [type |-> {}, year |-> {}, voted |-> {}, final |-> Chosen, names |-> new]
        BY <3>1, <3>2, NamesReplaced
      <3> QED BY <3>3 DEF new
    <2>6. allow.names \cup {row.n} = BilledBy(p + 1) \cup CrewBy(UpTo("crew", n, p))
      BY <1>5, <2>2, <2>4
    <2>7. ~(n <= 2)
      BY <1>9
    <2>8. Allowed(n, p + 1) =
            [type |-> {}, year |-> {}, voted |-> {}, final |-> Chosen,
             names |-> BilledBy(UpTo("principals", n, p + 1))
                         \cup CrewBy(UpTo("crew", n, p + 1))]
      BY <1>6, <2>7
    <2>9. BilledBy(UpTo("principals", n, p + 1)) \cup CrewBy(UpTo("crew", n, p + 1))
            = allow.names \cup {row.n}
      BY <2>4, <2>6
    <2> QED BY <2>5, <2>8, <2>9
  <1>10. CASE n = 5
    <2>0. LoadOrder[n] = "crew"
      BY <1>10, SevenFiles
    <2>1. OnRecord(row) =
            [allow EXCEPT !.names = @ \cup ToSet(row.directors) \cup ToSet(row.writers)]
      BY <1>1, <2>0, Zenon DEF OnRecord
    <2>2. CrewBy(p + 1) = CrewBy(p) \cup CrewAt(p + 1)
      BY <2>0 DEF CrewBy
    <2>3. CrewAt(p + 1) = ToSet(row.directors) \cup ToSet(row.writers)
      BY <2>0 DEF CrewAt
    <2>4. /\ UpTo("crew", n, p + 1) = p + 1 /\ UpTo("crew", n, p) = p
          /\ UpTo("principals", n, p + 1) = UpTo("principals", n, p)
      BY <1>2, <1>3, <1>4, <2>0
    <2> HIDE DEF row
    <2> DEFINE both == ToSet(row.directors) \cup ToSet(row.writers)
    <2>5. OnRecord(row) =
            [type |-> {}, year |-> {}, voted |-> {}, final |-> Chosen,
             names |-> allow.names \cup both]
      <3>1. allow = [type |-> {}, year |-> {}, voted |-> {}, final |-> Chosen,
                     names |-> allow.names]
        BY <1>10, <1>5
      <3> DEFINE new == allow.names \cup both
      <3>2. OnRecord(row) = [allow EXCEPT !.names = new]
        <4>1. new = allow.names \cup ToSet(row.directors) \cup ToSet(row.writers)
          OBVIOUS
        <4> HIDE DEF new, row
        <4> QED BY <2>1, <4>1
      <3> HIDE DEF both, row, new
      <3>3. OnRecord(row) =
              [type |-> {}, year |-> {}, voted |-> {}, final |-> Chosen, names |-> new]
        BY <3>1, <3>2, NamesReplaced
      <3> QED BY <3>3 DEF new
    <2>6. allow.names \cup both = BilledBy(UpTo("principals", n, p)) \cup CrewBy(p + 1)
      BY <1>5, <2>2, <2>3, <2>4
    <2> HIDE DEF both
    <2>7. ~(n <= 2)
      BY <1>10
    <2>8. Allowed(n, p + 1) =
            [type |-> {}, year |-> {}, voted |-> {}, final |-> Chosen,
             names |-> BilledBy(UpTo("principals", n, p + 1))
                         \cup CrewBy(UpTo("crew", n, p + 1))]
      BY <1>6, <2>7
    <2>9. BilledBy(UpTo("principals", n, p + 1)) \cup CrewBy(UpTo("crew", n, p + 1))
            = allow.names \cup both
      BY <2>4, <2>6
    <2> QED BY <2>5, <2>8, <2>9
  <1>11. CASE n \in {3, 6, 7}
    <2>0. LoadOrder[n] \in {"akas", "episode", "names"}
      BY <1>11, SevenFiles
    <2>1. OnRecord(row) = allow
      BY <1>1, <2>0, Zenon DEF OnRecord
    <2>4. /\ UpTo("crew", n, p + 1) = UpTo("crew", n, p)
          /\ UpTo("principals", n, p + 1) = UpTo("principals", n, p)
      BY <1>2, <1>4, <2>0
    <2>5. ~(n <= 2)
      BY <1>11
    <2> HIDE DEF row
    <2> QED BY <1>5, <1>6, <2>1, <2>4, <2>5
  <1> QED BY <1>7, <1>8, <1>9, <1>10, <1>11

(* Between two files, and between ratings and akas the sets become one *)
LEMMA AllowedMerge ==
  ASSUME files \in Inputs, NEW n \in 1 .. 6, at = n,
         allow = Allowed(n, Len(files[LoadOrder[n]]))
  PROVE  Merged(allow) = Allowed(n + 1, 0)
  <1> DEFINE whole == Len(files[LoadOrder[n]])
  <1>0. File = LoadOrder[n] /\ n \in 1 .. 7
    BY DEF File
  <1>1. \A f \in Files : UpTo(f, n, whole) = UpTo(f, n + 1, 0)
    <2> SUFFICES ASSUME NEW f \in Files
                 PROVE  UpTo(f, n, whole) = UpTo(f, n + 1, 0)
      OBVIOUS
    <2>1. Place[f] \in 1 .. 7 /\ (Place[f] = n => f = LoadOrder[n])
      BY PlaceOfFile
    <2>2. CASE Place[f] < n
      BY <2>1, <2>2 DEF UpTo
    <2>3. CASE Place[f] = n
      BY <2>1, <2>3 DEF UpTo
    <2>4. CASE Place[f] > n
      BY <2>1, <2>4 DEF UpTo
    <2> QED BY <2>1, <2>2, <2>3, <2>4
  <1>2. {"basics", "ratings", "principals", "crew"} \in SUBSET Files
    BY PlaceOfFile
  <1>3. CASE n = 2
    <2>1. File = "ratings"
      BY <1>0, <1>3, SevenFiles
    <2>2. Merged(allow) = [NoAllow EXCEPT !.final = allow.year \cup allow.voted]
      BY <2>1 DEF Merged
    <2>3. /\ UpTo("basics", n, whole) = Len(files["basics"])
          /\ UpTo("ratings", n, whole) = Len(files["ratings"])
          /\ UpTo("principals", n + 1, 0) = 0 /\ UpTo("crew", n + 1, 0) = 0
      BY <1>0, <1>3, <2>1 DEF UpTo, Place
    <2>4. allow.year \cup allow.voted = Chosen
      BY <1>3, <2>3, ChosenWhole DEF Allowed
    <2>5. BilledBy(0) = {} /\ CrewBy(0) = {}
      BY <1>2, StagedNone DEF BilledBy, CrewBy
    <2>6. Merged(allow) =
            [type |-> {}, year |-> {}, voted |-> {}, final |-> Chosen, names |-> {}]
      BY <2>2, <2>4 DEF NoAllow
    <2>7. Allowed(3, 0) =
            [type |-> {}, year |-> {}, voted |-> {}, final |-> Chosen,
             names |-> BilledBy(UpTo("principals", 3, 0)) \cup CrewBy(UpTo("crew", 3, 0))]
      BY DEF Allowed
    <2>8. n + 1 = 3
      BY <1>3
    <2>9. BilledBy(UpTo("principals", 3, 0)) \cup CrewBy(UpTo("crew", 3, 0)) = {}
      BY <2>3, <2>5, <2>8
    <2> QED BY <2>6, <2>7, <2>8, <2>9
  <1>4. CASE n # 2
    <2>1. File # "ratings"
      BY <1>0, <1>4, SevenFiles
    <2>2. Merged(allow) = Allowed(n, whole)
      BY <2>1 DEF Merged
    <2>3. n <= 2 <=> n + 1 <= 2
      BY <1>4
    <2> HIDE DEF whole
    <2> QED BY <1>1, <1>2, <2>2, <2>3 DEF Allowed
  <1> QED BY <1>3, <1>4

(* Before the first line *)
LEMMA AllowedFirst ==
  ASSUME files \in Inputs
  PROVE  Allowed(1, 0) = NoAllow
  <1>1. \A f \in {"basics", "ratings", "principals", "crew"} : UpTo(f, 1, 0) = 0
    BY DEF UpTo, Place
  <1>2. \A f \in {"basics", "ratings", "principals", "crew"} : Picks(f, 0) = {}
    BY PlaceOfFile, StagedNone
  <1>3. /\ TypedBy(0) = {} /\ OfYear(0) = {} /\ VotedBy(0) = {}
        /\ BilledBy(0) = {} /\ CrewBy(0) = {}
    BY <1>2 DEF TypedBy, OfYear, VotedBy, BilledBy, CrewBy
  <1> QED BY <1>1, <1>3 DEF Allowed, NoAllow
---------------------------------------------------------------------------
(* The files do not change while they are read.                            *)

LEMMA SameChosen ==
  ASSUME files' = files
  PROVE  Chosen' = Chosen
  BY DEF Chosen, Typed, RowsOf

LEMMA SameSelected ==
  ASSUME files' = files, NEW f, NEW row
  PROVE  Selected(f, row)' <=> Selected(f, row)
  <1>1. Wanted(f, row)' <=> Wanted(f, row)
    BY SameChosen DEF Wanted, Typed, RowsOf
  <1>2. Credited' = Credited
    BY SameChosen DEF Wanted, Typed, RowsOf, Credited
  <1> QED BY <1>1, <1>2 DEF Selected

LEMMA SamePicks ==
  ASSUME files' = files, NEW f, NEW p
  PROVE  /\ Picks(f, p)' = Picks(f, p)
         /\ Staged(f, p)' = Staged(f, p)
         /\ Selection(f, files[f])' = Selection(f, files[f])
  <1>1. Picks(f, p)' = Picks(f, p)
    BY SameSelected DEF Picks, RowAt
  <1>2. Staged(f, p)' = Staged(f, p)
    BY <1>1 DEF Staged, RowAt
  <1>3. \A row : Selected(f, row)' <=> Selected(f, row)
    BY SameSelected
  <1>4. Selection(f, files[f])' = Selection(f, files[f])
    BY <1>3 DEF Selection
  <1> QED BY <1>1, <1>2, <1>4

LEMMA SameAllowed ==
  ASSUME files' = files, NEW n, NEW p
  PROVE  Allowed(n, p)' = Allowed(n, p)
  <1>1. \A f, q : Picks(f, q)' = Picks(f, q)
    BY SamePicks
  <1>2. \A f : UpTo(f, n, p)' = UpTo(f, n, p)
    BY DEF UpTo
  <1>3. Chosen' = Chosen
    BY SameChosen
  <1>4. /\ \A q : TypedBy(q)' = TypedBy(q) /\ OfYear(q)' = OfYear(q)
        /\ \A q : VotedBy(q)' = VotedBy(q) /\ BilledBy(q)' = BilledBy(q)
        /\ \A q : CrewBy(q)' = CrewBy(q)
    BY <1>1 DEF TypedBy, OfYear, VotedBy, BilledBy, CrewBy, CrewAt, RowAt
  <1>5. /\ TypedBy(UpTo("basics", n, p))' = TypedBy(UpTo("basics", n, p))
        /\ OfYear(UpTo("basics", n, p))' = OfYear(UpTo("basics", n, p))
        /\ VotedBy(UpTo("ratings", n, p))' = VotedBy(UpTo("ratings", n, p))
        /\ BilledBy(UpTo("principals", n, p))' = BilledBy(UpTo("principals", n, p))
        /\ CrewBy(UpTo("crew", n, p))' = CrewBy(UpTo("crew", n, p))
    BY <1>2, <1>4
  <1> QED BY <1>3, <1>5 DEF Allowed
---------------------------------------------------------------------------
(* What a load has done after each line: the tables of the files before    *)
(* the current one hold all their selected rows, the current one those up  *)
(* to its line but for the rows of the CopyFrom under way, and the         *)
(* allowlists hold what these lines say.                                   *)
LoadInvariant ==
  /\ files \in Inputs
  /\ at \in 1 .. 7
  /\ pos \in 0 .. Len(Lines)
  /\ batch \in Seq(AllRows)
  /\ stg \in [Files -> Seq(AllRows)]
  /\ \A f \in Files : f # File => stg[f] = Staged(f, UpTo(f, at, pos))
  /\ stage = "copy" =>
       /\ headerRead <=> \E j \in 1 .. pos : Lines[j] # Blank
       /\ exhausted => pos = Len(Lines)
       /\ allow = Allowed(at, pos)
       /\ stg[File] \o batch = Staged(File, pos)
  /\ stage = "failed" => IsPrefix(stg[File], Staged(File, Len(Lines)))
  /\ stage \notin {"copy", "failed"} => at = 7 /\ stg[File] = Staged(File, Len(Lines))

(* The invariant in the next state, said of the files as they are now *)
LEMMA LoadedNext ==
  ASSUME files \in Inputs, files' = files,
         NEW n \in 1 .. 7, at' = n,
         NEW p \in 0 .. Len(files[LoadOrder[n]]), pos' = p,
         batch' \in Seq(AllRows),
         stg' \in [Files -> Seq(AllRows)],
         \A f \in Files : f # LoadOrder[n] => stg'[f] = Staged(f, UpTo(f, n, p)),
         stage' = "copy" =>
           /\ headerRead' <=> \E j \in 1 .. p : files[LoadOrder[n]][j] # Blank
           /\ exhausted' => p = Len(files[LoadOrder[n]])
           /\ allow' = Allowed(n, p)
           /\ stg'[LoadOrder[n]] \o batch' = Staged(LoadOrder[n], p),
         stage' = "failed" =>
           IsPrefix(stg'[LoadOrder[n]], Staged(LoadOrder[n], Len(files[LoadOrder[n]]))),
         stage' \notin {"copy", "failed"} =>
           /\ n = 7
           /\ stg'[LoadOrder[n]] = Staged(LoadOrder[n], Len(files[LoadOrder[n]]))
  PROVE  LoadInvariant'
  <1>0. File' = LoadOrder[n] /\ Lines' = files[LoadOrder[n]]
    BY DEF File, Lines
  <1>1. AllRows' = AllRows
    BY DEF AllRows, RowAt
  <1>2. \A f, q : Staged(f, q)' = Staged(f, q)
    BY SamePicks
  <1>3. \A f : UpTo(f, n, p)' = UpTo(f, n, p)
    BY DEF UpTo
  <1>4. \A f \in Files : f # LoadOrder[n] => stg'[f] = Staged(f, UpTo(f, at, pos))'
    <2> SUFFICES ASSUME NEW f \in Files, f # LoadOrder[n]
                 PROVE  stg'[f] = Staged(f, UpTo(f, at, pos))'
      OBVIOUS
    <2>1. PICK q : q = UpTo(f, n, p)
      OBVIOUS
    <2>2. UpTo(f, at, pos)' = q
      BY <1>3, <2>1 DEF UpTo
    <2>3. stg'[f] = Staged(f, q)
      BY <2>1
    <2> QED BY <1>2, <2>2, <2>3
  <1>5. Allowed(at, pos)' = Allowed(n, p)
    BY SameAllowed
  <1>6. Staged(File, pos)' = Staged(LoadOrder[n], p)
    BY <1>0, <1>2
  <1>7. Staged(File, Len(Lines))' = Staged(LoadOrder[n], Len(files[LoadOrder[n]]))
    <2>1. PICK q : q = Len(files[LoadOrder[n]])
      OBVIOUS
    <2>2. Len(Lines)' = q
      BY <1>0, <2>1
    <2> QED BY <1>0, <1>2, <2>1, <2>2
  <1> QED BY <1>0, <1>1, <1>4, <1>5, <1>6, <1>7 DEF LoadInvariant

LEMMA InitLoaded == Init => LoadInvariant
  <1> SUFFICES ASSUME Init PROVE LoadInvariant
    OBVIOUS
  <1>1. /\ files \in Inputs /\ stage = "copy" /\ at = 1 /\ pos = 0
        /\ headerRead = FALSE /\ exhausted = FALSE /\ batch = << >>
        /\ allow = NoAllow /\ stg = [f \in Files |-> << >>]
    BY DEF Init, LoadInit
  <1>2. at \in 1 .. 7 /\ File \in Files
    BY <1>1, PlaceOfFile DEF File
  <1>3. Len(Lines) \in Nat
    BY <1>1, <1>2, FilesAreSequences DEF Lines
  <1>4. \A f \in Files : stg[f] = Staged(f, 0)
    BY <1>1, StagedNone
  <1>5. \A f \in Files : UpTo(f, 1, 0) = 0
    BY PlaceOfFile DEF UpTo
  <1>6. stg[File] \o batch = Staged(File, 0)
    <2>1. stg[File] = << >> /\ Staged(File, 0) = << >>
      BY <1>1, <1>2, StagedNone
    <2> QED BY <1>1, <2>1
  <1>7. pos \in 0 .. Len(Lines) /\ 1 .. pos = {}
    BY <1>1, <1>3
  <1>8. allow = Allowed(at, pos)
    BY <1>1, AllowedFirst
  <1>9. batch \in Seq(AllRows) /\ stg \in [Files -> Seq(AllRows)]
    BY <1>1
  <1> QED BY <1>1, <1>2, <1>4, <1>5, <1>6, <1>7, <1>8, <1>9 DEF LoadInvariant

(* The reader has read one line more, or found the end. *)
LEMMA ReadKeeps ==
  ASSUME LoadInvariant, stage = "copy",
         UNCHANGED <<input, stage, at, stg>>,
         NEW n \in 1 .. 7, at = n, NEW p \in 0 .. Len(files[LoadOrder[n]]), pos' = p,
         batch' \in Seq(AllRows),
         headerRead' <=> \E j \in 1 .. p : files[LoadOrder[n]][j] # Blank,
         exhausted' => p = Len(files[LoadOrder[n]]),
         allow' = Allowed(n, p),
         stg[LoadOrder[n]] \o batch' = Staged(LoadOrder[n], p)
  PROVE  LoadInvariant'
  <1>1. files \in Inputs /\ stg \in [Files -> Seq(AllRows)]
    BY DEF LoadInvariant
  <1>2. \A f \in Files : f # LoadOrder[n] => stg[f] = Staged(f, UpTo(f, n, p))
    <2>1. \A f \in Files : f # LoadOrder[n] => stg[f] = Staged(f, UpTo(f, n, pos))
      BY DEF LoadInvariant, File
    <2>2. \A f \in Files : f # LoadOrder[n] => UpTo(f, n, pos) = UpTo(f, n, p)
      BY PlaceOfFile DEF UpTo
    <2> QED BY <2>1, <2>2
  <1>3. /\ files' = files /\ at' = n /\ stg' = stg /\ stage' = "copy"
    BY DEF input
  <1> QED BY <1>1, <1>2, <1>3, LoadedNext

LEMMA EndOfFileKeeps == LoadInvariant /\ EndOfFile => LoadInvariant'
  <1> SUFFICES ASSUME LoadInvariant, EndOfFile PROVE LoadInvariant'
    OBVIOUS
  <1>1. PICK n \in 1 .. 7 : n = at
    BY DEF LoadInvariant
  <1>2. PICK p \in 0 .. Len(files[LoadOrder[n]]) : p = pos
    BY <1>1 DEF LoadInvariant, File, Lines
  <1>3. /\ stage = "copy" /\ p = Len(files[LoadOrder[n]])
        /\ UNCHANGED <<input, stage, at, stg>>
        /\ pos' = p /\ headerRead' = headerRead /\ batch' = batch /\ allow' = allow
    BY <1>1, <1>2 DEF EndOfFile, Reading, File, Lines
  <1>4. /\ batch \in Seq(AllRows)
        /\ headerRead <=> \E j \in 1 .. p : files[LoadOrder[n]][j] # Blank
        /\ allow = Allowed(n, p)
        /\ stg[LoadOrder[n]] \o batch = Staged(LoadOrder[n], p)
    BY <1>1, <1>2, <1>3 DEF LoadInvariant, File, Lines
  <1> QED BY <1>1, <1>3, <1>4, ReadKeeps
(* Line p + 1 of the n-th file is read next; what is known before it *)
ReadingAt(n, p) ==
  /\ at = n /\ pos = p /\ File = LoadOrder[n] /\ File \in Files
  /\ p \in 0 .. Len(files[LoadOrder[n]])
  /\ p + 1 \in 0 .. Len(files[LoadOrder[n]])
  /\ CurrentLine = files[LoadOrder[n]][p + 1]
  /\ AtEof => p + 1 = Len(files[LoadOrder[n]])
  /\ headerRead <=> \E j \in 1 .. p : files[LoadOrder[n]][j] # Blank
  /\ allow = Allowed(n, p)
  /\ stg[LoadOrder[n]] \o batch = Staged(LoadOrder[n], p)
  /\ p + 1 \in RowLines(files[LoadOrder[n]]) <=> CurrentLine # Blank /\ headerRead
  /\ (\E j \in 1 .. p + 1 : files[LoadOrder[n]][j] # Blank)
       <=> CurrentLine # Blank \/ headerRead

LEMMA NextLine ==
  ASSUME LoadInvariant, stage = "copy", pos < Len(Lines)
  PROVE  \E n \in 1 .. 7, p \in Nat : ReadingAt(n, p)
  <1>1. PICK n \in 1 .. 7 : n = at
    BY DEF LoadInvariant
  <1>2. PICK p : p = pos
    OBVIOUS
  <1>3. File = LoadOrder[n] /\ LoadOrder[n] \in Files /\ Lines = files[LoadOrder[n]]
    BY <1>1, PlaceOfFile DEF File, Lines
  <1> DEFINE lines == files[LoadOrder[n]]
  <1>4. Len(lines) \in Nat /\ DOMAIN lines = 1 .. Len(lines)
    BY <1>3, FilesAreSequences DEF LoadInvariant
  <1>5. p \in Nat /\ p \in 0 .. Len(lines) /\ p + 1 \in 0 .. Len(lines) /\ p + 1 \in 1 .. Len(lines)
    BY <1>2, <1>3, <1>4 DEF LoadInvariant
  <1>6. /\ headerRead <=> \E j \in 1 .. p : lines[j] # Blank
        /\ allow = Allowed(n, p)
        /\ stg[LoadOrder[n]] \o batch = Staged(LoadOrder[n], p)
    BY <1>1, <1>2, <1>3 DEF LoadInvariant
  <1>7. CurrentLine = lines[p + 1] /\ (AtEof => p + 1 = Len(lines))
    BY <1>2, <1>3 DEF CurrentLine, AtEof
  <1> HIDE DEF lines
  <1>8. p + 1 \in RowLines(lines) <=> CurrentLine # Blank /\ headerRead
    <2>1. (p + 1) - 1 = p
      BY <1>5
    <2> QED BY <1>4, <1>5, <1>6, <1>7, <2>1 DEF RowLines
  <1>9. (\E j \in 1 .. p + 1 : lines[j] # Blank) <=> CurrentLine # Blank \/ headerRead
    <2>1. \A j : j \in 1 .. p + 1 <=> j \in 1 .. p \/ j = p + 1
      BY <1>5
    <2> QED BY <1>6, <1>7, <2>1
  <1> QED BY <1>1, <1>2, <1>3, <1>5, <1>6, <1>7, <1>8, <1>9 DEF lines, ReadingAt

LEMMA SkipBlankKeeps == LoadInvariant /\ SkipBlank => LoadInvariant'
  <1> SUFFICES ASSUME LoadInvariant, SkipBlank PROVE LoadInvariant'
    OBVIOUS
  <1>1. /\ stage = "copy" /\ pos < Len(Lines) /\ CurrentLine = Blank
        /\ UNCHANGED <<input, stage, at, stg, headerRead, batch, allow>>
        /\ pos' = pos + 1 /\ exhausted' = AtEof
    BY DEF SkipBlank, Reading
  <1>2. PICK n \in 1 .. 7, p \in Nat : ReadingAt(n, p)
    BY <1>1, NextLine
  <1>3. files \in Inputs /\ batch \in Seq(AllRows)
    BY DEF LoadInvariant
  <1> DEFINE f == LoadOrder[n]
  <1>4. Picks(f, p + 1) = Picks(f, p) /\ Staged(f, p + 1) = Staged(f, p)
    BY <1>1, <1>2, <1>3, StagedSkip DEF ReadingAt
  <1>5. Allowed(n, p + 1) = Allowed(n, p)
    BY <1>4, AllowedSkip
  <1> QED BY <1>1, <1>2, <1>3, <1>4, <1>5, ReadKeeps DEF ReadingAt

LEMMA ReadHeaderKeeps == LoadInvariant /\ ReadHeader => LoadInvariant'
  <1> SUFFICES ASSUME LoadInvariant, ReadHeader PROVE LoadInvariant'
    OBVIOUS
  <1>1. /\ stage = "copy" /\ pos < Len(Lines) /\ CurrentLine # Blank /\ ~headerRead
        /\ UNCHANGED <<input, stage, at, stg, batch, allow>>
        /\ pos' = pos + 1 /\ exhausted' = AtEof /\ headerRead' = TRUE
    BY DEF ReadHeader, Reading, Blank
  <1>2. PICK n \in 1 .. 7, p \in Nat : ReadingAt(n, p)
    BY <1>1, NextLine
  <1>3. files \in Inputs /\ batch \in Seq(AllRows)
    BY DEF LoadInvariant
  <1> DEFINE f == LoadOrder[n]
  <1>4. Picks(f, p + 1) = Picks(f, p) /\ Staged(f, p + 1) = Staged(f, p)
    BY <1>1, <1>2, <1>3, StagedSkip DEF ReadingAt
  <1>5. Allowed(n, p + 1) = Allowed(n, p)
    BY <1>4, AllowedSkip
  <1> QED BY <1>1, <1>2, <1>3, <1>4, <1>5, ReadKeeps DEF ReadingAt

LEMMA SkipRowKeeps == LoadInvariant /\ SkipRow => LoadInvariant'
  <1> SUFFICES ASSUME LoadInvariant, SkipRow PROVE LoadInvariant'
    OBVIOUS
  <1>1. /\ stage = "copy" /\ pos < Len(Lines) /\ headerRead /\ ~exhausted
        /\ CurrentLine # Blank /\ ~FilterRaw(CurrentLine.row)
        /\ UNCHANGED <<input, stage, at, stg, batch, allow, headerRead, exhausted>>
        /\ pos' = pos + 1
    BY DEF SkipRow, Reading, Blank
  <1>2. PICK n \in 1 .. 7, p \in Nat : ReadingAt(n, p)
    BY <1>1, NextLine
  <1>3. files \in Inputs /\ batch \in Seq(AllRows)
    BY DEF LoadInvariant
  <1> DEFINE f == LoadOrder[n]
  <1>4. Picks(f, p + 1) = Picks(f, p) /\ Staged(f, p + 1) = Staged(f, p)
    <2>1. ~Selected(f, RowAt(f, p + 1))
      BY <1>1, <1>2, <1>3, FilterIsSelection DEF RowAt, ReadingAt
    <2> QED BY <1>2, <1>3, <2>1, StagedSkip DEF ReadingAt
  <1>5. Allowed(n, p + 1) = Allowed(n, p)
    BY <1>4, AllowedSkip
  <1> QED BY <1>1, <1>2, <1>3, <1>4, <1>5, ReadKeeps DEF ReadingAt

LEMMA AppendConcat ==
  ASSUME NEW S, NEW s \in Seq(S), NEW t \in Seq(S), NEW x \in S
  PROVE  s \o Append(t, x) = Append(s \o t, x)
  <1> DEFINE a == s \o Append(t, x)
             b == Append(s \o t, x)
  <1>1. a \in Seq(S) /\ b \in Seq(S)
    OBVIOUS
  <1>2. Len(a) = Len(s) + Len(t) + 1 /\ Len(b) = Len(s) + Len(t) + 1
    OBVIOUS
  <1>3. \A i \in 1 .. Len(s) + Len(t) + 1 : a[i] = b[i]
    OBVIOUS
  <1> HIDE DEF a, b
  <1>4. a = b
    BY <1>1, <1>2, <1>3, SeqEqual
  <1> QED BY <1>4 DEF a, b

LEMMA TakeRowKeeps == LoadInvariant /\ TakeRow => LoadInvariant'
  <1> SUFFICES ASSUME LoadInvariant, TakeRow PROVE LoadInvariant'
    OBVIOUS
  <1>1. /\ stage = "copy" /\ pos < Len(Lines) /\ headerRead /\ ~exhausted
        /\ CurrentLine # Blank /\ FilterRaw(CurrentLine.row)
        /\ UNCHANGED <<input, stage, at, stg, headerRead, exhausted>>
        /\ batch' = Append(batch, CurrentLine.row) /\ allow' = OnRecord(CurrentLine.row)
        /\ pos' = pos + 1
    BY DEF TakeRow, Reading, Blank
  <1>2. PICK n \in 1 .. 7, p \in Nat : ReadingAt(n, p)
    BY <1>1, NextLine
  <1> DEFINE f == LoadOrder[n]
             row == RowAt(f, p + 1)
  <1>3. files \in Inputs /\ batch \in Seq(AllRows) /\ stg[f] \in Seq(AllRows)
    BY <1>2 DEF LoadInvariant, ReadingAt
  <1>4. CurrentLine.row = row /\ row \in AllRows
    BY <1>2 DEF RowAt, AllRows, ReadingAt
  <1>5. /\ Picks(f, p + 1) = Picks(f, p) \cup {p + 1}
        /\ Staged(f, p + 1) = Append(Staged(f, p), row)
    <2>1. Selected(f, row)
      BY <1>1, <1>2, <1>3, <1>4, FilterIsSelection DEF ReadingAt
    <2> QED BY <1>1, <1>2, <1>3, <2>1, StagedTake DEF ReadingAt
  <1>6. OnRecord(row) = Allowed(n, p + 1)
    BY <1>2, <1>5, AllowedTake DEF ReadingAt
  <1>7. stg[f] \o Append(batch, row) = Staged(f, p + 1)
    <2>1. stg[f] \o batch = Staged(f, p)
      BY <1>2 DEF ReadingAt
    <2>2. \A s, t \in Seq(AllRows), x \in AllRows : s \o Append(t, x) = Append(s \o t, x)
      BY AppendConcat
    <2>3. row \in AllRows
      BY <1>4
    <2> HIDE DEF f, row
    <2>4. stg[f] \o Append(batch, row) = Append(stg[f] \o batch, row)
      BY <1>3, <2>2, <2>3
    <2> QED BY <1>5, <2>1, <2>4
  <1>8. batch' \in Seq(AllRows) /\ batch' = Append(batch, row)
    BY <1>1, <1>3, <1>4
  <1> QED BY <1>1, <1>2, <1>4, <1>6, <1>7, <1>8, ReadKeeps DEF ReadingAt
(* The state of the load in terms of the file and line it is at *)
LEMMA LoadedAt ==
  ASSUME LoadInvariant
  PROVE  \E n \in 1 .. 7, p \in Nat :
           /\ at = n /\ pos = p /\ File = LoadOrder[n] /\ File \in Files
           /\ Lines = files[LoadOrder[n]]
           /\ Len(files[LoadOrder[n]]) \in Nat
           /\ p \in 0 .. Len(files[LoadOrder[n]])
           /\ stg[LoadOrder[n]] \in Seq(AllRows)
           /\ \A f \in Files : f # LoadOrder[n] => stg[f] = Staged(f, UpTo(f, n, p))
  <1>1. PICK n \in 1 .. 7 : n = at
    BY DEF LoadInvariant
  <1>2. PICK p : p = pos
    OBVIOUS
  <1>3. File = LoadOrder[n] /\ LoadOrder[n] \in Files /\ Lines = files[LoadOrder[n]]
    BY <1>1, PlaceOfFile DEF File, Lines
  <1>4. Len(files[LoadOrder[n]]) \in Nat
    BY <1>3, FilesAreSequences DEF LoadInvariant
  <1>5. p \in 0 .. Len(files[LoadOrder[n]]) /\ p \in Nat
    BY <1>2, <1>3, <1>4 DEF LoadInvariant
  <1>6. /\ stg[LoadOrder[n]] \in Seq(AllRows)
        /\ \A f \in Files : f # LoadOrder[n] => stg[f] = Staged(f, UpTo(f, n, p))
    BY <1>1, <1>2, <1>3 DEF LoadInvariant
  <1> QED BY <1>1, <1>2, <1>3, <1>4, <1>5, <1>6

LEMMA FinishCopyKeeps == LoadInvariant /\ FinishCopy => LoadInvariant'
  <1> SUFFICES ASSUME LoadInvariant, FinishCopy PROVE LoadInvariant'
    OBVIOUS
  <1>1. PICK n \in 1 .. 7, p \in Nat :
           /\ at = n /\ pos = p /\ File = LoadOrder[n] /\ File \in Files
           /\ Lines = files[LoadOrder[n]]
           /\ Len(files[LoadOrder[n]]) \in Nat
           /\ p \in 0 .. Len(files[LoadOrder[n]])
           /\ stg[LoadOrder[n]] \in Seq(AllRows)
           /\ \A f \in Files : f # LoadOrder[n] => stg[f] = Staged(f, UpTo(f, n, p))
    BY LoadedAt
  <1> DEFINE f == LoadOrder[n]
             whole == Len(files[f])
  <1>2. /\ stage = "copy" /\ files' = files /\ batch' = << >>
        /\ stg' = [stg EXCEPT ![f] = stg[f] \o batch]
    BY <1>1 DEF FinishCopy, input
  <1>3. /\ files \in Inputs /\ batch \in Seq(AllRows) /\ stg \in [Files -> Seq(AllRows)]
        /\ allow = Allowed(n, p) /\ stg[f] \o batch = Staged(f, p)
        /\ headerRead <=> \E j \in 1 .. p : files[f][j] # Blank
        /\ exhausted => p = whole
    BY <1>1, <1>2 DEF LoadInvariant
  <1>4. /\ Staged(f, p) \in Seq(AllRows)
        /\ batch' \in Seq(AllRows)
        /\ stg'[f] = Staged(f, p)
        /\ \A g \in Files : g # f => stg'[g] = stg[g]
        /\ stg' \in [Files -> Seq(AllRows)]
    <2>1. Staged(f, p) \in Seq(AllRows)
      BY <1>1, <1>3, StagedType
    <2>2. stg' = [stg EXCEPT ![f] = Staged(f, p)]
      BY <1>2, <1>3
    <2>3. f \in Files
      BY <1>1
    <2> HIDE DEF f
    <2> QED BY <1>2, <1>3, <2>1, <2>2, <2>3
  <1>5. stg'[f] \o batch' = Staged(f, p)
    <2> HIDE DEF f
    <2> QED BY <1>2, <1>4
  <1>6. \A g \in Files : g # f => stg'[g] = Staged(g, UpTo(g, n, p))
    BY <1>1, <1>4
  <1>7. CASE ~exhausted
    <2>1. /\ stage' = "copy" /\ at' = n /\ pos' = p /\ headerRead' = headerRead
          /\ exhausted' = FALSE /\ allow' = Allowed(n, p)
      BY <1>1, <1>2, <1>3, <1>7 DEF FinishCopy
    <2>2. /\ headerRead' <=> \E j \in 1 .. p : files[f][j] # Blank
          /\ exhausted' => p = whole
      BY <1>3, <2>1
    <2>3. stage' # "failed" /\ stage' \in {"copy", "failed"}
      BY <2>1
    <2>4. /\ at' = n /\ pos' = p /\ files' = files /\ files \in Inputs
          /\ allow' = Allowed(n, p) /\ p \in 0 .. whole
      BY <1>1, <1>2, <1>3, <2>1
    <2> HIDE DEF f
    <2> QED BY <1>4, <1>5, <1>6, <2>2, <2>3, <2>4, LoadedNext DEF f
  <1>8. CASE exhausted /\ n < 7
    <2>1. /\ stage' = "copy" /\ at' = n + 1 /\ pos' = 0 /\ headerRead' = FALSE
          /\ exhausted' = FALSE /\ allow' = Merged(allow)
      BY <1>1, <1>2, <1>8, PlaceOfFile DEF FinishCopy
    <2>2. PICK m \in 1 .. 7 : m = n + 1
      BY <1>8
    <2> DEFINE g == LoadOrder[m]
    <2>3. g \in Files /\ g # f /\ Place[g] = m /\ Place[f] = n
      BY <2>2, PlaceOfFile
    <2>4. p = whole
      BY <1>3, <1>8
    <2>5. allow' = Allowed(m, 0)
      <3>1. n \in 1 .. 6
        BY <1>8
      <3> QED BY <1>1, <1>3, <2>1, <2>2, <2>4, <3>1, AllowedMerge
    <2>6. \A h \in Files : h # g => stg'[h] = Staged(h, UpTo(h, m, 0))
      <3> SUFFICES ASSUME NEW h \in Files, h # g
                   PROVE  stg'[h] = Staged(h, UpTo(h, m, 0))
        OBVIOUS
      <3>1. CASE h = f
        <4>1. UpTo(h, m, 0) = p
          BY <2>2, <2>3, <2>4, <3>1 DEF UpTo
        <4> QED BY <1>4, <3>1, <4>1
      <3>2. CASE h # f
        <4>1. Place[h] \in 1 .. 7 /\ Place[h] # n /\ Place[h] # m
          BY <2>3, <3>2, PlaceOfFile
        <4>2. UpTo(h, m, 0) = UpTo(h, n, p)
          BY <2>2, <4>1 DEF UpTo
        <4> QED BY <1>6, <3>2, <4>2
      <3> QED BY <3>1, <3>2
    <2>7. stg'[g] = << >> /\ Staged(g, 0) = << >>
      <3>1. UpTo(g, n, p) = 0
        BY <2>2, <2>3 DEF UpTo
      <3>2. Staged(g, 0) = << >>
        BY <1>3, <2>3, StagedNone
      <3> QED BY <1>6, <2>3, <3>1, <3>2
    <2>8. stg'[g] \o batch' = Staged(g, 0)
      <3> HIDE DEF g
      <3> QED BY <1>2, <2>7
    <2>9. 0 \in 0 .. Len(files[g]) /\ ~(\E j \in 1 .. 0 : files[g][j] # Blank)
      BY <1>3, <2>3, FilesAreSequences
    <2>10. /\ headerRead' <=> \E j \in 1 .. 0 : files[g][j] # Blank
           /\ exhausted' => 0 = Len(files[g])
      BY <2>1, <2>9
    <2>11. stage' # "failed" /\ stage' \in {"copy", "failed"}
      BY <2>1
    <2>12. at' = m /\ pos' = 0 /\ files' = files /\ files \in Inputs
      BY <1>2, <1>3, <2>1, <2>2
    <2> HIDE DEF f, whole
    <2> QED BY <1>4, <2>5, <2>6, <2>8, <2>9, <2>10, <2>11, <2>12, LoadedNext
  <1>9. CASE exhausted /\ n = 7
    <2>1. stage' = "loaded" /\ at' = n /\ pos' = 0
      BY <1>1, <1>2, <1>9, PlaceOfFile DEF FinishCopy
    <2>2. p = whole
      BY <1>3, <1>9
    <2>3. \A h \in Files : h # f => stg'[h] = Staged(h, UpTo(h, n, 0))
      <3> SUFFICES ASSUME NEW h \in Files, h # f
                   PROVE  stg'[h] = Staged(h, UpTo(h, n, 0))
        OBVIOUS
      <3>1. Place[h] # n
        BY PlaceOfFile
      <3>2. UpTo(h, n, 0) = UpTo(h, n, p)
        BY <3>1 DEF UpTo
      <3> QED BY <1>6, <3>2
    <2>4. stg'[f] = Staged(f, whole)
      BY <1>4, <2>2
    <2>5. 0 \in 0 .. whole
      BY <1>1
    <2> QED BY <1>2, <1>3, <1>4, <1>9, <2>1, <2>3, <2>4, <2>5, LoadedNext
  <1>10. n < 7 \/ n = 7
    OBVIOUS
  <1> QED BY <1>7, <1>8, <1>9, <1>10

LEMMA LoadFailsKeeps == LoadInvariant /\ LoadFails => LoadInvariant'
  <1> SUFFICES ASSUME LoadInvariant, LoadFails PROVE LoadInvariant'
    OBVIOUS
  <1>1. PICK n \in 1 .. 7, p \in Nat :
           /\ at = n /\ pos = p /\ File = LoadOrder[n] /\ File \in Files
           /\ Lines = files[LoadOrder[n]]
           /\ Len(files[LoadOrder[n]]) \in Nat
           /\ p \in 0 .. Len(files[LoadOrder[n]])
           /\ stg[LoadOrder[n]] \in Seq(AllRows)
           /\ \A f \in Files : f # LoadOrder[n] => stg[f] = Staged(f, UpTo(f, n, p))
    BY LoadedAt
  <1> DEFINE f == LoadOrder[n]
  <1>2. /\ stage = "copy" /\ stage' = "failed" /\ batch' = << >>
        /\ files' = files /\ at' = n /\ pos' = p /\ stg' = stg
    BY <1>1 DEF LoadFails, input
  <1>3. /\ files \in Inputs /\ batch \in Seq(AllRows) /\ stg \in [Files -> Seq(AllRows)]
        /\ stg[f] \o batch = Staged(f, p)
    BY <1>1, <1>2 DEF LoadInvariant
  <1>4. IsPrefix(stg[f], Staged(f, Len(files[f])))
    <2>1. p <= Len(files[f])
      BY <1>1
    <2> QED BY <1>1, <1>3, <2>1, StagedPrefix
  <1>5. batch' \in Seq(AllRows)
    BY <1>2
  <1> QED BY <1>1, <1>2, <1>3, <1>4, <1>5, LoadedNext

(* After the load only the stage changes. *)
LEMMA LaterKeeps ==
  ASSUME LoadInvariant, stage # "copy", stage' # "copy",
         stage = "failed" => stage' = "failed",
         UNCHANGED <<input, reader, stg>>
  PROVE  LoadInvariant'
  <1>1. PICK n \in 1 .. 7, p \in Nat :
           /\ at = n /\ pos = p /\ File = LoadOrder[n] /\ File \in Files
           /\ Lines = files[LoadOrder[n]]
           /\ Len(files[LoadOrder[n]]) \in Nat
           /\ p \in 0 .. Len(files[LoadOrder[n]])
           /\ stg[LoadOrder[n]] \in Seq(AllRows)
           /\ \A f \in Files : f # LoadOrder[n] => stg[f] = Staged(f, UpTo(f, n, p))
    BY LoadedAt
  <1> DEFINE f == LoadOrder[n]
             whole == Staged(f, Len(files[f]))
  <1>2. files' = files /\ at' = n /\ pos' = p /\ stg' = stg /\ batch' = batch
    BY <1>1 DEF input, reader
  <1>3. /\ files \in Inputs /\ batch \in Seq(AllRows) /\ stg \in [Files -> Seq(AllRows)]
        /\ stage = "failed" => IsPrefix(stg[f], whole)
        /\ stage \notin {"copy", "failed"} => n = 7 /\ stg[f] = whole
    BY <1>1 DEF LoadInvariant
  <1>4. stage' = "failed" => IsPrefix(stg[f], whole)
    <2>1. whole \in Seq(AllRows)
      BY <1>1, <1>3, StagedType
    <2>2. CASE stage = "failed"
      BY <1>3, <2>2
    <2>3. CASE stage # "failed"
      <3>1. stg[f] = whole
        BY <1>3, <2>3
      <3> HIDE DEF whole
      <3>2. IsPrefix(whole, whole)
        BY <2>1 DEF IsPrefix
      <3> QED BY <3>1, <3>2
    <2> QED BY <2>2, <2>3
  <1>5. stage' \notin {"copy", "failed"} => n = 7 /\ stg[f] = whole
    BY <1>3
  <1> QED BY SMTT(30), <1>1, <1>2, <1>3, <1>4, <1>5, LoadedNext

LEMMA NextLoaded == LoadInvariant /\ [Next]_vars => LoadInvariant'
  <1> SUFFICES ASSUME LoadInvariant, [Next]_vars PROVE LoadInvariant'
    OBVIOUS
  <1>1. CASE Load
    BY <1>1, EndOfFileKeeps, SkipBlankKeeps, ReadHeaderKeeps, SkipRowKeeps, TakeRowKeeps,
       FinishCopyKeeps, LoadFailsKeeps DEF Load, LoadNext
  <1>2. CASE EnrichEpisodes
    BY <1>2, LaterKeeps DEF EnrichEpisodes, Goto
  <1>3. CASE FilterTitles
    BY <1>3, LaterKeeps DEF FilterTitles, Goto
  <1>4. CASE CreateNext
    BY <1>4, LaterKeeps DEF CreateNext, Goto
  <1>5. CASE BuildBatch
    BY <1>5, LaterKeeps DEF BuildBatch, Goto
  <1>6. CASE NoMoreTitles
    BY <1>6, LaterKeeps DEF NoMoreTitles, Goto
  <1>7. CASE StatementFails
    BY <1>7, LaterKeeps DEF StatementFails, Goto
  <1>8. CASE UNCHANGED vars
    <2>1. /\ UNCHANGED <<input, stage, reader, stg>>
          /\ UNCHANGED <<files, at, pos, headerRead, exhausted, batch, allow>>
      BY <1>8 DEF vars, loadVars, input, reader
    <2>2. CASE stage = "copy"
      <3>1. PICK n \in 1 .. 7, p \in Nat :
           /\ at = n /\ pos = p /\ File = LoadOrder[n] /\ File \in Files
           /\ Lines = files[LoadOrder[n]]
           /\ Len(files[LoadOrder[n]]) \in Nat
           /\ p \in 0 .. Len(files[LoadOrder[n]])
           /\ stg[LoadOrder[n]] \in Seq(AllRows)
           /\ \A f \in Files : f # LoadOrder[n] => stg[f] = Staged(f, UpTo(f, n, p))
        BY LoadedAt
      <3>2. /\ batch \in Seq(AllRows)
            /\ headerRead <=> \E j \in 1 .. p : files[LoadOrder[n]][j] # Blank
            /\ exhausted => p = Len(files[LoadOrder[n]])
            /\ allow = Allowed(n, p)
            /\ stg[LoadOrder[n]] \o batch = Staged(LoadOrder[n], p)
        BY <2>2, <3>1 DEF LoadInvariant
      <3> QED BY <2>1, <2>2, <3>1, <3>2, ReadKeeps
    <2>3. CASE stage # "copy"
      BY <2>1, <2>3, LaterKeeps
    <2> QED BY <2>2, <2>3
  <1> QED BY <1>1, <1>2, <1>3, <1>4, <1>5, <1>6, <1>7, <1>8 DEF Next

(* The invariant says what StagedIsSelection says. *)
LEMMA LoadedIsSelection == LoadInvariant => StagedIsSelection
  <1> SUFFICES ASSUME LoadInvariant, NEW i \in DOMAIN LoadOrder
               PROVE  LET f == LoadOrder[i]
                      IN  \/ stage = "copy" /\ i = at
                               /\ stg[f] \o batch = Selection(f, SubSeq(files[f], 1, pos))
                          \/ stage = "failed" /\ i = at
                               /\ IsPrefix(stg[f], Selection(f, files[f]))
                          \/ /\ i < at \/ stage \notin {"copy", "failed"}
                             /\ stg[f] = Selection(f, files[f])
                          \/ i > at /\ stg[f] = << >>
    BY DEF StagedIsSelection
  <1>1. PICK n \in 1 .. 7, p \in Nat :
           /\ at = n /\ pos = p /\ File = LoadOrder[n] /\ File \in Files
           /\ Lines = files[LoadOrder[n]]
           /\ Len(files[LoadOrder[n]]) \in Nat
           /\ p \in 0 .. Len(files[LoadOrder[n]])
           /\ stg[LoadOrder[n]] \in Seq(AllRows)
           /\ \A f \in Files : f # LoadOrder[n] => stg[f] = Staged(f, UpTo(f, n, p))
    BY LoadedAt
  <1> DEFINE f == LoadOrder[i]
  <1>2. i \in 1 .. 7 /\ f \in Files /\ Place[f] = i
    <2>1. DOMAIN LoadOrder = 1 .. 7
      BY DEF LoadOrder
    <2> QED BY <2>1, PlaceOfFile
  <1>3. /\ files \in Inputs
        /\ stage = "copy" => stg[LoadOrder[n]] \o batch = Staged(LoadOrder[n], p)
        /\ stage = "failed" =>
             IsPrefix(stg[LoadOrder[n]], Staged(LoadOrder[n], Len(files[LoadOrder[n]])))
        /\ stage \notin {"copy", "failed"} =>
             stg[LoadOrder[n]] = Staged(LoadOrder[n], Len(files[LoadOrder[n]])) /\ n = 7
    BY <1>1 DEF LoadInvariant
  <1>4. Selection(f, files[f]) = Staged(f, Len(files[f]))
    BY <1>2, <1>3, WholeSelection
  <1>5. CASE i = n
    <2>1. Selection(f, SubSeq(files[f], 1, p)) = Staged(f, p)
      BY <1>1, <1>2, <1>3, <1>5, StagedSelection
    <2> QED BY <1>1, <1>3, <1>4, <1>5, <2>1
  <1>6. CASE i < n
    <2>1. f # LoadOrder[n]
      BY <1>2, <1>6, PlaceOfFile
    <2>2. UpTo(f, n, p) = Len(files[f])
      BY <1>2, <1>6 DEF UpTo
    <2> QED BY <1>1, <1>2, <1>4, <1>6, <2>1, <2>2
  <1>7. CASE i > n
    <2>1. f # LoadOrder[n]
      BY <1>2, <1>7, PlaceOfFile
    <2>2. UpTo(f, n, p) = 0
      BY <1>2, <1>7 DEF UpTo
    <2>3. stg[f] = << >>
      BY <1>1, <1>2, <1>3, <2>1, <2>2, StagedNone
    <2> QED BY <1>1, <1>7, <2>3
  <1>8. i < n \/ i = n \/ i > n
    BY <1>2
  <1> QED BY <1>5, <1>6, <1>7, <1>8

(* Whatever the files hold and wherever the rows of a CopyFrom end, a      *)
(* staging table holds the rows of its file that the later stages need, in *)
(* their order and each once: loadTSVToTable neither loses nor repeats a   *)
(* row, and the allowlists of loadStagingInBatches decide from the files   *)
(* that were read before what the whole data set decides.                  *)
THEOREM StagingIsSelection == Spec => []StagedIsSelection
  <1>1. Spec => []LoadInvariant
    BY InitLoaded, NextLoaded, PTL DEF Spec
  <1> QED BY <1>1, LoadedIsSelection, PTL
---------------------------------------------------------------------------
(* Picking places of a sequence *)

Titles(s) == [i \in DOMAIN s |-> s[i].t]
NoEpisodes(s) == {i \in DOMAIN s : s[i].type # "tvepisode"}

LEMMA TitlesType ==
  ASSUME NEW S, NEW s \in Seq(S)
  PROVE  /\ Titles(s) \in Seq({x.t : x \in S})
         /\ Len(Titles(s)) = Len(s)
         /\ \A i \in 1 .. Len(s) : Titles(s)[i] = s[i].t
  <1> DEFINE n == Len(s)
             T == {x.t : x \in S}
             ts == Titles(s)
  <1>1. n \in Nat /\ \A i \in 1 .. n : s[i] \in S
    OBVIOUS
  <1>2. ts = [i \in 1 .. n |-> s[i].t]
    BY DEF Titles
  <1>3. \A i \in 1 .. n : s[i].t \in T
    BY <1>1
  <1> HIDE DEF n, T, ts
  <1>4. ts \in [1 .. n -> T] /\ \A i \in 1 .. n : ts[i] = s[i].t
    BY <1>2, <1>3
  <1>5. ts \in Seq(T) /\ Len(ts) = n
    BY <1>1, <1>4
  <1> QED BY <1>4, <1>5 DEF n, T, ts

LEMMA TitlesJoin ==
  ASSUME NEW S, NEW s \in Seq(S), NEW d \in Seq(S)
  PROVE  Titles(s \o d) = Titles(s) \o Titles(d)
  <1> DEFINE T == {x.t : x \in S}
             sd == s \o d
             n == Len(s)
             m == Len(d)
             ts == Titles(s)
             td == Titles(d)
             all == Titles(sd)
  <1>1. /\ n \in Nat /\ m \in Nat /\ sd \in Seq(S) /\ Len(sd) = n + m
        /\ \A i \in 1 .. n : sd[i] = s[i]
        /\ \A i \in 1 .. m : sd[n + i] = d[i]
    OBVIOUS
  <1>2. ts \in Seq(T) /\ Len(ts) = n /\ \A i \in 1 .. n : ts[i] = s[i].t
    BY TitlesType
  <1>3. td \in Seq(T) /\ Len(td) = m /\ \A i \in 1 .. m : td[i] = d[i].t
    BY TitlesType
  <1> HIDE DEF sd
  <1>4. all \in Seq(T) /\ Len(all) = n + m /\ \A i \in 1 .. n + m : all[i] = sd[i].t
    BY <1>1, TitlesType
  <1> HIDE DEF T, n, m, ts, td, all
  <1>5. /\ \A i \in 1 .. n : (ts \o td)[i] = ts[i]
        /\ \A i \in 1 .. m : (ts \o td)[n + i] = td[i]
    BY <1>1, <1>2, <1>3, SeqJoin
  <1>6. \A i \in 1 .. n + m : all[i] = (ts \o td)[i]
    <2> SUFFICES ASSUME NEW i \in 1 .. n + m
                 PROVE  all[i] = (ts \o td)[i]
      OBVIOUS
    <2>1. CASE i \in 1 .. n
      <3>1. all[i] = s[i].t
        BY <1>1, <1>4, <2>1
      <3> QED BY <1>2, <1>5, <2>1, <3>1
    <2>2. CASE i \notin 1 .. n
      <3>1. PICK j \in 1 .. m : i = n + j
        <4>1. i - n \in 1 .. m /\ i = n + (i - n)
          BY <1>1, <2>2
        <4> QED BY <4>1
      <3>2. all[i] = d[j].t
        BY <1>1, <1>4, <3>1
      <3>3. (ts \o td)[i] = td[j]
        <4>1. (ts \o td)[n + j] = td[j]
          BY <1>5
        <4> QED BY <3>1, <4>1
      <3> QED BY <1>3, <3>2, <3>3
    <2> QED BY <2>1, <2>2
  <1>7. all = ts \o td
    <2>1. ts \o td \in Seq(T) /\ Len(ts \o td) = n + m
      BY <1>2, <1>3, SeqJoin
    <2> QED BY <1>4, <1>6, <2>1, SeqEqual
  <1> QED BY <1>7 DEF all, ts, td, sd

(* Search rows that follow the documents go on following them when both    *)
(* tables grow by a batch.                                                 *)
LEMMA SearchFollows ==
  ASSUME NEW D, NEW docs \in Seq(D), NEW more \in Seq(D),
         NEW E, NEW rows \in Seq(E), NEW added \in Seq(E),
         Titles(rows) = Titles(Picked(docs, NoEpisodes(docs))),
         Titles(added) = Titles(Picked(more, NoEpisodes(more)))
  PROVE  Titles(rows \o added) = Titles(Picked(docs \o more, NoEpisodes(docs \o more)))
  <1> DEFINE P == NoEpisodes(docs)
             Q == NoEpisodes(more)
             n == Len(docs)
             m == Len(more)
  <1>1. /\ n \in Nat /\ m \in Nat
        /\ DOMAIN docs = 1 .. n /\ DOMAIN more = 1 .. m
        /\ DOMAIN (docs \o more) = 1 .. n + m
        /\ \A i \in 1 .. n : (docs \o more)[i] = docs[i]
        /\ \A i \in 1 .. m : (docs \o more)[n + i] = more[i]
    OBVIOUS
  <1>2. P \in SUBSET (1 .. n) /\ Q \in SUBSET (1 .. m)
    BY <1>1 DEF NoEpisodes
  <1>3. NoEpisodes(docs \o more) = P \cup {n + i : i \in Q}
    <2>1. PICK both : both = docs \o more
      OBVIOUS
    <2>2. \A i : i \in 1 .. n + m <=> i \in 1 .. n \/ \E j \in 1 .. m : i = n + j
      <3>1. ASSUME NEW i \in 1 .. n + m, i \notin 1 .. n
            PROVE  \E j \in 1 .. m : i = n + j
        <4>1. i - n \in 1 .. m /\ i = n + (i - n)
          BY <1>1, <3>1
        <4> QED BY <4>1
      <3>2. \A i \in 1 .. n : i \in 1 .. n + m
        BY <1>1
      <3>3. \A j \in 1 .. m : n + j \in 1 .. n + m
        BY <1>1
      <3> QED BY <3>1, <3>2, <3>3
    <2>3. /\ DOMAIN both = 1 .. n + m
          /\ \A i \in 1 .. n : both[i] = docs[i]
          /\ \A i \in 1 .. m : both[n + i] = more[i]
      BY <1>1, <2>1
    <2> HIDE DEF n, m
    <2>4. \A i : i \in NoEpisodes(both) <=> i \in P \/ \E j \in Q : i = n + j
      <3>1. \A i : i \in P <=> i \in 1 .. n /\ docs[i].type # "tvepisode"
        BY <1>1 DEF NoEpisodes
      <3>2. \A j : j \in Q <=> j \in 1 .. m /\ more[j].type # "tvepisode"
        BY <1>1 DEF NoEpisodes
      <3>3. \A i : i \in NoEpisodes(both) <=> i \in 1 .. n + m /\ both[i].type # "tvepisode"
        BY <2>3 DEF NoEpisodes
      <3> HIDE DEF P, Q
      <3>4. \A i \in P : i \in NoEpisodes(both)
        <4>1. \A i \in P : i \in 1 .. n + m /\ both[i] = docs[i]
          BY ONLY <2>2, <2>3, <3>1
        <4> QED BY ONLY <3>1, <3>3, <4>1
      <3>5. \A j \in Q : n + j \in NoEpisodes(both)
        <4>1. \A j \in Q : n + j \in 1 .. n + m /\ both[n + j] = more[j]
          BY ONLY <2>2, <2>3, <3>2
        <4> QED BY ONLY <3>2, <3>3, <4>1
      <3>6. ASSUME NEW i \in NoEpisodes(both), i \notin P
            PROVE  \E j \in Q : i = n + j
        <4>1. i \in 1 .. n + m /\ both[i].type # "tvepisode"
          BY ONLY <3>3, <3>6
        <4>2. i \notin 1 .. n
          BY ONLY <2>3, <3>1, <3>6, <4>1
        <4>3. PICK j \in 1 .. m : i = n + j
          BY ONLY <2>2, <4>1, <4>2
        <4>4. more[j].type # "tvepisode"
          BY ONLY <2>3, <4>1, <4>3
        <4> QED BY ONLY <3>2, <4>3, <4>4
      <3> QED BY <3>4, <3>5, <3>6
    <2>5. \A i : i \in NoEpisodes(both) <=> i \in P \cup {n + j : j \in Q}
      BY <2>4
    <2>6. NoEpisodes(both) = P \cup {n + j : j \in Q}
      BY <2>5
    <2> QED BY <2>1, <2>6 DEF n
  <1>4. Picked(docs \o more, P \cup {n + i : i \in Q}) = Picked(docs, P) \o Picked(more, Q)
    <2>1. PICK p \in SUBSET (1 .. Len(docs)) : p = P
      BY <1>2
    <2>2. PICK q \in SUBSET (1 .. Len(more)) : q = Q
      BY <1>2
    <2>3. Picked(Joined(docs, more), p \cup Shifted(Len(docs), q))
            = Joined(Picked(docs, p), Picked(more, q))
      BY SMTT(30), PickedJoin
    <2> HIDE DEF P, Q
    <2> QED BY <2>1, <2>2, <2>3 DEF Shifted, Joined
  <1>5. Picked(docs, P) \in Seq(D) /\ Picked(more, Q) \in Seq(D)
    <2> HIDE DEF P, Q
    <2> QED BY <1>2, PickedType
  <1>6. Titles(Picked(docs, P) \o Picked(more, Q))
          = Titles(Picked(docs, P)) \o Titles(Picked(more, Q))
    <2> HIDE DEF P, Q
    <2> QED BY <1>5, TitlesJoin
  <1>7. Titles(rows \o added) = Titles(rows) \o Titles(added)
    BY TitlesJoin
  <1> HIDE DEF P, Q, n
  <1> QED BY <1>3, <1>4, <1>6, <1>7 DEF P, Q
---------------------------------------------------------------------------
(* Which titles are chosen, and what staging says of them *)

LEMMA ChosenNumbers ==
  ASSUME files \in Inputs
  PROVE  /\ Chosen \in SUBSET Nat /\ IsFiniteSet(Chosen)
         /\ \A t \in Chosen : t \in Nat /\ 0 < t
         /\ Chosen \in SUBSET Typed
  <1> DEFINE p == Len(files["basics"])
             S == Picks("basics", p)
             title == [i \in S |-> RowAt("basics", i).t]
  <1>1. "basics" \in Files /\ p \in Nat
    BY PlaceOfFile, FilesAreSequences
  <1>2. Chosen \in SUBSET Typed
    BY DEF Chosen
  <1>3. Typed = {RowAt("basics", i).t : i \in S}
    BY TypedWhole DEF TypedBy
  <1>4. IsFiniteSet(S)
    BY <1>1, PicksType
  <1>5. title \in Surjection(S, Typed)
    <2>1. title \in [S -> Typed]
      BY <1>3
    <2>2. \A t \in Typed : \E i \in S : title[i] = t
      BY <1>3
    <2> HIDE DEF title, S
    <2> QED BY <2>1, <2>2 DEF Surjection
  <1>6. IsFiniteSet(Typed)
    <2> HIDE DEF title, S
    <2> QED BY <1>4, <1>5, FS_Surjection
  <1>7. \A t \in Typed : t \in Nat /\ 0 < t
    <2> SUFFICES ASSUME NEW t \in Typed
                 PROVE  t \in Nat /\ 0 < t
      OBVIOUS
    <2>1. PICK row \in RowsOf("basics") : row.t = t
      BY DEF Typed
    <2>2. PICK i \in RowLines(files["basics"]) : row = files["basics"][i].row
      BY DEF RowsOf
    <2>3. files["basics"][i].row.t \in Nat \ {0}
      BY InputsAssumption
    <2> QED BY <2>1, <2>2, <2>3
  <1>8. Chosen \in SUBSET Nat
    BY <1>2, <1>7
  <1> QED BY <1>2, <1>6, <1>7, <1>8, FS_Subset

(* After the load every table is complete. *)
LEMMA LoadedWhole ==
  ASSUME LoadInvariant, stage \notin {"copy", "failed"}, NEW f \in Files
  PROVE  stg[f] = Staged(f, Len(files[f]))
  <1>1. PICK n \in 1 .. 7, p \in Nat :
           /\ at = n /\ pos = p /\ File = LoadOrder[n] /\ File \in Files
           /\ Lines = files[LoadOrder[n]]
           /\ Len(files[LoadOrder[n]]) \in Nat
           /\ p \in 0 .. Len(files[LoadOrder[n]])
           /\ stg[LoadOrder[n]] \in Seq(AllRows)
           /\ \A g \in Files : g # LoadOrder[n] => stg[g] = Staged(g, UpTo(g, n, p))
    BY LoadedAt
  <1>2. n = 7 /\ stg[LoadOrder[n]] = Staged(LoadOrder[n], Len(files[LoadOrder[n]]))
    BY <1>1 DEF LoadInvariant
  <1>3. CASE f = LoadOrder[n]
    BY <1>2, <1>3
  <1>4. CASE f # LoadOrder[n]
    <2>1. Place[f] \in 1 .. 7 /\ Place[f] # 7
      BY <1>2, <1>4, PlaceOfFile
    <2>2. UpTo(f, n, p) = Len(files[f])
      BY <1>2, <2>1 DEF UpTo
    <2> QED BY <1>1, <1>4, <2>2
  <1> QED BY <1>3, <1>4

LEMMA RowsStaged ==
  ASSUME files \in Inputs, NEW f \in Files
  PROVE  LET p == Len(files[f])
         IN  ToSet(Staged(f, p)) = {RowAt(f, i) : i \in Picks(f, p)}
  <1> DEFINE p == Len(files[f])
             S == Picks(f, p)
             s == Staged(f, p)
             n == Cardinality(S)
  <1>1. p \in Nat
    BY FilesAreSequences
  <1>2. /\ s \in Seq(AllRows) /\ Len(s) = n
        /\ \A k \in 1 .. n : s[k] = RowAt(f, Ascending(S)[k])
    BY <1>1, StagedType
  <1>3. S \in SUBSET Nat /\ IsFiniteSet(S)
    BY <1>1, PicksType
  <1>4. /\ \A k \in 1 .. n : Ascending(S)[k] \in S
        /\ \A x \in S : \E k \in 1 .. n : Ascending(S)[k] = x
    <2> HIDE DEF S
    <2> QED BY <1>3, AscendingLists
  <1> HIDE DEF S, s, p
  <1>5. ToSet(s) = {s[k] : k \in 1 .. n}
    BY <1>2 DEF ToSet
  <1>6. \A row : row \in ToSet(s) <=> row \in {RowAt(f, i) : i \in S}
    BY <1>2, <1>4, <1>5
  <1> QED BY <1>6 DEF S, s, p

(* filter_titles.sql comes to the choice that the allowlists made. *)
LEMMA FilterIsChosen ==
  ASSUME LoadInvariant, stage \notin {"copy", "failed"}
  PROVE  /\ {row.t : row \in {b \in ToSet(stg.basics) : b.year = DatasetYear}}
              \cup ({row.t : row \in {r \in ToSet(stg.ratings) : r.votes >= MinNumVotes}}
                      \cap {row.t : row \in ToSet(stg.basics)})
            = Chosen
         /\ {row.t : row \in ToSet(stg.basics)} = Typed
  <1> DEFINE p == Len(files["basics"])
             q == Len(files["ratings"])
             B == ToSet(stg.basics)
             R == ToSet(stg.ratings)
             T == {row.t : row \in B}
             Y == {row.t : row \in {b \in B : b.year = DatasetYear}}
             V == {row.t : row \in {r \in R : r.votes >= MinNumVotes}}
  <1>1. files \in Inputs /\ "basics" \in Files /\ "ratings" \in Files
    BY PlaceOfFile DEF LoadInvariant
  <1>2. /\ B = {RowAt("basics", i) : i \in Picks("basics", p)}
        /\ R = {RowAt("ratings", i) : i \in Picks("ratings", q)}
    BY <1>1, LoadedWhole, RowsStaged
  <1> HIDE DEF B, R
  <1>3. T = TypedBy(p) /\ T = Typed
    <2>1. T = TypedBy(p)
      BY <1>2 DEF TypedBy
    <2> QED BY <1>1, <2>1, TypedWhole
  <1>4. Y = OfYear(p)
    <2>1. \A t : t \in Y <=> t \in OfYear(p)
      BY <1>2 DEF OfYear
    <2> QED BY <2>1
  <1>5. V = VotedBy(q)
    <2>1. \A t : t \in V <=> t \in VotedBy(q)
      BY <1>2 DEF VotedBy
    <2> QED BY <2>1
  <1>6. VotedBy(q) \in SUBSET Typed
    <2>1. Chosen \in SUBSET Typed /\ Chosen = OfYear(p) \cup VotedBy(q)
      BY <1>1, ChosenNumbers, ChosenWhole
    <2> QED BY <2>1
  <1>7. Chosen = OfYear(p) \cup VotedBy(q)
    BY <1>1, ChosenWhole
  <1> HIDE DEF p, q, T, Y, V
  <1>8. Y \cup (V \cap T) = Chosen
    BY <1>3, <1>4, <1>5, <1>6, <1>7
  <1> QED BY <1>3, <1>8 DEF Y, V, T, B, R

(* The titles a cursor has passed *)
Within(titles, cursor) == {t \in titles : t <= cursor}

(* One page of the keyset query takes the cursor on. *)
LEMMA PageAdvances ==
  ASSUME NEW C \in SUBSET Nat, IsFiniteSet(C), NEW l \in Nat,
         NEW page, page = Capped(Ascending({t \in C : t > l}), BatchSize)
  PROVE  /\ page = << >> => \A t \in C : t <= l
         /\ page # << >> =>
              /\ page \in Seq(C) /\ Last(page) \in Nat
              /\ Joined(Ascending(Within(C, l)), page) = Ascending(Within(C, Last(page)))
  <1> DEFINE S == {t \in C : t > l}
             n == Cardinality(S)
             m == IF n < BatchSize THEN n ELSE BatchSize
  <1>0. \A t \in C : t \in Nat
    OBVIOUS
  <1>1. S \in SUBSET Nat /\ IsFiniteSet(S) /\ S \in SUBSET C
    BY FS_Subset
  <1>2. PICK a \in Seq(S) :
           /\ Ascending(S) = a /\ Len(a) = Cardinality(S)
           /\ \A i \in 1 .. Len(a) : a[i] \in S /\ a[i] \in Nat
           /\ \A i, j \in 1 .. Len(a) : i < j => a[i] < a[j]
           /\ \A x \in S : \E i \in 1 .. Len(a) : a[i] = x
    <2> HIDE DEF S
    <2> QED BY <1>1, AscendingIs
  <1>3. BatchSize \in Nat /\ BatchSize # 0
    BY BatchAssumption
  <1>4. n \in Nat /\ m \in 0 .. n /\ (m = 0 => n = 0)
    <2>1. n \in Nat
      BY <1>2
    <2> HIDE DEF n
    <2> QED BY <1>3, <2>1
  <1>5. page = SubSeq(a, 1, m)
    BY <1>2 DEF Capped
  <1> HIDE DEF S, n, m
  <1>6. CASE m = 0
    <2>1. S = {}
      BY <1>1, <1>4, <1>6, FS_EmptySet DEF n
    <2>2. page = << >>
      BY <1>5, <1>6
    <2>3. \A t \in C : t <= l
      <3>1. \A t \in C : ~(t > l)
        BY <2>1 DEF S
      <3> QED BY <1>0, <3>1
    <2> QED BY <2>2, <2>3
  <1>7. CASE m # 0
    <2>1. m \in 1 .. n /\ m \in Nat /\ m \in 1 .. Len(a)
      BY <1>2, <1>4, <1>7 DEF n
    <2> DEFINE T == {x \in S : x <= a[m]}
               D == {t \in C : t <= l}
    <2>2. page = Ascending(T)
      <3>1. S \in SUBSET Nat /\ IsFiniteSet(S) /\ m \in 1 .. Cardinality(S)
        BY <1>1, <2>1 DEF n
      <3>2. SubSeq(Ascending(S), 1, m) = Ascending({x \in S : x <= Ascending(S)[m]})
        BY ONLY <3>1, AscendingFirst
      <3>3. Ascending(S) = a
        BY <1>2
      <3> QED BY <1>5, <3>2, <3>3
    <2>3. Len(page) = m /\ page[m] = a[m] /\ page \in Seq(S)
      BY <1>2, <1>5, <2>1
    <2>4. page # << >> /\ Last(page) = a[m]
      BY <2>1, <2>3 DEF Last
    <2>5. a[m] \in S /\ a[m] \in Nat /\ a[m] > l
      <3>1. a[m] \in S /\ a[m] \in Nat
        BY <1>2, <2>1
      <3> QED BY <3>1 DEF S
    <2>6. D \cup T = {t \in C : t <= a[m]}
      <3>1. \A t \in C : t <= a[m] <=> t <= l \/ (t > l /\ t <= a[m])
        BY <1>0, <2>5
      <3>2. \A t : t \in D \cup T <=> t \in C /\ t <= a[m]
        BY <3>1 DEF S
      <3> QED BY <3>2
    <2>7. /\ D \in SUBSET Nat /\ IsFiniteSet(D) /\ T \in SUBSET Nat /\ IsFiniteSet(T)
          /\ \A x \in D, y \in T : x < y
      <3>1. D \in SUBSET C /\ T \in SUBSET S
        OBVIOUS
      <3>2. IsFiniteSet(D) /\ IsFiniteSet(T) /\ D \in SUBSET Nat /\ T \in SUBSET Nat
        <4> HIDE DEF D, T
        <4> QED BY <1>1, <3>1, FS_Subset
      <3>3. \A x \in D, y \in T : x < y
        BY <1>0, <1>1 DEF S
      <3> QED BY <3>2, <3>3
    <2> HIDE DEF D, T
    <2>8. Ascending(D \cup T) = Ascending(D) \o Ascending(T)
      BY <2>7, AscendingJoin
    <2>9. Joined(Ascending(D), page) = Ascending({t \in C : t <= Last(page)})
      BY <2>2, <2>4, <2>6, <2>8 DEF Joined
    <2>10. page \in Seq(C)
      <3>1. \A x \in S : x \in C
        BY <1>1
      <3>2. \A i \in 1 .. Len(page) : page[i] \in S
        BY ONLY <2>3
      <3>3. \A i \in 1 .. Len(page) : page[i] \in C
        BY ONLY <3>1, <3>2
      <3>4. Len(page) \in Nat /\ page = [i \in 1 .. Len(page) |-> page[i]]
        BY ONLY <2>3
      <3> QED BY ONLY <3>3, <3>4
    <2> QED BY <2>4, <2>5, <2>9, <2>10 DEF D, Within
  <1> QED BY <1>6, <1>7
---------------------------------------------------------------------------
(* The documents of a page and their search rows show the page's titles.   *)

LEMMA SequenceOf ==
  ASSUME NEW S, NEW s \in Seq(S)
  PROVE  s \in Seq(ToSet(s))
  <1>1. \A i \in 1 .. Len(s) : s[i] \in ToSet(s)
    BY DEF ToSet
  <1>2. Len(s) \in Nat /\ s = [i \in 1 .. Len(s) |-> s[i]]
    OBVIOUS
  <1> HIDE DEF ToSet
  <1> QED BY <1>1, <1>2

LEMMA WiderSequence ==
  ASSUME NEW S, NEW T, S \subseteq T, NEW s \in Seq(S)
  PROVE  s \in Seq(T)
  OBVIOUS

LEMMA DocumentsOf ==
  ASSUME NEW C, NEW page \in Seq(C), NEW names
  PROVE  LET docs == [i \in DOMAIN page |-> Document(stg, enriched, names, page[i])]
         IN  /\ docs \in Seq({Document(stg, enriched, names, t) : t \in C})
             /\ Titles(docs) = page
  <1> DEFINE Doc(t) == Document(stg, enriched, names, t)
             docs == [i \in DOMAIN page |-> Doc(page[i])]
  <1>1. \A t : Doc(t).t = t
    BY DEF Document
  <1>2. DOMAIN page = 1 .. Len(page) /\ Len(page) \in Nat
        /\ \A i \in 1 .. Len(page) : page[i] \in C
    OBVIOUS
  <1> HIDE DEF Doc
  <1>3. \A i \in 1 .. Len(page) : docs[i] = Doc(page[i])
    BY <1>2
  <1>4. docs \in Seq({Doc(t) : t \in C})
    BY <1>2
  <1>5. DOMAIN docs = 1 .. Len(page)
    BY <1>2
  <1>6. \A i \in 1 .. Len(page) : docs[i].t = page[i]
    BY <1>1, <1>3
  <1>7. page = [i \in 1 .. Len(page) |-> page[i]]
    OBVIOUS
  <1>8. Titles(docs) = page
    BY <1>5, <1>6, <1>7 DEF Titles
  <1> QED BY <1>4, <1>8 DEF Doc

LEMMA SearchRowsOf ==
  ASSUME NEW S, NEW s \in Seq(S)
  PROVE  LET rows == [i \in DOMAIN s |-> SearchRow(s[i])]
         IN  /\ rows \in Seq({SearchRow(d) : d \in S})
             /\ Titles(rows) = Titles(s)
  <1> DEFINE rows == [i \in DOMAIN s |-> SearchRow(s[i])]
  <1>1. \A d : SearchRow(d).t = d.t
    BY DEF SearchRow
  <1>2. DOMAIN s = 1 .. Len(s) /\ Len(s) \in Nat /\ \A i \in 1 .. Len(s) : s[i] \in S
    OBVIOUS
  <1>3. rows \in Seq({SearchRow(d) : d \in S})
    BY <1>2
  <1>4. DOMAIN rows = 1 .. Len(s) /\ \A i \in 1 .. Len(s) : rows[i].t = s[i].t
    BY <1>1, <1>2
  <1>5. Titles(rows) = Titles(s)
    BY <1>2, <1>4 DEF Titles
  <1> QED BY <1>3, <1>5

---------------------------------------------------------------------------
(* The batch build: before it starts the cursor is at 0 and the filter     *)
(* script chooses what the files say; while it runs, the documents are     *)
(* those of the chosen titles up to the cursor, and the search rows follow *)
(* them.                                                                   *)

BuiltTitles(titles) ==
  /\ titlesNext \in Seq(ToSet(titlesNext))
  /\ searchNext \in Seq(ToSet(searchNext))
  /\ Titles(titlesNext) = Ascending(titles)
  /\ Titles(searchNext) = Titles(Picked(titlesNext, NoEpisodes(titlesNext)))

BuildInvariant ==
  /\ last \in Nat
  /\ stage \in {"copy", "loaded", "enriched", "filtered"} => last = 0
  /\ stage \in {"filtered", "build", "built"} => filter = Chosen
  /\ stage = "build" => BuiltTitles(Within(Chosen, last))
  /\ stage = "built" => BuiltTitles(Chosen)

LEMMA InitBuilt == Init => BuildInvariant
  <1> SUFFICES ASSUME Init PROVE BuildInvariant
    OBVIOUS
  <1>1. stage = "copy" /\ last = 0
    BY DEF Init, LoadInit
  <1> QED BY <1>1 DEF BuildInvariant

LEMMA CreateNextBuilds ==
  ASSUME LoadInvariant, BuildInvariant, CreateNext
  PROVE  BuildInvariant'
  <1>1. /\ stage = "filtered" /\ stage' = "build" /\ titlesNext' = << >> /\ searchNext' = << >>
        /\ filter' = filter /\ last' = last /\ files' = files
    BY DEF CreateNext, Goto, input
  <1>2. Chosen' = Chosen
    BY <1>1, SameChosen
  <1>3. last = 0 /\ filter = Chosen
    BY <1>1 DEF BuildInvariant
  <1>4. Within(Chosen, last) = {}
    <2>1. \A t \in Chosen : t \in Nat /\ 0 < t
      BY ChosenNumbers DEF LoadInvariant
    <2>2. \A t \in Chosen : ~(t <= last)
      BY <1>3, <2>1
    <2> QED BY <2>2 DEF Within
  <1>5. Ascending({}) = << >>
    <2>1. PICK S : S = {}
      OBVIOUS
    <2>2. S \in SUBSET Nat /\ IsFiniteSet(S) /\ Cardinality(S) = 0
      BY <2>1, FS_EmptySet
    <2>3. PICK s \in Seq(S) : Ascending(S) = s /\ Len(s) = 0
      BY <2>2, AscendingIs
    <2>4. s = << >>
      BY <2>3
    <2> QED BY <2>1, <2>3, <2>4
  <1>6. Titles(<< >>) = << >> /\ Picked(<< >>, NoEpisodes(<< >>)) = << >>
    <2>1. Titles(<< >>) = << >>
      BY DEF Titles
    <2>2. NoEpisodes(<< >>) = 1 .. Len(<< >>)
      BY DEF NoEpisodes
    <2>3. Picked(<< >>, 1 .. Len(<< >>)) = << >>
      <3>1. << >> \in Seq({})
        OBVIOUS
      <3> QED BY <3>1, PickedEvery
    <2> QED BY <2>1, <2>2, <2>3
  <1>7. BuiltTitles(Within(Chosen, last))'
    <2>1. Within(Chosen, last)' = {}
      BY <1>1, <1>2, <1>4
    <2>2. << >> \in Seq(ToSet(<< >>))
      OBVIOUS
    <2> QED BY <1>1, <1>5, <1>6, <2>1, <2>2 DEF BuiltTitles
  <1> QED BY <1>1, <1>2, <1>3, <1>7 DEF BuildInvariant

LEMMA NoMoreTitlesBuilds ==
  ASSUME LoadInvariant, BuildInvariant, NoMoreTitles
  PROVE  BuildInvariant'
  <1>1. /\ stage = "build" /\ stage' = "built" /\ Page = << >>
        /\ titlesNext' = titlesNext /\ searchNext' = searchNext
        /\ filter' = filter /\ last' = last /\ files' = files
    BY DEF NoMoreTitles, Goto, input, built
  <1>2. Chosen' = Chosen
    BY <1>1, SameChosen
  <1>3. last \in Nat /\ filter = Chosen /\ BuiltTitles(Within(Chosen, last))
    BY <1>1 DEF BuildInvariant
  <1>4. Chosen \in SUBSET Nat /\ IsFiniteSet(Chosen)
    BY ChosenNumbers DEF LoadInvariant
  <1>5. \A t \in Chosen : t <= last
    <2>1. PICK C, page : C = Chosen /\ page = Page
      OBVIOUS
    <2>2. page = Capped(Ascending({t \in C : t > last}), BatchSize)
      BY <1>3, <2>1 DEF Page
    <2>3. page = << >>
      BY <1>1, <2>1
    <2>4. C \in SUBSET Nat /\ IsFiniteSet(C)
      BY <1>4, <2>1
    <2>5. \A t \in C : t <= last
      BY <1>3, <2>2, <2>3, <2>4, PageAdvances
    <2> QED BY <2>1, <2>5
  <1>6. Within(Chosen, last) = Chosen
    BY <1>5 DEF Within
  <1>7. BuiltTitles(Chosen)'
    BY <1>1, <1>2, <1>3, <1>6 DEF BuiltTitles
  <1> QED BY <1>1, <1>2, <1>3, <1>7 DEF BuildInvariant

(* A batch writes one document for each title of its page. *)
LEMMA BatchWrites ==
  ASSUME LoadInvariant, BuildInvariant, BuildBatch
  PROVE  \E C, page, D, docs, E, added :
           /\ C = Chosen /\ page = Page
           /\ docs \in Seq(D) /\ Titles(docs) = page
           /\ added \in Seq(E) /\ Titles(added) = Titles(Picked(docs, NoEpisodes(docs)))
           /\ titlesNext' = titlesNext \o docs
           /\ searchNext' = searchNext \o added
  <1>1. stage = "build" /\ Page # << >>
    BY DEF BuildBatch
  <1>2. last \in Nat /\ filter = Chosen
    BY <1>1 DEF BuildInvariant
  <1>3. Chosen \in SUBSET Nat /\ IsFiniteSet(Chosen) /\ Chosen \in SUBSET Typed
    BY ChosenNumbers DEF LoadInvariant
  <1>4. PICK C, page : C = Chosen /\ page = Page
    OBVIOUS
  <1>5. page \in Seq(C)
    <2>1. page = Capped(Ascending({t \in C : t > last}), BatchSize)
      BY <1>2, <1>4 DEF Page
    <2>2. page # << >> /\ C \in SUBSET Nat /\ IsFiniteSet(C)
      BY <1>1, <1>3, <1>4
    <2> QED BY <1>2, <2>1, <2>2, PageAdvances
  <1>6. {i \in DOMAIN page : page[i] \in {row.t : row \in ToSet(stg.basics)}} = 1 .. Len(page)
    <2>1. {row.t : row \in ToSet(stg.basics)} = Typed
      BY <1>1, FilterIsChosen
    <2>2. \A t \in C : t \in Typed
      BY <1>3, <1>4
    <2>3. DOMAIN page = 1 .. Len(page) /\ \A i \in 1 .. Len(page) : page[i] \in C
      BY <1>5
    <2>4. \A i \in 1 .. Len(page) : page[i] \in Typed
      BY <2>2, <2>3
    <2> QED BY <2>1, <2>3, <2>4
  <1> DEFINE staged == {row.t : row \in ToSet(stg.basics)}
             known == Picked(Page, {i \in DOMAIN Page : Page[i] \in staged})
             names == FetchNames(stg, ToSet(Page))
             docs == [i \in DOMAIN known |-> Document(stg, enriched, names, known[i])]
             searched == Picked(docs, NoEpisodes(docs))
             added == [i \in DOMAIN searched |-> SearchRow(searched[i])]
             D == {Document(stg, enriched, names, t) : t \in C}
             E == {SearchRow(d) : d \in D}
  <1>7. titlesNext' = titlesNext \o docs /\ searchNext' = searchNext \o added
    BY DEF BuildBatch, NoEpisodes
  <1>8. known = page
    <2>1. Picked(page, 1 .. Len(page)) = page
      BY <1>5, PickedEvery
    <2> QED BY <1>4, <1>6, <2>1
  <1> HIDE DEF known, names
  <1>9. known \in Seq(C)
    BY <1>5, <1>8
  <1>10. docs \in Seq(D) /\ Titles(docs) = known
    BY <1>9, DocumentsOf
  <1> HIDE DEF D, docs
  <1>11. searched \in Seq(D)
    <2>1. NoEpisodes(docs) \in SUBSET (1 .. Len(docs))
      BY <1>10 DEF NoEpisodes
    <2> QED BY <1>10, <2>1, PickedType
  <1> HIDE DEF searched
  <1>12. added \in Seq(E) /\ Titles(added) = Titles(searched)
    BY <1>11, SearchRowsOf
  <1> HIDE DEF added, E
  <1> QED BY <1>4, <1>7, <1>8, <1>10, <1>12 DEF searched

LEMMA BuildBatchBuilds ==
  ASSUME LoadInvariant, BuildInvariant, BuildBatch
  PROVE  BuildInvariant'
  <1>1. /\ stage = "build" /\ stage' = "build" /\ Page # << >> /\ last' = Last(Page)
        /\ filter' = filter /\ files' = files
    BY DEF BuildBatch, Goto, input
  <1>2. Chosen' = Chosen
    BY <1>1, SameChosen
  <1>3. last \in Nat /\ filter = Chosen /\ BuiltTitles(Within(Chosen, last))
    BY <1>1 DEF BuildInvariant
  <1>4. Chosen \in SUBSET Nat /\ IsFiniteSet(Chosen)
    BY ChosenNumbers DEF LoadInvariant
  <1>5. PICK C, page, D, docs, E, added :
           /\ C = Chosen /\ page = Page
           /\ docs \in Seq(D) /\ Titles(docs) = page
           /\ added \in Seq(E) /\ Titles(added) = Titles(Picked(docs, NoEpisodes(docs)))
           /\ titlesNext' = titlesNext \o docs
           /\ searchNext' = searchNext \o added
    BY BatchWrites
  <1>6. PICK titles, rows : titles = titlesNext /\ rows = searchNext
    OBVIOUS
  <1>7. /\ titles \in Seq(ToSet(titles)) /\ rows \in Seq(ToSet(rows))
        /\ Titles(titles) = Ascending(Within(C, last))
        /\ Titles(rows) = Titles(Picked(titles, NoEpisodes(titles)))
    BY <1>3, <1>5, <1>6 DEF BuiltTitles
  <1> DEFINE DD == ToSet(titles) \cup D
             EE == ToSet(rows) \cup E
  <1>8. titles \in Seq(DD) /\ docs \in Seq(DD) /\ rows \in Seq(EE) /\ added \in Seq(EE)
    <2>1. ToSet(titles) \subseteq DD /\ D \subseteq DD /\ ToSet(rows) \subseteq EE /\ E \subseteq EE
      OBVIOUS
    <2> HIDE DEF DD, EE
    <2> QED BY <1>5, <1>7, <2>1, WiderSequence
  <1> HIDE DEF DD, EE
  <1>9. /\ Last(page) \in Nat
        /\ Joined(Ascending(Within(C, last)), page) = Ascending(Within(C, Last(page)))
    <2>1. page = Capped(Ascending({t \in C : t > last}), BatchSize)
      BY <1>3, <1>5 DEF Page
    <2>2. page # << >> /\ C \in SUBSET Nat /\ IsFiniteSet(C)
      BY <1>1, <1>4, <1>5
    <2> QED BY <1>3, <2>1, <2>2, PageAdvances
  <1>10. Titles(titles \o docs) = Ascending(Within(C, Last(page)))
    <2>1. Titles(titles \o docs) = Joined(Titles(titles), Titles(docs))
      BY <1>8, TitlesJoin DEF Joined
    <2> QED BY <1>5, <1>7, <1>9, <2>1
  <1>11. Titles(rows \o added) = Titles(Picked(titles \o docs, NoEpisodes(titles \o docs)))
    BY <1>5, <1>7, <1>8, SearchFollows
  <1>12. titles \o docs \in Seq(DD) /\ rows \o added \in Seq(EE)
    BY <1>8
  <1>13. /\ titles \o docs \in Seq(ToSet(titles \o docs))
         /\ rows \o added \in Seq(ToSet(rows \o added))
    BY <1>12, SequenceOf
  <1>14. BuiltTitles(Within(Chosen, last))'
    <2>1. Within(Chosen, last)' = Within(C, Last(page))
      BY <1>1, <1>2, <1>5 DEF Within
    <2>2. titlesNext' = titles \o docs /\ searchNext' = rows \o added
      BY <1>5, <1>6
    <2> QED BY <1>10, <1>11, <1>13, <2>1, <2>2 DEF BuiltTitles
  <1> QED BY <1>1, <1>2, <1>3, <1>5, <1>9, <1>14 DEF BuildInvariant

LEMMA NextBuilt == LoadInvariant /\ BuildInvariant /\ [Next]_vars => BuildInvariant'
  <1> SUFFICES ASSUME LoadInvariant, BuildInvariant, [Next]_vars PROVE BuildInvariant'
    OBVIOUS
  <1>1. CASE Load
    <2>1. stage = "copy" /\ stage' \in {"copy", "loaded", "failed"} /\ last' = last
      BY <1>1 DEF Load, LoadNext, EndOfFile, SkipBlank, ReadHeader, SkipRow, TakeRow,
                  FinishCopy, LoadFails, Reading, built
    <2> QED BY <2>1 DEF BuildInvariant
  <1>2. CASE EnrichEpisodes
    <2>1. stage = "loaded" /\ stage' = "enriched" /\ last' = last
      BY <1>2 DEF EnrichEpisodes, Goto, built
    <2> QED BY <2>1 DEF BuildInvariant
  <1>3. CASE FilterTitles
    <2>1. /\ stage = "enriched" /\ stage' = "filtered" /\ last' = last /\ files' = files
          /\ filter' = {row.t : row \in {b \in ToSet(stg.basics) : b.year = DatasetYear}}
               \cup ({row.t : row \in {r \in ToSet(stg.ratings) : r.votes >= MinNumVotes}}
                       \cap {row.t : row \in ToSet(stg.basics)})
      BY <1>3 DEF FilterTitles, Goto, built, input
    <2>2. filter' = Chosen
      BY <2>1, FilterIsChosen
    <2>3. Chosen' = Chosen
      BY <2>1, SameChosen
    <2> QED BY <2>1, <2>2, <2>3 DEF BuildInvariant
  <1>4. CASE CreateNext
    BY <1>4, CreateNextBuilds
  <1>5. CASE BuildBatch
    BY <1>5, BuildBatchBuilds
  <1>6. CASE NoMoreTitles
    BY <1>6, NoMoreTitlesBuilds
  <1>7. CASE StatementFails
    <2>1. stage' = "failed" /\ last' = last
      BY <1>7 DEF StatementFails, Goto, built
    <2> QED BY <2>1 DEF BuildInvariant
  <1>8. CASE UNCHANGED vars
    <2>1. UNCHANGED <<files, stage, filter, last, titlesNext, searchNext>>
      BY <1>8 DEF vars, loadVars, input, built
    <2>2. Chosen' = Chosen
      BY <2>1, SameChosen
    <2> QED BY <2>1, <2>2 DEF BuildInvariant, BuiltTitles
  <1> QED BY <1>1, <1>2, <1>3, <1>4, <1>5, <1>6, <1>7, <1>8 DEF Next

LEMMA BuiltAreWanted == BuildInvariant => WantedAreBuilt
  <1> SUFFICES ASSUME BuildInvariant, stage \in {"build", "built"}
               PROVE  LET done == Ascending({t \in Chosen : stage = "built" \/ t <= last})
                          searched == Picked(titlesNext,
                            {i \in DOMAIN titlesNext : titlesNext[i].type # "tvepisode"})
                      IN  /\ filter = Chosen
                          /\ [i \in DOMAIN titlesNext |-> titlesNext[i].t] = done
                          /\ [i \in DOMAIN searchNext |-> searchNext[i].t]
                               = [i \in DOMAIN searched |-> searched[i].t]
    BY DEF WantedAreBuilt
  <1>1. filter = Chosen
    BY DEF BuildInvariant
  <1>2. BuiltTitles({t \in Chosen : stage = "built" \/ t <= last})
    <2>1. CASE stage = "build"
      <3>1. {t \in Chosen : stage = "built" \/ t <= last} = Within(Chosen, last)
        BY <2>1 DEF Within
      <3> QED BY <2>1, <3>1 DEF BuildInvariant
    <2>2. CASE stage = "built"
      <3>1. {t \in Chosen : stage = "built" \/ t <= last} = Chosen
        BY <2>2
      <3> QED BY <2>2, <3>1 DEF BuildInvariant
    <2> QED BY <2>1, <2>2
  <1> QED BY <1>1, <1>2 DEF BuiltTitles, Titles, NoEpisodes

(* Whatever the files hold and however titles fall into batches, the batch *)
(* build makes one document for each chosen title up to its cursor, in     *)
(* order, one search row for each that is no episode, and the filter       *)
(* script chooses in SQL what the allowlists chose in Go: fetchTconstBatch *)
(* and buildAndInsertBatch skip no title and repeat none.                  *)
THEOREM BuildIsWanted == Spec => []WantedAreBuilt
  <1>1. Spec => []LoadInvariant
    BY InitLoaded, NextLoaded, PTL DEF Spec
  <1>2. Spec => []BuildInvariant
    BY <1>1, InitBuilt, NextBuilt, PTL DEF Spec
  <1> QED BY <1>2, BuiltAreWanted, PTL

---------------------------------------------------------------------------
(* A staging table after the load: the wanted rows of its file, the k-th   *)
(* from line a[k].                                                         *)
StagedFrom(f, s, a) ==
  /\ s \in Seq(AllRows) /\ Len(s) \in Nat /\ DOMAIN s = 1 .. Len(s)
  /\ \A k \in 1 .. Len(s) : /\ a[k] \in RowLines(files[f]) /\ s[k] = files[f][a[k]].row
                            /\ s[k] \in RowsOf(f) /\ Selected(f, s[k])
  /\ \A k, l \in 1 .. Len(s) : a[k] = a[l] => k = l
  /\ \A row \in RowsOf(f) : Selected(f, row) => \E k \in 1 .. Len(s) : s[k] = row

LEMMA StagedIs ==
  ASSUME files \in Inputs, NEW f \in Files
  PROVE  \E a : StagedFrom(f, Staged(f, Len(files[f])), a)
  <1> DEFINE p == Len(files[f])
  <1>1. p \in Nat
    BY FilesAreSequences
  <1>2. PICK S, s : S = Picks(f, p) /\ s = Staged(f, p)
    OBVIOUS
  <1>3. S \in SUBSET Nat /\ IsFiniteSet(S) /\ Cardinality(S) \in Nat
    BY <1>1, <1>2, PicksType
  <1>4. PICK a \in Seq(S) :
           /\ Ascending(S) = a /\ Len(a) = Cardinality(S)
           /\ \A i \in 1 .. Len(a) : a[i] \in S /\ a[i] \in Nat
           /\ \A i, j \in 1 .. Len(a) : i < j => a[i] < a[j]
           /\ \A x \in S : \E i \in 1 .. Len(a) : a[i] = x
    BY <1>3, AscendingIs
  <1>5. /\ s \in Seq(AllRows) /\ Len(s) = Len(a) /\ Len(s) \in Nat /\ DOMAIN s = 1 .. Len(s)
        /\ \A k \in 1 .. Len(s) : s[k] = RowAt(f, a[k])
    <2>1. /\ s \in Seq(AllRows) /\ Len(s) = Cardinality(S)
          /\ \A k \in 1 .. Cardinality(S) : s[k] = RowAt(f, Ascending(S)[k])
      BY <1>1, <1>2, StagedType
    <2> QED BY <1>3, <1>4, <2>1
  <1>6. \A i \in S : /\ i \in RowLines(files[f]) /\ RowAt(f, i) = files[f][i].row
                     /\ RowAt(f, i) \in RowsOf(f) /\ Selected(f, RowAt(f, i))
    BY <1>2 DEF Picks, RowAt, RowsOf
  <1>7. \A k, l \in 1 .. Len(s) : a[k] = a[l] => k = l
    <2> SUFFICES ASSUME NEW k \in 1 .. Len(s), NEW l \in 1 .. Len(s), a[k] = a[l] PROVE k = l
      OBVIOUS
    <2>1. ~(k < l) /\ ~(l < k)
      BY <1>4, <1>5
    <2> QED BY <1>5, <2>1
  <1>8. ASSUME NEW row \in RowsOf(f), Selected(f, row)
        PROVE  \E k \in 1 .. Len(s) : s[k] = row
    <2>1. PICK i \in S : RowAt(f, i) = row
      BY <1>2, <1>8, PickedAll
    <2>2. PICK k \in 1 .. Len(a) : a[k] = i
      BY <1>4
    <2> QED BY <1>5, <2>1, <2>2
  <1>9. \A k \in 1 .. Len(s) : a[k] \in S
    BY <1>4, <1>5
  <1>10. StagedFrom(f, s, a)
    BY <1>5, <1>6, <1>7, <1>8, <1>9 DEF StagedFrom
  <1> QED BY <1>2, <1>10

(* Every table is complete. *)
Complete == \A f \in Files : stg[f] = Staged(f, Len(files[f]))

LEMMA LoadedComplete ==
  ASSUME LoadInvariant, stage \notin {"copy", "failed"}
  PROVE  Complete
  BY LoadedWhole DEF Complete

LEMMA SeriesNumbered ==
  ASSUME files \in Inputs
  PROVE  /\ \A row \in RowsOf("episode") :
              row.t \in Int /\ row.season \in Int /\ row.number \in Int
         /\ \A a, b \in RowsOf("episode") : a.t = b.t => a = b
         /\ \A i, j \in RowLines(files["episode"]) :
              files["episode"][i].row.t = files["episode"][j].row.t => i = j
  <1>1. \A i \in RowLines(files["episode"]) :
          LET row == files["episode"][i].row
          IN  row.t \in Nat /\ row.season \in Int /\ row.number \in Int
    BY ColumnsAssumption DEF Null
  <1>2. Unique(files["episode"], LAMBDA row : row.t)
    BY InputsAssumption
  <1>3. \A i, j \in RowLines(files["episode"]) :
          files["episode"][i].row.t = files["episode"][j].row.t => i = j
    BY <1>2 DEF Unique
  <1> QED BY <1>1, <1>3 DEF RowsOf

(* The derived table has the episodes with a staged title of their own.    *)
SameEpisode(a, b) ==
  a.t = b.t /\ a.parent = b.parent /\ a.season = b.season /\ a.number = b.number
Enriched(e, S) ==
  /\ e \in Seq(S) /\ DOMAIN e = 1 .. Len(e) /\ Len(e) \in Nat
  /\ \A row \in S : row.t \in Int /\ row.season \in Int /\ row.number \in Int
  /\ \A i, j \in 1 .. Len(e) : e[i].t = e[j].t => i = j
  /\ \A i \in 1 .. Len(e) : \E row \in RowsOf("episode") :
       row.t \in Typed /\ row.parent \in Chosen /\ SameEpisode(e[i], row)
  /\ \A row \in RowsOf("episode") :
       row.t \in Typed /\ row.parent \in Chosen =>
         \E i \in 1 .. Len(e) : SameEpisode(e[i], row)

LEMMA EnrichedIs ==
  ASSUME files \in Inputs, Complete
  PROVE  \E S : Enriched(EpisodesEnriched, S)
  <1> DEFINE staged == {row.t : row \in ToSet(stg.basics)}
             P == {i \in DOMAIN stg.episode : stg.episode[i].t \in staged}
             known == Picked(stg.episode, P)
             entry(i) == [parent |-> known[i].parent, t |-> known[i].t,
                          season |-> known[i].season, number |-> known[i].number,
                          title |-> BasicOf(stg.basics, known[i].t).primary,
                          votes |-> VotesOf(stg.ratings, known[i].t)]
  <1>1. EpisodesEnriched = [i \in DOMAIN known |-> entry(i)]
    BY DEF EpisodesEnriched
  <1>2. PICK s, a : s = stg.episode /\ StagedFrom("episode", s, a)
    <2>1. "episode" \in Files
      BY PlaceOfFile
    <2> QED BY <2>1, StagedIs DEF Complete
  <1>3. staged = Typed
    <2>1. "basics" \in Files
      BY PlaceOfFile
    <2>2. ToSet(stg.basics) = {RowAt("basics", i) : i \in Picks("basics", Len(files["basics"]))}
      BY <2>1, RowsStaged DEF Complete
    <2>3. staged = TypedBy(Len(files["basics"]))
      BY <2>2 DEF TypedBy
    <2> QED BY <2>3, TypedWhole
  <1>4. P \in SUBSET (1 .. Len(s)) /\ \A i : i \in P <=> i \in 1 .. Len(s) /\ s[i].t \in Typed
    BY <1>2, <1>3 DEF StagedFrom
  <1> HIDE DEF staged, P
  <1>5. PICK k, b : k = known /\ PickedFrom(AllRows, s, P, k, b)
    <2>1. s \in Seq(AllRows)
      BY <1>2 DEF StagedFrom
    <2> QED BY <1>2, <1>4, <2>1, PickedIs
  <1>6. /\ DOMAIN k = 1 .. Len(k) /\ Len(k) \in Nat
        /\ \A i \in 1 .. Len(k) : b[i] \in P /\ k[i] = s[b[i]]
        /\ \A i, j \in 1 .. Len(k) : b[i] = b[j] => i = j
        /\ \A i \in P : \E j \in 1 .. Len(k) : b[j] = i
    BY <1>5 DEF PickedFrom
  <1>7. \A i \in 1 .. Len(k) : /\ k[i] \in RowsOf("episode") /\ k[i].t \in Typed
                               /\ Selected("episode", k[i])
    BY <1>2, <1>4, <1>6 DEF StagedFrom
  <1> DEFINE e == EpisodesEnriched
             S == {entry(i) : i \in 1 .. Len(k)}
  <1>8. e = [i \in 1 .. Len(k) |-> entry(i)]
    BY <1>1, <1>5, <1>6
  <1>9. \A i \in 1 .. Len(k) : SameEpisode(entry(i), k[i])
    BY <1>5 DEF SameEpisode
  <1> HIDE DEF entry, e
  <1>10. e \in [1 .. Len(k) -> S] /\ \A i \in 1 .. Len(k) : e[i] = entry(i)
    BY <1>8
  <1>11. e \in Seq(S) /\ DOMAIN e = 1 .. Len(e) /\ Len(e) = Len(k)
    <2> HIDE DEF S
    <2> QED BY <1>6, <1>10
  <1>12. \A row \in S : row.t \in Int /\ row.season \in Int /\ row.number \in Int
    BY <1>7, <1>9, SeriesNumbered DEF SameEpisode
  <1>13. ASSUME NEW i \in 1 .. Len(k), NEW j \in 1 .. Len(k), e[i].t = e[j].t
         PROVE  i = j
    <2>1. k[i].t = k[j].t
      BY <1>9, <1>10, <1>13 DEF SameEpisode
    <2>2. b[i] \in 1 .. Len(s) /\ b[j] \in 1 .. Len(s) /\ s[b[i]].t = s[b[j]].t
      BY <1>4, <1>6, <2>1
    <2>3. PICK x, y : x = b[i] /\ y = b[j]
      OBVIOUS
    <2>4. /\ a[x] \in RowLines(files["episode"]) /\ s[x] = files["episode"][a[x]].row
          /\ a[y] \in RowLines(files["episode"]) /\ s[y] = files["episode"][a[y]].row
          /\ a[x] = a[y] => x = y
      BY <1>2, <2>2, <2>3 DEF StagedFrom
    <2>5. a[x] = a[y]
      BY <2>2, <2>3, <2>4, SeriesNumbered
    <2> QED BY <1>6, <2>3, <2>4, <2>5
  <1>14. \A row : Selected("episode", row) <=> row.parent \in Chosen
    BY Zenon DEF Selected, Wanted
  <1>15. ASSUME NEW i \in 1 .. Len(k)
         PROVE  \E row \in RowsOf("episode") :
                  row.t \in Typed /\ row.parent \in Chosen /\ SameEpisode(e[i], row)
    BY <1>7, <1>9, <1>10, <1>14
  <1>16. ASSUME NEW row \in RowsOf("episode"), row.t \in Typed, row.parent \in Chosen
         PROVE  \E i \in 1 .. Len(k) : SameEpisode(e[i], row)
    <2>1. PICK j \in 1 .. Len(s) : s[j] = row
      BY <1>2, <1>14, <1>16 DEF StagedFrom
    <2>2. PICK i \in 1 .. Len(k) : b[i] = j
      BY <1>4, <1>6, <1>16, <2>1
    <2> QED BY <1>6, <1>9, <1>10, <2>1, <2>2
  <1> HIDE DEF S
  <1>17. Enriched(e, S)
    BY <1>6, <1>11, <1>12, <1>13, <1>15, <1>16 DEF Enriched
  <1> QED BY <1>17 DEF e

---------------------------------------------------------------------------
(* What is built: every document is the one of a chosen title, made with   *)
(* the names of some titles of which it is one, every search row that of   *)
(* such a document, and all of them from complete tables.                  *)

Made(doc) ==
  /\ doc.t \in Chosen
  /\ \E P \in SUBSET Chosen :
       doc.t \in P /\ doc = Document(stg, enriched, FetchNames(stg, P), doc.t)

DocumentsMade ==
  /\ \A doc \in ToSet(titlesNext) : Made(doc)
  /\ \A row \in ToSet(searchNext) : \E doc : Made(doc) /\ row = SearchRow(doc)

MadeInvariant ==
  /\ titlesNext # << >> \/ searchNext # << >> => Complete /\ enriched = EpisodesEnriched
  /\ stage = "copy" => titlesNext = << >> /\ searchNext = << >>
  /\ stage = "loaded" => titlesNext = << >> /\ searchNext = << >>
  /\ stage \in {"enriched", "filtered", "build", "built"} =>
       Complete /\ enriched = EpisodesEnriched
  /\ DocumentsMade

(* What two sequences are made of, one after the other *)
LEMMA JoinedSet ==
  ASSUME NEW T, NEW s \in Seq(T), NEW d \in Seq(T)
  PROVE  ToSet(s \o d) \subseteq ToSet(s) \cup ToSet(d)
  <1>1. /\ Len(s) \in Nat /\ Len(d) \in Nat /\ DOMAIN s = 1 .. Len(s) /\ DOMAIN d = 1 .. Len(d)
        /\ DOMAIN (s \o d) = 1 .. Len(s) + Len(d)
    OBVIOUS
  <1>2. ASSUME NEW i \in 1 .. Len(s) + Len(d)
        PROVE  (s \o d)[i] \in ToSet(s) \cup ToSet(d)
    <2>1. CASE i \in 1 .. Len(s)
      BY <1>1, <2>1, SeqJoin DEF ToSet
    <2>2. CASE i \notin 1 .. Len(s)
      <3>1. PICK j \in 1 .. Len(d) : i = Len(s) + j
        <4>1. i - Len(s) \in 1 .. Len(d) /\ i = Len(s) + (i - Len(s))
          BY <1>1, <2>2
        <4> QED BY <4>1
      <3>2. (s \o d)[i] = d[j]
        BY <3>1, SeqJoin
      <3>3. d[j] \in ToSet(d)
        BY <1>1 DEF ToSet
      <3> QED BY <3>2, <3>3
    <2> QED BY <2>1, <2>2
  <1> QED BY <1>1, <1>2 DEF ToSet

LEMMA InitMade == Init => MadeInvariant
  BY DEF Init, LoadInit, MadeInvariant, DocumentsMade, ToSet

(* What was made stays so while staging and the derived table do.          *)
LEMMA MadeStays ==
  ASSUME UNCHANGED <<files, stg, enriched>>
  PROVE  /\ Complete' = Complete /\ EpisodesEnriched' = EpisodesEnriched
         /\ \A doc : Made(doc) => Made(doc)'
  <1>1. \A f, p : Staged(f, p)' = Staged(f, p)
    BY SamePicks DEF Staged, RowAt
  <1>2. Complete' = Complete
    BY <1>1 DEF Complete
  <1>3. EpisodesEnriched' = EpisodesEnriched
    BY DEF EpisodesEnriched
  <1>4. Chosen' = Chosen
    BY SameChosen
  <1>5. \A doc : Made(doc) => Made(doc)'
    BY <1>4 DEF Made
  <1> QED BY <1>2, <1>3, <1>5

(* A batch makes the documents of its page. *)
LEMMA BatchMakes ==
  ASSUME LoadInvariant, BuildInvariant, MadeInvariant, BuildBatch
  PROVE  \E docs, added :
           /\ titlesNext' = titlesNext \o docs /\ searchNext' = searchNext \o added
           /\ \E S : docs \in Seq(S)
           /\ \E S : added \in Seq(S)
           /\ \A doc \in ToSet(docs) : Made(doc)
           /\ \A row \in ToSet(added) : \E doc : Made(doc) /\ row = SearchRow(doc)
  <1>1. stage = "build" /\ Page # << >>
    BY DEF BuildBatch
  <1>2. last \in Nat /\ filter = Chosen
    BY <1>1 DEF BuildInvariant
  <1>3. Chosen \in SUBSET Nat /\ IsFiniteSet(Chosen)
    BY ChosenNumbers DEF LoadInvariant
  <1>4. PICK C, page : C = Chosen /\ page = Page
    OBVIOUS
  <1>5. page \in Seq(C)
    <2>1. page = Capped(Ascending({t \in C : t > last}), BatchSize)
      BY <1>2, <1>4 DEF Page
    <2>2. page # << >> /\ C \in SUBSET Nat /\ IsFiniteSet(C)
      BY <1>1, <1>3, <1>4
    <2> QED BY <1>2, <2>1, <2>2, PageAdvances
  <1> DEFINE staged == {row.t : row \in ToSet(stg.basics)}
             Q == {i \in DOMAIN Page : Page[i] \in staged}
             known == Picked(Page, Q)
             names == FetchNames(stg, ToSet(Page))
             docs == [i \in DOMAIN known |-> Document(stg, enriched, names, known[i])]
             searched == Picked(docs, NoEpisodes(docs))
             added == [i \in DOMAIN searched |-> SearchRow(searched[i])]
             D == {Document(stg, enriched, names, t) : t \in ToSet(page)}
  <1>6. titlesNext' = titlesNext \o docs /\ searchNext' = searchNext \o added
    BY DEF BuildBatch, NoEpisodes
  <1>7. PICK r, a : r = known /\ PickedFrom(C, page, Q, r, a)
    <2>1. Q \in SUBSET (1 .. Len(page))
      BY <1>4, <1>5
    <2> HIDE DEF Q
    <2> QED BY <1>4, <1>5, <2>1, PickedIs
  <1>8. /\ Len(r) \in Nat /\ DOMAIN r = 1 .. Len(r)
        /\ \A i \in 1 .. Len(r) : r[i] \in ToSet(page)
    <2>1. \A i \in Q : page[i] \in ToSet(page)
      BY <1>4, <1>5 DEF ToSet
    <2> HIDE DEF Q
    <2> QED BY <1>7, <2>1 DEF PickedFrom
  <1>9. docs = [i \in 1 .. Len(r) |-> Document(stg, enriched, names, r[i])]
    <2> HIDE DEF known, names
    <2> QED BY <1>7, <1>8
  <1>10. \A t \in ToSet(page) : Document(stg, enriched, names, t) \in D
    OBVIOUS
  <1> HIDE DEF known, names, docs
  <1>11. docs \in [1 .. Len(r) -> D]
    <2> HIDE DEF D
    <2> QED BY <1>8, <1>9, <1>10
  <1>12. docs \in Seq(D) /\ Len(docs) = Len(r)
    <2> HIDE DEF D
    <2> QED BY <1>8, <1>11
  <1>13. \A doc \in D : Made(doc)
    <2> SUFFICES ASSUME NEW t \in ToSet(page)
                 PROVE  Made(Document(stg, enriched, names, t))
      BY DEF D
    <2> DEFINE doc == Document(stg, enriched, names, t)
    <2>1. doc.t = t
      BY DEF Document
    <2>2. ToSet(page) \in SUBSET C
      BY <1>5 DEF ToSet
    <2>3. doc = Document(stg, enriched, FetchNames(stg, ToSet(page)), t)
      BY <1>4 DEF names
    <2> HIDE DEF doc
    <2>4. Made(doc)
      BY <1>4, <2>1, <2>2, <2>3 DEF Made
    <2> QED BY <2>4 DEF doc
  <1> HIDE DEF D
  <1>14. \A doc \in ToSet(docs) : Made(doc)
    BY <1>12, <1>13 DEF ToSet
  <1>15. PICK u, b : u = searched /\ PickedFrom(D, docs, NoEpisodes(docs), u, b)
    <2>1. NoEpisodes(docs) \in SUBSET (1 .. Len(docs))
      BY <1>12 DEF NoEpisodes
    <2> QED BY <1>12, <2>1, PickedIs
  <1>16. u \in Seq(D) /\ Len(u) \in Nat /\ DOMAIN u = 1 .. Len(u)
    BY <1>15 DEF PickedFrom
  <1>17. added = [i \in 1 .. Len(u) |-> SearchRow(u[i])]
    BY <1>15, <1>16
  <1> HIDE DEF searched, added
  <1>18. added \in Seq({SearchRow(d) : d \in D}) /\ Len(added) = Len(u)
    <2> DEFINE E == {SearchRow(d) : d \in D}
    <2>1. \A d \in D : SearchRow(d) \in E
      OBVIOUS
    <2> HIDE DEF E
    <2>2. added \in [1 .. Len(u) -> E]
      BY <1>16, <1>17, <2>1
    <2>3. added \in Seq(E) /\ Len(added) = Len(u)
      BY <1>16, <2>2
    <2> QED BY <2>3 DEF E
  <1>19. \A row \in ToSet(added) : \E doc : Made(doc) /\ row = SearchRow(doc)
    <2> SUFFICES ASSUME NEW i \in 1 .. Len(u)
                 PROVE  \E doc : Made(doc) /\ added[i] = SearchRow(doc)
      BY <1>17 DEF ToSet
    <2>1. u[i] \in D /\ added[i] = SearchRow(u[i])
      BY <1>16, <1>17
    <2> QED BY <1>13, <2>1
  <1> QED BY <1>6, <1>12, <1>14, <1>18, <1>19

LEMMA BuildBatchMade ==
  ASSUME LoadInvariant, BuildInvariant, MadeInvariant, BuildBatch
  PROVE  MadeInvariant'
  <1>1. /\ stage = "build" /\ stage' = "build"
        /\ UNCHANGED <<files, stg, enriched>>
    BY DEF BuildBatch, Goto, input
  <1>2. PICK docs, added :
           /\ titlesNext' = titlesNext \o docs /\ searchNext' = searchNext \o added
           /\ \E S : docs \in Seq(S)
           /\ \E S : added \in Seq(S)
           /\ \A doc \in ToSet(docs) : Made(doc)
           /\ \A row \in ToSet(added) : \E doc : Made(doc) /\ row = SearchRow(doc)
    BY BatchMakes
  <1>3. PICK S, R : docs \in Seq(S) /\ added \in Seq(R)
    BY <1>2
  <1>4. PICK old, had : /\ old = titlesNext /\ had = searchNext
                        /\ old \in Seq(ToSet(old)) /\ had \in Seq(ToSet(had))
    BY <1>1 DEF BuildInvariant, BuiltTitles
  <1>5. /\ \A doc \in ToSet(old) : Made(doc)
        /\ \A row \in ToSet(had) : \E doc : Made(doc) /\ row = SearchRow(doc)
    BY <1>4 DEF MadeInvariant, DocumentsMade
  <1>6. ToSet(old \o docs) \subseteq ToSet(old) \cup ToSet(docs)
    <2> DEFINE T == ToSet(old) \cup S
    <2>1. ToSet(old) \subseteq T /\ S \subseteq T
      OBVIOUS
    <2> HIDE DEF T
    <2>2. old \in Seq(T) /\ docs \in Seq(T)
      BY <1>3, <1>4, <2>1, WiderSequence
    <2> QED BY <2>2, JoinedSet
  <1>7. ToSet(had \o added) \subseteq ToSet(had) \cup ToSet(added)
    <2> DEFINE T == ToSet(had) \cup R
    <2>1. ToSet(had) \subseteq T /\ R \subseteq T
      OBVIOUS
    <2> HIDE DEF T
    <2>2. had \in Seq(T) /\ added \in Seq(T)
      BY <1>3, <1>4, <2>1, WiderSequence
    <2> QED BY <2>2, JoinedSet
  <1>8. /\ \A doc \in ToSet(old \o docs) : Made(doc)
        /\ \A row \in ToSet(had \o added) : \E doc : Made(doc) /\ row = SearchRow(doc)
    BY <1>2, <1>5, <1>6, <1>7
  <1>9. /\ Complete' = Complete /\ EpisodesEnriched' = EpisodesEnriched
        /\ \A doc : Made(doc) => Made(doc)'
    BY <1>1, MadeStays
  <1>10. DocumentsMade'
    <2>1. \A doc \in ToSet(titlesNext') : Made(doc)'
      BY <1>2, <1>4, <1>8, <1>9
    <2>2. \A row \in ToSet(searchNext') : \E doc : Made(doc)' /\ row = SearchRow(doc)
      BY <1>2, <1>4, <1>8, <1>9
    <2> QED BY <2>1, <2>2 DEF DocumentsMade
  <1> QED BY <1>1, <1>9, <1>10 DEF MadeInvariant

LEMMA NextMade ==
  LoadInvariant /\ BuildInvariant /\ MadeInvariant /\ [Next]_vars => MadeInvariant'
  <1> SUFFICES ASSUME LoadInvariant, BuildInvariant, MadeInvariant, [Next]_vars
               PROVE  MadeInvariant'
    OBVIOUS
  <1>1. CASE Load
    <2>1. /\ stage = "copy" /\ stage' \in {"copy", "loaded", "failed"}
          /\ titlesNext' = titlesNext /\ searchNext' = searchNext
      BY <1>1 DEF Load, LoadNext, EndOfFile, SkipBlank, ReadHeader, SkipRow, TakeRow,
                  FinishCopy, LoadFails, Reading, built
    <2>2. titlesNext' = << >> /\ searchNext' = << >>
      BY <2>1 DEF MadeInvariant
    <2> QED BY <2>1, <2>2 DEF MadeInvariant, DocumentsMade, ToSet
  <1>2. CASE EnrichEpisodes
    <2>1. /\ stage = "loaded" /\ stage' = "enriched" /\ enriched' = EpisodesEnriched
          /\ titlesNext' = titlesNext /\ searchNext' = searchNext
          /\ stg' = stg /\ files' = files
      BY <1>2 DEF EnrichEpisodes, Goto, built, input
    <2>2. titlesNext' = << >> /\ searchNext' = << >>
      BY <2>1 DEF MadeInvariant
    <2>3. Complete
      BY <2>1, LoadedComplete
    <2>4. Complete' /\ EpisodesEnriched' = EpisodesEnriched
      <3>1. \A f, p : Staged(f, p)' = Staged(f, p)
        BY <2>1, SamePicks DEF Staged, RowAt
      <3> QED BY <2>1, <2>3, <3>1 DEF Complete, EpisodesEnriched
    <2> QED BY <2>1, <2>2, <2>4 DEF MadeInvariant, DocumentsMade, ToSet
  <1>3. CASE CreateNext
    <2>1. /\ stage = "filtered" /\ stage' = "build" /\ UNCHANGED <<files, stg, enriched>>
          /\ titlesNext' = << >> /\ searchNext' = << >>
      BY <1>3 DEF CreateNext, Goto, input
    <2>2. Complete' = Complete /\ EpisodesEnriched' = EpisodesEnriched
      BY <2>1, MadeStays
    <2> QED BY <2>1, <2>2 DEF MadeInvariant, DocumentsMade, ToSet
  <1>4. CASE BuildBatch
    BY <1>4, BuildBatchMade
  <1>5. ASSUME FilterTitles \/ NoMoreTitles \/ StatementFails \/ UNCHANGED vars
        PROVE  MadeInvariant'
    <2>1. /\ UNCHANGED <<files, stg, enriched, titlesNext, searchNext>>
          /\ \/ stage' = stage
             \/ stage' = "failed"
             \/ stage \in {"enriched", "build"} /\ stage' \in {"filtered", "built"}
      BY <1>5 DEF FilterTitles, NoMoreTitles, StatementFails, Goto, vars, loadVars, input, built
    <2>2. /\ Complete' = Complete /\ EpisodesEnriched' = EpisodesEnriched
          /\ \A doc : Made(doc) => Made(doc)'
      BY <2>1, MadeStays
    <2>3. DocumentsMade'
      <3>1. \A doc \in ToSet(titlesNext') : Made(doc)'
        BY <2>1, <2>2 DEF MadeInvariant, DocumentsMade
      <3>2. \A row \in ToSet(searchNext') : \E doc : Made(doc)' /\ row = SearchRow(doc)
        BY <2>1, <2>2 DEF MadeInvariant, DocumentsMade
      <3> QED BY <3>1, <3>2 DEF DocumentsMade
    <2> QED BY <2>1, <2>2, <2>3 DEF MadeInvariant
  <1> QED BY <1>1, <1>2, <1>3, <1>4, <1>5 DEF Next

LEMMA SpecMade == Spec => [](LoadInvariant /\ BuildInvariant /\ MadeInvariant)
  <1>1. Spec => []LoadInvariant
    BY InitLoaded, NextLoaded, PTL DEF Spec
  <1>2. Spec => []BuildInvariant
    BY <1>1, InitBuilt, NextBuilt, PTL DEF Spec
  <1> QED BY <1>1, <1>2, InitMade, NextMade, PTL DEF Spec

---------------------------------------------------------------------------
(* Seasons *)

(* A made document has the seasons of its own episodes. *)
EpisodesWanted(doc) ==
  IF doc.type \notin {"tvseries", "tvminiseries"} THEN {}
  ELSE {row \in RowsOf("episode") : row.parent = doc.t /\ row.t \in Typed}

LEMMA SeasonsMade ==
  ASSUME files \in Inputs, Complete, enriched = EpisodesEnriched, NEW doc, Made(doc)
  PROVE  /\ {s.season : s \in ToSet(doc.seasons)} = {row.season : row \in EpisodesWanted(doc)}
         /\ \A i, j \in DOMAIN doc.seasons :
              i < j => NullsLast(doc.seasons[i].season, doc.seasons[j].season)
         /\ \A s \in ToSet(doc.seasons) :
              /\ {x.t : x \in ToSet(s.episodes)}
                   = {row.t : row \in OfSeason(EpisodesWanted(doc), s.season)}
              /\ Len(s.episodes) = Cardinality(OfSeason(EpisodesWanted(doc), s.season))
              /\ \A i, j \in DOMAIN s.episodes :
                   i < j => ~NullsLast(s.episodes[j].number, s.episodes[i].number)
  <1> DEFINE wanted == EpisodesWanted(doc)
  <1>1. PICK names : doc = Document(stg, enriched, names, doc.t) /\ doc.t \in Chosen
    BY DEF Made
  <1>2. PICK f : f = doc.seasons
    OBVIOUS
  <1>3. f = IF doc.type \in {"tvseries", "tvminiseries"} THEN FetchEpisodes(enriched, doc.t)
            ELSE << >>
    <2> DEFINE basic == BasicOf(stg.basics, doc.t)
    <2>1. doc.type = basic.type
      BY <1>1 DEF Document
    <2>2. doc.seasons = IF basic.type \in {"tvseries", "tvminiseries"}
                        THEN FetchEpisodes(enriched, doc.t) ELSE << >>
      BY <1>1 DEF Document
    <2> QED BY <1>2, <2>1, <2>2
  <1>4. CASE doc.type \notin {"tvseries", "tvminiseries"}
    <2>1. f = << >> /\ wanted = {}
      BY <1>3, <1>4 DEF EpisodesWanted
    <2>2. ToSet(f) = {} /\ DOMAIN f = {}
      BY <2>1 DEF ToSet
    <2> HIDE DEF wanted
    <2>3. {s.season : s \in ToSet(f)} = {row.season : row \in wanted}
      BY <2>1, <2>2
    <2> QED BY <1>2, <2>2, <2>3 DEF wanted
  <1>5. CASE doc.type \in {"tvseries", "tvminiseries"}
    <2>1. f = FetchEpisodes(enriched, doc.t)
      BY <1>3, <1>5
    <2>2. wanted = {row \in RowsOf("episode") : row.parent = doc.t /\ row.t \in Typed}
      BY <1>5 DEF EpisodesWanted
    <2>3. PICK S, e : e = enriched /\ Enriched(e, S)
      BY EnrichedIs
    <2>4. PICK own : own = OwnRows(e, doc.t)
      OBVIOUS
    <2>5. PICK n \in Nat :
            /\ DOMAIN f = 1 .. n
            /\ \A row \in own : \E k \in 1 .. n : f[k].season = row.season
            /\ \A k \in 1 .. n : \E row \in own : f[k].season = row.season
            /\ \A i, j \in 1 .. n : i < j => NullsLast(f[i].season, f[j].season)
            /\ \A k \in 1 .. n : SeasonOf(S, own, f[k])
      <3>1. SeasonsOf(S, OwnRows(e, doc.t), FetchEpisodes(e, doc.t))
        <4>1. /\ e \in Seq(S)
              /\ \A row \in S : row.t \in Int /\ row.season \in Int /\ row.number \in Int
              /\ \A i, j \in 1 .. Len(e) : e[i].t = e[j].t => i = j
          BY <2>3 DEF Enriched
        <4> QED BY <4>1, EpisodesFetched
      <3>2. SeasonsOf(S, own, f)
        BY <2>1, <2>3, <2>4, <3>1
      <3> QED BY <3>2 DEF SeasonsOf
    <2>6. \A x : x \in own <=> \E i \in 1 .. Len(e) : x = e[i] /\ x.parent = doc.t
      BY <2>3, <2>4 DEF OwnRows, ToSet, Enriched
    <2>7. \A x \in own : \E row \in wanted : SameEpisode(x, row)
      <3> SUFFICES ASSUME NEW x \in own PROVE \E row \in wanted : SameEpisode(x, row)
        OBVIOUS
      <3>1. PICK i \in 1 .. Len(e) : x = e[i] /\ x.parent = doc.t
        BY <2>6
      <3>2. PICK row \in RowsOf("episode") : row.t \in Typed /\ SameEpisode(e[i], row)
        BY <2>3 DEF Enriched
      <3> QED BY <2>2, <3>1, <3>2 DEF SameEpisode
    <2>8. \A row \in wanted : \E x \in own : SameEpisode(x, row)
      <3> SUFFICES ASSUME NEW row \in wanted PROVE \E x \in own : SameEpisode(x, row)
        OBVIOUS
      <3>1. row \in RowsOf("episode") /\ row.parent = doc.t /\ row.t \in Typed
        BY <2>2
      <3>2. PICK i \in 1 .. Len(e) : SameEpisode(e[i], row)
        BY <1>1, <2>3, <3>1 DEF Enriched
      <3> QED BY <2>6, <3>1, <3>2 DEF SameEpisode
    <2>9. \A x, y \in own : x.t = y.t => x = y
      BY <2>3, <2>6 DEF Enriched
    <2>10. \A x, y \in wanted : x.t = y.t => x = y
      BY <2>2, SeriesNumbered
    <2> HIDE DEF wanted
    <2>11. \A x : x \in ToSet(f) <=> \E k \in 1 .. n : x = f[k]
      BY <2>5 DEF ToSet
    <2>12. {s.season : s \in ToSet(f)} = {row.season : row \in wanted}
      <3>1. \A s \in ToSet(f) : \E row \in wanted : s.season = row.season
        BY <2>5, <2>7, <2>11 DEF SameEpisode
      <3>2. \A row \in wanted : \E s \in ToSet(f) : s.season = row.season
        <4> SUFFICES ASSUME NEW row \in wanted PROVE \E s \in ToSet(f) : s.season = row.season
          OBVIOUS
        <4>1. PICK x \in own : SameEpisode(x, row)
          BY <2>8
        <4>2. PICK k \in 1 .. n : f[k].season = x.season
          BY <2>5
        <4> QED BY <2>11, <4>1, <4>2 DEF SameEpisode
      <3> QED BY <3>1, <3>2
    <2>13. ASSUME NEW s \in ToSet(f)
           PROVE  /\ {x.t : x \in ToSet(s.episodes)} = {row.t : row \in OfSeason(wanted, s.season)}
                  /\ Len(s.episodes) = Cardinality(OfSeason(wanted, s.season))
                  /\ \A i, j \in DOMAIN s.episodes :
                       i < j => ~NullsLast(s.episodes[j].number, s.episodes[i].number)
      <3> DEFINE here == OfSeason(own, s.season)
                 there == OfSeason(wanted, s.season)
      <3>1. PICK q : q = s.episodes
        OBVIOUS
      <3>2. /\ q \in Seq(S) /\ ToSet(q) = here /\ Len(q) = Cardinality(here)
            /\ \A i, j \in 1 .. Len(q) : i < j => ~NullsLast(q[j].number, q[i].number)
        <4>1. SeasonOf(S, own, s)
          BY <2>5, <2>11
        <4> QED BY <3>1, <4>1 DEF SeasonOf
      <3>3. /\ \A x \in here : \E row \in there : x.t = row.t
            /\ \A row \in there : \E x \in here : x.t = row.t
        BY <2>7, <2>8 DEF OfSeason, SameEpisode
      <3>4. /\ \A x, y \in here : x.t = y.t => x = y
            /\ \A x, y \in there : x.t = y.t => x = y
        BY <2>9, <2>10 DEF OfSeason
      <3>5. IsFiniteSet(here)
        <4>1. Len(q) \in Nat /\ DOMAIN q = 1 .. Len(q)
          BY <3>2
        <4>2. q \in Surjection(1 .. Len(q), here)
          <5>1. \A x : x \in here <=> \E i \in 1 .. Len(q) : x = q[i]
            BY <3>2, <4>1 DEF ToSet
          <5>2. q = [i \in 1 .. Len(q) |-> q[i]]
            BY <3>2
          <5> HIDE DEF here
          <5>3. q \in [1 .. Len(q) -> here]
            BY <5>1, <5>2
          <5> QED BY <5>1, <5>3 DEF Surjection
        <4>3. IsFiniteSet(1 .. Len(q))
          BY <4>1, FS_Interval
        <4> HIDE DEF here
        <4> QED BY <4>2, <4>3, FS_Surjection
      <3> HIDE DEF here, there
      <3>6. Cardinality(here) = Cardinality(there)
        <4> DEFINE g == [x \in here |-> CHOOSE row \in there : row.t = x.t]
        <4>1. \A x \in here : g[x] \in there /\ g[x].t = x.t
          BY <3>3
        <4>2. g \in [here -> there]
          BY <4>1
        <4> HIDE DEF g
        <4>3. \A x, y \in here : g[x] = g[y] => x = y
          BY <3>4, <4>1
        <4>4. \A row \in there : \E x \in here : g[x] = row
          BY <3>3, <3>4, <4>1
        <4>5. g \in Bijection(here, there)
          BY <4>2, <4>3, <4>4 DEF Bijection, Injection, Surjection, IsInjective
        <4> QED BY <3>5, <4>5, FS_Bijection DEF ExistsBijection
      <3>7. {x.t : x \in ToSet(q)} = {row.t : row \in there}
        BY <3>2, <3>3
      <3>8. \A i, j \in DOMAIN q : i < j => ~NullsLast(q[j].number, q[i].number)
        <4>1. DOMAIN q = 1 .. Len(q)
          BY <3>2
        <4> QED BY <3>2, <4>1
      <3> QED BY <3>1, <3>2, <3>6, <3>7, <3>8 DEF there
    <2> QED BY <1>2, <2>5, <2>12, <2>13 DEF wanted
  <1> QED BY <1>4, <1>5

LEMMA MadeSeasonsMatch == LoadInvariant /\ MadeInvariant => SeasonsMatch
  <1> SUFFICES ASSUME LoadInvariant, MadeInvariant, NEW doc \in ToSet(titlesNext)
               PROVE  LET own == IF doc.type \notin {"tvseries", "tvminiseries"} THEN {}
                                 ELSE {row \in RowsOf("episode") :
                                         row.parent = doc.t /\ row.t \in Typed}
                          seasons == doc.seasons
                      IN  /\ {s.season : s \in ToSet(seasons)} = {row.season : row \in own}
                          /\ \A i, j \in DOMAIN seasons :
                               i < j => NullsLast(seasons[i].season, seasons[j].season)
                          /\ \A s \in ToSet(seasons) :
                               LET here == {row \in own : row.season = s.season}
                                   episodes == s.episodes
                               IN  /\ {e.t : e \in ToSet(episodes)} = {row.t : row \in here}
                                   /\ Len(episodes) = Cardinality(here)
                                   /\ \A i, j \in DOMAIN episodes :
                                        i < j => ~NullsLast(episodes[j].number,
                                                            episodes[i].number)
    BY DEF SeasonsMatch
  <1>1. titlesNext # << >>
    BY DEF ToSet
  <1>2. files \in Inputs /\ Complete /\ enriched = EpisodesEnriched /\ Made(doc)
    BY <1>1 DEF LoadInvariant, MadeInvariant, DocumentsMade
  <1> QED BY <1>2, SeasonsMade DEF EpisodesWanted, OfSeason

(* Whatever the files hold, every series lists each episode they give it   *)
(* once, under its season and by number, and unknown seasons last:         *)
(* episodes_enriched.sql and fetchEpisodes lose, repeat and misplace none. *)
THEOREM SeasonsAreWanted == Spec => []SeasonsMatch
  <1>1. LoadInvariant /\ BuildInvariant /\ MadeInvariant => SeasonsMatch
    BY MadeSeasonsMatch
  <1> QED BY <1>1, SpecMade, PTL


---------------------------------------------------------------------------
(* Akas *)

(* A staging table is a sequence of rows of its file. *)
LEMMA TableIs ==
  ASSUME files \in Inputs, Complete, NEW f \in Files
  PROVE  \E s, a : s = stg[f] /\ StagedFrom(f, s, a) /\ s \in Seq(RowsOf(f))
  <1>1. PICK s, a : s = stg[f] /\ StagedFrom(f, s, a)
    BY StagedIs DEF Complete
  <1>2. /\ s \in Seq(AllRows) /\ Len(s) \in Nat /\ DOMAIN s = 1 .. Len(s)
        /\ \A k \in 1 .. Len(s) : s[k] \in RowsOf(f)
    BY <1>1 DEF StagedFrom
  <1>3. PICK R : R = RowsOf(f)
    OBVIOUS
  <1>4. s \in [1 .. Len(s) -> R]
    BY <1>2, <1>3
  <1>5. s \in Seq(R)
    BY <1>2, <1>4
  <1> QED BY <1>1, <1>3, <1>5

LEMMA RowsNumbered ==
  ASSUME files \in Inputs, NEW f \in {"akas", "principals"}, NEW s, NEW a, StagedFrom(f, s, a)
  PROVE  /\ \A i, j \in 1 .. Len(s) :
              s[i].t = s[j].t /\ s[i].ordering = s[j].ordering => i = j
         /\ \A x, y \in RowsOf(f) : x.t = y.t /\ x.ordering = y.ordering => x = y
  <1>1. Unique(files[f], LAMBDA row : <<row.t, row.ordering>>)
    BY InputsAssumption
  <1>2. \A i, j \in RowLines(files[f]) :
          /\ files[f][i].row.t = files[f][j].row.t
          /\ files[f][i].row.ordering = files[f][j].row.ordering
          => i = j
    BY <1>1 DEF Unique
  <1>3. ASSUME NEW i \in 1 .. Len(s), NEW j \in 1 .. Len(s),
               s[i].t = s[j].t, s[i].ordering = s[j].ordering
        PROVE  i = j
    <2>1. /\ a[i] \in RowLines(files[f]) /\ s[i] = files[f][a[i]].row
          /\ a[j] \in RowLines(files[f]) /\ s[j] = files[f][a[j]].row
          /\ a[i] = a[j] => i = j
      BY DEF StagedFrom
    <2> QED BY <1>2, <1>3, <2>1
  <1>4. \A x, y \in RowsOf(f) : x.t = y.t /\ x.ordering = y.ordering => x = y
    BY <1>2 DEF RowsOf
  <1> QED BY <1>3, <1>4

(* The basics row of a document is the one the files have. *)
BasicFor(t) == CHOOSE b \in RowsOf("basics") : b.t = t

LEMMA BasicIs ==
  ASSUME files \in Inputs, Complete, NEW t \in Chosen
  PROVE  BasicOf(stg.basics, t) = BasicFor(t)
  <1>1. "basics" \in Files
    BY PlaceOfFile
  <1>2. PICK s, a : /\ s = stg.basics /\ StagedFrom("basics", s, a)
                    /\ s \in Seq(RowsOf("basics"))
    BY <1>1, TableIs
  <1>3. PICK row \in RowsOf("basics") : row.t = t /\ row.type \in KeptTypes
    BY DEF Chosen, Typed
  <1>4. Selected("basics", row)
    BY <1>3, Zenon DEF Selected, Wanted
  <1>5. PICK k \in 1 .. Len(s) : s[k] = row
    BY <1>2, <1>3, <1>4 DEF StagedFrom
  <1> DEFINE P == {i \in DOMAIN s : s[i].t = t}
  <1>6. OfTitle(s, t) = Picked(s, P)
    BY DEF OfTitle
  <1>7. k \in P /\ P \in SUBSET (1 .. Len(s)) /\ \A i \in P : s[i].t = t
    BY <1>2, <1>3, <1>5 DEF StagedFrom
  <1> HIDE DEF P
  <1>8. PICK R : R = RowsOf("basics")
    OBVIOUS
  <1>9. PICK r, b : r = Picked(s, P) /\ PickedFrom(R, s, P, r, b)
    BY <1>2, <1>7, <1>8, PickedIs
  <1>10. /\ Len(r) \in Nat /\ Len(r) > 0
         /\ \A i \in 1 .. Len(r) : b[i] \in P /\ r[i] = s[b[i]]
    <2>1. \E i \in 1 .. Len(r) : b[i] = k
      BY <1>7, <1>9 DEF PickedFrom
    <2> QED BY <1>9, <2>1 DEF PickedFrom
  <1>11. Last(r) \in R /\ Last(r).t = t
    <2>1. Len(r) \in 1 .. Len(r) /\ Last(r) = r[Len(r)]
      BY <1>10 DEF Last
    <2>2. PICK i \in P : Last(r) = s[i]
      BY <1>10, <2>1
    <2> QED BY <1>2, <1>7, <1>8, <2>2
  <1>12. \A x, y \in R : x.t = y.t => x = y
    BY <1>8, OneBasic
  <1>13. (CHOOSE x \in R : x.t = t) = Last(r)
    BY <1>11, <1>12
  <1> QED BY <1>2, <1>6, <1>8, <1>9, <1>13 DEF BasicOf, BasicFor

ShownAkas(t) ==
  {row \in RowsOf("akas") : row.t = t /\ Differs(row, BasicFor(t))}

LEMMA AkaColumns ==
  ASSUME files \in Inputs
  PROVE  \A row \in RowsOf("akas") : AkaRow(row)
  <1>1. \A i \in RowLines(files["akas"]) :
          LET row == files["akas"][i].row
          IN  /\ row.ordering \in Int /\ row.title \in Names
              /\ row.display \in BOOLEAN /\ row.original \in BOOLEAN
    BY ColumnsAssumption DEF Null
  <1>2. \A name \in Names : Key(name) \in Int
    BY DEF Names, Key
  <1> QED BY <1>1, <1>2 DEF RowsOf, AkaRow

LEMMA AkasMade ==
  ASSUME files \in Inputs, Complete, NEW doc, Made(doc)
  PROVE  AkasOf(RowsOf("akas"), ShownAkas(doc.t), doc.akas)
  <1>1. PICK t, names : /\ t = doc.t /\ t \in Chosen
                        /\ doc = Document(stg, enriched, names, t)
    BY DEF Made
  <1>2. "akas" \in Files
    BY PlaceOfFile
  <1>3. PICK R, s, a : /\ R = RowsOf("akas")
                       /\ s = stg.akas /\ StagedFrom("akas", s, a) /\ s \in Seq(R)
    BY <1>2, TableIs
  <1>4. \A i, j \in 1 .. Len(s) : s[i].t = s[j].t /\ s[i].ordering = s[j].ordering => i = j
    BY <1>3, RowsNumbered
  <1>5. \A row \in R : AkaRow(row)
    BY <1>3, AkaColumns
  <1>6. AkasOf(R, TitleRows(s, t), FetchAkas(s, t))
    BY <1>3, <1>4, <1>5, AkasFetched
  <1>7. PICK basic : basic = BasicFor(t) /\ basic = BasicOf(stg.basics, t)
    BY <1>1, BasicIs
  <1>8. doc.akas = FilterAkas(FetchAkas(s, t), basic)
    BY <1>1, <1>3, <1>7 DEF Document
  <1>9. AkasOf(R, {x \in TitleRows(s, t) : Differs(x, basic)}, doc.akas)
    BY <1>6, <1>8, AkasFiltered
  <1>10. {x \in TitleRows(s, t) : Differs(x, basic)} = ShownAkas(t)
    <2>1. \A row : Selected("akas", row) <=> row.t \in Chosen
      BY Zenon DEF Selected, Wanted
    <2>2. \A x \in ToSet(s) : x \in R
      BY <1>3 DEF ToSet
    <2>3. ASSUME NEW x \in R, x.t = t PROVE x \in ToSet(s)
      <3>1. \E k \in 1 .. Len(s) : s[k] = x
        BY <1>1, <1>3, <2>1, <2>3 DEF StagedFrom
      <3> QED BY <1>3, <3>1 DEF ToSet
    <2> QED BY <1>3, <1>7, <2>2, <2>3 DEF TitleRows, ShownAkas
  <1> QED BY <1>1, <1>3, <1>9, <1>10

(* The search row of a document has the titles of its akas. *)
LEMMA SearchedMade ==
  ASSUME NEW doc, NEW S, NEW rows, AkasOf(S, rows, doc.akas)
  PROVE  /\ SearchRow(doc).t = doc.t
         /\ SearchRow(doc).akas = {aka.title : aka \in rows} \ {<<0, "">>}
  <1>1. ASSUME NEW x PROVE x \in AkasIn(doc) <=> x \in rows
    <2>1. x \in AkasIn(doc) <=> \E region \in DOMAIN doc.akas : x \in ToSet(doc.akas[region])
      BY DEF AkasIn
    <2>2. \A region \in DOMAIN doc.akas :
            x \in ToSet(doc.akas[region]) <=> x \in rows /\ Region(x) = region
      BY DEF AkasOf, AkaList
    <2>3. x \in rows => Region(x) \in DOMAIN doc.akas
      BY DEF AkasOf
    <2> QED BY <2>1, <2>2, <2>3
  <1>2. AkasIn(doc) = rows
    BY <1>1
  <1> QED BY <1>2 DEF SearchRow

LEMMA MadeAkasMatch == LoadInvariant /\ MadeInvariant => AkasMatch
  <1> SUFFICES ASSUME LoadInvariant, MadeInvariant, NEW doc \in ToSet(titlesNext)
               PROVE  LET basic == CHOOSE b \in RowsOf("basics") : b.t = doc.t
                          shown == {row \in RowsOf("akas") :
                                      /\ row.t = doc.t
                                      /\ Key(row.title) \notin
                                           {Key(basic.primary), Key(basic.original)} \ {0}}
                          Rank(aka) == (IF aka.display THEN 0 ELSE 2)
                                         + (IF aka.original THEN 0 ELSE 1)
                      IN  /\ DOMAIN doc.akas = {Region(aka) : aka \in shown}
                          /\ \A region \in DOMAIN doc.akas :
                               LET list == doc.akas[region]
                               IN  /\ ToSet(list) = {aka \in shown : Region(aka) = region}
                                   /\ \A i, j \in DOMAIN list : i < j =>
                                        \/ Rank(list[i]) < Rank(list[j])
                                        \/ /\ Rank(list[i]) = Rank(list[j])
                                           /\ NullsLast(list[i].ordering, list[j].ordering)
                          /\ \A row \in ToSet(searchNext) :
                               row.t = doc.t =>
                                 row.akas = {aka.title : aka \in shown} \ {<<0, "">>}
    BY DEF AkasMatch
  <1>1. titlesNext # << >>
    BY DEF ToSet
  <1>2. files \in Inputs /\ Complete /\ Made(doc)
    BY <1>1 DEF LoadInvariant, MadeInvariant, DocumentsMade
  <1> DEFINE shown == ShownAkas(doc.t)
  <1>3. AkasOf(RowsOf("akas"), shown, doc.akas)
    BY <1>2, AkasMade
  <1>4. DOMAIN doc.akas = {Region(aka) : aka \in shown}
    BY <1>3 DEF AkasOf
  <1>5. ASSUME NEW region \in DOMAIN doc.akas
        PROVE  LET list == doc.akas[region]
               IN  /\ ToSet(list) = {aka \in shown : Region(aka) = region}
                   /\ \A i, j \in DOMAIN list : i < j => AkaAhead(list[i], list[j])
    <2>1. AkaList(RowsOf("akas"), shown, region, doc.akas[region])
      BY <1>3 DEF AkasOf
    <2> HIDE DEF shown
    <2> QED BY <2>1 DEF AkaList
  <1>6. ASSUME NEW row \in ToSet(searchNext), row.t = doc.t
        PROVE  row.akas = {aka.title : aka \in shown} \ {<<0, "">>}
    <2>1. PICK other : Made(other) /\ row = SearchRow(other)
      BY DEF MadeInvariant, DocumentsMade
    <2>2. AkasOf(RowsOf("akas"), ShownAkas(other.t), other.akas)
      BY <1>2, <2>1, AkasMade
    <2>3. /\ row.t = other.t
          /\ row.akas = {aka.title : aka \in ShownAkas(other.t)} \ {<<0, "">>}
      BY <2>1, <2>2, SearchedMade
    <2> QED BY <1>6, <2>3
  <1> QED BY <1>4, <1>5, <1>6 DEF ShownAkas, BasicFor, Differs, AkaAhead, AkaRank

(* Whatever the files hold, a document lists each of the akas that differ  *)
(* from the title's own names once, under its region and in the order of   *)
(* display, and its search row has exactly these titles: fetchAkas and     *)
(* filterAkas lose none and leave none that repeats the title.             *)
THEOREM AkasAreShown == Spec => []AkasMatch
  <1>1. LoadInvariant /\ BuildInvariant /\ MadeInvariant => AkasMatch
    BY MadeAkasMatch
  <1> QED BY <1>1, SpecMade, PTL

---------------------------------------------------------------------------
(* Credits *)

LEMMA CreditColumns ==
  ASSUME files \in Inputs
  PROVE  /\ \A row \in RowsOf("principals") : row.ordering \in Int
         /\ Speaking(RowsOf("principals"), Names)
         /\ \A row \in RowsOf("crew") : /\ row.directors \in Seq(ToSet(row.directors))
                                        /\ row.writers \in Seq(ToSet(row.writers))
  <1>1. \A i \in RowLines(files["principals"]) :
          LET row == files["principals"][i].row
          IN  row.ordering \in Int /\ row.characters \in Seq(Seq(Names))
    BY ColumnsAssumption DEF Null
  <1>2. \A i \in RowLines(files["crew"]) :
          LET row == files["crew"][i].row
          IN  /\ row.directors \in Seq(ToSet(row.directors))
              /\ row.writers \in Seq(ToSet(row.writers))
    BY ColumnsAssumption
  <1>3. \A row \in RowsOf("principals") :
          row.ordering \in Int /\ row.characters \in Seq(Seq(Names))
    BY <1>1 DEF RowsOf
  <1>4. \A row \in RowsOf("crew") : /\ row.directors \in Seq(ToSet(row.directors))
                                    /\ row.writers \in Seq(ToSet(row.writers))
    BY <1>2 DEF RowsOf
  <1> QED BY <1>3, <1>4 DEF Speaking

LEMMA MembersOf ==
  ASSUME NEW S, NEW s \in Seq(S)
  PROVE  \A x \in ToSet(s) : x \in S
  BY DEF ToSet

(* The rows that bill somebody for a title, and who is to be billed first  *)
Bills(t, categories) ==
  {row \in RowsOf("principals") : row.t = t /\ row.cat \in categories}

LEMMA BilledIs ==
  ASSUME files \in Inputs, Complete, NEW t \in Chosen, NEW actors \in BOOLEAN,
         NEW categories, categories = IF actors THEN Actors ELSE Producers
  PROVE  /\ Billing(stg.principals, t, actors) = Billed(t, categories)
         /\ Billed(t, categories) \in Seq(Bills(t, categories))
  <1>1. "principals" \in Files
    BY PlaceOfFile
  <1>2. PICK R, s, a : /\ R = RowsOf("principals")
                       /\ s = stg.principals /\ StagedFrom("principals", s, a) /\ s \in Seq(R)
    BY <1>1, TableIs
  <1>3. \A i, j \in 1 .. Len(s) : s[i].t = s[j].t /\ s[i].ordering = s[j].ordering => i = j
    BY <1>2, RowsNumbered
  <1>4. \A row \in R : row.ordering \in Int
    BY <1>2, CreditColumns
  <1>5. \A row : Selected("principals", row) <=>
                   row.t \in Chosen /\ row.cat \in KeptCategories
    BY Zenon DEF Selected, Wanted
  <1>6. \A row : row.cat \in KeptCategories => (IsActor(row) = actors <=> row.cat \in categories)
    <2>1. CASE actors = TRUE
      BY <2>1 DEF IsActor
    <2>2. CASE actors = FALSE
      BY <2>2 DEF IsActor, KeptCategories, Actors, Producers
    <2> QED BY <2>1, <2>2
  <1>7. \A row : row.cat \in categories => row.cat \in KeptCategories
    BY DEF KeptCategories
  <1>8. \A x : x \in CreditRows(s, t, actors) <=> x \in Bills(t, categories)
    <2>1. \A x \in ToSet(s) : x \in R /\ Selected("principals", x)
      BY <1>2 DEF StagedFrom, ToSet
    <2>2. \A x \in R : Selected("principals", x) => x \in ToSet(s)
      <3>1. \A x \in R : Selected("principals", x) => \E k \in 1 .. Len(s) : s[k] = x
        BY <1>2 DEF StagedFrom
      <3> QED BY <1>2, <3>1 DEF ToSet
    <2> QED BY <1>2, <1>5, <1>6, <1>7, <2>1, <2>2 DEF CreditRows, Bills
  <1>9. PICK rows : rows = CreditRows(s, t, actors) /\ rows = Bills(t, categories)
    BY <1>8
  <1>10. /\ Billing(s, t, actors) \in Seq(rows)
         /\ Billing(s, t, actors) = Arranged(rows, ByOrdering(rows))
    <2>1. /\ Billing(s, t, actors) \in Seq(CreditRows(s, t, actors))
          /\ Billing(s, t, actors) = Arranged(CreditRows(s, t, actors),
                                              ByOrdering(CreditRows(s, t, actors)))
      BY ONLY <1>2, <1>3, <1>4, BillingIs
    <2> QED BY <1>9, <2>1
  <1>11. Billed(t, categories) = Arranged(rows, ByOrdering(rows))
    BY <1>9 DEF Billed, Bills, ByOrdering
  <1> QED BY <1>2, <1>9, <1>10, <1>11

(* The crew of a title is what its row lists, within the limits.           *)
CrewFor(t, crew) ==
  \/ /\ {row \in RowsOf("crew") : row.t = t} = {}
     /\ crew.directors = << >> /\ crew.writers = << >>
  \/ \E row \in RowsOf("crew") :
       /\ row.t = t
       /\ crew.directors = Capped(row.directors, MaxDirectors)
       /\ crew.writers = Capped(row.writers, MaxWriters)

LEMMA CrewIs ==
  ASSUME files \in Inputs, Complete, NEW t \in Chosen, NEW crew, crew = CrewOf(stg.crew, t)
  PROVE  CrewFor(t, crew)
  <1>1. "crew" \in Files
    BY PlaceOfFile
  <1>2. PICK R, s, a : /\ R = RowsOf("crew")
                       /\ s = stg.crew /\ StagedFrom("crew", s, a) /\ s \in Seq(R)
    BY <1>1, TableIs
  <1>3. \A row : Selected("crew", row) <=> row.t \in Chosen
    BY Zenon DEF Selected, Wanted
  <1>4. \A x : x \in TitleRows(s, t) <=> x \in R /\ x.t = t
    <2>1. \A x \in ToSet(s) : x \in R
      BY <1>2 DEF StagedFrom, ToSet
    <2>2. \A x \in R : x.t = t => \E k \in 1 .. Len(s) : s[k] = x
      BY <1>2, <1>3 DEF StagedFrom
    <2>3. \A x \in R : x.t = t => x \in ToSet(s)
      BY <1>2, <2>2 DEF ToSet
    <2> QED BY <2>1, <2>3 DEF TitleRows
  <1>5. \/ OfTitle(s, t) = << >> /\ TitleRows(s, t) = {}
        \/ OfTitle(s, t) # << >> /\ Last(OfTitle(s, t)) \in TitleRows(s, t)
    BY <1>2, LastOfTitle
  <1>6. CASE OfTitle(s, t) = << >>
    <2>1. {row \in RowsOf("crew") : row.t = t} = {}
      BY <1>2, <1>4, <1>5, <1>6
    <2> QED BY <1>2, <1>6, <2>1 DEF CrewOf, CrewFor
  <1>7. CASE OfTitle(s, t) # << >>
    <2>1. PICK row : row = Last(OfTitle(s, t)) /\ row \in R /\ row.t = t
      BY <1>4, <1>5, <1>7
    <2>2. /\ crew.directors = Capped(row.directors, MaxDirectors)
          /\ crew.writers = Capped(row.writers, MaxWriters)
      BY <1>2, <1>7, <2>1 DEF CrewOf
    <2> QED BY <1>2, <2>1, <2>2 DEF CrewFor
  <1> QED BY <1>6, <1>7

(* Everyone a document shows was let in when the names were read.          *)
LEMMA PeopleCredited ==
  ASSUME files \in Inputs, Complete, NEW t \in Chosen, NEW n \in People(stg, t)
  PROVE  n \in Credited
  <1>1. /\ \A row : Wanted("principals", row) <=>
                      row.t \in Chosen /\ row.cat \in KeptCategories
        /\ \A row : Wanted("crew", row) <=> row.t \in Chosen
    BY Zenon DEF Wanted
  <1>2. MaxActors \in Nat /\ MaxProducers \in Nat /\ MaxDirectors \in Nat /\ MaxWriters \in Nat
    BY LimitsAssumption
  <1>3. PICK b, c : /\ b = Billed(t, Actors) /\ b \in Seq(Bills(t, Actors))
                    /\ b = Billing(stg.principals, t, TRUE)
                    /\ c = Billed(t, Producers) /\ c \in Seq(Bills(t, Producers))
                    /\ c = Billing(stg.principals, t, FALSE)
    <2>1. /\ Actors = IF TRUE THEN Actors ELSE Producers
          /\ Producers = IF FALSE THEN Actors ELSE Producers
      OBVIOUS
    <2> QED BY <2>1, BilledIs
  <1>4. \A row \in ToSet(RankedActors(stg.principals, t)) : row \in Bills(t, Actors)
    <2>1. \A x \in ToSet(b) : x \in Bills(t, Actors)
      BY <1>3, MembersOf
    <2> QED BY <1>2, <1>3, <2>1, CappedIs DEF RankedActors
  <1>5. \A row \in ToSet(RankedProducers(stg.principals, t)) : row \in Bills(t, Producers)
    <2>1. \A x \in ToSet(c) : x \in Bills(t, Producers)
      BY <1>3, MembersOf
    <2> QED BY <1>2, <1>3, <2>1, CappedIs DEF RankedProducers
  <1>6. \A row \in Bills(t, Actors) \cup Bills(t, Producers) :
          row \in RowsOf("principals") /\ Wanted("principals", row)
    BY <1>1 DEF Bills, KeptCategories
  <1>7. PICK crew : crew = CrewOf(stg.crew, t)
    OBVIOUS
  <1>8. ASSUME n \in ToSet(crew.directors) \/ n \in ToSet(crew.writers)
        PROVE  \E row \in RowsOf("crew") :
                 row.t = t /\ n \in ToSet(row.directors) \cup ToSet(row.writers)
    <2>1. ToSet(<< >>) = {}
      BY DEF ToSet
    <2>2. PICK row \in RowsOf("crew") :
            /\ row.t = t
            /\ crew.directors = Capped(row.directors, MaxDirectors)
            /\ crew.writers = Capped(row.writers, MaxWriters)
      <3>1. CrewFor(t, crew)
        BY <1>7, CrewIs
      <3> QED BY <1>8, <2>1, <3>1 DEF CrewFor
    <2>3. /\ row.directors \in Seq(ToSet(row.directors))
          /\ row.writers \in Seq(ToSet(row.writers))
      BY CreditColumns
    <2>4. /\ n \in ToSet(crew.directors) => n \in ToSet(row.directors)
          /\ n \in ToSet(crew.writers) => n \in ToSet(row.writers)
      BY <1>2, <2>2, <2>3, CappedIs
    <2> QED BY <1>8, <2>2, <2>4
  <1>9. CASE \E row \in ToSet(RankedActors(stg.principals, t))
                          \cup ToSet(RankedProducers(stg.principals, t)) : n = row.n
    BY <1>4, <1>5, <1>6, <1>9 DEF Credited
  <1>10. CASE n \in ToSet(crew.directors) \/ n \in ToSet(crew.writers)
    BY <1>1, <1>8, <1>10 DEF Credited
  <1> QED BY <1>7, <1>9, <1>10 DEF People

(* The name a batch fetches is the one the last file gives.                *)
LEMMA NamesFetched ==
  ASSUME files \in Inputs, Complete, NEW P \in SUBSET Chosen, NEW t \in P,
         NEW n \in People(stg, t)
  PROVE  NameOf(FetchNames(stg, P), n) = NameFor(n)
  <1>1. "names" \in Files
    BY PlaceOfFile
  <1>2. PICK R, s, a : /\ R = RowsOf("names")
                       /\ s = stg.names /\ StagedFrom("names", s, a) /\ s \in Seq(R)
    BY <1>1, TableIs
  <1>3. \A x, y \in R : x.n = y.n => x = y
    <2>1. Unique(files["names"], LAMBDA row : row.n)
      BY InputsAssumption
    <2>2. \A i, j \in RowLines(files["names"]) :
            files["names"][i].row.n = files["names"][j].row.n => i = j
      BY <2>1 DEF Unique
    <2> QED BY <1>2, <2>2 DEF RowsOf
  <1>4. n \in Credited
    BY PeopleCredited
  <1>5. PICK wanted : wanted = UNION {People(stg, u) : u \in P}
    OBVIOUS
  <1>6. n \in wanted
    BY <1>5
  <1> DEFINE places == {i \in DOMAIN s : s[i].n \in wanted}
  <1>7. places \in SUBSET (1 .. Len(s)) /\ DOMAIN s = 1 .. Len(s)
    BY <1>2
  <1>8. FetchNames(stg, P) =
          [m \in {row.n : row \in ToSet(Picked(s, places))} |->
             Last(Picked(Picked(s, places),
                    {i \in DOMAIN Picked(s, places) : Picked(s, places)[i].n = m})).name]
    BY <1>2, <1>5 DEF FetchNames
  <1>9. \A i : i \in places <=> i \in 1 .. Len(s) /\ s[i].n \in wanted
    BY <1>7
  <1> HIDE DEF places
  <1>10. PICK r, b : r = Picked(s, places) /\ PickedFrom(R, s, places, r, b)
    BY <1>2, <1>7, PickedIs
  <1>11. /\ r \in Seq(R) /\ Len(r) \in Nat /\ DOMAIN r = 1 .. Len(r)
         /\ \A x : x \in ToSet(r) <=> \E i \in places : x = s[i]
    BY <1>10 DEF PickedFrom
  <1>12. PICK names : names = FetchNames(stg, P)
    OBVIOUS
  <1>13. /\ DOMAIN names = {row.n : row \in ToSet(r)}
         /\ \A m \in DOMAIN names :
              names[m] = Last(Picked(r, {i \in DOMAIN r : r[i].n = m})).name
    BY <1>8, <1>10, <1>12
  <1>14. CASE \E x \in R : x.n = n
    <2>1. PICK x \in R : x.n = n
      BY <1>14
    <2>2. Selected("names", x)
      BY <1>4, <2>1 DEF Selected
    <2>3. PICK k \in 1 .. Len(s) : s[k] = x
      BY <1>2, <2>1, <2>2 DEF StagedFrom
    <2>4. x \in ToSet(r)
      BY <1>6, <1>9, <1>11, <2>1, <2>3
    <2>5. n \in DOMAIN names
      BY <1>13, <2>1, <2>4
    <2> DEFINE Q == {i \in DOMAIN r : r[i].n = n}
    <2>6. PICK l \in DOMAIN r : r[l] = x
      BY <2>4 DEF ToSet
    <2>7. l \in Q /\ Q \in SUBSET (1 .. Len(r)) /\ \A i \in Q : r[i].n = n /\ r[i] \in R
      BY <1>11, <2>1, <2>6
    <2>8. names[n] = Last(Picked(r, Q)).name
      BY <1>13, <2>5
    <2> HIDE DEF Q
    <2>9. PICK q, c : q = Picked(r, Q) /\ PickedFrom(R, r, Q, q, c)
      BY <1>11, <2>7, PickedIs
    <2>10. /\ Len(q) \in Nat /\ Len(q) > 0
           /\ \A i \in 1 .. Len(q) : c[i] \in Q /\ q[i] = r[c[i]]
      <3>1. \E i \in 1 .. Len(q) : c[i] = l
        BY <2>7, <2>9 DEF PickedFrom
      <3> QED BY <2>9, <3>1 DEF PickedFrom
    <2>11. Last(q) \in R /\ Last(q).n = n
      <3>1. Len(q) \in 1 .. Len(q) /\ Last(q) = q[Len(q)]
        BY <2>10 DEF Last
      <3> QED BY <2>7, <2>10, <3>1
    <2>12. Last(q) = x
      BY <1>3, <2>1, <2>11
    <2>13. names[n] = x.name
      BY <2>8, <2>9, <2>12
    <2>14. PICK rows : rows = {row \in RowsOf("names") : row.n = n}
      OBVIOUS
    <2>15. rows = {x}
      BY <1>2, <1>3, <2>1, <2>14
    <2>16. (CHOOSE row \in rows : TRUE) = x
      BY <2>15
    <2>17. NameFor(n) = x.name
      BY <2>14, <2>15, <2>16 DEF NameFor
    <2> QED BY <1>12, <2>5, <2>13, <2>17 DEF NameOf
  <1>15. CASE ~ \E x \in R : x.n = n
    <2>1. n \notin DOMAIN names
      <3>1. \A x \in ToSet(r) : x \in R
        BY <1>11 DEF ToSet
      <3> QED BY <1>13, <1>15, <3>1
    <2>2. NameFor(n) = ""
      BY <1>2, <1>15 DEF NameFor
    <2> QED BY <1>12, <2>1, <2>2 DEF NameOf
  <1> QED BY <1>14, <1>15

(* A cast made of billings b, as CastMatches asks for it                   *)
CastGiven(cast, b) ==
  LET entries == Picked(b, Firsts(b, Len(b)))
  IN  /\ DOMAIN cast = DOMAIN entries
      /\ \A i \in DOMAIN cast :
           /\ Role(cast[i]) = Role(entries[i])
           /\ cast[i].name = NameFor(cast[i].n)
           /\ cast[i].characters = Distinct(SaidBy(b, Role(cast[i]), Len(b)))

LEMMA CastMade ==
  ASSUME NEW R, Speaking(R, Names), NEW b \in Seq(R), NEW names,
         \A row \in ToSet(b) : NameOf(names, row.n) = NameFor(row.n)
  PROVE  CastGiven(BuildCast(b, names), b)
  <1>1. BuildCast(b, names) = CastUpTo(b, names, Len(b))
    BY CastIs
  <1>2. Len(b) \in 0 .. Len(b) /\ DOMAIN b = 1 .. Len(b)
    OBVIOUS
  <1>3. PICK f : f = Firsts(b, Len(b))
    OBVIOUS
  <1>4. PICK e, a : /\ f \in SUBSET (1 .. Len(b)) /\ e = Picked(b, f)
                    /\ PickedFrom(R, b, f, e, a)
    BY <1>2, <1>3, FirstsIs
  <1>5. /\ Len(e) = Cardinality(f) /\ DOMAIN e = 1 .. Len(e)
        /\ \A i \in 1 .. Len(e) : e[i] \in ToSet(b)
    <2>1. /\ Len(e) = Cardinality(f) /\ DOMAIN e = 1 .. Len(e)
          /\ \A i \in 1 .. Len(e) : a[i] \in f /\ e[i] = b[a[i]]
      BY <1>4 DEF PickedFrom
    <2> QED BY <1>2, <1>4, <2>1 DEF ToSet
  <1>6. PICK cast : cast = BuildCast(b, names)
    OBVIOUS
  <1>7. /\ DOMAIN cast = 1 .. Len(e)
        /\ \A i \in 1 .. Len(e) : cast[i] = Entry(b, names, e[i], Len(b))
    <2>1. cast = [i \in 1 .. Cardinality(f) |-> Entry(b, names, e[i], Len(b))]
      BY <1>1, <1>3, <1>4, <1>6 DEF CastUpTo
    <2> QED BY <1>5, <2>1
  <1>8. ASSUME NEW i \in 1 .. Len(e)
        PROVE  /\ cast[i].n = e[i].n /\ Role(cast[i]) = Role(e[i])
               /\ cast[i].name = NameFor(cast[i].n)
               /\ cast[i].characters = Distinct(SaidBy(b, Role(cast[i]), Len(b)))
    <2>1. /\ cast[i].n = e[i].n /\ cast[i].cat = e[i].cat
          /\ cast[i].name = NameOf(names, e[i].n)
          /\ cast[i].characters = Distinct(SaidBy(b, Role(e[i]), Len(b)))
      BY <1>7 DEF Entry
    <2>2. Role(cast[i]) = Role(e[i])
      BY <2>1 DEF Role
    <2>3. NameOf(names, e[i].n) = NameFor(e[i].n)
      BY <1>5
    <2> QED BY <2>1, <2>2, <2>3
  <1> QED BY <1>3, <1>4, <1>5, <1>6, <1>7, <1>8 DEF CastGiven

(* What CastMatches says, in the words of CastMade *)
LEMMA CastMatched ==
  ASSUME NEW doc, NEW R, Capped(Billed(doc.t, Actors), MaxActors) \in Seq(R),
         CastGiven(doc.cast, Capped(Billed(doc.t, Actors), MaxActors))
  PROVE  CastMatches(doc)
  <1> DEFINE b == Capped(Billed(doc.t, Actors), MaxActors)
             role(row) == <<row.n, row.cat>>
             firsts == {i \in DOMAIN b : \A j \in 1 .. i - 1 : role(b[j]) # role(b[i])}
             said(r) == FlattenSeq([i \in DOMAIN b |->
                          IF role(b[i]) = r THEN FlattenSeq(b[i].characters) ELSE <<>>])
             spelled(r) == {i \in DOMAIN said(r) :
                              /\ Key(said(r)[i]) # 0
                              /\ \A j \in 1 .. i - 1 : Key(said(r)[j]) # Key(said(r)[i])}
             entries == Picked(b, firsts)
  <1>1. b \in Seq(R) /\ CastGiven(doc.cast, b)
    OBVIOUS
  <1> HIDE DEF b
  <1>2. DOMAIN b = 1 .. Len(b)
    BY <1>1
  <1>3. firsts = Firsts(b, Len(b))
    BY <1>2 DEF Firsts, Role
  <1>4. ASSUME NEW r
        PROVE  said(r) = SaidBy(b, r, Len(b))
    BY <1>2 DEF SaidBy, SaidOf, Role
  <1>5. ASSUME NEW r
        PROVE  Picked(said(r), spelled(r)) = Distinct(said(r))
    <2> HIDE DEF said
    <2> QED BY DEF Distinct, Spelled
  <1>6. /\ DOMAIN doc.cast = DOMAIN entries
        /\ \A i \in DOMAIN doc.cast :
             /\ role(doc.cast[i]) = role(entries[i])
             /\ doc.cast[i].name = NameFor(doc.cast[i].n)
             /\ doc.cast[i].characters = Distinct(SaidBy(b, role(doc.cast[i]), Len(b)))
    <2> HIDE DEF firsts
    <2> QED BY <1>1, <1>3 DEF CastGiven, Role
  <1>7. [i \in DOMAIN doc.cast |-> role(doc.cast[i])]
          = [i \in DOMAIN entries |-> role(entries[i])]
    <2> HIDE DEF entries
    <2> QED BY <1>6
  <1>8. ASSUME NEW i \in DOMAIN doc.cast
        PROVE  /\ doc.cast[i].name = NameFor(doc.cast[i].n)
               /\ doc.cast[i].characters
                    = Picked(said(role(doc.cast[i])), spelled(role(doc.cast[i])))
    <2> DEFINE r == role(doc.cast[i])
    <2>1. /\ doc.cast[i].name = NameFor(doc.cast[i].n)
          /\ doc.cast[i].characters = Distinct(SaidBy(b, r, Len(b)))
      BY <1>6
    <2> HIDE DEF r
    <2>2. SaidBy(b, r, Len(b)) = said(r) /\ Distinct(said(r)) = Picked(said(r), spelled(r))
      BY <1>4, <1>5
    <2> HIDE DEF said, spelled
    <2>3. doc.cast[i].characters = Picked(said(r), spelled(r))
      BY <2>1, <2>2
    <2> QED BY <2>1, <2>3 DEF r
  <1>9. /\ [i \in DOMAIN doc.cast |-> role(doc.cast[i])]
             = [i \in DOMAIN entries |-> role(entries[i])]
        /\ \A i \in DOMAIN doc.cast :
             /\ doc.cast[i].name = NameFor(doc.cast[i].n)
             /\ doc.cast[i].characters
                  = Picked(said(role(doc.cast[i])), spelled(role(doc.cast[i])))
    <2> HIDE DEF entries, said, spelled, role
    <2> QED BY <1>7, <1>8
  <1> QED BY <1>9, Zenon DEF CastMatches, b

(* Producers and crew, with the names that are right for them *)
LEMMA ProducersNamed ==
  ASSUME NEW R, NEW b \in Seq(R), NEW names,
         \A row \in ToSet(b) : NameOf(names, row.n) = NameFor(row.n)
  PROVE  BuildProducers(b, names) =
           [i \in DOMAIN b |-> [n |-> b[i].n, cat |-> b[i].cat, name |-> NameFor(b[i].n)]]
  <1>1. \A i \in DOMAIN b : NameOf(names, b[i].n) = NameFor(b[i].n)
    BY DEF ToSet
  <1> QED BY <1>1 DEF BuildProducers

LEMMA CrewNamed ==
  ASSUME NEW b, NEW names, \A n \in ToSet(b) : NameOf(names, n) = NameFor(n)
  PROVE  BuildCrewMembers(b, names) = [i \in DOMAIN b |-> [n |-> b[i], name |-> NameFor(b[i])]]
  <1>1. \A i \in DOMAIN b : NameOf(names, b[i]) = NameFor(b[i])
    BY DEF ToSet
  <1> QED BY <1>1 DEF BuildCrewMembers

CrewGiven(directors, writers, t) ==
  LET crew == {row \in RowsOf("crew") : row.t = t}
      Named(ns) == [i \in DOMAIN ns |-> [n |-> ns[i], name |-> NameFor(ns[i])]]
  IN  IF crew = {} THEN directors = <<>> /\ writers = <<>>
      ELSE \E row \in crew : /\ directors = Named(Capped(row.directors, MaxDirectors))
                             /\ writers = Named(Capped(row.writers, MaxWriters))

LEMMA CreditsMade ==
  ASSUME files \in Inputs, Complete, NEW doc, Made(doc)
  PROVE  /\ CastMatches(doc)
         /\ LET billed == Capped(Billed(doc.t, Producers), MaxProducers)
            IN  doc.producers =
                  [i \in DOMAIN billed |->
                     [n |-> billed[i].n, cat |-> billed[i].cat, name |-> NameFor(billed[i].n)]]
         /\ CrewGiven(doc.directors, doc.writers, doc.t)
  <1>1. PICK t, P : /\ t = doc.t /\ t \in Chosen /\ P \in SUBSET Chosen /\ t \in P
                    /\ doc = Document(stg, enriched, FetchNames(stg, P), t)
    BY DEF Made
  <1>2. PICK names : names = FetchNames(stg, P)
    OBVIOUS
  <1>3. \A n \in People(stg, t) : NameOf(names, n) = NameFor(n)
    BY <1>1, <1>2, NamesFetched
  <1>4. PICK b, c, crew : /\ b = RankedActors(stg.principals, t)
                          /\ c = RankedProducers(stg.principals, t)
                          /\ crew = CrewOf(stg.crew, t)
    OBVIOUS
  <1>5. /\ doc.cast = BuildCast(b, names)
        /\ doc.producers = BuildProducers(c, names)
        /\ doc.directors = BuildCrewMembers(crew.directors, names)
        /\ doc.writers = BuildCrewMembers(crew.writers, names)
    BY <1>1, <1>2, <1>4 DEF Document
  <1>6. /\ \A row \in ToSet(b) : row.n \in People(stg, t)
        /\ \A row \in ToSet(c) : row.n \in People(stg, t)
        /\ \A n \in ToSet(crew.directors) : n \in People(stg, t)
        /\ \A n \in ToSet(crew.writers) : n \in People(stg, t)
    BY <1>4 DEF People
  <1>7. PICK R : R = RowsOf("principals") /\ Speaking(R, Names)
    BY CreditColumns
  <1>8. /\ b = Capped(Billed(t, Actors), MaxActors) /\ b \in Seq(R)
        /\ c = Capped(Billed(t, Producers), MaxProducers) /\ c \in Seq(R)
    <2>1. /\ Actors = IF TRUE THEN Actors ELSE Producers
          /\ Producers = IF FALSE THEN Actors ELSE Producers
          /\ MaxActors \in Nat /\ MaxProducers \in Nat
      BY LimitsAssumption
    <2>2. PICK u, v : /\ u = Billing(stg.principals, t, TRUE) /\ u = Billed(t, Actors)
                      /\ u \in Seq(Bills(t, Actors))
                      /\ v = Billing(stg.principals, t, FALSE) /\ v = Billed(t, Producers)
                      /\ v \in Seq(Bills(t, Producers))
      BY <1>1, <2>1, BilledIs
    <2>3. Bills(t, Actors) \subseteq R /\ Bills(t, Producers) \subseteq R
      BY <1>7 DEF Bills
    <2>4. u \in Seq(R) /\ v \in Seq(R)
      BY <2>2, <2>3, WiderSequence
    <2>5. Capped(u, MaxActors) \in Seq(R) /\ Capped(v, MaxProducers) \in Seq(R)
      BY <2>1, <2>4, CappedIs
    <2> QED BY <1>4, <2>2, <2>5 DEF RankedActors, RankedProducers
  <1>9. CastMatches(doc)
    <2>1. CastGiven(doc.cast, b)
      BY <1>3, <1>5, <1>6, <1>7, <1>8, CastMade
    <2> QED BY <1>1, <1>8, <2>1, CastMatched
  <1>10. doc.producers =
           [i \in DOMAIN c |-> [n |-> c[i].n, cat |-> c[i].cat, name |-> NameFor(c[i].n)]]
    BY <1>3, <1>5, <1>6, <1>8, ProducersNamed
  <1>11. /\ doc.directors = [i \in DOMAIN crew.directors |->
              [n |-> crew.directors[i], name |-> NameFor(crew.directors[i])]]
         /\ doc.writers = [i \in DOMAIN crew.writers |->
              [n |-> crew.writers[i], name |-> NameFor(crew.writers[i])]]
    BY <1>3, <1>5, <1>6, CrewNamed
  <1>12. CrewGiven(doc.directors, doc.writers, t)
    <2>1. CrewFor(t, crew)
      BY <1>1, <1>4, CrewIs
    <2>2. CASE /\ {row \in RowsOf("crew") : row.t = t} = {}
               /\ crew.directors = << >> /\ crew.writers = << >>
      BY <1>11, <2>2 DEF CrewGiven
    <2>3. CASE \E row \in RowsOf("crew") :
                 /\ row.t = t
                 /\ crew.directors = Capped(row.directors, MaxDirectors)
                 /\ crew.writers = Capped(row.writers, MaxWriters)
      BY <1>11, <2>3 DEF CrewGiven
    <2> QED BY <2>1, <2>2, <2>3 DEF CrewFor
  <1> QED BY <1>1, <1>8, <1>9, <1>10, <1>12

LEMMA MadeCreditsMatch == LoadInvariant /\ MadeInvariant => CreditsMatch
  <1>1. ASSUME LoadInvariant, MadeInvariant, NEW doc \in ToSet(titlesNext)
        PROVE  files \in Inputs /\ Complete /\ Made(doc)
    <2>1. titlesNext # << >>
      BY DEF ToSet
    <2> QED BY <1>1, <2>1 DEF LoadInvariant, MadeInvariant, DocumentsMade
  <1> QED BY <1>1, CreditsMade DEF CreditsMatch, CrewGiven

(* Whatever the files hold, a document credits whom they credit, within    *)
(* the limits and by billing, each under the name the last file gives:     *)
(* the allowlist filled while principals and crew were read let in the     *)
(* names of everyone a document shows, and buildCast, row by row, makes    *)
(* one entry of all the rows that bill a person in a category, with every  *)
(* character once in its first spelling.                                   *)
THEOREM CreditsAreGiven == Spec => []CreditsMatch
  <1>1. LoadInvariant /\ BuildInvariant /\ MadeInvariant => CreditsMatch
    BY MadeCreditsMatch
  <1> QED BY <1>1, SpecMade, PTL
===========================================================================

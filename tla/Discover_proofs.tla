-------------------------- MODULE Discover_proofs --------------------------
(* Theorems about Discover, for any number of titles, any values in the    *)
(* sort columns, any page sizes and any number of rebuilds.                *)
EXTENDS Discover, NaturalSets, SequenceTheorems

---------------------------------------------------------------------------
(* The inductive invariant *)

Items == Titles \X Column \X Column

(* An item a listing of this request may show *)
Fits(req, item) ==
  /\ item[3] # Null
  /\ req.sort # "popular" => item[2] # Null
  /\ req.minVotes # Null => item[3] >= req.minVotes

(* The cursor is the last item shown, issued for the walk's request.       *)
AtCursor ==
  /\ cursor # NoCursor =>
       /\ cursor.fingerprint = Fingerprint(walk)
       /\ shown # <<>>
       /\ cursor.item = shown[Len(shown)]
  /\ phase = "walking" /\ cursor = NoCursor => shown = <<>>

(* Items come in the order of the walk and fit its filters. *)
InOrder ==
  \A i, j \in 1 .. Len(shown) : i < j => Before(walk.sort, shown[i], shown[j])

InFilter == \A i \in 1 .. Len(shown) : Fits(walk, shown[i])

(* An item about a title no rebuild touched is still in the table.         *)
Current ==
  /\ swaps = 0 => touched = {}
  /\ \A i \in 1 .. Len(shown) : Title(shown[i]) \notin touched =>
       /\ shown[i] = ItemOf(walk.sort, Title(shown[i]))
       /\ Matches(walk, Title(shown[i]))

Shows(item) == \E i \in 1 .. Len(shown) : shown[i] = item

(* Nothing that no rebuild touched is left out up to the cursor. *)
NothingSkipped ==
  \A t \in Titles \ touched : Matches(walk, t) =>
    /\ phase = "finished" => Shows(ItemOf(walk.sort, t))
    /\ phase = "walking" /\ cursor # NoCursor =>
         Behind(walk.sort, ItemOf(walk.sort, t), cursor.item) \/ Shows(ItemOf(walk.sort, t))

WalkInvariant ==
  TypeOK /\ AtCursor /\ InOrder /\ InFilter /\ Current /\ NothingSkipped

---------------------------------------------------------------------------
(* The order of a listing *)

LEMMA ItemFields ==
  ASSUME NEW a \in Items
  PROVE  /\ a[1] \in Titles /\ a[2] \in Column /\ a[3] \in Column
         /\ a[1] \in Nat /\ a[2] \in Nat /\ a[3] \in Nat
         /\ a = <<a[1], a[2], a[3]>>
  <1>1. NTitles \in Nat /\ MaxValue \in Nat
    BY DiscoverAssumption
  <1> QED BY <1>1 DEF Items, Titles, Column

(* ORDER BY with tconst as the last key is a strict total order. *)
LEMMA StrictTotalOrder ==
  ASSUME NEW sort, NEW a \in Items, NEW b \in Items, NEW c \in Items
  PROVE  /\ ~Before(sort, a, a)
         /\ Before(sort, a, b) /\ Before(sort, b, c) => Before(sort, a, c)
         /\ a # b => Before(sort, a, b) \/ Before(sort, b, a)
  <1>1. /\ a[1] \in Nat /\ a[2] \in Nat /\ a[3] \in Nat
        /\ b[1] \in Nat /\ b[2] \in Nat /\ b[3] \in Nat
        /\ c[1] \in Nat /\ c[2] \in Nat /\ c[3] \in Nat
    BY ItemFields
  <1>2. a # b => a[1] # b[1] \/ a[2] # b[2] \/ a[3] # b[3]
    BY ItemFields
  <1>3. ~Before(sort, a, a)
    BY <1>1 DEF Before, DescendingPair
  <1>4. Before(sort, a, b) /\ Before(sort, b, c) => Before(sort, a, c)
    BY <1>1 DEF Before, DescendingPair
  <1>5. a # b => Before(sort, a, b) \/ Before(sort, b, a)
    BY <1>1, <1>2 DEF Before, DescendingPair
  <1> QED BY <1>3, <1>4, <1>5

(* The keyset condition of the WHERE clause is the order of the listing:   *)
(* a row is behind the cursor when the cursor's row comes before it.       *)
LEMMA BehindIsAfter ==
  ASSUME NEW sort, NEW item \in Items, NEW cur \in Items
  PROVE  Behind(sort, item, cur) <=> Before(sort, cur, item)
  <1>1. /\ item[1] \in Nat /\ item[2] \in Nat /\ item[3] \in Nat
        /\ cur[1] \in Nat /\ cur[2] \in Nat /\ cur[3] \in Nat
    BY ItemFields
  <1> QED BY <1>1 DEF Behind, Before, DescendingPair

Earlier(sort, W, x) == {o \in W : Before(sort, o, x)}

(* Rows that come earlier have fewer rows before them. *)
LEMMA EarlierGrows ==
  ASSUME NEW sort, NEW W \in SUBSET Items, IsFiniteSet(W), NEW x \in W, NEW y \in W,
         Before(sort, x, y)
  PROVE  /\ Cardinality(Earlier(sort, W, x)) \in Nat
         /\ Cardinality(Earlier(sort, W, y)) \in Nat
         /\ Cardinality(Earlier(sort, W, x)) < Cardinality(Earlier(sort, W, y))
  <1> DEFINE X == Earlier(sort, W, x)
             Y == Earlier(sort, W, y)
  <1>1. X \in SUBSET Y
    BY StrictTotalOrder DEF Earlier
  <1>2. x \in Y /\ x \notin X
    BY StrictTotalOrder DEF Earlier
  <1>3. Y \in SUBSET W
    BY DEF Earlier
  <1> HIDE DEF X, Y
  <1>4. IsFiniteSet(Y) /\ IsFiniteSet(X)
    BY <1>1, <1>3, FS_Subset
  <1>5. Cardinality(X) <= Cardinality(Y) /\ Cardinality(X) # Cardinality(Y)
    BY <1>1, <1>2, <1>4, FS_Subset
  <1>6. Cardinality(X) \in Nat /\ Cardinality(Y) \in Nat
    BY <1>4, FS_CardinalityType
  <1> QED BY <1>5, <1>6 DEF X, Y

(* Every row has a place of its own, and every place its row.              *)
LEMMA RowOfRank ==
  ASSUME NEW sort, NEW W \in SUBSET Items, IsFiniteSet(W)
  PROVE  /\ \A x \in W : Cardinality(Earlier(sort, W, x)) + 1 \in 1 .. Cardinality(W)
         /\ \A k \in 1 .. Cardinality(W) :
              \E x \in W : Cardinality(Earlier(sort, W, x)) = k - 1
  <1> DEFINE place == [x \in W |-> Cardinality(Earlier(sort, W, x)) + 1]
             n == Cardinality(W)
  <1>1. n \in Nat
    BY FS_CardinalityType
  <1>2. ASSUME NEW x \in W
        PROVE  Cardinality(Earlier(sort, W, x)) \in Nat
               /\ Cardinality(Earlier(sort, W, x)) + 1 \in 1 .. n
    <2>1. Earlier(sort, W, x) \in SUBSET (W \ {x})
      BY StrictTotalOrder DEF Earlier
    <2>2. IsFiniteSet(W \ {x}) /\ Cardinality(W \ {x}) = n - 1
      BY FS_RemoveElement
    <2>3. /\ IsFiniteSet(Earlier(sort, W, x))
          /\ Cardinality(Earlier(sort, W, x)) <= Cardinality(W \ {x})
      BY <2>1, <2>2, FS_Subset
    <2>4. Cardinality(Earlier(sort, W, x)) \in Nat
      BY <2>3, FS_CardinalityType
    <2> QED BY <1>1, <2>2, <2>3, <2>4
  <1>3. place \in [W -> 1 .. n]
    BY <1>2
  <1>4. \A x, y \in W : place[x] = place[y] => x = y
    <2> SUFFICES ASSUME NEW x \in W, NEW y \in W, x # y
                 PROVE  place[x] # place[y]
      OBVIOUS
    <2>1. Before(sort, x, y) \/ Before(sort, y, x)
      BY StrictTotalOrder
    <2>2. Cardinality(Earlier(sort, W, x)) # Cardinality(Earlier(sort, W, y))
      BY <2>1, EarlierGrows
    <2> QED BY <1>2, <2>2
  <1>5. IsFiniteSet(1 .. n) /\ Cardinality(1 .. n) = n
    BY <1>1, FS_Interval
  <1>6. place \in Surjection(W, 1 .. n)
    <2> HIDE DEF place
    <2>1. place \in Injection(W, 1 .. n)
      BY <1>3, <1>4 DEF Injection, IsInjective
    <2> QED BY <1>5, <2>1, FS_Injection
  <1>7. ASSUME NEW k \in 1 .. n
        PROVE  \E x \in W : Cardinality(Earlier(sort, W, x)) = k - 1
    <2>1. PICK x \in W : place[x] = k
      BY <1>6 DEF Surjection
    <2>2. Cardinality(Earlier(sort, W, x)) + 1 = k
      BY <2>1
    <2> QED BY <1>2, <2>2
  <1> QED BY <1>2, <1>7

(* Ordered lists every row once, in the order of the listing. *)
LEMMA OrderedLists ==
  ASSUME NEW sort, NEW W \in SUBSET Items, IsFiniteSet(W)
  PROVE  /\ Ordered(sort, W) \in Seq(Items)
         /\ Len(Ordered(sort, W)) = Cardinality(W)
         /\ \A k \in 1 .. Cardinality(W) :
              /\ Ordered(sort, W)[k] \in W
              /\ Cardinality(Earlier(sort, W, Ordered(sort, W)[k])) = k - 1
         /\ \A i, j \in 1 .. Cardinality(W) :
              i < j => Before(sort, Ordered(sort, W)[i], Ordered(sort, W)[j])
         /\ \A x \in W : \E k \in 1 .. Cardinality(W) : Ordered(sort, W)[k] = x
  <1> DEFINE n == Cardinality(W)
             row(k) == CHOOSE x \in W : Cardinality(Earlier(sort, W, x)) = k - 1
             s == Ordered(sort, W)
  <1>1. n \in Nat
    BY FS_CardinalityType
  <1>2. s = [k \in 1 .. n |-> row(k)]
    BY DEF Ordered, Earlier
  <1>3. ASSUME NEW k \in 1 .. n
        PROVE  row(k) \in W /\ Cardinality(Earlier(sort, W, row(k))) = k - 1
    BY RowOfRank
  <1>4. \A k \in 1 .. n : s[k] \in W /\ Cardinality(Earlier(sort, W, s[k])) = k - 1
    <2> HIDE DEF row, s
    <2> QED BY <1>2, <1>3
  <1>5. s \in Seq(Items) /\ Len(s) = n
    <2>1. s \in [1 .. n -> Items]
      <3> HIDE DEF row, s
      <3> QED BY <1>2, <1>3
    <2> HIDE DEF s
    <2> QED BY <1>1, <2>1
  <1> HIDE DEF s
  <1>6. ASSUME NEW i \in 1 .. n, NEW j \in 1 .. n, i < j
        PROVE  Before(sort, s[i], s[j])
    <2>1. s[i] \in W /\ s[j] \in W
      BY <1>4
    <2>2. s[i] # s[j]
      BY <1>1, <1>4, <1>6
    <2>3. ~Before(sort, s[j], s[i])
      <3> SUFFICES ASSUME Before(sort, s[j], s[i]) PROVE FALSE
        OBVIOUS
      <3>1. Cardinality(Earlier(sort, W, s[j])) < Cardinality(Earlier(sort, W, s[i]))
        BY <2>1, EarlierGrows
      <3>2. j - 1 < i - 1
        BY <1>4, <3>1
      <3> QED BY <1>1, <1>6, <3>2
    <2> QED BY <2>1, <2>2, <2>3, StrictTotalOrder
  <1>7. ASSUME NEW x \in W
        PROVE  \E k \in 1 .. n : s[k] = x
    <2>1. PICK k \in 1 .. n : k = Cardinality(Earlier(sort, W, x)) + 1
      BY RowOfRank
    <2>2. s[k] \in W /\ Cardinality(Earlier(sort, W, s[k])) = k - 1
      BY <1>4
    <2>3. Cardinality(Earlier(sort, W, x)) = k - 1
      <3>1. IsFiniteSet(Earlier(sort, W, x))
        <4>1. Earlier(sort, W, x) \in SUBSET W
          BY DEF Earlier
        <4> QED BY <4>1, FS_Subset
      <3> QED BY <2>1, <3>1, FS_CardinalityType
    <2>4. ~Before(sort, s[k], x) /\ ~Before(sort, x, s[k])
      BY <2>2, <2>3, EarlierGrows
    <2> QED BY <2>2, <2>4, StrictTotalOrder
  <1> QED BY <1>4, <1>5, <1>6, <1>7 DEF s

(* Two rows with as many rows before them are the same row. *)
LEMMA SameRank ==
  ASSUME NEW sort, NEW W \in SUBSET Items, IsFiniteSet(W), NEW x \in W, NEW y \in W,
         Cardinality(Earlier(sort, W, x)) = Cardinality(Earlier(sort, W, y))
  PROVE  x = y
  <1>1. ~Before(sort, x, y)
    <2> SUFFICES ASSUME Before(sort, x, y) PROVE FALSE
      OBVIOUS
    <2> QED BY EarlierGrows
  <1>2. ~Before(sort, y, x)
    <2> SUFFICES ASSUME Before(sort, y, x) PROVE FALSE
      OBVIOUS
    <2> QED BY EarlierGrows
  <1> QED BY <1>1, <1>2, StrictTotalOrder

(* A strictly ordered sequence of exactly these rows is their listing.     *)
LEMMA SortedIsOrdered ==
  ASSUME NEW sort, NEW W \in SUBSET Items, IsFiniteSet(W), NEW s \in Seq(Items),
         \A i, j \in 1 .. Len(s) : i < j => Before(sort, s[i], s[j]),
         \A i \in 1 .. Len(s) : s[i] \in W,
         \A x \in W : \E i \in 1 .. Len(s) : s[i] = x
  PROVE  s = Ordered(sort, W)
  <1> DEFINE n == Len(s)
  <1>1. n \in Nat /\ s \in [1 .. n -> Items]
    BY LenProperties
  <1>2. \A i, j \in 1 .. n : s[i] = s[j] => i = j
    <2> SUFFICES ASSUME NEW i \in 1 .. n, NEW j \in 1 .. n, i < j, s[i] = s[j]
                 PROVE  FALSE
      BY <1>1
    <2> QED BY StrictTotalOrder
  <1>3. ASSUME NEW m \in 0 .. n, NEW E, E = {s[i] : i \in 1 .. m}
        PROVE  Cardinality(E) = m
    <2> DEFINE f == [i \in 1 .. m |-> s[i]]
    <2>1. f \in Bijection(1 .. m, E)
      <3>1. f \in [1 .. m -> E]
        BY <1>3
      <3>2. \A x \in E : \E i \in 1 .. m : f[i] = x
        BY <1>3
      <3>3. \A i, j \in 1 .. m : f[i] = f[j] => i = j
        BY <1>1, <1>2
      <3> HIDE DEF f
      <3> QED BY <3>1, <3>2, <3>3 DEF Bijection, Injection, Surjection, IsInjective
    <2>2. IsFiniteSet(1 .. m) /\ Cardinality(1 .. m) = m
      BY <1>1, FS_Interval
    <2> HIDE DEF f
    <2> QED BY <2>1, <2>2, FS_Bijection DEF ExistsBijection
  <1>4. Cardinality(W) = n
    <2>1. W = {s[i] : i \in 1 .. n}
      OBVIOUS
    <2>2. n \in 0 .. n
      BY <1>1
    <2> QED BY <1>3, <2>1, <2>2, Zenon
  <1>5. ASSUME NEW k \in 1 .. n
        PROVE  Cardinality(Earlier(sort, W, s[k])) = k - 1
    <2>1. Earlier(sort, W, s[k]) = {s[i] : i \in 1 .. k - 1}
      <3>1. ASSUME NEW x \in Earlier(sort, W, s[k])
            PROVE  \E i \in 1 .. k - 1 : s[i] = x
        <4>1. PICK i \in 1 .. n : s[i] = x
          BY DEF Earlier
        <4>2. Before(sort, s[i], s[k])
          BY <4>1 DEF Earlier
        <4>3. ~(k < i) /\ i # k
          BY <4>2, StrictTotalOrder
        <4> QED BY <1>1, <4>1, <4>3
      <3>2. ASSUME NEW i \in 1 .. k - 1
            PROVE  s[i] \in Earlier(sort, W, s[k])
        BY <1>1 DEF Earlier
      <3> QED BY <3>1, <3>2
    <2>2. k - 1 \in 0 .. n
      BY <1>1
    <2> QED BY <1>3, <2>1, <2>2
  <1>6. \A k \in 1 .. n : s[k] = Ordered(sort, W)[k]
    <2> SUFFICES ASSUME NEW k \in 1 .. n
                 PROVE  s[k] = Ordered(sort, W)[k]
      OBVIOUS
    <2>1. /\ Ordered(sort, W)[k] \in W
          /\ Cardinality(Earlier(sort, W, Ordered(sort, W)[k])) = k - 1
      BY <1>4, OrderedLists
    <2> QED BY <1>5, <2>1, SameRank
  <1>7. Ordered(sort, W) \in Seq(Items) /\ Len(Ordered(sort, W)) = n
    BY <1>4, OrderedLists
  <1> QED BY <1>6, <1>7, SeqEqual

---------------------------------------------------------------------------
(* What a request lists *)

(* The sort key of each listing *)
LEMMA SortKeys ==
  ASSUME NEW sort \in Sorts, NEW row
  PROVE  /\ sort = "popular" => Primary(sort, row) = Null
         /\ sort = "top_rated" => Primary(sort, row) = row.rating
         /\ sort \in {"newest", "oldest"} => Primary(sort, row) = row.year
  <1>1. CASE sort = "popular"
    BY <1>1, Zenon DEF Primary
  <1>2. CASE sort = "top_rated"
    BY <1>2, Zenon DEF Primary
  <1>3. CASE sort = "newest"
    BY <1>3, Zenon DEF Primary
  <1>4. CASE sort = "oldest"
    BY <1>4, Zenon DEF Primary
  <1> QED BY <1>1, <1>2, <1>3, <1>4 DEF Sorts

LEMMA ItemIsItem ==
  ASSUME TypeOK, NEW sort \in Sorts, NEW t \in Titles
  PROVE  /\ ItemOf(sort, t) \in Items
         /\ Title(ItemOf(sort, t)) = t
         /\ ItemOf(sort, t)[2] = Primary(sort, table[t])
         /\ ItemOf(sort, t)[3] = table[t].votes
  <1>1. table[t] \in [votes : Column, rating : Column, year : Column]
    BY DEF TypeOK
  <1>2. 0 \in Column
    BY DiscoverAssumption DEF Column
  <1>3. Primary(sort, table[t]) \in Column
    BY <1>1, <1>2, SortKeys DEF Sorts, Null
  <1>4. table[t].votes \in Column
    BY <1>1
  <1> QED BY <1>3, <1>4 DEF ItemOf, Title, Items

(* The items of a request, and those behind a cursor *)
ItemsFor(req) == {ItemOf(req.sort, t) : t \in {u \in Titles : Matches(req, u)}}
Wanted(req, cur) ==
  IF cur = NoCursor THEN ItemsFor(req)
  ELSE {item \in ItemsFor(req) : Behind(req.sort, item, cur.item)}

LEMMA ListingOrders ==
  ASSUME NEW req, NEW cur
  PROVE  Listing(req, cur) = Ordered(req.sort, Wanted(req, cur))
  BY DEF Listing, Wanted, ItemsFor

LEMMA WantedItems ==
  ASSUME TypeOK, NEW req \in Requests, NEW cur
  PROVE  Wanted(req, cur) \in SUBSET Items /\ IsFiniteSet(Wanted(req, cur))
  <1> DEFINE T == {u \in Titles : Matches(req, u)}
             f == [t \in T |-> ItemOf(req.sort, t)]
             I == ItemsFor(req)
  <1>1. req.sort \in Sorts
    BY DEF Requests
  <1>2. IsFiniteSet(T)
    <2>1. IsFiniteSet(Titles)
      BY DiscoverAssumption, FS_Interval DEF Titles
    <2>2. T \in SUBSET Titles
      OBVIOUS
    <2> QED BY <2>1, <2>2, FS_Subset
  <1>3. f \in Surjection(T, I)
    BY DEF ItemsFor, Surjection
  <1>4. I \in SUBSET Items
    BY <1>1, ItemIsItem DEF ItemsFor
  <1> HIDE DEF T, f, I
  <1>5. IsFiniteSet(I)
    BY <1>2, <1>3, FS_Surjection
  <1>6. Wanted(req, cur) \in SUBSET I
    BY DEF Wanted, I
  <1> QED BY <1>4, <1>5, <1>6, FS_Subset

(* What is listed fits the request. *)
LEMMA WantedFits ==
  ASSUME TypeOK, NEW req \in Requests, NEW cur, NEW x \in Wanted(req, cur)
  PROVE  /\ Fits(req, x)
         /\ Title(x) \in Titles
         /\ x = ItemOf(req.sort, Title(x))
         /\ Matches(req, Title(x))
         /\ cur # NoCursor => Behind(req.sort, x, cur.item)
  <1>1. PICK t \in Titles : Matches(req, t) /\ x = ItemOf(req.sort, t)
    BY DEF Wanted, ItemsFor
  <1>2. req.sort \in Sorts
    BY DEF Requests
  <1>3. Title(x) = t /\ x[2] = Primary(req.sort, table[t]) /\ x[3] = table[t].votes
    BY <1>1, <1>2, ItemIsItem
  <1>4. Fits(req, x)
    BY <1>1, <1>3 DEF Fits, Matches
  <1>5. cur # NoCursor => Behind(req.sort, x, cur.item)
    BY DEF Wanted
  <1> QED BY <1>1, <1>3, <1>4, <1>5

---------------------------------------------------------------------------
(* One page *)

(* p is the first n rows of a listing, all of them if there are no more. *)
IsPrefix(p, all, last) ==
  \E n \in 0 .. Len(all) : p = SubSeq(all, 1, n) /\ (last <=> n = Len(all))

(* p is the page a request shows: its first rows, all of them if no more   *)
(* are wanted.                                                             *)
IsPage(req, p) ==
  /\ IsPrefix(p, Listing(req, cursor), phase' = "finished")
  /\ p \in Seq(Items)
  /\ \A k \in 1 .. Len(p) : p[k] \in Wanted(req, cursor)
  /\ \A i, j \in 1 .. Len(p) : i < j => Before(req.sort, p[i], p[j])
  /\ shown' = shown \o p
  /\ \/ /\ phase' = "finished" /\ cursor' = NoCursor
        /\ \A x \in Wanted(req, cursor) : \E k \in 1 .. Len(p) : p[k] = x
     \/ /\ phase' = "walking" /\ Len(p) > 0
        /\ cursor' = [fingerprint |-> Fingerprint(req), item |-> p[Len(p)]]
        /\ \A x \in Wanted(req, cursor) :
             (\E k \in 1 .. Len(p) : p[k] = x) \/ Behind(req.sort, x, p[Len(p)])

LEMMA PageIsPage ==
  ASSUME TypeOK, NEW req \in Requests, Page(req)
  PROVE  \E p : IsPage(req, p)
  <1> DEFINE W == Wanted(req, cursor)
             all == Listing(req, cursor)
             limit == req.limit
             fetched == IF Len(all) > limit + 1 THEN limit + 1 ELSE Len(all)
             rows == Fetched(req, cursor)
  <1>1. limit \in Nat \ {0}
    BY DiscoverAssumption DEF Requests
  <1>2. W \in SUBSET Items /\ IsFiniteSet(W) /\ Cardinality(W) \in Nat
    BY WantedItems, FS_CardinalityType
  <1>3. /\ all \in Seq(Items) /\ Len(all) = Cardinality(W)
        /\ \A k \in 1 .. Len(all) : all[k] \in W
        /\ \A i, j \in 1 .. Len(all) : i < j => Before(req.sort, all[i], all[j])
        /\ \A x \in W : \E k \in 1 .. Len(all) : all[k] = x
    BY <1>2, ListingOrders, OrderedLists
  <1>4. rows = SubSeq(all, 1, fetched)
    BY DEF Fetched
  <1>5. /\ shown' = shown \o (IF Len(rows) > limit THEN SubSeq(rows, 1, limit) ELSE rows)
        /\ cursor' = IF Len(rows) > limit THEN NextCursor(req, rows) ELSE NoCursor
        /\ phase' = IF Len(rows) > limit THEN "walking" ELSE "finished"
    BY DEF Page
  <1> HIDE DEF W, all, limit, rows
  <1>6. Len(all) \in Nat /\ fetched \in 0 .. Len(all)
    BY <1>1, <1>2, <1>3
  <1>7. rows \in Seq(Items) /\ Len(rows) = fetched /\ \A k \in 1 .. fetched : rows[k] = all[k]
    <2>1. \A k \in 1 .. fetched : all[k] \in Items
      BY <1>2, <1>3, <1>6
    <2> HIDE DEF fetched
    <2> QED BY <1>4, <1>6, <2>1, SubSeqProperties
  <1>8. CASE Len(all) > limit
    <2>1. fetched > limit
      BY <1>1, <1>6, <1>8
    <2> HIDE DEF fetched
    <2>2. PICK p : p = SubSeq(rows, 1, limit)
      OBVIOUS
    <2>3. p \in Seq(Items) /\ Len(p) = limit /\ \A k \in 1 .. limit : p[k] = all[k]
      <3>1. \A k \in 1 .. limit : rows[k] \in Items /\ rows[k] = all[k]
        BY <1>1, <1>2, <1>3, <1>6, <1>7, <2>1
      <3> QED BY <1>1, <2>2, <3>1, SubSeqProperties
    <2>4. /\ shown' = shown \o p /\ phase' = "walking"
          /\ cursor' = NextCursor(req, rows)
      BY <1>5, <1>7, <2>1, <2>2
    <2>5. rows[limit] = p[Len(p)]
      BY <1>1, <1>6, <1>7, <2>1, <2>3
    <2>6. cursor' = [fingerprint |-> Fingerprint(req), item |-> p[Len(p)]]
      BY <2>4, <2>5 DEF NextCursor, limit
    <2>7. /\ \A k \in 1 .. Len(p) : p[k] \in W
          /\ \A i, j \in 1 .. Len(p) : i < j => Before(req.sort, p[i], p[j])
      BY <1>1, <1>3, <1>6, <1>8, <2>3
    <2>8. ASSUME NEW x \in W
          PROVE  (\E k \in 1 .. Len(p) : p[k] = x) \/ Behind(req.sort, x, p[Len(p)])
      <3>1. PICK k \in 1 .. Len(all) : all[k] = x
        BY <1>3
      <3>2. CASE k <= limit
        BY <1>1, <2>3, <3>1, <3>2
      <3>3. CASE limit < k
        <4>1. Before(req.sort, all[limit], all[k]) /\ all[limit] \in Items /\ all[k] \in Items
          BY <1>1, <1>2, <1>3, <1>6, <1>8, <3>3
        <4>2. p[Len(p)] = all[limit]
          BY <1>1, <2>3
        <4> QED BY <3>1, <4>1, <4>2, BehindIsAfter
      <3> QED BY <1>1, <1>6, <3>2, <3>3
    <2>9. Len(p) > 0
      BY <1>1, <2>3
    <2>10. IsPrefix(p, all, phase' = "finished")
      <3>1. limit \in 0 .. Len(all) /\ limit # Len(all)
        BY <1>1, <1>6, <1>8
      <3>2. p = SubSeq(all, 1, limit)
        <4>1. \A k \in 1 .. limit : all[k] \in Items
          BY <1>2, <1>3, <3>1
        <4>2. PICK q : q = SubSeq(all, 1, limit)
          OBVIOUS
        <4>3. q \in Seq(Items) /\ Len(q) = limit /\ \A k \in 1 .. limit : q[k] = all[k]
          BY <1>3, <1>6, <3>1, <4>1, <4>2, SubSeqProperties
        <4>4. p = q
          BY <2>3, <4>3, SeqEqual
        <4> QED BY <4>2, <4>4
      <3>3. phase' # "finished"
        BY <2>4
      <3> QED BY <3>1, <3>2, <3>3 DEF IsPrefix
    <2> QED BY <2>3, <2>4, <2>6, <2>7, <2>8, <2>9, <2>10 DEF IsPage, W, all
  <1>9. CASE ~(Len(all) > limit)
    <2>1. fetched = Len(all) /\ ~(fetched > limit)
      BY <1>1, <1>6, <1>9
    <2> HIDE DEF fetched
    <2>2. shown' = shown \o rows /\ phase' = "finished" /\ cursor' = NoCursor
      BY <1>5, <1>7, <2>1
    <2>3. /\ \A k \in 1 .. Len(rows) : rows[k] \in W
          /\ \A i, j \in 1 .. Len(rows) : i < j => Before(req.sort, rows[i], rows[j])
          /\ \A x \in W : \E k \in 1 .. Len(rows) : rows[k] = x
      BY <1>3, <1>7, <2>1
    <2>4. IsPrefix(rows, all, phase' = "finished")
      <3>1. rows = SubSeq(all, 1, Len(all)) /\ Len(all) \in 0 .. Len(all)
        BY <1>4, <1>6, <2>1
      <3> QED BY <2>2, <3>1 DEF IsPrefix
    <2> QED BY <1>7, <2>2, <2>3, <2>4 DEF IsPage, W, all
  <1> QED BY <1>8, <1>9

(* An accepted request has the sort and the filters the walk began with.   *)
LEMMA SameWalk ==
  ASSUME WalkInvariant, NEW req \in Sent, Page(req)
  PROVE  /\ req \in Requests
         /\ req.sort = walk.sort /\ req.minVotes = walk.minVotes
         /\ \A item : Fits(req, item) <=> Fits(walk, item)
         /\ \A t : Matches(req, t) <=> Matches(walk, t)
         /\ Listing(req, cursor) = Listing(walk, cursor)
  <1>1. req \in Requests
    BY DEF Sent
  <1>2. req.sort = walk.sort /\ req.minVotes = walk.minVotes
    <2>1. CASE cursor = NoCursor
      BY <2>1 DEF Sent
    <2>2. CASE cursor # NoCursor
      BY <2>2 DEF Page, Accepts, WalkInvariant, AtCursor, Fingerprint
    <2> QED BY <2>1, <2>2
  <1>3. \A item : Fits(req, item) <=> Fits(walk, item)
    BY <1>2 DEF Fits
  <1>4. \A t : Matches(req, t) <=> Matches(walk, t)
    BY <1>2 DEF Matches
  <1>5. Wanted(req, cursor) = Wanted(walk, cursor)
    BY <1>2, <1>4 DEF Wanted, ItemsFor
  <1>6. Listing(req, cursor) = Listing(walk, cursor)
    BY <1>2, <1>5, ListingOrders
  <1> QED BY <1>1, <1>2, <1>3, <1>4, <1>6

(* The page continues what was shown. *)
LEMMA PageKeeps ==
  ASSUME WalkInvariant, NEW req \in Sent, Page(req)
  PROVE  WalkInvariant'
  <1> USE DEF WalkInvariant
  <1>1. /\ req \in Requests /\ req.sort = walk.sort /\ req.minVotes = walk.minVotes
        /\ \A item : Fits(req, item) <=> Fits(walk, item)
        /\ \A t : Matches(req, t) <=> Matches(walk, t)
        /\ walk \in Requests /\ walk.sort \in Sorts
    BY SameWalk DEF TypeOK, Requests
  <1>2. PICK p : IsPage(req, p)
    BY <1>1, PageIsPage
  <1>3. /\ phase = "walking"
        /\ UNCHANGED <<table, walk, swaps, touched>>
    BY DEF Page
  <1>4. shown \in Seq(Items) /\ p \in Seq(Items) /\ Len(shown) \in Nat /\ Len(p) \in Nat
    BY <1>2 DEF IsPage, TypeOK, Items
  <1>5. PICK n : n = Len(shown)
    OBVIOUS
  <1>6. /\ shown' \in Seq(Items) /\ Len(shown') = n + Len(p)
        /\ \A i \in 1 .. n : shown'[i] = shown[i]
        /\ \A k \in 1 .. Len(p) : shown'[n + k] = p[k]
        /\ \A i \in 1 .. n + Len(p) : i \in 1 .. n \/ \E k \in 1 .. Len(p) : i = n + k
    <2>1. shown' = shown \o p
      BY <1>2 DEF IsPage
    <2>2. /\ shown' \in Seq(Items) /\ Len(shown') = n + Len(p)
          /\ \A i \in 1 .. n + Len(p) :
               shown'[i] = IF i <= n THEN shown[i] ELSE p[i - n]
      BY <1>4, <1>5, <2>1, ConcatProperties
    <2>3. \A i \in 1 .. n + Len(p) : i \in 1 .. n \/ \E k \in 1 .. Len(p) : i = n + k
      <3> SUFFICES ASSUME NEW i \in 1 .. n + Len(p), i \notin 1 .. n
                   PROVE  \E k \in 1 .. Len(p) : i = n + k
        OBVIOUS
      <3>1. i - n \in 1 .. Len(p) /\ i = n + (i - n)
        BY <1>4, <1>5
      <3> QED BY <3>1
    <2>4. ASSUME NEW i \in 1 .. n
          PROVE  shown'[i] = shown[i]
      <3>1. i \in 1 .. n + Len(p) /\ i <= n
        BY <1>4, <1>5
      <3> QED BY <2>2, <3>1
    <2>5. ASSUME NEW k \in 1 .. Len(p)
          PROVE  shown'[n + k] = p[k]
      <3>1. n + k \in 1 .. n + Len(p) /\ ~(n + k <= n) /\ (n + k) - n = k
        BY <1>4, <1>5
      <3> QED BY <2>2, <3>1
    <2> QED BY <2>2, <2>3, <2>4, <2>5
  <1>7. \A k \in 1 .. Len(p) :
          /\ p[k] \in Items /\ Fits(walk, p[k])
          /\ Title(p[k]) \in Titles
          /\ p[k] = ItemOf(walk.sort, Title(p[k])) /\ Matches(walk, Title(p[k]))
          /\ cursor # NoCursor => Before(walk.sort, cursor.item, p[k])
    <2> SUFFICES ASSUME NEW k \in 1 .. Len(p)
                 PROVE  /\ p[k] \in Items /\ Fits(walk, p[k])
                        /\ Title(p[k]) \in Titles
                        /\ p[k] = ItemOf(walk.sort, Title(p[k]))
                        /\ Matches(walk, Title(p[k]))
                        /\ cursor # NoCursor => Before(walk.sort, cursor.item, p[k])
      OBVIOUS
    <2>1. p[k] \in Wanted(req, cursor) /\ p[k] \in Items
      BY <1>2, <1>4 DEF IsPage
    <2>2. cursor # NoCursor => cursor.item \in Items
      BY DEF TypeOK, Items
    <2> QED BY <1>1, <2>1, <2>2, WantedFits, BehindIsAfter
  <1>8. \/ phase' = "finished" /\ cursor' = NoCursor
        \/ /\ phase' = "walking" /\ Len(p) > 0
           /\ cursor' = [fingerprint |-> Fingerprint(req), item |-> p[Len(p)]]
    BY <1>2 DEF IsPage
  <1>9. TypeOK'
    <2>1. ASSUME cursor' # NoCursor
          PROVE  /\ cursor'.item \in Titles \X Column \X (Column \ {Null})
                 /\ walk.sort # "popular" => cursor'.item[2] # Null
      <3>1. cursor'.item = p[Len(p)] /\ Len(p) \in 1 .. Len(p)
        BY <1>4, <1>8, <2>1
      <3>2. p[Len(p)] \in Items /\ Fits(walk, p[Len(p)])
        BY <1>7, <3>1
      <3> QED BY <3>1, <3>2, ItemFields DEF Fits
    <2>2. phase' \in {"walking", "finished", "rejected"}
      BY <1>8
    <2> QED BY <1>3, <1>6, <2>1, <2>2 DEF TypeOK, Items
  <1>10. AtCursor'
    <2>1. CASE phase' = "finished" /\ cursor' = NoCursor
      BY <2>1 DEF AtCursor
    <2>2. CASE /\ phase' = "walking" /\ Len(p) > 0
               /\ cursor' = [fingerprint |-> Fingerprint(req), item |-> p[Len(p)]]
      <3>1. Fingerprint(req) = Fingerprint(walk)
        BY <1>1 DEF Fingerprint
      <3>2. cursor' # NoCursor
        <4>1. Fingerprint(req) # <<>>
          BY DEF Fingerprint
        <4> QED BY <2>2, <4>1 DEF NoCursor
      <3>3. Len(shown') > 0 /\ shown'[Len(shown')] = p[Len(p)]
        BY <1>4, <1>5, <1>6, <2>2
      <3>4. shown' # <<>>
        BY <1>6, <3>3
      <3> QED BY <1>3, <2>2, <3>1, <3>2, <3>3, <3>4 DEF AtCursor, Fingerprint
    <2> QED BY <1>8, <2>1, <2>2
  <1>11. InOrder'
    <2> SUFFICES ASSUME NEW i \in 1 .. n + Len(p), NEW j \in 1 .. n + Len(p), i < j
                 PROVE  Before(walk.sort, shown'[i], shown'[j])
      BY <1>3, <1>6 DEF InOrder
    <2>1. CASE i \in 1 .. n /\ j \in 1 .. n
      BY <1>5, <1>6, <2>1 DEF InOrder
    <2>2. ASSUME i \in 1 .. n, NEW k \in 1 .. Len(p), j = n + k
          PROVE  Before(walk.sort, shown'[i], shown'[j])
      <3>1. cursor # NoCursor
        <4> SUFFICES ASSUME cursor = NoCursor PROVE FALSE
          OBVIOUS
        <4>1. n = 0
          BY <1>3, <1>5 DEF AtCursor
        <4> QED BY <2>2, <4>1
      <3>2. cursor.item = shown[n] /\ n \in 1 .. n
        BY <1>4, <1>5, <2>2, <3>1 DEF AtCursor
      <3>3. Before(walk.sort, shown[n], p[k])
        BY <1>7, <3>1, <3>2
      <3>4. i = n \/ Before(walk.sort, shown[i], shown[n])
        BY <1>4, <1>5, <2>2, <3>2 DEF InOrder
      <3>5. shown[i] \in Items /\ shown[n] \in Items /\ p[k] \in Items
        BY <1>4, <1>5, <2>2, <3>2
      <3>6. Before(walk.sort, shown[i], p[k])
        BY <3>3, <3>4, <3>5, StrictTotalOrder
      <3> QED BY <1>6, <2>2, <3>6
    <2>3. ASSUME NEW h \in 1 .. Len(p), NEW k \in 1 .. Len(p), i = n + h, j = n + k
          PROVE  Before(walk.sort, shown'[i], shown'[j])
      <3>1. h < k
        BY <1>4, <1>5, <2>3
      <3> QED BY <1>1, <1>2, <1>6, <2>3, <3>1 DEF IsPage
    <2>4. ASSUME NEW h \in 1 .. Len(p), i = n + h, j \in 1 .. n
          PROVE  FALSE
      BY <1>4, <1>5, <2>4
    <2> QED BY <1>6, <2>1, <2>2, <2>3, <2>4
  <1>12. InFilter'
    <2> SUFFICES ASSUME NEW i \in 1 .. n + Len(p)
                 PROVE  Fits(walk, shown'[i])
      BY <1>3, <1>6 DEF InFilter, Fits
    <2> QED BY <1>5, <1>6, <1>7 DEF InFilter
  <1>13. Current'
    <2>1. \A sort, t : ItemOf(sort, t)' = ItemOf(sort, t)
      BY <1>3 DEF ItemOf
    <2>2. \A q, t : Matches(q, t)' <=> Matches(q, t)
      BY <1>3 DEF Matches
    <2>3. ASSUME NEW i \in 1 .. n + Len(p), NEW x, x = shown'[i], Title(x) \notin touched
          PROVE  x = ItemOf(walk.sort, Title(x)) /\ Matches(walk, Title(x))
      <3>1. CASE i \in 1 .. n
        <4>1. x = shown[i]
          BY <1>6, <2>3, <3>1
        <4> QED BY <1>5, <2>3, <3>1, <4>1 DEF Current
      <3>2. ASSUME NEW k \in 1 .. Len(p), i = n + k
            PROVE  x = ItemOf(walk.sort, Title(x)) /\ Matches(walk, Title(x))
        <4>1. x = p[k]
          BY <1>6, <2>3, <3>2
        <4> QED BY <1>7, <4>1
      <3> QED BY <1>6, <3>1, <3>2
    <2> QED BY <1>3, <1>6, <2>1, <2>2, <2>3 DEF Current
  <1>14. NothingSkipped'
    <2> SUFFICES ASSUME NEW t \in Titles \ touched, Matches(walk, t)
                 PROVE  /\ phase' = "finished" => Shows(ItemOf(walk.sort, t))'
                        /\ phase' = "walking" /\ cursor' # NoCursor =>
                             \/ Behind(walk.sort, ItemOf(walk.sort, t), cursor'.item)
                             \/ Shows(ItemOf(walk.sort, t))'
      BY <1>3 DEF NothingSkipped, ItemOf, Matches
    <2>1. PICK x : x = ItemOf(walk.sort, t)
      OBVIOUS
    <2>2. ItemOf(walk.sort, t)' = x
      BY <1>3, <2>1 DEF ItemOf
    <2>3. x \in ItemsFor(req)
      BY <1>1, <2>1 DEF ItemsFor
    <2>4. CASE x \in Wanted(req, cursor)
      <3>1. ASSUME NEW k \in 1 .. Len(p), p[k] = x
            PROVE  \E i \in 1 .. Len(shown') : shown'[i] = x
        <4>1. n + k \in 1 .. n + Len(p)
          BY <1>4, <1>5
        <4>2. Len(shown') = n + Len(p) /\ shown'[n + k] = x
          BY <1>6, <3>1
        <4> QED BY <4>1, <4>2
      <3>2. phase' = "finished" => \E i \in 1 .. Len(shown') : shown'[i] = x
        BY <1>2, <2>4, <3>1 DEF IsPage
      <3>3. phase' = "walking" => \/ Behind(walk.sort, x, cursor'.item)
                                 \/ \E i \in 1 .. Len(shown') : shown'[i] = x
        BY <1>1, <1>2, <2>4, <3>1 DEF IsPage
      <3> QED BY <2>1, <2>2, <3>2, <3>3 DEF Shows
    <2>5. CASE x \notin Wanted(req, cursor)
      <3>1. cursor # NoCursor /\ ~Behind(walk.sort, x, cursor.item)
        BY <1>1, <2>3, <2>5 DEF Wanted
      <3>2. PICK i \in 1 .. n : shown[i] = x
        BY <1>3, <1>5, <2>1, <3>1 DEF NothingSkipped, Shows
      <3>3. i \in 1 .. Len(shown') /\ shown'[i] = x
        BY <1>4, <1>5, <1>6, <3>2
      <3> QED BY <2>2, <3>3 DEF Shows
    <2> QED BY <2>4, <2>5
  <1> QED BY <1>9, <1>10, <1>11, <1>12, <1>13, <1>14

LEMMA RejectKeeps ==
  ASSUME WalkInvariant, NEW req, Reject(req)
  PROVE  WalkInvariant'
  <1> USE DEF WalkInvariant
  <1>1. phase' = "rejected" /\ UNCHANGED <<table, walk, cursor, shown, swaps, touched>>
    BY DEF Reject
  <1>2. TypeOK'
    BY <1>1 DEF TypeOK
  <1>3. AtCursor' /\ InOrder' /\ InFilter'
    BY <1>1 DEF AtCursor, InOrder, InFilter
  <1>4. Current' /\ NothingSkipped'
    BY <1>1 DEF Current, NothingSkipped, ItemOf, Matches
  <1> QED BY <1>2, <1>3, <1>4

(* A rebuild changes one row and touches its title. *)
LEMMA SwapKeeps ==
  ASSUME WalkInvariant, Swap
  PROVE  WalkInvariant'
  <1> USE DEF WalkInvariant
  <1>1. PICK t \in Titles, row \in RowsFor(walk.sort) :
          /\ table' = [table EXCEPT ![t] = row]
          /\ touched' = touched \cup {t}
    BY DEF Swap
  <1>2. /\ phase = "walking" /\ swaps < MaxSwaps /\ swaps' = swaps + 1
        /\ UNCHANGED <<walk, cursor, shown, phase>>
    BY DEF Swap
  <1>3. row \in [votes : Column, rating : Column, year : Column]
    BY DiscoverAssumption DEF RowsFor, Column, Null
  <1>4. swaps' \in 0 .. MaxSwaps /\ swaps' # 0
    BY <1>2, DiscoverAssumption DEF TypeOK
  <1>5. TypeOK'
    BY <1>1, <1>2, <1>3, <1>4 DEF TypeOK
  <1>6. AtCursor' /\ InOrder' /\ InFilter'
    BY <1>2 DEF AtCursor, InOrder, InFilter
  <1>7. \A u \in Titles \ touched' : u \in Titles \ touched /\ table'[u] = table[u]
    BY <1>1 DEF TypeOK
  <1>8. \A u \in Titles \ touched' :
          /\ ItemOf(walk.sort, u)' = ItemOf(walk.sort, u)
          /\ Matches(walk, u)' <=> Matches(walk, u)
    BY <1>2, <1>7 DEF ItemOf, Matches
  <1>9. \A i \in 1 .. Len(shown) : Title(shown[i]) \in Titles
    BY ItemFields DEF TypeOK, Items, Title
  <1>10. Current'
    <2>1. ASSUME NEW i \in 1 .. Len(shown), NEW u, u = Title(shown[i]), u \notin touched'
          PROVE  shown[i] = ItemOf(walk.sort, u)' /\ Matches(walk, u)'
      <3>1. u \in Titles \ touched'
        BY <1>9, <2>1
      <3>2. shown[i] = ItemOf(walk.sort, u) /\ Matches(walk, u)
        BY <1>7, <2>1, <3>1 DEF Current
      <3> QED BY <1>8, <3>1, <3>2
    <2> QED BY <1>2, <1>4, <2>1 DEF Current, ItemOf, Matches, Primary
  <1>11. NothingSkipped'
    <2>1. ASSUME NEW u \in Titles \ touched', Matches(walk, u)'
          PROVE  /\ phase = "walking" /\ cursor # NoCursor =>
                      \/ Behind(walk.sort, ItemOf(walk.sort, u)', cursor.item)
                      \/ Shows(ItemOf(walk.sort, u)')
      BY <1>7, <1>8, <2>1 DEF NothingSkipped
    <2> QED BY <1>2, <2>1 DEF NothingSkipped, ItemOf, Matches, Shows
  <1> QED BY <1>5, <1>6, <1>10, <1>11

LEMMA InitEstablishes == Init => WalkInvariant
  <1> SUFFICES ASSUME Init PROVE WalkInvariant
    OBVIOUS
  <1>1. walk \in Requests /\ walk.sort \in Sorts
    BY DEF Init, Requests
  <1>2. RowsFor(walk.sort) \subseteq [votes : Column, rating : Column, year : Column]
    BY DiscoverAssumption DEF RowsFor, Column, Null
  <1>3. TypeOK
    <2>1. table \in [Titles -> [votes : Column, rating : Column, year : Column]]
      BY <1>2 DEF Init
    <2>2. shown \in Seq(Titles \X Column \X Column)
      BY EmptySeq DEF Init
    <2>3. swaps \in 0 .. MaxSwaps
      BY DiscoverAssumption DEF Init
    <2> QED BY <1>1, <2>1, <2>2, <2>3 DEF Init, TypeOK
  <1>4. AtCursor /\ NothingSkipped
    BY DEF Init, AtCursor, NothingSkipped
  <1>5. InOrder /\ InFilter /\ Current
    <2>1. 1 .. Len(shown) = {}
      BY EmptySeq DEF Init
    <2> QED BY <2>1 DEF Init, InOrder, InFilter, Current
  <1> QED BY <1>3, <1>4, <1>5 DEF WalkInvariant

LEMMA NextKeeps == WalkInvariant /\ [Next]_vars => WalkInvariant'
  <1> SUFFICES ASSUME WalkInvariant, [Next]_vars
               PROVE  WalkInvariant'
    OBVIOUS
  <1>1. ASSUME NEW req \in Sent, Page(req)
        PROVE  WalkInvariant'
    BY <1>1, PageKeeps
  <1>2. ASSUME NEW req \in Sent, Reject(req)
        PROVE  WalkInvariant'
    BY <1>2, RejectKeeps
  <1>3. CASE Swap
    BY <1>3, SwapKeeps
  <1>4. CASE UNCHANGED vars
    BY <1>4 DEF vars, WalkInvariant, TypeOK, AtCursor, InOrder, InFilter, Current,
                NothingSkipped, Shows, ItemOf, Matches, Primary
  <1> QED BY <1>1, <1>2, <1>3, <1>4 DEF Next

(* The inductive invariant: what was shown is in strict order, fits the    *)
(* walk's filters, and up to the cursor no untouched title is left out.    *)
THEOREM WalkInvariantHolds == Spec => []WalkInvariant
  BY InitEstablishes, NextKeeps, PTL DEF Spec

(* Types; in particular a cursor carries no NULL in the keys of its sort.  *)
THEOREM TypesHold == Spec => []TypeOK
  <1>1. WalkInvariant => TypeOK
    BY DEF WalkInvariant
  <1> QED BY <1>1, WalkInvariantHolds, PTL

(* Across pages and rebuilds the items come in strict order, so the walk   *)
(* never turns back; only a title whose row a rebuild changed can come     *)
(* again.                                                                  *)
THEOREM WalkIsOrdered == Spec => []StrictOrder
  <1>1. WalkInvariant => StrictOrder
    <2> SUFFICES ASSUME WalkInvariant, NEW i \in DOMAIN shown, NEW j \in DOMAIN shown, i < j
                 PROVE  /\ Before(walk.sort, shown[i], shown[j])
                        /\ Title(shown[i]) = Title(shown[j]) => Title(shown[i]) \in touched
      BY DEF StrictOrder
    <2>1. /\ shown \in Seq(Items) /\ DOMAIN shown = 1 .. Len(shown)
          /\ i \in 1 .. Len(shown) /\ j \in 1 .. Len(shown)
      BY DEF WalkInvariant, TypeOK, Items
    <2>2. Before(walk.sort, shown[i], shown[j])
      BY <2>1 DEF WalkInvariant, InOrder
    <2>3. ASSUME Title(shown[i]) = Title(shown[j]), Title(shown[i]) \notin touched
          PROVE  FALSE
      <3>1. shown[i] = shown[j]
        BY <2>1, <2>3 DEF WalkInvariant, Current
      <3>2. shown[j] \in Items
        BY <2>1
      <3> QED BY <2>2, <3>1, <3>2, StrictTotalOrder
    <2> QED BY <2>2, <2>3
  <1> QED BY <1>1, WalkInvariantHolds, PTL

(* Every response shows the next rows of the listing the walk began with,  *)
(* and ends the walk exactly with its last row: no cursor is honoured with *)
(* another sort or other filters.                                          *)
THEOREM OneListingHolds == Spec => OneListing
  <1> DEFINE Continues ==
        LET rest == Listing(walk, cursor)
        IN  \E n \in 0 .. Len(rest) :
              /\ shown' = shown \o SubSeq(rest, 1, n)
              /\ phase' = "finished" <=> n = Len(rest)
  <1>1. WalkInvariant /\ [Next]_vars => [Answered => Continues]_vars
    <2> SUFFICES ASSUME WalkInvariant, [Next]_vars, Answered
                 PROVE  Continues
      OBVIOUS
    <2>1. ASSUME NEW req \in Sent, Page(req)
          PROVE  Continues
      <3>1. req \in Requests /\ Listing(req, cursor) = Listing(walk, cursor)
        BY <2>1, SameWalk
      <3>2. PICK p : IsPage(req, p)
        BY <2>1, <3>1, PageIsPage DEF WalkInvariant
      <3>3. /\ shown' = shown \o p
            /\ IsPrefix(p, Listing(walk, cursor), phase' = "finished")
        BY <3>1, <3>2 DEF IsPage
      <3> QED BY <3>3 DEF IsPrefix
    <2>2. ASSUME NEW req \in Sent, Reject(req)
          PROVE  FALSE
      BY <2>2 DEF Reject, Answered
    <2>3. CASE Swap
      BY <2>3 DEF Swap, Answered
    <2>4. CASE UNCHANGED vars
      BY <2>4 DEF vars, Answered
    <2> QED BY <2>1, <2>2, <2>3, <2>4 DEF Next
  <1> HIDE DEF Continues
  <1>2. Spec => [][Answered => Continues]_vars
    BY <1>1, WalkInvariantHolds, PTL DEF Spec
  <1> QED BY <1>2 DEF OneListing, Continues

(* A finished walk of a table no rebuild touched has shown exactly the     *)
(* listing, whatever ties and NULLs the sort columns hold.                 *)
THEOREM WalkShowsListing == Spec => []WalkIsListing
  <1>1. WalkInvariant => WalkIsListing
    <2> SUFFICES ASSUME WalkInvariant, phase = "finished", swaps = 0
                 PROVE  shown = Listing(walk, NoCursor)
      BY DEF WalkIsListing
    <2> USE DEF WalkInvariant
    <2> DEFINE W == Wanted(walk, NoCursor)
    <2>1. touched = {} /\ walk \in Requests /\ shown \in Seq(Items)
      BY DEF Current, TypeOK, Items
    <2>2. W \in SUBSET Items /\ IsFiniteSet(W)
      BY <2>1, WantedItems
    <2>3. W = ItemsFor(walk)
      BY DEF Wanted
    <2>4. ASSUME NEW i \in 1 .. Len(shown)
          PROVE  shown[i] \in W
      <3>1. PICK t : t = Title(shown[i])
        OBVIOUS
      <3>2. t \in Titles
        BY <2>1, <3>1, ItemFields DEF Title
      <3>3. shown[i] = ItemOf(walk.sort, t) /\ Matches(walk, t)
        BY <2>1, <3>1 DEF Current
      <3> QED BY <2>3, <3>2, <3>3 DEF ItemsFor
    <2>5. ASSUME NEW x \in W
          PROVE  \E i \in 1 .. Len(shown) : shown[i] = x
      <3>1. PICK t \in Titles : Matches(walk, t) /\ x = ItemOf(walk.sort, t)
        BY <2>3 DEF ItemsFor
      <3> QED BY <2>1, <3>1 DEF NothingSkipped, Shows
    <2>6. \A i, j \in 1 .. Len(shown) : i < j => Before(walk.sort, shown[i], shown[j])
      BY DEF InOrder
    <2> HIDE DEF W
    <2>7. shown = Ordered(walk.sort, W)
      BY <2>1, <2>2, <2>4, <2>5, <2>6, SortedIsOrdered
    <2> QED BY <2>7, ListingOrders DEF W
  <1> QED BY <1>1, WalkInvariantHolds, PTL

(* A matching title no rebuild touched is in a finished walk exactly once. *)
THEOREM StableTitlesShownOnce == Spec => []StableShownOnce
  <1>1. WalkInvariant => StableShownOnce
    <2> SUFFICES ASSUME WalkInvariant, phase = "finished",
                        NEW t \in Titles \ touched, Matches(walk, t)
                 PROVE  Cardinality({i \in DOMAIN shown : Title(shown[i]) = t}) = 1
      BY DEF StableShownOnce
    <2> USE DEF WalkInvariant
    <2>1. walk.sort \in Sorts /\ shown \in Seq(Items) /\ DOMAIN shown = 1 .. Len(shown)
      BY DEF TypeOK, Items, Requests
    <2>2. PICK i \in 1 .. Len(shown) : shown[i] = ItemOf(walk.sort, t)
      BY DEF NothingSkipped, Shows
    <2>3. Title(shown[i]) = t
      BY <2>1, <2>2, ItemIsItem
    <2>4. ASSUME NEW j \in 1 .. Len(shown), Title(shown[j]) = t
          PROVE  j = i
      <3>1. shown[j] = shown[i]
        BY <2>2, <2>4 DEF Current
      <3>2. shown[i] \in Items /\ ~Before(walk.sort, shown[i], shown[i])
        BY <2>1, StrictTotalOrder
      <3>3. ~(i < j) /\ ~(j < i)
        BY <3>1, <3>2 DEF InOrder
      <3> QED BY <2>1, <3>3
    <2>5. {k \in DOMAIN shown : Title(shown[k]) = t} = {i}
      BY <2>1, <2>3, <2>4
    <2> QED BY <2>5, FS_Singleton
  <1> QED BY <1>1, WalkInvariantHolds, PTL
===========================================================================

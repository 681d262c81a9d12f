------------------------------ MODULE Discover ------------------------------
(***************************************************************************)
(* Keyset pagination of /discover: Discover in api/internal/discover/      *)
(* service.go and List in repository.go.  A client walks the pages of one  *)
(* listing with the cursors it is given, while rebuilds may replace the    *)
(* table between two requests.                                             *)
(*                                                                         *)
(* A row keeps the columns the listing sorts and filters on, Null where    *)
(* the column is NULL.  Rows of another type_group are like rows without   *)
(* votes: no listing shows them.                                           *)
(***************************************************************************)
EXTENDS Naturals, Sequences, FiniteSets

CONSTANTS
  NTitles,    \* bound: titles are 1 .. NTitles, in tconst order
  MaxValue,   \* bound: sort columns hold 1 .. MaxValue or Null
  MaxLimit,   \* bound: page sizes are 1 .. MaxLimit
  MaxSwaps    \* bound: rebuilds during one walk

ASSUME DiscoverAssumption ==
  {NTitles, MaxValue, MaxLimit} \subseteq Nat \ {0} /\ MaxSwaps \in Nat

Titles == 1 .. NTitles
Null == 0                       \* no column holds 0 in the model
Column == 0 .. MaxValue
Sorts == {"popular", "top_rated", "newest", "oldest"}

(* Operators whose name ends in _Bug are variants of the definition they   *)
(* precede, each the way one slip in the code would change it.  No action  *)
(* uses them: they show which property notices the slip.                   *)

VARIABLES
  table,     \* discover_core, by title
  walk,      \* the request the walk began with: sort, minVotes, limit
  cursor,    \* meta.nextCursor of the last response, or NoCursor
  shown,     \* items the client has received, in order
  phase,     \* "walking", "finished" or "rejected"
  swaps,     \* rebuilds so far
  touched    \* history: titles whose row a rebuild changed

vars == <<table, walk, cursor, shown, phase, swaps, touched>>

Requests == [sort : Sorts, minVotes : Column, limit : 1 .. MaxLimit]
NoCursor == [fingerprint |-> <<>>, item |-> <<>>]

(* filterFingerprint: sort and filters, not the page size *)
Fingerprint(req) == <<req.sort, req.minVotes>>

(* An item is <<title, primary sort key, votes>>: what a cursor carries. *)
Primary(sort, row) ==
  CASE sort = "popular" -> Null
    [] sort = "top_rated" -> row.rating
    [] OTHER -> row.year
ItemOf(sort, t) == <<t, Primary(sort, table[t]), table[t].votes>>
Title(item) == item[1]

Matches_Bug(req, t) ==   \* the primary sort column may be NULL
  /\ table[t].votes # Null
  /\ req.minVotes # Null => table[t].votes >= req.minVotes

(* The NOT NULL guards and the filter of the WHERE clause *)
Matches(req, t) ==
  /\ table[t].votes # Null
  /\ req.sort # "popular" => Primary(req.sort, table[t]) # Null
  /\ req.minVotes # Null => table[t].votes >= req.minVotes

(* ORDER BY: does item a come before item b? *)
DescendingPair(a, b) == \* num_votes DESC, tconst DESC
  a[3] > b[3] \/ (a[3] = b[3] /\ a[1] > b[1])
Before(sort, a, b) ==
  \/ IF sort = "oldest" THEN a[2] < b[2] ELSE a[2] > b[2]
  \/ a[2] = b[2] /\ DescendingPair(a, b)

(* The row comparison with the cursor is reflexive. *)
Behind_Bug(sort, item, cur) ==
  \/ IF sort = "oldest" THEN item[2] > cur[2] ELSE item[2] < cur[2]
  \/ item[2] = cur[2] /\ (item[3] < cur[3] \/ (item[3] = cur[3] /\ item[1] <= cur[1]))

(* Ties on the sort columns are not broken by tconst. *)
Behind_TieBug(sort, item, cur) ==
  \/ IF sort = "oldest" THEN item[2] > cur[2] ELSE item[2] < cur[2]
  \/ item[2] = cur[2] /\ item[3] < cur[3]

(* The keyset condition of the WHERE clause: rows behind the cursor *)
Behind(sort, item, cur) ==
  \/ IF sort = "oldest" THEN item[2] > cur[2] ELSE item[2] < cur[2]
  \/ item[2] = cur[2] /\ item[3] < cur[3]
  \/ item[2] = cur[2] /\ item[3] = cur[3] /\ item[1] < cur[1]

(* The k-th row is the one with k - 1 rows before it. *)
Ordered(sort, items) ==
  [k \in 1 .. Cardinality(items) |->
     CHOOSE item \in items :
       Cardinality({other \in items : Before(sort, other, item)}) = k - 1]

Listing(req, cur) ==
  LET items == {ItemOf(req.sort, t) : t \in {u \in Titles : Matches(req, u)}}
      wanted == IF cur = NoCursor THEN items
                ELSE {item \in items : Behind(req.sort, item, cur.item)}
  IN  Ordered(req.sort, wanted)

(* List fetches one row more than the page to learn whether there are more. *)
Fetched(req, cur) ==
  LET all == Listing(req, cur)
  IN  SubSeq(all, 1, IF Len(all) > req.limit + 1 THEN req.limit + 1 ELSE Len(all))

(* Tables whose rows vary only in the columns the sort reads *)
RowsFor(sort) ==
  [votes : Column,
   rating : IF sort = "top_rated" THEN Column ELSE {Null},
   year : IF sort \in {"newest", "oldest"} THEN Column ELSE {Null}]

Init ==
  /\ walk \in Requests
  /\ table \in [Titles -> RowsFor(walk.sort)]
  /\ cursor = NoCursor
  /\ shown = <<>>
  /\ phase = "walking"
  /\ swaps = 0
  /\ touched = {}

Accepts_Bug(req) ==   \* the filters in the fingerprint are not compared
  cursor # NoCursor => cursor.fingerprint[1] = req.sort

Accepts_SortBug(req) ==   \* the sort of the cursor is not compared
  cursor # NoCursor => cursor.fingerprint[2] = req.minVotes

(* A cursor is refused unless it was issued for the same sort and filters. *)
Accepts(req) == cursor # NoCursor => cursor.fingerprint = Fingerprint(req)

NextCursor_Bug(req, rows) ==   \* the cursor points at the extra row
  [fingerprint |-> Fingerprint(req), item |-> rows[req.limit + 1]]

(* The cursor of the last row of the page *)
NextCursor(req, rows) == [fingerprint |-> Fingerprint(req), item |-> rows[req.limit]]

(* One request: the cursor at hand, the walk's request or another one *)
Page(req) ==
  /\ phase = "walking"
  /\ Accepts(req)
  /\ LET rows == Fetched(req, cursor)
         hasMore == Len(rows) > req.limit
     IN  /\ shown' = shown \o (IF hasMore THEN SubSeq(rows, 1, req.limit) ELSE rows)
         /\ cursor' = IF hasMore THEN NextCursor(req, rows) ELSE NoCursor
         /\ phase' = IF hasMore THEN "walking" ELSE "finished"
  /\ UNCHANGED <<table, walk, swaps, touched>>

(* ValidationError: nothing is listed *)
Reject(req) ==
  /\ phase = "walking"
  /\ ~Accepts(req)
  /\ phase' = "rejected"
  /\ UNCHANGED <<table, walk, cursor, shown, swaps, touched>>

(* The client begins with its own request; later it may send the cursor    *)
(* with other filters or another page size.                                *)
Sent == {req \in Requests : cursor # NoCursor \/ req = walk}

(* A rebuild swaps in a table where one title's row is different. *)
Swap ==
  /\ phase = "walking"
  /\ swaps < MaxSwaps
  /\ \E t \in Titles : \E row \in RowsFor(walk.sort) :
       /\ table[t] # row
       /\ table' = [table EXCEPT ![t] = row]
       /\ touched' = touched \cup {t}
  /\ swaps' = swaps + 1
  /\ UNCHANGED <<walk, cursor, shown, phase>>

Next ==
  \/ \E req \in Sent : Page(req)
  \/ \E req \in Sent : Reject(req)
  \/ Swap

Spec == Init /\ [][Next]_vars

---------------------------------------------------------------------------
(* Types; a cursor always carries the keys of its sort, which List asserts *)
(* ("discover cursor invariant: missing votes key").                       *)
TypeOK ==
  /\ walk \in Requests
  /\ table \in [Titles -> [votes : Column, rating : Column, year : Column]]
  /\ phase \in {"walking", "finished", "rejected"}
  /\ shown \in Seq(Titles \X Column \X Column)
  /\ swaps \in 0 .. MaxSwaps
  /\ touched \subseteq Titles
  /\ cursor # NoCursor =>
       /\ cursor.item \in Titles \X Column \X (Column \ {Null})
       /\ walk.sort # "popular" => cursor.item[2] # Null

(* Walking a table that no rebuild touched shows the whole listing, every  *)
(* row once and in order, whatever the ties and NULLs in the sort columns. *)
WalkIsListing ==
  phase = "finished" /\ swaps = 0 => shown = Listing(walk, NoCursor)

(* Even across rebuilds the items come in strict order, so the walk never  *)
(* turns back, and a title comes a second time only when a rebuild changed *)
(* its row (its votes fell, say, and it moved behind the cursor).          *)
StrictOrder ==
  \A i, j \in DOMAIN shown : i < j =>
    /\ Before(walk.sort, shown[i], shown[j])
    /\ Title(shown[i]) = Title(shown[j]) => Title(shown[i]) \in touched

(* A matching title whose row no rebuild changed is in a finished walk     *)
(* exactly once, whatever happened to the rows around it.                  *)
StableShownOnce ==
  phase = "finished" =>
    \A t \in Titles \ touched :
      Matches(walk, t) => Cardinality({i \in DOMAIN shown : Title(shown[i]) = t}) = 1

(* Every response continues the listing the walk began with, whichever     *)
(* request carried the cursor: it shows the next rows of the first         *)
(* request's sort and filters, and says there are no more exactly when it  *)
(* has shown the last.  A cursor taken to another sort, or to looser or    *)
(* stricter filters, would show others or stop elsewhere.                  *)
Answered == shown' # shown \/ (phase' = "finished" /\ phase # "finished")
OneListing ==
  [][Answered =>
       LET rest == Listing(walk, cursor)
       IN  \E n \in 0 .. Len(rest) :
             /\ shown' = shown \o SubSeq(rest, 1, n)
             /\ phase' = "finished" <=> n = Len(rest)]_vars
=============================================================================

------------------------- MODULE EtlPipeline_proofs -------------------------
(* Theorems about EtlPipeline, for any runs, titles, versions and sizes:   *)
(* what holds even when runs overlap, what the advisory lock adds, and     *)
(* which lock timeouts let a finished build be published.                  *)
EXTENDS EtlPipeline, NaturalSets

---------------------------------------------------------------------------
(* The inductive invariants *)

(* What a run's own variables hold at each step *)
Cursors ==
  \A r \in Runs :
    /\ pc[r] \in {"idle", "download", "staging"} => loaded[r] = 0
    /\ pc[r] \notin {"build", "copy", "discover", "swap", "cleanup"} => last[r] = 0
    /\ pc[r] = "copy" => page[r] # {}
    /\ pc[r] \notin {"idle", "download"} => version[r] \in 1 .. upstream

(* No two rows about one title *)
Single(rows) == \A a, b \in rows : TitleOf(a) = TitleOf(b) => a = b

Singles ==
  /\ IsFiniteSet(staging)
  /\ \A r \in Runs : Single(batch[r])
  /\ Single(next.titles)
  /\ Single(live.titles)

(* With or without the lock *)
PipelineInvariant == TypeOK /\ Cursors /\ SearchMirrorsTitles /\ Singles

(* The rows run r loads about the titles in T from version v, and what     *)
(* readers see of them                                                     *)
RowsOf(r, v, T) == {<<t, v, r>> : t \in T}
ImageOf(v, T) == {<<t, v>> : t \in T}
UpTo(S, n) == {t \in S : t <= n}

Alone == \A r \in Runs : pc[r] # "idle" => holder = r

(* The staging tables hold what the run has read. *)
Loading(r) ==
  /\ pc[r] = "load" =>
       staging = RowsOf(r, version[r], UpTo(Dataset(version[r]), loaded[r]))
  /\ pc[r] \in {"filter", "createNext", "build", "copy"} =>
       staging = RowsOf(r, version[r], Dataset(version[r]))
  /\ pc[r] \in {"createNext", "build", "copy"} => filter = Kept(Dataset(version[r]))

(* The next tables hold what the run has built. *)
Building(r) ==
  /\ pc[r] \in {"build", "copy"} =>
       Content(next.titles) = ImageOf(version[r], UpTo(Kept(Dataset(version[r])), last[r]))
  /\ pc[r] = "copy" =>
       /\ page[r] = Page(r)
       /\ Content(batch[r]) = ImageOf(version[r], page[r])
  /\ pc[r] \in {"discover", "swap"} =>
       Content(next.titles) = ImageOf(version[r], Kept(Dataset(version[r])))
  /\ pc[r] = "swap" => next.discover = NotEpisodes(next.titles)

(* Readers see one complete version, never newer than what an active run   *)
(* has downloaded.                                                         *)
Published ==
  \E v \in 0 .. upstream :
    /\ LiveContent = Image(v)
    /\ \A r \in Runs : pc[r] \notin {"idle", "download"} => v <= version[r]

LockInvariant ==
  Alone /\ (\A r \in Runs : Loading(r) /\ Building(r)) /\ Published

UnderLock == Locked => LockInvariant

---------------------------------------------------------------------------
(* Pages of titles *)

LEMMA TitleSets ==
  ASSUME NEW S \in SUBSET Titles
  PROVE  S \in SUBSET Nat /\ IsFiniteSet(S) /\ \A t \in S : t \in 1 .. NTitles
  <1>1. NTitles \in Nat
    BY SizesAssumption
  <1>2. IsFiniteSet(1 .. NTitles)
    BY <1>1, FS_Interval
  <1>3. S \in SUBSET (1 .. NTitles)
    BY DEF Titles
  <1>4. IsFiniteSet(S)
    BY <1>2, <1>3, FS_Subset
  <1>5. \A t \in S : t \in 1 .. NTitles /\ t \in Nat
    BY <1>1, <1>3
  <1> QED BY <1>4, <1>5

LEMMA MaxIsGreatest ==
  ASSUME NEW S \in SUBSET Nat, S # {}, NEW b \in Nat, \A x \in S : x <= b
  PROVE  Max(S) \in S /\ \A y \in S : y <= Max(S)
  <1>1. PICK m \in S : \A y \in S : y <= m
    BY HasGreatest
  <1>2. m \in S /\ \A y \in S : m >= y
    BY <1>1
  <1>3. Max(S) \in S /\ \A y \in S : Max(S) >= y
    BY <1>2 DEF Max
  <1> QED BY <1>3

(* A page has no gaps: what comes before one of its titles is in it.       *)
LEMMA PageHasNoGaps ==
  ASSUME NEW S \in SUBSET Titles, NEW n \in Nat, NEW t \in FirstOf(S, n), NEW u \in S,
         u <= t
  PROVE  u \in FirstOf(S, n)
  <1>1. S \in SUBSET Nat /\ IsFiniteSet(S) /\ t \in S /\ u \in Nat /\ t \in Nat
    BY TitleSets DEF FirstOf
  <1> DEFINE Low(k) == {x \in S : x <= k}
  <1>2. Cardinality(Low(u)) <= Cardinality(Low(t))
    BY <1>1, UpToMonotone
  <1>3. Cardinality(Low(t)) <= n
    BY DEF FirstOf
  <1>4. Cardinality(Low(u)) \in Nat /\ Cardinality(Low(t)) \in Nat
    <2>1. Low(u) \in SUBSET S /\ Low(t) \in SUBSET S
      OBVIOUS
    <2> QED BY <1>1, <2>1, FS_Subset, FS_CardinalityType
  <1> HIDE DEF Low
  <1>5. Cardinality(Low(u)) <= n
    BY <1>2, <1>3, <1>4
  <1> QED BY <1>5 DEF Low, FirstOf

(* It is empty only when nothing is left. *)
LEMMA PageNotEmpty ==
  ASSUME NEW S \in SUBSET Titles, S # {}, NEW n \in Nat \ {0}
  PROVE  FirstOf(S, n) # {}
  <1>1. S \in SUBSET Nat /\ IsFiniteSet(S)
    BY TitleSets
  <1>2. PICK x \in S : \A y \in S : x <= y
    BY <1>1, HasLeast
  <1>3. {y \in S : y <= x} = {x}
    <2>1. x \in Nat /\ \A y \in S : y \in Nat
      BY <1>1
    <2>2. \A y \in S : y <= x <=> y = x
      BY <1>2, <2>1
    <2> QED BY <2>2
  <1>4. Cardinality({y \in S : y <= x}) <= n
    BY <1>3, FS_Singleton
  <1> QED BY <1>4 DEF FirstOf

(* It is the rest when that is no more than a page. *)
LEMMA LastPage ==
  ASSUME NEW S \in SUBSET Titles, NEW n \in Nat, Cardinality(S) <= n
  PROVE  FirstOf(S, n) = S
  <1>1. S \in SUBSET Nat /\ IsFiniteSet(S) /\ Cardinality(S) \in Nat
    BY TitleSets, FS_CardinalityType
  <1>2. ASSUME NEW t \in S
        PROVE  Cardinality({u \in S : u <= t}) <= n
    <2> DEFINE Low == {u \in S : u <= t}
    <2>1. Low \in SUBSET S
      OBVIOUS
    <2>2. Cardinality(Low) <= Cardinality(S) /\ Cardinality(Low) \in Nat
      BY <1>1, <2>1, FS_Subset, FS_CardinalityType
    <2> HIDE DEF Low
    <2>3. Cardinality(Low) <= n
      BY <1>1, <2>2
    <2> QED BY <2>3 DEF Low
  <1> QED BY <1>2 DEF FirstOf

(* Moving the cursor to the end of a page covers the page and what was     *)
(* covered before: nothing is skipped and nothing comes again.             *)
PageAfter(D, c, n) == FirstOf({t \in D : t > c}, n)

LEMMA CursorCoversPage ==
  ASSUME NEW D \in SUBSET Titles, NEW c \in Nat, NEW n \in Nat,
         NEW m \in PageAfter(D, c, n) \cup {c},
         \A y \in PageAfter(D, c, n) \cup {c} : y <= m
  PROVE  UpTo(D, m) = UpTo(D, c) \cup PageAfter(D, c, n)
  <1> DEFINE Rest == {t \in D : t > c}
             P == PageAfter(D, c, n)
  <1>1. P = FirstOf(Rest, n)
    BY DEF PageAfter
  <1>2. Rest \in SUBSET Titles /\ P \subseteq Rest /\ D \subseteq Nat
    BY <1>1, TitleSets DEF FirstOf
  <1> HIDE DEF P
  <1>3. m \in Nat /\ m \in P \cup {c}
    BY <1>2 DEF P
  <1>4. ASSUME NEW t \in D, t <= m, ~(t <= c)
        PROVE  t \in P
    <2>1. t \in Rest /\ m \in P
      BY <1>2, <1>3, <1>4
    <2> HIDE DEF Rest
    <2> QED BY <1>1, <1>2, <1>4, <2>1, PageHasNoGaps
  <1>5. ASSUME NEW t \in D, t <= c
        PROVE  t <= m
    <2>1. c <= m
      BY DEF P
    <2> QED BY <1>2, <1>3, <1>5, <2>1
  <1>6. \A t \in P : t \in D /\ t <= m
    BY <1>2 DEF P
  <1>7. UpTo(D, m) = UpTo(D, c) \cup P
    BY <1>4, <1>5, <1>6 DEF UpTo
  <1> QED BY <1>7 DEF P

---------------------------------------------------------------------------
(* With or without the lock: types, cursors, mirrors, single rows          *)

(* A run that gives up leaves the tables as they are. *)
LEMMA EndKeeps ==
  ASSUME PipelineInvariant, NEW r \in Runs, End(r),
         UNCHANGED <<upstream, calm, staging, filter, next, live>>
  PROVE  PipelineInvariant'
  <1> USE DEF PipelineInvariant, End, Goto
  <1>1. TypeOK'
    BY SizesAssumption DEF TypeOK, Stages, Row
  <1>2. Cursors'
    BY DEF Cursors, TypeOK
  <1>3. SearchMirrorsTitles'
    BY DEF SearchMirrorsTitles
  <1>4. Singles'
    BY DEF Singles, Single, TypeOK
  <1> QED BY <1>1, <1>2, <1>3, <1>4

LEMMA StartKeeps ==
  ASSUME PipelineInvariant, NEW r \in Runs, Start(r)
  PROVE  PipelineInvariant'
  <1> USE DEF PipelineInvariant, Start, Goto, locals
  <1>1. TypeOK'
    BY DEF TypeOK, Stages
  <1>2. Cursors'
    BY DEF Cursors, TypeOK
  <1>3. SearchMirrorsTitles' /\ Singles'
    BY DEF SearchMirrorsTitles, Singles, Single
  <1> QED BY <1>1, <1>2, <1>3

LEMMA DownloadKeeps ==
  ASSUME PipelineInvariant, NEW r \in Runs, Download(r)
  PROVE  PipelineInvariant'
  <1> USE DEF PipelineInvariant, Download, Goto
  <1>1. upstream \in 1 .. MaxVersion /\ MaxVersion \in Nat
    BY SizesAssumption DEF TypeOK, Versions
  <1>2. TypeOK'
    BY <1>1 DEF TypeOK, Stages
  <1>3. Cursors'
    BY <1>1 DEF Cursors, TypeOK
  <1>4. SearchMirrorsTitles' /\ Singles'
    BY DEF SearchMirrorsTitles, Singles, Single
  <1> QED BY <1>2, <1>3, <1>4

LEMMA CreateStagingKeeps ==
  ASSUME PipelineInvariant, NEW r \in Runs, CreateStaging(r)
  PROVE  PipelineInvariant'
  <1> USE DEF PipelineInvariant, CreateStaging, Goto, locals
  <1>1. TypeOK'
    BY DEF TypeOK, Stages
  <1>2. Cursors'
    BY DEF Cursors, TypeOK
  <1>3. SearchMirrorsTitles' /\ Singles'
    BY FS_EmptySet DEF SearchMirrorsTitles, Singles, Single
  <1> QED BY <1>1, <1>2, <1>3

(* A batch of lines of a version that exists *)
LEMMA BatchOfLines ==
  ASSUME PipelineInvariant, NEW r \in Runs, NEW n \in Nat
  PROVE  /\ Unread(r) \in SUBSET Titles
         /\ FirstOf(Unread(r), n) \in SUBSET Titles
         /\ Max(FirstOf(Unread(r), n) \cup {loaded[r]}) \in FirstOf(Unread(r), n) \cup {loaded[r]}
         /\ \A t \in FirstOf(Unread(r), n) \cup {loaded[r]} :
              t <= Max(FirstOf(Unread(r), n) \cup {loaded[r]})
         /\ Max(FirstOf(Unread(r), n) \cup {loaded[r]}) \in 0 .. NTitles
  <1> DEFINE lines == FirstOf(Unread(r), n)
             S == lines \cup {loaded[r]}
  <1>1. Unread(r) \in SUBSET Titles /\ lines \in SUBSET Titles
    BY DEF Unread, Dataset, FirstOf
  <1>2. loaded[r] \in 0 .. NTitles /\ NTitles \in Nat
    BY SizesAssumption DEF PipelineInvariant, TypeOK
  <1> HIDE DEF lines
  <1>3. \A t \in S : t \in 0 .. NTitles
    BY <1>1, <1>2, TitleSets
  <1>4. S \in SUBSET Nat /\ S # {} /\ \A t \in S : t <= NTitles
    BY <1>2, <1>3
  <1> HIDE DEF S
  <1>5. Max(S) \in S /\ \A y \in S : y <= Max(S)
    BY <1>2, <1>4, MaxIsGreatest
  <1> QED BY <1>1, <1>3, <1>5 DEF lines, S

LEMMA LoadBatchKeeps ==
  ASSUME PipelineInvariant, NEW r \in Runs, LoadBatch(r)
  PROVE  PipelineInvariant'
  <1> DEFINE lines == FirstOf(Unread(r), LoadBatchSize)
             rows == {<<t, version[r], r>> : t \in lines}
  <1>1. /\ staging' = staging \cup rows
        /\ loaded' = [loaded EXCEPT ![r] = Max(lines \cup {loaded[r]})]
        /\ pc' = [pc EXCEPT ![r] = IF Cardinality(Unread(r)) < LoadBatchSize
                                   THEN "filter" ELSE "load"]
        /\ pc[r] = "load"
    BY DEF LoadBatch, Goto
  <1>2. lines \in SUBSET Titles /\ Max(lines \cup {loaded[r]}) \in 0 .. NTitles
    BY BatchOfLines, SizesAssumption
  <1> HIDE DEF lines
  <1>3. version[r] \in Versions
    BY <1>1, SizesAssumption DEF PipelineInvariant, Cursors, TypeOK, Versions
  <1>4. rows \subseteq Row
    BY <1>2, <1>3 DEF Row
  <1>5. IsFiniteSet(rows)
    <2> DEFINE load == [t \in lines |-> <<t, version[r], r>>]
    <2>1. load \in Surjection(lines, rows)
      BY DEF Surjection
    <2>2. IsFiniteSet(lines)
      BY <1>2, TitleSets
    <2> HIDE DEF load, rows
    <2> QED BY <2>1, <2>2, FS_Surjection
  <1> HIDE DEF rows
  <1> USE DEF PipelineInvariant
  <1>6. TypeOK'
    <2>1. staging' \subseteq Row
      BY <1>1, <1>4 DEF TypeOK
    <2>2. loaded' \in [Runs -> 0 .. NTitles] /\ pc' \in [Runs -> Stages]
      BY <1>1, <1>2 DEF TypeOK, Stages
    <2> QED BY <2>1, <2>2 DEF TypeOK, LoadBatch
  <1>7. Cursors'
    BY <1>1 DEF Cursors, TypeOK, LoadBatch
  <1>8. SearchMirrorsTitles'
    BY DEF SearchMirrorsTitles, LoadBatch
  <1>9. Singles'
    <2>1. IsFiniteSet(staging')
      BY <1>1, <1>5, FS_Union DEF Singles
    <2>2. batch' = batch /\ next' = next /\ live' = live
      BY DEF LoadBatch
    <2> QED BY <2>1, <2>2 DEF Singles
  <1> QED BY <1>6, <1>7, <1>8, <1>9

LEMMA FilterTitlesKeeps ==
  ASSUME PipelineInvariant, NEW r \in Runs, FilterTitles(r)
  PROVE  PipelineInvariant'
  <1> USE DEF PipelineInvariant, FilterTitles, Goto, locals
  <1>1. TypeOK'
    <2>1. filter' \subseteq Titles
      BY DEF TypeOK, Kept, TitlesOf, TitleOf, Row
    <2> QED BY <2>1 DEF TypeOK, Stages
  <1>2. Cursors'
    BY DEF Cursors, TypeOK
  <1>3. SearchMirrorsTitles' /\ Singles'
    BY DEF SearchMirrorsTitles, Singles, Single
  <1> QED BY <1>1, <1>2, <1>3

LEMMA EmptyTables ==
  /\ Empty \in Tables /\ Absent \in Tables
  /\ Empty.search = NotEpisodes(Empty.titles) /\ Single(Empty.titles)
  /\ Absent.search = NotEpisodes(Absent.titles) /\ Single(Absent.titles)
  BY DEF Empty, Absent, Tables, NotEpisodes, Single

LEMMA CreateNextKeeps ==
  ASSUME PipelineInvariant, NEW r \in Runs, CreateNext(r)
  PROVE  PipelineInvariant'
  <1> USE DEF PipelineInvariant, CreateNext, Goto, locals
  <1>1. TypeOK'
    BY EmptyTables DEF TypeOK, Stages
  <1>2. Cursors'
    BY DEF Cursors, TypeOK
  <1>3. SearchMirrorsTitles'
    BY EmptyTables DEF SearchMirrorsTitles
  <1>4. Singles'
    BY EmptyTables DEF Singles
  <1> QED BY <1>1, <1>2, <1>3, <1>4

(* What fetchBatchData returns has one row per title: as many rows as      *)
(* titles leaves no title with two.                                        *)
LEMMA AsManyRowsAsTitles ==
  ASSUME NEW rows, IsFiniteSet(rows), Cardinality(rows) = Cardinality(TitlesOf(rows))
  PROVE  Single(rows)
  <1> DEFINE title == [row \in rows |-> TitleOf(row)]
  <1>1. title \in Surjection(rows, TitlesOf(rows))
    BY DEF Surjection, TitlesOf
  <1> HIDE DEF title
  <1>2. title \in Injection(rows, TitlesOf(rows))
    BY <1>1, FS_SurjSameCardinalityImpliesInj
  <1>3. \A a, b \in rows : title[a] = title[b] => a = b
    BY <1>2 DEF Injection, IsInjective
  <1> QED BY <1>3 DEF title, Single

(* And the other way round, for rows about titles *)
LEMMA OneRowEach ==
  ASSUME NEW rows \in SUBSET Row, Single(rows)
  PROVE  Cardinality(TitlesOf(rows)) = Cardinality(rows)
  <1> DEFINE title == [row \in rows |-> TitleOf(row)]
  <1>1. title \in Bijection(rows, TitlesOf(rows))
    <2>1. title \in [rows -> TitlesOf(rows)]
      BY DEF TitlesOf
    <2>2. \A t \in TitlesOf(rows) : \E row \in rows : title[row] = t
      BY DEF TitlesOf
    <2>3. \A a, b \in rows : title[a] = title[b] => a = b
      BY DEF Single
    <2> HIDE DEF title
    <2> QED BY <2>1, <2>2, <2>3 DEF Bijection, Injection, Surjection, IsInjective
  <1>2. TitlesOf(rows) \in SUBSET Titles
    BY DEF TitlesOf, TitleOf, Row
  <1>3. IsFiniteSet(TitlesOf(rows))
    BY <1>2, TitleSets
  <1> HIDE DEF title
  <1>4. title \in Injection(rows, TitlesOf(rows)) /\ title \in Surjection(rows, TitlesOf(rows))
    BY <1>1 DEF Bijection
  <1> QED BY <1>3, <1>4, FS_Injection

(* Rows about other titles join them. *)
LEMMA SingleUnion ==
  ASSUME NEW A, NEW B, Single(A), Single(B), TitlesOf(A) \cap TitlesOf(B) = {}
  PROVE  Single(A \cup B)
  <1> SUFFICES ASSUME NEW a \in A \cup B, NEW b \in A \cup B, TitleOf(a) = TitleOf(b)
               PROVE  a = b
    BY DEF Single
  <1>1. \A x \in A : TitleOf(x) \in TitlesOf(A)
    BY DEF TitlesOf
  <1>2. \A x \in B : TitleOf(x) \in TitlesOf(B)
    BY DEF TitlesOf
  <1> QED BY <1>1, <1>2 DEF Single

LEMMA FetchBatchKeeps ==
  ASSUME PipelineInvariant, NEW r \in Runs, FetchBatch(r)
  PROVE  PipelineInvariant'
  <1>1. PICK rows \in SUBSET {row \in staging : TitleOf(row) \in Page(r)} :
          /\ Cardinality(rows) = Cardinality(TitlesOf(rows))
          /\ batch' = [batch EXCEPT ![r] = rows]
    BY DEF FetchBatch
  <1>2. /\ page' = [page EXCEPT ![r] = Page(r)]
        /\ pc' = [pc EXCEPT ![r] = "copy"]
        /\ Page(r) # {}
        /\ UNCHANGED <<upstream, calm, holder, version, loaded, last, staging, filter,
                       next, live>>
        /\ pc[r] = "build"
    BY DEF FetchBatch, Goto
  <1>3. Page(r) \subseteq Titles
    BY DEF PipelineInvariant, TypeOK, Page, FirstOf
  <1>4. rows \in SUBSET staging
    OBVIOUS
  <1> USE DEF PipelineInvariant
  <1>5. IsFiniteSet(rows)
    BY <1>4, FS_Subset DEF Singles
  <1>6. Single(rows)
    BY <1>1, <1>5, AsManyRowsAsTitles
  <1>7. TypeOK'
    <2>1. rows \in SUBSET Row
      BY <1>4 DEF TypeOK
    <2>2. batch' \in [Runs -> SUBSET Row]
      BY <1>1, <2>1 DEF TypeOK
    <2>3. page' \in [Runs -> SUBSET Titles]
      BY <1>2, <1>3 DEF TypeOK
    <2> QED BY <1>2, <2>2, <2>3 DEF TypeOK, Stages
  <1>8. Cursors'
    BY <1>2 DEF Cursors, TypeOK
  <1>9. SearchMirrorsTitles'
    BY <1>2 DEF SearchMirrorsTitles
  <1>10. Singles'
    BY <1>1, <1>2, <1>6 DEF Singles, TypeOK
  <1> QED BY <1>7, <1>8, <1>9, <1>10

LEMMA NoMoreTitlesKeeps ==
  ASSUME PipelineInvariant, NEW r \in Runs, NoMoreTitles(r)
  PROVE  PipelineInvariant'
  <1> USE DEF PipelineInvariant, NoMoreTitles, Goto, locals
  <1>1. TypeOK'
    BY DEF TypeOK, Stages
  <1>2. Cursors'
    BY DEF Cursors, TypeOK
  <1>3. SearchMirrorsTitles' /\ Singles'
    BY DEF SearchMirrorsTitles, Singles
  <1> QED BY <1>1, <1>2, <1>3

(* The last title of a page is a title. *)
LEMMA EndOfPage ==
  ASSUME NEW P \in SUBSET Titles, P # {}
  PROVE  Max(P) \in P /\ (\A t \in P : t <= Max(P)) /\ Max(P) \in 0 .. NTitles
  <1>1. P \in SUBSET Nat /\ NTitles \in Nat /\ \A t \in P : t <= NTitles
    BY TitleSets, SizesAssumption
  <1>2. Max(P) \in P /\ \A t \in P : t <= Max(P)
    BY <1>1, MaxIsGreatest
  <1>3. Max(P) \in Nat /\ Max(P) <= NTitles
    BY <1>1, <1>2
  <1> QED BY <1>1, <1>2, <1>3

LEMMA MirrorUnion ==
  ASSUME NEW A, NEW B
  PROVE  NotEpisodes(A \cup B) = NotEpisodes(A) \cup NotEpisodes(B)
  BY DEF NotEpisodes

LEMMA CopyBatchKeeps ==
  ASSUME PipelineInvariant, NEW r \in Runs, CopyBatch(r)
  PROVE  PipelineInvariant'
  <1>1. /\ next' = [next EXCEPT !.titles = @ \cup batch[r],
                                !.search = @ \cup NotEpisodes(batch[r])]
        /\ TitlesOf(batch[r]) \cap TitlesOf(next.titles) = {}
        /\ last' = [last EXCEPT ![r] = Max(page[r])]
        /\ page' = [page EXCEPT ![r] = {}]
        /\ batch' = [batch EXCEPT ![r] = {}]
        /\ pc' = [pc EXCEPT ![r] = "build"]
        /\ UNCHANGED <<upstream, calm, holder, version, loaded, staging, filter, live>>
        /\ pc[r] = "copy"
    BY DEF CopyBatch, CanCopy, Goto
  <1> USE DEF PipelineInvariant
  <1>2. next \in Tables /\ batch[r] \in SUBSET Row
    BY DEF TypeOK
  <1>3. /\ next'.titles = next.titles \cup batch[r]
        /\ next'.search = next.search \cup NotEpisodes(batch[r])
        /\ next' \in Tables
    <2>1. NotEpisodes(batch[r]) \in SUBSET Row
      BY <1>2 DEF NotEpisodes
    <2> QED BY <1>1, <1>2, <2>1 DEF Tables
  <1>4. Max(page[r]) \in 0 .. NTitles
    <2>1. page[r] \in SUBSET Titles /\ page[r] # {}
      BY <1>1 DEF TypeOK, Cursors
    <2> QED BY <2>1, EndOfPage
  <1>5. TypeOK'
    <2>1. last' \in [Runs -> 0 .. NTitles]
      BY <1>1, <1>4 DEF TypeOK
    <2>2. page' \in [Runs -> SUBSET Titles] /\ batch' \in [Runs -> SUBSET Row]
      BY <1>1 DEF TypeOK
    <2>3. pc' \in [Runs -> Stages]
      BY <1>1 DEF TypeOK, Stages
    <2> QED BY <1>1, <1>3, <2>1, <2>2, <2>3 DEF TypeOK
  <1>6. Cursors'
    BY <1>1 DEF Cursors, TypeOK
  <1>7. SearchMirrorsTitles'
    BY <1>1, <1>3, MirrorUnion DEF SearchMirrorsTitles
  <1>8. Singles'
    <2>1. Single(next'.titles)
      BY <1>1, <1>3, SingleUnion DEF Singles
    <2>2. \A q \in Runs : Single(batch'[q])
      BY <1>1 DEF Singles, Single, TypeOK
    <2> QED BY <1>1, <2>1, <2>2 DEF Singles
  <1> QED BY <1>5, <1>6, <1>7, <1>8

LEMMA BuildDiscoverKeeps ==
  ASSUME PipelineInvariant, NEW r \in Runs, BuildDiscover(r)
  PROVE  PipelineInvariant'
  <1> USE DEF PipelineInvariant
  <1>1. /\ next' = [next EXCEPT !.discover = NotEpisodes(next.titles)]
        /\ pc' = [pc EXCEPT ![r] = "swap"]
        /\ UNCHANGED <<upstream, calm, holder, version, loaded, last, page, batch, staging,
                       filter, live>>
        /\ pc[r] = "discover"
    BY DEF BuildDiscover, Goto, locals
  <1>2. next' \in Tables /\ next'.titles = next.titles /\ next'.search = next.search
    <2>1. next \in Tables
      BY DEF TypeOK
    <2>2. NotEpisodes(next.titles) \in SUBSET Row
      BY <2>1 DEF Tables, NotEpisodes
    <2> QED BY <1>1, <2>1, <2>2 DEF Tables
  <1>3. TypeOK'
    BY <1>1, <1>2 DEF TypeOK, Stages
  <1>4. Cursors'
    BY <1>1 DEF Cursors, TypeOK
  <1>5. SearchMirrorsTitles' /\ Singles'
    BY <1>1, <1>2 DEF SearchMirrorsTitles, Singles
  <1> QED BY <1>3, <1>4, <1>5

LEMMA SwapKeeps ==
  ASSUME PipelineInvariant, NEW r \in Runs, Swap(r)
  PROVE  PipelineInvariant'
  <1>1. CASE ~PostgresAccepts(GoDuration(SwapLockTimeout))
    BY <1>1, EndKeeps DEF Swap
  <1>2. CASE PostgresAccepts(GoDuration(SwapLockTimeout))
    <2>1. /\ live' = next /\ next' = Absent
          /\ pc' = [pc EXCEPT ![r] = "cleanup"]
          /\ UNCHANGED <<upstream, calm, holder, version, loaded, last, page, batch,
                         staging, filter>>
          /\ pc[r] = "swap"
      BY <1>2 DEF Swap, Goto, locals
    <2> USE DEF PipelineInvariant
    <2>2. TypeOK'
      BY <2>1, EmptyTables DEF TypeOK, Stages
    <2>3. Cursors'
      BY <2>1 DEF Cursors, TypeOK
    <2>4. SearchMirrorsTitles'
      BY <2>1, EmptyTables DEF SearchMirrorsTitles
    <2>5. Singles'
      BY <2>1, EmptyTables DEF Singles
    <2> QED BY <2>2, <2>3, <2>4, <2>5
  <1> QED BY <1>1, <1>2

LEMMA CleanupKeeps ==
  ASSUME PipelineInvariant, NEW r \in Runs, Cleanup(r)
  PROVE  PipelineInvariant'
  <1>1. CASE KeepStaging
    BY <1>1, EndKeeps DEF Cleanup
  <1>2. CASE ~KeepStaging
    <2>1. /\ staging' = {} /\ filter' = {}
          /\ next' = IF next.exists THEN Empty ELSE next
          /\ End(r)
          /\ UNCHANGED <<upstream, calm, live>>
      BY <1>2 DEF Cleanup
    <2> USE DEF PipelineInvariant
    <2>2. /\ next' \in Tables
          /\ next'.search = NotEpisodes(next'.titles)
          /\ Single(next'.titles)
      BY <2>1, EmptyTables DEF TypeOK, SearchMirrorsTitles, Singles
    <2>3. TypeOK'
      BY <2>1, <2>2, SizesAssumption DEF TypeOK, Stages, End, Goto
    <2>4. Cursors'
      BY <2>1 DEF Cursors, TypeOK, End, Goto
    <2>5. SearchMirrorsTitles'
      BY <2>1, <2>2 DEF SearchMirrorsTitles
    <2>6. Singles'
      BY <2>1, <2>2, FS_EmptySet DEF Singles, Single, TypeOK, End
    <2> QED BY <2>3, <2>4, <2>5, <2>6
  <1> QED BY <1>1, <1>2

LEMMA PublishKeeps ==
  ASSUME PipelineInvariant, Publish
  PROVE  PipelineInvariant'
  <1> USE DEF PipelineInvariant, Publish, locals
  <1>1. upstream \in 1 .. MaxVersion /\ MaxVersion \in Nat
    BY SizesAssumption DEF TypeOK, Versions
  <1>2. TypeOK'
    BY <1>1 DEF TypeOK, Versions
  <1>3. Cursors'
    BY <1>1 DEF Cursors, TypeOK
  <1>4. SearchMirrorsTitles' /\ Singles'
    BY DEF SearchMirrorsTitles, Singles
  <1> QED BY <1>2, <1>3, <1>4

LEMMA CalmDownKeeps ==
  ASSUME PipelineInvariant, CalmDown
  PROVE  PipelineInvariant'
  <1> USE DEF PipelineInvariant, CalmDown, locals
  <1>1. TypeOK'
    BY DEF TypeOK
  <1>2. Cursors' /\ SearchMirrorsTitles' /\ Singles'
    BY DEF Cursors, SearchMirrorsTitles, Singles
  <1> QED BY <1>1, <1>2

LEMMA StepKeeps ==
  ASSUME PipelineInvariant, NEW r \in Runs, Step(r)
  PROVE  PipelineInvariant'
  <1>1. CASE Start(r) \/ Download(r) \/ CreateStaging(r) \/ LoadBatch(r)
    BY <1>1, StartKeeps, DownloadKeeps, CreateStagingKeeps, LoadBatchKeeps
  <1>2. CASE FilterTitles(r) \/ CreateNext(r) \/ FetchBatch(r) \/ NoMoreTitles(r)
    BY <1>2, FilterTitlesKeeps, CreateNextKeeps, FetchBatchKeeps, NoMoreTitlesKeeps
  <1>3. CASE CopyBatch(r) \/ BuildDiscover(r) \/ Swap(r) \/ Cleanup(r)
    BY <1>3, CopyBatchKeeps, BuildDiscoverKeeps, SwapKeeps, CleanupKeeps
  <1>4. CASE FilterConflict(r) \/ CopyConflict(r) \/ MissingNext(r)
    BY <1>4, EndKeeps DEF FilterConflict, CopyConflict, MissingNext
  <1> QED BY <1>1, <1>2, <1>3, <1>4 DEF Step

LEMMA InitEstablishes == Init => PipelineInvariant
  <1> SUFFICES ASSUME Init PROVE PipelineInvariant
    OBVIOUS
  <1>1. TypeOK
    <2>1. upstream \in Versions /\ holder \in Runs \cup {NoRun}
      BY SizesAssumption DEF Init, Versions
    <2>2. calm \in BOOLEAN
      BY DEF Init
    <2>3. pc \in [Runs -> Stages]
      BY DEF Init, Stages
    <2>4. /\ version \in [Runs -> 0 .. MaxVersion]
          /\ loaded \in [Runs -> 0 .. NTitles] /\ last \in [Runs -> 0 .. NTitles]
      BY SizesAssumption DEF Init
    <2>5. page \in [Runs -> SUBSET Titles] /\ batch \in [Runs -> SUBSET Row]
      BY DEF Init
    <2>6. staging \subseteq Row /\ filter \subseteq Titles /\ next \in Tables /\ live \in Tables
      BY EmptyTables DEF Init
    <2> QED BY <2>1, <2>2, <2>3, <2>4, <2>5, <2>6 DEF TypeOK
  <1>2. Cursors
    BY DEF Init, Cursors
  <1>3. SearchMirrorsTitles
    BY EmptyTables DEF Init, SearchMirrorsTitles
  <1>4. Singles
    BY EmptyTables, FS_EmptySet DEF Init, Singles, Single
  <1> QED BY <1>1, <1>2, <1>3, <1>4 DEF PipelineInvariant

LEMMA NextKeeps == PipelineInvariant /\ [Next]_vars => PipelineInvariant'
  <1> SUFFICES ASSUME PipelineInvariant, [Next]_vars
               PROVE  PipelineInvariant'
    OBVIOUS
  <1>1. ASSUME NEW r \in Runs, Step(r)
        PROVE  PipelineInvariant'
    BY <1>1, StepKeeps
  <1>2. ASSUME NEW r \in Runs, Fail(r)
        PROVE  PipelineInvariant'
    BY <1>2, EndKeeps DEF Fail
  <1>3. CASE Publish
    BY <1>3, PublishKeeps
  <1>4. CASE CalmDown
    BY <1>4, CalmDownKeeps
  <1>5. CASE UNCHANGED vars
    BY <1>5 DEF vars, locals, PipelineInvariant, TypeOK, Cursors, SearchMirrorsTitles,
                Singles
  <1> QED BY <1>1, <1>2, <1>3, <1>4, <1>5 DEF Next

(* The inductive invariant, with or without the lock *)
THEOREM PipelineInvariantHolds == Spec => []PipelineInvariant
  BY InitEstablishes, NextKeeps, PTL DEF Spec

(* All variables and tables keep their types. *)
THEOREM TypesHold == Spec => []TypeOK
  <1>1. PipelineInvariant => TypeOK
    BY DEF PipelineInvariant
  <1> QED BY <1>1, PipelineInvariantHolds, PTL

(* Even if runs overlap, the search tables always cover exactly the        *)
(* non-episode titles of the titles tables, next and live.                 *)
THEOREM SearchMirrors == Spec => []SearchMirrorsTitles
  <1>1. PipelineInvariant => SearchMirrorsTitles
    BY DEF PipelineInvariant
  <1> QED BY <1>1, PipelineInvariantHolds, PTL

(* Even if runs overlap, a title has at most one live row.                 *)
THEOREM OneLiveRow == Spec => []OneRowPerTitle
  <1>1. PipelineInvariant => OneRowPerTitle
    <2> SUFFICES ASSUME PipelineInvariant PROVE OneRowPerTitle
      OBVIOUS
    <2>1. live.titles \in SUBSET Row /\ Single(live.titles)
      BY DEF PipelineInvariant, TypeOK, Tables, Singles
    <2> QED BY <2>1, OneRowEach DEF OneRowPerTitle
  <1> QED BY <1>1, PipelineInvariantHolds, PTL

---------------------------------------------------------------------------
(* What the lock adds *)

LEMMA ContentOfUnion ==
  ASSUME NEW A, NEW B
  PROVE  Content(A \cup B) = Content(A) \cup Content(B)
  BY DEF Content

LEMMA ContentOfNotEpisodes ==
  ASSUME NEW A
  PROVE  Content(NotEpisodes(A)) = NotEpisodes(Content(A))
  BY DEF Content, NotEpisodes, TitleOf

LEMMA ImageIsRows ==
  ASSUME NEW v \in Nat \ {0}
  PROVE  LET rows == ImageOf(v, Kept(Dataset(v)))
         IN  Image(v) = [titles |-> rows, search |-> NotEpisodes(rows),
                         discover |-> NotEpisodes(rows)]
  BY DEF Image, ImageOf

(* While one run moves the others are idle: nothing is claimed of them.    *)
LEMMA OthersIdle ==
  ASSUME TypeOK, Alone, NEW r \in Runs, pc[r] # "idle", NEW q \in Runs \ {r}
  PROVE  pc[q] = "idle"
  BY DEF Alone

LEMMA IdleClaimsNothing ==
  ASSUME NEW q \in Runs, pc'[q] = "idle"
  PROVE  Loading(q)' /\ Building(q)'
  BY DEF Loading, Building

LEMMA OneMoves ==
  ASSUME TypeOK, Alone, NEW r \in Runs, pc[r] # "idle",
         NEW stage \in Stages, pc' = [pc EXCEPT ![r] = stage], holder' = holder
  PROVE  /\ Alone'
         /\ \A q \in Runs \ {r} : Loading(q)' /\ Building(q)'
         /\ pc'[r] = stage
         /\ \A q \in Runs \ {r} : pc'[q] = "idle"
  <1>1. \A q \in Runs \ {r} : pc[q] = "idle"
    BY OthersIdle
  <1>2. pc'[r] = stage /\ \A q \in Runs \ {r} : pc'[q] = "idle"
    BY <1>1 DEF TypeOK
  <1>3. Alone'
    BY <1>2 DEF Alone
  <1> QED BY <1>2, <1>3, IdleClaimsNothing

LEMMA AllIdle ==
  ASSUME TypeOK, Alone, NEW r \in Runs, pc[r] # "idle", End(r)
  PROVE  /\ Alone'
         /\ \A q \in Runs : Loading(q)' /\ Building(q)'
         /\ \A q \in Runs : pc'[q] = "idle"
  <1>1. \A q \in Runs \ {r} : pc[q] = "idle"
    BY OthersIdle
  <1>2. \A q \in Runs : pc'[q] = "idle"
    BY <1>1 DEF TypeOK, End, Goto
  <1>3. Alone'
    BY <1>2 DEF Alone
  <1> QED BY <1>2, <1>3, IdleClaimsNothing

(* What readers see stays older than what active runs have downloaded.     *)
LEMMA PublishedStays ==
  ASSUME TypeOK, Published, live' = live, upstream' \in Nat, upstream <= upstream',
         \A q \in Runs :
           pc'[q] \notin {"idle", "download"} =>
             \/ version'[q] = upstream
             \/ pc[q] \notin {"idle", "download"} /\ version'[q] = version[q]
  PROVE  Published'
  <1>1. PICK v \in 0 .. upstream :
          /\ LiveContent = Image(v)
          /\ \A q \in Runs : pc[q] \notin {"idle", "download"} => v <= version[q]
    BY DEF Published
  <1>2. upstream \in Nat
    BY SizesAssumption DEF TypeOK, Versions
  <1>3. v \in 0 .. upstream'
    BY <1>1, <1>2
  <1>4. LiveContent' = Image(v)
    BY <1>1 DEF LiveContent
  <1>5. \A q \in Runs : pc'[q] \notin {"idle", "download"} => v <= version'[q]
    BY <1>1, <1>2
  <1> QED BY <1>3, <1>4, <1>5 DEF Published

(* A step that leaves the live tables, the versions and upstream alone and *)
(* takes no run out of "idle" or "download"                                *)
LEMMA PublishedByOne ==
  ASSUME TypeOK, Published, NEW r \in Runs, pc[r] \notin {"idle", "download"},
         NEW stage, pc' = [pc EXCEPT ![r] = stage],
         UNCHANGED <<upstream, version, live>>
  PROVE  Published'
  <1>1. upstream' = upstream /\ upstream \in Nat
    BY SizesAssumption DEF TypeOK, Versions
  <1>2. \A q \in Runs :
          pc'[q] \notin {"idle", "download"} =>
            pc[q] \notin {"idle", "download"} /\ version'[q] = version[q]
    BY DEF TypeOK
  <1> QED BY <1>1, <1>2, PublishedStays

LEMMA EndLocked ==
  ASSUME TypeOK, LockInvariant, NEW r \in Runs, pc[r] # "idle", End(r),
         UNCHANGED <<upstream, live>>
  PROVE  LockInvariant'
  <1> USE DEF LockInvariant
  <1>1. Alone' /\ \A q \in Runs : Loading(q)' /\ Building(q)' /\ pc'[q] = "idle"
    BY AllIdle
  <1>2. upstream' = upstream /\ upstream \in Nat
    BY SizesAssumption DEF TypeOK, Versions
  <1>3. Published'
    BY <1>1, <1>2, PublishedStays
  <1> QED BY <1>1, <1>3

LEMMA StartLocked ==
  ASSUME Locked, TypeOK, LockInvariant, NEW r \in Runs, Start(r)
  PROVE  LockInvariant'
  <1> USE DEF LockInvariant
  <1>1. \A q \in Runs : pc[q] = "idle"
    BY RunsAssumption DEF Start, Alone
  <1>2. pc' = [pc EXCEPT ![r] = "download"] /\ holder' = r
    BY DEF Start, Goto
  <1>3. pc'[r] = "download" /\ \A q \in Runs \ {r} : pc'[q] = "idle"
    BY <1>1, <1>2 DEF TypeOK
  <1>4. Alone'
    BY <1>2, <1>3 DEF Alone
  <1>5. \A q \in Runs : Loading(q)' /\ Building(q)'
    BY <1>3 DEF Loading, Building
  <1>6. Published'
    <2>1. upstream' = upstream /\ upstream \in Nat /\ live' = live
      BY SizesAssumption DEF TypeOK, Versions, Start
    <2>2. \A q \in Runs : pc'[q] \in {"idle", "download"}
      BY <1>3
    <2> QED BY <2>1, <2>2, PublishedStays
  <1> QED BY <1>4, <1>5, <1>6

(* The new version is at least as recent as what readers see. *)
LEMMA DownloadLocked ==
  ASSUME TypeOK, LockInvariant, NEW r \in Runs, Download(r)
  PROVE  LockInvariant'
  <1> USE DEF LockInvariant
  <1>1. /\ pc[r] = "download" /\ pc' = [pc EXCEPT ![r] = "staging"]
        /\ version' = [version EXCEPT ![r] = upstream]
        /\ holder' = holder /\ live' = live /\ upstream' = upstream
    BY DEF Download, Goto
  <1>2. Alone' /\ \A q \in Runs \ {r} : Loading(q)' /\ Building(q)' /\ pc'[q] = "idle"
    BY <1>1, OneMoves DEF Stages
  <1>3. pc'[r] = "staging" /\ version'[r] = upstream
    BY <1>1 DEF TypeOK
  <1>4. Loading(r)' /\ Building(r)'
    BY <1>3 DEF Loading, Building
  <1>5. Published'
    <2>1. upstream \in Nat
      BY SizesAssumption DEF TypeOK, Versions
    <2>2. \A q \in Runs : pc'[q] \notin {"idle", "download"} => version'[q] = upstream
      BY <1>2, <1>3
    <2> QED BY <1>1, <2>1, <2>2, PublishedStays
  <1> QED BY <1>2, <1>4, <1>5

LEMMA CreateStagingLocked ==
  ASSUME PipelineInvariant, LockInvariant, NEW r \in Runs, CreateStaging(r)
  PROVE  LockInvariant'
  <1> USE DEF LockInvariant, PipelineInvariant
  <1>1. /\ pc[r] = "staging" /\ pc' = [pc EXCEPT ![r] = "load"]
        /\ staging' = {}
        /\ UNCHANGED <<upstream, holder, version, loaded, live>>
    BY DEF CreateStaging, Goto, locals
  <1>2. /\ Alone' /\ pc'[r] = "load"
        /\ \A q \in Runs \ {r} : Loading(q)' /\ Building(q)'
    BY <1>1, OneMoves DEF Stages
  <1>3. UpTo(Dataset(version[r]), loaded[r]) = {}
    <2>1. loaded[r] = 0
      BY <1>1 DEF Cursors
    <2>2. \A t \in Dataset(version[r]) : t \in Titles
      BY DEF Dataset
    <2>3. \A t \in Titles : ~(t <= 0)
      BY SizesAssumption DEF Titles
    <2> QED BY <2>1, <2>2, <2>3 DEF UpTo
  <1>4. Loading(r)' /\ Building(r)'
    BY <1>1, <1>2, <1>3 DEF Loading, Building, RowsOf
  <1>5. Published'
    BY <1>1, PublishedByOne
  <1> QED BY <1>2, <1>4, <1>5

(* A batch of lines continues the staging table where it ended.            *)
LEMMA LoadBatchLocked ==
  ASSUME PipelineInvariant, LockInvariant, NEW r \in Runs, LoadBatch(r)
  PROVE  LockInvariant'
  <1> DEFINE lines == FirstOf(Unread(r), LoadBatchSize)
             end == Max(lines \cup {loaded[r]})
  <1> USE DEF LockInvariant, PipelineInvariant
  <1>1. PICK v : v = version[r]
    OBVIOUS
  <1>2. PICK D : D = Dataset(v)
    OBVIOUS
  <1>3. PICK c : c = loaded[r]
    OBVIOUS
  <1>4. PICK stage : stage = IF Cardinality(Unread(r)) < LoadBatchSize THEN "filter" ELSE "load"
    OBVIOUS
  <1>5. /\ pc[r] = "load" /\ pc' = [pc EXCEPT ![r] = stage]
        /\ staging' = staging \cup RowsOf(r, v, lines)
        /\ loaded' = [loaded EXCEPT ![r] = end]
        /\ UNCHANGED <<upstream, holder, version, live>>
    BY <1>1, <1>4 DEF LoadBatch, Goto, RowsOf
  <1>6. /\ Alone' /\ pc'[r] = stage
        /\ \A q \in Runs \ {r} : Loading(q)' /\ Building(q)'
    BY <1>4, <1>5, OneMoves DEF Stages
  <1>7. Unread(r) = {t \in D : t > c} /\ D \in SUBSET Titles /\ c \in Nat
    BY <1>1, <1>2, <1>3, SizesAssumption DEF Unread, Dataset, TypeOK
  <1>8. end \in lines \cup {c} /\ \A t \in lines \cup {c} : t <= end
    BY <1>3, BatchOfLines, SizesAssumption
  <1>9. staging = RowsOf(r, v, UpTo(D, c))
    BY <1>1, <1>2, <1>3, <1>5 DEF Loading
  <1>10. lines = PageAfter(D, c, LoadBatchSize)
    BY <1>7 DEF PageAfter
  <1>11. loaded'[r] = end /\ version'[r] = v
    BY <1>1, <1>5 DEF TypeOK
  <1> HIDE DEF lines, end
  <1>12. staging' = RowsOf(r, v, UpTo(D, c) \cup lines)
    BY <1>5, <1>9 DEF RowsOf
  <1>13. CASE stage = "load"
    <2>1. UpTo(D, end) = UpTo(D, c) \cup lines
      BY <1>7, <1>8, <1>10, SizesAssumption, CursorCoversPage
    <2>2. staging' = RowsOf(r, v, UpTo(D, end))
      BY <1>12, <2>1
    <2>3. Loading(r)' /\ Building(r)'
      BY <1>2, <1>6, <1>11, <1>13, <2>2 DEF Loading, Building
    <2> QED BY <1>5, <1>6, <2>3, PublishedByOne
  <1>14. CASE stage = "filter"
    <2>1. Cardinality(Unread(r)) < LoadBatchSize
      BY <1>4, <1>14
    <2>2. lines = {t \in D : t > c}
      <3>1. {t \in D : t > c} \in SUBSET Titles
        BY <1>7
      <3>2. Cardinality({t \in D : t > c}) <= LoadBatchSize
        <4>1. Cardinality(Unread(r)) \in Nat
          BY <1>7, <3>1, TitleSets, FS_CardinalityType
        <4> QED BY <1>7, <2>1, <4>1, SizesAssumption
      <3> QED BY <1>10, <3>1, <3>2, SizesAssumption, LastPage DEF PageAfter
    <2>3. UpTo(D, c) \cup lines = D
      <3>1. \A t \in D : t \in Nat
        BY <1>7, TitleSets
      <3>2. \A t \in D : t <= c \/ t > c
        BY <1>7, <3>1
      <3> QED BY <2>2, <3>2 DEF UpTo
    <2>4. staging' = RowsOf(r, v, D)
      BY <1>12, <2>3
    <2>5. Loading(r)' /\ Building(r)'
      BY <1>2, <1>6, <1>11, <1>14, <2>4 DEF Loading, Building
    <2> QED BY <1>5, <1>6, <2>5, PublishedByOne
  <1> QED BY <1>4, <1>13, <1>14

LEMMA TitlesOfRows ==
  ASSUME NEW r, NEW v, NEW T
  PROVE  TitlesOf(RowsOf(r, v, T)) = T
  <1>1. \A t \in T : <<t, v, r>> \in RowsOf(r, v, T) /\ TitleOf(<<t, v, r>>) = t
    BY DEF TitleOf, RowsOf
  <1>2. \A row \in RowsOf(r, v, T) : TitleOf(row) \in T
    BY DEF TitleOf, RowsOf
  <1> QED BY <1>1, <1>2 DEF TitlesOf

LEMMA FilterTitlesLocked ==
  ASSUME PipelineInvariant, LockInvariant, NEW r \in Runs, FilterTitles(r)
  PROVE  LockInvariant'
  <1> USE DEF LockInvariant, PipelineInvariant
  <1>1. /\ pc[r] = "filter" /\ pc' = [pc EXCEPT ![r] = "createNext"]
        /\ filter' = Kept(TitlesOf(staging))
        /\ UNCHANGED <<upstream, holder, version, staging, live>>
    BY DEF FilterTitles, Goto, locals
  <1>2. /\ Alone' /\ pc'[r] = "createNext"
        /\ \A q \in Runs \ {r} : Loading(q)' /\ Building(q)'
    BY <1>1, OneMoves DEF Stages
  <1>3. staging = RowsOf(r, version[r], Dataset(version[r]))
    BY <1>1 DEF Loading
  <1>4. filter' = Kept(Dataset(version[r]))
    BY <1>1, <1>3, TitlesOfRows
  <1>5. Loading(r)' /\ Building(r)'
    BY <1>1, <1>2, <1>3, <1>4 DEF Loading, Building
  <1> QED BY <1>1, <1>2, <1>5, PublishedByOne

LEMMA CreateNextLocked ==
  ASSUME PipelineInvariant, LockInvariant, NEW r \in Runs, CreateNext(r)
  PROVE  LockInvariant'
  <1> USE DEF LockInvariant, PipelineInvariant
  <1>1. /\ pc[r] = "createNext" /\ pc' = [pc EXCEPT ![r] = "build"]
        /\ next' = Empty
        /\ UNCHANGED <<upstream, holder, version, last, staging, filter, live>>
    BY DEF CreateNext, Goto, locals
  <1>2. /\ Alone' /\ pc'[r] = "build"
        /\ \A q \in Runs \ {r} : Loading(q)' /\ Building(q)'
    BY <1>1, OneMoves DEF Stages
  <1>3. UpTo(Kept(Dataset(version[r])), last[r]) = {}
    <2>1. last[r] = 0
      BY <1>1 DEF Cursors
    <2>2. \A t \in Kept(Dataset(version[r])) : t \in Titles
      BY DEF Dataset, Kept
    <2>3. \A t \in Titles : ~(t <= 0)
      BY SizesAssumption DEF Titles
    <2> QED BY <2>1, <2>2, <2>3 DEF UpTo
  <1>4. Content(next'.titles) = {}
    BY <1>1 DEF Content, Empty
  <1>5. Loading(r)'
    BY <1>1, <1>2 DEF Loading
  <1>6. Building(r)'
    BY <1>1, <1>2, <1>3, <1>4 DEF Building, ImageOf
  <1> QED BY <1>1, <1>2, <1>5, <1>6, PublishedByOne

(* The rows fetched for a page are its titles, from the run's version.     *)
LEMMA FetchBatchLocked ==
  ASSUME PipelineInvariant, LockInvariant, NEW r \in Runs, FetchBatch(r)
  PROVE  LockInvariant'
  <1> USE DEF LockInvariant, PipelineInvariant
  <1>1. PICK rows \in SUBSET {row \in staging : TitleOf(row) \in Page(r)} :
          /\ TitlesOf(rows) = TitlesOf(staging) \cap Page(r)
          /\ batch' = [batch EXCEPT ![r] = rows]
    BY DEF FetchBatch
  <1>2. /\ pc[r] = "build" /\ pc' = [pc EXCEPT ![r] = "copy"]
        /\ page' = [page EXCEPT ![r] = Page(r)]
        /\ UNCHANGED <<upstream, holder, version, last, staging, filter, next, live>>
    BY DEF FetchBatch, Goto
  <1>3. /\ Alone' /\ pc'[r] = "copy"
        /\ \A q \in Runs \ {r} : Loading(q)' /\ Building(q)'
    BY <1>2, OneMoves DEF Stages
  <1>4. /\ staging = RowsOf(r, version[r], Dataset(version[r]))
        /\ filter = Kept(Dataset(version[r]))
    BY <1>2 DEF Loading
  <1>5. Page(r) \subseteq Dataset(version[r])
    BY <1>4 DEF Page, FirstOf, Kept
  <1>6. Content(rows) = ImageOf(version[r], Page(r))
    <2>1. \A row \in rows : /\ row[1] \in Page(r)
                            /\ row[2] = version[r]
      BY <1>4 DEF RowsOf, TitleOf
    <2>2. TitlesOf(rows) = Page(r)
      BY <1>1, <1>4, <1>5, TitlesOfRows
    <2>3. \A t \in Page(r) : \E row \in rows : row[1] = t
      BY <2>2 DEF TitlesOf, TitleOf
    <2> QED BY <2>1, <2>3 DEF Content, ImageOf
  <1>7. Loading(r)'
    BY <1>2, <1>3 DEF Loading
  <1>8. page'[r] = Page(r) /\ batch'[r] = rows /\ Page(r)' = Page(r)
    BY <1>1, <1>2 DEF Page, TypeOK
  <1>9. Building(r)'
    BY <1>2, <1>3, <1>6, <1>8 DEF Building
  <1> QED BY <1>2, <1>3, <1>7, <1>9, PublishedByOne

(* When the page is empty, the cursor has passed the last title.           *)
LEMMA NoMoreTitlesLocked ==
  ASSUME PipelineInvariant, LockInvariant, NEW r \in Runs, NoMoreTitles(r)
  PROVE  LockInvariant'
  <1> USE DEF LockInvariant, PipelineInvariant
  <1>1. /\ pc[r] = "build" /\ pc' = [pc EXCEPT ![r] = "discover"]
        /\ Page(r) = {}
        /\ UNCHANGED <<upstream, holder, version, last, staging, filter, next, live>>
    BY DEF NoMoreTitles, Goto, locals
  <1>2. /\ Alone' /\ pc'[r] = "discover"
        /\ \A q \in Runs \ {r} : Loading(q)' /\ Building(q)'
    BY <1>1, OneMoves DEF Stages
  <1>3. {t \in filter : t > last[r]} = {}
    <2>1. {t \in filter : t > last[r]} \in SUBSET Titles
      BY DEF TypeOK
    <2> QED BY <1>1, <2>1, SizesAssumption, PageNotEmpty DEF Page
  <1>4. UpTo(filter, last[r]) = filter
    <2>1. \A t \in filter : t \in Nat
      BY TitleSets DEF TypeOK
    <2>2. last[r] \in Nat
      BY SizesAssumption DEF TypeOK
    <2>3. \A t \in filter : t <= last[r]
      BY <1>3, <2>1, <2>2
    <2> QED BY <2>3 DEF UpTo
  <1>5. filter = Kept(Dataset(version[r]))
    BY <1>1 DEF Loading
  <1>6. Content(next.titles) = ImageOf(version[r], Kept(Dataset(version[r])))
    BY <1>1, <1>4, <1>5 DEF Building
  <1>7. Loading(r)' /\ Building(r)'
    BY <1>1, <1>2, <1>6 DEF Loading, Building
  <1> QED BY <1>1, <1>2, <1>7, PublishedByOne

(* The batch and the cursor move together. *)
LEMMA CopyBatchLocked ==
  ASSUME PipelineInvariant, LockInvariant, NEW r \in Runs, CopyBatch(r)
  PROVE  LockInvariant'
  <1> USE DEF LockInvariant, PipelineInvariant
  <1>1. /\ pc[r] = "copy" /\ pc' = [pc EXCEPT ![r] = "build"]
        /\ next' = [next EXCEPT !.titles = @ \cup batch[r],
                                !.search = @ \cup NotEpisodes(batch[r])]
        /\ last' = [last EXCEPT ![r] = Max(page[r])]
        /\ UNCHANGED <<upstream, holder, version, staging, filter, live>>
    BY DEF CopyBatch, Goto
  <1>2. /\ Alone' /\ pc'[r] = "build"
        /\ \A q \in Runs \ {r} : Loading(q)' /\ Building(q)'
    BY <1>1, OneMoves DEF Stages
  <1>3. PICK P : P = page[r]
    OBVIOUS
  <1>4. PICK c : c = last[r]
    OBVIOUS
  <1>5. PICK v : v = version[r]
    OBVIOUS
  <1>6. PICK K : K = Kept(Dataset(v))
    OBVIOUS
  <1>7. PICK m : m = Max(P)
    OBVIOUS
  <1>8. P = PageAfter(K, c, BatchSize) /\ P \in SUBSET Titles /\ P # {}
    <2>1. filter = K
      BY <1>1, <1>5, <1>6 DEF Loading
    <2>2. P = Page(r)
      BY <1>1, <1>3 DEF Building
    <2> QED BY <1>1, <1>3, <1>4, <2>1, <2>2 DEF Page, PageAfter, Cursors, TypeOK
  <1>9. c \in Nat /\ K \in SUBSET Titles
    BY <1>4, <1>6, SizesAssumption DEF TypeOK, Kept, Dataset
  <1>10. m \in P /\ \A y \in P \cup {c} : y <= m
    <2>1. m \in P /\ \A y \in P : y <= m
      BY <1>7, <1>8, EndOfPage
    <2>2. m > c /\ m \in Nat
      BY <1>8, <2>1, TitleSets DEF PageAfter, FirstOf
    <2> QED BY <1>9, <2>1, <2>2
  <1>11. UpTo(K, m) = UpTo(K, c) \cup P
    <2>1. m \in P \cup {c} /\ BatchSize \in Nat
      BY <1>10, SizesAssumption
    <2> QED BY <1>8, <1>9, <1>10, <2>1, CursorCoversPage
  <1>12. /\ Content(next.titles) = ImageOf(v, UpTo(K, c))
         /\ Content(batch[r]) = ImageOf(v, P)
    BY <1>1, <1>3, <1>4, <1>5, <1>6 DEF Building
  <1>13. next'.titles = next.titles \cup batch[r]
    BY <1>1 DEF TypeOK, Tables
  <1>14. Content(next'.titles) = ImageOf(v, UpTo(K, c) \cup P)
    BY <1>12, <1>13, ContentOfUnion DEF ImageOf
  <1>15. last'[r] = m /\ version'[r] = v
    BY <1>1, <1>3, <1>5, <1>7 DEF TypeOK
  <1>16. Loading(r)'
    BY <1>1, <1>2 DEF Loading
  <1>17. Building(r)'
    BY <1>2, <1>6, <1>11, <1>14, <1>15 DEF Building
  <1> QED BY <1>1, <1>2, <1>16, <1>17, PublishedByOne

LEMMA BuildDiscoverLocked ==
  ASSUME PipelineInvariant, LockInvariant, NEW r \in Runs, BuildDiscover(r)
  PROVE  LockInvariant'
  <1> USE DEF LockInvariant, PipelineInvariant
  <1>1. /\ pc[r] = "discover" /\ pc' = [pc EXCEPT ![r] = "swap"]
        /\ next' = [next EXCEPT !.discover = NotEpisodes(next.titles)]
        /\ UNCHANGED <<upstream, holder, version, staging, filter, live>>
    BY DEF BuildDiscover, Goto, locals
  <1>2. /\ Alone' /\ pc'[r] = "swap"
        /\ \A q \in Runs \ {r} : Loading(q)' /\ Building(q)'
    BY <1>1, OneMoves DEF Stages
  <1>3. next'.titles = next.titles /\ next'.discover = NotEpisodes(next.titles)
    BY <1>1 DEF TypeOK, Tables
  <1>4. Content(next.titles) = ImageOf(version[r], Kept(Dataset(version[r])))
    BY <1>1 DEF Building
  <1>5. Loading(r)' /\ Building(r)'
    BY <1>1, <1>2, <1>3, <1>4 DEF Loading, Building
  <1> QED BY <1>1, <1>2, <1>5, PublishedByOne

(* The swap takes readers from one version to one that is not older.       *)
LEMMA SwapPublishes ==
  ASSUME PipelineInvariant, LockInvariant, NEW r \in Runs, Swap(r),
         PostgresAccepts(GoDuration(SwapLockTimeout))
  PROVE  /\ version[r] \in 0 .. upstream
         /\ LiveContent' = Image(version[r])
         /\ \E v \in 0 .. upstream : v <= version[r] /\ LiveContent = Image(v)
  <1> USE DEF LockInvariant, PipelineInvariant
  <1>1. pc[r] = "swap" /\ live' = next
    BY DEF Swap
  <1>2. version[r] \in 1 .. upstream /\ upstream \in Nat
    BY <1>1, SizesAssumption DEF Cursors, TypeOK, Versions
  <1>3. PICK v : v = version[r]
    OBVIOUS
  <1>4. PICK rows : rows = ImageOf(v, Kept(Dataset(v)))
    OBVIOUS
  <1>5. /\ Content(next.titles) = rows
        /\ next.discover = NotEpisodes(next.titles)
        /\ next.search = NotEpisodes(next.titles)
    BY <1>1, <1>3, <1>4 DEF Building, SearchMirrorsTitles
  <1>6. Content(next.search) = NotEpisodes(rows) /\ Content(next.discover) = NotEpisodes(rows)
    BY <1>5, ContentOfNotEpisodes
  <1>7. LiveContent' = [titles |-> rows, search |-> NotEpisodes(rows),
                        discover |-> NotEpisodes(rows)]
    BY <1>1, <1>5, <1>6 DEF LiveContent
  <1>8. v \in Nat \ {0}
    BY <1>2, <1>3
  <1>9. LiveContent' = Image(v)
    BY <1>4, <1>7, <1>8, ImageIsRows
  <1>10. \E w \in 0 .. upstream : w <= version[r] /\ LiveContent = Image(w)
    BY <1>1 DEF Published
  <1> QED BY <1>2, <1>3, <1>9, <1>10

LEMMA SwapLocked ==
  ASSUME PipelineInvariant, LockInvariant, NEW r \in Runs, Swap(r)
  PROVE  LockInvariant'
  <1> USE DEF LockInvariant, PipelineInvariant
  <1>1. CASE ~PostgresAccepts(GoDuration(SwapLockTimeout))
    BY <1>1, EndLocked DEF Swap
  <1>2. CASE PostgresAccepts(GoDuration(SwapLockTimeout))
    <2>1. /\ pc[r] = "swap" /\ pc' = [pc EXCEPT ![r] = "cleanup"]
          /\ UNCHANGED <<upstream, holder, version>>
      BY <1>2 DEF Swap, Goto, locals
    <2>2. /\ Alone' /\ pc'[r] = "cleanup"
          /\ \A q \in Runs \ {r} : Loading(q)' /\ Building(q)' /\ pc'[q] = "idle"
      BY <2>1, OneMoves DEF Stages
    <2>3. Loading(r)' /\ Building(r)'
      BY <2>2 DEF Loading, Building
    <2>4. PICK w : w = version[r]
      OBVIOUS
    <2>5. w \in 0 .. upstream /\ LiveContent' = Image(w)
      BY <1>2, <2>4, SwapPublishes
    <2>6. \A q \in Runs : pc'[q] \notin {"idle", "download"} => w <= version'[q]
      BY <2>1, <2>2, <2>4, <2>5
    <2>7. Published'
      BY <2>1, <2>5, <2>6 DEF Published
    <2> QED BY <2>2, <2>3, <2>7
  <1> QED BY <1>1, <1>2

LEMMA StepLocked ==
  ASSUME Locked, PipelineInvariant, LockInvariant, NEW r \in Runs, Step(r)
  PROVE  LockInvariant'
  <1> USE DEF PipelineInvariant
  <1>1. CASE Start(r) \/ Download(r) \/ CreateStaging(r) \/ LoadBatch(r)
    BY <1>1, StartLocked, DownloadLocked, CreateStagingLocked, LoadBatchLocked
  <1>2. CASE FilterTitles(r) \/ CreateNext(r) \/ FetchBatch(r) \/ NoMoreTitles(r)
    BY <1>2, FilterTitlesLocked, CreateNextLocked, FetchBatchLocked, NoMoreTitlesLocked
  <1>3. CASE CopyBatch(r) \/ BuildDiscover(r) \/ Swap(r)
    BY <1>3, CopyBatchLocked, BuildDiscoverLocked, SwapLocked
  <1>4. CASE FilterConflict(r) \/ CopyConflict(r) \/ MissingNext(r) \/ Cleanup(r)
    <2>1. pc[r] # "idle" /\ End(r) /\ UNCHANGED <<upstream, live>>
      BY <1>4 DEF FilterConflict, CopyConflict, MissingNext, Cleanup
    <2> QED BY <2>1, EndLocked
  <1> QED BY <1>1, <1>2, <1>3, <1>4 DEF Step

LEMMA NextLocked ==
  ASSUME Locked, PipelineInvariant, LockInvariant, [Next]_vars
  PROVE  LockInvariant'
  <1> USE DEF PipelineInvariant
  <1>1. ASSUME NEW r \in Runs, Step(r)
        PROVE  LockInvariant'
    BY <1>1, StepLocked
  <1>2. ASSUME NEW r \in Runs, Fail(r)
        PROVE  LockInvariant'
    BY <1>2, EndLocked DEF Fail
  <1>3. CASE Publish \/ CalmDown
    <2>1. /\ UNCHANGED <<holder, pc, version, loaded, last, page, batch, staging, filter,
                         next, live>>
          /\ upstream \in Nat /\ upstream' \in Nat /\ upstream <= upstream'
      BY <1>3, SizesAssumption DEF Publish, CalmDown, locals, TypeOK, Versions
    <2>2. Published'
      BY <2>1, PublishedStays DEF LockInvariant
    <2>3. Alone' /\ \A q \in Runs : Loading(q)' /\ Building(q)'
      BY <2>1 DEF LockInvariant, Alone, Loading, Building, Page
    <2> QED BY <2>2, <2>3 DEF LockInvariant
  <1>4. CASE UNCHANGED vars
    BY <1>4 DEF vars, locals, LockInvariant, Alone, Loading, Building, Page, Published,
                LiveContent
  <1> QED BY <1>1, <1>2, <1>3, <1>4 DEF Next

LEMMA InitLocked == Init => LockInvariant
  <1> SUFFICES ASSUME Init PROVE LockInvariant
    OBVIOUS
  <1>1. Alone /\ \A r \in Runs : Loading(r) /\ Building(r)
    BY DEF Init, Alone, Loading, Building
  <1>2. LiveContent = Image(0)
    BY DEF Init, LiveContent, Image, Empty, Content, NotEpisodes
  <1>3. Published
    BY <1>2 DEF Init, Published
  <1> QED BY <1>1, <1>3 DEF LockInvariant

(* Under the lock the shared tables belong to the run that is under way:   *)
(* staging is what it has read, next what it has built, and the live       *)
(* tables are one version no newer than its own.                           *)
THEOREM LockInvariantHolds == Spec => [](Locked => LockInvariant)
  <1>1. Init => (Locked => LockInvariant)
    BY InitLocked
  <1>2. PipelineInvariant /\ (Locked => LockInvariant) /\ [Next]_vars
          => (Locked => LockInvariant)'
    BY NextLocked
  <1> QED BY <1>1, <1>2, PipelineInvariantHolds, PTL DEF Spec

(* While a locked run builds, titles_next holds exactly the filtered       *)
(* titles up to its cursor, all from its own version.                      *)
THEOREM NextIsBuiltUpToCursor == Spec => []BuiltUpToCursor
  <1>1. (Locked => LockInvariant) => BuiltUpToCursor
    BY DEF LockInvariant, Building, BuiltUpToCursor, ImageOf, UpTo
  <1> QED BY <1>1, LockInvariantHolds, PTL

---------------------------------------------------------------------------
(* The readers' view *)

LEMMA ReadersStep ==
  ASSUME PipelineInvariant, LockInvariant, [Next]_vars
  PROVE  [Readers!Next]_(Readers!vars)
  <1> USE DEF PipelineInvariant
  <1>1. ASSUME NEW r \in Runs, Swap(r), PostgresAccepts(GoDuration(SwapLockTimeout))
        PROVE  Readers!Next
    <2>1. PICK v \in 0 .. upstream : v <= version[r] /\ LiveContent = Image(v)
      BY <1>1, SwapPublishes
    <2>2. version[r] \in v .. upstream /\ LiveContent' = Image(version[r])
      BY <1>1, <2>1, SwapPublishes
    <2>3. upstream' = upstream
      BY <1>1 DEF Swap
    <2> QED BY <2>1, <2>2, <2>3 DEF Readers!Next, Readers!Publish
  <1>2. CASE Publish
    <2>1. upstream' \in upstream .. MaxVersion /\ live' = live
      BY <1>2, SizesAssumption DEF Publish, TypeOK, Versions
    <2>2. LiveContent' = LiveContent
      BY <2>1 DEF LiveContent
    <2> QED BY <2>1, <2>2 DEF Readers!Next, Readers!Change
  <1>3. ASSUME upstream' = upstream, live' = live
        PROVE  UNCHANGED Readers!vars
    BY <1>3 DEF Readers!vars, LiveContent
  <1>4. ASSUME NEW r \in Runs, Swap(r), ~PostgresAccepts(GoDuration(SwapLockTimeout))
        PROVE  upstream' = upstream /\ live' = live
    BY <1>4 DEF Swap
  <1>5. ASSUME NEW r \in Runs, Step(r), ~Swap(r)
        PROVE  upstream' = upstream /\ live' = live
    BY <1>5 DEF Step, Start, Download, CreateStaging, LoadBatch, FilterTitles,
                FilterConflict, CreateNext, FetchBatch, NoMoreTitles, CopyBatch,
                CopyConflict, BuildDiscover, MissingNext, Cleanup
  <1>6. ASSUME NEW r \in Runs, Fail(r)
        PROVE  upstream' = upstream /\ live' = live
    BY <1>6 DEF Fail
  <1>7. CASE CalmDown \/ UNCHANGED vars
    BY <1>3, <1>7 DEF CalmDown, vars
  <1> QED BY <1>1, <1>2, <1>3, <1>4, <1>5, <1>6, <1>7 DEF Next

(* Under the lock the pipeline implements the readers' view: every step    *)
(* leaves them where they are, or takes them from one complete version to  *)
(* another one that is not older.                                          *)
THEOREM Refinement == Locked => (Spec => ImplementsLiveDataset)
  <1> SUFFICES ASSUME Locked PROVE Spec => ImplementsLiveDataset
    OBVIOUS
  <1>1. Init => Readers!Init
    BY DEF Init, Readers!Init, LiveContent, Image, Empty, Content, NotEpisodes
  <1>2. PipelineInvariant /\ (Locked => LockInvariant) /\ [Next]_vars
          => [Readers!Next]_(Readers!vars)
    BY ReadersStep
  <1> QED BY <1>1, <1>2, PipelineInvariantHolds, LockInvariantHolds, PTL
          DEF Spec, ImplementsLiveDataset, Readers!Spec

---------------------------------------------------------------------------
(* Which lock timeouts PostgreSQL takes *)

(* What Go prints has one number with one unit exactly below a minute.     *)
THEOREM AcceptedTimeouts ==
  ASSUME NEW seconds \in Nat
  PROVE  PostgresAccepts(GoDuration(seconds)) <=> seconds < 60
  <1>1. CASE seconds < 60
    <2>1. GoDuration(seconds) = {<<seconds % 60, "s">>}
      BY <1>1 DEF GoDuration
    <2> QED BY <1>1, <2>1, FS_Singleton DEF PostgresAccepts
  <1>2. CASE seconds >= 60
    <2> SUFFICES ASSUME Cardinality(GoDuration(seconds)) = 1 PROVE FALSE
      BY <1>2 DEF PostgresAccepts
    <2>1. PICK a : a = <<seconds % 60, "s">>
      OBVIOUS
    <2>2. PICK b : b = <<(seconds \div 60) % 60, "m">>
      OBVIOUS
    <2>3. a # b
      BY <2>1, <2>2
    <2>4. \A x : IsFiniteSet({x})
      BY FS_Singleton
    <2>5. IsFiniteSet({a} \cup {b})
      BY <2>4, FS_Union
    <2>6. a \in GoDuration(seconds) /\ b \in GoDuration(seconds)
      BY <1>2, <2>1, <2>2 DEF GoDuration
    <2>7. CASE seconds < 3600
      <3>1. GoDuration(seconds) = {a} \cup {b}
        BY <1>2, <2>1, <2>2, <2>7 DEF GoDuration
      <3>2. PICK x : GoDuration(seconds) = {x}
        BY <2>5, <3>1, FS_Singleton
      <3> QED BY <2>3, <2>6, <3>2
    <2>8. CASE seconds >= 3600
      <3> DEFINE c == <<seconds \div 3600, "h">>
      <3>1. GoDuration(seconds) = {a} \cup {b} \cup {c}
        BY <1>2, <2>1, <2>2, <2>8 DEF GoDuration
      <3> HIDE DEF c
      <3>2. IsFiniteSet({a} \cup {b} \cup {c})
        BY <2>4, <2>5, FS_Union
      <3>3. PICK x : GoDuration(seconds) = {x}
        BY <3>1, <3>2, FS_Singleton
      <3> QED BY <2>3, <2>6, <3>3
    <2> QED BY <2>7, <2>8
  <1> QED BY <1>1, <1>2

(* With a timeout below a minute, as the default, a run whose next tables  *)
(* are ready and that meets no fault publishes them.                       *)
THEOREM ShortTimeoutsPublish == SwapLockTimeout < 60 => (Spec => ReadySwapPublishes)
  <1> SUFFICES ASSUME SwapLockTimeout < 60 PROVE Spec => ReadySwapPublishes
    OBVIOUS
  <1>1. PostgresAccepts(GoDuration(SwapLockTimeout))
    BY SizesAssumption, AcceptedTimeouts
  <1>2. TypeOK /\ [Next]_vars =>
          [\A r \in Runs : pc[r] = "swap" /\ next.exists /\ calm /\ pc'[r] # "swap"
             => pc'[r] = "cleanup"]_vars
    <2> SUFFICES ASSUME TypeOK, Next, NEW r \in Runs,
                        pc[r] = "swap", next.exists, calm, pc'[r] # "swap"
                 PROVE  pc'[r] = "cleanup"
      OBVIOUS
    <2>1. ASSUME NEW q \in Runs, Step(q)
          PROVE  pc'[r] = "cleanup"
      <3>1. CASE q # r
        <4>1. pc'[r] = pc[r]
          BY <2>1, <3>1 DEF TypeOK, Step, Start, Download, CreateStaging, LoadBatch,
             FilterTitles, FilterConflict, CreateNext, FetchBatch, NoMoreTitles, CopyBatch,
             CopyConflict, BuildDiscover, MissingNext, Swap, Cleanup, End, Goto
        <4> QED BY <4>1
      <3>2. CASE q = r
        <4>1. Swap(r)
          BY <2>1, <3>2 DEF Step, Start, Download, CreateStaging, LoadBatch,
             FilterTitles, FilterConflict, CreateNext, FetchBatch, NoMoreTitles, CopyBatch,
             CopyConflict, BuildDiscover, MissingNext, Cleanup
        <4> QED BY <1>1, <4>1 DEF Swap, Goto, TypeOK
      <3> QED BY <3>1, <3>2
    <2>2. ~\E q \in Runs : Fail(q)
      BY DEF Fail
    <2>3. ~Publish /\ ~CalmDown
      BY DEF Publish, CalmDown
    <2> QED BY <2>1, <2>2, <2>3 DEF Next
  <1> QED BY <1>2, TypesHold, PTL DEF Spec, ReadySwapPublishes

---------------------------------------------------------------------------
(* Under the lock nothing but a fault keeps a run from publishing          *)

(* From create_next.sql to the swap the next tables exist. *)
Prepared == \A r \in Runs : pc[r] \in {"build", "copy", "discover", "swap"} => next.exists

LEMMA StepPrepared ==
  ASSUME Locked, PipelineInvariant, LockInvariant, Prepared, NEW q \in Runs, Step(q)
  PROVE  Prepared'
  <1> SUFFICES ASSUME NEW r \in Runs, pc'[r] \in {"build", "copy", "discover", "swap"}
               PROVE  next'.exists
    BY DEF Prepared
  <1> USE DEF PipelineInvariant, LockInvariant, Goto
  <1>0. pc \in [Runs -> Stages] /\ next \in Tables
    BY DEF TypeOK
  <1>1. CASE Start(q) \/ Download(q) \/ CreateStaging(q) \/ LoadBatch(q) \/ FilterTitles(q)
    <2>1. next' = next /\ (r = q => pc'[r] \notin {"build", "copy", "discover", "swap"})
      BY <1>0, <1>1 DEF Start, Download, CreateStaging, LoadBatch, FilterTitles
    <2>2. r # q => pc'[r] = pc[r]
      BY <1>0, <1>1 DEF Start, Download, CreateStaging, LoadBatch, FilterTitles
    <2> QED BY <2>1, <2>2 DEF Prepared
  <1>2. CASE FilterConflict(q) \/ CopyConflict(q) \/ MissingNext(q)
    <2>1. next' = next /\ pc' = [pc EXCEPT ![q] = "idle"]
      BY <1>2 DEF FilterConflict, CopyConflict, MissingNext, End
    <2> QED BY <1>0, <2>1 DEF Prepared
  <1>3. CASE CreateNext(q)
    BY <1>3 DEF CreateNext, Empty
  <1>4. CASE FetchBatch(q) \/ NoMoreTitles(q) \/ CopyBatch(q) \/ BuildDiscover(q)
    <2>1. next.exists /\ next'.exists = next.exists
      BY <1>0, <1>4 DEF FetchBatch, NoMoreTitles, CopyBatch, BuildDiscover, Prepared, Tables
    <2> QED BY <2>1
  <1>5. CASE Swap(q)
    <2>1. pc[q] # "idle" /\ pc'[q] \in {"idle", "cleanup"} /\ (r # q => pc'[r] = pc[r])
      BY <1>0, <1>5 DEF Swap, End
    <2>2. r # q => pc[r] = "idle"
      BY <2>1, OthersIdle
    <2> QED BY <2>1, <2>2
  <1>6. CASE Cleanup(q)
    <2>1. r # q /\ pc'[r] = pc[r] /\ next.exists
      BY <1>0, <1>6 DEF Cleanup, End, Prepared
    <2> QED BY <1>6, <2>1 DEF Cleanup, Empty
  <1> QED BY <1>1, <1>2, <1>3, <1>4, <1>5, <1>6 DEF Step

LEMMA NextPrepared ==
  ASSUME Locked, PipelineInvariant, LockInvariant, Prepared, [Next]_vars
  PROVE  Prepared'
  <1>1. ASSUME NEW q \in Runs, Step(q)
        PROVE  Prepared'
    BY <1>1, StepPrepared
  <1>2. ASSUME NEW q \in Runs, Fail(q)
        PROVE  Prepared'
    BY <1>2 DEF Fail, End, Goto, Prepared, PipelineInvariant, TypeOK
  <1>3. CASE Publish \/ CalmDown \/ UNCHANGED vars
    BY <1>3 DEF Publish, CalmDown, vars, Prepared
  <1> QED BY <1>1, <1>2, <1>3 DEF Next

(* A locked run has staged each title once. *)
LEMMA NoFilterConflict ==
  ASSUME LockInvariant, NEW r \in Runs
  PROVE  ~FilterConflict(r)
  <1> SUFFICES ASSUME FilterConflict(r) PROVE FALSE
    OBVIOUS
  <1>1. staging = RowsOf(r, version[r], Dataset(version[r]))
    BY DEF FilterConflict, LockInvariant, Loading
  <1>2. PICK t \in CurrentYear : Cardinality({row \in staging : TitleOf(row) = t}) > 1
    BY DEF FilterConflict, StagedTwice
  <1>3. PICK x : x = <<t, version[r], r>>
    OBVIOUS
  <1>4. PICK S : S = {row \in staging : TitleOf(row) = t}
    OBVIOUS
  <1>5. S \in SUBSET {x}
    BY <1>1, <1>3, <1>4 DEF RowsOf, TitleOf
  <1>6. Cardinality(S) \in Nat /\ Cardinality(S) <= 1
    <2>1. IsFiniteSet({x}) /\ Cardinality({x}) = 1
      BY FS_Singleton
    <2>2. IsFiniteSet(S) /\ Cardinality(S) <= Cardinality({x})
      BY <1>5, <2>1, FS_Subset
    <2> QED BY <2>1, <2>2, FS_CardinalityType
  <1> QED BY <1>2, <1>4, <1>6

(* Its next batch lies behind what it has built. *)
LEMMA NoCopyConflict ==
  ASSUME PipelineInvariant, LockInvariant, Prepared, NEW r \in Runs
  PROVE  ~CopyConflict(r)
  <1> SUFFICES ASSUME CopyConflict(r) PROVE FALSE
    OBVIOUS
  <1> USE DEF PipelineInvariant, LockInvariant
  <1>1. pc[r] = "copy" /\ next.exists
    BY DEF CopyConflict, Prepared
  <1>2. PICK a \in batch[r], b \in next.titles : TitleOf(a) = TitleOf(b)
    BY <1>1 DEF CopyConflict, CanCopy, TitlesOf
  <1>3. /\ <<a[1], a[2]>> \in ImageOf(version[r], page[r])
        /\ page[r] = Page(r)
    BY <1>1 DEF Building, Content
  <1>4. <<b[1], b[2]>> \in
          ImageOf(version[r], UpTo(Kept(Dataset(version[r])), last[r]))
    BY <1>1 DEF Building, Content
  <1>5. a[1] \in page[r] /\ b[1] <= last[r]
    BY <1>3, <1>4 DEF ImageOf, UpTo
  <1>6. a[1] \in Titles /\ a[1] > last[r]
    BY <1>3, <1>5 DEF Page, FirstOf, TypeOK
  <1> QED BY <1>2, <1>5, <1>6, SizesAssumption DEF TitleOf, Titles, TypeOK

(* Under the lock, and with a timeout PostgreSQL accepts, a run that meets *)
(* no fault ends by publishing, whatever earlier runs left behind when     *)
(* they died: for any titles, versions and batch sizes.                    *)
THEOREM LockedRunsPublish ==
  ASSUME SwapLockTimeout < 60
  PROVE  Spec => FaultlessRunsPublish
  <1> DEFINE Ends == \A r \in Runs :
               Locked /\ calm /\ pc[r] # "idle" /\ pc'[r] = "idle" => pc[r] = "cleanup"
             Inv == PipelineInvariant /\ (Locked => LockInvariant /\ Prepared)
  <1>1. PostgresAccepts(GoDuration(SwapLockTimeout))
    BY SizesAssumption, AcceptedTimeouts
  <1>2. Init => Prepared
    BY DEF Init, Prepared
  <1>3. Spec => [](Locked => Prepared)
    <2>1. /\ PipelineInvariant /\ (Locked => LockInvariant)
          /\ (Locked => Prepared) /\ [Next]_vars
          => (Locked => Prepared)'
      BY NextPrepared
    <2> QED BY <1>2, <2>1, PipelineInvariantHolds, LockInvariantHolds, PTL DEF Spec
  <1>4. Inv /\ [Next]_vars => [Ends]_vars
    <2> SUFFICES ASSUME Inv, Next, Locked, calm, NEW r \in Runs,
                        pc[r] # "idle", pc'[r] = "idle"
                 PROVE  pc[r] = "cleanup"
      OBVIOUS
    <2>1. pc \in [Runs -> Stages]
      BY DEF PipelineInvariant, TypeOK
    <2>2. ASSUME NEW q \in Runs, Step(q)
          PROVE  pc[r] = "cleanup"
      <3>1. q = r
        BY <2>1, <2>2 DEF Step, Start, Download, CreateStaging, LoadBatch, FilterTitles,
           FilterConflict, CreateNext, FetchBatch, NoMoreTitles, CopyBatch, CopyConflict,
           BuildDiscover, MissingNext, Swap, Cleanup, End, Goto
      <3>2. ~FilterConflict(r) /\ ~CopyConflict(r) /\ ~MissingNext(r)
        BY NoFilterConflict, NoCopyConflict DEF MissingNext, Prepared
      <3>3. ~Swap(r)
        BY <1>1, <2>1 DEF Swap, Goto
      <3>4. Cleanup(r)
        BY <2>1, <2>2, <3>1, <3>2, <3>3 DEF Step, Start, Download, CreateStaging,
           LoadBatch, FilterTitles, CreateNext, FetchBatch, NoMoreTitles, CopyBatch,
           BuildDiscover, Goto
      <3> QED BY <3>4 DEF Cleanup
    <2>3. ~(\E q \in Runs : Fail(q)) /\ ~Publish /\ ~CalmDown
      BY DEF Fail, Publish, CalmDown
    <2> QED BY <2>2, <2>3 DEF Next
  <1> QED
    BY <1>3, <1>4, PipelineInvariantHolds, LockInvariantHolds, PTL
    DEF Spec, FaultlessRunsPublish
===========================================================================

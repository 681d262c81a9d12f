------------------------------- MODULE TsvLoad -------------------------------
(***************************************************************************)
(* Loading the seven dataset files into the staging tables:                *)
(* loadStagingInBatches in api/internal/etl/staging_runtime.go and the     *)
(* copy source of tsv_loader.go it feeds CopyFrom with.                    *)
(*                                                                         *)
(* The files are read one after the other, line by line.  A line passes a  *)
(* raw filter, its record feeds the allowlists that the filters of later   *)
(* files use, and every LoadBatchSize rows end a CopyFrom, which commits   *)
(* them.  What the reader finds at the end of a file depends on whether    *)
(* its last line is terminated.                                            *)
(***************************************************************************)
EXTENDS Rows, SequencesExt

CONSTANTS
  Inputs,         \* the data directories a run may find: lines of each file
  LoadBatchSize,  \* ETL_LOAD_BATCH_SIZE
  MinNumVotes,    \* ETL_MIN_NUMVOTES
  DatasetYear     \* the year of cfg.DatasetDate

ASSUME LoadAssumption ==
  LoadBatchSize \in Nat \ {0} /\ MinNumVotes \in Nat /\ DatasetYear \in Nat

(* The files in the order they are loaded: basics, ratings, then specs *)
LoadOrder == <<"basics", "ratings", "akas", "principals", "crew", "episode", "names">>
Files == ToSet(LoadOrder)

(* A line: empty, a header whose columns fit, one whose columns do not, or *)
(* a row with the columns the code looks at.                               *)
Blank == [kind |-> "blank"]
Header == [kind |-> "header"]
BadHeader == [kind |-> "badHeader"]
Line(row) == [kind |-> "row", row |-> row]

(* The lines of a file that hold its rows: all but the empty ones and the  *)
(* first of the others, which is the header, even if it looks like a row.  *)
RowLines(lines) ==
  {i \in DOMAIN lines : lines[i] # Blank /\ \E j \in 1 .. i - 1 : lines[j] # Blank}

KeptTypes == {"movie", "tvmovie", "tvseries", "tvminiseries", "tvspecial", "tvepisode"}
Producers == {"producer", "executive_producer", "associate_producer", "co_producer",
              "line_producer"}
KeptCategories == Actors \cup Producers

VARIABLES
  files,       \* the lines of each file
  terminated,  \* the last line of every file ends with a newline
  stage,       \* "copy" while loading, "loaded", "failed"; later stages follow
  at,          \* the file being loaded, an index of LoadOrder
  pos,         \* lines of it that have been read
  headerRead,  \* s.headerRead
  exhausted,   \* s.exhausted
  stopped,     \* Next has returned false for this CopyFrom only
  batch,       \* rows sent by the CopyFrom under way
  allow,       \* the allowlists, sets of title and name identifiers
  stg          \* rows committed to each staging table

input == <<files, terminated>>
reader == <<at, pos, headerRead, exhausted, stopped, batch, allow>>
loadVars == <<input, stage, reader, stg>>

(* parseTconstID and parseNconstID make "tt" or "nm" and digits the number *)
(* the digits write, below 2^32; a title or person is that number here.    *)
(* What they refuse, and two spellings of one number, IMDb does not send.  *)
NoAllow == [type |-> {}, year |-> {}, voted |-> {}, final |-> {}, names |-> {}]

LoadInit ==
  /\ files \in Inputs
  /\ terminated \in BOOLEAN
  /\ stage = "copy"
  /\ at = 1
  /\ pos = 0
  /\ headerRead = FALSE
  /\ exhausted = FALSE
  /\ stopped = FALSE
  /\ batch = <<>>
  /\ allow = NoAllow
  /\ stg = [f \in Files |-> <<>>]

---------------------------------------------------------------------------
(* Operators whose name ends in _Bug are variants of the definition they   *)
(* precede, each the way one slip in the code would change it.  No action  *)
(* uses them: they show which property notices the slip.                   *)
---------------------------------------------------------------------------
File == LoadOrder[at]
Lines == files[File]
CurrentLine == Lines[pos + 1]

(* readLine returns the current line together with io.EOF. *)
AtEof == pos + 1 = Len(Lines) /\ ~terminated

(* Next goes on reading: no error, not exhausted, the batch is not full.   *)
Reading ==
  /\ stage = "copy"
  /\ ~exhausted /\ ~stopped
  /\ Len(batch) < LoadBatchSize

(* spec.FilterRaw of each file *)
FilterRaw(row) ==
  CASE File = "basics" -> row.type \in KeptTypes
    [] File = "ratings" -> row.t \in allow.type
    [] File \in {"akas", "crew"} -> row.t \in allow.final
    [] File = "principals" -> row.t \in allow.final /\ row.cat \in KeptCategories
    [] File = "episode" -> row.parent \in allow.final
    [] File = "names" -> row.n \in allow.names

(* spec.OnRecord of each file: what later filters will let through.        *)
(* Null is below every number of votes.                                    *)
OnRecord(row) ==
  CASE File = "basics" ->
         [allow EXCEPT !.type = @ \cup {row.t},
                       !.year = IF row.year = DatasetYear THEN @ \cup {row.t} ELSE @]
    [] File = "ratings" ->
         [allow EXCEPT !.voted = IF row.votes >= MinNumVotes THEN @ \cup {row.t} ELSE @]
    [] File = "principals" -> [allow EXCEPT !.names = @ \cup {row.n}]
    [] File = "crew" ->
         [allow EXCEPT !.names = @ \cup ToSet(row.directors) \cup ToSet(row.writers)]
    [] OTHER -> allow

EndOfFile_Bug ==   \* the end of the input only ends the batch
  /\ Reading
  /\ pos = Len(Lines)
  /\ stopped' = TRUE
  /\ UNCHANGED <<input, stage, at, pos, headerRead, exhausted, batch, allow, stg>>

(* readLine finds nothing but the end of the file. *)
EndOfFile ==
  /\ Reading
  /\ pos = Len(Lines)
  /\ exhausted' = TRUE
  /\ UNCHANGED <<input, stage, at, pos, headerRead, stopped, batch, allow, stg>>

(* An empty line is passed over; an unterminated one is the end of file.   *)
SkipBlank ==
  /\ Reading
  /\ pos < Len(Lines)
  /\ CurrentLine = Blank
  /\ pos' = pos + 1
  /\ exhausted' = AtEof
  /\ UNCHANGED <<input, stage, at, headerRead, stopped, batch, allow, stg>>

(* The first line that is not empty is taken for the header; its number of *)
(* columns must fit.                                                       *)
ReadHeader ==
  /\ Reading
  /\ pos < Len(Lines)
  /\ ~headerRead
  /\ CurrentLine.kind \notin {"blank", "badHeader"}
  /\ headerRead' = TRUE
  /\ pos' = pos + 1
  /\ exhausted' = AtEof
  /\ UNCHANGED <<input, stage, at, stopped, batch, allow, stg>>

(* A row the filter refuses; at the end of the file it ends the batch, and *)
(* the next one finds the end.                                             *)
SkipRow ==
  /\ Reading
  /\ pos < Len(Lines)
  /\ headerRead
  /\ CurrentLine.kind = "row"
  /\ ~FilterRaw(CurrentLine.row)
  /\ pos' = pos + 1
  /\ stopped' = AtEof
  /\ UNCHANGED <<input, stage, at, headerRead, exhausted, batch, allow, stg>>

TakeRow_Bug ==   \* the row that comes with io.EOF is dropped
  /\ Reading
  /\ pos < Len(Lines)
  /\ headerRead
  /\ CurrentLine.kind = "row"
  /\ FilterRaw(CurrentLine.row)
  /\ pos' = pos + 1
  /\ stopped' = AtEof
  /\ batch' = IF AtEof THEN batch ELSE Append(batch, CurrentLine.row)
  /\ allow' = IF AtEof THEN allow ELSE OnRecord(CurrentLine.row)
  /\ UNCHANGED <<input, stage, at, headerRead, exhausted, stg>>

(* A row is handed to CopyFrom, whether or not io.EOF came with it.        *)
TakeRow ==
  /\ Reading
  /\ pos < Len(Lines)
  /\ headerRead
  /\ CurrentLine.kind = "row"
  /\ FilterRaw(CurrentLine.row)
  /\ pos' = pos + 1
  /\ batch' = Append(batch, CurrentLine.row)
  /\ allow' = OnRecord(CurrentLine.row)
  /\ UNCHANGED <<input, stage, at, headerRead, exhausted, stopped, stg>>

(* finalAllowlist is the union of the titles of the year and the voted     *)
(* ones, made after ratings; the sets it comes from are dropped.           *)
Merged(a) ==
  IF File # "ratings" THEN a
  ELSE [NoAllow EXCEPT !.final = a.year \cup a.voted]

(* CopyFrom commits its rows.  The loop of loadTSVToTable goes on with     *)
(* another one unless the source is done, then the next file is opened.    *)
FinishCopy ==
  /\ stage = "copy"
  /\ exhausted \/ stopped \/ Len(batch) = LoadBatchSize
  /\ stg' = [stg EXCEPT ![File] = @ \o batch]
  /\ batch' = <<>>
  /\ stopped' = FALSE
  /\ exhausted' = FALSE
  /\ IF ~exhausted THEN UNCHANGED <<stage, at, pos, headerRead, allow>>
     ELSE /\ pos' = 0
          /\ headerRead' = FALSE
          /\ IF at < Len(LoadOrder)
             THEN at' = at + 1 /\ allow' = Merged(allow) /\ UNCHANGED stage
             ELSE stage' = "loaded" /\ allow' = NoAllow /\ UNCHANGED at
  /\ UNCHANGED input

(* A header that does not fit, a file that is missing or damaged, or a     *)
(* statement that fails: the rows of the CopyFrom under way are lost and   *)
(* the run returns the error.                                              *)
LoadFails ==
  /\ stage = "copy"
  /\ stage' = "failed"
  /\ batch' = <<>>
  /\ UNCHANGED <<input, at, pos, headerRead, exhausted, stopped, allow, stg>>

LoadNext ==
  \/ EndOfFile
  \/ SkipBlank
  \/ ReadHeader
  \/ SkipRow
  \/ TakeRow
  \/ FinishCopy
  \/ LoadFails
===========================================================================

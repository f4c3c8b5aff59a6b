----------------------------- MODULE KnowledgeAdmin -----------------------------
(****************************************************************************)
(* The knowledge pages of the administration (RealSQLKnowledgeAdminAPI of   *)
(* admin/webui.py behind api/admin_router.py): single entries and imports.  *)
(* Every statement is an await, so the calls of other administrators come   *)
(* between two rows of an import; its own rows are theirs only after the    *)
(* commit.                                                                  *)
(****************************************************************************)
EXTENDS Naturals, Sequences, FiniteSets

CONSTANTS FileRows,  \* bound on the rows of a file
          MaxIds     \* bound on the ids the table has given out

ASSUME ImportBounds == FileRows \in Nat /\ MaxIds \in Nat

VARIABLES table,   \* committed rows of knowledge_base: id -> title, "none" when there is none
          next_id, \* the table's sequence, which rollbacks do not turn back
          import,  \* the import in progress
          result,  \* its ImportResult
          stored,  \* history: rows the commit of the import made durable
          unheard  \* history: that commit was done, but raised

kaVars == <<table, next_id, import, result, stored, unheard>>

Idle == [format |-> "none", rows |-> <<>>, pending |-> {}]
NoCounts == [imported |-> 0, skipped |-> 0, rows |-> 0]

KaInit ==
  /\ table = [i \in 1..MaxIds |-> "none"] /\ next_id = 1
  /\ import = Idle /\ stored = 0 /\ unheard = FALSE
  /\ result = NoCounts

--------------------------------------------------------------------------------
(****************************************************************************)
(* crud, one commit a call.  A commit that raises may have been done or     *)
(* not; an id it used stays used.                                           *)
(****************************************************************************)
Created(title, committed) ==
  /\ next_id <= MaxIds /\ next_id' = next_id + 1
  /\ table' = IF committed THEN [table EXCEPT ![next_id] = title] ELSE table
  /\ UNCHANGED <<import, result, stored, unheard>>

\* A row that is not there is no error: the answer has ok = False.
Changed(entry_id, value) ==
  /\ table[entry_id] # "none"
  /\ table' = [table EXCEPT ![entry_id] = value]
  /\ UNCHANGED <<next_id, import, result, stored, unheard>>

crud ==
  \/ \E committed \in BOOLEAN : Created("by hand", committed)
  \/ \E i \in 1..MaxIds, value \in {"edited", "none"} : Changed(i, value)

--------------------------------------------------------------------------------
(****************************************************************************)
(* Imports.  Rows: "untitled" ones fail the checks before the database,     *)
(* "refused" ones the INSERT.                                               *)
(****************************************************************************)
Begins(format, rows, untitled) ==
  /\ import = Idle
  /\ import' = [format |-> format, rows |-> rows, pending |-> {}]
  /\ result' = [imported |-> 0, skipped |-> untitled, rows |-> Len(rows) + untitled]
  /\ stored' = 0 /\ unheard' = FALSE
  /\ UNCHANGED <<table, next_id>>

\* A file that cannot be decoded has no rows, and the database is not asked.
CsvStarts(rows, decoded) ==
  IF decoded THEN Begins("csv", rows, 0) ELSE Begins("none", <<>>, 0)

Skipped(n) == result' = [result EXCEPT !.skipped = @ + n]

NextRow == [import EXCEPT !.rows = Tail(@)]

Inserted(row) ==
  /\ row = "good" /\ next_id <= MaxIds
  /\ next_id' = next_id + 1
  /\ import' = [NextRow EXCEPT !.pending = @ \union {next_id}]

\* begin_nested: a refused row is undone alone.
RolledBackRow == NextRow

\* One row of a CSV file.
import_csv ==
  /\ import.format = "csv" /\ import.rows # <<>>
  /\ \/ /\ Inserted(Head(import.rows))
        /\ result' = [result EXCEPT !.imported = @ + 1]
     \/ /\ Head(import.rows) = "untitled"
        /\ import' = NextRow /\ Skipped(1) /\ UNCHANGED next_id
     \/ /\ Head(import.rows) = "refused"
        /\ import' = RolledBackRow /\ Skipped(1) /\ UNCHANGED next_id
  /\ UNCHANGED <<table, stored, unheard>>

\* The reader meets what is no CSV, outside of the try: the request ends as a 500
\* that tells no counts, and the session is closed without a commit.
ReaderRaises ==
  /\ import.format = "csv"
  /\ import' = Idle /\ result' = NoCounts
  /\ UNCHANGED <<table, next_id, stored, unheard>>

\* Wrong on purpose: the rows counted on the way stay counted.
CountsAfterCsv(outcome) == result

\* A commit that raises moves what was counted to the skipped rows.
CsvCounts(outcome) ==
  IF outcome = "done" THEN result
  ELSE [result EXCEPT !.skipped = @ + result.imported, !.imported = 0]

\* The database refuses the commit, or does it; what it did may get lost on the way
\* back, and then the commit raises as well.
Commit(outcome) ==
  /\ table' = IF outcome = "refused" THEN table
              ELSE [i \in 1..MaxIds |-> IF i \in import.pending THEN "imported" ELSE table[i]]
  /\ stored' = IF outcome = "refused" THEN 0 ELSE Cardinality(import.pending)
  /\ unheard' = (outcome = "lost")
  /\ import' = Idle
  /\ UNCHANGED next_id

CsvEnds(outcome) ==
  /\ import.format = "csv" /\ import.rows = <<>>
  /\ result' = CsvCounts(outcome)
  /\ Commit(outcome)

\* JSON: the untitled rows are taken out first, wherever they stand, and without
\* any other the database is not asked; one refused row undoes the file.
JsonStarts(rows, untitled) == Begins(IF rows = <<>> THEN "none" ELSE "json", rows, untitled)

JsonRow ==
  /\ import.format = "json" /\ import.rows # <<>>
  /\ Inserted(Head(import.rows))
  /\ UNCHANGED <<table, result, stored, unheard>>

JsonEnds(outcome) ==
  /\ import.format = "json"
  /\ import.rows # <<>> => outcome = "refused" /\ Head(import.rows) = "refused"
  /\ result' = LET n == result.rows - result.skipped
               IN  IF outcome = "done" THEN [result EXCEPT !.imported = n]
                   ELSE [result EXCEPT !.skipped = @ + n]
  /\ Commit(outcome)

Outcomes == {"done", "refused", "lost"}

Files == UNION {[1..n -> {"good", "untitled", "refused"}] : n \in 1..FileRows}
TitledRows == UNION {[1..n -> {"good", "refused"}] : n \in 0..FileRows}

KaNext ==
  \/ crud
  \/ \E rows \in Files, decoded \in BOOLEAN : CsvStarts(rows, decoded)
  \/ \E rows \in TitledRows, untitled \in 0..FileRows :
       Len(rows) + untitled \in 1..FileRows /\ JsonStarts(rows, untitled)
  \/ import_csv \/ ReaderRaises \/ JsonRow
  \/ \E outcome \in Outcomes : CsvEnds(outcome) \/ JsonEnds(outcome)

KaSpec == KaInit /\ [][KaNext]_kaVars

--------------------------------------------------------------------------------
(****************************************************************************)
(* Properties.                                                              *)
(****************************************************************************)

\* An administrator is never told of more imported rows than the database holds,
\* whichever row, savepoint or commit failed on the way, and of fewer only when the
\* answer of a commit that was done got lost; every row of an answered file is
\* either imported or skipped.
ImportCountsAreTrue ==
  import = Idle =>
    /\ result.imported <= stored /\ (result.imported = stored \/ unheard)
    /\ result.imported + result.skipped = result.rows
================================================================================

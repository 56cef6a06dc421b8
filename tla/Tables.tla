------------------------------- MODULE Tables -------------------------------
(***************************************************************************)
(* webapp/ingestion.py: what becomes of an uploaded table before it is     *)
(* stored.  A record is the sequence of its cells in column order, since   *)
(* two headers that differ only in white space end up as one column and    *)
(* the later cell wins.                                                    *)
(***************************************************************************)
EXTENDS Naturals, Sequences, SequencesExt

CONSTANTS
  Trim,    \* str.strip, on every header and cell that occurs
  Empty,   \* the empty string
  Nothing  \* None

\* Records of cells, in the order of the file.
IsTable(t) == t \in Seq(ToSet(t)) /\ \A row \in ToSet(t) : row \in Seq(ToSet(row))

\* A cleaned row: a function from the trimmed headers to cells.
Column(row, h) == {i \in DOMAIN row : Trim[row[i].key] = h}

CleanCell(c) == IF c = Nothing \/ Trim[c] = Empty THEN Nothing ELSE Trim[c]

CleanRow(row) ==
  [h \in {Trim[row[i].key] : i \in DOMAIN row} |->
     CleanCell(row[CHOOSE i \in Column(row, h) : \A j \in Column(row, h) : j <= i].value)]

\* Judged on the cells as read, whatever their column.
AllBlank(row) == \A i \in DOMAIN row : CleanCell(row[i].value) = Nothing

NoRows == [rows |-> << >>, blank |-> 0, duplicate |-> 0]

\* Seeded fault: a row is only compared with the one before it.
SameAsTheLast(acc, row) == acc.rows # << >> /\ CleanRow(row) = acc.rows[Len(acc.rows)]

IsDuplicate(acc, row) == CleanRow(row) \in ToSet(acc.rows)

\* One turn of the loop.
CleanOne(acc, row) ==
  CASE AllBlank(row) -> [acc EXCEPT !.blank = @ + 1]
    [] ~AllBlank(row) /\ IsDuplicate(acc, row) -> [acc EXCEPT !.duplicate = @ + 1]
    [] OTHER -> [acc EXCEPT !.rows = Append(@, CleanRow(row))]

\* What the first i records come to.
Turns(table) ==
  LET turn[i \in 0..Len(table)] == IF i = 0 THEN NoRows ELSE CleanOne(turn[i - 1], table[i])
  IN turn

Cleanse(table) == Turns(table)[Len(table)]

-----------------------------------------------------------------------------
(* What the loop is for, stated without it.                                *)

\* No two headers of a row are the same but for white space.
HeadersApart(table) ==
  \A r \in ToSet(table) : \A i, j \in DOMAIN r : Trim[r[i].key] = Trim[r[j].key] => i = j

BlankRow(r) == \A h \in DOMAIN r : r[h] = Nothing

\* The first record of the table that comes out as r.
FirstAs(table, r) == CHOOSE i \in DOMAIN table : /\ CleanRow(table[i]) = r
                                                 /\ \A j \in DOMAIN table : CleanRow(table[j]) = r => i <= j

IsCleanCopy(cleaned, table) ==
  LET rows == cleaned.rows IN
  /\ Len(table) = Len(rows) + cleaned.blank + cleaned.duplicate
  /\ \A i, j \in DOMAIN rows : rows[i] = rows[j] => i = j
  /\ HeadersApart(table) =>
       /\ ToSet(rows) = {r \in {CleanRow(table[i]) : i \in DOMAIN table} : ~BlankRow(r)}
       /\ \A i, j \in DOMAIN rows : i < j => FirstAs(table, rows[i]) < FirstAs(table, rows[j])
=============================================================================

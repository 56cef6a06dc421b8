---------------------------- MODULE MCArtifacts ----------------------------
EXTENDS Artifacts, TLC

CONSTANTS garbage, huge, unreadable, a, b

White == [s \in {"", " ", "x", " x", "k", "k ", "j"} |->
            CASE s = " " -> "" [] s = " x" -> "x" [] s = "k " -> "k" [] OTHER -> s]

\* Every table of up to three rows over two columns, of a full, a padded and an
\* empty cell; the columns have headers of their own or the same but for a blank.
TableRows(h1, h2, n) == [1..n -> {<<[key |-> h1, value |-> v], [key |-> h2, value |-> w]>> :
                                v, w \in {"x", " x", ""}}]
AsFile(rs) == [table |-> rs]
SmallTables == {AsFile(rs) : rs \in UNION {TableRows("k", h, n) : h \in {"j", "k "}, n \in 0..3}}

OneRow == <<[key |-> "k", value |-> "x"]>>
T1 == AsFile(<<OneRow>>)
T2 == AsFile(<<OneRow, OneRow>>)

TheData == SmallTables \cup {T1, T2, garbage, huge}
TheHalf == [d \in TheData |-> IF d = T2 THEN T1 ELSE d]
TheTable(d) == d.table
TheConversion == [d \in TheData |-> IF d \in {garbage, huge} THEN unreadable ELSE Cleanse(d.table)]

Start == [shelf |-> [n \in {} |-> T1], among |-> {}, uploads |-> 0, drops |-> 0, faults |-> 0, edits |-> 0]

\* One small table is uploaded; files come by every way at once; files that
\* cannot be taken; users work on one or two artifacts; a little of everything.
TheBudgets ==
  {[Start EXCEPT !.among = {t}, !.uploads = 1] : t \in SmallTables}
  \cup {[Start EXCEPT !.among = {T1, T2}, !.uploads = 2, !.drops = 1, !.faults = 1],
        [Start EXCEPT !.among = {garbage, huge}, !.uploads = 1, !.drops = 1, !.faults = 1],
        [Start EXCEPT !.among = {T1}, !.drops = 2],
        [Start EXCEPT !.shelf = [n \in {a, b} |-> T1], !.edits = 3],
        [Start EXCEPT !.shelf = [n \in {a} |-> T1], !.edits = 4],
        [Start EXCEPT !.among = {T1}, !.uploads = 1, !.faults = 1, !.edits = 2]}

\* Enough for an artifact to be tagged, deleted, and another moved to its name.
FourEdits == {[Start EXCEPT !.shelf = [n \in {a, b} |-> T1], !.edits = 4]}

\* Nothing is claimed of names two requests have worked on at once.
NotBlurred == blurred = {}

\* Among the names users choose is one an upload may be stamped with.
TheGiven == {a, b, <<0, "x", "json">>}

AlikeEditors == Permutations(Editors)
=============================================================================

---------------------------- MODULE Corrections ----------------------------
(***************************************************************************)
(* The correction sheet: the open queries of a state and period go out as  *)
(* rows of a workbook, and the completed sheet comes back as responses,    *)
(* all in one transaction.  Nothing ties the two: a sheet may come back    *)
(* when its queries are settled, with rows of another sheet, or with one   *)
(* query in two rows.                                                      *)
(***************************************************************************)
EXTENDS ReturnsProperties, SequencesExt

(* says: the tokens in the response column.  "corrected" is a correction,  *)
(* "confirmed" a confirmation, and "no change" both, as it has "change" in *)
(* it.                                                                     *)
Answers == [says : SUBSET {"CONFIRM", "CORRECT"}, figure : Figure \cup {None},
            explained : BOOLEAN]

(* The queries a sheet of the state and period is built from.              *)
SheetFor(st, p) ==
    {q \in DOMAIN query : q.state = st /\ q.period = p /\ IsOpen(Db, q)}

(* A row that was not left untouched.                                      *)
Filled(row) == row.says # {} \/ row.figure # None \/ row.explained

Corrected(row) == "CORRECT" \in row.says \/ (row.says = {} /\ row.figure # None)

(* Mutant: whose query it is is not looked at.                             *)
TakesAnySheet(d, row, st, p) ==
    /\ row.query \in DOMAIN d.query /\ IsOpen(d, row.query)
    /\ Corrected(row) => row.figure # None
    /\ row.explained

(* A row is taken if its query exists, belongs to the sheet's state and    *)
(* period and is open now, if a correction has a figure, and if there is   *)
(* an explanation.  The others are skipped with a warning.                 *)
Takes(d, row, st, p) ==
    /\ row.query \in DOMAIN d.query
    /\ row.query.state = st /\ row.query.period = p /\ IsOpen(d, row.query)
    /\ Corrected(row) => row.figure # None
    /\ row.explained

(* The response of a row corrects the figure of the queried period.        *)
Applied(d, row) ==
    [d EXCEPT !.query[row.query].status = "RESPONDED",
              !.query[row.query].answer =
                  [proposed |-> IF Corrected(row) THEN row.figure ELSE None,
                   target |-> row.query.period]]

Ingested(d, row, st, p) == IF Takes(d, row, st, p) THEN Applied(d, row) ELSE d

(* ingest_correction_sheet: row by row, each on what the ones before left. *)
(* An untouched row is not read; it has no explanation and is not taken.   *)
IngestSheet(st, p, rows) ==
    /\ \E n \in DOMAIN rows : Filled(rows[n])
    /\ Commit(FoldLeft(LAMBDA d, row : Ingested(d, row, st, p), Db, rows))
    /\ UNCHANGED <<filed, calendar>>

Row(q, a) == [query |-> q, says |-> a.says, figure |-> a.figure, explained |-> a.explained]

SheetRow == {Row(q, a) : q \in QueryId, a \in Answers}

(* Any sheet, with any rows, for any state and period.                     *)
Sheets == \E st \in State, p \in Period, rows \in Seq(SheetRow) : IngestSheet(st, p, rows)

(* The life of a return with all it has: the workflow of its queries and   *)
(* the sheets that answer many at once.                                    *)
SheetSpec == Init /\ [][Next \/ Sheets]_vars

-----------------------------------------------------------------------------
Answered == {q \in Queries : query'[q].answer # query[q].answer}

(* What comes back in one file answers one return: what changes with an    *)
(* answer are open queries of its state and period, which then await the   *)
(* review of theirs.  None that is settled is opened again, and no figure  *)
(* moves by an answer.                                                     *)
AnswersAreForOneReturn ==
    [][\A q \in Answered :
          /\ UNCHANGED <<submission, value, filed>>
          /\ \A r \in Queries : query'[r] # query[r] =>
                /\ IsOpen(Db, r) /\ query'[r].status = "RESPONDED"
                /\ r.state = q.state /\ r.period = q.period]_vars
=============================================================================

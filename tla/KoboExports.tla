---------------------------- MODULE KoboExports ----------------------------
(***************************************************************************)
(* The backend export of the Kobo form: a row per state and form section,  *)
(* a column per question.  Which question reports which indicator, and the *)
(* one return per state its rows fold into.                                *)
(*                                                                         *)
(* A question and the name of an indicator are reduced to their words,     *)
(* their percent sign and their punctuation.  Columns of other roles       *)
(* identify the row, or are Kobo's own.                                    *)
(***************************************************************************)
EXTENDS Templates

Reported == {i \in Indicator : Catalogue[i].reported}

(* normalise_question: the name an indicator has in the catalogue.         *)
Exact(t) == <<t.words, t.percent, t.punctuation>>

(* Mutant: the percent sign is punctuation.                                *)
RelaxAll(t) == <<t.words>>

(* relax: punctuation is forgiven, the percent sign is not.                *)
Relax(t) == <<t.words, t.percent>>

Questions(file) == {c \in DOMAIN file.headers : file.headers[c].role = "QUESTION"}

(* The indicator a question is for: the only one of its exact name, or the *)
(* only one of its relaxed name.                                           *)
Candidates(question) ==
    LET exact == {i \in Reported : Exact(Catalogue[i]) = Exact(question)}
        relaxed == {i \in Reported : Relax(Catalogue[i]) = Relax(question)}
    IN  CASE Cardinality(exact) = 1 -> exact
          [] Cardinality(exact) # 1 /\ Cardinality(relaxed) = 1 -> relaxed
          [] OTHER -> {}

Unmatched(file) == {c \in Questions(file) : Candidates(file.headers[c]) = {}}

Collide(file, c, d) ==
    c # d /\ Candidates(file.headers[c]) \cap Candidates(file.headers[d]) # {}

(* Every question is for one indicator and every indicator asked for once; *)
(* any other file is refused as a whole.                                   *)
IsUsable(file) ==
    /\ Questions(file) # {}
    /\ Unmatched(file) = {}
    /\ \A c, d \in Questions(file) : ~Collide(file, c, d)
    /\ \E c \in DOMAIN file.headers : file.headers[c].role = "STATE"

Matched(file) ==
    [i \in UNION {Candidates(file.headers[c]) : c \in Questions(file)} |->
        CHOOSE c \in Questions(file) : i \in Candidates(file.headers[c])]

-----------------------------------------------------------------------------
(* The rows of one state, by the name it is written with.                  *)
RowsOf(file, name) == RestrictValues(file.rows, LAMBDA r : r.name = name)

(* The readable answers to one question, in the order of their rows.       *)
Answers(file, name, i) ==
    LET rows == RowsOf(file, name)
    IN  RestrictValues([n \in DOMAIN rows |-> Parse(i, rows[n].cells[Matched(file)[i]])],
                       LAMBDA v : v # None)

(* The later row wins; what was not answered has no figure.                *)
Figures(file, name) ==
    [i \in {j \in DOMAIN Matched(file) : DOMAIN Answers(file, name, j) # {}} |->
        LET answers == Answers(file, name, i) IN answers[Max(DOMAIN answers)]]

(* Answers that are there and cannot be read.                              *)
Unreadable(file, name) ==
    {i \in DOMAIN Matched(file) : \E r \in Range(RowsOf(file, name)) :
        LET cell == r.cells[Matched(file)[i]]
        IN  Parse(i, cell) = None /\ cell.kind \notin {"BLANK", "NAN", "NONE"}}

(* The returns of a file: one per way the name of a state is written.      *)
ReadExport(file) ==
    {[name |-> name, figures |-> Figures(file, name), unreadable |-> Unreadable(file, name)] :
        name \in {row.name : row \in Range(file.rows)} \ {None}}
=============================================================================

----------------------------- MODULE Templates -----------------------------
(***************************************************************************)
(* What is read from a template a state fills in: where its header row is, *)
(* what each heading means, which indicator each line is about and which   *)
(* figure it carries.                                                      *)
(*                                                                         *)
(* A cell is reduced to what the look-ups find in its text:                *)
(*   kind    a number, Yes, No, a word, or one of the marks for nothing:   *)
(*           BLANK, NAN ("N/A", "-", "null"), NONE ("none"),               *)
(*           NIL (the others: "nil", "tbd", "no data"),                    *)
(*   number  the number,                                                   *)
(*   names   the indicator whose code, name or alias the text is (in the   *)
(*           columns of states and periods, the state or the period),      *)
(*   near    the indicator whose name is close to it,                      *)
(*   synonym, contains, resembles  as a heading: the field it is a synonym *)
(*           of, has a synonym of among its words, looks like.             *)
(***************************************************************************)
EXTENDS Integers, Sequences, FiniteSetsExt, Functions

CONSTANTS
    None,
    Indicator,         \* the active indicators
    Catalogue,         \* Catalogue[i]: [number, words, percent, boolean, reported]
    HeaderScan         \* how many rows are looked through for the header

IndicatorFields == {"indicator_code", "indicator_number", "indicator_name"}
Field == IndicatorFields \cup {"value", "numerator", "denominator", "state", "period", "other"}

Blank == [kind |-> "BLANK", number |-> None, names |-> None, near |-> None,
          synonym |-> None, contains |-> None, resembles |-> None]

IsMissing(cell) == cell.kind \in {"BLANK", "NAN", "NONE", "NIL"}

ToNumber(cell) == IF cell.kind = "NUMBER" THEN cell.number ELSE None

Truth(cell) ==
    CASE cell.kind = "YES" -> 1 [] cell.kind \in {"NO", "NONE"} -> 0
      [] cell.kind = "NUMBER" -> IF cell.number >= 1 THEN 1 ELSE 0
      [] OTHER -> None

(* Mutant: the words for No are looked up before those for nothing, and    *)
(* "none" is among them.                                                   *)
ToBooleanFirst(cell) == Truth(cell)

(* At or above 1 counts as Yes.                                            *)
ToBoolean(cell) == IF IsMissing(cell) THEN None ELSE Truth(cell)

Parse(i, cell) == IF Catalogue[i].boolean THEN ToBoolean(cell) ELSE ToNumber(cell)

(* The first of a list that is there.  A list is a function on positions:  *)
(* what is left of one keeps its order and has gaps.                       *)
Coalesce(s) == LET found == {n \in DOMAIN s : s[n] # None}
               IN  IF found = {} THEN None ELSE s[Min(found)]

(* The first of a list of cells that is not blank.                         *)
FirstTold(cells) ==
    LET told == {n \in DOMAIN cells : cells[n].kind # "BLANK"}
    IN  IF told = {} THEN Blank ELSE cells[Min(told)]

-----------------------------------------------------------------------------
(* The parser.  A line is a row of the file: the number of its row, how    *)
(* much it looks like a header, what its text gives as the state and the   *)
(* period (as cells), and its cells.                                       *)

Present(line) == {c \in DOMAIN line.cells : line.cells[c].kind # "BLANK"}

(* A band over the lines beneath it: one text at the left of a wide sheet. *)
IsSectionBanner(line) ==
    /\ Len(line.cells) >= 3
    /\ \E c \in {1, 2} : Present(line) = {c} /\ line.cells[c].kind # "NUMBER"

(* The first of the best among the first rows that are not blank.          *)
HeaderRow(lines) ==
    LET scanned == {n \in DOMAIN lines :
                       Cardinality({m \in DOMAIN lines : m <= n}) <= HeaderScan}
    IN  CHOOSE n \in scanned : \A m \in scanned :
            lines[m].score < lines[n].score \/ (lines[m].score = lines[n].score /\ n <= m)

ParseUpload(file) ==
    LET lines == RestrictValues(file.lines, LAMBDA l : Present(l) # {})
        header == HeaderRow(lines)
        above == RestrictDomain(lines, LAMBDA n : n < header)
        hint(of(_)) == FirstTold([n \in DOMAIN above |-> of(above[n])])
    IN  [headers |-> lines[header].cells,
         rows |-> RestrictDomain(lines, LAMBDA n : n > header /\ ~IsSectionBanner(lines[n])),
         state |-> hint(LAMBDA l : l.state), period |-> hint(LAMBDA l : l.period)]

-----------------------------------------------------------------------------
(* The mapper.                                                             *)

(* A number is the number of an indicator, wherever it stands.             *)
NamedBy(cell) ==
    CASE IsMissing(cell) -> None
      [] cell.kind = "NUMBER" ->
            IF \E i \in Indicator : Catalogue[i].number = cell.number
            THEN CHOOSE i \in Indicator : Catalogue[i].number = cell.number ELSE None
      [] OTHER -> cell.names

(* What a heading names counts before the words it contains.               *)
ResolveHeader(h) ==
    Coalesce(<<h.synonym, NamedBy(h), h.contains, h.resembles, h.near>>)

(* What any of the cells names, and only then what one of them resembles.  *)
ResolveIndicator(cells) ==
    Coalesce(<<Coalesce([n \in DOMAIN cells |-> NamedBy(cells[n])]),
               Coalesce([n \in DOMAIN cells |-> cells[n].near])>>)

Columns(sheet, field) ==
    {c \in DOMAIN sheet.headers : ResolveHeader(sheet.headers[c]) = field}

FirstPresent(row, columns) ==
    LET present == {c \in columns : ~IsMissing(row.cells[c])}
    IN  IF present = {} THEN Blank ELSE row.cells[Min(present)]

Layout(sheet) ==
    LET meant == {ResolveHeader(sheet.headers[c]) : c \in DOMAIN sheet.headers}
    IN  IF meant \cap IndicatorFields = {} /\ meant \cap Indicator # {} THEN "wide" ELSE "long"

(* The figures of a line; one that yields none is counted as unmapped.     *)
Readings(sheet, row) ==
    LET cell(field) == FirstPresent(row, Columns(sheet, field))
        i == ResolveIndicator(<<cell("indicator_code"), cell("indicator_number"),
                                cell("indicator_name")>>)
        reading(j, c, num, den) == [indicator |-> j, value |-> Parse(j, c), numerator |-> num,
                                    denominator |-> den, row |-> row.at]
    IN  IF Layout(sheet) = "long"
        THEN IF i = None THEN {}
             ELSE {reading(i, cell("value"), ToNumber(cell("numerator")),
                           ToNumber(cell("denominator")))}
        ELSE {reading(ResolveHeader(sheet.headers[c]), row.cells[c], None, None) :
                c \in {d \in DOMAIN sheet.headers : /\ ResolveHeader(sheet.headers[d]) \in Indicator
                                                    /\ ~IsMissing(row.cells[d])}}

(* The state and the period are what the first line that gives one says,   *)
(* whether or not there is such a state or period.                         *)
MapRows(sheet) ==
    LET hint(field) == FirstTold([n \in DOMAIN sheet.rows |->
                          FirstPresent(sheet.rows[n], Columns(sheet, field))])
    IN  [values |-> UNION {Readings(sheet, sheet.rows[n]) : n \in DOMAIN sheet.rows},
         unmapped |-> Cardinality({n \in DOMAIN sheet.rows : Readings(sheet, sheet.rows[n]) = {}}),
         state |-> hint("state"), period |-> hint("period")]
=============================================================================

-------------------------- MODULE IntakeProperties --------------------------
(* What a file may turn into.  The files of the model say what whoever     *)
(* filled them in meant: asks, the indicator a question of the form is     *)
(* about; heading, the line of a template its headings are in; columns,    *)
(* the field or the indicator each of its columns is for; and carries, the *)
(* figures of a line, None for an entry nobody can read.                   *)
EXTENDS Intake

-----------------------------------------------------------------------------
(* What a file must be for that to be found out: the single texts can be   *)
(* trusted.  Where they stand, and what stands beside them, is free.       *)

(* A question in the words of an indicator, percent sign and all, asks for *)
(* it, and a number is one.                                                *)
Worded(file) ==
    /\ IsFiniteSet(DOMAIN file.rows) /\ DOMAIN file.rows \subseteq Nat
    /\ {row.name : row \in Range(file.rows)} \subseteq Range(NameOrder) \cup {None}
    /\ \A c \in Questions(file) :
          LET q == file.headers[c]
          IN  /\ \A i \in Reported :
                    Catalogue[i].words = q.words /\ Catalogue[i].percent = q.percent => q.asks = i
              /\ \A row \in Range(file.rows) :
                    row.cells[c].kind = "NUMBER" => row.cells[c].number \in Int

(* A heading that is close to the name of an indicator and has the name of *)
(* a field among its words is taken for the field.                         *)
Drifted(file) ==
    \E h \in Range(file.lines[file.heading].cells) :
        h.near # None /\ h.contains # None /\ h.synonym = None /\ NamedBy(h) = None

(* The headings stand among the first lines with anything in them, and no  *)
(* other of these looks more like them.                                    *)
HeadingStands(file) ==
    LET written == {n \in DOMAIN file.lines : Present(file.lines[n]) # {}}
        scanned == {n \in written : Cardinality({m \in written : m <= n}) <= HeaderScan}
        score(n) == file.lines[n].score
    IN  /\ file.heading \in scanned
        /\ \A n \in scanned : /\ score(n) \in Int /\ score(n) <= score(file.heading)
                              /\ score(n) = score(file.heading) => file.heading <= n

(* A heading names what its column is for, or it names nothing and no word *)
(* of it hints at anything else.                                           *)
HeadingSays(h, meant) ==
    LET named == {h.synonym, NamedBy(h)} \ {None}
        hinted == {h.contains, h.resembles, h.near} \ {None}
    IN  IF named # {} THEN named = {meant} ELSE hinted = {meant} \ {None}

HasColumn(file, meant) == \E c \in DOMAIN file.columns : file.columns[c] \in meant

(* The entries of a line in the columns for something.                     *)
Entries(file, line, meant) ==
    {c \in DOMAIN file.columns : file.columns[c] \in meant /\ ~IsMissing(line.cells[c])}

Figure(i, cell) == <<i, Parse(i, cell)>>

(* With a column per indicator a line carries what is in these.            *)
WideSays(file, line) ==
    line.carries = {Figure(file.columns[c], line.cells[c]) : c \in Entries(file, line, Indicator)}

(* Else it carries at most one figure and nothing twice: that of the       *)
(* indicator its cells name or, if they name none, are close to.           *)
LongSays(file, line) ==
    LET labels == {line.cells[c] : c \in Entries(file, line, IndicatorFields)}
        named == {NamedBy(l) : l \in labels} \ {None}
        alike == {l.near : l \in labels} \ {None}
        about == IF named # {} THEN named ELSE alike
        single == Entries(file, line, Field \ {"other"})
    IN  /\ \A f, g \in line.carries : f = g
        /\ \A c, d \in single : file.columns[c] = file.columns[d] => c = d
        /\ \A i, j \in about : i = j
        /\ \A i \in about :
              line.carries = {Figure(i, line.cells[c]) : c \in Entries(file, line, {"value"})}

(* A template has a column per indicator or says in columns of their own   *)
(* which one a line is about; empty lines, those above the figures and the *)
(* bands over them carry nothing.                                          *)
FilledIn(file) ==
    /\ IsFiniteSet(DOMAIN file.lines) /\ DOMAIN file.lines \subseteq Nat
    /\ HeadingStands(file)
    /\ LET headings == file.lines[file.heading].cells
       IN  /\ DOMAIN file.columns = DOMAIN headings /\ DOMAIN headings \subseteq Nat
           /\ \A c \in DOMAIN headings : HeadingSays(headings[c], file.columns[c])
    /\ ~(HasColumn(file, Indicator) /\ HasColumn(file, IndicatorFields))
    /\ \A n \in DOMAIN file.lines :
          LET line == file.lines[n]
          IN  IF n <= file.heading \/ Present(line) = {} \/ IsSectionBanner(line)
              THEN line.carries = {}
              ELSE IF HasColumn(file, Indicator) THEN WideSays(file, line)
                                                 ELSE LongSays(file, line)

ASSUME FilesAssumption ==
    /\ None \notin Int /\ Indicator \cap (Field \cup {None}) = {}
    /\ IsFiniteSet(DOMAIN NameOrder) /\ DOMAIN NameOrder \subseteq Nat
    /\ \A run \in Loads : Worded(run.file)
    /\ \A request \in Uploads : Drifted(request.file) \/ FilledIn(request.file)

-----------------------------------------------------------------------------

FromKobo(r) == r.name # None

AskedFor(r, i) == {c \in Questions(r.file) : r.file.headers[c].asks = i}

(* The answers a state gave to the questions about an indicator.           *)
Given(r, i) ==
    {row.cells[c] : row \in Range(RowsOf(r.file, r.name)), c \in AskedFor(r, i)}

Meant(file) == UNION {line.carries : line \in Range(file.lines)}

-----------------------------------------------------------------------------
(* A figure is stored under the indicator it was given for: no column is   *)
(* taken for another that differs by its percent sign, and no line for     *)
(* another that the file was moved around by blank lines and headings.     *)
FiguresAreWhatWasAsked ==
    \A u \in DOMAIN returns : \A reading \in returns[u].rows :
        LET i == reading.indicator
        IN  IF FromKobo(returns[u])
            THEN \E cell \in Given(returns[u], i) : reading.value = Parse(i, cell)
            ELSE \/ reading.value = None \/ Drifted(returns[u].file)
                 \/ \E line \in Range(returns[u].file.lines) :
                       line.at = reading.row /\ <<i, reading.value>> \in line.carries

(* What was answered is in the return, and what was not is no zero: a zero *)
(* was given as one (below one for No), an answer is stored, listed as     *)
(* unreadable or a mark for nothing, and a line of a template that is left *)
(* out is counted.                                                         *)
AnswersAreKept ==
    \A u \in DOMAIN returns :
        LET r == returns[u]
            stored == {reading.indicator : reading \in r.rows}
        IN  IF FromKobo(r)
            THEN \A i \in Indicator : \A cell \in Given(r, i) :
                    /\ cell.kind = "NUMBER" => i \in stored
                    /\ i \in stored \/ i \in Unreadable(r.file, r.name) \/ IsMissing(cell)
                    /\ \A reading \in r.rows : reading.indicator = i /\ reading.value = 0 =>
                          \E zero \in Given(r, i) :
                             \/ zero.kind = "NO"
                             \/ /\ zero.kind = "NUMBER"
                                /\ IF Catalogue[i].boolean THEN zero.number < 1 ELSE zero.number = 0
            ELSE Drifted(r.file) \/
                 Cardinality(Meant(r.file) \ {<<x.indicator, x.value>> : x \in r.rows}) <= r.unmapped

Arrived ==
    {u \in DOMAIN returns' : /\ FromKobo(returns'[u])
                             /\ u \in DOMAIN returns => returns'[u] # returns[u]}

(* A load is all or nothing: returns of an export appear when the script   *)
(* commits, with those of every state it was asked for, and if the period  *)
(* was closed when it began, each used a reopening of its own.  A refusal  *)
(* or a crash on the way leaves nothing.                                   *)
BatchIsWhole ==
    [][ \A u \in Arrived :
             /\ batch # None /\ batch' = None /\ batch.rest = {}
             /\ \A ret \in ReadExport(batch.file) :
                   Wanted(ret) => returns'[<<StateOf[ret.name], batch.period>>].file = batch.file
             /\ ~batch.open => \E g \in DOMAIN grant' :
                   /\ grant'[g].state = u[1] /\ grant'[g].period = u[2]
                   /\ grant'[g].used /\ ~grant[g].used ]_vars

-----------------------------------------------------------------------------
(* Creating a period and generating a year leave the cycles there are as   *)
(* they are, also when all of them are there already and some are closed.  *)
(* What opens or closes a cycle does so to that one alone and makes none,  *)
(* and no step takes a cycle away.                                         *)
GeneratingKeepsCycles ==
    [][ /\ DOMAIN isOpen \subseteq DOMAIN isOpen'
        /\ Calendars => \A p \in DOMAIN isOpen : isOpen'[p] = isOpen[p]
        /\ \A p \in DOMAIN isOpen : isOpen'[p] # isOpen[p] =>
              DOMAIN isOpen' = DOMAIN isOpen
              /\ \A q \in DOMAIN isOpen \ {p} : isOpen'[q] = isOpen[q] ]_vars

(* The calendar fits together: a month lies in at most one quarter, which  *)
(* is reconciled against it and checked again with it, and the period      *)
(* before another of its family ends before that begins, with none between.*)
CalendarFits ==
    \A p \in DOMAIN isOpen :
        /\ p.type = "MONTHLY" => Cardinality(EnclosingQuarters(p)) <= 1
        /\ \A q \in EnclosingQuarters(p) : p \in Range(EnclosedPeriods(q))
        /\ Len(EnclosedPeriods(p)) <= 3
        /\ \A q \in PrecedingPeriod(p) :
              /\ PeriodBounds(q).last < PeriodBounds(p).first
              /\ \A r \in DOMAIN isOpen : r.type = p.type =>
                    ~(PeriodBounds(q).last < PeriodBounds(r).first /\ PeriodBounds(r).last < PeriodBounds(p).first)
=============================================================================

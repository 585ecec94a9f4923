------------------------------- MODULE Boards -------------------------------
(***************************************************************************)
(* What the boards show of a period: how each return stands, the returns   *)
(* board over a slice of the states, the cohort summaries, the tiles of    *)
(* the dashboard, the rankings and the analysis model the page and the     *)
(* workbook are drawn from.  They only read.  When a return came in, and   *)
(* so what was on time, is left out.                                       *)
(***************************************************************************)
EXTENDS Analytics, Exposure, SequencesExt

Percent(part, whole) == IF whole = 0 THEN 0 ELSE (100 * part) \div whole

CountOf(S, test(_)) == Cardinality({x \in S : test(x)})

Doubts(u) == {f \in latest[u].findings : f.severity # "INFO"}

(* The figures of a return that hold a value, and those nobody doubts.     *)
FiguresOf(st, p) ==
    UNION {{i} \X {n \in DOMAIN RowsOf(st, p, i) : Effective(RowsOf(st, p, i)[n]) # None} :
              i \in Indicator}

(* A state that filed something is never shown as having filed nothing:    *)
(* its latest return stands for it, rejected or not.                       *)
StateReturn(st, p) ==
    IF ~Filed(st, p)
    THEN [submitted |-> FALSE, status |-> "NOT_SUBMITTED", verdict |-> "NO_DATA",
          figures |-> 0, counting |-> 0, findings |-> {}]
    ELSE LET row == latest[<<st, p>>]
         IN  [submitted |-> TRUE, status |-> row.status, verdict |-> row.verdict,
              figures |-> Cardinality(FiguresOf(st, p)),
              counting |-> CountOf(FiguresOf(st, p), LAMBDA v : IsValid(row.label[v[1]])),
              findings |-> Doubts(<<st, p>>)]

(* Mutant: the board honours neither of its filters.                       *)
BoardStatesUnfiltered(st, cohort) == ActiveStates(None)

(* A state wins over a cohort when both are chosen.                        *)
BoardStates(st, cohort) == IF st # None THEN <<st>> ELSE ActiveStates(cohort)

SumOver(S, get(_)) == SumFunction([x \in S |-> get(x)])

(* A cohort inside a board: the rows it is given, or its own if it is given*)
(* none of its members.                                                    *)
CohortReturns(k, p, given) ==
    LET members == Range(ActiveStates(k))
        mine == {st \in given : roster[st].cohort = k}
        filed == {st \in (IF mine # {} THEN mine ELSE members) : Filed(st, p)}
        row == [st \in filed |-> StateReturn(st, p)]
    IN  [expected |-> Cardinality(members), reported |-> Cardinality(filed),
         rate |-> Percent(Cardinality(filed), Cardinality(members)),
         notFit |-> CountOf(filed, LAMBDA st : row[st].verdict = "NOT_FIT"),
         figures |-> SumOver(filed, LAMBDA st : row[st].figures),
         counting |-> SumOver(filed, LAMBDA st : row[st].counting)]

VerdictOrder == [NOT_FIT |-> 0, FIT_WITH_NOTES |-> 1, FIT |-> 2, NO_DATA |-> 3]
VerdictRank(v) == IF v = None THEN 4 ELSE VerdictOrder[v]

(* The rules that found something, with the states they concern; every     *)
(* finding counts, also those of the lightest severity.                    *)
CommonIssues(filed, p) ==
    LET on(st) == {f.rule : f \in latest[<<st, p>>].findings}
    IN  [r \in UNION {on(st) : st \in filed} |-> {st \in filed : r \in on(st)}]

NationalReturns(st, cohort, p) ==
    LET sts == BoardStates(st, cohort)
        row == [s \in Range(sts) |-> StateReturn(s, p)]
        filed == {s \in Range(sts) : row[s].submitted}
        judged(v) == CountOf(filed, LAMBDA s : row[s].verdict = v)
        worse(a, b) == \/ VerdictRank(row[a].verdict) < VerdictRank(row[b].verdict)
                       \/ /\ VerdictRank(row[a].verdict) = VerdictRank(row[b].verdict)
                          /\ Cardinality(row[a].findings) > Cardinality(row[b].findings)
    IN  [expected |-> Cardinality(DOMAIN sts), reported |-> Cardinality(filed),
         approved |-> CountOf(filed, LAMBDA s : row[s].status = "APPROVED"),
         rate |-> Percent(Cardinality(filed), Cardinality(DOMAIN sts)),
         figures |-> SumOver(filed, LAMBDA s : row[s].figures),
         counting |-> SumOver(filed, LAMBDA s : row[s].counting),
         notFit |-> judged("NOT_FIT"), withNotes |-> judged("FIT_WITH_NOTES"),
         fit |-> judged("FIT"),
         cohorts |-> [k \in Cohort |-> CohortReturns(k, p, Range(sts))],
         returns |-> Places(sts, worse), issues |-> CommonIssues(filed, p)]

-----------------------------------------------------------------------------
(* The states of a scope by average achievement, those without one last.   *)
RankedBy(sts, pct) ==
    Places(sts, LAMBDA a, b : pct[a] # None /\ (pct[b] = None \/ pct[a] > pct[b]))

Averages(sts, p) == [st \in Range(sts) |-> Scorecard("STATE", st, p).average]

StateRankings(p, cohort) == RankedBy(ActiveStates(cohort), Averages(ActiveStates(cohort), p))

Best(sts, pct) ==
    LET first == sts[CHOOSE n \in DOMAIN sts : RankedBy(sts, pct)[n] = 1]
    IN  IF pct[first] = None THEN None ELSE first

(* One summary per cohort with members; its share of the national results  *)
(* is the mean over the indicators that have one.                          *)
CohortSummary(k, p, page) ==
    LET members == ActiveStates(k)
        filed == {st \in Range(members) : Filed(st, p)}
        row == [st \in filed |-> StateReturn(st, p)]
        shares == Column(IndicatorOrder, LAMBDA i : page[i].cohorts[k].share)
    IN  [expected |-> Cardinality(DOMAIN members), reporting |-> Cardinality(filed),
         completeness |->
            Percent(SumOver(filed, LAMBDA st : row[st].figures),
                    Cardinality(filed) * Max({row[st].figures : st \in filed} \cup {0})),
         notFit |-> CountOf(filed, LAMBDA st : row[st].verdict = "NOT_FIT"),
         average |-> Scorecard("COHORT", k, p).average,
         contribution |-> IF DOMAIN shares = {} THEN None ELSE Mean(shares),
         best |-> Best(members, Averages(members, p))]

Pages(p) == [i \in Indicator |-> AnalyseIndicator(p, i, None)]

CohortSummaries(p) ==
    [k \in {c \in Cohort : DOMAIN ActiveStates(c) # {}} |-> CohortSummary(k, p, Pages(p))]

(* States by periods: the findings on each return, blank where none came.  *)
FindingsHeatmap(periods) ==
    [cell \in Range(ActiveStates(None)) \X periods |->
        LET row == StateReturn(cell[1], cell[2])
        IN  IF row.submitted THEN Cardinality(row.findings) ELSE None]

-----------------------------------------------------------------------------
(* The dashboard.                                                          *)
ScopeName(st, cohort) ==
    IF st # None THEN "STATE" ELSE IF cohort # None THEN "COHORT" ELSE "NATIONAL"
ScopeRef(st, cohort) == IF st # None THEN st ELSE cohort

(* What a slice supplies of the national targets and results, as a mean    *)
(* over the countable indicators.                                          *)
MeanShare(rows, whole) ==
    LET counted == RestrictValues(IndicatorOrder, LAMBDA i :
                      Def(i).method \in {"SUM", "COUNT_YES"} /\ rows[i].value # None)
        parts == Column(counted, LAMBDA i :
                    IF whole[i] \in {None, 0} THEN None ELSE (100 * rows[i].value) \div whole[i])
    IN  IF DOMAIN parts = {} THEN None ELSE Mean(parts)

Tile(rows, nation, even) ==
    [share |-> MeanShare(rows, [i \in Indicator |-> nation[i].target]),
     delivered |-> MeanShare(rows, [i \in Indicator |-> nation[i].value]), even |-> even]

ContributionTile(st, cohort, p) ==
    Tile(Scorecard(ScopeName(st, cohort), ScopeRef(st, cohort), p).rows,
         Scorecard("NATIONAL", None, p).rows,
         (100 * Cardinality(DOMAIN BoardStates(st, cohort)))
         \div Max({1, Cardinality(DOMAIN ActiveStates(None))}))

(* The verdicts of the returns in force; a rejected one is not among them. *)
FitnessTile(st, cohort, p) ==
    LET entries == {s \in Range(BoardStates(st, cohort)) : Current(s, p)}
    IN  [returns |-> Cardinality(entries),
         notFit |-> CountOf(entries, LAMBDA s : latest[<<s, p>>].verdict = "NOT_FIT"),
         worst |-> IF entries = {} THEN None ELSE Max({ExposedShare(s, p) : s \in entries})]

(* What a headline figure of a slice is of the national target.            *)
Caption(row, nation, sliced) ==
    CASE row.pct # None -> [of |-> "target", pct |-> row.pct]
      [] row.pct = None /\ sliced /\ nation.target \notin {None, 0} /\ row.value # None ->
            [of |-> "national target", pct |-> (100 * row.value) \div nation.target]
      [] OTHER -> [of |-> "none", pct |-> None]

HeadlineCaption(st, cohort, p, i) ==
    Caption(ScorecardRow(ScopeName(st, cohort), ScopeRef(st, cohort), p, i),
            ScorecardRow("NATIONAL", None, p, i),
            ScopeName(st, cohort) # "NATIONAL" /\ Def(i).method \in {"SUM", "COUNT_YES"})

(* One resolved scope drives every figure on the board.                    *)
Counts(sts, p) ==
    LET submitted == CountOf(Range(sts), LAMBDA s : Filed(s, p))
        approved == CountOf(Range(sts), LAMBDA s : Analysable(s, p))
    IN  [expected |-> Cardinality(DOMAIN sts), submitted |-> submitted, approved |-> approved,
         reportingRate |-> Percent(submitted, Cardinality(DOMAIN sts)),
         approvedRate |-> Percent(approved, Cardinality(DOMAIN sts))]

Overview(st, cohort, p) ==
    [counts |-> Counts(BoardStates(st, cohort), p),
     fitness |-> FitnessTile(st, cohort, p), board |-> NationalReturns(st, cohort, p),
     contribution |-> ContributionTile(st, cohort, p),
     headline |-> [i \in Indicator |-> HeadlineCaption(st, cohort, p, i)]]

-----------------------------------------------------------------------------
(* The analysis model.                                                     *)
Band(f) == IF f.blocks THEN "C" ELSE IF f.severity = "ERROR" THEN "H" ELSE "M"
Worst(bands) == CHOOSE b \in bands :
    \A c \in bands : [C |-> 0, H |-> 1, M |-> 2][b] <= [C |-> 0, H |-> 1, M |-> 2][c]

(* A row of the model: every state's figure in the order of the states, a  *)
(* blank where it reported none, the worst flag of each state, and a flag  *)
(* on a national figure that is short of states.                           *)
ModelRow(p, i, page, sts) ==
    LET figures == [n \in DOMAIN sts |-> page.states[sts[n]].line.value]
        reporting == Cardinality(DOMAIN Present(figures))
        doubts(st) == {f \in Doubts(<<st, p>>) : f.indicator = i}
    IN  [national |-> page.national.line, figures |-> figures,
         reporting |-> reporting, expected |-> Cardinality(DOMAIN sts),
         flags |-> [st \in {s \in CurrentStates(p) : doubts(s) # {}} |->
                       Worst({Band(f) : f \in doubts(st)})],
         short |-> IF reporting \in {0, Cardinality(DOMAIN sts)} THEN None
                   ELSE IF 2 * reporting < Cardinality(DOMAIN sts) THEN "H" ELSE "M"]

(* One entry per finding kind and indicator, with the states that carry it;*)
(* critical ones first.                                                    *)
FlagRegister(p) ==
    LET found == UNION {{st} \X Doubts(<<st, p>>) : st \in CurrentStates(p)}
        entry(g) == {e \in found : e[2].rule = g.rule /\ e[2].indicator = g.indicator}
        row(E) == LET one == CHOOSE e \in E : TRUE
                  IN  [rule |-> one[2].rule, indicator |-> one[2].indicator,
                       critical |-> one[2].blocks, states |-> {e[1] : e \in E}]
    IN  SetToSortSeq({row(entry(e[2])) : e \in found},
                     LAMBDA a, b : \/ a.critical /\ ~b.critical
                                   \/ /\ a.critical = b.critical
                                      /\ Cardinality(a.states) > Cardinality(b.states))

AnalysisModel(p) ==
    [rows |-> [i \in {j \in Indicator : Def(j).active /\ Def(j).reported} |->
                ModelRow(p, i, AnalyseIndicator(p, i, None), ActiveStates(None))],
     flags |-> FlagRegister(p), statesReporting |-> Cardinality(CurrentStates(p)),
     cohorts |-> [k \in {c \in Cohort : DOMAIN ActiveStates(c) # {}} |-> Range(ActiveStates(k))]]
=============================================================================

------------------------ MODULE AssessmentProperties ------------------------
(* What the figures, the findings on them and the views of them must keep  *)
(* to, over the actions of Assessment.                                     *)
EXTENDS Assessment, Boards

Judged == {"MATCHED", "MISMATCH", "FRAMEWORK_MISSING"}
Single(u, i) == Len(latest[u].rows[i]) = 1
CurrentReturns == {u \in DOMAIN latest : Current(u[1], u[2])}

(* The periods something was filed or is targeted for; the views of the    *)
(* others are empty.                                                       *)
Touched == {u[2] : u \in DOMAIN latest} \cup {t.period : t \in Range(target)}

(* The same return with figure i left out.                                 *)
Without(u, i) == [latest EXCEPT ![u].rows[i] = <<>>]

-----------------------------------------------------------------------------
(* A verdict on a quarter is not overturned by a month that comes in late: *)
(* while it could be, the line has none.                                   *)
Stands(u) == u \in CurrentReturns /\ u \in CurrentReturns' /\ latest'[u].rows = latest[u].rows
StillMissing(u) == u \notin CurrentReturns /\ u \notin CurrentReturns'
VerdictsOutliveLateMonths ==
    [][\A st \in State, p \in {q \in Period : Parts[q] # <<>>} :
          ( /\ Stands(<<st, p>>) \/ StillMissing(<<st, p>>)
            /\ \A part \in Range(Parts[p]) : Current(st, part) => Stands(<<st, part>>) )
          => \A lines \in {Lines(st, p)}, later \in {Lines(st, p)'} :
                \A i \in {j \in DOMAIN lines : lines[j].status \in Judged} :
                   i \in DOMAIN later /\ later[i].status = lines[i].status]_vars

(* What a current quarter is told about its months is what they say now,   *)
(* whichever of them comes last.  Once it is, only a correction or a       *)
(* rejection makes it stale (those do not run the rules again), and a      *)
(* filing that moves a figure of it makes it current again.  A quarter in  *)
(* full agreement is then told nothing.                                    *)
Told(findings, rule) == {f \in findings : f.rule = rule}
ToldOf(findings, lines, complete) ==
    LET told(rule) == {f.indicator : f \in Told(findings, rule)}
        having(status) == {i \in DOMAIN lines : lines[i].status = status}
    IN  /\ told("REC-001") = having("MISMATCH") /\ told("REC-002") = having("FRAMEWORK_MISSING")
        /\ told("REC-003") = {i \in having("TRACKER_MISSING") : complete}
        /\ \A f \in Told(findings, "REC-001") :
              f.severity = "INFO" <=> lines[f.indicator].reconcilesAs # None
        /\ Agreement(lines) = 100 =>
              \A f \in findings : f.rule \notin {"REC-001", "REC-002", "REC-003"}
ToldNow(u) ==
    \A lines \in {Lines(u[1], u[2])} :
        ToldOf(latest[u].findings, lines, TrackerComplete(u[1], u[2]))
ReconciliationIsCurrent ==
    [][\A u \in {v \in CurrentReturns' : Parts[v[2]] # <<>>} :
          LET undisturbed(v) == Stands(v) \/ StillMissing(v)
              together == {u} \cup {<<u[1], part>> : part \in Range(Parts[u[2]])}
          IN  ToldNow(u)' \/ IF \A v \in together : undisturbed(v) THEN ~ToldNow(u)
                             ELSE filings' = filings]_vars

(* A figure nobody reported is never taken for a zero: leaving a figure    *)
(* out opens no finding but that it is missing.                            *)
MissingIsNotZero ==
    \A u \in CurrentReturns, i \in Indicator :
        \A f \in After(Without(u, i))!Findings(u[1], u[2]) \ Findings(u[1], u[2]) :
            f.indicator = i /\ f.rule \in {"COM-001", "REC-002"}

(* A fall of a figure beyond the band is reported by one rule: that of     *)
(* running totals or that of movements, never both and never neither.      *)
FallReportedOnce ==
    \A u \in CurrentReturns, i \in Indicator :
        LET was == PreviousFigure(u[1], u[2], i)
            now == FigureOf(u[1], u[2], i)
        IN  ( /\ Single(u, i) /\ now # None /\ was \notin {None, 0} /\ now < was
              /\ 100 * (was - now) > Magnitude(was) * rates.fall )
            => Cardinality({f \in Findings(u[1], u[2]) :
                    f.indicator = i /\ f.rule \in {"CON-001", "CON-002"}}) = 1

(* The views agree: what the scorecard, the indicator page and the heatmap *)
(* say of the nation, a cohort and a reporting state is the same, and the  *)
(* contribution ranking has the states of the page that add to the total.  *)
(* The series over time agrees with them as far as the code goes: for the  *)
(* nation in full; for a cohort in its value, in full where there is no    *)
(* national target (it holds a cohort against that one, and the others     *)
(* against what its states' targets come to); and for a state in its       *)
(* target, in full where what one figure comes to by itself is the figure  *)
(* (the series aggregates also a single state).                            *)
Unaltering == {"SUM", "AVERAGE", "MAX", "MIN", "LATEST"}
SeriesOf(scope, ref, p, i) == Range(Trend(scope, ref, i, {p}, 1).points)
CohortSeriesAgrees(k, line, p, i) ==
    \A point \in SeriesOf("COHORT", k, p, i) :
        /\ point.value = line.value
        /\ TargetFor(None, p, i) = None => point = line
StateSeriesAgrees(st, line, p, i) ==
    \A point \in SeriesOf("STATE", st, p, i) :
        /\ point.target = line.target
        /\ Def(i).method \in Unaltering => point = line
PageAgrees(page, p, i) ==
    LET ranked == ContributionAnalysis(p, i).states
        all == Len(IndicatorOrder)
    IN  /\ ScorecardRow("NATIONAL", None, p, i) = page.national.line
        /\ SeriesOf("NATIONAL", None, p, i) \subseteq {page.national.line}
        /\ \A k \in DOMAIN page.cohorts :
              /\ CohortSeriesAgrees(k, page.cohorts[k].line, p, i)
              /\ Scorecard("COHORT", k, p).rows[i] = page.cohorts[k].line
              /\ AnalyseIndicator(p, i, k).cohorts[k].line = page.cohorts[k].line
        /\ \A st \in DOMAIN page.states :
              /\ StateSeriesAgrees(st, page.states[st].line, p, i)
              /\ ScorecardRow("STATE", st, p, i) = page.states[st].line
              /\ Heatmap(p, "value", None, all)[st, i] = page.states[st].line.value
              /\ Heatmap(p, "achievement", None, all)[st, i] = page.states[st].line.pct
        /\ Range(ranked) \subseteq {st \in DOMAIN page.states : page.states[st].reported}
ViewsAgree ==
    \A p \in Touched, i \in Indicator : PageAgrees(AnalyseIndicator(p, i, None), p, i)

(* A national figure rests on the states that reported: a total is the sum *)
(* of the cohorts, and a mean, a rate or an extreme lies among the states' *)
(* own figures, whoever has not reported (or, for some, reported nothing). *)
(* A rate is pooled from its components, so they have to come in pairs and *)
(* make the rate that is reported with them.                               *)
Paired(r) ==
    {r.numerator, r.denominator} # {None} =>
        /\ r.numerator # None /\ r.denominator \notin {None, 0}
        /\ r.value = (100 * r.numerator) \div r.denominator
RestsOnReports(page, method) ==
    LET nation == page.national.line.value
        shares == {k \in DOMAIN page.cohorts : page.cohorts[k].line.value # None}
        own == {page.states[st].line.value : st \in DOMAIN page.states} \ {None}
        counted == IF method = "AVERAGE_NONZERO" THEN own \ {0} ELSE own
    IN  nation # None =>
          CASE method = "SUM" ->
                  nation = SumOver(shares, LAMBDA k : page.cohorts[k].line.value)
            [] method = "COUNT_YES" -> nation <= page.national.reported
            [] OTHER -> \E low, high \in counted : low <= nation /\ nation <= high
NationRestsOnReports ==
    \A p \in Touched, i \in Indicator :
        (Def(i).method = "WEIGHTED_AVERAGE" => \A st \in State : Paired(Reading(st, p, i)))
        => RestsOnReports(AnalyseIndicator(p, i, None), Def(i).method)

(* A board counts the states of its scope and no others: no more reported  *)
(* than expected, the tiles and the returns board agree, the cohorts of a  *)
(* board add up to it, as do the cohort summaries, a verdict is counted    *)
(* once, and the model never shows a figure of more states than reported.  *)
BoardAgrees(page, members) ==
    LET board == page.board
        counts == page.counts
    IN  /\ counts.submitted = board.reported /\ counts.expected = board.expected
        /\ counts.approved = board.approved
        /\ board.approved <= board.reported /\ board.reported <= board.expected
        /\ board.notFit + board.withNotes + board.fit <= board.reported
        /\ page.fitness.notFit <= board.notFit
        /\ members # {} =>
              /\ board.reported = SumOver(members, LAMBDA k : board.cohorts[k].reported)
              /\ board.figures = SumOver(members, LAMBDA k : board.cohorts[k].figures)
SummariesAgree(summaries, nation) ==
    \A k \in DOMAIN summaries : summaries[k].reporting = nation.cohorts[k].reported
NoMoreThanReported(model) ==
    \A i \in DOMAIN model.rows : model.rows[i].reporting <= model.statesReporting
BoardsCountTheirScope ==
    \A p \in Touched :
        /\ \A u \in DOMAIN latest : BoardAgrees(Overview(u[1], None, p), {})
        /\ \A k \in Cohort \cup {None} :
              BoardAgrees(Overview(None, k, p), IF k = None THEN Cohort ELSE {k})
        /\ SummariesAgree(CohortSummaries(p), NationalReturns(None, None, p))
        /\ NoMoreThanReported(AnalysisModel(p))

(* An error is charged once: taking off what the doubted figures are       *)
(* likely to overstate never leaves a total below zero, however many rules *)
(* doubt the same figure.                                                  *)
CorrectedTotalPossible ==
    \A p \in Touched, i \in Indicator :
        ( /\ NetDistortion(p, i) # None
          /\ \A f \in DoubtedOn(p, i) : f.expected \in Nat \cup {None}
          /\ \A st \in CurrentStates(p) : \A r \in Range(RowsOf(st, p, i)) :
                r.value \in Nat \cup {None} )
        => NationalTotal(p, i) + NetDistortion(p, i) >= 0

(* Re-validating a period leaves every current return with the verdict the *)
(* findings and the labels then deserve, judged on the whole nation,       *)
(* whether or not that is the one it had; and so does any other step but a *)
(* filing that moves a verdict of the period.                              *)
VerdictMoves(p) == \E u \in DOMAIN latest : u[2] = p /\ latest'[u].verdict # latest[u].verdict
VerdictsFollowFindings ==
    [][\A p \in Period :
          RevalidatePeriod(p) \/ (filings' = filings /\ VerdictMoves(p))
          => \A u \in CurrentReturns : u[2] = p =>
                latest'[u].verdict = Verdict(u[1], p)']_vars
=============================================================================

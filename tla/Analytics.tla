----------------------------- MODULE Analytics -----------------------------
(***************************************************************************)
(* The views of the analysis service over the stored figures: one          *)
(* indicator in full, a scorecard of every indicator for one scope, the    *)
(* contribution ranking, a series over periods and the heatmap.            *)
(***************************************************************************)
EXTENDS Figures, TLC

Achieved(v, goal, i) == Achievement(v, goal, Def(i).direction, Def(i).baseline)

(* A list sorted by an order, as the place of each of its entries; of      *)
(* those that the order does not tell apart, the first stays first.        *)
Places(s, before(_, _)) ==
    [n \in DOMAIN s |->
        1 + Cardinality({m \in DOMAIN s : \/ before(s[m], s[n])
                                          \/ m < n /\ ~before(s[n], s[m])})]

Share(part, whole) == IF part = None \/ whole = 0 THEN None ELSE (100 * part) \div whole

Readings(sts, p, i) == [n \in DOMAIN sts |-> Reading(sts[n], p, i)]

Line(reading, goal, i) ==
    [value |-> reading.value, target |-> goal, pct |-> Achieved(reading.value, goal, i)]

CountReporting(sts, p, i) ==
    Cardinality({n \in DOMAIN sts : HasData(Reading(sts[n], p, i))})

-----------------------------------------------------------------------------
(* analyse_indicator: each state against its target, the nation, and the   *)
(* cohorts with the share they supply.                                     *)
StateRow(r, goal, i) ==
    LET line == Line(r, goal, i)
    IN  [line |-> line, basis |-> ContributionBasis(r, Def(i).method),
         status |-> RowStatus(line.pct, line.target, HasData(r)), reported |-> HasData(r)]

StateLayer(sts, p, i) ==
    [st \in Range(sts) |-> StateRow(Reading(st, p, i), TargetFor(st, p, i), i)]

BasisTotal(sts, p, i) ==
    SumFunction(Column(sts, LAMBDA st : ContributionBasis(Reading(st, p, i), Def(i).method)))

(* What several states come to, against a goal.                            *)
Together(sts, p, i, goal) ==
    Line(AggregateNational(Readings(sts, p, i), Def(i).method), goal, i)

GroupRow(line, sts, p, i) ==
    [line |-> line, status |-> StatusFor(line.pct),
     reported |-> CountReporting(sts, p, i), expected |-> Cardinality(DOMAIN sts)]

NationalLayer(sts, p, i) ==
    GroupRow(Together(sts, p, i, NationalTarget(sts, p, i)), sts, p, i)

(* A cohort also has its share in the total and its mean achievement.      *)
CohortRow(m, sts, p, i) ==
    LET own == GroupRow(Together(m, p, i, PooledTarget(m, p, i)), m, p, i)
        basis == BasisTotal(m, p, i)
        pcts == Column(m, LAMBDA st :
                   Achieved(Reading(st, p, i).value, TargetFor(st, p, i), i))
    IN  [line |-> own.line, status |-> own.status,
         reported |-> own.reported, expected |-> own.expected,
         basis |-> basis, share |-> Share(basis, BasisTotal(sts, p, i)),
         average |-> IF DOMAIN pcts = {} THEN None ELSE Mean(pcts)]

Members(sts, k) == RestrictValues(sts, LAMBDA st : roster[st].cohort = k)

(* A cohort with no state among them is left out.                          *)
CohortLayer(sts, p, i) ==
    [k \in {c \in Cohort : DOMAIN Members(sts, c) # {}} |->
        CohortRow(Members(sts, k), sts, p, i)]

AnalyseIndicator(p, i, cohort) ==
    LET sts == ActiveStates(cohort)
    IN  [states |-> StateLayer(sts, p, i), national |-> NationalLayer(sts, p, i),
         cohorts |-> CohortLayer(sts, p, i)]

(* The states with a share, and their places, the largest first.           *)
ContributionAnalysis(p, i) ==
    LET sts == ActiveStates(None)
        share == [st \in Range(sts) |-> Share(ContributionBasis(Reading(st, p, i), Def(i).method),
                                              BasisTotal(sts, p, i))]
        ranked == RestrictValues(sts, LAMBDA st : share[st] # None)
    IN  [states |-> ranked, places |-> Places(ranked, LAMBDA a, b : share[a] > share[b])]

-----------------------------------------------------------------------------
(* The states of a scope.  A single state needs not be a reporting one.    *)
ScopeStates(scope, ref) ==
    CASE scope = "STATE" -> <<ref>>
      [] scope = "COHORT" -> ActiveStates(ref)
      [] OTHER -> ActiveStates(None)

(* Mutant: a cohort is held against the target of the nation.              *)
ScorecardRowNationalTarget(scope, ref, p, i) ==
    LET sts == ScopeStates(scope, ref)
    IN  IF scope = "STATE" THEN Line(Reading(ref, p, i), TargetFor(ref, p, i), i)
        ELSE Together(sts, p, i, NationalTarget(sts, p, i))

ScorecardRow(scope, ref, p, i) ==
    LET sts == ScopeStates(scope, ref)
    IN  CASE scope = "STATE" -> Line(Reading(ref, p, i), TargetFor(ref, p, i), i)
          [] scope = "NATIONAL" -> Together(sts, p, i, NationalTarget(sts, p, i))
          [] OTHER -> Together(sts, p, i, PooledTarget(sts, p, i))

(* What a card says of all its rows.                                       *)
Card(rows) ==
    LET scored == {i \in Indicator : rows[i].pct # None}
    IN  [rows |-> rows,
         withTarget |-> Cardinality({i \in Indicator : rows[i].target # None}),
         onTrack |-> Cardinality({i \in scored : rows[i].pct >= 90}),
         average |-> IF scored = {} THEN None
                     ELSE SumFunction([i \in scored |-> rows[i].pct]) \div Cardinality(scored)]

Scorecard(scope, ref, p) ==
    Card([i \in Indicator |-> ScorecardRow(scope, ref, p, i)])

-----------------------------------------------------------------------------
(* Over time.  Periods at the end of the calendar in which nothing was     *)
(* approved and nothing is targeted are dropped, unless all of them are.   *)
(* To look for the data of no states is to look for those of any.          *)
RecentPeriods(sts, family, limit) ==
    LET series == RestrictValues(PeriodOrder, LAMBDA p : p \in family)
        asked == IF DOMAIN sts = {} THEN State ELSE Range(sts)
        worth(p) == \/ \E st \in asked : Analysable(st, p)
                    \/ \E t \in Range(target) : t.period = p
        final == Max({0} \cup {n \in DOMAIN series : worth(series[n])})
        kept == {n \in DOMAIN series : final = 0 \/ n <= final}
    IN  Restrict(series, {n \in kept : Cardinality({m \in kept : m > n}) < limit})

(* A series aggregates also when it has one state, and holds a cohort      *)
(* against the national target where there is one.                         *)
TrendPoint(scope, ref, p, i) ==
    LET sts == ScopeStates(scope, ref)
    IN  Together(sts, p, i, IF scope = "STATE" THEN TargetFor(ref, p, i)
                            ELSE NationalTarget(sts, p, i))

Travel(populated, i) ==
    LET first == populated[Min(DOMAIN populated)].value
        final == populated[Max(DOMAIN populated)].value
        better == IF Def(i).direction = "DECREASE" THEN final < first ELSE final > first
    IN  IF Cardinality(DOMAIN populated) < 2 \/ first = final THEN "flat"
        ELSE IF better THEN "improving" ELSE "deteriorating"

Series(points, i) ==
    [points |-> points, travel |-> Travel(RestrictValues(points, LAMBDA x : x.value # None), i)]

Trend(scope, ref, i, family, limit) ==
    LET periods == RecentPeriods(ScopeStates(scope, ref), family, limit)
    IN  Series([n \in DOMAIN periods |-> TrendPoint(scope, ref, periods[n], i)], i)

(* States by indicators; a cell is blank where there is nothing to show.   *)
Heatmap(p, metric, cohort, limit) ==
    [cell \in Range(ActiveStates(cohort)) \X Range(SubSeq(IndicatorOrder, 1, limit)) |->
        LET v == Reading(cell[1], p, cell[2]).value
        IN  IF metric = "value" THEN v
            ELSE Achieved(v, TargetFor(cell[1], p, cell[2]), cell[2])]
=============================================================================

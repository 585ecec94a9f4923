------------------------------- MODULE Rules -------------------------------
(***************************************************************************)
(* The validation rules.  A rule is a function of a context, assembled     *)
(* once per return: its rows, what the state said before, the peers, the   *)
(* targets and the reconciliation with the finer returns.  What a rule     *)
(* finds is a set of marks, one per indicator; the wording is left out.    *)
(*                                                                         *)
(* Not here: UNQ-002 and UNQ-003, which look at the other versions of a    *)
(* return, TIM-001 (dates) and VAL-003 (fractions: figures are whole here).*)
(***************************************************************************)
EXTENDS Reconciliation

CONSTANTS
    Subset,        \* pairs <<child, parent>>: a count drawn from another
    Identity,      \* pairs <<total, parts>> the framework declares
    Distinct,      \* pairs <<indicator, others>> that should not match exactly
    PlainLabels    \* the approved disaggregation labels

Mark(i) == [indicator |-> i, expected |-> None, severity |-> None]
Marks(S) == {Mark(i) : i \in S}
MarksAgainstPrevious(ctx, S) == {[Mark(i) EXCEPT !.expected = ctx.previous[i]] : i \in S}

(* The code every check reads its rows by: <<indicator, position>>.        *)
Rows(ctx) == UNION {{i} \X DOMAIN ctx.rows[i] : i \in Indicator}
At(ctx, r) == ctx.rows[r[1]][r[2]]
Numeric(ctx) == {r \in Rows(ctx) : Effective(At(ctx, r)) # None}
NumericWhere(ctx, test(_, _)) ==
    {r[1] : r \in {q \in Numeric(ctx) : test(q[1], Effective(At(ctx, q)))}}

Given(ctx, i) == \E r \in Numeric(ctx) : r[1] = i
Total(ctx, i) ==
    SumFunction([r \in {q \in Numeric(ctx) : q[1] = i} |-> Effective(At(ctx, r))])
TotalOf(ctx, S) == SumFunction([i \in S |-> Total(ctx, i)])

Reported(ctx) ==
    {r[1] : r \in {q \in Rows(ctx) : At(ctx, q).value # None \/ At(ctx, q).numerator # None}}

RateOf(row) == (100 * row.numerator) \div row.denominator

-----------------------------------------------------------------------------
(* Integrity.                                                              *)

NumeratorWithinDenominator(ctx) ==
    Marks({r[1] : r \in {q \in Rows(ctx) :
             /\ At(ctx, q).numerator # None /\ At(ctx, q).denominator \notin {None, 0}
             /\ At(ctx, q).numerator > At(ctx, q).denominator}})

PercentageArithmetic(ctx) ==
    Marks({r[1] : r \in {q \in Rows(ctx) :
             /\ Def(q[1]).unit = "PERCENT" /\ At(ctx, q).value # None
             /\ At(ctx, q).numerator # None /\ At(ctx, q).denominator \notin {None, 0}
             /\ ~Within(RateOf(At(ctx, q)), At(ctx, q).value, rates.arithmetic)}})

SubsetWithinParent(ctx) ==
    {[Mark(pair[1]) EXCEPT !.expected = Total(ctx, pair[2])] :
        pair \in {q \in Subset : /\ Given(ctx, q[1]) /\ Given(ctx, q[2])
                                 /\ Total(ctx, q[1]) > Total(ctx, q[2])}}

RowsFullyMapped(ctx) == IF ctx.unmapped > 0 THEN {Mark(None)} ELSE {}

(* Mutant: a part nobody reported is taken for a zero.                     *)
TotalMissesPartsBlankIsZero(ctx, pair) ==
    /\ Given(ctx, pair[1])
    /\ ~Within(Total(ctx, pair[1]), TotalOf(ctx, pair[2]), rates.identity)

(* A total that is not the sum of its parts.  While a part is unreported   *)
(* there is nothing to compare.                                            *)
TotalMissesParts(ctx, pair) ==
    /\ Given(ctx, pair[1]) /\ \A part \in pair[2] : Given(ctx, part)
    /\ ~Within(Total(ctx, pair[1]), TotalOf(ctx, pair[2]), rates.identity)

TotalsOff(ctx, pairs) ==
    {[Mark(pair[1]) EXCEPT !.expected = TotalOf(ctx, pair[2])] :
        pair \in {q \in pairs : TotalMissesParts(ctx, q)}}

CompositeEqualsParts(ctx) ==
    TotalsOff(ctx, {<<i, Def(i).parts>> : i \in {j \in Indicator : Def(j).parts # {}}})

DeclaredIdentityHolds(ctx) == TotalsOff(ctx, Identity)

DistinctIndicatorsDiffer(ctx) ==
    Marks({pair[1] : pair \in {q \in Distinct :
             /\ Given(ctx, q[1]) /\ \A other \in q[2] : Given(ctx, other)
             /\ Total(ctx, q[1]) # 0 /\ Total(ctx, q[1]) = TotalOf(ctx, q[2])}})

-----------------------------------------------------------------------------
(* Completeness and scope.                                                 *)

ZeroAfterActivity(ctx) ==
    MarksAgainstPrevious(ctx,
        NumericWhere(ctx, LAMBDA i, v : v = 0 /\ ctx.previous[i] # None
                                        /\ ctx.previous[i] >= rates.floor))

WithinApplicableScope(ctx) ==
    Marks(NumericWhere(ctx, LAMBDA i, v :
             ctx.applicable # {} /\ i \notin ctx.applicable /\ v # 0))

ExpectedIndicatorsPresent(ctx) == Marks(ctx.expected \ Reported(ctx))

ComponentsSupplied(ctx) ==
    Marks({r[1] : r \in {q \in Rows(ctx) :
             /\ Def(q[1]).pair
             /\ At(ctx, q).value # None \/ At(ctx, q).numerator # None
             /\ At(ctx, q).numerator = None \/ At(ctx, q).denominator = None}})

(* Timeliness: the cycle is closed (the return came on a reopening).       *)
PeriodStillOpen(ctx) == IF ctx.closed THEN {Mark(None)} ELSE {}

-----------------------------------------------------------------------------
(* Accuracy.                                                               *)

PlausibleVersusTarget(ctx) ==
    Marks(NumericWhere(ctx, LAMBDA i, v :
             ctx.targets[i] \notin {None, 0}
             /\ 100 * v > rates.ceiling * ctx.targets[i]))

(* More than Z standard deviations from the mean of the series, squared    *)
(* and multiplied out: n(n-1)(v - mean)^2 > n * Z^2 * sum of squares.      *)
Off(s, v) == Cardinality(DOMAIN s) * v - SumFunction(s)
Spread(s) == SumFunction([k \in DOMAIN s |-> Off(s, s[k]) * Off(s, s[k])])
Outlies(v, s) ==
    /\ Spread(s) > 0
    /\ (Cardinality(DOMAIN s) - 1) * Off(s, v) * Off(s, v)
          > rates.zscore * rates.zscore * Spread(s)

OutlierAgainstHistory(ctx) ==
    Marks(NumericWhere(ctx, LAMBDA i, v :
             /\ Cardinality(DOMAIN ctx.history[i]) >= rates.minHistory
             /\ Outlies(v, ctx.history[i])))

DenominatorUsable(ctx) ==
    Marks({r[1] : r \in {q \in Rows(ctx) :
             /\ Def(q[1]).pair /\ At(ctx, q).numerator # None
             /\ At(ctx, q).denominator \in {None, 0}}})

IsAdditive(i) == Def(i).method \in {"SUM", "WEIGHTED_AVERAGE"}

(* The peers are other states; the state's own figure joins their total.   *)
StateConcentration(ctx) ==
    Marks(NumericWhere(ctx, LAMBDA i, v :
             /\ IsAdditive(i) /\ ctx.peers[i].total # 0 /\ v > 0
             /\ ctx.peers[i].rows + 1 >= rates.minStates
             /\ 100 * v > rates.share * (ctx.peers[i].total + v)))

-----------------------------------------------------------------------------
(* Consistency.                                                            *)

Moved(v, was) == IF v > was THEN v - was ELSE was - v
Magnitude(v) == Moved(v, 0)

(* Mutant: a fall of a running total is left to the movement rule too.     *)
PeriodOverPeriodChangeBoth(ctx) ==
    MarksAgainstPrevious(ctx,
        NumericWhere(ctx, LAMBDA i, v :
            /\ ctx.previous[i] \notin {None, 0}
            /\ 100 * Moved(v, ctx.previous[i]) >
                  Magnitude(ctx.previous[i]) * (IF v < ctx.previous[i] THEN rates.fall
                                                ELSE rates.rise)))

(* A fall cannot exceed 100%, so it has a band of its own; that of a       *)
(* running total is left to the rule that calls it impossible.             *)
PeriodOverPeriodChange(ctx) ==
    LET band(i, v) == IF v < ctx.previous[i] THEN rates.fall ELSE rates.rise
        owned(i, v) == ~(v < ctx.previous[i] /\ Def(i).cumulative)
    IN  MarksAgainstPrevious(ctx,
            NumericWhere(ctx, LAMBDA i, v :
                /\ ctx.previous[i] \notin {None, 0} /\ owned(i, v)
                /\ 100 * Moved(v, ctx.previous[i]) > Magnitude(ctx.previous[i]) * band(i, v)))

CumulativeMonotonic(ctx) ==
    MarksAgainstPrevious(ctx,
        NumericWhere(ctx, LAMBDA i, v :
            Def(i).cumulative /\ ctx.previous[i] # None /\ v < ctx.previous[i]))

(* The quarter against its months.  A line that agrees on another basis is *)
(* most likely a fault of the catalogue, and opens no query.               *)
TrackerAgreesWithFramework(ctx) ==
    {[Mark(i) EXCEPT !.severity =
        IF ctx.lines[i].reconcilesAs # None THEN "INFO" ELSE None] :
        i \in {j \in DOMAIN ctx.lines : ctx.lines[j].status = "MISMATCH"}}

FrameworkCoversTheTracker(ctx) ==
    Marks({i \in DOMAIN ctx.lines : ctx.lines[i].status = "FRAMEWORK_MISSING"})

TrackerCoversTheFramework(ctx) ==
    Marks({i \in DOMAIN ctx.lines : ctx.complete /\ ctx.lines[i].status = "TRACKER_MISSING"})

-----------------------------------------------------------------------------
(* Validity and uniqueness.                                                *)

ValueIsNumeric(ctx) ==
    Marks({r[1] : r \in {q \in Rows(ctx) :
             /\ At(ctx, q).value = None /\ At(ctx, q).numerator = None
             /\ At(ctx, q).raw}})

(* A percentage lies in 0..100 unless the indicator says otherwise.        *)
ValueInRange(ctx) ==
    LET bound(i, given, implied) ==
            IF Def(i).unit = "PERCENT" /\ given = None THEN implied ELSE given
        low(i)  == bound(i, Def(i).minimum, 0)
        high(i) == bound(i, Def(i).maximum, 100)
    IN  Marks(NumericWhere(ctx, LAMBDA i, v :
                 (low(i) # None /\ v < low(i)) \/ (high(i) # None /\ v > high(i))))

DisaggregationVocabulary(ctx) ==
    Marks({r[1] : r \in {q \in Rows(ctx) : At(ctx, q).label \notin PlainLabels \cup {None}}})

NoDuplicateRows(ctx) ==
    Marks({r[1] : r \in {q \in Rows(ctx) : \E o \in Rows(ctx) :
             o[1] = q[1] /\ o[2] # q[2] /\ At(ctx, o).label = At(ctx, q).label}})

-----------------------------------------------------------------------------
(* The registry, with the severity of each rule and whether it blocks.     *)

Registered(ctx) ==
    LET found(rule, severity, blocking, marks) ==
            {[rule |-> rule, indicator |-> m.indicator, expected |-> m.expected,
              severity |-> IF m.severity # None THEN m.severity ELSE severity,
              blocks |-> blocking /\ m.severity = None] :
                m \in marks}
        error(rule, marks) == found(rule, "ERROR", TRUE, marks)
        warning(rule, marks) == found(rule, "WARNING", FALSE, marks)
    IN  UNION {
          error("INT-001", NumeratorWithinDenominator(ctx)),
          warning("INT-002", PercentageArithmetic(ctx)),
          error("INT-003", SubsetWithinParent(ctx)),
          warning("INT-004", RowsFullyMapped(ctx)),
          error("INT-005", CompositeEqualsParts(ctx)),
          error("INT-006", DeclaredIdentityHolds(ctx)),
          warning("INT-007", DistinctIndicatorsDiffer(ctx)),
          warning("COM-003", ZeroAfterActivity(ctx)),
          warning("APP-001", WithinApplicableScope(ctx)),
          warning("TIM-002", PeriodStillOpen(ctx)),
          warning("ACC-001", PlausibleVersusTarget(ctx)),
          warning("ACC-002", OutlierAgainstHistory(ctx)),
          error("ACC-003", DenominatorUsable(ctx)),
          warning("ACC-004", StateConcentration(ctx)),
          warning("COM-001", ExpectedIndicatorsPresent(ctx)),
          warning("COM-002", ComponentsSupplied(ctx)),
          warning("CON-001", PeriodOverPeriodChange(ctx)),
          error("CON-002", CumulativeMonotonic(ctx)),
          error("VAL-001", ValueIsNumeric(ctx)),
          error("VAL-002", ValueInRange(ctx)),
          warning("VAL-004", DisaggregationVocabulary(ctx)),
          error("UNQ-001", NoDuplicateRows(ctx)),
          warning("REC-001", TrackerAgreesWithFramework(ctx)),
          warning("REC-002", FrameworkCoversTheTracker(ctx)),
          warning("REC-003", TrackerCoversTheFramework(ctx)) }
=============================================================================

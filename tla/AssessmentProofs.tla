-------------------------- MODULE AssessmentProofs --------------------------
(***************************************************************************)
(* What the judgement of a figure, and the views of it, keep to, whatever  *)
(* the figures are.                                                        *)
(***************************************************************************)
EXTENDS AssessmentProperties, FiniteSetTheorems, WellFoundedInduction, TLAPS

(* No step changes the catalogue.                                          *)
LEMMA SetupStays == [Next]_vars => setup' = setup
BY DEF Next, vars, store, File, Approve, Reject, Restate, RevalidatePeriod, UpsertTarget,
       UpdateState, Retune, Changing

(* ... so it is always one of those given.                                 *)
LEMMA AlwaysASetup == Spec => [](setup \in Setups)
<1>1. Init => setup \in Setups
    BY DEF Init
<1>2. setup \in Setups /\ [Next]_vars => (setup \in Setups)'
    BY SetupStays
<1> QED BY <1>1, <1>2, PTL DEF Spec

-----------------------------------------------------------------------------
(* The rules find a finite number of things.                               *)

(* What a finite set is mapped to is finite.                               *)
LEMMA RangeFinite == ASSUME NEW f, IsFiniteSet(DOMAIN f) PROVE IsFiniteSet(Range(f))
<1> DEFINE g == [x \in DOMAIN f |-> f[x]]
<1>1. g \in Surjection(DOMAIN f, Range(f))
    BY DEF Surjection, Range
<1> HIDE DEF g
<1> QED BY <1>1, FS_Surjection

(* The catalogue is finite.                                                *)
LEMMA CatalogueFinite == IsFiniteSet(Indicator)
<1>1. PICK n \in Nat : DOMAIN IndicatorOrder = 1..n
    BY AssessmentAssumption
<1> QED BY <1>1, FS_Interval, RangeFinite DEF Indicator

(* Marks on a finite number of indicators are a finite number of marks.    *)
LEMMA MarksFinite ==
    ASSUME NEW t, NEW S, IsFiniteSet(S)
    PROVE  IsFiniteSet(After(t)!Marks(S))
<1> DEFINE f == [i \in S |-> After(t)!Mark(i)]
<1>1. After(t)!Marks(S) = Range(f) /\ DOMAIN f = S
    BY DEF After!Marks, Range
<1> HIDE DEF f
<1> QED BY <1>1, RangeFinite

(* The indicators of a return's rows are in the catalogue.                 *)
LEMMA RowsOfCatalogue ==
    ASSUME NEW t, NEW ctx, NEW r \in After(t)!Rows(ctx)
    PROVE  r[1] \in Indicator
BY DEF After!Rows, After!Indicator, After!Range, Indicator, Range

(* So marks on some of the catalogue are finitely many.                    *)
LEMMA SubsetMarks ==
    ASSUME NEW t, NEW S, S \subseteq Indicator
    PROVE  IsFiniteSet(After(t)!Marks(S))
BY CatalogueFinite, FS_Subset, MarksFinite

(* The rules that look at the rows one by one ...                          *)
LEMMA RowRules ==
    ASSUME NEW t, NEW ctx
    PROVE /\ IsFiniteSet(After(t)!NumeratorWithinDenominator(ctx))
          /\ IsFiniteSet(After(t)!PercentageArithmetic(ctx))
          /\ IsFiniteSet(After(t)!ComponentsSupplied(ctx))
          /\ IsFiniteSet(After(t)!DenominatorUsable(ctx))
          /\ IsFiniteSet(After(t)!ValueIsNumeric(ctx))
          /\ IsFiniteSet(After(t)!DisaggregationVocabulary(ctx))
          /\ IsFiniteSet(After(t)!NoDuplicateRows(ctx))
          /\ IsFiniteSet(After(t)!WithinApplicableScope(ctx))
          /\ IsFiniteSet(After(t)!PlausibleVersusTarget(ctx))
          /\ IsFiniteSet(After(t)!OutlierAgainstHistory(ctx))
          /\ IsFiniteSet(After(t)!StateConcentration(ctx))
          /\ IsFiniteSet(After(t)!ValueInRange(ctx))
<1>1. IsFiniteSet(After(t)!NumeratorWithinDenominator(ctx))
    BY RowsOfCatalogue, SubsetMarks DEF After!NumeratorWithinDenominator
<1>2. IsFiniteSet(After(t)!PercentageArithmetic(ctx))
    BY RowsOfCatalogue, SubsetMarks DEF After!PercentageArithmetic
<1>3. IsFiniteSet(After(t)!ComponentsSupplied(ctx))
    BY RowsOfCatalogue, SubsetMarks DEF After!ComponentsSupplied
<1>4. IsFiniteSet(After(t)!DenominatorUsable(ctx))
    BY RowsOfCatalogue, SubsetMarks DEF After!DenominatorUsable
<1>5. IsFiniteSet(After(t)!ValueIsNumeric(ctx))
    BY RowsOfCatalogue, SubsetMarks DEF After!ValueIsNumeric
<1>6. IsFiniteSet(After(t)!DisaggregationVocabulary(ctx))
    BY RowsOfCatalogue, SubsetMarks DEF After!DisaggregationVocabulary
<1>7. IsFiniteSet(After(t)!NoDuplicateRows(ctx))
    BY RowsOfCatalogue, SubsetMarks DEF After!NoDuplicateRows
<1>8. IsFiniteSet(After(t)!WithinApplicableScope(ctx))
    BY RowsOfCatalogue, SubsetMarks
       DEF After!WithinApplicableScope, After!NumericWhere, After!Numeric
<1>9. IsFiniteSet(After(t)!PlausibleVersusTarget(ctx))
    BY RowsOfCatalogue, SubsetMarks
       DEF After!PlausibleVersusTarget, After!NumericWhere, After!Numeric
<1>10. IsFiniteSet(After(t)!OutlierAgainstHistory(ctx))
    BY RowsOfCatalogue, SubsetMarks
       DEF After!OutlierAgainstHistory, After!NumericWhere, After!Numeric
<1>11. IsFiniteSet(After(t)!StateConcentration(ctx))
    BY RowsOfCatalogue, SubsetMarks
       DEF After!StateConcentration, After!NumericWhere, After!Numeric
<1>12. IsFiniteSet(After(t)!ValueInRange(ctx))
    BY RowsOfCatalogue, SubsetMarks DEF After!ValueInRange, After!NumericWhere, After!Numeric
<1> QED BY <1>1, <1>2, <1>3, <1>4, <1>5, <1>6, <1>7, <1>8, <1>9, <1>10, <1>11, <1>12

(* ... those that compare indicators ...                                   *)
LEMMA PairRules ==
    ASSUME NEW t, NEW ctx
    PROVE  /\ IsFiniteSet(After(t)!SubsetWithinParent(ctx))
           /\ IsFiniteSet(After(t)!CompositeEqualsParts(ctx))
           /\ IsFiniteSet(After(t)!DeclaredIdentityHolds(ctx))
           /\ IsFiniteSet(After(t)!DistinctIndicatorsDiffer(ctx))
<1>1. IsFiniteSet(After(t)!SubsetWithinParent(ctx))
    <2> DEFINE S == {q \in Subset : /\ After(t)!Given(ctx, q[1]) /\ After(t)!Given(ctx, q[2])
                                 /\ After(t)!Total(ctx, q[1]) > After(t)!Total(ctx, q[2])}
               f == [pair \in S |->
                       [After(t)!Mark(pair[1]) EXCEPT !.expected = After(t)!Total(ctx, pair[2])]]
    <2>1. IsFiniteSet(S)
        BY AssessmentAssumption, FS_Subset
    <2>2. After(t)!SubsetWithinParent(ctx) = Range(f)
        BY DEF After!SubsetWithinParent, Range
    <2> HIDE DEF S
    <2> QED BY <2>1, <2>2, RangeFinite
<1>2. ASSUME NEW pairs, IsFiniteSet(pairs)
      PROVE  IsFiniteSet(After(t)!TotalsOff(ctx, pairs))
    <2> DEFINE S == {q \in pairs : After(t)!TotalMissesParts(ctx, q)}
               f == [pair \in S |->
                       [After(t)!Mark(pair[1]) EXCEPT !.expected = After(t)!TotalOf(ctx, pair[2])]]
    <2>1. IsFiniteSet(S)
        BY <1>2, FS_Subset
    <2>2. After(t)!TotalsOff(ctx, pairs) = Range(f)
        BY DEF After!TotalsOff, Range
    <2> HIDE DEF S
    <2> QED BY <2>1, <2>2, RangeFinite
<1>3. IsFiniteSet(After(t)!DeclaredIdentityHolds(ctx))
    BY <1>2, AssessmentAssumption DEF After!DeclaredIdentityHolds
<1>4. IsFiniteSet(After(t)!CompositeEqualsParts(ctx))
    <2> DEFINE S == {j \in Indicator : After(t)!Def(j).parts # {}}
               f == [i \in S |-> <<i, After(t)!Def(i).parts>>]
    <2>1. IsFiniteSet(S)
        BY CatalogueFinite, FS_Subset
    <2>2. After(t)!CompositeEqualsParts(ctx) = After(t)!TotalsOff(ctx, Range(f))
        BY DEF After!CompositeEqualsParts, Range, After!Indicator, After!Range, Indicator
    <2>3. IsFiniteSet(Range(f))
        <3> HIDE DEF S
        <3> QED BY <2>1, RangeFinite
    <2> HIDE DEF f, S
    <2> QED BY <2>2, <2>3, <1>2
<1>5. IsFiniteSet(After(t)!DistinctIndicatorsDiffer(ctx))
    <2> DEFINE S == {q \in Distinct :
             /\ After(t)!Given(ctx, q[1]) /\ \A other \in q[2] : After(t)!Given(ctx, other)
             /\ After(t)!Total(ctx, q[1]) # 0
             /\ After(t)!Total(ctx, q[1]) = After(t)!TotalOf(ctx, q[2])}
               f == [pair \in S |-> pair[1]]
    <2>1. IsFiniteSet(S)
        BY AssessmentAssumption, FS_Subset
    <2>2. After(t)!DistinctIndicatorsDiffer(ctx) = After(t)!Marks(Range(f))
        BY DEF After!DistinctIndicatorsDiffer, Range
    <2>3. IsFiniteSet(Range(f))
        <3> HIDE DEF S
        <3> QED BY <2>1, RangeFinite
    <2> HIDE DEF f, S
    <2> QED BY <2>2, <2>3, MarksFinite
<1> QED BY <1>1, <1>3, <1>4, <1>5

(* ... those that look back ...                                            *)
LEMMA PreviousRules ==
    ASSUME NEW t, NEW ctx
    PROVE  /\ IsFiniteSet(After(t)!ZeroAfterActivity(ctx))
           /\ IsFiniteSet(After(t)!PeriodOverPeriodChange(ctx))
           /\ IsFiniteSet(After(t)!CumulativeMonotonic(ctx))
<1>1. ASSUME NEW S, S \subseteq Indicator
      PROVE  IsFiniteSet(After(t)!MarksAgainstPrevious(ctx, S))
    <2> DEFINE f == [i \in S |-> [After(t)!Mark(i) EXCEPT !.expected = ctx.previous[i]]]
    <2>1. IsFiniteSet(S)
        BY <1>1, CatalogueFinite, FS_Subset
    <2>2. After(t)!MarksAgainstPrevious(ctx, S) = Range(f)
        BY DEF After!MarksAgainstPrevious, Range
    <2> QED BY <2>1, <2>2, RangeFinite
<1>2. IsFiniteSet(After(t)!ZeroAfterActivity(ctx))
    BY <1>1, RowsOfCatalogue DEF After!ZeroAfterActivity, After!NumericWhere, After!Numeric
<1>3. IsFiniteSet(After(t)!PeriodOverPeriodChange(ctx))
    BY <1>1, RowsOfCatalogue
       DEF After!PeriodOverPeriodChange, After!NumericWhere, After!Numeric
<1>4. IsFiniteSet(After(t)!CumulativeMonotonic(ctx))
    BY <1>1, RowsOfCatalogue DEF After!CumulativeMonotonic, After!NumericWhere, After!Numeric
<1> QED BY <1>2, <1>3, <1>4

(* ... and the rest find a finite number of things.                        *)
LEMMA OtherRules ==
    ASSUME NEW t, NEW ctx, IsFiniteSet(ctx.expected), DOMAIN ctx.lines \subseteq Indicator
    PROVE  /\ IsFiniteSet(After(t)!RowsFullyMapped(ctx))
           /\ IsFiniteSet(After(t)!PeriodStillOpen(ctx))
           /\ IsFiniteSet(After(t)!ExpectedIndicatorsPresent(ctx))
           /\ IsFiniteSet(After(t)!TrackerAgreesWithFramework(ctx))
           /\ IsFiniteSet(After(t)!FrameworkCoversTheTracker(ctx))
           /\ IsFiniteSet(After(t)!TrackerCoversTheFramework(ctx))
<1>1. IsFiniteSet(After(t)!RowsFullyMapped(ctx)) /\ IsFiniteSet(After(t)!PeriodStillOpen(ctx))
    BY FS_EmptySet, FS_Singleton DEF After!RowsFullyMapped, After!PeriodStillOpen
<1>2. IsFiniteSet(After(t)!ExpectedIndicatorsPresent(ctx))
    BY FS_Subset, MarksFinite DEF After!ExpectedIndicatorsPresent
<1>3. IsFiniteSet(After(t)!TrackerAgreesWithFramework(ctx))
    <2> DEFINE S == {j \in DOMAIN ctx.lines : ctx.lines[j].status = "MISMATCH"}
               f == [i \in S |-> [After(t)!Mark(i) EXCEPT !.severity =
                        IF ctx.lines[i].reconcilesAs # None THEN "INFO" ELSE None]]
    <2>1. IsFiniteSet(S)
        BY CatalogueFinite, FS_Subset
    <2>2. After(t)!TrackerAgreesWithFramework(ctx) = Range(f)
        BY DEF After!TrackerAgreesWithFramework, Range
    <2> HIDE DEF S
    <2> QED BY <2>1, <2>2, RangeFinite
<1>4. IsFiniteSet(After(t)!FrameworkCoversTheTracker(ctx))
    BY SubsetMarks DEF After!FrameworkCoversTheTracker
<1>5. IsFiniteSet(After(t)!TrackerCoversTheFramework(ctx))
    BY SubsetMarks DEF After!TrackerCoversTheFramework
<1> QED BY <1>1, <1>2, <1>3, <1>4, <1>5

(* Five finite sets are finite together.                                   *)
LEMMA FiveFinite ==
    ASSUME NEW a, IsFiniteSet(a), NEW b, IsFiniteSet(b), NEW c, IsFiniteSet(c),
           NEW d, IsFiniteSet(d), NEW e, IsFiniteSet(e)
    PROVE  IsFiniteSet(UNION {a, b, c, d, e})
<1>1. IsFiniteSet(a \cup b) /\ IsFiniteSet(c \cup d)
    BY FS_Union
<1>2. IsFiniteSet((a \cup b) \cup (c \cup d))
    BY <1>1, FS_Union
<1>3. IsFiniteSet(((a \cup b) \cup (c \cup d)) \cup e)
    BY <1>2, FS_Union
<1>4. UNION {a, b, c, d, e} = ((a \cup b) \cup (c \cup d)) \cup e
    OBVIOUS
<1> QED BY <1>3, <1>4

(* So do all the rules.                                                    *)
LEMMA RegisteredFinite ==
    ASSUME NEW t, NEW ctx, IsFiniteSet(ctx.expected), DOMAIN ctx.lines \subseteq Indicator
    PROVE  IsFiniteSet(After(t)!Registered(ctx))
<1> DEFINE found(rule, severity, blocking, marks) ==
            {[rule |-> rule, indicator |-> m.indicator, expected |-> m.expected,
              severity |-> IF m.severity # None THEN m.severity ELSE severity,
              blocks |-> blocking /\ m.severity = None] : m \in marks}
           error(rule, marks) == found(rule, "ERROR", TRUE, marks)
           warning(rule, marks) == found(rule, "WARNING", FALSE, marks)
<1>1. ASSUME NEW rule, NEW severity, NEW blocking, NEW marks, IsFiniteSet(marks)
      PROVE  IsFiniteSet(found(rule, severity, blocking, marks))
    <2> DEFINE f == [m \in marks |->
            [rule |-> rule, indicator |-> m.indicator, expected |-> m.expected,
             severity |-> IF m.severity # None THEN m.severity ELSE severity,
             blocks |-> blocking /\ m.severity = None]]
    <2>1. found(rule, severity, blocking, marks) = Range(f) /\ DOMAIN f = marks
        BY DEF Range
    <2> HIDE DEF f, found
    <2> QED BY <1>1, <2>1, RangeFinite
<1> DEFINE
      part1 == UNION {
          error("INT-001", After(t)!NumeratorWithinDenominator(ctx)),
          warning("INT-002", After(t)!PercentageArithmetic(ctx)),
          error("INT-003", After(t)!SubsetWithinParent(ctx)),
          warning("INT-004", After(t)!RowsFullyMapped(ctx)),
          error("INT-005", After(t)!CompositeEqualsParts(ctx))}
      part2 == UNION {
          error("INT-006", After(t)!DeclaredIdentityHolds(ctx)),
          warning("INT-007", After(t)!DistinctIndicatorsDiffer(ctx)),
          warning("COM-003", After(t)!ZeroAfterActivity(ctx)),
          warning("APP-001", After(t)!WithinApplicableScope(ctx)),
          warning("TIM-002", After(t)!PeriodStillOpen(ctx))}
      part3 == UNION {
          warning("ACC-001", After(t)!PlausibleVersusTarget(ctx)),
          warning("ACC-002", After(t)!OutlierAgainstHistory(ctx)),
          error("ACC-003", After(t)!DenominatorUsable(ctx)),
          warning("ACC-004", After(t)!StateConcentration(ctx)),
          warning("COM-001", After(t)!ExpectedIndicatorsPresent(ctx))}
      part4 == UNION {
          warning("COM-002", After(t)!ComponentsSupplied(ctx)),
          warning("CON-001", After(t)!PeriodOverPeriodChange(ctx)),
          error("CON-002", After(t)!CumulativeMonotonic(ctx)),
          error("VAL-001", After(t)!ValueIsNumeric(ctx)),
          error("VAL-002", After(t)!ValueInRange(ctx))}
      part5 == UNION {
          warning("VAL-004", After(t)!DisaggregationVocabulary(ctx)),
          error("UNQ-001", After(t)!NoDuplicateRows(ctx)),
          warning("REC-001", After(t)!TrackerAgreesWithFramework(ctx)),
          warning("REC-002", After(t)!FrameworkCoversTheTracker(ctx)),
          warning("REC-003", After(t)!TrackerCoversTheFramework(ctx))}
<1>2. IsFiniteSet(part1)
    <2>1. /\ IsFiniteSet(error("INT-001", After(t)!NumeratorWithinDenominator(ctx)))
          /\ IsFiniteSet(warning("INT-002", After(t)!PercentageArithmetic(ctx)))
          /\ IsFiniteSet(error("INT-003", After(t)!SubsetWithinParent(ctx)))
          /\ IsFiniteSet(warning("INT-004", After(t)!RowsFullyMapped(ctx)))
          /\ IsFiniteSet(error("INT-005", After(t)!CompositeEqualsParts(ctx)))
        <3> HIDE DEF found
        <3> QED BY <1>1, RowRules, PairRules, PreviousRules, OtherRules
    <2> HIDE DEF error, warning
    <2> QED BY <2>1, FiveFinite
<1>3. IsFiniteSet(part2)
    <2>1. /\ IsFiniteSet(error("INT-006", After(t)!DeclaredIdentityHolds(ctx)))
          /\ IsFiniteSet(warning("INT-007", After(t)!DistinctIndicatorsDiffer(ctx)))
          /\ IsFiniteSet(warning("COM-003", After(t)!ZeroAfterActivity(ctx)))
          /\ IsFiniteSet(warning("APP-001", After(t)!WithinApplicableScope(ctx)))
          /\ IsFiniteSet(warning("TIM-002", After(t)!PeriodStillOpen(ctx)))
        <3> HIDE DEF found
        <3> QED BY <1>1, RowRules, PairRules, PreviousRules, OtherRules
    <2> HIDE DEF error, warning
    <2> QED BY <2>1, FiveFinite
<1>4. IsFiniteSet(part3)
    <2>1. /\ IsFiniteSet(warning("ACC-001", After(t)!PlausibleVersusTarget(ctx)))
          /\ IsFiniteSet(warning("ACC-002", After(t)!OutlierAgainstHistory(ctx)))
          /\ IsFiniteSet(error("ACC-003", After(t)!DenominatorUsable(ctx)))
          /\ IsFiniteSet(warning("ACC-004", After(t)!StateConcentration(ctx)))
          /\ IsFiniteSet(warning("COM-001", After(t)!ExpectedIndicatorsPresent(ctx)))
        <3> HIDE DEF found
        <3> QED BY <1>1, RowRules, PairRules, PreviousRules, OtherRules
    <2> HIDE DEF error, warning
    <2> QED BY <2>1, FiveFinite
<1>5. IsFiniteSet(part4)
    <2>1. /\ IsFiniteSet(warning("COM-002", After(t)!ComponentsSupplied(ctx)))
          /\ IsFiniteSet(warning("CON-001", After(t)!PeriodOverPeriodChange(ctx)))
          /\ IsFiniteSet(error("CON-002", After(t)!CumulativeMonotonic(ctx)))
          /\ IsFiniteSet(error("VAL-001", After(t)!ValueIsNumeric(ctx)))
          /\ IsFiniteSet(error("VAL-002", After(t)!ValueInRange(ctx)))
        <3> HIDE DEF found
        <3> QED BY <1>1, RowRules, PairRules, PreviousRules, OtherRules
    <2> HIDE DEF error, warning
    <2> QED BY <2>1, FiveFinite
<1>6. IsFiniteSet(part5)
    <2>1. /\ IsFiniteSet(warning("VAL-004", After(t)!DisaggregationVocabulary(ctx)))
          /\ IsFiniteSet(error("UNQ-001", After(t)!NoDuplicateRows(ctx)))
          /\ IsFiniteSet(warning("REC-001", After(t)!TrackerAgreesWithFramework(ctx)))
          /\ IsFiniteSet(warning("REC-002", After(t)!FrameworkCoversTheTracker(ctx)))
          /\ IsFiniteSet(warning("REC-003", After(t)!TrackerCoversTheFramework(ctx)))
        <3> HIDE DEF found
        <3> QED BY <1>1, RowRules, PairRules, PreviousRules, OtherRules
    <2> HIDE DEF error, warning
    <2> QED BY <2>1, FiveFinite
<1>7. IsFiniteSet(UNION {part1, part2, part3, part4, part5})
    <2> HIDE DEF part1, part2, part3, part4, part5
    <2> QED BY <1>2, <1>3, <1>4, <1>5, <1>6, FiveFinite
<1>8. After(t)!Registered(ctx) = UNION {part1, part2, part3, part4, part5}
    <2>1. After(t)!Registered(ctx) = UNION {
          error("INT-001", After(t)!NumeratorWithinDenominator(ctx)),
          warning("INT-002", After(t)!PercentageArithmetic(ctx)),
          error("INT-003", After(t)!SubsetWithinParent(ctx)),
          warning("INT-004", After(t)!RowsFullyMapped(ctx)),
          error("INT-005", After(t)!CompositeEqualsParts(ctx)),
          error("INT-006", After(t)!DeclaredIdentityHolds(ctx)),
          warning("INT-007", After(t)!DistinctIndicatorsDiffer(ctx)),
          warning("COM-003", After(t)!ZeroAfterActivity(ctx)),
          warning("APP-001", After(t)!WithinApplicableScope(ctx)),
          warning("TIM-002", After(t)!PeriodStillOpen(ctx)),
          warning("ACC-001", After(t)!PlausibleVersusTarget(ctx)),
          warning("ACC-002", After(t)!OutlierAgainstHistory(ctx)),
          error("ACC-003", After(t)!DenominatorUsable(ctx)),
          warning("ACC-004", After(t)!StateConcentration(ctx)),
          warning("COM-001", After(t)!ExpectedIndicatorsPresent(ctx)),
          warning("COM-002", After(t)!ComponentsSupplied(ctx)),
          warning("CON-001", After(t)!PeriodOverPeriodChange(ctx)),
          error("CON-002", After(t)!CumulativeMonotonic(ctx)),
          error("VAL-001", After(t)!ValueIsNumeric(ctx)),
          error("VAL-002", After(t)!ValueInRange(ctx)),
          warning("VAL-004", After(t)!DisaggregationVocabulary(ctx)),
          error("UNQ-001", After(t)!NoDuplicateRows(ctx)),
          warning("REC-001", After(t)!TrackerAgreesWithFramework(ctx)),
          warning("REC-002", After(t)!FrameworkCoversTheTracker(ctx)),
          warning("REC-003", After(t)!TrackerCoversTheFramework(ctx))}
        BY DEF After!Registered
    <2> HIDE DEF found, error, warning
    <2> QED BY <2>1
<1> QED BY <1>7, <1>8

(* A run of the rules over a return finds a finite number of things.       *)
LEMMA FindingsFinite ==
    ASSUME NEW t, NEW st, NEW p, target \in Seq(Range(target))
    PROVE  IsFiniteSet(After(t)!Findings(st, p))
<1>1. IsFiniteSet(After(t)!ExpectedOf(st, p))
    <2> DEFINE S == {u \in Range(target) : u.state = st /\ u.period = p}
               f == [u \in S |-> u.indicator]
    <2>1. PICK n \in Nat : DOMAIN target = 1..n
        OBVIOUS
    <2>2. IsFiniteSet(S)
        BY <2>1, FS_Interval, RangeFinite, FS_Subset
    <2>3. IsFiniteSet(Range(f))
        <3> HIDE DEF S
        <3> QED BY <2>2, RangeFinite
    <2>4. {u.indicator : u \in {v \in After(t)!Range(target) : v.state = st /\ v.period = p}}
          = Range(f)
        BY DEF Range, After!Range
    <2>5. /\ After(t)!ApplicableTo(st) \subseteq Indicator
          /\ {i \in After(t)!Indicator : After(t)!Def(i).core /\ After(t)!Def(i).active}
                \subseteq Indicator
        BY DEF After!ApplicableTo, After!Indicator, After!Range, Indicator, Range
    <2> HIDE DEF f
    <2> QED BY <2>3, <2>4, <2>5, CatalogueFinite, FS_Subset DEF After!ExpectedOf
<1>2. DOMAIN After(t)!Lines(st, p) \subseteq Indicator
    BY DEF After!Lines, After!Reconcilable, After!Indicator, After!Range, Indicator, Range
<1>3. PICK ctx : ctx = After(t)!Context(st, p)
    OBVIOUS
<1>4. ctx.expected = After(t)!ExpectedOf(st, p) /\ ctx.lines = After(t)!Lines(st, p)
    BY <1>3 DEF After!Context
<1> QED BY <1>1, <1>2, <1>3, <1>4, RegisteredFinite DEF After!Findings

-----------------------------------------------------------------------------
(* Types.                                                                  *)

(* The table with a new return in it is one.                               *)
LEMMA LandedTable ==
    ASSUME IsTable(latest), NEW f, IsFiling(f)
    PROVE  IsTable(Landed(f))
<1> DEFINE u == <<f.state, f.period>>
<1>1. DOMAIN Landed(f) \subseteq State \X Period
    BY DEF IsTable, Landed, IsFiling
<1>2. IsReturn(Landed(f)[u])
    BY FS_EmptySet DEF IsFiling, Landed, IsReturn, Status, Label
<1>3. \A v \in DOMAIN Landed(f) \ {u} : Landed(f)[v] = latest[v] /\ v \in DOMAIN latest
    BY DEF Landed
<1> QED BY <1>1, <1>2, <1>3 DEF IsTable

(* A run of the rules leaves a table.                                      *)
LEMMA CheckedTable ==
    ASSUME NEW t, IsTable(t), NEW S, target \in Seq(Range(target))
    PROVE  IsTable(After(t)!Checked(S))
<1> DEFINE c == After(t)!Checked(S)
<1>1. DOMAIN c = DOMAIN t
    BY DEF After!Checked
<1>2. ASSUME NEW u \in DOMAIN t PROVE IsReturn(c[u])
    <2>1. CASE u \notin S
        BY <2>1 DEF IsTable, After!Checked
    <2>2. CASE u \in S
        <3> DEFINE row == t[u]
                   found == After(t)!Findings(u[1], u[2])
        <3>0. IsReturn(row)
            BY DEF IsTable
        <3>1. PICK label :
                 /\ label \in [Indicator -> Label]
                 /\ c[u] = [row EXCEPT !.findings = found,
                               !.status = IF @ = "APPROVED" THEN @ ELSE "VALIDATED",
                               !.label = label]
            <4> DEFINE doubt(i) == {f \in found : f.indicator = i /\ f.severity # "INFO"}
                       label == [i \in Indicator |->
                          IF row.rows[i] = <<>> THEN row.label[i]
                          ELSE After(t)!Relabel(row.label[i], \E f \in doubt(i) : f.blocks,
                                                doubt(i) # {})]
            <4>1. label \in [Indicator -> Label]
                <5>1. ASSUME NEW i \in Indicator, NEW b, NEW d
                      PROVE  After(t)!Relabel(row.label[i], b, d) \in Label
                    BY <3>0
                       DEF IsReturn, After!Relabel, After!MarkUnfit, After!MarkQueried,
                           Label
                <5> QED BY <3>0, <5>1 DEF IsReturn
            <4>2. c[u] = [row EXCEPT !.findings = found,
                               !.status = IF @ = "APPROVED" THEN @ ELSE "VALIDATED",
                               !.label = label]
                BY <2>2, <3>0
                   DEF After!Checked, IsReturn, After!Indicator, After!Range, Indicator,
                       Range
            <4> HIDE DEF label, c
            <4> QED BY <4>1, <4>2
        <3>2. IsFiniteSet(found)
            BY FindingsFinite
        <3> HIDE DEF found, c
        <3> QED BY <3>0, <3>1, <3>2 DEF IsReturn, Status
    <2> QED BY <2>1, <2>2
<1> QED BY <1>1, <1>2 DEF IsTable

(* The findings that matter are among those of the return.                 *)
LEMMA MaterialFinite ==
    ASSUME NEW t, IsTable(t), NEW st, NEW p
    PROVE  IsFiniteSet(AfterVerdicts(t)!MaterialFindings(st, p))
<1> DEFINE S == {g \in t[<<st, p>>].findings :
                     /\ g.severity \in {"ERROR", "WARNING"}
                     /\ g.indicator # None /\ AfterVerdicts(t)!RowsOf(st, p, g.indicator) # <<>>}
           f == [g \in S |->
                   [state |-> st, indicator |-> g.indicator, rule |-> g.rule, blocks |-> g.blocks,
                    reported |-> AfterVerdicts(t)!LastRow(st, p, g.indicator).value,
                    expected |-> g.expected]]
<1>0. ASSUME NEW g \in AfterVerdicts(t)!Doubted(p), g.state = st
      PROVE  st \in AfterVerdicts(t)!CurrentStates(p) /\ \E h \in S : g = f[h]
    <2>1. PICK o \in AfterVerdicts(t)!CurrentStates(p) :
             \E h \in {k \in t[<<o, p>>].findings :
                        /\ k.severity \in {"ERROR", "WARNING"}
                        /\ k.indicator # None
                        /\ AfterVerdicts(t)!RowsOf(o, p, k.indicator) # <<>>} :
             g = [state |-> o, indicator |-> h.indicator, rule |-> h.rule, blocks |-> h.blocks,
                  reported |-> AfterVerdicts(t)!LastRow(o, p, h.indicator).value,
                  expected |-> h.expected]
        BY DEF AfterVerdicts!Doubted
    <2>2. g.state = o
        BY <2>1, SMT
    <2> QED BY <1>0, <2>1, <2>2
<1>1. AfterVerdicts(t)!MaterialFindings(st, p) \subseteq Range(f)
    <2>1. ASSUME NEW g \in AfterVerdicts(t)!Doubted(p), g.state = st
          PROVE  g \in Range(f)
        <3>1. PICK h \in S : g = f[h]
            BY <1>0, <2>1
        <3> QED BY <3>1 DEF Range
    <2> QED BY <2>1 DEF AfterVerdicts!MaterialFindings
<1>2. CASE <<st, p>> \in DOMAIN t
    <2>1. IsFiniteSet(S)
        BY <1>2, FS_Subset DEF IsTable, IsReturn
    <2> HIDE DEF S
    <2> QED BY <1>1, <2>1, RangeFinite, FS_Subset
<1>3. CASE <<st, p>> \notin DOMAIN t
    <2>1. \A g \in AfterVerdicts(t)!Doubted(p) : g.state # st
        BY <1>0, <1>3
           DEF AfterVerdicts!CurrentStates, AfterVerdicts!Current, AfterVerdicts!Filed
    <2>2. AfterVerdicts(t)!MaterialFindings(st, p) = {}
        BY <2>1 DEF AfterVerdicts!MaterialFindings
    <2> QED BY <2>2, FS_EmptySet
<1> QED BY <1>2, <1>3

(* Settling the verdicts leaves a table.                                   *)
LEMMA VerdictsTable ==
    ASSUME NEW t, IsTable(t), NEW p
    PROVE  IsTable(AfterVerdicts(t)!WithVerdicts(p))
<1> DEFINE w == AfterVerdicts(t)!WithVerdicts(p)
<1>1. DOMAIN w = DOMAIN t
    BY DEF AfterVerdicts!WithVerdicts
<1>2. ASSUME NEW u \in DOMAIN t PROVE IsReturn(w[u])
    <2>1. IsReturn(t[u])
        BY DEF IsTable
    <2>2. PICK m \in Nat : m = Cardinality(AfterVerdicts(t)!MaterialFindings(u[1], p))
        BY MaterialFinite, FS_CardinalityType
    <2>3. PICK verdict \in {"NO_DATA", "FIT", "FIT_WITH_NOTES", "NOT_FIT"} :
             verdict = AfterVerdicts(t)!Verdict(u[1], p)
        BY DEF AfterVerdicts!Verdict
    <2>5. \A S : AfterVerdicts(t)!Cardinality(S) = Cardinality(S)
        BY DEF Cardinality, AfterVerdicts!Cardinality
    <2>4. w[u] = t[u] \/ w[u] = [t[u] EXCEPT !.verdict = verdict, !.material = m]
        BY <2>2, <2>3, <2>5 DEF AfterVerdicts!WithVerdicts
    <2> HIDE DEF w
    <2> QED BY <2>1, <2>4 DEF IsReturn
<1> QED BY <1>1, <1>2 DEF IsTable

(* A decision leaves a table.                                              *)
LEMMA StatusTable ==
    ASSUME NEW t, IsTable(t), NEW u \in DOMAIN t, NEW s \in Status
    PROVE  IsTable([t EXCEPT ![u].status = s])
<1> DEFINE d == [t EXCEPT ![u].status = s]
<1>1. DOMAIN d = DOMAIN t /\ \A v \in DOMAIN t : d[v] = IF v = u THEN [t[u] EXCEPT !.status = s] ELSE t[v]
    OBVIOUS
<1>2. IsReturn([t[u] EXCEPT !.status = s])
    BY DEF IsTable, IsReturn
<1> HIDE DEF d
<1> QED BY <1>1, <1>2 DEF IsTable

(* A restatement leaves a table: the new figure is a number.               *)
LEMMA RestatedTable ==
    ASSUME IsTable(latest), NEW u \in DOMAIN latest, NEW i \in Indicator,
           latest[u].rows[i] # <<>>, NEW v \in Int, NEW label \in Label
    PROVE  IsTable([latest EXCEPT ![u].rows[i][1].value = v, ![u].label[i] = label])
<1> DEFINE rows == latest[u].rows[i]
           row == [rows[1] EXCEPT !.value = v]
           column == [rows EXCEPT ![1] = row]
           restated == [latest[u] EXCEPT !.rows = [@ EXCEPT ![i] = column],
                                         !.label = [@ EXCEPT ![i] = label]]
           d == [latest EXCEPT ![u].rows[i][1].value = v, ![u].label[i] = label]
<1>1. IsColumn(rows) /\ IsReturn(latest[u])
    BY DEF IsTable, IsReturn
<1>2. IsColumn(column)
    <2>1. PICK n \in Nat : DOMAIN rows = 1..n /\ rows \in [1..n -> Range(rows)]
        BY <1>1 DEF IsColumn
    <2>2. n >= 1
        BY <2>1
    <2>3. rows[1] \in Range(rows)
        BY <2>1, <2>2 DEF Range
    <2>4. /\ DOMAIN row = {"value", "numerator", "denominator", "label", "raw"}
          /\ row.value = v /\ row.numerator = rows[1].numerator
          /\ row.denominator = rows[1].denominator
        BY <1>1, <2>3 DEF IsColumn
    <2>5. /\ DOMAIN column = 1..n /\ column[1] = row
          /\ \A k \in 1..n : k # 1 => column[k] = rows[k]
        BY <2>1, <2>2
    <2>6. \A r \in Range(column) : r = row \/ r \in Range(rows)
        BY <2>1, <2>5 DEF Range
    <2>7. column \in Seq(Range(column))
        <3>1. column \in [1..n -> Range(column)]
            BY <2>1, <2>5 DEF Range
        <3> HIDE DEF column
        <3> QED BY <3>1
    <2> HIDE DEF column, row
    <2> QED BY <1>1, <2>3, <2>4, <2>6, <2>7 DEF IsColumn
<1>3. IsReturn(restated)
    <2> HIDE DEF column
    <2> QED BY <1>1, <1>2 DEF IsReturn
<1>4. DOMAIN d = DOMAIN latest /\ \A w \in DOMAIN latest : d[w] = IF w = u THEN restated ELSE latest[w]
    BY <1>1 DEF IsReturn
<1>5. IsTable(d)
    <2> HIDE DEF d, restated
    <2> QED BY <1>3, <1>4 DEF IsTable
<1> QED BY <1>5

(* The empty table is one.                                                 *)
LEMMA TypeInit == Init => TypeOK
<1> SUFFICES ASSUME Init PROVE TypeOK
    OBVIOUS
<1>1. IsSetup(setup)
    BY AssessmentAssumption DEF Init
<1>2. IsTable(latest)
    BY DEF Init, IsTable
<1> QED BY <1>1, <1>2 DEF Init, TypeOK, IsSetup

(* Filing.                                                                 *)
LEMMA TypeFile ==
    ASSUME TypeOK, NEW f \in setup.filings, NEW auto, File(f, auto)
    PROVE  TypeOK'
<1> DEFINE u == <<f.state, f.period>>
           checked == After(Landed(f))!Checked({u})
           decided == IF auto THEN [checked EXCEPT ![u].status = "APPROVED"] ELSE checked
<1>0. IsSetup(setup) /\ IsFiling(f)
    BY AssessmentAssumption DEF TypeOK, IsSetup
<1>1. IsTable(Landed(f))
    BY <1>0, LandedTable DEF TypeOK
<1>2. IsTable(checked) /\ u \in DOMAIN checked
    <2>1. IsTable(checked)
        BY <1>1, CheckedTable DEF TypeOK
    <2>2. DOMAIN checked = DOMAIN Landed(f)
        BY DEF After!Checked
    <2> QED BY <2>1, <2>2 DEF Landed
<1>3. IsTable(decided)
    <2> HIDE DEF checked, u
    <2> QED BY <1>2, StatusTable DEF Status
<1>4. IsTable(latest')
    <2>1. latest' = After(decided)!Checked(Enclosing(f.state, f.period))
        BY DEF File
    <2> HIDE DEF decided
    <2> QED BY <1>3, <2>1, CheckedTable DEF TypeOK
<1>5. /\ roster' \in Rosters
      /\ filings' \in 0..setup.maxFilings
      /\ UNCHANGED <<setup, target, changes>>
    <2>1. f.state \in State /\ setup.maxFilings \in Nat
        BY <1>0 DEF IsSetup, IsFiling
    <2>2. /\ filings < setup.maxFilings /\ filings' = filings + 1
          /\ roster' = [roster EXCEPT ![f.state].reporting = TRUE]
          /\ UNCHANGED <<setup, target, changes>>
        BY DEF File
    <2>3. roster' \in Rosters
        BY <2>1, <2>2 DEF TypeOK, Rosters
    <2> QED BY <2>1, <2>2, <2>3 DEF TypeOK
<1> QED BY <1>4, <1>5 DEF TypeOK, SameTarget

(* A change uses up one of those allowed.                                  *)
LEMMA ChangesBounded ==
    ASSUME TypeOK, Changing
    PROVE  changes' \in 0..setup.maxChanges /\ setup' = setup /\ filings' = filings
<1>1. setup.maxChanges \in Nat
    BY AssessmentAssumption DEF TypeOK, IsSetup
<1> QED BY <1>1 DEF TypeOK, Changing

(* Decisions and restatements.                                             *)
LEMMA TypeReview ==
    ASSUME TypeOK, NEW u \in DOMAIN latest,
           Approve(u) \/ Reject(u) \/ \E i \in Indicator, v \in setup.proposals : Restate(u, i, v)
    PROVE  TypeOK'
<1>0. IsSetup(setup)
    BY AssessmentAssumption DEF TypeOK
<1>1. IsTable(latest')
    <2>1. CASE Approve(u)
        BY <2>1, StatusTable DEF Approve, Keep, Status, TypeOK
    <2>2. CASE Reject(u)
        BY <2>2, StatusTable DEF Reject, Keep, Status, TypeOK
    <2>3. ASSUME NEW i \in Indicator, NEW v \in setup.proposals, Restate(u, i, v)
          PROVE  IsTable(latest')
        <3>1. PICK label \in {latest[u].label[i],
                     IF IsValid(latest[u].label[i]) THEN latest[u].label[i] ELSE Cleared(TRUE)} :
                 latest' = [latest EXCEPT ![u].rows[i][1].value = v, ![u].label[i] = label]
            BY <2>3 DEF Restate, Keep
        <3>2. label \in Label
            <4>1. latest[u].label[i] \in Label
                BY DEF TypeOK, IsTable, IsReturn
            <4> QED BY <4>1 DEF Cleared, Label
        <3>3. v \in Int /\ latest[u].rows[i] # <<>>
            BY <1>0, <2>3 DEF IsSetup, Restate
        <3> QED BY <3>1, <3>2, <3>3, RestatedTable DEF TypeOK
    <2> QED BY <2>1, <2>2, <2>3
<1>2. UNCHANGED <<setup, roster, target, filings>> /\ changes' \in 0..setup.maxChanges
    <2>1. Changing /\ UNCHANGED <<roster, target>>
        <3> USE DEF Keep
        <3>1. CASE Approve(u)
            BY <3>1 DEF Approve
        <3>2. CASE Reject(u)
            BY <3>2 DEF Reject
        <3>3. CASE \E i \in Indicator, v \in setup.proposals : Restate(u, i, v)
            BY <3>3, Zenon DEF Restate
        <3> QED BY <3>1, <3>2, <3>3
    <2> QED BY <2>1, ChangesBounded
<1> QED BY <1>1, <1>2 DEF TypeOK, SameTarget

(* Running the rules for a period.                                         *)
LEMMA TypeRevalidate ==
    ASSUME TypeOK, NEW p, RevalidatePeriod(p)
    PROVE  TypeOK'
<1> DEFINE current == {u \in DOMAIN latest : u[2] = p /\ Current(u[1], p)}
           checked == After(latest)!Checked(current)
<1>0. IsSetup(setup)
    BY AssessmentAssumption DEF TypeOK
<1>1. IsTable(checked)
    BY CheckedTable DEF TypeOK
<1>2. IsTable(latest')
    <2>1. latest' = AfterVerdicts(checked)!WithVerdicts(p)
        BY DEF RevalidatePeriod, Keep
    <2> HIDE DEF checked
    <2> QED BY <1>1, <2>1, VerdictsTable
<1>3. UNCHANGED <<setup, roster, target, filings>> /\ changes' \in 0..setup.maxChanges
    BY ChangesBounded DEF RevalidatePeriod, Keep
<1> QED BY <1>2, <1>3 DEF TypeOK, SameTarget

(* Reference data: an upsert keeps the keys of the targets distinct.       *)
LEMMA TypeReference ==
    ASSUME TypeOK,
           \/ \E row \in setup.targets : UpsertTarget(row)
           \/ \E m \in setup.moves : UpdateState(m.state, m.cohort, m.active)
           \/ \E r \in setup.retunes : Retune(r)
    PROVE  TypeOK'
<1>0. IsSetup(setup)
    BY AssessmentAssumption DEF TypeOK
<1>1. UNCHANGED <<setup, latest, filings>> /\ changes' \in 0..setup.maxChanges
    BY ChangesBounded DEF UpsertTarget, UpdateState, Retune
<1>2. roster' \in Rosters
    <2>1. ASSUME NEW m \in setup.moves, UpdateState(m.state, m.cohort, m.active)
          PROVE  roster' \in Rosters
        <3>1. m.state \in State /\ m.cohort \in Cohort /\ m.active \in BOOLEAN
            BY <1>0 DEF IsSetup
        <3>2. roster' = [roster EXCEPT ![m.state].cohort = m.cohort, ![m.state].active = m.active]
            BY <2>1 DEF UpdateState
        <3> QED BY <3>1, <3>2 DEF TypeOK, Rosters
    <2> QED BY <2>1 DEF UpsertTarget, Retune, TypeOK
<1>3. /\ target' \in Seq(Range(target'))
      /\ \A m, n \in DOMAIN target' : m # n => ~SameTarget(target'[m], target'[n])
    <2>1. CASE UNCHANGED target
        BY <2>1 DEF TypeOK
    <2>2. ASSUME NEW row, UpsertTarget(row)
          PROVE  /\ target' \in Seq(Range(target'))
                 /\ \A m, n \in DOMAIN target' : m # n => ~SameTarget(target'[m], target'[n])
        <3>1. PICK k \in Nat : DOMAIN target = 1..k /\ target \in [1..k -> Range(target)]
            BY DEF TypeOK
        <3>2. CASE \E t \in Range(target) : SameTarget(t, row)
            <4>1. /\ DOMAIN target' = 1..k
                  /\ \A n \in 1..k : target'[n] = IF SameTarget(target[n], row) THEN row ELSE target[n]
                  /\ target' \in [1..k -> Range(target')]
                BY <2>2, <3>1, <3>2 DEF UpsertTarget, Range
            <4> QED BY <3>1, <4>1 DEF TypeOK, SameTarget
        <3>3. CASE ~\E t \in Range(target) : SameTarget(t, row)
            <4>1. target' = Append(target, row) /\ target \in Seq(Range(target))
                BY <2>2, <3>3 DEF UpsertTarget, TypeOK
            <4>2. /\ DOMAIN target' = 1..(k + 1)
                  /\ \A n \in 1..k : target'[n] = target[n] /\ target[n] \in Range(target)
                  /\ target'[k + 1] = row
                BY <3>1, <4>1 DEF Range
            <4>3. target' \in [1..(k+1) -> Range(target')]
                <5>1. target' \in Seq(Range(target) \cup {row})
                    BY <4>1
                <5>2. target' \in [1..(k+1) -> Range(target) \cup {row}]
                    BY <4>2, <5>1
                <5> QED BY <4>2, <5>2 DEF Range
            <4> QED BY <3>1, <3>3, <4>2, <4>3 DEF TypeOK, SameTarget
        <3> QED BY <3>2, <3>3
    <2> QED BY <2>1, <2>2 DEF UpdateState, Retune
<1>4. setup' \in Setups /\ filings' \in 0..setup'.maxFilings /\ changes' \in 0..setup'.maxChanges
    BY <1>1 DEF TypeOK
<1>5. IsTable(latest')
    BY <1>1 DEF TypeOK
<1> QED BY <1>2, <1>3, <1>4, <1>5 DEF TypeOK

(* Every step.                                                             *)
LEMMA TypeStep == TypeOK /\ [Next]_vars => TypeOK'
<1> SUFFICES ASSUME TypeOK, [Next]_vars PROVE TypeOK'
    OBVIOUS
<1>1. CASE UNCHANGED vars
    BY <1>1 DEF TypeOK, vars, store, SameTarget
<1>2. CASE Next
    BY <1>2, TypeFile, TypeReview, TypeRevalidate, TypeReference DEF Next
<1> QED BY <1>1, <1>2

(* Every variable has its type: a return its fields, a figure its          *)
(* numbers, a target its key.                                              *)
THEOREM AssessmentTypeCorrect == Spec => []TypeOK
BY TypeInit, TypeStep, PTL DEF Spec

-----------------------------------------------------------------------------
(* Reconciliation.                                                         *)

(* The largest of some of the first n numbers, n among them, is n.         *)
LEMMA MaxIsLast ==
    ASSUME NEW n \in Nat, NEW S \in SUBSET (1..n), n \in S
    PROVE  Max(S) = n
<1>1. \A x \in S : (\A y \in S : x >= y) => x = n
    OBVIOUS
<1>2. \A y \in S : n >= y
    OBVIOUS
<1> QED BY <1>1, <1>2 DEF Max

(* What a step does to the figures a line rests on.                        *)
Undisturbed(st, p) ==
    /\ setup' = setup
    /\ Stands(<<st, p>>) \/ StillMissing(<<st, p>>)
    /\ \A part \in Range(Parts[p]) : Current(st, part) => Stands(<<st, part>>)

(* A figure that stands is the same afterwards.                            *)
LEMMA StandingFigure ==
    ASSUME NEW st, NEW p, Stands(<<st, p>>)
    PROVE  /\ Current(st, p) /\ Current(st, p)'
           /\ \A i : CurrentFigure(st, p, i)' = CurrentFigure(st, p, i)
<1>1. /\ <<st, p>> \in DOMAIN latest /\ <<st, p>> \in DOMAIN latest'
      /\ Current(st, p) /\ Current(st, p)'
      /\ latest'[<<st, p>>].rows = latest[<<st, p>>].rows
    BY DEF Stands, CurrentReturns
<1>2. \A i : RowsOf(st, p, i)' = RowsOf(st, p, i)
    BY <1>1 DEF RowsOf, Filed
<1>3. \A i : FigureOf(st, p, i)' = FigureOf(st, p, i)
    BY <1>2 DEF FigureOf, LastRow
<1> QED BY <1>1, <1>3 DEF CurrentFigure

(* ... and so is that of a return that is not there before or after.       *)
LEMMA UndisturbedFigure ==
    ASSUME NEW st, NEW p, Undisturbed(st, p)
    PROVE  /\ \A i : CurrentFigure(st, p, i)' = CurrentFigure(st, p, i)
           /\ \A part \in Range(Parts[p]) : \A i :
                 CurrentFigure(st, part, i) # None =>
                    CurrentFigure(st, part, i)' = CurrentFigure(st, part, i)
<1>1. ASSUME StillMissing(<<st, p>>)
      PROVE  \A i : CurrentFigure(st, p, i)' = CurrentFigure(st, p, i)
    <2>1. ~Current(st, p) /\ ~Current(st, p)'
        BY <1>1 DEF StillMissing, CurrentReturns, Current, Filed
    <2> QED BY <2>1 DEF CurrentFigure
<1>2. ASSUME NEW part \in Range(Parts[p]), NEW i, CurrentFigure(st, part, i) # None
      PROVE  CurrentFigure(st, part, i)' = CurrentFigure(st, part, i)
    <2>1. Current(st, part)
        BY <1>2 DEF CurrentFigure
    <2> QED BY <2>1, StandingFigure DEF Undisturbed
<1> QED BY <1>1, <1>2, StandingFigure DEF Undisturbed

(* The months that gave a figure still give it, and others may.            *)
LEMMA PartValuesGrow ==
    ASSUME NEW st, NEW p, Undisturbed(st, p), NEW i
    PROVE  LET before == PartValues(st, p, i)
               after == PartValues(st, p, i)'
           IN  /\ DOMAIN before \subseteq DOMAIN after /\ DOMAIN after \subseteq DOMAIN Parts[p]
               /\ \A n \in DOMAIN before : after[n] = before[n]
               /\ DOMAIN before = DOMAIN Parts[p] => after = before
<1>1. \A n \in DOMAIN Parts[p] : CurrentFigure(st, Parts[p][n], i) # None =>
         CurrentFigure(st, Parts[p][n], i)' = CurrentFigure(st, Parts[p][n], i)
    BY UndisturbedFigure DEF Range
<1> DEFINE given == {n \in DOMAIN Parts[p] : CurrentFigure(st, Parts[p][n], i) # None}
           later == {n \in DOMAIN Parts[p] : CurrentFigure(st, Parts[p][n], i)' # None}
<1>2. /\ PartValues(st, p, i) = [n \in given |-> CurrentFigure(st, Parts[p][n], i)]
      /\ PartValues(st, p, i)' = [n \in later |-> CurrentFigure(st, Parts[p][n], i)']
    BY DEF PartValues
<1>3. given \subseteq later /\ later \subseteq DOMAIN Parts[p]
    BY <1>1
<1>4. \A n \in given : CurrentFigure(st, Parts[p][n], i)' = CurrentFigure(st, Parts[p][n], i)
    BY <1>1
<1> HIDE DEF given, later
<1> QED BY <1>2, <1>3, <1>4

(* Enough of the n months is in for a verdict.                             *)
Settled(basis, given, n) == IF basis \in NeedsEveryPart THEN given = 1..n ELSE n \in given

(* What the months come to does not change once it can be judged.          *)
LEMMA SettledFold ==
    ASSUME NEW basis \in TimeBases, NEW n \in Nat, n >= 1, NEW before, NEW after,
           DOMAIN before \subseteq DOMAIN after, DOMAIN after \subseteq 1..n,
           \A m \in DOMAIN before : after[m] = before[m],
           DOMAIN before = 1..n => after = before,
           Settled(basis, DOMAIN before, n)
    PROVE  Folded(basis, after) = Folded(basis, before) /\ Settled(basis, DOMAIN after, n)
<1>1. CASE basis \in NeedsEveryPart
    BY <1>1 DEF Settled
<1>2. CASE basis \notin NeedsEveryPart
    <2>1. basis \in {"SNAPSHOT", "LATEST"}
        BY <1>2 DEF NeedsEveryPart, TimeBases
    <2>2. n \in DOMAIN before /\ n \in DOMAIN after
        BY <1>2 DEF Settled
    <2>3. Max(DOMAIN before) = n /\ Max(DOMAIN after) = n
        BY <2>2, MaxIsLast
    <2>4. Folded(basis, before) = before[n] /\ Folded(basis, after) = after[n]
        BY <2>1, <2>2, <2>3 DEF Folded
    <2> QED BY <1>2, <2>2, <2>4 DEF Settled
<1> QED BY <1>1, <1>2

(* A line with a verdict keeps it.                                         *)
LEMMA JudgedStays ==
    ASSUME NEW st, NEW p \in Period, Parts[p] # <<>>, Undisturbed(st, p), setup \in Setups,
           NEW i \in DOMAIN Lines(st, p), Lines(st, p)[i].status \in Judged
    PROVE  i \in DOMAIN Lines(st, p)' /\ Lines(st, p)'[i].status = Lines(st, p)[i].status
<1>1. PICK n \in Nat : n >= 1 /\ DOMAIN Parts[p] = 1..n
    <2>1. Parts[p] \in Seq(Period)
        BY AssessmentAssumption
    <2>2. Len(Parts[p]) \in Nat /\ Len(Parts[p]) # 0 /\ DOMAIN Parts[p] = 1..Len(Parts[p])
        BY <2>1
    <2> QED BY <2>2
<1>2. Max(DOMAIN Parts[p]) = n
    BY <1>1, MaxIsLast
<1>3. PICK before, after, coarse, basis :
         /\ before = PartValues(st, p, i) /\ after = PartValues(st, p, i)'
         /\ coarse = CurrentFigure(st, p, i) /\ basis = TimeBasis(i)
    OBVIOUS
<1>4. /\ basis = TimeBasis(i)' /\ Tolerance(i)' = Tolerance(i)
      /\ Reconcilable(st)' = Reconcilable(st)
    BY <1>3 DEF Undisturbed, TimeBasis, Tolerance, Reconcilable, Def
<1>5. i \in Reconcilable(st) /\ i \in Indicator
    BY DEF Lines, Reconcilable
<1>6. basis \in TimeBases
    BY <1>3, <1>5, AssessmentAssumption DEF IsSetup, TimeBasis, TimeBases, Def
<1>7. Lines(st, p)[i].status = LineStatus(i, coarse, Folded(basis, before), DOMAIN before, 1..n)
    BY <1>1, <1>3 DEF Lines
<1>8. Folded(basis, before) # None /\ Settled(basis, DOMAIN before, n)
    BY <1>1, <1>2, <1>3, <1>7 DEF LineStatus, Judged, Settled
<1>9. /\ DOMAIN before \subseteq DOMAIN after /\ DOMAIN after \subseteq 1..n
      /\ \A m \in DOMAIN before : after[m] = before[m]
      /\ DOMAIN before = 1..n => after = before
    BY <1>1, <1>3, PartValuesGrow
<1>10. Folded(basis, after) = Folded(basis, before)
    BY <1>1, <1>6, <1>8, <1>9, SettledFold
<1>11. Settled(basis, DOMAIN after, n)
    BY <1>1, <1>6, <1>8, <1>9, SettledFold
<1>12. coarse = CurrentFigure(st, p, i)'
    BY <1>3, UndisturbedFigure
<1>13. DOMAIN before # {} /\ DOMAIN after # {}
    BY <1>8, <1>9 DEF Folded
<1>14. \E part \in Range(Parts[p]) : Current(st, part)'
    <2>1. PICK m \in DOMAIN Parts[p] : CurrentFigure(st, Parts[p][m], i) # None
        BY <1>3, <1>13 DEF PartValues
    <2>2. Parts[p][m] \in Range(Parts[p]) /\ Current(st, Parts[p][m])
        BY <2>1 DEF CurrentFigure, Range
    <2> QED BY <2>2, StandingFigure DEF Undisturbed
<1>15. i \in DOMAIN Lines(st, p)'
    BY <1>3, <1>4, <1>5, <1>13, <1>14 DEF Lines
<1>16. Lines(st, p)'[i].status =
          LineStatus(i, coarse, Folded(basis, after), DOMAIN after, 1..n)'
    BY <1>1, <1>3, <1>4, <1>12, <1>15 DEF Lines
<1>17. LineStatus(i, coarse, Folded(basis, after), DOMAIN after, 1..n)' =
          LineStatus(i, coarse, Folded(basis, before), DOMAIN before, 1..n)
    BY <1>1, <1>2, <1>3, <1>4, <1>8, <1>10, <1>11 DEF LineStatus, Settled
<1> QED BY <1>7, <1>15, <1>16, <1>17

(* A step leaves every verdict that nothing disturbed.                     *)
LEMMA JudgedStep ==
    setup \in Setups /\ [Next]_vars =>
        \A st \in State, p \in {q \in Period : Parts[q] # <<>>} :
          ( /\ Stands(<<st, p>>) \/ StillMissing(<<st, p>>)
            /\ \A part \in Range(Parts[p]) : Current(st, part) => Stands(<<st, part>>) )
          => \A lines \in {Lines(st, p)}, later \in {Lines(st, p)'} :
                \A i \in {j \in DOMAIN lines : lines[j].status \in Judged} :
                   i \in DOMAIN later /\ later[i].status = lines[i].status
<1> SUFFICES ASSUME setup \in Setups, [Next]_vars,
                    NEW st \in State, NEW p \in Period, Parts[p] # <<>>,
                    Stands(<<st, p>>) \/ StillMissing(<<st, p>>),
                    \A part \in Range(Parts[p]) : Current(st, part) => Stands(<<st, part>>),
                    NEW i \in DOMAIN Lines(st, p), Lines(st, p)[i].status \in Judged
             PROVE  i \in DOMAIN Lines(st, p)' /\ Lines(st, p)'[i].status = Lines(st, p)[i].status
    OBVIOUS
<1>1. Undisturbed(st, p)
    BY SetupStays DEF Undisturbed
<1> QED BY <1>1, JudgedStays

(* A verdict on a quarter is not overturned by a month that comes in late. *)
THEOREM VerdictsOutliveLateMonthsAlways == Spec => VerdictsOutliveLateMonths
BY AlwaysASetup, JudgedStep, PTL DEF Spec, VerdictsOutliveLateMonths

-----------------------------------------------------------------------------
(* Verdicts.                                                               *)

(* The tables differ in nothing that a verdict is judged by.               *)
AlikeTo(t) ==
    /\ DOMAIN latest' = DOMAIN t
    /\ \A u \in DOMAIN t : /\ latest'[u].status = t[u].status /\ latest'[u].rows = t[u].rows
                           /\ latest'[u].label = t[u].label /\ latest'[u].findings = t[u].findings
(* The states and the catalogue are not in the table.                      *)
LEMMA SameNames ==
    \A t : AfterVerdicts(t)!State = State /\ AfterVerdicts(t)!Indicator = Indicator
BY
   DEF State, AfterVerdicts!State, Indicator, AfterVerdicts!Indicator, Range,
       AfterVerdicts!Range

(* What such a table says of a return is what the new one says ...         *)
LEMMA SameRows ==
    ASSUME NEW t, AlikeTo(t)
    PROVE  /\ \A st, p, i : RowsOf(st, p, i)' = AfterVerdicts(t)!RowsOf(st, p, i)
           /\ \A st, p : Current(st, p)' = AfterVerdicts(t)!Current(st, p)
<1>1. \A st, p : Filed(st, p)' = AfterVerdicts(t)!Filed(st, p)
    BY DEF AlikeTo, Filed, AfterVerdicts!Filed
<1>2. \A st, p, i : RowsOf(st, p, i)' = AfterVerdicts(t)!RowsOf(st, p, i)
    BY <1>1 DEF AlikeTo, Filed, AfterVerdicts!Filed, RowsOf, AfterVerdicts!RowsOf
<1>3. \A st, p : Current(st, p)' = AfterVerdicts(t)!Current(st, p)
    BY <1>1 DEF AlikeTo, Filed, AfterVerdicts!Filed, Current, AfterVerdicts!Current
<1> QED BY <1>2, <1>3
(* A sum does not depend on the table it is taken in.                      *)
LEMMA SameSums == \A t, f : AfterVerdicts(t)!SumFunction(f) = SumFunction(f)
BY DEF SumFunction, AfterVerdicts!SumFunction, SumFunctionOnSet, AfterVerdicts!SumFunctionOnSet,
       FoldFunctionOnSet, AfterVerdicts!FoldFunctionOnSet, MapThenFoldSet, AfterVerdicts!MapThenFoldSet

(* Nor does any other arithmetic.                                          *)
LEMMA SameArithmetic ==
    \A t : /\ \A a, b : AfterVerdicts(t)!Quotient(a, b) = Quotient(a, b)
           /\ \A S : AfterVerdicts(t)!Max(S) = Max(S)
           /\ \A f : AfterVerdicts(t)!Distortion(f) = Distortion(f)
           /\ \A x : AfterVerdicts(t)!Abs(x) = Abs(x)
BY DEF Quotient, AfterVerdicts!Quotient, Max, AfterVerdicts!Max, Abs, AfterVerdicts!Abs,
       Distortion, AfterVerdicts!Distortion

(* ... and so are the totals ...                                           *)
LEMMA SameTotal ==
    ASSUME NEW t, AlikeTo(t)
    PROVE  /\ \A p : CurrentStates(p)' = AfterVerdicts(t)!CurrentStates(p)
           /\ \A p, i : NationalTotal(p, i)' = AfterVerdicts(t)!NationalTotal(p, i)
<1>1. \A p : CurrentStates(p)' = AfterVerdicts(t)!CurrentStates(p)
    BY SameNames, SameRows DEF CurrentStates, AfterVerdicts!CurrentStates
<1>2. ASSUME NEW p, NEW i
      PROVE  NationalTotal(p, i)' = AfterVerdicts(t)!NationalTotal(p, i)
    <2> DEFINE stated(rows) == SumFunction([n \in Valued(rows) |-> rows[n].value])
    <2>1. NationalTotal(p, i)' =
            SumFunction([st \in CurrentStates(p) |-> stated(RowsOf(st, p, i))])'
        BY DEF NationalTotal
    <2>2. [st \in CurrentStates(p) |-> stated(RowsOf(st, p, i))]'
          = [st \in AfterVerdicts(t)!CurrentStates(p) |-> stated(AfterVerdicts(t)!RowsOf(st, p, i))]
        BY <1>1, SameRows
    <2>3. AfterVerdicts(t)!NationalTotal(p, i) =
            SumFunction([st \in AfterVerdicts(t)!CurrentStates(p) |->
                            stated(AfterVerdicts(t)!RowsOf(st, p, i))])
        BY SameSums DEF AfterVerdicts!NationalTotal, Valued, AfterVerdicts!Valued
    <2> QED BY <2>1, <2>2, <2>3
<1> QED BY <1>1, <1>2

(* ... the figures in doubt ...                                            *)
LEMMA SameDoubts ==
    ASSUME NEW t, AlikeTo(t)
    PROVE  \A p : Doubted(p)' = AfterVerdicts(t)!Doubted(p)
<1> DEFINE of(st, p, findings, rows) ==
             {[state |-> st, indicator |-> f.indicator, rule |-> f.rule, blocks |-> f.blocks,
               reported |-> rows[f.indicator][Len(rows[f.indicator])].value, expected |-> f.expected] :
            f \in {g \in findings :
                     /\ g.severity \in {"ERROR", "WARNING"}
                     /\ g.indicator # None /\ rows[g.indicator] # <<>>}}
           new(st, p) == of(st, p, latest'[<<st, p>>].findings, latest'[<<st, p>>].rows)
           old(st, p) == of(st, p, t[<<st, p>>].findings, t[<<st, p>>].rows)
<1>1. ASSUME NEW p
      PROVE  Doubted(p)' = UNION {new(st, p) : st \in CurrentStates(p)'}
    BY DEF Doubted, LastRow, RowsOf, CurrentStates, Current, Filed
<1>2. ASSUME NEW p
      PROVE  AfterVerdicts(t)!Doubted(p) = UNION {old(st, p) : st \in AfterVerdicts(t)!CurrentStates(p)}
    BY DEF AfterVerdicts!Doubted, AfterVerdicts!LastRow, AfterVerdicts!RowsOf,
       AfterVerdicts!CurrentStates, AfterVerdicts!Current, AfterVerdicts!Filed
<1>3. ASSUME NEW p, NEW st \in AfterVerdicts(t)!CurrentStates(p)
      PROVE  /\ latest'[<<st, p>>].findings = t[<<st, p>>].findings
             /\ latest'[<<st, p>>].rows = t[<<st, p>>].rows
    BY DEF AlikeTo, AfterVerdicts!CurrentStates, AfterVerdicts!Current, AfterVerdicts!Filed
<1> HIDE DEF of
<1>4. ASSUME NEW p
      PROVE  {new(st, p) : st \in CurrentStates(p)'}
             = {old(st, p) : st \in AfterVerdicts(t)!CurrentStates(p)}
    <2>1. CurrentStates(p)' = AfterVerdicts(t)!CurrentStates(p)
        BY SameTotal
    <2>2. \A st \in AfterVerdicts(t)!CurrentStates(p) : new(st, p) = old(st, p)
        BY <1>3
    <2> HIDE DEF new, old
    <2> QED BY <2>1, <2>2, Zenon
<1> HIDE DEF new, old
<1> QED BY <1>1, <1>2, <1>4

(* ... the findings that matter and the share they expose ...              *)
LEMMA SameShares ==
    ASSUME NEW t, AlikeTo(t)
    PROVE  \A st, p : /\ MaterialFindings(st, p)' = AfterVerdicts(t)!MaterialFindings(st, p)
                      /\ ExposedShare(st, p)' = AfterVerdicts(t)!ExposedShare(st, p)
<1>1. ASSUME NEW st, NEW p PROVE Weight(st, p)' = AfterVerdicts(t)!Weight(st, p)
    <2> DEFINE share(rows, total) ==
            SumFunction([n \in Valued(rows) |-> Quotient(Scale * Abs(rows[n].value), total)])
    <2>1. Weight(st, p)' =
            SumFunction([i \in {j \in Indicator : NationalTotal(p, j) # 0} |->
                share(RowsOf(st, p, i), NationalTotal(p, i))])'
        BY DEF Weight
    <2>2. AfterVerdicts(t)!Weight(st, p) =
            SumFunction([i \in {j \in Indicator : AfterVerdicts(t)!NationalTotal(p, j) # 0} |->
                share(AfterVerdicts(t)!RowsOf(st, p, i), AfterVerdicts(t)!NationalTotal(p, i))])
        <3> DEFINE shareT(rows, total) ==
                     AfterVerdicts(t)!SumFunction([n \in AfterVerdicts(t)!Valued(rows) |->
                         AfterVerdicts(t)!Quotient(
                             AfterVerdicts(t)!Scale * AfterVerdicts(t)!Abs(rows[n].value), total)])
        <3>1. ASSUME NEW rows, NEW total PROVE shareT(rows, total) = share(rows, total)
            <4>1. \A n \in Valued(rows) :
                     AfterVerdicts(t)!Quotient(
                         AfterVerdicts(t)!Scale * AfterVerdicts(t)!Abs(rows[n].value), total)
                     = Quotient(Scale * Abs(rows[n].value), total)
                BY SameArithmetic DEF Scale, AfterVerdicts!Scale
            <4>2. AfterVerdicts(t)!Valued(rows) = Valued(rows)
                BY DEF Valued, AfterVerdicts!Valued
            <4>3. [n \in AfterVerdicts(t)!Valued(rows) |->
                      AfterVerdicts(t)!Quotient(
                          AfterVerdicts(t)!Scale * AfterVerdicts(t)!Abs(rows[n].value), total)]
                  = [n \in Valued(rows) |-> Quotient(Scale * Abs(rows[n].value), total)]
                BY <4>1, <4>2
            <4> QED BY <4>3, SameSums
        <3>2. AfterVerdicts(t)!Weight(st, p) =
                SumFunction([i \in {j \in Indicator : AfterVerdicts(t)!NationalTotal(p, j) # 0} |->
                    shareT(AfterVerdicts(t)!RowsOf(st, p, i), AfterVerdicts(t)!NationalTotal(p, i))])
            BY SameNames, SameSums DEF AfterVerdicts!Weight
        <3> HIDE DEF shareT, share
        <3> QED BY <3>1, <3>2
    <2>3. [i \in {j \in Indicator : NationalTotal(p, j) # 0} |->
                        share(RowsOf(st, p, i), NationalTotal(p, i))]'
          = [i \in {j \in Indicator : AfterVerdicts(t)!NationalTotal(p, j) # 0} |->
                        share(AfterVerdicts(t)!RowsOf(st, p, i), AfterVerdicts(t)!NationalTotal(p, i))]
        BY SameRows, SameTotal DEF Indicator
    <2> QED BY <2>1, <2>2, <2>3
<1>2. ASSUME NEW st, NEW p
      PROVE  MaterialFindings(st, p)' = AfterVerdicts(t)!MaterialFindings(st, p)
    <2> DEFINE matters(f, total) ==
                 /\ f.state = st /\ f.blocks /\ Distortion(f) # None
                 /\ total >= 0 /\ 200 * Abs(Distortion(f)) >= Max({1, total})
    <2>1. MaterialFindings(st, p)'
            = {f \in Doubted(p)' : matters(f, NationalTotal(p, f.indicator)')}
        BY DEF MaterialFindings
    <2>2. AfterVerdicts(t)!MaterialFindings(st, p)
            = {f \in AfterVerdicts(t)!Doubted(p) :
                  matters(f, AfterVerdicts(t)!NationalTotal(p, f.indicator))}
        BY SameArithmetic DEF AfterVerdicts!MaterialFindings
    <2> HIDE DEF matters
    <2> QED BY <2>1, <2>2, SameDoubts, SameTotal
<1>3. ASSUME NEW st, NEW p PROVE  ExposedShare(st, p)' = AfterVerdicts(t)!ExposedShare(st, p)
    <2>1. \A f : Charge(p, f)' = AfterVerdicts(t)!Charge(p, f)
        BY SameTotal
           DEF Charge, AfterVerdicts!Charge, Distortion, AfterVerdicts!Distortion, Abs,
               AfterVerdicts!Abs, Scale, AfterVerdicts!Scale, ReportedOrZero,
               AfterVerdicts!ReportedOrZero, Quotient, AfterVerdicts!Quotient
    <2> DEFINE charged == {f \in Doubted(p) : f.state = st /\ NationalTotal(p, f.indicator) # 0}
               chargedT == {f \in AfterVerdicts(t)!Doubted(p) :
                              f.state = st /\ AfterVerdicts(t)!NationalTotal(p, f.indicator) # 0}
               bounded(sum, weight) ==
                   IF weight = 0 THEN 0 ELSE Min({100, Quotient(100 * sum, weight)})
    <2>2. [f \in charged |-> Charge(p, f)]' = [f \in chargedT |-> AfterVerdicts(t)!Charge(p, f)]
        BY <2>1, SameDoubts, SameTotal
    <2>3. SumFunction([f \in charged |-> Charge(p, f)])'
          = AfterVerdicts(t)!SumFunction([f \in chargedT |-> AfterVerdicts(t)!Charge(p, f)])
        BY <2>2, SameSums
    <2>4. PICK sum : sum = SumFunction([f \in charged |-> Charge(p, f)])'
        OBVIOUS
    <2>5. ExposedShare(st, p)' = bounded(sum, Weight(st, p)')
        BY <2>4 DEF ExposedShare
    <2>6. sum = AfterVerdicts(t)!SumFunction([f \in chargedT |-> AfterVerdicts(t)!Charge(p, f)])
        BY <2>3, <2>4
    <2>7. \A S : AfterVerdicts(t)!Min(S) = Min(S)
        BY DEF Min, AfterVerdicts!Min
    <2>8. AfterVerdicts(t)!ExposedShare(st, p) = bounded(sum, Weight(st, p)')
        BY <2>6, <2>7, <1>1 DEF AfterVerdicts!ExposedShare, Quotient, AfterVerdicts!Quotient
    <2> QED BY <2>5, <2>8
<1> QED BY <1>2, <1>3

(* ... and the verdict.                                                    *)
LEMMA SameVerdict ==
    ASSUME NEW t, AlikeTo(t), NEW st, NEW p
    PROVE  Verdict(st, p)' = AfterVerdicts(t)!Verdict(st, p)
<1>1. OpenFindings(st, p)' = AfterVerdicts(t)!OpenFindings(st, p)
    BY SameNames, SameRows
       DEF OpenFindings, AfterVerdicts!OpenFindings, RowsOf, Filed, AlikeTo
<1> QED BY <1>1, SameNames, SameShares, SameRows
        DEF Verdict, AfterVerdicts!Verdict, NotFitExposedShare, AfterVerdicts!NotFitExposedShare

(* A filing is counted as one.                                             *)
LEMMA FilingsAreCounted ==
    ASSUME TypeOK, NEW f, NEW auto, File(f, auto)
    PROVE  filings' # filings
<1>1. setup.maxFilings \in Nat
    BY AssessmentAssumption DEF TypeOK, IsSetup
<1> QED BY <1>1 DEF TypeOK, File

(* No decision and no restatement touches a verdict.                       *)
LEMMA ReviewKeepsVerdicts ==
    ASSUME TypeOK, NEW u \in DOMAIN latest,
           Approve(u) \/ Reject(u) \/ \E i \in Indicator, v \in setup.proposals : Restate(u, i, v)
    PROVE  \A w \in DOMAIN latest : latest'[w].verdict = latest[w].verdict
<1>1. IsReturn(latest[u])
    BY DEF TypeOK, IsTable
<1>2. ASSUME NEW s, latest' = [latest EXCEPT ![u].status = s]
      PROVE  \A w \in DOMAIN latest : latest'[w].verdict = latest[w].verdict
    BY <1>1, <1>2 DEF IsReturn
<1>3. ASSUME NEW i, NEW v, NEW label,
             latest' = [latest EXCEPT ![u].rows[i][1].value = v, ![u].label[i] = label]
      PROVE  \A w \in DOMAIN latest : latest'[w].verdict = latest[w].verdict
    BY <1>1, <1>3 DEF IsReturn
<1>4. CASE Approve(u)
    BY <1>2, <1>4 DEF Approve, Keep
<1>5. CASE Reject(u)
    BY <1>2, <1>5 DEF Reject, Keep
<1>6. ASSUME NEW i, NEW v, Restate(u, i, v)
      PROVE  \A w \in DOMAIN latest : latest'[w].verdict = latest[w].verdict
    <2>1. PICK label : latest' = [latest EXCEPT ![u].rows[i][1].value = v, ![u].label[i] = label]
        BY <1>6 DEF Restate, Keep
    <2> QED BY <1>3, <2>1
<1> QED BY <1>4, <1>5, <1>6

(* Re-validating a period settles its verdicts on the findings it leaves.  *)
LEMMA RevalidationSettles ==
    ASSUME TypeOK, NEW q, RevalidatePeriod(q)
    PROVE  \A w \in DOMAIN latest :
              /\ w[2] # q => latest'[w].verdict = latest[w].verdict
              /\ w[2] = q /\ w \in CurrentReturns => latest'[w].verdict = Verdict(w[1], q)'
<1> DEFINE current == {u \in DOMAIN latest : u[2] = q /\ Current(u[1], q)}
           t == After(latest)!Checked(current)
<1>1. latest' = AfterVerdicts(t)!WithVerdicts(q)
    BY DEF RevalidatePeriod, Keep
<1>2. DOMAIN t = DOMAIN latest /\ IsTable(t)
    BY CheckedTable DEF After!Checked, TypeOK
<1>3. \A w \in DOMAIN latest : /\ w \notin current => t[w] = latest[w]
                               /\ w \in current => t[w].status # "REJECTED"
    <2>1. \A w \in DOMAIN latest \ current : t[w] = latest[w]
        BY DEF After!Checked
    <2>2. \A w \in current : t[w].status # "REJECTED"
        BY DEF After!Checked, TypeOK, IsTable, IsReturn
    <2> HIDE DEF current, t
    <2> QED BY <2>1, <2>2
<1> HIDE DEF t
<1>4. \A w \in DOMAIN t : 
         /\ latest'[w] = IF w[2] = q /\ AfterVerdicts(t)!Current(w[1], q)
                         THEN [t[w] EXCEPT
                                 !.verdict = AfterVerdicts(t)!Verdict(w[1], q),
                                 !.material = AfterVerdicts(t)!Cardinality(
                                                 AfterVerdicts(t)!MaterialFindings(w[1], q))]
                         ELSE t[w]
    BY <1>1 DEF AfterVerdicts!WithVerdicts
<1>5. AlikeTo(t)
    <2>1. DOMAIN latest' = DOMAIN t
        BY <1>1 DEF AfterVerdicts!WithVerdicts
    <2> QED BY <1>2, <1>4, <2>1 DEF AlikeTo, IsTable, IsReturn
<1>6. ASSUME NEW w \in DOMAIN latest, w[2] # q
      PROVE  latest'[w].verdict = latest[w].verdict
    BY <1>2, <1>3, <1>4, <1>6
<1>7. ASSUME NEW w \in DOMAIN latest, w[2] = q, w \in CurrentReturns
      PROVE  latest'[w].verdict = Verdict(w[1], q)'
    <2>1. w = <<w[1], q>>
        BY <1>7 DEF TypeOK, IsTable
    <2>2. t[w].status # "REJECTED" /\ w \in DOMAIN t
        BY <1>2, <1>3, <1>7 DEF CurrentReturns
    <2>3. AfterVerdicts(t)!Current(w[1], q)
        BY <2>1, <2>2 DEF AfterVerdicts!Current, AfterVerdicts!Filed
    <2>4. latest'[w].verdict = AfterVerdicts(t)!Verdict(w[1], q)
        BY <1>2, <1>4, <1>7, <2>2, <2>3 DEF IsTable, IsReturn
    <2> QED BY <1>5, <2>4, SameVerdict
<1> QED BY <1>6, <1>7

(* No other step but a filing changes one.                                 *)
LEMMA VerdictStep ==
    TypeOK /\ [Next]_vars =>
       \A p \in Period :
          RevalidatePeriod(p) \/ (filings' = filings /\ VerdictMoves(p))
          => \A u \in CurrentReturns : u[2] = p =>
                latest'[u].verdict = Verdict(u[1], p)'
<1> SUFFICES ASSUME TypeOK, [Next]_vars, NEW p \in Period,
                    RevalidatePeriod(p) \/ (filings' = filings /\ VerdictMoves(p)),
                    NEW u \in CurrentReturns, u[2] = p
             PROVE  latest'[u].verdict = Verdict(u[1], p)'
    OBVIOUS
<1>1. ASSUME filings' = filings,
             NEW w \in DOMAIN latest, w[2] = p, latest'[w].verdict # latest[w].verdict
      PROVE  RevalidatePeriod(p)
    <2>1. latest' # latest
        BY <1>1
    <2>2. PICK q \in Period : RevalidatePeriod(q)
        BY <1>1, <2>1, FilingsAreCounted, ReviewKeepsVerdicts
           DEF Next, vars, store, UpsertTarget, UpdateState, Retune
    <2>3. q = p
        BY <1>1, <2>2, RevalidationSettles
    <2> QED BY <2>2, <2>3
<1>2. RevalidatePeriod(p)
    BY <1>1 DEF VerdictMoves
<1> QED BY <1>2, RevalidationSettles DEF CurrentReturns

(* Re-validating a period leaves every current return with the verdict the *)
(* findings and the labels then deserve, judged on the whole nation.       *)
THEOREM VerdictsFollowFindingsAlways == Spec => VerdictsFollowFindings
BY AssessmentTypeCorrect, VerdictStep, PTL DEF Spec, VerdictsFollowFindings

-----------------------------------------------------------------------------
(* Falls.                                                                  *)

(* Some of the first n numbers have a largest: the distances from n have   *)
(* a smallest.                                                             *)
LEMMA LargestOfSome ==
    ASSUME NEW n \in Nat, NEW S \in SUBSET (1..n), S # {}
    PROVE  Max(S) \in S
<1> DEFINE T == {n - x : x \in S}
<1>1. T \subseteq Nat /\ T # {}
    <2>1. \A x \in S : n - x \in Nat
        OBVIOUS
    <2> QED BY <2>1
<1>2. PICK m \in T : \A k \in T : ~(<<k, m>> \in OpToRel(<, Nat))
    <2> HIDE DEF T
    <2> QED BY <1>1, WFMin, NatLessThanWellFounded
<1>3. \A k \in T : ~(k < m)
    BY <1>1, <1>2 DEF OpToRel
<1>4. PICK x \in S : m = n - x
    OBVIOUS
<1>5. \A y \in S : x >= y
    <2>1. \A y \in S : y \in Int /\ n - y \in T
        OBVIOUS
    <2> HIDE DEF T
    <2> QED BY <1>3, <1>4, <2>1
<1> QED BY <1>5 DEF Max

(* What a row comes to is a number or nothing ...                          *)
LEMMA EffectiveIsNumber ==
    ASSUME NEW rows, IsColumn(rows), NEW n \in DOMAIN rows
    PROVE  Effective(rows[n]) \in Int \cup {None}
<1>1. rows[n] \in Range(rows)
    BY DEF Range
<1>2. /\ rows[n].value \in Int \cup {None} /\ rows[n].numerator \in Int \cup {None}
      /\ rows[n].denominator \in Nat \cup {None}
    BY <1>1 DEF IsColumn
<1> QED BY <1>2 DEF Effective

(* ... and so is what the state said last time.                            *)
LEMMA PreviousIsNumber ==
    ASSUME TypeOK, NEW st, NEW p, NEW i \in Indicator
    PROVE  PreviousFigure(st, p, i) \in Int \cup {None}
<1> DEFINE rows == RowsOf(st, Previous[p], i)
           said == {n \in DOMAIN rows : Effective(rows[n]) # None}
<1>1. CASE ~Filed(st, Previous[p])
    <2>1. said = {}
        BY <1>1 DEF RowsOf
    <2> QED BY <2>1 DEF PreviousFigure
<1>2. CASE Filed(st, Previous[p])
    <2>1. IsColumn(rows)
        BY <1>2 DEF RowsOf, Filed, TypeOK, IsTable, IsReturn
    <2>2. PICK k \in Nat : DOMAIN rows = 1..k
        BY <2>1 DEF IsColumn
    <2>3. said # {} => Max(said) \in DOMAIN rows
        BY <2>2, LargestOfSome
    <2> HIDE DEF rows
    <2>4. said # {} => Effective(rows[Max(said)]) \in Int \cup {None}
        BY <2>1, <2>3, EffectiveIsNumber
    <2>5. PreviousFigure(st, p, i) \in {None, Effective(rows[Max(said)])}
        BY DEF PreviousFigure, rows
    <2>6. said = {} => PreviousFigure(st, p, i) = None
        BY DEF PreviousFigure, rows
    <2> QED BY <2>4, <2>5, <2>6
<1> QED BY <1>1, <1>2

(* What the engine makes of a mark.                                        *)
Report(rule, severity, blocking, m) ==
    [rule |-> rule, indicator |-> m.indicator, expected |-> m.expected,
     severity |-> IF m.severity # None THEN m.severity ELSE severity,
     blocks |-> blocking /\ m.severity = None]

(* What is registered under the two rules on changes is what they mark.    *)
LEMMA RegisteredUnder ==
    ASSUME NEW ctx, NEW f
    PROVE  /\ f \in Registered(ctx) /\ f.rule = "CON-001" <=>
                 \E m \in PeriodOverPeriodChange(ctx) :
                    f = Report("CON-001", "WARNING", FALSE, m)
           /\ f \in Registered(ctx) /\ f.rule = "CON-002" <=>
                 \E m \in CumulativeMonotonic(ctx) : f = Report("CON-002", "ERROR", TRUE, m)
<1> DEFINE found(rule, severity, blocking, marks) ==
            {[rule |-> rule, indicator |-> m.indicator, expected |-> m.expected,
              severity |-> IF m.severity # None THEN m.severity ELSE severity,
              blocks |-> blocking /\ m.severity = None] : m \in marks}
           error(rule, marks) == found(rule, "ERROR", TRUE, marks)
           warning(rule, marks) == found(rule, "WARNING", FALSE, marks)
<1>1. \A rule, marks : f \in error(rule, marks) => f.rule = rule
    OBVIOUS
<1>2. \A rule, marks : f \in warning(rule, marks) => f.rule = rule
    OBVIOUS
<1>3. Registered(ctx) = UNION {
          error("INT-001", NumeratorWithinDenominator(ctx)),
          warning("INT-002", PercentageArithmetic(ctx)),
          error("INT-003", SubsetWithinParent(ctx)),
          warning("INT-004", RowsFullyMapped(ctx)),
          error("INT-005", CompositeEqualsParts(ctx)),
          error("INT-006", DeclaredIdentityHolds(ctx)),
          warning("INT-007", DistinctIndicatorsDiffer(ctx)),
          warning("COM-003", ZeroAfterActivity(ctx)),
          warning("APP-001", WithinApplicableScope(ctx)),
          warning("TIM-002", PeriodStillOpen(ctx)),
          warning("ACC-001", PlausibleVersusTarget(ctx)),
          warning("ACC-002", OutlierAgainstHistory(ctx)),
          error("ACC-003", DenominatorUsable(ctx)),
          warning("ACC-004", StateConcentration(ctx)),
          warning("COM-001", ExpectedIndicatorsPresent(ctx)),
          warning("COM-002", ComponentsSupplied(ctx)),
          warning("CON-001", PeriodOverPeriodChange(ctx)),
          error("CON-002", CumulativeMonotonic(ctx)),
          error("VAL-001", ValueIsNumeric(ctx)),
          error("VAL-002", ValueInRange(ctx)),
          warning("VAL-004", DisaggregationVocabulary(ctx)),
          error("UNQ-001", NoDuplicateRows(ctx)),
          warning("REC-001", TrackerAgreesWithFramework(ctx)),
          warning("REC-002", FrameworkCoversTheTracker(ctx)),
          warning("REC-003", TrackerCoversTheFramework(ctx))}
    BY DEF Registered
<1>4. f \in Registered(ctx) /\ f.rule = "CON-001" <=> f \in warning("CON-001", PeriodOverPeriodChange(ctx))
    <2> HIDE DEF error, warning
    <2> QED BY <1>1, <1>2, <1>3
<1>5. f \in Registered(ctx) /\ f.rule = "CON-002" <=> f \in error("CON-002", CumulativeMonotonic(ctx))
    <2> HIDE DEF error, warning
    <2> QED BY <1>1, <1>2, <1>3
<1> QED BY <1>4, <1>5 DEF Report

(* A fall beyond the band is marked by the one rule or the other.          *)
LEMMA FallMarks ==
    ASSUME NEW ctx, NEW i \in Indicator, NEW now \in Int, NEW was \in Int,
           DOMAIN ctx.rows[i] = {1}, Effective(ctx.rows[i][1]) = now, now # None,
           ctx.previous[i] = was, was \notin {None, 0}, now < was,
           100 * (was - now) > Magnitude(was) * rates.fall
    PROVE  LET mark == [Mark(i) EXCEPT !.expected = was]
           IN  /\ \A m : m \in PeriodOverPeriodChange(ctx) /\ m.indicator = i
                            <=> m = mark /\ ~Def(i).cumulative
               /\ \A m : m \in CumulativeMonotonic(ctx) /\ m.indicator = i
                            <=> m = mark /\ Def(i).cumulative
<1>1. \A r : r \in Numeric(ctx) /\ r[1] = i <=> r = <<i, 1>>
    <2>1. \A r : r \in Rows(ctx) /\ r[1] = i <=> r = <<i, 1>>
        BY DEF Rows
    <2> QED BY <2>1 DEF Numeric, At
<1>2. At(ctx, <<i, 1>>) = ctx.rows[i][1]
    BY DEF At
<1>3. Moved(now, was) = was - now
    BY DEF Moved
<1> DEFINE band(j, v) == IF v < ctx.previous[j] THEN rates.fall ELSE rates.rise
           owned(j, v) == ~(v < ctx.previous[j] /\ Def(j).cumulative)
           large(j, v) == /\ ctx.previous[j] \notin {None, 0} /\ owned(j, v)
                          /\ 100 * Moved(v, ctx.previous[j]) > Magnitude(ctx.previous[j]) * band(j, v)
           fallen(j, v) == Def(j).cumulative /\ ctx.previous[j] # None /\ v < ctx.previous[j]
           L == {r[1] : r \in {q \in Numeric(ctx) : large(q[1], Effective(At(ctx, q)))}}
           F == {r[1] : r \in {q \in Numeric(ctx) : fallen(q[1], Effective(At(ctx, q)))}}
<1>4. large(i, now) <=> ~Def(i).cumulative
    BY <1>3
<1>5. fallen(i, now) <=> Def(i).cumulative
    OBVIOUS
<1>6. i \in L <=> ~Def(i).cumulative
    <2> HIDE DEF large
    <2> QED BY <1>1, <1>2, <1>4
<1>7. i \in F <=> Def(i).cumulative
    <2> HIDE DEF fallen
    <2> QED BY <1>1, <1>2, <1>5
<1>8. /\ PeriodOverPeriodChange(ctx) = MarksAgainstPrevious(ctx, L)
      /\ CumulativeMonotonic(ctx) = MarksAgainstPrevious(ctx, F)
    BY DEF PeriodOverPeriodChange, CumulativeMonotonic, NumericWhere
<1>9. \A S, m : m \in MarksAgainstPrevious(ctx, S) /\ m.indicator = i
                  <=> m = [Mark(i) EXCEPT !.expected = was] /\ i \in S
    BY DEF MarksAgainstPrevious, Mark
<1> HIDE DEF L, F
<1> QED BY <1>6, <1>7, <1>8, <1>9

(* ... so one finding reports it.                                          *)
LEMMA FallReported == TypeOK => FallReportedOnce
<1> SUFFICES ASSUME TypeOK, NEW u \in CurrentReturns, NEW i \in Indicator,
                    NEW was, was = PreviousFigure(u[1], u[2], i),
                    NEW now, now = FigureOf(u[1], u[2], i),
                    Single(u, i), now # None, was \notin {None, 0}, now < was,
                    100 * (was - now) > Magnitude(was) * rates.fall
             PROVE  Cardinality({f \in Findings(u[1], u[2]) :
                       f.indicator = i /\ f.rule \in {"CON-001", "CON-002"}}) = 1
    BY DEF FallReportedOnce
<1>1. u = <<u[1], u[2]>> /\ u \in DOMAIN latest /\ IsReturn(latest[u])
    BY DEF TypeOK, IsTable, CurrentReturns
<1>2. PICK rows : rows = latest[u].rows[i]
    OBVIOUS
<1>3. IsColumn(rows) /\ Len(rows) = 1
    BY <1>1, <1>2 DEF IsReturn, Single
<1>4. DOMAIN rows = {1} /\ rows # <<>>
    <2>1. DOMAIN rows = 1..1
        BY <1>3 DEF IsColumn
    <2>2. DOMAIN rows = {1}
        BY <2>1
    <2>3. rows # <<>>
        <3>1. Len(<<>>) = 0
            OBVIOUS
        <3>2. Len(rows) # 0
            BY <1>3
        <3> QED BY <3>1, <3>2, Zenon
    <2> QED BY <2>2, <2>3
<1>5. RowsOf(u[1], u[2], i) = rows
    BY <1>1, <1>2 DEF RowsOf, Filed
<1>6. now = Effective(rows[1])
    BY <1>3, <1>4, <1>5 DEF FigureOf, LastRow
<1>7. now \in Int /\ was \in Int
    BY <1>3, <1>4, <1>6, EffectiveIsNumber, PreviousIsNumber
<1>8. PICK ctx : ctx = Context(u[1], u[2])
    OBVIOUS
<1>9. ctx.rows[i] = rows /\ ctx.previous[i] = was
    <2>1. ctx.rows = latest[<<u[1], u[2]>>].rows
        BY <1>8 DEF Context
    <2>2. ctx.previous = [j \in Indicator |-> PreviousFigure(u[1], u[2], j)]
        BY <1>8 DEF Context
    <2> QED BY <1>1, <1>2, <2>1, <2>2
<1> DEFINE mark == [Mark(i) EXCEPT !.expected = was]
           S == {f \in Findings(u[1], u[2]) : f.indicator = i /\ f.rule \in {"CON-001", "CON-002"}}
<1>10. /\ \A m : m \in PeriodOverPeriodChange(ctx) /\ m.indicator = i <=> m = mark /\ ~Def(i).cumulative
       /\ \A m : m \in CumulativeMonotonic(ctx) /\ m.indicator = i <=> m = mark /\ Def(i).cumulative
    BY <1>4, <1>6, <1>7, <1>9, FallMarks
<1>11. mark.indicator = i /\ mark.severity = None
    BY DEF Mark
<1>12. Findings(u[1], u[2]) = Registered(ctx)
    BY <1>8 DEF Findings
<1>13. CASE Def(i).cumulative
    <2> DEFINE report == Report("CON-002", "ERROR", TRUE, mark)
    <2>1. report.indicator = i /\ report.rule = "CON-002"
        BY <1>11 DEF Report
    <2>2. ASSUME NEW f PROVE f \in S <=> f = report
        <3>1. ~(f \in Registered(ctx) /\ f.rule = "CON-001" /\ f.indicator = i)
            BY <1>10, <1>13, RegisteredUnder DEF Report
        <3>2. f \in Registered(ctx) /\ f.rule = "CON-002" /\ f.indicator = i <=> f = report
            <4>1. ASSUME f \in Registered(ctx), f.rule = "CON-002", f.indicator = i
                  PROVE  f = report
                <5>1. PICK m \in CumulativeMonotonic(ctx) : f = Report("CON-002", "ERROR", TRUE, m)
                    BY <4>1, RegisteredUnder
                <5>2. m.indicator = i
                    BY <4>1, <5>1 DEF Report
                <5>3. m = mark
                    BY <1>10, <5>2
                <5> QED BY <5>1, <5>3
            <4>2. mark \in CumulativeMonotonic(ctx)
                BY <1>10, <1>11, <1>13
            <4>3. report \in Registered(ctx)
                <5> HIDE DEF mark
                <5> QED BY <4>2, RegisteredUnder
            <4> HIDE DEF report
            <4> QED BY <2>1, <4>1, <4>3
        <3> HIDE DEF report
        <3> QED BY <1>12, <3>1, <3>2
    <2>3. S = {report}
        <3> HIDE DEF S, report
        <3> QED BY <2>2
    <2> QED BY <2>3, FS_Singleton
<1>14. CASE ~Def(i).cumulative
    <2> DEFINE report == Report("CON-001", "WARNING", FALSE, mark)
    <2>1. report.indicator = i /\ report.rule = "CON-001"
        BY <1>11 DEF Report
    <2>2. ASSUME NEW f PROVE f \in S <=> f = report
        <3>1. ~(f \in Registered(ctx) /\ f.rule = "CON-002" /\ f.indicator = i)
            BY <1>10, <1>14, RegisteredUnder DEF Report
        <3>2. f \in Registered(ctx) /\ f.rule = "CON-001" /\ f.indicator = i <=> f = report
            <4>1. ASSUME f \in Registered(ctx), f.rule = "CON-001", f.indicator = i
                  PROVE  f = report
                <5>1. PICK m \in PeriodOverPeriodChange(ctx) : f = Report("CON-001", "WARNING", FALSE, m)
                    BY <4>1, RegisteredUnder
                <5>2. m.indicator = i
                    BY <4>1, <5>1 DEF Report
                <5>3. m = mark
                    BY <1>10, <5>2
                <5> QED BY <5>1, <5>3
            <4>2. mark \in PeriodOverPeriodChange(ctx)
                BY <1>10, <1>11, <1>14
            <4>3. report \in Registered(ctx)
                <5> HIDE DEF mark
                <5> QED BY <4>2, RegisteredUnder
            <4> HIDE DEF report
            <4> QED BY <2>1, <4>1, <4>3
        <3> HIDE DEF report
        <3> QED BY <1>12, <3>1, <3>2
    <2>3. S = {report}
        <3> HIDE DEF S, report
        <3> QED BY <2>2
    <2> QED BY <2>3, FS_Singleton
<1> QED BY <1>13, <1>14

(* A fall of a figure beyond the band is reported by one rule: that of     *)
(* running totals or that of movements, never both and never neither.      *)
THEOREM FallReportedOnceAlways == Spec => []FallReportedOnce
BY AssessmentTypeCorrect, FallReported, PTL

-----------------------------------------------------------------------------
(* Sums over finite sets, in any order.                                    *)

(* What holds of a set because it holds of the smaller ones holds of all.  *)
LEMMA SmallerFirst ==
    ASSUME NEW S, IsFiniteSet(S), NEW Good,
           \A T \in SUBSET S : (\A U \in SUBSET T : U # T => U \in Good) => T \in Good
    PROVE  \A T \in SUBSET S : T \in Good
<1> SUFFICES ASSUME NEW V \in SUBSET S, V \notin Good PROVE FALSE
    OBVIOUS
<1> DEFINE Bad == {T \in SUBSET S : T \notin Good}
<1>1. Bad # {} /\ Bad \subseteq FiniteSubsetsOf(S)
    BY FS_FiniteSubsetsOfFinite
<1>2. PICK T \in Bad : \A U \in Bad : <<U, T>> \notin StrictSubsetOrdering(S)
    <2> HIDE DEF Bad
    <2>1. IsWellFoundedOn(StrictSubsetOrdering(S), FiniteSubsetsOf(S))
        BY FS_StrictSubsetOrderingWellFounded
    <2> QED BY <1>1, <2>1, WFMin
<1>3. T \in SUBSET S /\ T \notin Good
    OBVIOUS
<1>4. ASSUME NEW U \in SUBSET T, U # T PROVE U \in Good
    <2>1. U \in SUBSET S
        BY <1>3
    <2>2. <<U, T>> \in StrictSubsetOrdering(S)
        BY <1>3, <1>4, <2>1 DEF StrictSubsetOrdering
    <2> QED BY <1>2, <2>1, <2>2
<1> QED BY <1>3, <1>4

(* ... or because it holds of one with an element less.                    *)
LEMMA OneByOne ==
    ASSUME NEW S, IsFiniteSet(S), NEW Good, {} \in Good,
           \A T \in SUBSET S : \A x \in T : T \ {x} \in Good => T \in Good
    PROVE  \A T \in SUBSET S : T \in Good
<1>1. ASSUME NEW T \in SUBSET S, \A U \in SUBSET T : U # T => U \in Good
      PROVE  T \in Good
    <2>1. CASE T = {}
        BY <2>1
    <2>2. CASE T # {}
        <3>1. PICK x \in T : TRUE
            BY <2>2
        <3>2. T \ {x} \in SUBSET T /\ T \ {x} # T
            BY <3>1
        <3> QED BY <1>1, <3>1, <3>2
    <2> QED BY <2>1, <2>2
<1> QED BY <1>1, SmallerFirst

OneOf(T) == CHOOSE x \in T : TRUE

(* g has the sums of f over the subsets of S.                              *)
HasSums(f, S, g) ==
    g = [T \in SUBSET S |-> IF T = {} THEN 0 ELSE f[OneOf(T)] + g[T \ {OneOf(T)}]]
SumsOf(f, S) == CHOOSE g : HasSums(f, S, g)

(* The library's sum is the one of the whole.                              *)
LEMMA SumIs == \A f, S : SumFunctionOnSet(f, S) = SumsOf(f, S)[S]
BY DEF SumFunctionOnSet, FoldFunctionOnSet, MapThenFoldSet, SumsOf, HasSums, OneOf

(* The one that is chosen is one.                                          *)
LEMMA OneOfIs == \A T : T # {} => OneOf(T) \in T
BY DEF OneOf

(* What one recursion steps to.                                            *)
LEMMA HasSumsAt ==
    ASSUME NEW f, NEW S, NEW g, HasSums(f, S, g), NEW T \in SUBSET S
    PROVE  g[T] = IF T = {} THEN 0 ELSE f[OneOf(T)] + g[T \ {OneOf(T)}]
BY DEF HasSums

(* There is one sum of a finite set.                                       *)
LEMMA SumsAgree ==
    ASSUME NEW f, NEW S, NEW R, NEW g, NEW h, IsFiniteSet(S),
           HasSums(f, S, g), HasSums(f, R, h), NEW T \in SUBSET S, T \in SUBSET R
    PROVE  g[T] = h[T]
<1> DEFINE Good == {U \in SUBSET S : U \in SUBSET R => g[U] = h[U]}
<1>1. {} \in Good
    BY HasSumsAt
<1>2. ASSUME NEW U \in SUBSET S, \A V \in SUBSET U : V # U => V \in Good
      PROVE  U \in Good
    <2> SUFFICES ASSUME U \in SUBSET R, U # {} PROVE g[U] = h[U]
        BY <1>1
    <2> DEFINE x == OneOf(U)
    <2>1. x \in U
        BY OneOfIs
    <2> HIDE DEF x
    <2>2. U \ {x} \in SUBSET U /\ U \ {x} # U
        BY <2>1
    <2>3. g[U \ {x}] = h[U \ {x}]
        BY <1>2, <2>2
    <2>4. g[U] = f[x] + g[U \ {x}]
        BY HasSumsAt DEF x
    <2>5. h[U] = f[x] + h[U \ {x}]
        BY HasSumsAt DEF x
    <2> QED BY <2>3, <2>4, <2>5
<1> HIDE DEF Good
<1>3. \A U \in SUBSET S : U \in Good
    BY <1>2, SmallerFirst
<1> QED BY <1>3 DEF Good

(* ... and there is one.                                                   *)
LEMMA SumsExist ==
    ASSUME NEW f, NEW S, IsFiniteSet(S)
    PROVE  HasSums(f, S, SumsOf(f, S))
<1> DEFINE Good == {T \in SUBSET S : \E g : HasSums(f, T, g)}
<1>1. ASSUME NEW T \in SUBSET S, \A U \in SUBSET T : U # T => U \in Good
      PROVE  T \in Good
    <2> DEFINE less(U) == U \ {OneOf(U)}
               sum(U) == SumsOf(f, U)[U]
               g == [U \in SUBSET T |-> IF U = {} THEN 0 ELSE f[OneOf(U)] + sum(less(U))]
    <2>1. ASSUME NEW U \in SUBSET T, U # {}
          PROVE  less(U) \in SUBSET U /\ less(U) # U /\ less(U) # T /\ less(U) \in SUBSET T
        <3>1. OneOf(U) \in U
            BY <2>1, OneOfIs
        <3> QED BY <3>1
    <2>2. ASSUME NEW U \in SUBSET T, U # T PROVE HasSums(f, U, SumsOf(f, U)) /\ IsFiniteSet(U)
        <3>1. U \in Good
            BY <1>1, <2>2
        <3>2. PICK h : HasSums(f, U, h)
            BY <3>1
        <3>3. HasSums(f, U, SumsOf(f, U))
            BY <3>2 DEF SumsOf
        <3> QED BY <3>3, FS_Subset
    <2>3. ASSUME NEW U \in SUBSET T, U # {} PROVE g[less(U)] = sum(less(U))
        <3> DEFINE V == less(U)
                   W == less(V)
        <3>1. V \in SUBSET T /\ V # T
            BY <2>1, <2>3
        <3>2. g[V] = IF V = {} THEN 0 ELSE f[OneOf(V)] + sum(W)
            BY <3>1
        <3>3. HasSums(f, V, SumsOf(f, V)) /\ IsFiniteSet(V)
            BY <2>2, <3>1
        <3> HIDE DEF V, g, less, sum
        <3>4. SumsOf(f, V)[V] = IF V = {} THEN 0 ELSE f[OneOf(V)] + SumsOf(f, V)[W]
            BY <3>3, HasSumsAt DEF W, less
        <3>5. CASE V = {}
            BY <3>2, <3>4, <3>5 DEF sum, V
        <3>6. CASE V # {}
            <4>1. W \in SUBSET V /\ W # T /\ W \in SUBSET T
                BY <2>1, <3>1, <3>6 DEF W
            <4>2. HasSums(f, W, SumsOf(f, W))
                BY <2>2, <4>1
            <4>3. SumsOf(f, V)[W] = SumsOf(f, W)[W]
                BY <3>3, <4>1, <4>2, SumsAgree
            <4> QED BY <3>2, <3>4, <3>6, <4>3 DEF sum, V
        <3> QED BY <3>5, <3>6
    <2>4. g = [U \in SUBSET T |-> IF U = {} THEN 0 ELSE f[OneOf(U)] + g[less(U)]]
        <3> DEFINE k == [U \in SUBSET T |-> IF U = {} THEN 0 ELSE f[OneOf(U)] + g[less(U)]]
        <3>1. \A U \in SUBSET T : g[U] = IF U = {} THEN 0 ELSE f[OneOf(U)] + sum(less(U))
            OBVIOUS
        <3>2. DOMAIN g = SUBSET T /\ g = [U \in DOMAIN g |-> g[U]]
            OBVIOUS
        <3> HIDE DEF g, less, sum
        <3>3. \A U \in SUBSET T : g[U] = k[U]
            BY <2>3, <3>1
        <3> QED BY <3>2, <3>3
    <2>5. HasSums(f, T, g)
        <3> HIDE DEF g
        <3> QED BY <2>4 DEF HasSums
    <2> QED BY <2>5
<1> HIDE DEF Good
<1>2. \A T \in SUBSET S : T \in Good
    BY <1>1, SmallerFirst
<1>3. S \in Good
    BY <1>2
<1>4. PICK g : HasSums(f, S, g)
    BY <1>3 DEF Good
<1> QED BY <1>4 DEF SumsOf

(* A sum is what one element adds to the sum of the others.                *)
LEMMA SumUnfolds ==
    ASSUME NEW f, NEW S, IsFiniteSet(S)
    PROVE  SumFunctionOnSet(f, S) =
              IF S = {} THEN 0 ELSE f[OneOf(S)] + SumFunctionOnSet(f, S \ {OneOf(S)})
<1> DEFINE T == S \ {OneOf(S)}
<1>1. HasSums(f, S, SumsOf(f, S)) /\ HasSums(f, T, SumsOf(f, T))
    BY SumsExist, FS_Subset
<1> HIDE DEF T
<1>0. S \in SUBSET S
    OBVIOUS
<1>2. SumsOf(f, S)[S] = IF S = {} THEN 0 ELSE f[OneOf(S)] + SumsOf(f, S)[T]
    <2> DEFINE g == SumsOf(f, S)
    <2>1. HasSums(f, S, g)
        BY <1>1
    <2> HIDE DEF g
    <2>2. g[S] = IF S = {} THEN 0 ELSE f[OneOf(S)] + g[S \ {OneOf(S)}]
        BY <1>0, <2>1 DEF HasSums
    <2> QED BY <2>2 DEF g, T
<1>3. SumsOf(f, S)[T] = SumsOf(f, T)[T]
    <2>1. T \in SUBSET S
        BY DEF T
    <2> QED BY <1>1, <2>1, SumsAgree
<1> QED BY <1>2, <1>3, SumIs DEF T

(* Sums of whole numbers are whole numbers.                                *)
LEMMA SumType ==
    ASSUME NEW f, NEW S, IsFiniteSet(S), \A x \in S : f[x] \in Int
    PROVE  SumFunctionOnSet(f, S) \in Int
<1> DEFINE Good == {T \in SUBSET S : SumFunctionOnSet(f, T) \in Int}
<1>1. ASSUME NEW T \in SUBSET S, \A U \in SUBSET T : U # T => U \in Good
      PROVE  T \in Good
    <2>1. SumFunctionOnSet(f, T) =
              IF T = {} THEN 0 ELSE f[OneOf(T)] + SumFunctionOnSet(f, T \ {OneOf(T)})
        BY SumUnfolds, FS_Subset
    <2>2. T # {} => OneOf(T) \in T
        BY OneOfIs
    <2>3. T # {} => SumFunctionOnSet(f, T \ {OneOf(T)}) \in Int
        BY <1>1, <2>2
    <2>4. SumFunctionOnSet(f, T) \in Int
        BY <2>1, <2>2, <2>3
    <2> QED BY <2>4
<1> HIDE DEF Good
<1>2. \A T \in SUBSET S : T \in Good
    BY <1>1, SmallerFirst
<1> QED BY <1>2 DEF Good

(* Any element will do: numbers add up in any order.                       *)
LEMMA SumTakesOut ==
    ASSUME NEW f, NEW S, IsFiniteSet(S), \A x \in S : f[x] \in Int, NEW x \in S
    PROVE  SumFunctionOnSet(f, S) = f[x] + SumFunctionOnSet(f, S \ {x})
<1> DEFINE Good == {T \in SUBSET S : \A y \in T :
                      SumFunctionOnSet(f, T) = f[y] + SumFunctionOnSet(f, T \ {y})}
<1>1. ASSUME NEW T \in SUBSET S, \A U \in SUBSET T : U # T => U \in Good
      PROVE  T \in Good
    <2> SUFFICES ASSUME NEW y \in T
                 PROVE  SumFunctionOnSet(f, T) = f[y] + SumFunctionOnSet(f, T \ {y})
        OBVIOUS
    <2> DEFINE o == OneOf(T)
    <2>1. o \in T
        BY OneOfIs
    <2>2. SumFunctionOnSet(f, T) = f[o] + SumFunctionOnSet(f, T \ {o})
        BY SumUnfolds, FS_Subset
    <2> HIDE DEF o
    <2>3. CASE y = o
        BY <2>2, <2>3
    <2>4. CASE y # o
        <3>1. T \ {o} \in SUBSET T /\ T \ {o} # T /\ y \in T \ {o}
            BY <2>1, <2>4
        <3>2. T \ {y} \in SUBSET T /\ T \ {y} # T /\ o \in T \ {y}
            BY <2>1, <2>4
        <3>3. SumFunctionOnSet(f, T \ {o}) = f[y] + SumFunctionOnSet(f, (T \ {o}) \ {y})
            BY <1>1, <3>1
        <3>4. SumFunctionOnSet(f, T \ {y}) = f[o] + SumFunctionOnSet(f, (T \ {y}) \ {o})
            BY <1>1, <3>2
        <3>5. (T \ {y}) \ {o} = (T \ {o}) \ {y}
            OBVIOUS
        <3>6. SumFunctionOnSet(f, (T \ {o}) \ {y}) \in Int
            <4>1. IsFiniteSet((T \ {o}) \ {y})
                BY FS_Subset
            <4> QED BY <4>1, SumType
        <3>7. f[y] \in Int /\ f[o] \in Int
            BY <2>1
        <3>8. SumFunctionOnSet(f, T \ {y}) = f[o] + SumFunctionOnSet(f, (T \ {o}) \ {y})
            BY <3>4, <3>5
        <3> DEFINE rest == SumFunctionOnSet(f, (T \ {o}) \ {y})
                   withoutO == SumFunctionOnSet(f, T \ {o})
                   withoutY == SumFunctionOnSet(f, T \ {y})
                   all == SumFunctionOnSet(f, T)
        <3>9. all = f[o] + withoutO /\ withoutO = f[y] + rest /\ withoutY = f[o] + rest /\ rest \in Int
            BY <2>2, <3>3, <3>6, <3>8
        <3> HIDE DEF rest, withoutO, withoutY, all
        <3>10. all = f[y] + withoutY
            BY <3>7, <3>9
        <3> QED BY <3>10 DEF all, withoutY
    <2> QED BY <2>3, <2>4
<1> HIDE DEF Good
<1>2. \A T \in SUBSET S : T \in Good
    BY <1>1, SmallerFirst
<1> QED BY <1>2 DEF Good

(* Where g takes no more of f than was there, what is left is not below    *)
(* nothing.                                                                *)
LEMMA SumsOffset ==
    ASSUME NEW f, NEW S, IsFiniteSet(S), NEW g, NEW T \in SUBSET S,
           \A x \in S : f[x] \in Nat, \A x \in T : g[x] \in Int /\ f[x] + g[x] >= 0
    PROVE  SumFunctionOnSet(f, S) + SumFunctionOnSet(g, T) >= 0
<1> DEFINE Good == {U \in SUBSET S : SumFunctionOnSet(f, U) + SumFunctionOnSet(g, U \cap T) >= 0}
<1>1. {} \in Good
    <2>1. SumFunctionOnSet(f, {}) = 0 /\ SumFunctionOnSet(g, {}) = 0
        BY SumUnfolds, FS_EmptySet
    <2>2. {} \cap T = {}
        OBVIOUS
    <2> QED BY <2>1, <2>2
<1>2. ASSUME NEW U \in SUBSET S, NEW x \in U, U \ {x} \in Good
      PROVE  U \in Good
    <2>1. IsFiniteSet(U) /\ IsFiniteSet(U \cap T) /\ IsFiniteSet(U \ {x}) /\ IsFiniteSet((U \ {x}) \cap T)
        BY FS_Subset
    <2> DEFINE all == SumFunctionOnSet(f, U)
               fewer == SumFunctionOnSet(f, U \ {x})
               off == SumFunctionOnSet(g, U \cap T)
               fewerOff == SumFunctionOnSet(g, (U \ {x}) \cap T)
    <2>2. all = f[x] + fewer /\ fewer \in Int
        <3>1. \A y \in U : f[y] \in Int
            OBVIOUS
        <3> QED BY <2>1, <3>1, SumTakesOut, SumType
    <2>3. fewerOff \in Int
        BY <2>1, SumType
    <2>4. off = IF x \in T THEN g[x] + fewerOff ELSE fewerOff
        <3>1. CASE x \in T
            <4>1. x \in U \cap T /\ (U \cap T) \ {x} = (U \ {x}) \cap T
                BY <3>1
            <4>2. off = g[x] + SumFunctionOnSet(g, (U \cap T) \ {x})
                BY <2>1, <4>1, SumTakesOut
            <4> QED BY <3>1, <4>1, <4>2
        <3>2. CASE x \notin T
            <4>1. U \cap T = (U \ {x}) \cap T
                BY <3>2
            <4> QED BY <3>2, <4>1
        <3> QED BY <3>1, <3>2
    <2>5. fewer + fewerOff >= 0
        BY <1>2
    <2> HIDE DEF all, fewer, off, fewerOff
    <2>6. all + off >= 0
        BY <2>2, <2>3, <2>4, <2>5
    <2> QED BY <2>6 DEF all, off
<1> HIDE DEF Good
<1>3. S \in Good
    <2>1. S \in SUBSET S
        OBVIOUS
    <2>2. \A U \in SUBSET S : U \in Good
        BY <1>1, <1>2, OneByOne
    <2> QED BY <2>1, <2>2
<1>4. S \cap T = T
    OBVIOUS
<1> QED BY <1>3, <1>4 DEF Good

(* A sum of what is not negative is at least each of its parts.            *)
LEMMA SumAtLeast ==
    ASSUME NEW f, NEW S, IsFiniteSet(S), \A x \in S : f[x] \in Nat
    PROVE  SumFunctionOnSet(f, S) \in Nat /\ \A x \in S : SumFunctionOnSet(f, S) >= f[x]
<1>1. ASSUME NEW T \in SUBSET S
      PROVE  SumFunctionOnSet(f, T) \in Nat
    <2>1. SumFunctionOnSet(f, T) \in Int
        BY SumType, FS_Subset
    <2>2. SumFunctionOnSet(f, {}) = 0
        BY SumUnfolds, FS_EmptySet
    <2>3. SumFunctionOnSet(f, T) + SumFunctionOnSet(f, {}) >= 0
        <3>1. IsFiniteSet(T) /\ {} \in SUBSET T /\ \A x \in T : f[x] \in Nat
            BY FS_Subset
        <3> QED BY <3>1, SumsOffset
    <2> QED BY <2>1, <2>2, <2>3
<1>2. ASSUME NEW x \in S
      PROVE  SumFunctionOnSet(f, S) >= f[x]
    <2>1. SumFunctionOnSet(f, S) = f[x] + SumFunctionOnSet(f, S \ {x})
        BY SumTakesOut
    <2>2. SumFunctionOnSet(f, S \ {x}) \in Nat
        BY <1>1
    <2> QED BY <2>1, <2>2
<1>3. S \in SUBSET S
    OBVIOUS
<1> QED BY <1>1, <1>2, <1>3

(* Of some numbers one is largest in magnitude.                            *)
LEMMA LargestExists ==
    ASSUME NEW f, NEW S, IsFiniteSet(S), S # {}, \A x \in S : f[x] \in Int
    PROVE  \E x \in S : \A y \in S : f[x] >= f[y]
<1> DEFINE Good == {T \in SUBSET S : T = {} \/ \E x \in T : \A y \in T : f[x] >= f[y]}
<1>1. {} \in Good
    OBVIOUS
<1>2. ASSUME NEW T \in SUBSET S, NEW x \in T, T \ {x} \in Good
      PROVE  T \in Good
    <2>1. CASE T \ {x} = {}
        <3>1. \A y \in T : f[x] >= f[y]
            BY <2>1
        <3> QED BY <3>1
    <2>2. CASE T \ {x} # {}
        <3>1. PICK z \in T \ {x} : \A y \in T \ {x} : f[z] >= f[y]
            BY <1>2, <2>2
        <3>2. CASE f[z] >= f[x]
            <4>1. \A y \in T : f[z] >= f[y]
                BY <3>1, <3>2
            <4> QED BY <4>1
        <3>3. CASE f[x] > f[z]
            <4>1. \A y \in T : f[x] >= f[y]
                BY <3>1, <3>3
            <4> QED BY <4>1
        <3> QED BY <3>2, <3>3
    <2> QED BY <2>1, <2>2
<1> HIDE DEF Good
<1>3. S \in Good
    <2>1. S \in SUBSET S
        OBVIOUS
    <2>2. \A T \in SUBSET S : T \in Good
        BY <1>1, <1>2, OneByOne
    <2> QED BY <2>1, <2>2
<1> QED BY <1>3 DEF Good

(* What is the same everywhere has the same sum.                           *)
LEMMA SumAlike ==
    ASSUME NEW f, NEW g, NEW S, IsFiniteSet(S), \A x \in S : f[x] \in Int /\ g[x] = f[x]
    PROVE  SumFunctionOnSet(g, S) = SumFunctionOnSet(f, S)
<1> DEFINE Good == {T \in SUBSET S : SumFunctionOnSet(g, T) = SumFunctionOnSet(f, T)}
<1>1. {} \in Good
    BY SumUnfolds, FS_EmptySet
<1>2. ASSUME NEW T \in SUBSET S, NEW x \in T, T \ {x} \in Good
      PROVE  T \in Good
    <2>1. IsFiniteSet(T)
        BY FS_Subset
    <2>2. SumFunctionOnSet(f, T) = f[x] + SumFunctionOnSet(f, T \ {x})
        BY <2>1, SumTakesOut
    <2>3. SumFunctionOnSet(g, T) = g[x] + SumFunctionOnSet(g, T \ {x})
        <3>1. \A y \in T : g[y] \in Int
            OBVIOUS
        <3> QED BY <2>1, <3>1, SumTakesOut
    <2>4. SumFunctionOnSet(g, T \ {x}) = SumFunctionOnSet(f, T \ {x})
        BY <1>2
    <2>5. SumFunctionOnSet(g, T) = SumFunctionOnSet(f, T)
        BY <2>2, <2>3, <2>4
    <2> QED BY <2>5
<1> HIDE DEF Good
<1>3. S \in Good
    BY <1>1, <1>2, OneByOne
<1> QED BY <1>3 DEF Good

(* A sum is that of the sums over the groups its members fall in.          *)
LEMMA SumOfGroups ==
    ASSUME NEW f, NEW D, IsFiniteSet(D), \A x \in D : f[x] \in Int,
           NEW G, IsFiniteSet(G), NEW group, \A x \in D : group[x] \in G
    PROVE  SumFunctionOnSet(f, D)
             = SumFunctionOnSet([k \in G |-> SumFunctionOnSet(f, {x \in D : group[x] = k})], G)
<1> DEFINE In(T, k) == {x \in T : group[x] = k}
           sums(T) == [k \in G |-> SumFunctionOnSet(f, In(T, k))]
           Good == {T \in SUBSET D : SumFunctionOnSet(f, T) = SumFunctionOnSet(sums(T), G)}
<1>1. ASSUME NEW T \in SUBSET D
      PROVE  /\ IsFiniteSet(T) /\ \A k \in G : sums(T)[k] \in Int
             /\ \A k \in G : IsFiniteSet(In(T, k))
             /\ \A k \in G : sums(T)[k] = SumFunctionOnSet(f, In(T, k))
    <2>1. IsFiniteSet(T) /\ \A k \in G : IsFiniteSet(In(T, k))
        BY FS_Subset
    <2>2. \A k \in G : SumFunctionOnSet(f, In(T, k)) \in Int
        BY <2>1, SumType
    <2> QED BY <2>1, <2>2
<1>2. {} \in Good
    <2>1. \A k \in G : In({}, k) = {}
        OBVIOUS
    <2>2. \A k \in G : sums({})[k] = 0
        BY <2>1, SumUnfolds, FS_EmptySet
    <2> DEFINE none == [k \in G |-> 0]
    <2>3. ASSUME NEW T \in SUBSET G, NEW k \in T, SumFunctionOnSet(none, T \ {k}) = 0
          PROVE  SumFunctionOnSet(none, T) = 0
        <3>1. IsFiniteSet(T) /\ \A j \in T : none[j] = 0
            BY FS_Subset
        <3> HIDE DEF none
        <3> QED BY <2>3, <3>1, SumTakesOut
    <2>4. \A k \in G : none[k] = 0
        OBVIOUS
    <2> DEFINE Nought == {T \in SUBSET G : SumFunctionOnSet(none, T) = 0}
    <2>5. {} \in Nought
        BY SumUnfolds, FS_EmptySet
    <2>6. \A T \in SUBSET G : \A k \in T : T \ {k} \in Nought => T \in Nought
        BY <2>3
    <2>7. G \in Nought
        <3> HIDE DEF Nought
        <3> QED BY <2>5, <2>6, OneByOne
    <2>8. SumFunctionOnSet(sums({}), G) = SumFunctionOnSet(none, G)
        <3>1. \A k \in G : none[k] \in Int /\ sums({})[k] = none[k]
            BY <2>2, <2>4
        <3> HIDE DEF none, sums
        <3> QED BY <3>1, SumAlike
    <2>9. SumFunctionOnSet(f, {}) = 0
        BY SumUnfolds, FS_EmptySet
    <2> QED BY <2>7, <2>8, <2>9
<1>3. ASSUME NEW T \in SUBSET D, NEW x \in T, T \ {x} \in Good
      PROVE  T \in Good
    <2> DEFINE U == T \ {x}
               k == group[x]
    <2>1. U \in SUBSET D /\ k \in G
        OBVIOUS
    <2>2. In(T, k) \ {x} = In(U, k) /\ x \in In(T, k) /\ In(T, k) \subseteq D
        OBVIOUS
    <2>3. \A j \in G \ {k} : In(T, j) = In(U, j)
        OBVIOUS
    <2>4. SumFunctionOnSet(f, T) = f[x] + SumFunctionOnSet(f, U)
        BY <1>1, SumTakesOut
    <2>5. SumFunctionOnSet(f, U) = SumFunctionOnSet(sums(U), G)
        BY <1>3
    <2>6. sums(T)[k] = f[x] + sums(U)[k]
        <3>1. SumFunctionOnSet(f, In(T, k)) = f[x] + SumFunctionOnSet(f, In(T, k) \ {x})
            <4>1. IsFiniteSet(In(T, k)) /\ \A y \in In(T, k) : f[y] \in Int
                BY <1>1, <2>1, <2>2
            <4> HIDE DEF In
            <4> QED BY <2>2, <4>1, SumTakesOut
        <3> HIDE DEF In, U, k
        <3> QED BY <2>1, <2>2, <3>1
    <2> HIDE DEF In, U
    <2>7. \A j \in G \ {k} : sums(T)[j] = sums(U)[j]
        BY <2>3
    <2>8. /\ \A j \in G : sums(T)[j] \in Int
          /\ \A j \in G : sums(U)[j] \in Int
        BY <1>1, <2>1
    <2> HIDE DEF sums, k
    <2>9. SumFunctionOnSet(sums(T), G) = sums(T)[k] + SumFunctionOnSet(sums(T), G \ {k})
        BY <2>1, <2>8, SumTakesOut
    <2>10. SumFunctionOnSet(sums(U), G) = sums(U)[k] + SumFunctionOnSet(sums(U), G \ {k})
        BY <2>1, <2>8, SumTakesOut
    <2>11. SumFunctionOnSet(sums(T), G \ {k}) = SumFunctionOnSet(sums(U), G \ {k})
        <3>1. IsFiniteSet(G \ {k})
            BY FS_Subset
        <3> QED BY <2>7, <2>8, <3>1, SumAlike
    <2>12. /\ SumFunctionOnSet(sums(U), G \ {k}) \in Int /\ sums(U)[k] \in Int
           /\ f[x] \in Int
        <3>1. IsFiniteSet(G \ {k}) /\ \A j \in G \ {k} : sums(U)[j] \in Int
            BY <2>8, FS_Subset
        <3> QED BY <2>1, <2>8, <3>1, SumType
    <2>13. SumFunctionOnSet(f, T) = SumFunctionOnSet(sums(T), G)
        BY <2>4, <2>5, <2>6, <2>9, <2>10, <2>11, <2>12
    <2> QED BY <2>13
<1> HIDE DEF Good
<1>4. D \in Good
    BY <1>2, <1>3, OneByOne
<1> QED BY <1>4 DEF Good

(* A sum lies between as many times the least and the largest.             *)
LEMMA SumBetween ==
    ASSUME NEW f, NEW S, IsFiniteSet(S), NEW low \in Int, NEW high \in Int,
           \A x \in S : f[x] \in Int /\ low <= f[x] /\ f[x] <= high
    PROVE  /\ low * Cardinality(S) <= SumFunctionOnSet(f, S)
           /\ SumFunctionOnSet(f, S) <= high * Cardinality(S)
<1> DEFINE Good == {T \in SUBSET S : /\ low * Cardinality(T) <= SumFunctionOnSet(f, T)
                                     /\ SumFunctionOnSet(f, T) <= high * Cardinality(T)}
<1>1. {} \in Good
    <2>1. SumFunctionOnSet(f, {}) = 0 /\ Cardinality({}) = 0
        BY SumUnfolds, FS_EmptySet
    <2> QED BY <2>1
<1>2. ASSUME NEW T \in SUBSET S, NEW x \in T, T \ {x} \in Good
      PROVE  T \in Good
    <2> DEFINE n == Cardinality(T \ {x})
               rest == SumFunctionOnSet(f, T \ {x})
    <2>1. IsFiniteSet(T) /\ IsFiniteSet(T \ {x})
        BY FS_Subset
    <2>2. Cardinality(T) = n + 1 /\ n \in Nat
        BY <2>1, FS_RemoveElement, FS_CardinalityType
    <2>3. SumFunctionOnSet(f, T) = f[x] + rest
        BY <2>1, SumTakesOut
    <2>4. rest \in Int /\ f[x] \in Int
        BY <2>1, SumType
    <2>5. low * n <= rest /\ rest <= high * n
        BY <1>2
    <2>6. low <= f[x] /\ f[x] <= high
        OBVIOUS
    <2> HIDE DEF n, rest
    <2>7. low * (n + 1) = low * n + low /\ high * (n + 1) = high * n + high
        BY <2>2
    <2>8. low * n \in Int /\ high * n \in Int
        BY <2>2
    <2>9. low * (n + 1) <= f[x] + rest /\ f[x] + rest <= high * (n + 1)
        BY <2>4, <2>5, <2>6, <2>7, <2>8
    <2> QED BY <2>2, <2>3, <2>9
<1> HIDE DEF Good
<1>3. S \in Good
    BY <1>1, <1>2, OneByOne
<1> QED BY <1>3 DEF Good

(* What is so much times something everywhere is so in the sum.            *)
LEMMA SumsInProportion ==
    ASSUME NEW f, NEW g, NEW S, IsFiniteSet(S), S # {}, NEW low \in Int, NEW high \in Int,
           \A x \in S : /\ f[x] \in Int /\ g[x] \in Int
                        /\ low * g[x] <= 100 * f[x] /\ 100 * f[x] < high * g[x]
    PROVE  /\ low * SumFunctionOnSet(g, S) <= 100 * SumFunctionOnSet(f, S)
           /\ 100 * SumFunctionOnSet(f, S) < high * SumFunctionOnSet(g, S)
<1> DEFINE Good == {T \in SUBSET S :
                      /\ low * SumFunctionOnSet(g, T) <= 100 * SumFunctionOnSet(f, T)
                      /\ T # {} => 100 * SumFunctionOnSet(f, T) < high * SumFunctionOnSet(g, T)}
<1>1. {} \in Good
    <2>1. SumFunctionOnSet(f, {}) = 0 /\ SumFunctionOnSet(g, {}) = 0
        BY SumUnfolds, FS_EmptySet
    <2> QED BY <2>1
<1>2. ASSUME NEW T \in SUBSET S, NEW x \in T, T \ {x} \in Good
      PROVE  T \in Good
    <2> DEFINE a == SumFunctionOnSet(f, T \ {x})
               b == SumFunctionOnSet(g, T \ {x})
    <2>1. IsFiniteSet(T) /\ IsFiniteSet(T \ {x})
        BY FS_Subset
    <2>2. SumFunctionOnSet(f, T) = f[x] + a /\ SumFunctionOnSet(g, T) = g[x] + b
        BY <2>1, SumTakesOut
    <2>3. a \in Int /\ b \in Int /\ f[x] \in Int /\ g[x] \in Int
        BY <2>1, SumType
    <2>4. low * b <= 100 * a /\ 100 * a <= high * b
        <3>1. CASE T \ {x} = {}
            <4>1. a = 0 /\ b = 0
                BY <3>1, SumUnfolds, FS_EmptySet
            <4> HIDE DEF a, b
            <4> QED BY <4>1
        <3>2. CASE T \ {x} # {}
            <4>1. low * b <= 100 * a /\ 100 * a < high * b
                BY <1>2, <3>2
            <4>2. 100 * a \in Int /\ high * b \in Int
                BY <2>3
            <4> HIDE DEF a, b
            <4> QED BY <4>1, <4>2
        <3> QED BY <3>1, <3>2
    <2>5. low * g[x] <= 100 * f[x] /\ 100 * f[x] < high * g[x]
        OBVIOUS
    <2> HIDE DEF a, b
    <2>6. /\ low * (g[x] + b) = low * g[x] + low * b
          /\ high * (g[x] + b) = high * g[x] + high * b
        BY <2>3
    <2>7. /\ low * g[x] \in Int /\ low * b \in Int /\ high * g[x] \in Int /\ high * b \in Int
        BY <2>3
    <2>8. low * (g[x] + b) <= 100 * (f[x] + a) /\ 100 * (f[x] + a) < high * (g[x] + b)
        BY <2>3, <2>4, <2>5, <2>6, <2>7
    <2> QED BY <2>2, <2>8
<1> HIDE DEF Good
<1>3. S \in Good
    BY <1>1, <1>2, OneByOne
<1> QED BY <1>3 DEF Good

(* A set has as many members as ones to sum.                               *)
LEMMA CardinalityIsSum ==
    ASSUME NEW S, IsFiniteSet(S)
    PROVE  Cardinality(S) = SumFunctionOnSet([x \in S |-> 1], S)
<1> DEFINE one == [x \in S |-> 1]
<1>1. \A x \in S : one[x] \in Int /\ 1 <= one[x] /\ one[x] <= 1
    OBVIOUS
<1> HIDE DEF one
<1>2. 1 * Cardinality(S) <= SumFunctionOnSet(one, S) /\ SumFunctionOnSet(one, S) <= 1 * Cardinality(S)
    BY <1>1, SumBetween
<1>3. SumFunctionOnSet(one, S) \in Int /\ Cardinality(S) \in Nat
    BY <1>1, SumType, FS_CardinalityType
<1> QED BY <1>2, <1>3 DEF one

-----------------------------------------------------------------------------
(* Corrected totals.                                                       *)

(* The states are finitely many.                                           *)
LEMMA StatesFinite == IsFiniteSet(State)
<1>1. PICK n \in Nat : DOMAIN StateOrder = 1..n
    BY AssessmentAssumption
<1> QED BY <1>1, FS_Interval, RangeFinite DEF State

(* What a state says of a figure, if its rows are no less than nothing, is *)
(* at least what its last row says.                                        *)
LEMMA StatedAtLeast ==
    ASSUME NEW rows, IsColumn(rows), \A r \in Range(rows) : r.value \in Nat \cup {None}
    PROVE  LET stated == SumFunction([n \in Valued(rows) |-> rows[n].value])
           IN  /\ stated \in Nat
               /\ rows # <<>> /\ rows[Len(rows)].value # None => stated >= rows[Len(rows)].value
<1> DEFINE f == [n \in Valued(rows) |-> rows[n].value]
<1>1. PICK n \in Nat : DOMAIN rows = 1..n /\ Len(rows) = n
    BY DEF IsColumn
<1>2. IsFiniteSet(Valued(rows))
    BY <1>1, FS_Interval, FS_Subset DEF Valued
<1>3. \A k \in Valued(rows) : f[k] \in Nat
    BY DEF Valued, Range
<1>4. SumFunction(f) = SumFunctionOnSet(f, Valued(rows))
    BY DEF SumFunction
<1>5. rows # <<>> /\ rows[Len(rows)].value # None =>
         Len(rows) \in Valued(rows) /\ f[Len(rows)] = rows[Len(rows)].value
    <2>1. rows # <<>> => Len(rows) \in DOMAIN rows
        BY <1>1 DEF IsColumn
    <2> QED BY <2>1 DEF Valued
<1> HIDE DEF f
<1>6. SumFunction(f) \in Nat /\ \A k \in Valued(rows) : SumFunction(f) >= f[k]
    BY <1>2, <1>3, <1>4, SumAtLeast
<1>7. /\ SumFunction(f) \in Nat
      /\ rows # <<>> /\ rows[Len(rows)].value # None => SumFunction(f) >= rows[Len(rows)].value
    BY <1>5, <1>6
<1> QED BY <1>7 DEF f

(* A figure in doubt is the last row of a current return.                  *)
LEMMA DoubtIsOfAFigure ==
    ASSUME TypeOK, NEW p, NEW i, NEW f \in DoubtedOn(p, i)
    PROVE  /\ f.state \in CurrentStates(p) /\ RowsOf(f.state, p, i) # <<>>
           /\ f.reported = RowsOf(f.state, p, i)[Len(RowsOf(f.state, p, i))].value
<1>1. PICK st \in CurrentStates(p) :
        \E h \in {k \in latest[<<st, p>>].findings :
                   /\ k.severity \in {"ERROR", "WARNING"}
                   /\ k.indicator # None /\ RowsOf(st, p, k.indicator) # <<>>} :
          f = [state |-> st, indicator |-> h.indicator, rule |-> h.rule, blocks |-> h.blocks,
               reported |-> LastRow(st, p, h.indicator).value, expected |-> h.expected]
    BY DEF DoubtedOn, Doubted
<1>2. f.indicator = i
    BY DEF DoubtedOn
<1> QED BY <1>1, <1>2 DEF LastRow

(* So a state's figure is doubted in finitely many ways.                   *)
LEMMA SizedFinite ==
    ASSUME TypeOK, NEW p, NEW i, NEW st
    PROVE  IsFiniteSet(Sized(st, p, i))
<1> DEFINE f == [g \in latest[<<st, p>>].findings |->
                   [state |-> st, indicator |-> g.indicator, rule |-> g.rule, blocks |-> g.blocks,
                    reported |-> LastRow(st, p, g.indicator).value, expected |-> g.expected]]
<1>1. ASSUME NEW g \in Sized(st, p, i)
      PROVE  st \in CurrentStates(p) /\ g \in Range(f)
    <2>1. g \in Doubted(p) /\ g.state = st
        BY DEF Sized, DoubtedOn
    <2>2. PICK o \in CurrentStates(p) :
             \E h \in {k \in latest[<<o, p>>].findings :
                        /\ k.severity \in {"ERROR", "WARNING"}
                        /\ k.indicator # None /\ RowsOf(o, p, k.indicator) # <<>>} :
             g = [state |-> o, indicator |-> h.indicator, rule |-> h.rule, blocks |-> h.blocks,
                  reported |-> LastRow(o, p, h.indicator).value, expected |-> h.expected]
        BY <2>1 DEF Doubted
    <2>3. o = st
        BY <2>1, <2>2, SMT
    <2>4. PICK h \in latest[<<st, p>>].findings :
             g = [state |-> st, indicator |-> h.indicator, rule |-> h.rule, blocks |-> h.blocks,
                  reported |-> LastRow(st, p, h.indicator).value, expected |-> h.expected]
        BY <2>2, <2>3
    <2>5. g = f[h] /\ h \in DOMAIN f
        BY <2>4
    <2> HIDE DEF f
    <2> QED BY <2>2, <2>3, <2>5 DEF Range
<1>2. CASE st \in CurrentStates(p)
    <2>1. IsFiniteSet(latest[<<st, p>>].findings) /\ DOMAIN f = latest[<<st, p>>].findings
        BY <1>2 DEF TypeOK, IsTable, IsReturn, CurrentStates, Current, Filed
    <2> HIDE DEF f
    <2>2. Sized(st, p, i) \subseteq Range(f)
        BY <1>1
    <2> QED BY <2>1, <2>2, RangeFinite, FS_Subset
<1>3. CASE st \notin CurrentStates(p)
    <2>1. Sized(st, p, i) = {}
        BY <1>1, <1>3
    <2> QED BY <2>1, FS_EmptySet
<1> QED BY <1>2, <1>3

(* The worst of them is one of them.                                       *)
LEMMA WorstIsOne ==
    ASSUME TypeOK, NEW p, NEW i, NEW st, Sized(st, p, i) # {},
           \A f \in Sized(st, p, i) : Distortion(f) \in Int
    PROVE  \E f \in Sized(st, p, i) : WorstGap(st, p, i) = Distortion(f)
<1> DEFINE size == [f \in Sized(st, p, i) |-> Abs(Distortion(f))]
           Largest(f) == \A g \in Sized(st, p, i) : Abs(Distortion(f)) >= Abs(Distortion(g))
<1>1. \A f \in Sized(st, p, i) : size[f] \in Int
    BY DEF Abs
<1>2. \A f \in Sized(st, p, i) : size[f] = Abs(Distortion(f))
    OBVIOUS
<1>3. \E f \in Sized(st, p, i) : \A g \in Sized(st, p, i) : size[f] >= size[g]
    <2> HIDE DEF size
    <2> QED BY <1>1, SizedFinite, LargestExists
<1>4. \E f \in Sized(st, p, i) : Largest(f)
    BY <1>2, <1>3
<1>5. WorstGap(st, p, i) = Distortion(CHOOSE f \in Sized(st, p, i) : Largest(f))
    BY DEF WorstGap
<1> HIDE DEF Largest
<1> QED BY <1>4, <1>5

(* No correction of a state takes away more than the state said.           *)
LEMMA CorrectedStays == TypeOK => CorrectedTotalPossible
<1> SUFFICES ASSUME TypeOK, NEW p \in Touched, NEW i \in Indicator, NetDistortion(p, i) # None,
                    \A f \in DoubtedOn(p, i) : f.expected \in Nat \cup {None},
                    \A st \in CurrentStates(p) : \A r \in Range(RowsOf(st, p, i)) :
                       r.value \in Nat \cup {None}
             PROVE  NationalTotal(p, i) + NetDistortion(p, i) >= 0
    BY DEF CorrectedTotalPossible
<1> DEFINE rows(st) == RowsOf(st, p, i)
           stated(st) == SumFunction([n \in Valued(rows(st)) |-> rows(st)[n].value])
           said == [st \in CurrentStates(p) |-> stated(st)]
           affected == {st \in State : Sized(st, p, i) # {}}
           off == [st \in affected |-> WorstGap(st, p, i)]
<1>1. ASSUME NEW st \in CurrentStates(p)
      PROVE  IsColumn(rows(st))
    BY DEF TypeOK, IsTable, IsReturn, CurrentStates, Current, Filed, RowsOf
<1>2. ASSUME NEW st \in CurrentStates(p)
      PROVE  /\ stated(st) \in Nat
             /\ rows(st) # <<>> /\ rows(st)[Len(rows(st))].value # None =>
                   stated(st) >= rows(st)[Len(rows(st))].value
    <2>1. IsColumn(rows(st)) /\ \A r \in Range(rows(st)) : r.value \in Nat \cup {None}
        BY <1>1
    <2> HIDE DEF rows
    <2> QED BY <2>1, StatedAtLeast
<1>3. ASSUME NEW st \in affected
      PROVE  st \in CurrentStates(p) /\ off[st] \in Int /\ said[st] + off[st] >= 0
    <2>1. ASSUME NEW f \in Sized(st, p, i)
          PROVE  /\ st \in CurrentStates(p) /\ rows(st) # <<>>
                 /\ f.reported = rows(st)[Len(rows(st))].value
                 /\ f.reported \in Nat /\ f.expected \in Nat
                 /\ Distortion(f) = f.expected - f.reported
        <3>1. f \in DoubtedOn(p, i) /\ f.state = st /\ Distortion(f) # None
            BY DEF Sized
        <3>2. /\ st \in CurrentStates(p) /\ rows(st) # <<>>
              /\ f.reported = rows(st)[Len(rows(st))].value
            BY <3>1, DoubtIsOfAFigure
        <3>3. f.reported # None /\ f.expected # None /\ Distortion(f) = f.expected - f.reported
            BY <3>1 DEF Distortion
        <3>4. Len(rows(st)) \in DOMAIN rows(st)
            BY <1>1, <3>2 DEF IsColumn
        <3>5. rows(st)[Len(rows(st))].value \in Nat \cup {None}
            BY <3>2, <3>4 DEF Range
        <3> HIDE DEF rows
        <3> QED BY <3>1, <3>2, <3>3, <3>5
    <2>2. \A f \in Sized(st, p, i) : Distortion(f) \in Int
        BY <2>1
    <2>3. PICK f \in Sized(st, p, i) : WorstGap(st, p, i) = Distortion(f)
        BY <2>2, WorstIsOne
    <2>4. /\ st \in CurrentStates(p) /\ rows(st) # <<>>
          /\ f.reported = rows(st)[Len(rows(st))].value
          /\ f.reported \in Nat /\ f.expected \in Nat
          /\ Distortion(f) = f.expected - f.reported
        BY <2>1
    <2>5. stated(st) \in Nat /\ stated(st) >= f.reported
        <3> HIDE DEF rows, stated
        <3>1. f.reported # None
            BY <2>4, AssessmentAssumption
        <3> QED BY <1>2, <2>4, <3>1
    <2>6. said[st] = stated(st) /\ off[st] = WorstGap(st, p, i)
        BY <2>4
    <2> HIDE DEF said, off, stated, rows
    <2> QED BY <2>3, <2>4, <2>5, <2>6
<1>4. NationalTotal(p, i) = SumFunctionOnSet(said, CurrentStates(p))
    BY DEF NationalTotal, SumFunction
<1>5. NetDistortion(p, i) = SumFunctionOnSet(off, affected)
    <2>1. NetDistortion(p, i) = IF affected = {} THEN None ELSE SumFunction(off)
        BY DEF NetDistortion
    <2>2. SumFunction(off) = SumFunctionOnSet(off, affected)
        BY DEF SumFunction
    <2> HIDE DEF affected, off
    <2> QED BY <2>1, <2>2
<1>6. IsFiniteSet(CurrentStates(p))
    BY StatesFinite, FS_Subset DEF CurrentStates
<1>7. \A st \in CurrentStates(p) : said[st] \in Nat
    BY <1>2
<1> HIDE DEF said, affected, off
<1>8. affected \in SUBSET CurrentStates(p)
    BY <1>3
<1>9. SumFunctionOnSet(said, CurrentStates(p)) + SumFunctionOnSet(off, affected) >= 0
    BY <1>3, <1>6, <1>7, <1>8, SumsOffset
<1> QED BY <1>4, <1>5, <1>9

(* An error is charged once: taking off what the doubted figures are       *)
(* likely to overstate never leaves a total below zero.                    *)
THEOREM CorrectedTotalPossibleAlways == Spec => []CorrectedTotalPossible
BY AssessmentTypeCorrect, CorrectedStays, PTL

-----------------------------------------------------------------------------
(* Missing figures.                                                        *)

(* A context in which what the return says of i is left out.               *)
LeavesOut(cut, ctx, i) ==
    /\ DOMAIN ctx.rows = Indicator
    /\ cut.rows = [ctx.rows EXCEPT ![i] = <<>>]
    /\ \A field \in {"unmapped", "closed", "expected", "applicable", "previous", "history",
                     "targets", "peers", "complete"} : cut[field] = ctx[field]
    /\ \A j \in DOMAIN cut.lines :
          /\ cut.lines[j].status \in {"MISMATCH", "TRACKER_MISSING"} =>
                /\ j \in DOMAIN ctx.lines
                /\ ctx.lines[j].status = cut.lines[j].status
                /\ ctx.lines[j].reconcilesAs = cut.lines[j].reconcilesAs
          /\ cut.lines[j].status = "FRAMEWORK_MISSING" /\ j # i =>
                j \in DOMAIN ctx.lines /\ ctx.lines[j].status = "FRAMEWORK_MISSING"

(* The rows that are left are rows of the context ...                      *)
LEMMA RowsLeft ==
    ASSUME NEW t, NEW cut, NEW ctx, NEW i \in Indicator, LeavesOut(cut, ctx, i)
    PROVE  /\ After(t)!Rows(cut) = {r \in Rows(ctx) : r[1] # i}
           /\ \A r \in Rows(ctx) : r[1] # i => After(t)!At(cut, r) = At(ctx, r)
<1>1. \A j \in Indicator \ {i} : cut.rows[j] = ctx.rows[j]
    BY DEF LeavesOut
<1>2. cut.rows[i] = <<>>
    BY DEF LeavesOut
<1>3. \A r \in Rows(ctx) : r[1] \in Indicator /\ r = <<r[1], r[2]>> /\ r[2] \in DOMAIN ctx.rows[r[1]]
    BY DEF Rows
<1>4. \A r \in After(t)!Rows(cut) :
        r[1] \in Indicator /\ r = <<r[1], r[2]>> /\ r[2] \in DOMAIN cut.rows[r[1]]
    BY DEF After!Rows, Rows, After!Indicator, Indicator, After!Range, Range
<1>5. ASSUME NEW r \in Rows(ctx), r[1] # i PROVE r \in After(t)!Rows(cut)
    <2>1. r[1] \in Indicator \ {i} /\ r = <<r[1], r[2]>> /\ r[2] \in DOMAIN cut.rows[r[1]]
        BY <1>1, <1>3, <1>5
    <2>2. r \in {r[1]} \X DOMAIN cut.rows[r[1]]
        BY <2>1
    <2> QED BY <2>1, <2>2 DEF After!Rows, After!Indicator, Indicator, After!Range, Range
<1>6. ASSUME NEW r \in After(t)!Rows(cut) PROVE r \in Rows(ctx) /\ r[1] # i
    <2>1. r[1] # i
        BY <1>2, <1>4, <1>6
    <2>2. r[1] \in Indicator \ {i} /\ r = <<r[1], r[2]>> /\ r[2] \in DOMAIN ctx.rows[r[1]]
        BY <1>1, <1>4, <1>6, <2>1
    <2>3. r \in {r[1]} \X DOMAIN ctx.rows[r[1]]
        BY <2>2
    <2> QED BY <2>1, <2>2, <2>3 DEF Rows
<1>7. \A r \in Rows(ctx) : r[1] # i => After(t)!At(cut, r) = At(ctx, r)
    BY <1>1, <1>3 DEF After!At, At
<1> QED BY <1>5, <1>6, <1>7

(* ... and say the same numbers.                                           *)
LEMMA NumericLeft ==
    ASSUME NEW t, NEW cut, NEW ctx, NEW i \in Indicator, LeavesOut(cut, ctx, i)
    PROVE  /\ After(t)!Numeric(cut) = {r \in Numeric(ctx) : r[1] # i}
           /\ \A r \in Numeric(ctx) : r[1] # i =>
                After(t)!Effective(After(t)!At(cut, r)) = Effective(At(ctx, r))
<1>1. \A row : After(t)!Effective(row) = Effective(row)
    BY DEF After!Effective, Effective
<1> QED BY <1>1, RowsLeft DEF After!Numeric, Numeric

(* A sum does not depend on the table it is taken in.                      *)
LEMMA SumsAreSums == \A t, f : After(t)!SumFunction(f) = SumFunction(f)
BY DEF After!SumFunction, SumFunction, After!SumFunctionOnSet, SumFunctionOnSet,
       After!FoldFunctionOnSet, FoldFunctionOnSet, After!MapThenFoldSet, MapThenFoldSet

(* Nor does a count.                                                       *)
LEMMA CountsAreCounts == \A t, S : After(t)!Cardinality(S) = Cardinality(S)
BY DEF After!Cardinality, Cardinality

(* Totals of other figures stay.                                           *)
LEMMA TotalLeft ==
    ASSUME NEW t, NEW cut, NEW ctx, NEW i \in Indicator, LeavesOut(cut, ctx, i)
    PROVE  /\ \A j : After(t)!Given(cut, j) <=> Given(ctx, j) /\ j # i
           /\ \A j : j # i => After(t)!Total(cut, j) = Total(ctx, j)
           /\ \A S : i \notin S => After(t)!TotalOf(cut, S) = TotalOf(ctx, S)
<1>1. \A j : After(t)!Given(cut, j) <=> Given(ctx, j) /\ j # i
    BY NumericLeft DEF After!Given, Given
<1>2. \A f : After(t)!SumFunction(f) = SumFunction(f)
    BY SumsAreSums
<1>3. ASSUME NEW j, j # i PROVE After(t)!Total(cut, j) = Total(ctx, j)
    <2> DEFINE S == {q \in Numeric(ctx) : q[1] = j}
               T == {q \in After(t)!Numeric(cut) : q[1] = j}
    <2>1. S = T
        BY <1>3, NumericLeft
    <2>2. [r \in T |-> After(t)!Effective(After(t)!At(cut, r))] = [r \in S |-> Effective(At(ctx, r))]
        BY <1>3, <2>1, NumericLeft
    <2> QED BY <1>2, <2>2 DEF After!Total, Total
<1>4. ASSUME NEW S, i \notin S PROVE After(t)!TotalOf(cut, S) = TotalOf(ctx, S)
    <2>1. [j \in S |-> After(t)!Total(cut, j)] = [j \in S |-> Total(ctx, j)]
        BY <1>3, <1>4
    <2> QED BY <1>2, <2>1 DEF After!TotalOf, TotalOf
<1> QED BY <1>1, <1>3, <1>4

(* The rules that look at the rows one by one find what they found.        *)
LEMMA RowMarksLeft ==
    ASSUME NEW t, NEW cut, NEW ctx, NEW i \in Indicator, LeavesOut(cut, ctx, i)
    PROVE  /\ After(t)!NumeratorWithinDenominator(cut) \subseteq NumeratorWithinDenominator(ctx)
           /\ After(t)!PercentageArithmetic(cut) \subseteq PercentageArithmetic(ctx)
           /\ After(t)!ComponentsSupplied(cut) \subseteq ComponentsSupplied(ctx)
           /\ After(t)!DenominatorUsable(cut) \subseteq DenominatorUsable(ctx)
           /\ After(t)!ValueIsNumeric(cut) \subseteq ValueIsNumeric(ctx)
           /\ After(t)!DisaggregationVocabulary(cut) \subseteq DisaggregationVocabulary(ctx)
           /\ After(t)!NoDuplicateRows(cut) \subseteq NoDuplicateRows(ctx)
<1>1. \A S, T : S \subseteq T => After(t)!Marks(S) \subseteq Marks(T)
    BY DEF After!Marks, Marks, After!Mark, Mark
<1>2. \A j : After(t)!Def(j) = Def(j)
    BY DEF After!Def, Def
<1>3. After(t)!NumeratorWithinDenominator(cut) \subseteq NumeratorWithinDenominator(ctx)
    BY <1>1, RowsLeft DEF After!NumeratorWithinDenominator, NumeratorWithinDenominator
<1>4. After(t)!PercentageArithmetic(cut) \subseteq PercentageArithmetic(ctx)
    BY <1>1, <1>2, RowsLeft
       DEF After!PercentageArithmetic, PercentageArithmetic, After!Within, Within,
           After!RateOf, RateOf
<1>5. After(t)!ComponentsSupplied(cut) \subseteq ComponentsSupplied(ctx)
    BY <1>1, <1>2, RowsLeft DEF After!ComponentsSupplied, ComponentsSupplied
<1>6. After(t)!DenominatorUsable(cut) \subseteq DenominatorUsable(ctx)
    BY <1>1, <1>2, RowsLeft DEF After!DenominatorUsable, DenominatorUsable
<1>7. After(t)!ValueIsNumeric(cut) \subseteq ValueIsNumeric(ctx)
    BY <1>1, RowsLeft DEF After!ValueIsNumeric, ValueIsNumeric
<1>8. After(t)!DisaggregationVocabulary(cut) \subseteq DisaggregationVocabulary(ctx)
    BY <1>1, RowsLeft DEF After!DisaggregationVocabulary, DisaggregationVocabulary
<1>9. After(t)!NoDuplicateRows(cut) \subseteq NoDuplicateRows(ctx)
    BY <1>1, RowsLeft DEF After!NoDuplicateRows, NoDuplicateRows
<1> QED BY <1>3, <1>4, <1>5, <1>6, <1>7, <1>8, <1>9

(* A figure stands out of a series or does not.                            *)
LEMMA OutlierIsOutlier == \A t, v, s : After(t)!Outlies(v, s) <=> Outlies(v, s)
<1> SUFFICES ASSUME NEW t, NEW v, NEW s PROVE After(t)!Outlies(v, s) <=> Outlies(v, s)
    OBVIOUS
<1>1. \A x : After(t)!Off(s, x) = Off(s, x)
    BY SumsAreSums, CountsAreCounts DEF After!Off, Off
<1>2. [k \in DOMAIN s |-> After(t)!Off(s, s[k]) * After(t)!Off(s, s[k])]
        = [k \in DOMAIN s |-> Off(s, s[k]) * Off(s, s[k])]
    BY <1>1
<1>3. After(t)!Spread(s) = Spread(s)
    BY <1>2, SumsAreSums DEF After!Spread, Spread
<1> QED BY <1>1, <1>3, CountsAreCounts DEF After!Outlies, Outlies

(* So do those that look at its numbers ...                                *)
LEMMA NumberMarksLeft ==
    ASSUME NEW t, NEW cut, NEW ctx, NEW i \in Indicator, LeavesOut(cut, ctx, i)
    PROVE  /\ After(t)!WithinApplicableScope(cut) \subseteq WithinApplicableScope(ctx)
           /\ After(t)!PlausibleVersusTarget(cut) \subseteq PlausibleVersusTarget(ctx)
           /\ After(t)!OutlierAgainstHistory(cut) \subseteq OutlierAgainstHistory(ctx)
           /\ After(t)!StateConcentration(cut) \subseteq StateConcentration(ctx)
           /\ After(t)!ValueInRange(cut) \subseteq ValueInRange(ctx)
<1>1. \A S, T : S \subseteq T => After(t)!Marks(S) \subseteq Marks(T)
    BY DEF After!Marks, Marks, After!Mark, Mark
<1>2. \A j : After(t)!Def(j) = Def(j)
    BY DEF After!Def, Def
<1>3. /\ cut.applicable = ctx.applicable /\ cut.targets = ctx.targets
      /\ cut.history = ctx.history /\ cut.peers = ctx.peers
    BY DEF LeavesOut
<1>4. After(t)!WithinApplicableScope(cut) \subseteq WithinApplicableScope(ctx)
    BY <1>1, <1>3, NumericLeft
       DEF After!WithinApplicableScope, WithinApplicableScope, After!NumericWhere, NumericWhere
<1>5. After(t)!PlausibleVersusTarget(cut) \subseteq PlausibleVersusTarget(ctx)
    BY <1>1, <1>3, NumericLeft
       DEF After!PlausibleVersusTarget, PlausibleVersusTarget, After!NumericWhere, NumericWhere
<1>6. After(t)!OutlierAgainstHistory(cut) \subseteq OutlierAgainstHistory(ctx)
    BY <1>1, <1>3, NumericLeft, CountsAreCounts, OutlierIsOutlier
       DEF After!OutlierAgainstHistory, OutlierAgainstHistory, After!NumericWhere, NumericWhere
<1>7. After(t)!StateConcentration(cut) \subseteq StateConcentration(ctx)
    BY <1>1, <1>2, <1>3, NumericLeft
       DEF After!StateConcentration, StateConcentration, After!NumericWhere, NumericWhere,
           After!IsAdditive, IsAdditive
<1>8. After(t)!ValueInRange(cut) \subseteq ValueInRange(ctx)
    BY <1>1, <1>2, NumericLeft
       DEF After!ValueInRange, ValueInRange, After!NumericWhere, NumericWhere
<1> QED BY <1>4, <1>5, <1>6, <1>7, <1>8

(* ... at what the state said before ...                                   *)
LEMMA PreviousMarksLeft ==
    ASSUME NEW t, NEW cut, NEW ctx, NEW i \in Indicator, LeavesOut(cut, ctx, i)
    PROVE  /\ After(t)!ZeroAfterActivity(cut) \subseteq ZeroAfterActivity(ctx)
           /\ After(t)!PeriodOverPeriodChange(cut) \subseteq PeriodOverPeriodChange(ctx)
           /\ After(t)!CumulativeMonotonic(cut) \subseteq CumulativeMonotonic(ctx)
<1>1. cut.previous = ctx.previous
    BY DEF LeavesOut
<1>2. \A S, T : S \subseteq T =>
        After(t)!MarksAgainstPrevious(cut, S) \subseteq MarksAgainstPrevious(ctx, T)
    BY <1>1 DEF After!MarksAgainstPrevious, MarksAgainstPrevious, After!Mark, Mark
<1>3. \A j : After(t)!Def(j) = Def(j)
    BY DEF After!Def, Def
<1>4. After(t)!ZeroAfterActivity(cut) \subseteq ZeroAfterActivity(ctx)
    BY <1>1, <1>2, NumericLeft
       DEF After!ZeroAfterActivity, ZeroAfterActivity, After!NumericWhere, NumericWhere
<1>5. After(t)!PeriodOverPeriodChange(cut) \subseteq PeriodOverPeriodChange(ctx)
    BY <1>1, <1>2, <1>3, NumericLeft
       DEF After!PeriodOverPeriodChange, PeriodOverPeriodChange, After!NumericWhere, NumericWhere,
           After!Moved, Moved, After!Magnitude, Magnitude
<1>6. After(t)!CumulativeMonotonic(cut) \subseteq CumulativeMonotonic(ctx)
    BY <1>1, <1>2, <1>3, NumericLeft
       DEF After!CumulativeMonotonic, CumulativeMonotonic, After!NumericWhere, NumericWhere
<1> QED BY <1>4, <1>5, <1>6

(* ... at sums of figures, of which none is missing ...                    *)
LEMMA SumMarksLeft ==
    ASSUME NEW t, NEW cut, NEW ctx, NEW i \in Indicator, LeavesOut(cut, ctx, i)
    PROVE  /\ After(t)!SubsetWithinParent(cut) \subseteq SubsetWithinParent(ctx)
           /\ After(t)!CompositeEqualsParts(cut) \subseteq CompositeEqualsParts(ctx)
           /\ After(t)!DeclaredIdentityHolds(cut) \subseteq DeclaredIdentityHolds(ctx)
           /\ After(t)!DistinctIndicatorsDiffer(cut) \subseteq DistinctIndicatorsDiffer(ctx)
<1>1. \A S, T : S \subseteq T => After(t)!Marks(S) \subseteq Marks(T)
    BY DEF After!Marks, Marks, After!Mark, Mark
<1>2. \A j : After(t)!Def(j) = Def(j)
    BY DEF After!Def, Def
<1>3. \A j : After(t)!Mark(j) = Mark(j)
    BY DEF After!Mark, Mark
<1>4. After(t)!SubsetWithinParent(cut) \subseteq SubsetWithinParent(ctx)
    BY <1>3, TotalLeft DEF After!SubsetWithinParent, SubsetWithinParent
<1>5. ASSUME NEW pair, After(t)!TotalMissesParts(cut, pair)
      PROVE  TotalMissesParts(ctx, pair) /\ After(t)!TotalOf(cut, pair[2]) = TotalOf(ctx, pair[2])
    <2>1. pair[1] # i /\ i \notin pair[2]
        BY <1>5, TotalLeft DEF After!TotalMissesParts
    <2> QED BY <1>5, <2>1, TotalLeft DEF After!TotalMissesParts, TotalMissesParts, After!Within, Within
<1>6. \A pairs : After(t)!TotalsOff(cut, pairs) \subseteq TotalsOff(ctx, pairs)
    BY <1>3, <1>5 DEF After!TotalsOff, TotalsOff
<1>7. After(t)!CompositeEqualsParts(cut) \subseteq CompositeEqualsParts(ctx)
    BY <1>2, <1>6
       DEF After!CompositeEqualsParts, CompositeEqualsParts, After!Indicator, Indicator,
           After!Range, Range
<1>8. After(t)!DeclaredIdentityHolds(cut) \subseteq DeclaredIdentityHolds(ctx)
    BY <1>6 DEF After!DeclaredIdentityHolds, DeclaredIdentityHolds
<1>9. After(t)!DistinctIndicatorsDiffer(cut) \subseteq DistinctIndicatorsDiffer(ctx)
    BY <1>1, TotalLeft DEF After!DistinctIndicatorsDiffer, DistinctIndicatorsDiffer
<1> QED BY <1>4, <1>7, <1>8, <1>9

(* ... and at the months, but that a quarter is silent on i.  It is        *)
(* missing, where it was expected.                                         *)
LEMMA OtherMarksLeft ==
    ASSUME NEW t, NEW cut, NEW ctx, NEW i \in Indicator, LeavesOut(cut, ctx, i)
    PROVE  /\ After(t)!RowsFullyMapped(cut) \subseteq RowsFullyMapped(ctx)
           /\ After(t)!PeriodStillOpen(cut) \subseteq PeriodStillOpen(ctx)
           /\ After(t)!TrackerAgreesWithFramework(cut) \subseteq TrackerAgreesWithFramework(ctx)
           /\ After(t)!TrackerCoversTheFramework(cut) \subseteq TrackerCoversTheFramework(ctx)
           /\ After(t)!FrameworkCoversTheTracker(cut)
                 \subseteq FrameworkCoversTheTracker(ctx) \cup {Mark(i)}
           /\ After(t)!ExpectedIndicatorsPresent(cut)
                 \subseteq ExpectedIndicatorsPresent(ctx) \cup {Mark(i)}
<1>1. \A j : After(t)!Mark(j) = Mark(j)
    BY DEF After!Mark, Mark
<1>2. /\ cut.unmapped = ctx.unmapped /\ cut.closed = ctx.closed
      /\ cut.complete = ctx.complete /\ cut.expected = ctx.expected
    BY DEF LeavesOut
<1>3. After(t)!RowsFullyMapped(cut) \subseteq RowsFullyMapped(ctx)
    BY <1>1, <1>2 DEF After!RowsFullyMapped, RowsFullyMapped
<1>4. After(t)!PeriodStillOpen(cut) \subseteq PeriodStillOpen(ctx)
    BY <1>1, <1>2 DEF After!PeriodStillOpen, PeriodStillOpen
<1>5. After(t)!TrackerAgreesWithFramework(cut) \subseteq TrackerAgreesWithFramework(ctx)
    BY <1>1 DEF After!TrackerAgreesWithFramework, TrackerAgreesWithFramework, LeavesOut
<1>6. After(t)!TrackerCoversTheFramework(cut) \subseteq TrackerCoversTheFramework(ctx)
    BY <1>1, <1>2
       DEF After!TrackerCoversTheFramework, TrackerCoversTheFramework, After!Marks, Marks, LeavesOut
<1>7. After(t)!FrameworkCoversTheTracker(cut) \subseteq FrameworkCoversTheTracker(ctx) \cup {Mark(i)}
    BY <1>1 DEF After!FrameworkCoversTheTracker, FrameworkCoversTheTracker, After!Marks, Marks, LeavesOut
<1>8. Reported(ctx) \ {i} \subseteq After(t)!Reported(cut)
    BY RowsLeft DEF After!Reported, Reported
<1>9. After(t)!ExpectedIndicatorsPresent(cut) \subseteq ExpectedIndicatorsPresent(ctx) \cup {Mark(i)}
    BY <1>1, <1>2, <1>8
       DEF After!ExpectedIndicatorsPresent, ExpectedIndicatorsPresent, After!Marks, Marks
<1> QED BY <1>3, <1>4, <1>5, <1>6, <1>7, <1>9

(* The table in which a figure is left out of a return.                    *)
LEMMA LeftOutRows ==
    ASSUME TypeOK, NEW u \in CurrentReturns, NEW i \in Indicator
    PROVE  LET t == Without(u, i)
           IN  /\ \A a, b : After(t)!Current(a, b) <=> Current(a, b)
               /\ \A a, b : After(t)!Analysable(a, b) <=> Analysable(a, b)
               /\ \A a, b : \A j \in Indicator :
                    <<a, b>> # u \/ j # i => After(t)!RowsOf(a, b, j) = RowsOf(a, b, j)
               /\ After(t)!RowsOf(u[1], u[2], i) = <<>>
               /\ t[u].rows = [latest[u].rows EXCEPT ![i] = <<>>]
               /\ t[u].unmapped = latest[u].unmapped
<1> DEFINE t == Without(u, i)
<1>1. u \in DOMAIN latest /\ u = <<u[1], u[2]>> /\ IsReturn(latest[u])
    BY DEF CurrentReturns, TypeOK, IsTable
<1>2. /\ DOMAIN t = DOMAIN latest
      /\ \A v \in DOMAIN latest : v # u => t[v] = latest[v]
      /\ t[u].status = latest[u].status /\ t[u].unmapped = latest[u].unmapped
      /\ t[u].rows = [latest[u].rows EXCEPT ![i] = <<>>]
    BY <1>1 DEF Without, IsReturn
<1>3. DOMAIN latest[u].rows = Indicator
    BY <1>1 DEF IsReturn
<1> HIDE DEF t
<1>4. \A a, b : After(t)!Filed(a, b) <=> Filed(a, b)
    BY <1>2 DEF After!Filed, Filed
<1>5. \A a, b : Filed(a, b) => t[<<a, b>>].status = latest[<<a, b>>].status
    BY <1>2 DEF Filed
<1>6. /\ \A a, b : After(t)!Current(a, b) <=> Current(a, b)
      /\ \A a, b : After(t)!Analysable(a, b) <=> Analysable(a, b)
    BY <1>4, <1>5 DEF After!Current, Current, After!Analysable, Analysable
<1>7. ASSUME NEW a, NEW b, NEW j \in Indicator, <<a, b>> # u \/ j # i
      PROVE  After(t)!RowsOf(a, b, j) = RowsOf(a, b, j)
    <2>1. Filed(a, b) => t[<<a, b>>].rows[j] = latest[<<a, b>>].rows[j]
        <3>1. CASE <<a, b>> # u
            BY <1>2, <3>1 DEF Filed
        <3>2. CASE <<a, b>> = u
            BY <1>2, <1>3, <1>7, <3>2
        <3> QED BY <3>1, <3>2
    <2> QED BY <1>4, <2>1 DEF After!RowsOf, RowsOf
<1>8. After(t)!RowsOf(u[1], u[2], i) = <<>>
    BY <1>1, <1>2, <1>3 DEF After!RowsOf, After!Filed
<1> QED BY <1>2, <1>6, <1>7, <1>8 DEF t

(* The figures read from it: the same, but that one.                       *)
LEMMA LeftOutFigures ==
    ASSUME TypeOK, NEW u \in CurrentReturns, NEW i \in Indicator
    PROVE  LET t == Without(u, i)
           IN  /\ \A a, b : \A j \in Indicator : <<a, b>> # u \/ j # i =>
                    /\ After(t)!CurrentFigure(a, b, j) = CurrentFigure(a, b, j)
                    /\ After(t)!Effectives(a, b, j) = Effectives(a, b, j)
               /\ After(t)!CurrentFigure(u[1], u[2], i) = None
<1> DEFINE t == Without(u, i)
<1>1. /\ \A a, b : After(t)!Current(a, b) <=> Current(a, b)
      /\ \A a, b : \A j \in Indicator :
            <<a, b>> # u \/ j # i => After(t)!RowsOf(a, b, j) = RowsOf(a, b, j)
      /\ After(t)!RowsOf(u[1], u[2], i) = <<>>
    BY LeftOutRows
<1> HIDE DEF t
<1>2. \A row : After(t)!Effective(row) = Effective(row)
    BY DEF After!Effective, Effective
<1>3. ASSUME NEW a, NEW b, NEW j \in Indicator, <<a, b>> # u \/ j # i
      PROVE  /\ After(t)!CurrentFigure(a, b, j) = CurrentFigure(a, b, j)
             /\ After(t)!Effectives(a, b, j) = Effectives(a, b, j)
    <2>1. After(t)!RowsOf(a, b, j) = RowsOf(a, b, j)
        BY <1>1, <1>3
    <2>2. After(t)!CurrentFigure(a, b, j) = CurrentFigure(a, b, j)
        BY <1>1, <1>2, <2>1
           DEF After!CurrentFigure, CurrentFigure, After!FigureOf, FigureOf, After!LastRow, LastRow
    <2>3. After(t)!Effectives(a, b, j) = Effectives(a, b, j)
        BY <1>2, <2>1 DEF After!Effectives, Effectives
    <2> QED BY <2>2, <2>3
<1>4. After(t)!CurrentFigure(u[1], u[2], i) = None
    BY <1>1 DEF After!CurrentFigure, After!FigureOf
<1> QED BY <1>3, <1>4 DEF t

(* What the state said before, and what others say, is unchanged.          *)
LEMMA LeftOutSurroundings ==
    ASSUME TypeOK, NEW u \in CurrentReturns, NEW i \in Indicator, NEW j \in Indicator
    PROVE  LET t == Without(u, i)
           IN  /\ After(t)!PreviousFigure(u[1], u[2], j) = PreviousFigure(u[1], u[2], j)
               /\ After(t)!History(u[1], u[2], j) = History(u[1], u[2], j)
               /\ After(t)!Peers(u[1], u[2], j) = Peers(u[1], u[2], j)
               /\ After(t)!TargetFor(u[1], u[2], j) = TargetFor(u[1], u[2], j)
<1> DEFINE t == Without(u, i)
           st == u[1]
           p == u[2]
<1>1. /\ \A a, b : After(t)!Analysable(a, b) <=> Analysable(a, b)
      /\ \A a, b : <<a, b>> # u => After(t)!RowsOf(a, b, j) = RowsOf(a, b, j)
    <2>1. \A a, b : \A k \in Indicator :
            <<a, b>> # u \/ k # i => After(t)!RowsOf(a, b, k) = RowsOf(a, b, k)
        BY LeftOutRows
    <2>2. \A a, b : After(t)!Analysable(a, b) <=> Analysable(a, b)
        BY LeftOutRows
    <2> QED BY <2>1, <2>2
<1>2. \A a, b : <<a, b>> # u => After(t)!Effectives(a, b, j) = Effectives(a, b, j)
    BY LeftOutFigures
<1>3. u = <<st, p>> /\ p \in Period
    BY DEF CurrentReturns, TypeOK, IsTable
<1> HIDE DEF t, st, p
<1>4. After(t)!PreviousFigure(st, p, j) = PreviousFigure(st, p, j)
    <2>1. <<st, Previous[p]>> # u
        BY <1>3, AssessmentAssumption
    <2>2. \A row : After(t)!Effective(row) = Effective(row)
        BY DEF After!Effective, Effective
    <2>3. \A S : After(t)!Max(S) = Max(S)
        BY DEF After!Max, Max
    <2> DEFINE rows == RowsOf(st, Previous[p], j)
               said == {n \in DOMAIN rows : Effective(rows[n]) # None}
               saidAfter == {n \in DOMAIN rows : After(t)!Effective(rows[n]) # None}
    <2>4. rows = After(t)!RowsOf(st, Previous[p], j)
        BY <1>1, <2>1
    <2>5. said = saidAfter
        BY <2>2
    <2>6. PreviousFigure(st, p, j)
            = IF Previous[p] = None \/ said = {} THEN None ELSE Effective(rows[Max(said)])
        BY DEF PreviousFigure
    <2>7. After(t)!PreviousFigure(st, p, j)
            = IF Previous[p] = None \/ saidAfter = {} THEN None
              ELSE After(t)!Effective(rows[After(t)!Max(saidAfter)])
        BY <2>4 DEF After!PreviousFigure
    <2> HIDE DEF rows, said, saidAfter
    <2> QED BY <2>2, <2>3, <2>5, <2>6, <2>7
<1>5. After(t)!History(st, p, j) = History(st, p, j)
    <2> DEFINE approved == {n \in DOMAIN PeriodOrder :
                              PeriodOrder[n] # p /\ Analysable(st, PeriodOrder[n])}
               past == {n \in approved : Cardinality({m \in approved : m > n}) < HistoryDepth}
               said(n) == Effectives(st, PeriodOrder[n], j)
               saidAfter(n) == After(t)!Effectives(st, PeriodOrder[n], j)
    <2>1. approved = {n \in DOMAIN PeriodOrder :
                        PeriodOrder[n] # p /\ After(t)!Analysable(st, PeriodOrder[n])}
        BY <1>1
    <2>2. past = {n \in approved : After(t)!Cardinality({m \in approved : m > n}) < HistoryDepth}
        BY CountsAreCounts
    <2>3. \A n \in past : saidAfter(n) = said(n)
        BY <1>2, <1>3
    <2>4. History(st, p, j) = [r \in UNION {{n} \X DOMAIN said(n) : n \in past} |-> said(r[1])[r[2]]]
        BY DEF History
    <2>5. After(t)!History(st, p, j)
            = [r \in UNION {{n} \X DOMAIN saidAfter(n) : n \in past} |-> saidAfter(r[1])[r[2]]]
        BY <2>1, <2>2 DEF After!History
    <2> HIDE DEF past, said, saidAfter
    <2>6. UNION {{n} \X DOMAIN saidAfter(n) : n \in past} = UNION {{n} \X DOMAIN said(n) : n \in past}
        BY <2>3
    <2>7. \A r \in UNION {{n} \X DOMAIN said(n) : n \in past} : r[1] \in past
        OBVIOUS
    <2>8. [r \in UNION {{n} \X DOMAIN saidAfter(n) : n \in past} |-> saidAfter(r[1])[r[2]]]
            = [r \in UNION {{n} \X DOMAIN said(n) : n \in past} |-> said(r[1])[r[2]]]
        BY <2>3, <2>6, <2>7
    <2> QED BY <2>4, <2>5, <2>8
<1>6. After(t)!Peers(st, p, j) = Peers(st, p, j)
    <2> DEFINE others == {o \in State \ {st} : Analysable(o, p)}
    <2>1. others = {o \in After(t)!State \ {st} : After(t)!Analysable(o, p)}
        BY <1>1 DEF After!State, State, After!Range, Range
    <2>2. \A o \in others : After(t)!Effectives(o, p, j) = Effectives(o, p, j)
        BY <1>2, <1>3
    <2>3. [o \in others |-> After(t)!SumFunction(After(t)!Effectives(o, p, j))]
            = [o \in others |-> SumFunction(Effectives(o, p, j))]
        BY <2>2, SumsAreSums
    <2>4. [o \in others |-> After(t)!Cardinality(DOMAIN After(t)!Effectives(o, p, j))]
            = [o \in others |-> Cardinality(DOMAIN Effectives(o, p, j))]
        BY <2>2, CountsAreCounts
    <2> HIDE DEF others
    <2> QED BY <2>1, <2>3, <2>4, SumsAreSums DEF After!Peers, Peers, others
<1>7. After(t)!TargetFor(st, p, j) = TargetFor(st, p, j)
    BY DEF After!TargetFor, TargetFor, After!TargetRows, TargetRows, After!Max, Max
<1> QED BY <1>4, <1>5, <1>6, <1>7 DEF t, st, p

(* How two numbers are compared and months are folded does not depend on   *)
(* the table.                                                              *)
LEMMA LinesAreJudgedAlike ==
    ASSUME NEW t, NEW j, NEW coarse, NEW figures, NEW fine, NEW given, NEW expected
    PROVE  /\ After(t)!TimeBasis(j) = TimeBasis(j)
           /\ \A basis : After(t)!Folded(basis, figures) = Folded(basis, figures)
           /\ After(t)!LineStatus(j, coarse, fine, given, expected)
                = LineStatus(j, coarse, fine, given, expected)
           /\ \A basis : After(t)!ReconcilesAs(basis, figures, coarse, After(t)!Tolerance(j))
                            = ReconcilesAs(basis, figures, coarse, Tolerance(j))
<1>1. /\ \A S : After(t)!Max(S) = Max(S) /\ After(t)!Min(S) = Min(S)
      /\ After(t)!Range(figures) = Range(figures)
    BY DEF After!Max, Max, After!Min, Min, After!Range, Range
<1>2. After(t)!Def(j) = Def(j)
    BY DEF After!Def, Def
<1>3. After(t)!TimeBasis(j) = TimeBasis(j)
    BY <1>2 DEF After!TimeBasis, TimeBasis
<1>4. \A basis : After(t)!Folded(basis, figures) = Folded(basis, figures)
    BY <1>1, SumsAreSums DEF After!Folded, Folded
<1>5. After(t)!Tolerance(j) = Tolerance(j)
    BY <1>2 DEF After!Tolerance, Tolerance, After!RateUnits, RateUnits
<1>6. \A x, y, slack : After(t)!Within(x, y, slack) <=> Within(x, y, slack)
    BY DEF After!Within, Within
<1>7. After(t)!LineStatus(j, coarse, fine, given, expected)
        = LineStatus(j, coarse, fine, given, expected)
    BY <1>1, <1>3, <1>5, <1>6
       DEF After!LineStatus, LineStatus, After!NeedsEveryPart, NeedsEveryPart
<1>8. ASSUME NEW basis
      PROVE  After(t)!ReconcilesAs(basis, figures, coarse, Tolerance(j))
                = ReconcilesAs(basis, figures, coarse, Tolerance(j))
    <2> DEFINE bases == <<"SNAPSHOT", "SUM", "LATEST">>
               agreeing == {n \in DOMAIN bases : bases[n] # basis
                              /\ Within(coarse, Folded(bases[n], figures), Tolerance(j))}
               agreeingAfter ==
                   {n \in DOMAIN bases : bases[n] # basis
                      /\ After(t)!Within(coarse, After(t)!Folded(bases[n], figures), Tolerance(j))}
    <2>1. agreeing = agreeingAfter
        BY <1>4, <1>6
    <2>2. ReconcilesAs(basis, figures, coarse, Tolerance(j))
            = IF coarse = None \/ Cardinality(DOMAIN figures) < 2 \/ agreeing = {}
              THEN None ELSE bases[Min(agreeing)]
        BY DEF ReconcilesAs
    <2>3. After(t)!ReconcilesAs(basis, figures, coarse, Tolerance(j))
            = IF coarse = None \/ After(t)!Cardinality(DOMAIN figures) < 2 \/ agreeingAfter = {}
              THEN None ELSE bases[After(t)!Min(agreeingAfter)]
        BY DEF After!ReconcilesAs
    <2> HIDE DEF bases, agreeing, agreeingAfter
    <2> QED BY <1>1, <2>1, <2>2, <2>3, CountsAreCounts
<1> QED BY <1>3, <1>4, <1>5, <1>7, <1>8

(* What a line says, and of which figures there is one.                    *)
LEMMA LineSays ==
    ASSUME NEW st, NEW p, NEW j
    PROVE  /\ j \in DOMAIN Lines(st, p) <=>
                 /\ j \in Reconcilable(st)
                 /\ \E part \in Range(Parts[p]) : Current(st, part)
                 /\ CurrentFigure(st, p, j) # None \/ DOMAIN PartValues(st, p, j) # {}
           /\ j \in DOMAIN Lines(st, p) =>
                 LET coarse == CurrentFigure(st, p, j)
                     figures == PartValues(st, p, j)
                     status == LineStatus(j, coarse, Folded(TimeBasis(j), figures),
                                          DOMAIN figures, DOMAIN Parts[p])
                 IN  /\ Lines(st, p)[j].status = status
                     /\ Lines(st, p)[j].reconcilesAs =
                          IF status = "MISMATCH"
                          THEN ReconcilesAs(TimeBasis(j), figures, coarse, Tolerance(j)) ELSE None
BY DEF Lines

(* A quarter without a figure of its own has no other mismatch, and lacks  *)
(* no other figure.                                                        *)
LEMMA LeftOutLines ==
    ASSUME TypeOK, NEW u \in CurrentReturns, NEW i \in Indicator,
           NEW j \in DOMAIN After(Without(u, i))!Lines(u[1], u[2])
    PROVE  LET lines == Lines(u[1], u[2])
               later == After(Without(u, i))!Lines(u[1], u[2])
           IN  /\ later[j].status \in {"MISMATCH", "TRACKER_MISSING"} =>
                     /\ j \in DOMAIN lines
                     /\ lines[j].status = later[j].status
                     /\ lines[j].reconcilesAs = later[j].reconcilesAs
               /\ later[j].status = "FRAMEWORK_MISSING" /\ j # i =>
                     j \in DOMAIN lines /\ lines[j].status = "FRAMEWORK_MISSING"
<1> DEFINE t == Without(u, i)
           st == u[1]
           p == u[2]
           lines == Lines(st, p)
           later == After(t)!Lines(st, p)
           coarse == CurrentFigure(st, p, j)
           coarseAfter == After(t)!CurrentFigure(st, p, j)
           figures == PartValues(st, p, j)
           status(c) == LineStatus(j, c, Folded(TimeBasis(j), figures), DOMAIN figures, DOMAIN Parts[p])
           agrees(c) == IF status(c) = "MISMATCH"
                        THEN ReconcilesAs(TimeBasis(j), figures, c, Tolerance(j)) ELSE None
<1>1. u = <<st, p>> /\ p \in Period
    BY DEF CurrentReturns, TypeOK, IsTable
<1>2. j \in After(t)!Reconcilable(st)
    BY DEF After!Lines
<1>3. \A S : After(t)!Range(S) = Range(S)
    BY DEF After!Range, Range
<1>4. After(t)!Reconcilable(st) = Reconcilable(st)
    <2> DEFINE reported == {k \in Indicator : Def(k).reported}
               reportedAfter == {k \in After(t)!Indicator : After(t)!Def(k).reported}
               run == {k \in reported : Def(k).component \in Implements[st]}
               runAfter == {k \in reportedAfter : After(t)!Def(k).component \in Implements[st]}
    <2>1. reported = reportedAfter
        BY <1>3 DEF After!Indicator, Indicator, After!Def, Def
    <2>2. run = runAfter
        BY <2>1 DEF After!Def, Def
    <2>3. Reconcilable(st) = IF run # {} THEN run ELSE reported
        BY DEF Reconcilable
    <2>4. After(t)!Reconcilable(st) = IF runAfter # {} THEN runAfter ELSE reportedAfter
        BY DEF After!Reconcilable
    <2> HIDE DEF t, st, reported, reportedAfter, run, runAfter
    <2> QED BY <2>1, <2>2, <2>3, <2>4
<1>5. j \in Indicator
    BY <1>2, <1>4 DEF Reconcilable
<1>6. \A a, b : After(t)!Current(a, b) <=> Current(a, b)
    BY LeftOutRows
<1>7. /\ j # i => coarseAfter = coarse
      /\ j = i => coarseAfter = None
    BY <1>5, LeftOutFigures
<1>8. After(t)!PartValues(st, p, j) = figures
    <2>1. \A n \in DOMAIN Parts[p] : <<st, Parts[p][n]>> # u
        BY <1>1, AssessmentAssumption DEF Range
    <2>2. \A n \in DOMAIN Parts[p] :
            After(t)!CurrentFigure(st, Parts[p][n], j) = CurrentFigure(st, Parts[p][n], j)
        BY <1>5, <2>1, LeftOutFigures
    <2> HIDE DEF t, st, p
    <2> QED BY <2>2 DEF After!PartValues, PartValues, figures
<1>9. /\ coarseAfter # None \/ DOMAIN figures # {}
      /\ later[j].status = status(coarseAfter)
      /\ later[j].reconcilesAs = agrees(coarseAfter)
    <2> DEFINE statusAfter ==
                   After(t)!LineStatus(j, coarseAfter, After(t)!Folded(After(t)!TimeBasis(j), figures),
                                       DOMAIN figures, DOMAIN Parts[p])
    <2>1. /\ coarseAfter # None \/ DOMAIN figures # {}
          /\ later[j].status = statusAfter
          /\ later[j].reconcilesAs =
               IF statusAfter = "MISMATCH"
               THEN After(t)!ReconcilesAs(After(t)!TimeBasis(j), figures, coarseAfter, After(t)!Tolerance(j))
               ELSE None
        BY <1>8 DEF After!Lines
    <2>2. statusAfter = status(coarseAfter)
        BY LinesAreJudgedAlike
    <2> HIDE DEF t, later, coarseAfter, figures, status, statusAfter
    <2> QED BY <2>1, <2>2, LinesAreJudgedAlike DEF agrees
<1>10. \E part \in Range(Parts[p]) : Current(st, part)
    BY <1>3, <1>6 DEF After!Lines
<1>11. coarse # None \/ DOMAIN figures # {} =>
          /\ j \in DOMAIN lines
          /\ lines[j].status = status(coarse)
          /\ lines[j].reconcilesAs = agrees(coarse)
    BY <1>2, <1>4, <1>10, LineSays
<1>12. CASE j # i
    <2> HIDE DEF t, lines, later, coarse, coarseAfter, figures, status, agrees
    <2> QED BY <1>7, <1>9, <1>11, <1>12 DEF t, lines, later
<1>13. CASE j = i
    <2>1. DOMAIN figures # {} /\ later[j].status = status(None)
        BY <1>7, <1>9, <1>13
    <2>2. status(None) \notin {"MATCHED", "MISMATCH"}
        BY DEF LineStatus
    <2>3. status(None) = "TRACKER_MISSING" => status(coarse) = "TRACKER_MISSING"
        BY DEF LineStatus
    <2> HIDE DEF t, lines, later, coarse, coarseAfter, figures, status
    <2>4. later[j].status = "TRACKER_MISSING" =>
            /\ j \in DOMAIN lines
            /\ lines[j].status = later[j].status
            /\ lines[j].reconcilesAs = later[j].reconcilesAs
        BY <1>7, <1>9, <1>11, <1>13, <2>1, <2>3 DEF agrees
    <2> QED BY <1>13, <2>1, <2>2, <2>4 DEF t, lines, later
<1> QED BY <1>12, <1>13

(* Leaving a figure out of a return leaves it out of its context.          *)
LEMMA LeftOutContext ==
    ASSUME TypeOK, NEW u \in CurrentReturns, NEW i \in Indicator
    PROVE  LeavesOut(After(Without(u, i))!Context(u[1], u[2]), Context(u[1], u[2]), i)
<1> DEFINE t == Without(u, i)
           st == u[1]
           p == u[2]
           cut == After(t)!Context(st, p)
           ctx == Context(st, p)
<1>1. u = <<st, p>> /\ p \in Period /\ u \in DOMAIN latest /\ IsReturn(latest[u])
    BY DEF CurrentReturns, TypeOK, IsTable
<1>2. DOMAIN ctx.rows = Indicator
    BY <1>1 DEF Context, IsReturn
<1>3. cut.rows = [ctx.rows EXCEPT ![i] = <<>>] /\ cut.unmapped = ctx.unmapped
    BY <1>1, LeftOutRows DEF After!Context, Context
<1>4. After(t)!Indicator = Indicator /\ \A j : After(t)!Def(j) = Def(j)
    BY DEF After!Indicator, Indicator, After!Range, Range, After!Def, Def
<1>5. cut.closed = ctx.closed
    BY DEF After!Context, Context
<1>6. After(t)!ApplicableTo(st) = ApplicableTo(st)
    BY <1>4 DEF After!ApplicableTo, ApplicableTo
<1>7. After(t)!ExpectedOf(st, p) = ExpectedOf(st, p)
    <2> DEFINE targeted ==
                   {row.indicator : row \in {r \in Range(target) : r.state = st /\ r.period = p}}
               core == {k \in Indicator : Def(k).core /\ Def(k).active}
               coreAfter ==
                   {k \in After(t)!Indicator : After(t)!Def(k).core /\ After(t)!Def(k).active}
    <2>1. core = coreAfter
        BY <1>4
    <2>2. ExpectedOf(st, p) = IF ApplicableTo(st) # {} THEN ApplicableTo(st)
                              ELSE IF targeted # {} THEN targeted ELSE core
        BY DEF ExpectedOf
    <2>3. After(t)!ExpectedOf(st, p) = IF After(t)!ApplicableTo(st) # {} THEN After(t)!ApplicableTo(st)
                                       ELSE IF targeted # {} THEN targeted ELSE coreAfter
        BY DEF After!ExpectedOf, After!Range, Range
    <2> HIDE DEF t, st, p, targeted, core, coreAfter
    <2> QED BY <1>6, <2>1, <2>2, <2>3
<1>8. cut.applicable = ctx.applicable /\ cut.expected = ctx.expected
    BY <1>6, <1>7 DEF After!Context, Context
<1>9. \A j \in Indicator :
        /\ After(t)!PreviousFigure(st, p, j) = PreviousFigure(st, p, j)
        /\ After(t)!History(st, p, j) = History(st, p, j)
        /\ After(t)!Peers(st, p, j) = Peers(st, p, j)
        /\ After(t)!TargetFor(st, p, j) = TargetFor(st, p, j)
    BY LeftOutSurroundings
<1>10. /\ cut.previous = ctx.previous /\ cut.history = ctx.history
       /\ cut.targets = ctx.targets /\ cut.peers = ctx.peers
    <2> HIDE DEF t, st, p
    <2> QED BY <1>4, <1>9 DEF After!Context, Context
<1>11. cut.complete = ctx.complete
    <2>1. \A a, b : After(t)!Current(a, b) <=> Current(a, b)
        BY LeftOutRows
    <2> HIDE DEF t, st, p
    <2> QED BY <2>1 DEF After!Context, Context, After!TrackerComplete, TrackerComplete, After!Range, Range
<1>12. cut.lines = After(t)!Lines(st, p) /\ ctx.lines = Lines(st, p)
    BY DEF After!Context, Context
<1>13. \A j \in DOMAIN cut.lines :
          /\ cut.lines[j].status \in {"MISMATCH", "TRACKER_MISSING"} =>
                /\ j \in DOMAIN ctx.lines
                /\ ctx.lines[j].status = cut.lines[j].status
                /\ ctx.lines[j].reconcilesAs = cut.lines[j].reconcilesAs
          /\ cut.lines[j].status = "FRAMEWORK_MISSING" /\ j # i =>
                j \in DOMAIN ctx.lines /\ ctx.lines[j].status = "FRAMEWORK_MISSING"
    BY <1>12, LeftOutLines
<1> HIDE DEF t, st, p, cut, ctx
<1>14. LeavesOut(cut, ctx, i)
    BY <1>2, <1>3, <1>5, <1>8, <1>10, <1>11, <1>13 DEF LeavesOut
<1> QED BY <1>14 DEF t, st, p, cut, ctx

(* What is registered of such a context was registered before, but that a  *)
(* figure is missing.                                                      *)
LEMMA LeftOutRegister ==
    ASSUME NEW t, NEW cut, NEW ctx, NEW i \in Indicator, LeavesOut(cut, ctx, i),
           NEW f \in After(t)!Registered(cut), f \notin Registered(ctx)
    PROVE  f.indicator = i /\ f.rule \in {"COM-001", "REC-002"}
<1> DEFINE found(rule, severity, blocking, marks) ==
            {[rule |-> rule, indicator |-> m.indicator, expected |-> m.expected,
              severity |-> IF m.severity # None THEN m.severity ELSE severity,
              blocks |-> blocking /\ m.severity = None] : m \in marks}
           error(rule, marks) == found(rule, "ERROR", TRUE, marks)
           warning(rule, marks) == found(rule, "WARNING", FALSE, marks)
<1>1. After(t)!Registered(cut) = UNION {
          error("INT-001", After(t)!NumeratorWithinDenominator(cut)),
          warning("INT-002", After(t)!PercentageArithmetic(cut)),
          error("INT-003", After(t)!SubsetWithinParent(cut)),
          warning("INT-004", After(t)!RowsFullyMapped(cut)),
          error("INT-005", After(t)!CompositeEqualsParts(cut)),
          error("INT-006", After(t)!DeclaredIdentityHolds(cut)),
          warning("INT-007", After(t)!DistinctIndicatorsDiffer(cut)),
          warning("COM-003", After(t)!ZeroAfterActivity(cut)),
          warning("APP-001", After(t)!WithinApplicableScope(cut)),
          warning("TIM-002", After(t)!PeriodStillOpen(cut)),
          warning("ACC-001", After(t)!PlausibleVersusTarget(cut)),
          warning("ACC-002", After(t)!OutlierAgainstHistory(cut)),
          error("ACC-003", After(t)!DenominatorUsable(cut)),
          warning("ACC-004", After(t)!StateConcentration(cut)),
          warning("COM-001", After(t)!ExpectedIndicatorsPresent(cut)),
          warning("COM-002", After(t)!ComponentsSupplied(cut)),
          warning("CON-001", After(t)!PeriodOverPeriodChange(cut)),
          error("CON-002", After(t)!CumulativeMonotonic(cut)),
          error("VAL-001", After(t)!ValueIsNumeric(cut)),
          error("VAL-002", After(t)!ValueInRange(cut)),
          warning("VAL-004", After(t)!DisaggregationVocabulary(cut)),
          error("UNQ-001", After(t)!NoDuplicateRows(cut)),
          warning("REC-001", After(t)!TrackerAgreesWithFramework(cut)),
          warning("REC-002", After(t)!FrameworkCoversTheTracker(cut)),
          warning("REC-003", After(t)!TrackerCoversTheFramework(cut))}
    BY DEF After!Registered
<1>2. Registered(ctx) = UNION {
          error("INT-001", NumeratorWithinDenominator(ctx)),
          warning("INT-002", PercentageArithmetic(ctx)),
          error("INT-003", SubsetWithinParent(ctx)),
          warning("INT-004", RowsFullyMapped(ctx)),
          error("INT-005", CompositeEqualsParts(ctx)),
          error("INT-006", DeclaredIdentityHolds(ctx)),
          warning("INT-007", DistinctIndicatorsDiffer(ctx)),
          warning("COM-003", ZeroAfterActivity(ctx)),
          warning("APP-001", WithinApplicableScope(ctx)),
          warning("TIM-002", PeriodStillOpen(ctx)),
          warning("ACC-001", PlausibleVersusTarget(ctx)),
          warning("ACC-002", OutlierAgainstHistory(ctx)),
          error("ACC-003", DenominatorUsable(ctx)),
          warning("ACC-004", StateConcentration(ctx)),
          warning("COM-001", ExpectedIndicatorsPresent(ctx)),
          warning("COM-002", ComponentsSupplied(ctx)),
          warning("CON-001", PeriodOverPeriodChange(ctx)),
          error("CON-002", CumulativeMonotonic(ctx)),
          error("VAL-001", ValueIsNumeric(ctx)),
          error("VAL-002", ValueInRange(ctx)),
          warning("VAL-004", DisaggregationVocabulary(ctx)),
          error("UNQ-001", NoDuplicateRows(ctx)),
          warning("REC-001", TrackerAgreesWithFramework(ctx)),
          warning("REC-002", FrameworkCoversTheTracker(ctx)),
          warning("REC-003", TrackerCoversTheFramework(ctx))}
    BY DEF Registered
<1>3. /\ error("INT-001", After(t)!NumeratorWithinDenominator(cut)) \subseteq error("INT-001", NumeratorWithinDenominator(ctx))
      /\ warning("INT-002", After(t)!PercentageArithmetic(cut)) \subseteq warning("INT-002", PercentageArithmetic(ctx))
      /\ error("INT-003", After(t)!SubsetWithinParent(cut)) \subseteq error("INT-003", SubsetWithinParent(ctx))
      /\ warning("INT-004", After(t)!RowsFullyMapped(cut)) \subseteq warning("INT-004", RowsFullyMapped(ctx))
      /\ error("INT-005", After(t)!CompositeEqualsParts(cut)) \subseteq error("INT-005", CompositeEqualsParts(ctx))
      /\ error("INT-006", After(t)!DeclaredIdentityHolds(cut)) \subseteq error("INT-006", DeclaredIdentityHolds(ctx))
      /\ warning("INT-007", After(t)!DistinctIndicatorsDiffer(cut)) \subseteq warning("INT-007", DistinctIndicatorsDiffer(ctx))
      /\ warning("COM-003", After(t)!ZeroAfterActivity(cut)) \subseteq warning("COM-003", ZeroAfterActivity(ctx))
      /\ warning("APP-001", After(t)!WithinApplicableScope(cut)) \subseteq warning("APP-001", WithinApplicableScope(ctx))
      /\ warning("TIM-002", After(t)!PeriodStillOpen(cut)) \subseteq warning("TIM-002", PeriodStillOpen(ctx))
      /\ warning("ACC-001", After(t)!PlausibleVersusTarget(cut)) \subseteq warning("ACC-001", PlausibleVersusTarget(ctx))
      /\ warning("ACC-002", After(t)!OutlierAgainstHistory(cut)) \subseteq warning("ACC-002", OutlierAgainstHistory(ctx))
      /\ error("ACC-003", After(t)!DenominatorUsable(cut)) \subseteq error("ACC-003", DenominatorUsable(ctx))
      /\ warning("ACC-004", After(t)!StateConcentration(cut)) \subseteq warning("ACC-004", StateConcentration(ctx))
      /\ warning("COM-002", After(t)!ComponentsSupplied(cut)) \subseteq warning("COM-002", ComponentsSupplied(ctx))
      /\ warning("CON-001", After(t)!PeriodOverPeriodChange(cut)) \subseteq warning("CON-001", PeriodOverPeriodChange(ctx))
      /\ error("CON-002", After(t)!CumulativeMonotonic(cut)) \subseteq error("CON-002", CumulativeMonotonic(ctx))
      /\ error("VAL-001", After(t)!ValueIsNumeric(cut)) \subseteq error("VAL-001", ValueIsNumeric(ctx))
      /\ error("VAL-002", After(t)!ValueInRange(cut)) \subseteq error("VAL-002", ValueInRange(ctx))
      /\ warning("VAL-004", After(t)!DisaggregationVocabulary(cut)) \subseteq warning("VAL-004", DisaggregationVocabulary(ctx))
      /\ error("UNQ-001", After(t)!NoDuplicateRows(cut)) \subseteq error("UNQ-001", NoDuplicateRows(ctx))
      /\ warning("REC-001", After(t)!TrackerAgreesWithFramework(cut)) \subseteq warning("REC-001", TrackerAgreesWithFramework(ctx))
      /\ warning("REC-003", After(t)!TrackerCoversTheFramework(cut)) \subseteq warning("REC-003", TrackerCoversTheFramework(ctx))
    BY RowMarksLeft, NumberMarksLeft, PreviousMarksLeft, SumMarksLeft, OtherMarksLeft
<1>4. \A rule, marks : \A g \in warning(rule, marks) :
        \E m \in marks : g.rule = rule /\ g.indicator = m.indicator /\ g \in warning(rule, {m})
    OBVIOUS
<1>5. \A rule, marks : \A m \in marks : warning(rule, {m}) \subseteq warning(rule, marks)
    OBVIOUS
<1>6. Mark(i).indicator = i
    BY DEF Mark
<1>7. /\ After(t)!FrameworkCoversTheTracker(cut) \subseteq FrameworkCoversTheTracker(ctx) \cup {Mark(i)}
      /\ After(t)!ExpectedIndicatorsPresent(cut) \subseteq ExpectedIndicatorsPresent(ctx) \cup {Mark(i)}
    BY OtherMarksLeft
<1> HIDE DEF found, error, warning
<1>8. \/ f \in warning("COM-001", After(t)!ExpectedIndicatorsPresent(cut))
      \/ f \in warning("REC-002", After(t)!FrameworkCoversTheTracker(cut))
    BY <1>1, <1>2, <1>3
<1>9. /\ f \notin warning("COM-001", ExpectedIndicatorsPresent(ctx))
      /\ f \notin warning("REC-002", FrameworkCoversTheTracker(ctx))
    BY <1>2
<1>10. CASE f \in warning("COM-001", After(t)!ExpectedIndicatorsPresent(cut))
    <2>1. PICK m \in After(t)!ExpectedIndicatorsPresent(cut) :
            f.rule = "COM-001" /\ f.indicator = m.indicator /\ f \in warning("COM-001", {m})
        BY <1>4, <1>10
    <2>2. m \notin ExpectedIndicatorsPresent(ctx)
        BY <1>5, <1>9, <2>1
    <2>3. m = Mark(i)
        BY <1>7, <2>1, <2>2
    <2> QED BY <1>6, <2>1, <2>3
<1>11. CASE f \in warning("REC-002", After(t)!FrameworkCoversTheTracker(cut))
    <2>1. PICK m \in After(t)!FrameworkCoversTheTracker(cut) :
            f.rule = "REC-002" /\ f.indicator = m.indicator /\ f \in warning("REC-002", {m})
        BY <1>4, <1>11
    <2>2. m \notin FrameworkCoversTheTracker(ctx)
        BY <1>5, <1>9, <2>1
    <2>3. m = Mark(i)
        BY <1>7, <2>1, <2>2
    <2> QED BY <1>6, <2>1, <2>3
<1> QED BY <1>8, <1>10, <1>11

(* Leaving a figure out of a return opens nothing else.                    *)
LEMMA MissingOpensNothing == TypeOK => MissingIsNotZero
<1> SUFFICES ASSUME TypeOK, NEW u \in CurrentReturns, NEW i \in Indicator,
                    NEW f \in After(Without(u, i))!Findings(u[1], u[2]) \ Findings(u[1], u[2])
             PROVE  f.indicator = i /\ f.rule \in {"COM-001", "REC-002"}
    BY DEF MissingIsNotZero
<1>1. LeavesOut(After(Without(u, i))!Context(u[1], u[2]), Context(u[1], u[2]), i)
    BY LeftOutContext
<1> QED BY <1>1, LeftOutRegister DEF After!Findings, Findings

(* A figure nobody reported is never taken for a zero: leaving a figure    *)
(* out opens no finding but that it is missing.                            *)
THEOREM MissingIsNotZeroAlways == Spec => []MissingIsNotZero
BY AssessmentTypeCorrect, MissingOpensNothing, PTL

-----------------------------------------------------------------------------
(* What a quarter is told of its months.                                   *)

(* What a rule of the default severity makes of a mark.                    *)
Warning(rule, m) == Report(rule, "WARNING", FALSE, m)

(* What a run of the rules tells a quarter of its months is what they      *)
(* mark.                                                                   *)
LEMMA RegisteredOfMonths ==
    ASSUME NEW t, NEW ctx
    PROVE  LET all == After(t)!Registered(ctx)
           IN  /\ Told(all, "REC-001") = {Warning("REC-001", m) :
                                             m \in After(t)!TrackerAgreesWithFramework(ctx)}
               /\ Told(all, "REC-002") = {Warning("REC-002", m) :
                                             m \in After(t)!FrameworkCoversTheTracker(ctx)}
               /\ Told(all, "REC-003") = {Warning("REC-003", m) :
                                             m \in After(t)!TrackerCoversTheFramework(ctx)}
<1> DEFINE found(rule, severity, blocking, marks) ==
            {[rule |-> rule, indicator |-> m.indicator, expected |-> m.expected,
              severity |-> IF m.severity # None THEN m.severity ELSE severity,
              blocks |-> blocking /\ m.severity = None] : m \in marks}
           error(rule, marks) == found(rule, "ERROR", TRUE, marks)
           warning(rule, marks) == found(rule, "WARNING", FALSE, marks)
           all == After(t)!Registered(ctx)
<1>1. \A rule, marks : \A f \in error(rule, marks) : f.rule = rule
    OBVIOUS
<1>2. \A rule, marks : \A f \in warning(rule, marks) : f.rule = rule
    OBVIOUS
<1>3. all = UNION {
          error("INT-001", After(t)!NumeratorWithinDenominator(ctx)),
          warning("INT-002", After(t)!PercentageArithmetic(ctx)),
          error("INT-003", After(t)!SubsetWithinParent(ctx)),
          warning("INT-004", After(t)!RowsFullyMapped(ctx)),
          error("INT-005", After(t)!CompositeEqualsParts(ctx)),
          error("INT-006", After(t)!DeclaredIdentityHolds(ctx)),
          warning("INT-007", After(t)!DistinctIndicatorsDiffer(ctx)),
          warning("COM-003", After(t)!ZeroAfterActivity(ctx)),
          warning("APP-001", After(t)!WithinApplicableScope(ctx)),
          warning("TIM-002", After(t)!PeriodStillOpen(ctx)),
          warning("ACC-001", After(t)!PlausibleVersusTarget(ctx)),
          warning("ACC-002", After(t)!OutlierAgainstHistory(ctx)),
          error("ACC-003", After(t)!DenominatorUsable(ctx)),
          warning("ACC-004", After(t)!StateConcentration(ctx)),
          warning("COM-001", After(t)!ExpectedIndicatorsPresent(ctx)),
          warning("COM-002", After(t)!ComponentsSupplied(ctx)),
          warning("CON-001", After(t)!PeriodOverPeriodChange(ctx)),
          error("CON-002", After(t)!CumulativeMonotonic(ctx)),
          error("VAL-001", After(t)!ValueIsNumeric(ctx)),
          error("VAL-002", After(t)!ValueInRange(ctx)),
          warning("VAL-004", After(t)!DisaggregationVocabulary(ctx)),
          error("UNQ-001", After(t)!NoDuplicateRows(ctx)),
          warning("REC-001", After(t)!TrackerAgreesWithFramework(ctx)),
          warning("REC-002", After(t)!FrameworkCoversTheTracker(ctx)),
          warning("REC-003", After(t)!TrackerCoversTheFramework(ctx))}
    BY DEF After!Registered
<1>4. /\ Told(all, "REC-001") = warning("REC-001", After(t)!TrackerAgreesWithFramework(ctx))
      /\ Told(all, "REC-002") = warning("REC-002", After(t)!FrameworkCoversTheTracker(ctx))
      /\ Told(all, "REC-003") = warning("REC-003", After(t)!TrackerCoversTheFramework(ctx))
    <2> HIDE DEF error, warning, all
    <2> QED BY <1>1, <1>2, <1>3 DEF Told
<1>5. \A rule, marks : warning(rule, marks) = {Warning(rule, m) : m \in marks}
    BY DEF Warning, Report
<1> HIDE DEF all, warning
<1>6. /\ Told(all, "REC-001") = {Warning("REC-001", m) :
                                     m \in After(t)!TrackerAgreesWithFramework(ctx)}
      /\ Told(all, "REC-002") = {Warning("REC-002", m) :
                                     m \in After(t)!FrameworkCoversTheTracker(ctx)}
      /\ Told(all, "REC-003") = {Warning("REC-003", m) :
                                     m \in After(t)!TrackerCoversTheFramework(ctx)}
    BY <1>4, <1>5
<1> QED BY <1>6 DEF all

(* If the streams agree in full, every line that was judged is a match.    *)
LEMMA FullAgreement ==
    ASSUME NEW lines, IsFiniteSet(DOMAIN lines), Agreement(lines) = 100, NEW i \in DOMAIN lines
    PROVE  lines[i].status \in {"MATCHED", "INCOMPLETE"}
<1> DEFINE open == {j \in DOMAIN lines : lines[j].status \in {"INCOMPLETE"}}
           matched == {j \in DOMAIN lines : lines[j].status \in {"MATCHED"}}
           judged == DOMAIN lines \ open
           n == Cardinality(DOMAIN lines) - Cardinality(open)
           m == Cardinality(matched)
<1>1. matched \in SUBSET judged /\ judged \in SUBSET DOMAIN lines /\ open \in SUBSET DOMAIN lines
    OBVIOUS
<1>2. Agreement(lines) = IF n = 0 THEN None ELSE (100 * m) \div n
    BY DEF Agreement
<1> HIDE DEF open, matched, judged
<1>3. IsFiniteSet(judged) /\ IsFiniteSet(open) /\ IsFiniteSet(matched)
    BY <1>1, FS_Subset
<1>4. Cardinality(judged) = n
    <2>1. DOMAIN lines \cap open = open /\ DOMAIN lines \ open = judged
        BY <1>1 DEF judged
    <2>2. Cardinality(DOMAIN lines \ open) = Cardinality(DOMAIN lines) - Cardinality(DOMAIN lines \cap open)
        BY FS_Difference
    <2> QED BY <2>1, <2>2
<1>5. Cardinality(judged) \in Nat /\ m \in Nat /\ m <= Cardinality(judged)
    BY <1>1, <1>3, FS_CardinalityType, FS_Subset
<1>6. n \in Nat /\ m \in Nat /\ m <= n
    BY <1>4, <1>5
<1> HIDE DEF n, m
<1>7. n # 0 /\ (100 * m) \div n = 100
    BY <1>2, AssessmentAssumption
<1>8. m = n
    BY <1>6, <1>7
<1>9. matched = judged
    BY <1>1, <1>3, <1>4, <1>8, FS_Subset DEF m
<1> QED BY <1>9 DEF matched, judged, open

(* What a run of the rules tells a quarter is what its lines say.          *)
LEMMA RunTells ==
    ASSUME NEW t, NEW st, NEW p
    PROVE  ToldOf(After(t)!Findings(st, p), After(t)!Lines(st, p), After(t)!TrackerComplete(st, p))
<1> DEFINE ctx == After(t)!Context(st, p)
           all == After(t)!Registered(ctx)
           lines == After(t)!Lines(st, p)
           complete == After(t)!TrackerComplete(st, p)
           having(status) == {i \in DOMAIN lines : lines[i].status = status}
<1>1. After(t)!Findings(st, p) = all
    BY DEF After!Findings
<1>2. ctx.lines = lines /\ ctx.complete = complete
    BY DEF After!Context
<1>3. /\ Told(all, "REC-001") = {Warning("REC-001", m) :
                                     m \in After(t)!TrackerAgreesWithFramework(ctx)}
      /\ Told(all, "REC-002") = {Warning("REC-002", m) :
                                     m \in After(t)!FrameworkCoversTheTracker(ctx)}
      /\ Told(all, "REC-003") = {Warning("REC-003", m) :
                                     m \in After(t)!TrackerCoversTheFramework(ctx)}
    BY RegisteredOfMonths
<1> HIDE DEF ctx, all, lines, complete
<1>4. \A rule, m : Warning(rule, m).indicator = m.indicator
    BY DEF Warning, Report
<1>5. /\ \A m \in After(t)!TrackerAgreesWithFramework(ctx) :
            /\ m.indicator \in having("MISMATCH")
            /\ m.severity = IF lines[m.indicator].reconcilesAs # None THEN "INFO" ELSE None
      /\ \A i \in having("MISMATCH") :
            \E m \in After(t)!TrackerAgreesWithFramework(ctx) : m.indicator = i
    <2> DEFINE mark(i) == [After(t)!Mark(i) EXCEPT !.severity =
                             IF lines[i].reconcilesAs # None THEN "INFO" ELSE None]
    <2>1. After(t)!TrackerAgreesWithFramework(ctx) = {mark(i) : i \in having("MISMATCH")}
        BY <1>2 DEF After!TrackerAgreesWithFramework
    <2>2. \A i : /\ mark(i).indicator = i
                 /\ mark(i).severity = IF lines[i].reconcilesAs # None THEN "INFO" ELSE None
        BY DEF After!Mark
    <2> HIDE DEF mark, having
    <2> QED BY <2>1, <2>2
<1>6. /\ \A m \in After(t)!FrameworkCoversTheTracker(ctx) : m.indicator \in having("FRAMEWORK_MISSING")
      /\ \A i \in having("FRAMEWORK_MISSING") :
            \E m \in After(t)!FrameworkCoversTheTracker(ctx) : m.indicator = i
    <2>1. After(t)!FrameworkCoversTheTracker(ctx) = {After(t)!Mark(i) : i \in having("FRAMEWORK_MISSING")}
        BY <1>2 DEF After!FrameworkCoversTheTracker, After!Marks
    <2>2. \A i : After(t)!Mark(i).indicator = i
        BY DEF After!Mark
    <2> HIDE DEF having
    <2> QED BY <2>1, <2>2
<1>7. /\ \A m \in After(t)!TrackerCoversTheFramework(ctx) :
            complete /\ m.indicator \in having("TRACKER_MISSING")
      /\ \A i \in having("TRACKER_MISSING") : complete =>
            \E m \in After(t)!TrackerCoversTheFramework(ctx) : m.indicator = i
    <2>1. After(t)!TrackerCoversTheFramework(ctx)
            = {After(t)!Mark(i) : i \in {j \in having("TRACKER_MISSING") : complete}}
        <3> DEFINE left == {i \in DOMAIN lines : complete /\ lines[i].status = "TRACKER_MISSING"}
                   right == {j \in having("TRACKER_MISSING") : complete}
        <3>1. left = right
            OBVIOUS
        <3>2. After(t)!TrackerCoversTheFramework(ctx) = {After(t)!Mark(i) : i \in left}
            BY <1>2 DEF After!TrackerCoversTheFramework, After!Marks
        <3> HIDE DEF left, right
        <3> QED BY <3>1, <3>2 DEF right
    <2>2. \A i : After(t)!Mark(i).indicator = i
        BY DEF After!Mark
    <2> HIDE DEF having
    <2> QED BY <2>1, <2>2
<1>8. \A f \in Told(all, "REC-001") : f.severity = "INFO" <=> lines[f.indicator].reconcilesAs # None
    <2> SUFFICES ASSUME NEW f \in Told(all, "REC-001")
                 PROVE  f.severity = "INFO" <=> lines[f.indicator].reconcilesAs # None
        OBVIOUS
    <2>1. PICK m \in After(t)!TrackerAgreesWithFramework(ctx) : f = Warning("REC-001", m)
        BY <1>3
    <2>2. f.indicator = m.indicator /\ f.severity = IF m.severity # None THEN m.severity ELSE "WARNING"
        BY <2>1 DEF Warning, Report
    <2>3. m.severity = IF lines[m.indicator].reconcilesAs # None THEN "INFO" ELSE None
        BY <1>5
    <2>4. None # "INFO"
        BY AssessmentAssumption
    <2> QED BY <2>2, <2>3, <2>4
<1>9. Agreement(lines) = 100 => \A f \in all : f.rule \notin {"REC-001", "REC-002", "REC-003"}
    <2> SUFFICES ASSUME Agreement(lines) = 100, NEW f \in all,
                        f.rule \in {"REC-001", "REC-002", "REC-003"}
                 PROVE  FALSE
        OBVIOUS
    <2>1. f \in Told(all, "REC-001") \cup Told(all, "REC-002") \cup Told(all, "REC-003")
        BY DEF Told
    <2>2. f.indicator \in having("MISMATCH") \cup having("FRAMEWORK_MISSING") \cup having("TRACKER_MISSING")
        <3> HIDE DEF having
        <3>1. f \in Told(all, "REC-001") => f.indicator \in having("MISMATCH")
            BY <1>3, <1>4, <1>5
        <3>2. f \in Told(all, "REC-002") => f.indicator \in having("FRAMEWORK_MISSING")
            BY <1>3, <1>4, <1>6
        <3>3. f \in Told(all, "REC-003") => f.indicator \in having("TRACKER_MISSING")
            BY <1>3, <1>4, <1>7
        <3> QED BY <2>1, <3>1, <3>2, <3>3
    <2>3. IsFiniteSet(DOMAIN lines)
        <3>1. DOMAIN lines \subseteq Indicator
            BY DEF lines, After!Lines, After!Reconcilable, After!Indicator, Indicator,
                   After!Range, Range
        <3> QED BY <3>1, CatalogueFinite, FS_Subset
    <2> QED BY <2>2, <2>3, FullAgreement
<1>10. ToldOf(all, lines, complete)
    <2> HIDE DEF having
    <2>1. {f.indicator : f \in Told(all, "REC-001")} = having("MISMATCH")
        BY <1>3, <1>4, <1>5
    <2>2. {f.indicator : f \in Told(all, "REC-002")} = having("FRAMEWORK_MISSING")
        BY <1>3, <1>4, <1>6
    <2>3. {f.indicator : f \in Told(all, "REC-003")} = {i \in having("TRACKER_MISSING") : complete}
        BY <1>3, <1>4, <1>7
    <2> QED BY <1>8, <1>9, <2>1, <2>2, <2>3 DEF ToldOf, having
<1> QED BY <1>1, <1>10 DEF all, lines, complete

(* What is told depends on no more of the lines than their verdicts.       *)
LinesAlike(lines, later) ==
    /\ DOMAIN later = DOMAIN lines
    /\ \A i \in DOMAIN lines : /\ later[i].status = lines[i].status
                               /\ later[i].reconcilesAs = lines[i].reconcilesAs

LEMMA ToldAlike ==
    ASSUME NEW findings, NEW lines, NEW later, NEW complete, LinesAlike(lines, later)
    PROVE  ToldOf(findings, later, complete) <=> ToldOf(findings, lines, complete)
<1> DEFINE of(L, status) == {i \in DOMAIN L : L[i].status = status}
           rest(L) == {i \in of(L, "TRACKER_MISSING") : complete}
           told(rule) == {f.indicator : f \in Told(findings, rule)}
           graded(L) == \A f \in Told(findings, "REC-001") :
                           f.severity = "INFO" <=> L[f.indicator].reconcilesAs # None
           quiet == \A f \in findings : f.rule \notin {"REC-001", "REC-002", "REC-003"}
<1>1. \A status : of(later, status) = of(lines, status)
    BY DEF LinesAlike
<1>2. Agreement(later) = Agreement(lines)
    <2>1. \A S : {i \in DOMAIN later : later[i].status \in S} = {i \in DOMAIN lines : lines[i].status \in S}
        BY DEF LinesAlike
    <2> QED BY <2>1 DEF Agreement, LinesAlike
<1>3. ASSUME told("REC-001") = of(lines, "MISMATCH")
      PROVE  graded(later) <=> graded(lines)
    <2>1. \A f \in Told(findings, "REC-001") : f.indicator \in DOMAIN lines
        BY <1>3
    <2>2. \A f \in Told(findings, "REC-001") :
             later[f.indicator].reconcilesAs = lines[f.indicator].reconcilesAs
        BY <2>1 DEF LinesAlike
    <2> QED BY <2>2
<1>4. ASSUME NEW L
      PROVE  ToldOf(findings, L, complete) <=>
                /\ told("REC-001") = of(L, "MISMATCH") /\ told("REC-002") = of(L, "FRAMEWORK_MISSING")
                /\ told("REC-003") = rest(L)
                /\ graded(L)
                /\ Agreement(L) = 100 => quiet
    BY DEF ToldOf
<1>5. rest(later) = rest(lines)
    BY <1>1
<1> HIDE DEF of, rest, told, graded, quiet
<1> QED BY <1>1, <1>2, <1>3, <1>4, <1>5, Zenon

(* What a line says in a table ...                                         *)
LEMMA LineSaysAfter ==
    ASSUME NEW t, NEW st, NEW p, NEW j
    PROVE  LET coarse == After(t)!CurrentFigure(st, p, j)
               figures == After(t)!PartValues(st, p, j)
               status == LineStatus(j, coarse, Folded(TimeBasis(j), figures),
                                    DOMAIN figures, DOMAIN Parts[p])
           IN  /\ j \in DOMAIN After(t)!Lines(st, p) <=>
                     /\ j \in Reconcilable(st)
                     /\ \E part \in Range(Parts[p]) : After(t)!Current(st, part)
                     /\ coarse # None \/ DOMAIN figures # {}
               /\ j \in DOMAIN After(t)!Lines(st, p) =>
                     /\ After(t)!Lines(st, p)[j].status = status
                     /\ After(t)!Lines(st, p)[j].reconcilesAs =
                          IF status = "MISMATCH"
                          THEN ReconcilesAs(TimeBasis(j), figures, coarse, Tolerance(j)) ELSE None
<1> DEFINE coarse == After(t)!CurrentFigure(st, p, j)
           figures == After(t)!PartValues(st, p, j)
           lines == After(t)!Lines(st, p)
           status == LineStatus(j, coarse, Folded(TimeBasis(j), figures),
                                DOMAIN figures, DOMAIN Parts[p])
           statusAfter ==
               After(t)!LineStatus(j, coarse, After(t)!Folded(After(t)!TimeBasis(j), figures),
                                   DOMAIN figures, DOMAIN Parts[p])
<1>1. \A S : After(t)!Range(S) = Range(S)
    BY DEF After!Range, Range
<1>2. After(t)!Reconcilable(st) = Reconcilable(st)
    <2> DEFINE reported == {k \in Indicator : Def(k).reported}
               reportedAfter == {k \in After(t)!Indicator : After(t)!Def(k).reported}
               run == {k \in reported : Def(k).component \in Implements[st]}
               runAfter == {k \in reportedAfter : After(t)!Def(k).component \in Implements[st]}
    <2>1. reported = reportedAfter
        BY <1>1 DEF After!Indicator, Indicator, After!Def, Def
    <2>2. run = runAfter
        BY <2>1 DEF After!Def, Def
    <2>3. Reconcilable(st) = IF run # {} THEN run ELSE reported
        BY DEF Reconcilable
    <2>4. After(t)!Reconcilable(st) = IF runAfter # {} THEN runAfter ELSE reportedAfter
        BY DEF After!Reconcilable
    <2> HIDE DEF reported, reportedAfter, run, runAfter
    <2> QED BY <2>1, <2>2, <2>3, <2>4
<1>3. /\ j \in DOMAIN lines <=>
            /\ j \in After(t)!Reconcilable(st)
            /\ \E part \in After(t)!Range(Parts[p]) : After(t)!Current(st, part)
            /\ coarse # None \/ DOMAIN figures # {}
      /\ j \in DOMAIN lines =>
            /\ lines[j].status = statusAfter
            /\ lines[j].reconcilesAs =
                 IF statusAfter = "MISMATCH"
                 THEN After(t)!ReconcilesAs(After(t)!TimeBasis(j), figures, coarse, After(t)!Tolerance(j))
                 ELSE None
    BY DEF After!Lines
<1>4. statusAfter = status
    BY LinesAreJudgedAlike
<1>5. After(t)!ReconcilesAs(After(t)!TimeBasis(j), figures, coarse, After(t)!Tolerance(j))
        = ReconcilesAs(TimeBasis(j), figures, coarse, Tolerance(j))
    BY LinesAreJudgedAlike
<1> HIDE DEF coarse, figures, lines, status, statusAfter
<1> QED BY <1>1, <1>2, <1>3, <1>4, <1>5 DEF coarse, figures, lines, status

(* ... and after a step.                                                   *)
LEMMA LineSaysNext ==
    ASSUME setup' = setup, NEW st, NEW p, NEW j
    PROVE  LET coarse == CurrentFigure(st, p, j)'
               figures == PartValues(st, p, j)'
               status == LineStatus(j, coarse, Folded(TimeBasis(j), figures),
                                    DOMAIN figures, DOMAIN Parts[p])
           IN  /\ j \in DOMAIN Lines(st, p)' <=>
                     /\ j \in Reconcilable(st)
                     /\ \E part \in Range(Parts[p]) : Current(st, part)'
                     /\ coarse # None \/ DOMAIN figures # {}
               /\ j \in DOMAIN Lines(st, p)' =>
                     /\ Lines(st, p)'[j].status = status
                     /\ Lines(st, p)'[j].reconcilesAs =
                          IF status = "MISMATCH"
                          THEN ReconcilesAs(TimeBasis(j), figures, coarse, Tolerance(j)) ELSE None
<1>1. \A k : Def(k)' = Def(k)
    BY DEF Def
<1>2. TimeBasis(j)' = TimeBasis(j) /\ Tolerance(j)' = Tolerance(j) /\ Reconcilable(st)' = Reconcilable(st)
    BY <1>1 DEF TimeBasis, Tolerance, Reconcilable
<1> DEFINE coarse == CurrentFigure(st, p, j)'
           figures == PartValues(st, p, j)'
           later == Lines(st, p)'
           fine == Folded(TimeBasis(j), figures)
           status == LineStatus(j, coarse, fine, DOMAIN figures, DOMAIN Parts[p])
<1>3. LineStatus(j, CurrentFigure(st, p, j), Folded(TimeBasis(j), PartValues(st, p, j)),
                 DOMAIN PartValues(st, p, j), DOMAIN Parts[p])' = status
    BY <1>2 DEF LineStatus
<1>4. /\ j \in DOMAIN later <=>
            /\ j \in Reconcilable(st)'
            /\ \E part \in Range(Parts[p]) : Current(st, part)'
            /\ coarse # None \/ DOMAIN figures # {}
      /\ j \in DOMAIN later =>
            /\ later[j].status =
                 LineStatus(j, CurrentFigure(st, p, j), Folded(TimeBasis(j), PartValues(st, p, j)),
                            DOMAIN PartValues(st, p, j), DOMAIN Parts[p])'
            /\ later[j].reconcilesAs =
                 IF LineStatus(j, CurrentFigure(st, p, j), Folded(TimeBasis(j), PartValues(st, p, j)),
                               DOMAIN PartValues(st, p, j), DOMAIN Parts[p])' = "MISMATCH"
                 THEN ReconcilesAs(TimeBasis(j)', figures, coarse, Tolerance(j)')
                 ELSE None
    BY DEF Lines
<1> HIDE DEF coarse, figures, later, status
<1> QED BY <1>2, <1>3, <1>4 DEF coarse, figures, later, status
(* The return v is in table t as it is after the step, as far as a line    *)
(* looks at it.                                                            *)
AsAfter(t, v) ==
    /\ v \in DOMAIN t /\ t[v].status # "REJECTED" <=> v \in CurrentReturns'
    /\ v \in CurrentReturns' => t[v].rows = latest'[v].rows

(* Then the lines are those of the table.                                  *)
LEMMA LinesCarry ==
    ASSUME NEW t, setup' = setup, NEW st, NEW p,
           \A q \in {p} \cup Range(Parts[p]) : AsAfter(t, <<st, q>>)
    PROVE  /\ LinesAlike(After(t)!Lines(st, p), Lines(st, p)')
           /\ After(t)!TrackerComplete(st, p) <=> TrackerComplete(st, p)'
<1>1. ASSUME NEW q \in {p} \cup Range(Parts[p])
      PROVE  /\ After(t)!Current(st, q) <=> Current(st, q)'
             /\ \A i : After(t)!CurrentFigure(st, q, i) = CurrentFigure(st, q, i)'
    <2>1. AsAfter(t, <<st, q>>)
        BY <1>1
    <2>2. After(t)!Current(st, q) <=> Current(st, q)'
        BY <2>1 DEF AsAfter, CurrentReturns, After!Current, After!Filed, Current, Filed
    <2>3. Current(st, q)' => \A i : After(t)!RowsOf(st, q, i) = RowsOf(st, q, i)'
        BY <2>1, <2>2 DEF AsAfter, CurrentReturns, After!Current, After!Filed, Current, Filed,
                          After!RowsOf, RowsOf
    <2>4. \A r : After(t)!Effective(r) = Effective(r)
        BY DEF After!Effective, Effective
    <2>5. Current(st, q)' => \A i : After(t)!FigureOf(st, q, i) = FigureOf(st, q, i)'
        BY <2>3, <2>4 DEF After!FigureOf, FigureOf, After!LastRow, LastRow, Effective
    <2> QED BY <2>2, <2>5 DEF After!CurrentFigure, CurrentFigure
<1>2. ASSUME NEW i
      PROVE  After(t)!PartValues(st, p, i) = PartValues(st, p, i)'
    <2>1. \A n \in DOMAIN Parts[p] :
             After(t)!CurrentFigure(st, Parts[p][n], i) = CurrentFigure(st, Parts[p][n], i)'
        BY <1>1 DEF Range
    <2> DEFINE given == {n \in DOMAIN Parts[p] : After(t)!CurrentFigure(st, Parts[p][n], i) # None}
               later == {n \in DOMAIN Parts[p] : CurrentFigure(st, Parts[p][n], i)' # None}
    <2>2. given = later
        BY <2>1
    <2>3. /\ After(t)!PartValues(st, p, i) = [n \in given |-> After(t)!CurrentFigure(st, Parts[p][n], i)]
          /\ PartValues(st, p, i)' = [n \in later |-> CurrentFigure(st, Parts[p][n], i)']
        BY DEF After!PartValues, PartValues
    <2> QED BY <2>1, <2>2, <2>3
<1>3. (\E part \in Range(Parts[p]) : After(t)!Current(st, part))
        <=> \E part \in Range(Parts[p]) : Current(st, part)'
    BY <1>1
<1>4. ASSUME NEW j
      PROVE  /\ j \in DOMAIN After(t)!Lines(st, p) <=> j \in DOMAIN Lines(st, p)'
             /\ j \in DOMAIN Lines(st, p)' =>
                   /\ Lines(st, p)'[j].status = After(t)!Lines(st, p)[j].status
                   /\ Lines(st, p)'[j].reconcilesAs = After(t)!Lines(st, p)[j].reconcilesAs
    <2> DEFINE coarse == CurrentFigure(st, p, j)'
               figures == PartValues(st, p, j)'
               status == LineStatus(j, coarse, Folded(TimeBasis(j), figures),
                                    DOMAIN figures, DOMAIN Parts[p])
               agrees == IF status = "MISMATCH"
                         THEN ReconcilesAs(TimeBasis(j), figures, coarse, Tolerance(j)) ELSE None
    <2>1. After(t)!CurrentFigure(st, p, j) = coarse /\ After(t)!PartValues(st, p, j) = figures
        BY <1>1, <1>2
    <2>2. /\ j \in DOMAIN After(t)!Lines(st, p) <=>
                /\ j \in Reconcilable(st)
                /\ \E part \in Range(Parts[p]) : After(t)!Current(st, part)
                /\ coarse # None \/ DOMAIN figures # {}
          /\ j \in DOMAIN After(t)!Lines(st, p) =>
                /\ After(t)!Lines(st, p)[j].status = status
                /\ After(t)!Lines(st, p)[j].reconcilesAs = agrees
        BY <2>1, LineSaysAfter
    <2>3. /\ j \in DOMAIN Lines(st, p)' <=>
                /\ j \in Reconcilable(st)
                /\ \E part \in Range(Parts[p]) : Current(st, part)'
                /\ coarse # None \/ DOMAIN figures # {}
          /\ j \in DOMAIN Lines(st, p)' =>
                /\ Lines(st, p)'[j].status = status
                /\ Lines(st, p)'[j].reconcilesAs = agrees
        BY LineSaysNext
    <2> HIDE DEF coarse, figures, status, agrees
    <2> QED BY <1>3, <2>2, <2>3
<1>5. LinesAlike(After(t)!Lines(st, p), Lines(st, p)')
    BY <1>4 DEF LinesAlike
<1>6. After(t)!TrackerComplete(st, p) <=> TrackerComplete(st, p)'
    <2>1. After(t)!Range(Parts[p]) = Range(Parts[p])
        BY DEF After!Range, Range
    <2> QED BY <1>1, <2>1 DEF After!TrackerComplete, TrackerComplete
<1> QED BY <1>5, <1>6

(* The returns a quarter is judged by: its own and those of its months.    *)
OwnAndParts(u) == {u} \cup {<<u[1], part>> : part \in Range(Parts[u[2]])}
Untouched(v) == Stands(v) \/ StillMissing(v)

(* A quarter on which the rules have just run is told what the months say. *)
LEMMA RunIsCurrent ==
    ASSUME setup' = setup, NEW t, NEW u, u = <<u[1], u[2]>>,
           \A v \in OwnAndParts(u) : AsAfter(t, v),
           latest'[u].findings = After(t)!Findings(u[1], u[2])
    PROVE  ToldNow(u)'
<1>1. \A q \in {u[2]} \cup Range(Parts[u[2]]) : AsAfter(t, <<u[1], q>>)
    BY DEF OwnAndParts
<1>2. /\ LinesAlike(After(t)!Lines(u[1], u[2]), Lines(u[1], u[2])')
      /\ After(t)!TrackerComplete(u[1], u[2]) <=> TrackerComplete(u[1], u[2])'
    BY <1>1, LinesCarry
<1>3. ToldOf(latest'[u].findings, After(t)!Lines(u[1], u[2]), After(t)!TrackerComplete(u[1], u[2]))
    BY RunTells
<1>4. ToldOf(latest'[u].findings, Lines(u[1], u[2])', After(t)!TrackerComplete(u[1], u[2]))
    BY <1>2, <1>3, ToldAlike
<1>5. ToldOf(latest'[u].findings, Lines(u[1], u[2])', TrackerComplete(u[1], u[2])')
    BY <1>2, <1>4 DEF ToldOf
<1> QED BY <1>5 DEF ToldNow

(* A line stays where no return it rests on is touched.                    *)
LEMMA LinesStay ==
    ASSUME setup' = setup, NEW st, NEW p,
           \A q \in {p} \cup Range(Parts[p]) : Untouched(<<st, q>>)
    PROVE  /\ LinesAlike(Lines(st, p), Lines(st, p)')
           /\ TrackerComplete(st, p) <=> TrackerComplete(st, p)'
<1>1. ASSUME NEW q \in {p} \cup Range(Parts[p])
      PROVE  /\ Current(st, q) <=> Current(st, q)'
             /\ \A i : CurrentFigure(st, q, i) = CurrentFigure(st, q, i)'
    <2>1. CASE Stands(<<st, q>>)
        BY <2>1, StandingFigure
    <2>2. CASE StillMissing(<<st, q>>)
        <3>1. ~Current(st, q) /\ ~Current(st, q)'
            BY <2>2 DEF StillMissing, CurrentReturns, Current, Filed
        <3> QED BY <3>1 DEF CurrentFigure
    <2> QED BY <1>1, <2>1, <2>2 DEF Untouched
<1>2. ASSUME NEW i
      PROVE  PartValues(st, p, i) = PartValues(st, p, i)'
    <2>1. \A n \in DOMAIN Parts[p] :
             CurrentFigure(st, Parts[p][n], i) = CurrentFigure(st, Parts[p][n], i)'
        BY <1>1 DEF Range
    <2> DEFINE given == {n \in DOMAIN Parts[p] : CurrentFigure(st, Parts[p][n], i) # None}
               later == {n \in DOMAIN Parts[p] : CurrentFigure(st, Parts[p][n], i)' # None}
    <2>2. given = later
        BY <2>1
    <2>3. /\ PartValues(st, p, i) = [n \in given |-> CurrentFigure(st, Parts[p][n], i)]
          /\ PartValues(st, p, i)' = [n \in later |-> CurrentFigure(st, Parts[p][n], i)']
        BY DEF PartValues
    <2> QED BY <2>1, <2>2, <2>3
<1>3. (\E part \in Range(Parts[p]) : Current(st, part))
        <=> \E part \in Range(Parts[p]) : Current(st, part)'
    BY <1>1
<1>4. ASSUME NEW j
      PROVE  /\ j \in DOMAIN Lines(st, p) <=> j \in DOMAIN Lines(st, p)'
             /\ j \in DOMAIN Lines(st, p)' =>
                   /\ Lines(st, p)'[j].status = Lines(st, p)[j].status
                   /\ Lines(st, p)'[j].reconcilesAs = Lines(st, p)[j].reconcilesAs
    <2> DEFINE coarse == CurrentFigure(st, p, j)'
               figures == PartValues(st, p, j)'
               status == LineStatus(j, coarse, Folded(TimeBasis(j), figures),
                                    DOMAIN figures, DOMAIN Parts[p])
               agrees == IF status = "MISMATCH"
                         THEN ReconcilesAs(TimeBasis(j), figures, coarse, Tolerance(j)) ELSE None
    <2>1. CurrentFigure(st, p, j) = coarse /\ PartValues(st, p, j) = figures
        BY <1>1, <1>2
    <2>2. /\ j \in DOMAIN Lines(st, p) <=>
                /\ j \in Reconcilable(st)
                /\ \E part \in Range(Parts[p]) : Current(st, part)
                /\ coarse # None \/ DOMAIN figures # {}
          /\ j \in DOMAIN Lines(st, p) =>
                /\ Lines(st, p)[j].status = status
                /\ Lines(st, p)[j].reconcilesAs = agrees
        BY <2>1, LineSays
    <2>3. /\ j \in DOMAIN Lines(st, p)' <=>
                /\ j \in Reconcilable(st)
                /\ \E part \in Range(Parts[p]) : Current(st, part)'
                /\ coarse # None \/ DOMAIN figures # {}
          /\ j \in DOMAIN Lines(st, p)' =>
                /\ Lines(st, p)'[j].status = status
                /\ Lines(st, p)'[j].reconcilesAs = agrees
        BY LineSaysNext
    <2> HIDE DEF coarse, figures, status, agrees
    <2> QED BY <1>3, <2>2, <2>3
<1>5. LinesAlike(Lines(st, p), Lines(st, p)')
    BY <1>4 DEF LinesAlike
<1> QED BY <1>1, <1>5 DEF TrackerComplete

(* What was told then stays as current as it was.                          *)
LEMMA WordStays ==
    ASSUME setup' = setup, NEW u, u = <<u[1], u[2]>>, \A v \in OwnAndParts(u) : Untouched(v),
           latest'[u].findings = latest[u].findings
    PROVE  ToldNow(u)' <=> ToldNow(u)
<1>1. \A q \in {u[2]} \cup Range(Parts[u[2]]) : Untouched(<<u[1], q>>)
    BY DEF OwnAndParts
<1>2. /\ LinesAlike(Lines(u[1], u[2]), Lines(u[1], u[2])')
      /\ TrackerComplete(u[1], u[2]) <=> TrackerComplete(u[1], u[2])'
    BY <1>1, LinesStay
<1>3. ToldOf(latest[u].findings, Lines(u[1], u[2])', TrackerComplete(u[1], u[2]))
        <=> ToldOf(latest[u].findings, Lines(u[1], u[2]), TrackerComplete(u[1], u[2]))
    BY <1>2, ToldAlike
<1>4. ToldOf(latest[u].findings, Lines(u[1], u[2])', TrackerComplete(u[1], u[2])')
        <=> ToldOf(latest[u].findings, Lines(u[1], u[2]), TrackerComplete(u[1], u[2]))
    BY <1>2, <1>3 DEF ToldOf
<1> QED BY <1>4 DEF ToldNow

(* What a run of the rules over S does to the return v of a table.         *)
LEMMA RunOn ==
    ASSUME NEW t, IsTable(t), NEW S, NEW v \in DOMAIN t
    PROVE  LET c == After(t)!Checked(S)
           IN  /\ c[v].rows = t[v].rows
               /\ v \notin S => c[v] = t[v]
               /\ v \in S => c[v].status # "REJECTED" /\ c[v].findings = After(t)!Findings(v[1], v[2])
BY DEF After!Checked, IsTable, IsReturn

(* A return is current that is in the table and not rejected.              *)
LEMMA CurrentIs ==
    ASSUME TypeOK, TypeOK', NEW v
    PROVE  /\ v \in CurrentReturns <=> v \in DOMAIN latest /\ latest[v].status # "REJECTED"
           /\ v \in CurrentReturns' <=> v \in DOMAIN latest' /\ latest'[v].status # "REJECTED"
           /\ v \in CurrentReturns' => v = <<v[1], v[2]>> /\ v[1] \in State /\ v[2] \in Period
<1>1. /\ v \in DOMAIN latest => v = <<v[1], v[2]>>
      /\ v \in DOMAIN latest' => v = <<v[1], v[2]>> /\ v[1] \in State /\ v[2] \in Period
    BY DEF TypeOK, IsTable
<1> QED BY <1>1 DEF CurrentReturns, Current, Filed

(* A filing tells the quarter it is for, and the one it lies in; it leaves *)
(* the others alone.                                                       *)
LEMMA FilingTells ==
    ASSUME TypeOK, TypeOK', NEW f \in setup.filings, NEW auto, File(f, auto),
           NEW u \in CurrentReturns'
    PROVE  \/ ToldNow(u)'
           \/ (\A v \in OwnAndParts(u) : Untouched(v)) /\ (ToldNow(u)' <=> ToldNow(u))
<1> DEFINE new == <<f.state, f.period>>
           l == Landed(f)
           c == After(l)!Checked({new})
           d == IF auto THEN [c EXCEPT ![new].status = "APPROVED"] ELSE c
           E == Enclosing(f.state, f.period)
<1>1. latest' = After(d)!Checked(E) /\ setup' = setup
    BY DEF File
<1>2. IsFiling(f) /\ target \in Seq(Range(target)) /\ IsTable(latest)
    BY AssessmentAssumption DEF TypeOK, IsSetup
<1>3. /\ IsTable(l) /\ DOMAIN l = DOMAIN latest \cup {new}
      /\ l[new].status = "VALIDATED"
      /\ \A v \in DOMAIN latest : v # new => l[v] = latest[v]
    BY <1>2, LandedTable DEF Landed
<1> HIDE DEF l
<1>4. /\ IsTable(c) /\ DOMAIN c = DOMAIN l
      /\ c[new].status # "REJECTED" /\ c[new].rows = l[new].rows
      /\ c[new].findings = After(l)!Findings(new[1], new[2])
      /\ \A v \in DOMAIN l : v # new => c[v] = l[v]
    <2>1. IsTable(c) /\ DOMAIN c = DOMAIN l
        BY <1>2, <1>3, CheckedTable DEF After!Checked
    <2>2. /\ c[new].status # "REJECTED" /\ c[new].rows = l[new].rows
          /\ c[new].findings = After(l)!Findings(new[1], new[2])
        BY <1>3, RunOn
    <2>3. \A v \in DOMAIN l : v # new => c[v] = l[v]
        BY <1>3, RunOn
    <2> QED BY <2>1, <2>2, <2>3
<1> HIDE DEF c
<1>5. /\ IsTable(d) /\ DOMAIN d = DOMAIN l
      /\ d[new].status # "REJECTED" /\ d[new].rows = l[new].rows
      /\ d[new].findings = After(l)!Findings(new[1], new[2])
      /\ \A v \in DOMAIN l : v # new => d[v] = l[v]
    <2>1. IsTable(d)
        BY <1>3, <1>4, StatusTable DEF Status
    <2>2. IsReturn(c[new]) /\ new \in DOMAIN c
        BY <1>3, <1>4 DEF IsTable
    <2> QED BY <1>4, <2>1, <2>2 DEF IsReturn
<1> HIDE DEF d
<1>6. new \notin E /\ \A v \in E : v \in DOMAIN latest /\ latest[v].status # "REJECTED"
    <2>1. \A v \in E : v[1] = f.state /\ f.period \in Range(Parts[v[2]]) /\ v[2] \in Period
                       /\ v = <<v[1], v[2]>> /\ Current(v[1], v[2])
        BY DEF Enclosing
    <2>2. f.period \in Period => f.period \notin Range(Parts[f.period])
        BY AssessmentAssumption
    <2>3. new[2] = f.period
        OBVIOUS
    <2> HIDE DEF new, E
    <2> QED BY <2>1, <2>2, <2>3 DEF Current, Filed
<1>7. /\ DOMAIN latest' = DOMAIN d
      /\ \A v \in DOMAIN d : /\ latest'[v].rows = d[v].rows
                             /\ v \notin E => latest'[v] = d[v]
                             /\ v \in E => /\ latest'[v].status # "REJECTED"
                                           /\ latest'[v].findings = After(d)!Findings(v[1], v[2])
    <2>1. DOMAIN latest' = DOMAIN d
        BY <1>1 DEF After!Checked
    <2> HIDE DEF E
    <2> QED BY <1>1, <1>5, <2>1, RunOn
<1>8. \A v : v \in CurrentReturns' <=> v \in DOMAIN latest' /\ latest'[v].status # "REJECTED"
    BY CurrentIs
<1> HIDE DEF E, new
<1>9. \A v : AsAfter(d, v)
    BY <1>3, <1>5, <1>6, <1>7, <1>8 DEF AsAfter
<1>10. \A v : AsAfter(l, v)
    BY <1>3, <1>5, <1>6, <1>7, <1>8 DEF AsAfter
<1>11. u = <<u[1], u[2]>> /\ u[1] \in State /\ u[2] \in Period
    BY CurrentIs
<1>12. CASE u \in E
    <2>1. latest'[u].findings = After(d)!Findings(u[1], u[2])
        BY <1>3, <1>5, <1>6, <1>7, <1>12
    <2> QED BY <1>1, <1>9, <1>11, <2>1, RunIsCurrent
<1>13. CASE u = new
    <2>1. latest'[u].findings = After(l)!Findings(u[1], u[2])
        BY <1>3, <1>5, <1>6, <1>7, <1>13
    <2> QED BY <1>1, <1>10, <1>11, <2>1, RunIsCurrent
<1>14. CASE u # new /\ u \notin E
    <2>1. u \in DOMAIN latest /\ latest'[u] = latest[u] /\ u \in CurrentReturns
        BY <1>3, <1>5, <1>7, <1>8, <1>14, CurrentIs
    <2>2. ASSUME NEW v \in OwnAndParts(u) PROVE v # new
        <3>1. CASE v = u
            BY <1>14, <3>1
        <3>2. ASSUME NEW part \in Range(Parts[u[2]]), v = <<u[1], part>>, v = new
              PROVE  FALSE
            <4>1. u[1] = f.state /\ part = f.period
                BY <3>2 DEF new
            <4>2. Current(u[1], u[2])
                BY <2>1 DEF CurrentReturns
            <4> QED BY <1>11, <1>14, <4>1, <4>2 DEF E, Enclosing
        <3> QED BY <2>2, <3>1, <3>2 DEF OwnAndParts
    <2>3. ASSUME NEW v \in OwnAndParts(u) PROVE Untouched(v)
        <3>1. v # new
            BY <2>2
        <3>2. /\ v \in CurrentReturns <=> v \in CurrentReturns'
              /\ v \in CurrentReturns => latest'[v].rows = latest[v].rows
            BY <1>3, <1>5, <1>6, <1>7, <1>8, <3>1, CurrentIs
        <3> QED BY <3>2 DEF Untouched, Stands, StillMissing
    <2>4. ToldNow(u)' <=> ToldNow(u)
        BY <1>1, <1>11, <2>1, <2>3, WordStays
    <2> QED BY <2>3, <2>4
<1> QED BY <1>12, <1>13, <1>14

(* So does a run over a period.                                            *)
LEMMA RevalidationTells ==
    ASSUME TypeOK, TypeOK', NEW q, RevalidatePeriod(q), NEW u \in CurrentReturns'
    PROVE  \/ ToldNow(u)'
           \/ (\A v \in OwnAndParts(u) : Untouched(v)) /\ (ToldNow(u)' <=> ToldNow(u))
<1> DEFINE S == {w \in DOMAIN latest : w[2] = q /\ Current(w[1], q)}
           t == After(latest)!Checked(S)
<1>1. latest' = AfterVerdicts(t)!WithVerdicts(q) /\ setup' = setup
    BY DEF RevalidatePeriod, Keep, Changing
<1>2. IsTable(t) /\ DOMAIN t = DOMAIN latest /\ IsTable(latest)
    BY CheckedTable DEF After!Checked, TypeOK
<1>3. \A w \in S : w \in CurrentReturns
    BY DEF CurrentReturns
<1> HIDE DEF S
<1>4. \A w \in DOMAIN latest :
         /\ t[w].rows = latest[w].rows
         /\ w \notin S => t[w] = latest[w]
         /\ w \in S => t[w].status # "REJECTED" /\ t[w].findings = After(latest)!Findings(w[1], w[2])
    BY <1>2, RunOn
<1> HIDE DEF t
<1>5. /\ DOMAIN latest' = DOMAIN latest
      /\ \A w \in DOMAIN latest : /\ latest'[w].status = t[w].status /\ latest'[w].rows = t[w].rows
                                  /\ latest'[w].findings = t[w].findings
    <2>1. DOMAIN latest' = DOMAIN t
        BY <1>1 DEF AfterVerdicts!WithVerdicts
    <2>2. \A w \in DOMAIN t :
             latest'[w] = IF w[2] = q /\ AfterVerdicts(t)!Current(w[1], q)
                          THEN [t[w] EXCEPT
                                  !.verdict = AfterVerdicts(t)!Verdict(w[1], q),
                                  !.material = AfterVerdicts(t)!Cardinality(
                                                  AfterVerdicts(t)!MaterialFindings(w[1], q))]
                          ELSE t[w]
        BY <1>1 DEF AfterVerdicts!WithVerdicts
    <2>3. ASSUME NEW w \in DOMAIN t
          PROVE  /\ latest'[w].status = t[w].status /\ latest'[w].rows = t[w].rows
                 /\ latest'[w].findings = t[w].findings
        <3>1. DOMAIN t[w] = {"status", "rows", "unmapped", "label", "findings",
                             "verdict", "material"}
            BY <1>2 DEF IsTable, IsReturn
        <3>2. latest'[w] = t[w] \/ \E a, b : latest'[w] = [t[w] EXCEPT !.verdict = a, !.material = b]
            BY <2>2
        <3> QED BY <3>1, <3>2
    <2> QED BY <1>2, <2>1, <2>3
<1>6. \A v : /\ v \in CurrentReturns <=> v \in CurrentReturns'
             /\ v \in CurrentReturns => latest'[v].rows = latest[v].rows
    BY <1>3, <1>4, <1>5, CurrentIs
<1>7. \A v : AsAfter(latest, v)
    BY <1>6, CurrentIs DEF AsAfter
<1>8. \A v : Untouched(v)
    BY <1>6 DEF Untouched, Stands, StillMissing
<1>9. u = <<u[1], u[2]>> /\ u \in DOMAIN latest
    BY <1>5, CurrentIs
<1>10. CASE u \in S
    <2>1. latest'[u].findings = After(latest)!Findings(u[1], u[2])
        BY <1>4, <1>5, <1>9, <1>10
    <2> QED BY <1>1, <1>7, <1>9, <2>1, RunIsCurrent
<1>11. CASE u \notin S
    <2>1. latest'[u].findings = latest[u].findings
        BY <1>4, <1>5, <1>9, <1>11
    <2>2. ToldNow(u)' <=> ToldNow(u)
        BY <1>1, <1>8, <1>9, <2>1, WordStays
    <2> QED BY <1>8, <2>2
<1> QED BY <1>10, <1>11

(* No decision and no restatement touches what was told.                   *)
LEMMA ReviewKeepsFindings ==
    ASSUME TypeOK, NEW u \in DOMAIN latest,
           Approve(u) \/ Reject(u) \/ \E i \in Indicator, v \in setup.proposals : Restate(u, i, v)
    PROVE  /\ DOMAIN latest' = DOMAIN latest
           /\ \A w \in DOMAIN latest : latest'[w].findings = latest[w].findings
           /\ setup' = setup /\ filings' = filings
<1>1. IsReturn(latest[u])
    BY DEF TypeOK, IsTable
<1>2. ASSUME NEW s, latest' = [latest EXCEPT ![u].status = s]
      PROVE  /\ DOMAIN latest' = DOMAIN latest
             /\ \A w \in DOMAIN latest : latest'[w].findings = latest[w].findings
    BY <1>1, <1>2 DEF IsReturn
<1>3. ASSUME NEW i, NEW v, NEW label,
             latest' = [latest EXCEPT ![u].rows[i][1].value = v, ![u].label[i] = label]
      PROVE  /\ DOMAIN latest' = DOMAIN latest
             /\ \A w \in DOMAIN latest : latest'[w].findings = latest[w].findings
    BY <1>1, <1>3 DEF IsReturn
<1>4. CASE Approve(u)
    BY <1>2, <1>4 DEF Approve, Keep, Changing
<1>5. CASE Reject(u)
    BY <1>2, <1>5 DEF Reject, Keep, Changing
<1>6. ASSUME NEW i, NEW v, Restate(u, i, v)
      PROVE  /\ DOMAIN latest' = DOMAIN latest
             /\ \A w \in DOMAIN latest : latest'[w].findings = latest[w].findings
             /\ setup' = setup /\ filings' = filings
    <2>1. PICK label : latest' = [latest EXCEPT ![u].rows[i][1].value = v, ![u].label[i] = label]
        BY <1>6 DEF Restate, Keep
    <2> QED BY <1>3, <1>6, <2>1 DEF Restate, Changing
<1> QED BY <1>4, <1>5, <1>6

(* Any other step leaves it as current as it was, or is not a filing.      *)
LEMMA StepTells ==
    TypeOK /\ TypeOK' /\ [Next]_vars =>
        \A u \in {v \in CurrentReturns' : Parts[v[2]] # <<>>} :
          LET undisturbed(v) == Stands(v) \/ StillMissing(v)
              together == {u} \cup {<<u[1], part>> : part \in Range(Parts[u[2]])}
          IN  ToldNow(u)' \/ IF \A v \in together : undisturbed(v) THEN ~ToldNow(u)
                             ELSE filings' = filings
<1> SUFFICES ASSUME TypeOK, TypeOK', [Next]_vars, NEW u \in CurrentReturns'
             PROVE  ToldNow(u)' \/ IF \A v \in OwnAndParts(u) : Untouched(v) THEN ~ToldNow(u)
                                   ELSE filings' = filings
    BY DEF OwnAndParts, Untouched
<1> DEFINE Goal == ToldNow(u)' \/ IF \A v \in OwnAndParts(u) : Untouched(v) THEN ~ToldNow(u)
                                  ELSE filings' = filings
<1>1. ASSUME setup' = setup, filings' = filings, DOMAIN latest' = DOMAIN latest,
             \A w \in DOMAIN latest : latest'[w].findings = latest[w].findings
      PROVE  Goal
    <2>1. u = <<u[1], u[2]>> /\ latest'[u].findings = latest[u].findings
        BY <1>1, CurrentIs
    <2>2. (\A v \in OwnAndParts(u) : Untouched(v)) => (ToldNow(u)' <=> ToldNow(u))
        BY <1>1, <2>1, WordStays
    <2> QED BY <1>1, <2>2
<1>2. ASSUME NEW f \in setup.filings, NEW auto, File(f, auto) PROVE Goal
    BY <1>2, FilingTells
<1>3. ASSUME NEW q, RevalidatePeriod(q) PROVE Goal
    BY <1>3, RevalidationTells
<1>4. ASSUME NEW w \in DOMAIN latest,
             Approve(w) \/ Reject(w) \/ \E i \in Indicator, v \in setup.proposals : Restate(w, i, v)
      PROVE  Goal
    BY <1>1, <1>4, ReviewKeepsFindings
<1>5. CASE \/ UNCHANGED vars
           \/ \E row \in setup.targets : UpsertTarget(row)
           \/ \E m \in setup.moves : UpdateState(m.state, m.cohort, m.active)
           \/ \E r \in setup.retunes : Retune(r)
    <2>1. UNCHANGED <<setup, latest, filings>>
        BY <1>5 DEF vars, store, UpsertTarget, UpdateState, Retune, Changing
    <2> QED BY <1>1, <2>1
<1>6. CASE \E f \in setup.filings, auto \in setup.autos : File(f, auto)
    BY <1>2, <1>6
<1>7. CASE \E q \in Period : RevalidatePeriod(q)
    BY <1>3, <1>7
<1>8. CASE \E w \in DOMAIN latest :
             Approve(w) \/ Reject(w) \/ \E i \in Indicator, v \in setup.proposals : Restate(w, i, v)
    BY <1>4, <1>8
<1> QED BY <1>5, <1>6, <1>7, <1>8 DEF Next

(* What a current quarter is told about its months is what they say now,   *)
(* whichever of them comes last, until one of them is corrected or         *)
(* rejected.                                                               *)
THEOREM ReconciliationIsCurrentAlways == Spec => ReconciliationIsCurrent
<1>1. TypeOK /\ [Next]_vars => TypeOK'
    BY TypeStep
<1> QED BY <1>1, AssessmentTypeCorrect, StepTells, PTL DEF Spec, ReconciliationIsCurrent

-----------------------------------------------------------------------------
(* Views.                                                                  *)

(* The states of a board, by their place in the order of names.            *)
LEMMA ActiveIs ==
    ASSUME NEW k
    PROVE  LET shown == {n \in DOMAIN StateOrder :
                           /\ roster[StateOrder[n]].active /\ roster[StateOrder[n]].reporting
                           /\ k \in {None, roster[StateOrder[n]].cohort}}
           IN  ActiveStates(k) = [n \in shown |-> StateOrder[n]]
BY DEF ActiveStates, RestrictValues, Restrict

(* The members of a cohort are the same however they are picked.           *)
LEMMA MembersAre ==
    ASSUME NEW k \in Cohort
    PROVE  /\ Members(ActiveStates(None), k) = ActiveStates(k)
           /\ Members(ActiveStates(k), k) = ActiveStates(k)
<1>1. k # None
    BY AssessmentAssumption
<1> QED BY <1>1, ActiveIs DEF Members, RestrictValues, Restrict

(* What the page says of a cohort.                                         *)
LEMMA CohortLine ==
    ASSUME NEW sts, NEW p, NEW i, NEW k \in Cohort, DOMAIN Members(sts, k) # {}
    PROVE  LET own == Members(sts, k)
           IN  CohortLayer(sts, p, i)[k].line = Together(own, p, i, PooledTarget(own, p, i))
BY DEF CohortLayer, CohortRow, GroupRow

(* A series has no point but of the periods it is asked for.               *)
LEMMA SeriesPoint ==
    ASSUME NEW scope, NEW ref, NEW p, NEW i
    PROVE  SeriesOf(scope, ref, p, i) \subseteq {TrendPoint(scope, ref, p, i)}
<1> DEFINE sts == ScopeStates(scope, ref)
           periods == RecentPeriods(sts, {p}, 1)
<1>1. \A n \in DOMAIN periods : periods[n] = p
    BY DEF RecentPeriods, RestrictValues, Restrict
<1>2. Trend(scope, ref, i, {p}, 1).points
        = [n \in DOMAIN periods |-> TrendPoint(scope, ref, periods[n], i)]
    BY DEF Trend, Series
<1> HIDE DEF periods
<1> QED BY <1>1, <1>2 DEF SeriesOf, Range

(* Only a state that reported adds to a total.                             *)
LEMMA ContributorReported ==
    ASSUME NEW p, NEW i, NEW n \in DOMAIN ContributionAnalysis(p, i).states
    PROVE  LET st == ContributionAnalysis(p, i).states[n]
           IN  st \in Range(ActiveStates(None)) /\ HasData(Reading(st, p, i))
<1> DEFINE sts == ActiveStates(None)
           share == [st \in Range(sts) |->
                       Share(ContributionBasis(Reading(st, p, i), Def(i).method),
                             BasisTotal(sts, p, i))]
           st == sts[n]
<1>1. /\ n \in DOMAIN sts /\ share[sts[n]] # None
      /\ ContributionAnalysis(p, i).states[n] = st
    BY DEF ContributionAnalysis, RestrictValues, Restrict
<1>2. st \in Range(sts)
    BY <1>1 DEF Range
<1>3. ContributionBasis(Reading(st, p, i), Def(i).method) # None
    BY <1>1, <1>2 DEF Share
<1>4. HasData(Reading(st, p, i))
    BY <1>3 DEF ContributionBasis, HasData
<1> QED BY <1>1, <1>2, <1>4

(* A heatmap over all indicators has a cell for each of them.              *)
LEMMA HeatmapCell ==
    ASSUME NEW p, NEW i \in Indicator, NEW st \in Range(ActiveStates(None)), NEW metric
    PROVE  LET v == Reading(st, p, i).value
           IN  Heatmap(p, metric, None, Len(IndicatorOrder))[st, i]
                 = IF metric = "value" THEN v ELSE Achieved(v, TargetFor(st, p, i), i)
<1>1. SubSeq(IndicatorOrder, 1, Len(IndicatorOrder)) = IndicatorOrder
    BY AssessmentAssumption
<1>2. i \in Range(SubSeq(IndicatorOrder, 1, Len(IndicatorOrder)))
    BY <1>1 DEF Indicator
<1> QED BY <1>2 DEF Heatmap

-----------------------------------------------------------------------------
(* National figures.                                                       *)

(* Columns, entry by entry.                                                *)
LEMMA ColumnsAre ==
    ASSUME NEW s
    PROVE  /\ Values(s) = [n \in {m \in DOMAIN s : s[m].value # None} |-> s[n].value]
           /\ Numerators(s) = [n \in {m \in DOMAIN s : s[m].numerator # None} |-> s[n].numerator]
           /\ Denominators(s) =
                [n \in {m \in DOMAIN s : s[m].denominator # None} |-> s[n].denominator]
<1>1. Values(s) = [n \in {m \in DOMAIN s : s[m].value # None} |-> s[n].value]
    BY DEF Values, Column, Present, RestrictValues, Restrict
<1>2. Numerators(s) = [n \in {m \in DOMAIN s : s[m].numerator # None} |-> s[n].numerator]
    BY DEF Numerators, Column, Present, RestrictValues, Restrict
<1>3. Denominators(s) = [n \in {m \in DOMAIN s : s[m].denominator # None} |-> s[n].denominator]
    BY DEF Denominators, Column, Present, RestrictValues, Restrict
<1> QED BY <1>1, <1>2, <1>3

(* A number or none, for each of the parts of a reading.                   *)
OfNumbers(r) ==
    /\ r.value \in Int \cup {None} /\ r.numerator \in Int \cup {None}
    /\ r.denominator \in Nat \cup {None}

(* A list of readings, or of rows, with a number or none for each part.    *)
IsList(s) ==
    /\ IsFiniteSet(DOMAIN s) /\ DOMAIN s \subseteq Int
    /\ \A n \in DOMAIN s : OfNumbers(s[n])

(* Of some whole numbers there are a largest and a smallest.               *)
LEMMA ExtremesExist ==
    ASSUME NEW S, IsFiniteSet(S), S # {}, S \subseteq Int
    PROVE  /\ Max(S) \in S /\ \A x \in S : Max(S) >= x
           /\ Min(S) \in S /\ \A x \in S : Min(S) <= x
<1> DEFINE up == [x \in S |-> x]
           down == [x \in S |-> -x]
<1>1. \E x \in S : \A y \in S : up[x] >= up[y]
    <2>1. \A x \in S : up[x] \in Int
        OBVIOUS
    <2> HIDE DEF up
    <2> QED BY <2>1, LargestExists
<1>2. \E x \in S : \A y \in S : down[x] >= down[y]
    <2>1. \A x \in S : down[x] \in Int
        OBVIOUS
    <2> HIDE DEF down
    <2> QED BY <2>1, LargestExists
<1>3. \E x \in S : \A y \in S : x >= y
    BY <1>1
<1>4. \E x \in S : \A y \in S : x <= y
    BY <1>2
<1> QED BY <1>3, <1>4 DEF Max, Min

(* Division rounds down.                                                   *)
LEMMA QuotientBetween ==
    ASSUME NEW a \in Int, NEW b \in Nat, b # 0, NEW low \in Int, NEW high \in Int
    PROVE  /\ a \div b \in Int
           /\ low * b <= a => low <= a \div b
           /\ a < (high + 1) * b => a \div b <= high
           /\ a <= high * b => a \div b <= high
           /\ (a \div b) * b <= a /\ a < (a \div b + 1) * b
OBVIOUS

(* What numbers come to under a method.  But for the two that count, it    *)
(* lies among them.                                                        *)
LEMMA MethodLiesAmong ==
    ASSUME NEW method \in Method, NEW vals, IsFiniteSet(DOMAIN vals), DOMAIN vals \subseteq Int,
           \A n \in DOMAIN vals : vals[n] \in Int, ByMethod(method, vals) # None
    PROVE  /\ ByMethod(method, vals) \in Int
           /\ method # "SUM" =>
                \E a, b \in DOMAIN vals :
                   /\ vals[a] <= ByMethod(method, vals) /\ ByMethod(method, vals) <= vals[b]
                   /\ method = "AVERAGE_NONZERO" => vals[a] # 0 /\ vals[b] # 0
<1> DEFINE used == IF method = "AVERAGE_NONZERO" THEN NonZero(vals) ELSE vals
           D == DOMAIN used
<1>1. /\ D \subseteq DOMAIN vals /\ \A n \in D : used[n] = vals[n]
      /\ method = "AVERAGE_NONZERO" => \A n \in D : vals[n] # 0
    BY DEF NonZero, RestrictValues, Restrict
<1>2. ByMethod(method, vals) =
         IF D = {} THEN None
         ELSE CASE method = "SUM" -> SumFunction(used)
                [] method \in {"MAX", "COUNT_YES"} -> Max(Range(used))
                [] method = "MIN" -> Min(Range(used))
                [] method = "LATEST" -> used[Max(D)]
                [] OTHER -> Mean(used)
    BY DEF ByMethod, Summary
<1> HIDE DEF used
<1>3. IsFiniteSet(D) /\ D # {} /\ D \subseteq Int
    BY <1>1, <1>2, FS_Subset
<1>4. \A n \in D : used[n] \in Int
    BY <1>1
<1>5. SumFunction(used) \in Int /\ SumFunction(used) = SumFunctionOnSet(used, D)
    BY <1>3, <1>4, SumType DEF SumFunction
<1>6. PICK a \in D : \A n \in D : used[a] <= used[n]
    <2> DEFINE down == [n \in D |-> -used[n]]
    <2>1. \A n \in D : down[n] \in Int
        BY <1>4
    <2>2. \E a \in D : \A n \in D : down[a] >= down[n]
        <3> HIDE DEF down, D
        <3> QED BY <1>3, <2>1, LargestExists
    <2> QED BY <1>4, <2>2
<1>7. PICK b \in D : \A n \in D : used[b] >= used[n]
    BY <1>3, <1>4, LargestExists
<1>8. Mean(used) \in Int /\ used[a] <= Mean(used) /\ Mean(used) <= used[b]
    <2> DEFINE c == Cardinality(D)
               s == SumFunctionOnSet(used, D)
    <2>1. c \in Nat /\ c # 0
        BY <1>3, FS_CardinalityType, FS_EmptySet
    <2>2. used[a] * c <= s /\ s <= used[b] * c
        <3>1. \A n \in D : used[n] \in Int /\ used[a] <= used[n] /\ used[n] <= used[b]
            BY <1>4, <1>6, <1>7
        <3>2. used[a] \in Int /\ used[b] \in Int
            BY <1>4
        <3> HIDE DEF D
        <3> QED BY <1>3, <3>1, <3>2, SumBetween
    <2>3. Mean(used) = s \div c
        BY <1>5 DEF Mean
    <2>4. s \in Int /\ used[a] \in Int /\ used[b] \in Int
        BY <1>4, <1>5
    <2> HIDE DEF c, s, D
    <2> QED BY <2>1, <2>2, <2>3, <2>4, QuotientBetween
<1>9. Max(Range(used)) \in Int /\ used[a] <= Max(Range(used)) /\ Max(Range(used)) <= used[b]
    <2>1. IsFiniteSet(Range(used)) /\ Range(used) # {} /\ Range(used) \subseteq Int
        BY <1>3, <1>4, RangeFinite DEF Range
    <2>2. PICK n \in D : Max(Range(used)) = used[n]
        BY <2>1, ExtremesExist DEF Range
    <2> QED BY <1>4, <1>6, <1>7, <2>2
<1>10. Min(Range(used)) \in Int /\ used[a] <= Min(Range(used)) /\ Min(Range(used)) <= used[b]
    <2>1. IsFiniteSet(Range(used)) /\ Range(used) # {} /\ Range(used) \subseteq Int
        BY <1>3, <1>4, RangeFinite DEF Range
    <2>2. PICK n \in D : Min(Range(used)) = used[n]
        BY <2>1, ExtremesExist DEF Range
    <2> QED BY <1>4, <1>6, <1>7, <2>2
<1>11. used[Max(D)] \in Int /\ used[a] <= used[Max(D)] /\ used[Max(D)] <= used[b]
    BY <1>3, <1>4, <1>6, <1>7, ExtremesExist
<1>12. /\ ByMethod(method, vals) \in Int
       /\ method # "SUM" => used[a] <= ByMethod(method, vals) /\ ByMethod(method, vals) <= used[b]
    BY <1>2, <1>3, <1>5, <1>8, <1>9, <1>10, <1>11 DEF Method
<1> QED BY <1>1, <1>12

(* So what numbers are pooled to is of numbers, ...                        *)
LEMMA PooledIsOfNumbers ==
    ASSUME NEW method \in Method, NEW s, IsList(s)
    PROVE  OfNumbers(Pooled(s, method))
<1> DEFINE v == Values(s)
           a == Numerators(s)
           b == Denominators(s)
<1>0. /\ DOMAIN v \subseteq DOMAIN s /\ \A n \in DOMAIN v : v[n] = s[n].value /\ v[n] # None
      /\ DOMAIN a \subseteq DOMAIN s /\ \A n \in DOMAIN a : a[n] = s[n].numerator /\ a[n] # None
      /\ DOMAIN b \subseteq DOMAIN s /\ \A n \in DOMAIN b : b[n] = s[n].denominator /\ b[n] # None
    <2>1. /\ v = [n \in {m \in DOMAIN s : s[m].value # None} |-> s[n].value]
          /\ a = [n \in {m \in DOMAIN s : s[m].numerator # None} |-> s[n].numerator]
          /\ b = [n \in {m \in DOMAIN s : s[m].denominator # None} |-> s[n].denominator]
        BY ColumnsAre
    <2> HIDE DEF v, a, b
    <2> QED BY <2>1
<1> HIDE DEF v, a, b
<1>1. IsFiniteSet(DOMAIN v) /\ IsFiniteSet(DOMAIN a) /\ IsFiniteSet(DOMAIN b)
    BY <1>0, FS_Subset DEF IsList
<1>2. ByMethod(method, v) \in Int \cup {None}
    <2>1. DOMAIN v \subseteq Int /\ \A n \in DOMAIN v : v[n] \in Int
        BY <1>0 DEF IsList, OfNumbers
    <2> QED BY <1>1, <2>1, MethodLiesAmong
<1>3. SumOrNone(a) \in Int \cup {None}
    <2>1. \A n \in DOMAIN a : a[n] \in Int
        BY <1>0 DEF IsList, OfNumbers
    <2> QED BY <1>1, <2>1, SumType DEF SumOrNone, SumFunction
<1>4. SumOrNone(b) \in Nat \cup {None}
    <2>1. \A n \in DOMAIN b : b[n] \in Nat
        BY <1>0 DEF IsList, OfNumbers
    <2> QED BY <1>1, <2>1, SumAtLeast DEF SumOrNone, SumFunction
<1>5. ASSUME NEW num \in Int, NEW den \in Nat, den # 0
      PROVE  (100 * num) \div den \in Int
    BY <1>5, QuotientBetween
<1> QED BY <1>2, <1>3, <1>4, <1>5 DEF Pooled, PooledOf, OfNumbers, v, a, b

(* ... as is what a column of rows collapses to, ...                       *)
LEMMA CollapseIsOfNumbers ==
    ASSUME NEW method \in Method, NEW rows, IsColumn(rows)
    PROVE  OfNumbers(Collapse(rows, method))
<1> DEFINE pool == IF DOMAIN TotalRows(rows) = {} THEN rows ELSE TotalRows(rows)
           single == pool[Max(DOMAIN pool)]
<1>1. PICK n \in Nat : DOMAIN rows = 1..n
    BY DEF IsColumn
<1>2. \A m \in DOMAIN rows : OfNumbers(rows[m]) /\ Effective(rows[m]) \in Int \cup {None}
    <2>1. \A m \in DOMAIN rows : rows[m] \in Range(rows)
        BY DEF Range
    <2> QED BY <2>1, EffectiveIsNumber DEF IsColumn, OfNumbers
<1>3. DOMAIN pool \subseteq DOMAIN rows /\ \A m \in DOMAIN pool : pool[m] = rows[m]
    BY DEF TotalRows, RestrictValues, Restrict
<1>4. Collapse(rows, method) =
         CASE DOMAIN pool = {} -> Blank
           [] Cardinality(DOMAIN pool) = 1 ->
                 [value |-> Effective(single), numerator |-> single.numerator,
                  denominator |-> single.denominator]
           [] OTHER -> Pooled(pool, method)
    BY DEF Collapse, CollapsePool
<1> HIDE DEF pool
<1>5. IsFiniteSet(DOMAIN pool) /\ DOMAIN pool \subseteq Int
    BY <1>1, <1>3, FS_Interval, FS_Subset
<1>6. OfNumbers(Pooled(pool, method))
    BY <1>2, <1>3, <1>5, PooledIsOfNumbers DEF IsList
<1>7. DOMAIN pool # {} => OfNumbers(single) /\ Effective(single) \in Int \cup {None}
    BY <1>2, <1>3, <1>5, ExtremesExist
<1> HIDE DEF single
<1>8. OfNumbers(Blank)
    BY DEF OfNumbers, Blank
<1>9. DOMAIN pool # {} =>
         OfNumbers([value |-> Effective(single), numerator |-> single.numerator,
                    denominator |-> single.denominator])
    BY <1>7 DEF OfNumbers
<1>10. CASE DOMAIN pool = {}
    <2>1. Cardinality(DOMAIN pool) = 0
        BY <1>10, FS_EmptySet
    <2> QED BY <1>4, <1>8, <1>10, <2>1
<1>11. CASE DOMAIN pool # {} /\ Cardinality(DOMAIN pool) = 1
    BY <1>4, <1>9, <1>11
<1>12. CASE DOMAIN pool # {} /\ Cardinality(DOMAIN pool) # 1
    BY <1>4, <1>6, <1>12
<1> QED BY <1>10, <1>11, <1>12

(* ... and what a state says.                                              *)
LEMMA ReadingIsOfNumbers ==
    ASSUME TypeOK, NEW st \in State, NEW p, NEW i \in Indicator
    PROVE  OfNumbers(Reading(st, p, i)) /\ Def(i).method \in Method
<1>1. Def(i).method \in Method
    BY AssessmentAssumption DEF TypeOK, IsSetup, Def
<1>2. Analysable(st, p) => IsColumn(RowsOf(st, p, i))
    BY DEF Analysable, Filed, RowsOf, TypeOK, IsTable, IsReturn
<1>3. Analysable(st, p) => OfNumbers(Collapse(RowsOf(st, p, i), Def(i).method))
    BY <1>1, <1>2, CollapseIsOfNumbers
<1>4. OfNumbers(Blank)
    BY DEF Blank, OfNumbers
<1> QED BY <1>1, <1>3, <1>4 DEF Reading

(* What one figure comes to by itself is the figure, but for the methods   *)
(* that weigh, count or leave out.                                         *)
LEMMA OneStands ==
    ASSUME NEW r, OfNumbers(r), NEW method \in Unaltering
    PROVE  AggregateNational(<<r>>, method).value = r.value
<1> DEFINE pop == Populated(<<r>>)
           vals == Values(pop)
<1>1. /\ DOMAIN pop = {n \in {1} : HasData(r)} /\ \A n \in DOMAIN pop : pop[n] = r
    BY DEF Populated, RestrictValues, Restrict
<1>2. DOMAIN pop = {} => AggregateNational(<<r>>, method).value = None
    BY DEF AggregateNational, Blank
<1>3. DOMAIN pop # {} => AggregateNational(<<r>>, method).value = ByMethod(method, vals)
    BY DEF AggregateNational, Pooled, PooledOf, Unaltering
<1> HIDE DEF pop
<1>4. /\ DOMAIN vals = {n \in DOMAIN pop : r.value # None}
      /\ \A n \in DOMAIN vals : vals[n] = r.value
    <2>1. vals = [n \in {m \in DOMAIN pop : pop[m].value # None} |-> pop[n].value]
        BY ColumnsAre
    <2> HIDE DEF vals
    <2> QED BY <1>1, <2>1
<1> HIDE DEF vals
<1>5. CASE r.value = None
    <2>1. DOMAIN vals = {}
        BY <1>4, <1>5
    <2>2. ByMethod(method, vals) = None
        BY <2>1 DEF ByMethod, Summary, Unaltering
    <2> QED BY <1>2, <1>3, <1>5, <2>2
<1>6. CASE r.value # None
    <2>1. r.value \in Int
        BY <1>6 DEF OfNumbers
    <2>2. DOMAIN vals = {1} /\ vals[1] = r.value /\ DOMAIN pop # {}
        BY <1>1, <1>4, <1>6 DEF HasData
    <2>3. IsFiniteSet({1}) /\ Cardinality({1}) = 1
        BY FS_Singleton
    <2>4. SumFunction(vals) = r.value
        <3>1. SumFunction(vals) = SumFunctionOnSet(vals, {1})
            BY <2>2 DEF SumFunction
        <3>2. SumFunctionOnSet(vals, {1}) \in Int
            BY <2>1, <2>2, <2>3, SumType
        <3>3. /\ r.value * 1 <= SumFunctionOnSet(vals, {1})
              /\ SumFunctionOnSet(vals, {1}) <= r.value * 1
            BY <2>1, <2>2, <2>3, SumBetween
        <3> QED BY <2>1, <3>1, <3>2, <3>3
    <2>5. /\ Max(Range(vals)) = r.value /\ Min(Range(vals)) = r.value
          /\ vals[Max(DOMAIN vals)] = r.value
        <3>1. \A n \in Int : Max({n}) = n /\ Min({n}) = n
            BY DEF Max, Min
        <3>2. Range(vals) = {r.value}
            BY <2>2 DEF Range
        <3> QED BY <2>1, <2>2, <3>1, <3>2
    <2>6. Mean(vals) = r.value
        BY <2>1, <2>2, <2>3, <2>4 DEF Mean
    <2>7. ByMethod(method, vals) = r.value
        BY <2>2, <2>4, <2>5, <2>6 DEF ByMethod, Summary, Unaltering
    <2> QED BY <1>3, <2>2, <2>7
<1> QED BY <1>5, <1>6

(* Whatever the indicator and the period, they agree.                      *)
LEMMA PagesAgree ==
    ASSUME TypeOK, NEW p, NEW i \in Indicator
    PROVE  PageAgrees(AnalyseIndicator(p, i, None), p, i)
<1> DEFINE page == AnalyseIndicator(p, i, None)
           nation == ActiveStates(None)
<1>1. /\ page.states = StateLayer(nation, p, i)
      /\ page.national = NationalLayer(nation, p, i)
      /\ page.cohorts = CohortLayer(nation, p, i)
    BY DEF AnalyseIndicator
<1> HIDE DEF page
<1>2. page.national.line = Together(nation, p, i, NationalTarget(nation, p, i))
    BY <1>1 DEF NationalLayer, GroupRow
<1>3. ScorecardRow("NATIONAL", None, p, i) = page.national.line
    BY <1>2 DEF ScorecardRow, ScopeStates
<1>4. TrendPoint("NATIONAL", None, p, i) = page.national.line
    BY <1>2 DEF TrendPoint, ScopeStates
<1>5. SeriesOf("NATIONAL", None, p, i) \subseteq {page.national.line}
    BY <1>4, SeriesPoint
<1>6. ASSUME NEW k \in DOMAIN page.cohorts
      PROVE  /\ Scorecard("COHORT", k, p).rows[i] = page.cohorts[k].line
             /\ AnalyseIndicator(p, i, k).cohorts[k].line = page.cohorts[k].line
             /\ CohortSeriesAgrees(k, page.cohorts[k].line, p, i)
    <2>1. k \in Cohort /\ DOMAIN Members(nation, k) # {}
        BY <1>1 DEF CohortLayer
    <2> DEFINE own == ActiveStates(k)
    <2>2. Members(nation, k) = own /\ Members(own, k) = own
        BY <2>1, MembersAre
    <2>3. page.cohorts[k].line = Together(own, p, i, PooledTarget(own, p, i))
        BY <1>1, <2>1, <2>2, CohortLine
    <2>4. AnalyseIndicator(p, i, k).cohorts = CohortLayer(own, p, i)
        BY DEF AnalyseIndicator
    <2>5. AnalyseIndicator(p, i, k).cohorts[k].line = Together(own, p, i, PooledTarget(own, p, i))
        BY <2>1, <2>2, <2>4, CohortLine
    <2>6. Scorecard("COHORT", k, p).rows[i] = ScorecardRow("COHORT", k, p, i)
        BY DEF Scorecard, Card
    <2>7. ScorecardRow("COHORT", k, p, i) = Together(own, p, i, PooledTarget(own, p, i))
        BY DEF ScorecardRow, ScopeStates
    <2>8. CohortSeriesAgrees(k, page.cohorts[k].line, p, i)
        <3>1. TrendPoint("COHORT", k, p, i) = Together(own, p, i, NationalTarget(own, p, i))
            BY DEF TrendPoint, ScopeStates
        <3>2. TrendPoint("COHORT", k, p, i).value = page.cohorts[k].line.value
            BY <2>3, <3>1 DEF Together, Line
        <3>3. TargetFor(None, p, i) = None => TrendPoint("COHORT", k, p, i) = page.cohorts[k].line
            BY <2>3, <3>1 DEF NationalTarget
        <3> QED BY <3>2, <3>3, SeriesPoint DEF CohortSeriesAgrees
    <2> QED BY <2>3, <2>5, <2>6, <2>7, <2>8
<1>7. ASSUME NEW st \in DOMAIN page.states
      PROVE  /\ StateSeriesAgrees(st, page.states[st].line, p, i)
             /\ ScorecardRow("STATE", st, p, i) = page.states[st].line
             /\ Heatmap(p, "value", None, Len(IndicatorOrder))[st, i] = page.states[st].line.value
             /\ Heatmap(p, "achievement", None, Len(IndicatorOrder))[st, i]
                  = page.states[st].line.pct
    <2>1. st \in Range(nation)
        BY <1>1 DEF StateLayer
    <2>2. page.states[st].line = Line(Reading(st, p, i), TargetFor(st, p, i), i)
        BY <1>1, <2>1 DEF StateLayer, StateRow
    <2>3. /\ page.states[st].line.value = Reading(st, p, i).value
          /\ page.states[st].line.pct = Achieved(Reading(st, p, i).value, TargetFor(st, p, i), i)
        BY <2>2 DEF Line
    <2>4. ScorecardRow("STATE", st, p, i) = Line(Reading(st, p, i), TargetFor(st, p, i), i)
        BY DEF ScorecardRow
    <2>5. StateSeriesAgrees(st, page.states[st].line, p, i)
        <3> DEFINE r == Reading(st, p, i)
                   sum == AggregateNational(<<r>>, Def(i).method)
        <3>1. Readings(<<st>>, p, i) = <<r>>
            BY DEF Readings
        <3>2. TrendPoint("STATE", st, p, i) = Line(sum, TargetFor(st, p, i), i)
            BY <3>1 DEF TrendPoint, ScopeStates, Together
        <3>3. TrendPoint("STATE", st, p, i).target = page.states[st].line.target
            BY <2>2, <3>2 DEF Line
        <3>4. OfNumbers(r)
            <4>1. st \in State
                BY <2>1, ActiveIs DEF Range, State
            <4> QED BY <4>1, ReadingIsOfNumbers
        <3>5. Def(i).method \in Unaltering => sum.value = r.value
            BY <3>4, OneStands
        <3> HIDE DEF sum, r
        <3>6. Def(i).method \in Unaltering => TrendPoint("STATE", st, p, i) = page.states[st].line
            BY <2>2, <3>2, <3>5 DEF Line, r
        <3> QED BY <3>3, <3>6, SeriesPoint DEF StateSeriesAgrees
    <2> QED BY <2>1, <2>2, <2>3, <2>4, <2>5, HeatmapCell
<1>8. ASSUME NEW n \in DOMAIN ContributionAnalysis(p, i).states
      PROVE  LET st == ContributionAnalysis(p, i).states[n]
             IN  st \in DOMAIN page.states /\ page.states[st].reported
    BY <1>1, ContributorReported DEF StateLayer, StateRow
<1>9. Range(ContributionAnalysis(p, i).states)
        \subseteq {st \in DOMAIN page.states : page.states[st].reported}
    BY <1>8 DEF Range
<1>10. PageAgrees(page, p, i)
    BY <1>3, <1>5, <1>6, <1>7, <1>9 DEF PageAgrees
<1> QED BY <1>10 DEF page

(* The views agree.                                                        *)
THEOREM ViewsAgreeAlways == Spec => []ViewsAgree
<1>1. TypeOK => ViewsAgree
    BY PagesAgree DEF ViewsAgree
<1> QED BY <1>1, AssessmentTypeCorrect, PTL

(* What has the larger factor is the larger.                               *)
LEMMA TimesInOrder ==
    ASSUME NEW a \in Int, NEW b \in Int, NEW c \in Nat, a <= b
    PROVE  a * c <= b * c
<1>1. PICK d \in Nat : b = a + d
    BY b - a \in Nat
<1>2. b * c = a * c + d * c
    BY <1>1
<1>3. d * c \in Nat /\ a * c \in Int
    BY <1>1
<1> QED BY <1>2, <1>3

(* The national value is pooled from the readings that have one; a Yes/No  *)
(* indicator counts those that said Yes.                                   *)
LEMMA NationalValue ==
    ASSUME NEW method \in Method, NEW R, IsList(R)
    PROVE  LET filled == {n \in DOMAIN R : R[n].value # None}
               shown == {n \in DOMAIN R : HasData(R[n])}
               yes == {n \in filled : R[n].value >= 1}
           IN  /\ Values(Populated(R)) = [n \in filled |-> R[n].value]
               /\ Populated(R) = [n \in shown |-> R[n]]
               /\ AggregateNational(R, method).value
                    = IF shown = {} THEN None
                      ELSE IF method = "COUNT_YES" THEN Cardinality(yes)
                      ELSE Pooled(Populated(R), method).value
<1> DEFINE filled == {n \in DOMAIN R : R[n].value # None}
           shown == {n \in DOMAIN R : HasData(R[n])}
           yes == {n \in filled : R[n].value >= 1}
           P == Populated(R)
<1>1. P = [n \in shown |-> R[n]]
    BY DEF Populated, RestrictValues, Restrict
<1>2. Values(P) = [n \in {m \in DOMAIN P : P[m].value # None} |-> P[n].value]
    BY ColumnsAre
<1> HIDE DEF P
<1>3. {m \in DOMAIN P : P[m].value # None} = filled
    BY <1>1 DEF HasData
<1>4. \A m \in filled : P[m].value = R[m].value
    BY <1>1, <1>3
<1>5. Values(P) = [n \in filled |-> R[n].value]
    BY <1>2, <1>3, <1>4
<1>6. {n \in DOMAIN P : P[n].value # None /\ P[n].value >= 1} = yes
    BY <1>1, <1>3, <1>4
<1>7. AggregateNational(R, method)
         = IF DOMAIN P = {} THEN Blank
           ELSE IF method = "COUNT_YES" THEN [Pooled(P, method) EXCEPT !.value = Cardinality(yes)]
           ELSE Pooled(P, method)
    BY <1>6 DEF AggregateNational, P
<1>8. [Pooled(P, method) EXCEPT !.value = Cardinality(yes)].value = Cardinality(yes)
    BY DEF Pooled, PooledOf
<1>9. AggregateNational(R, method).value
        = IF shown = {} THEN None
          ELSE IF method = "COUNT_YES" THEN Cardinality(yes) ELSE Pooled(P, method).value
    BY <1>1, <1>7, <1>8 DEF Blank
<1> QED BY <1>1, <1>5, <1>9 DEF P

(* The readings of states are of numbers.                                  *)
LEMMA ReadingsAreList ==
    ASSUME TypeOK, NEW sts, IsFiniteSet(DOMAIN sts), DOMAIN sts \subseteq Int,
           \A n \in DOMAIN sts : sts[n] \in State, NEW p, NEW i \in Indicator
    PROVE  IsList(Readings(sts, p, i))
<1>1. \A n \in DOMAIN sts : OfNumbers(Reading(sts[n], p, i))
    BY ReadingIsOfNumbers
<1> QED BY <1>1 DEF Readings, IsList

(* A board has some of the states of the programme.                        *)
LEMMA ActiveAreStates ==
    ASSUME NEW k
    PROVE  LET sts == ActiveStates(k)
           IN  /\ IsFiniteSet(DOMAIN sts) /\ DOMAIN sts \subseteq Int
               /\ DOMAIN sts \subseteq DOMAIN StateOrder
               /\ \A n \in DOMAIN sts : sts[n] = StateOrder[n] /\ sts[n] \in State
<1>1. DOMAIN ActiveStates(k) \subseteq DOMAIN StateOrder
    BY ActiveIs
<1>2. \A n \in DOMAIN ActiveStates(k) : ActiveStates(k)[n] = StateOrder[n]
    BY ActiveIs
<1>3. \A n \in DOMAIN StateOrder : StateOrder[n] \in State
    BY DEF State, Range
<1>4. DOMAIN StateOrder = 1..Len(StateOrder) /\ Len(StateOrder) \in Nat
    BY AssessmentAssumption
<1>5. IsFiniteSet(DOMAIN StateOrder)
    BY <1>4, FS_Interval
<1> QED BY <1>1, <1>2, <1>3, <1>4, <1>5, FS_Subset

(* A total is the sum of the values there are.                             *)
LEMMA TotalIs ==
    ASSUME NEW R, IsList(R)
    PROVE  LET filled == {n \in DOMAIN R : R[n].value # None}
           IN  AggregateNational(R, "SUM").value
                 = IF filled = {} THEN None
                   ELSE SumFunctionOnSet([n \in filled |-> R[n].value], filled)
<1> DEFINE filled == {n \in DOMAIN R : R[n].value # None}
           shown == {n \in DOMAIN R : HasData(R[n])}
           v == [n \in filled |-> R[n].value]
           P == Populated(R)
<1>1. "SUM" \in Method
    BY DEF Method
<1>2. /\ Values(P) = v
      /\ AggregateNational(R, "SUM").value
           = IF shown = {} THEN None ELSE Pooled(P, "SUM").value
    BY <1>1, NationalValue
<1>3. filled \subseteq shown
    BY DEF HasData
<1>4. Pooled(P, "SUM").value = ByMethod("SUM", Values(P))
    BY DEF Pooled, PooledOf
<1>5. DOMAIN v = filled
    OBVIOUS
<1> HIDE DEF v, filled
<1>6. ByMethod("SUM", v) = IF filled = {} THEN None ELSE SumFunctionOnSet(v, filled)
    <2>1. ByMethod("SUM", v)
            = IF DOMAIN v = {} THEN None
              ELSE SumFunction(v)
        BY DEF ByMethod, Summary
    <2> QED BY <1>5, <2>1 DEF SumFunction
<1>7. AggregateNational(R, "SUM").value
        = IF filled = {} THEN None ELSE SumFunctionOnSet(v, filled)
    BY <1>2, <1>3, <1>4, <1>6
<1> QED BY <1>7 DEF v, filled

(* A rate pooled from pairs that make the rates they are reported with     *)
(* lies among those.                                                       *)
LEMMA PooledRateLiesAmong ==
    ASSUME NEW S, IsFiniteSet(S), S # {}, NEW f, NEW g, NEW v,
           \A x \in S : /\ f[x] \in Int /\ g[x] \in Nat /\ g[x] # 0
                        /\ v[x] = (100 * f[x]) \div g[x],
           SumFunctionOnSet(g, S) # 0
    PROVE  \E a, b \in S :
              LET rate == (100 * SumFunctionOnSet(f, S)) \div SumFunctionOnSet(g, S)
              IN  v[a] <= rate /\ rate <= v[b]
<1>1. \A x \in S : /\ v[x] \in Int /\ v[x] * g[x] <= 100 * f[x]
                   /\ 100 * f[x] < (v[x] + 1) * g[x]
    <2>1. ASSUME NEW x \in S
          PROVE  /\ v[x] \in Int /\ v[x] * g[x] <= 100 * f[x]
                 /\ 100 * f[x] < (v[x] + 1) * g[x]
        <3>1. 100 * f[x] \in Int /\ g[x] \in Nat /\ g[x] # 0
            OBVIOUS
        <3>2. v[x] = (100 * f[x]) \div g[x]
            OBVIOUS
        <3>3. ASSUME NEW n \in Int, NEW d \in Nat, d # 0
              PROVE  /\ n \div d \in Int
                     /\ (n \div d) * d <= n /\ n < (n \div d + 1) * d
            BY <3>3, QuotientBetween
        <3> QED BY <3>1, <3>2, <3>3
    <2> QED BY <2>1
<1>2. PICK a \in S : \A x \in S : v[a] <= v[x]
    <2> DEFINE down == [x \in S |-> -v[x]]
    <2>1. \A x \in S : down[x] \in Int
        BY <1>1
    <2>2. \E a \in S : \A x \in S : down[a] >= down[x]
        <3> HIDE DEF down
        <3> QED BY <2>1, LargestExists
    <2> QED BY <1>1, <2>2
<1>3. PICK b \in S : \A x \in S : v[b] >= v[x]
    BY <1>1, LargestExists
<1> DEFINE low == v[a]
           high == v[b] + 1
           F == SumFunctionOnSet(f, S)
           G == SumFunctionOnSet(g, S)
<1>4. low \in Int /\ high \in Int /\ v[b] \in Int
    BY <1>1
<1>5. \A x \in S : low * g[x] <= 100 * f[x] /\ 100 * f[x] < high * g[x]
    <2>1. ASSUME NEW x \in S
          PROVE  low * g[x] <= 100 * f[x] /\ 100 * f[x] < high * g[x]
        <3>1. v[x] * g[x] <= 100 * f[x] /\ 100 * f[x] < (v[x] + 1) * g[x] /\ v[x] \in Int
            BY <1>1
        <3>2. low <= v[x] /\ v[x] + 1 <= high
            BY <1>1, <1>2, <1>3
        <3>3. g[x] \in Nat /\ f[x] \in Int /\ v[x] + 1 \in Int
            BY <3>1
        <3> HIDE DEF low, high
        <3>4. low * g[x] <= v[x] * g[x] /\ (v[x] + 1) * g[x] <= high * g[x]
            BY <1>4, <3>1, <3>2, <3>3, TimesInOrder
        <3>5. /\ low * g[x] \in Int /\ v[x] * g[x] \in Int /\ 100 * f[x] \in Int
              /\ (v[x] + 1) * g[x] \in Int /\ high * g[x] \in Int
            BY <1>4, <3>1, <3>3
        <3> QED BY <3>1, <3>4, <3>5
    <2> QED BY <2>1
<1>6. low * G <= 100 * F /\ 100 * F < high * G
    <2>1. \A x \in S : f[x] \in Int /\ g[x] \in Int
        OBVIOUS
    <2> HIDE DEF low, high
    <2> QED BY <1>4, <1>5, <2>1, SumsInProportion
<1>7. F \in Int /\ G \in Nat
    BY SumType, SumAtLeast
<1>8. low <= (100 * F) \div G /\ (100 * F) \div G <= v[b]
    <2>1. 100 * F \in Int /\ G # 0
        BY <1>7
    <2> HIDE DEF low, F, G
    <2> QED BY <1>4, <1>6, <1>7, <2>1, QuotientBetween DEF high
<1> QED BY <1>8

(* A national mean, rate or extreme lies among the values there are, but   *)
(* for zeros that a mean leaves out.                                       *)
LEMMA NationLiesAmong ==
    ASSUME NEW method \in Method, method \notin {"SUM", "COUNT_YES"}, NEW R, IsList(R),
           method = "WEIGHTED_AVERAGE" => \A n \in DOMAIN R : Paired(R[n]),
           AggregateNational(R, method).value # None
    PROVE  LET nation == AggregateNational(R, method).value
               filled == {n \in DOMAIN R : R[n].value # None}
           IN  \E a, b \in filled :
                  /\ R[a].value <= nation /\ nation <= R[b].value
                  /\ method = "AVERAGE_NONZERO" => R[a].value # 0 /\ R[b].value # 0
<1> DEFINE nation == AggregateNational(R, method).value
           filled == {n \in DOMAIN R : R[n].value # None}
           shown == {n \in DOMAIN R : HasData(R[n])}
           v == [n \in filled |-> R[n].value]
           P == Populated(R)
           num == SumOrNone(Numerators(P))
           den == SumOrNone(Denominators(P))
           weighted == method = "WEIGHTED_AVERAGE" /\ num # None /\ den \notin {None, 0}
<1>1. /\ Values(P) = v /\ P = [n \in shown |-> R[n]]
      /\ nation = IF shown = {} THEN None ELSE Pooled(P, method).value
    BY NationalValue
<1>2. Pooled(P, method).value = IF weighted THEN (100 * num) \div den
                                ELSE ByMethod(method, Values(P))
    BY DEF Pooled, PooledOf
<1>3. nation = IF weighted THEN (100 * num) \div den ELSE ByMethod(method, v)
    BY <1>1, <1>2
<1>4. /\ IsFiniteSet(filled) /\ filled \subseteq Int
      /\ \A n \in filled : v[n] = R[n].value /\ v[n] \in Int
    <2>1. filled \subseteq DOMAIN R
        OBVIOUS
    <2>2. \A n \in filled : R[n].value \in Int
        BY DEF IsList, OfNumbers
    <2> QED BY <2>1, <2>2, FS_Subset DEF IsList
<1>5. DOMAIN v = filled
    OBVIOUS
<1>6. CASE ~weighted
    <2>1. nation = ByMethod(method, v)
        BY <1>3, <1>6
    <2> HIDE DEF v, filled, weighted
    <2>2. \E a, b \in DOMAIN v :
             /\ v[a] <= ByMethod(method, v) /\ ByMethod(method, v) <= v[b]
             /\ method = "AVERAGE_NONZERO" => v[a] # 0 /\ v[b] # 0
        <3>1. ByMethod(method, v) # None
            BY <2>1
        <3>2. IsFiniteSet(DOMAIN v) /\ DOMAIN v \subseteq Int /\ \A n \in DOMAIN v : v[n] \in Int
            BY <1>4, <1>5
        <3> QED BY <3>1, <3>2, MethodLiesAmong
    <2>3. \E a, b \in filled :
             /\ R[a].value <= nation /\ nation <= R[b].value
             /\ method = "AVERAGE_NONZERO" => R[a].value # 0 /\ R[b].value # 0
        <3>1. PICK a \in DOMAIN v, b \in DOMAIN v :
                 /\ v[a] <= nation /\ nation <= v[b]
                 /\ method = "AVERAGE_NONZERO" => v[a] # 0 /\ v[b] # 0
            BY <2>1, <2>2
        <3>2. a \in filled /\ b \in filled /\ v[a] = R[a].value /\ v[b] = R[b].value
            BY <1>4, <1>5
        <3> HIDE DEF nation
        <3> QED BY <3>1, <3>2
    <2> QED BY <2>3 DEF filled
<1>7. CASE weighted
    <2> DEFINE S == {n \in DOMAIN R : R[n].numerator # None}
               f == [n \in S |-> R[n].numerator]
               g == [n \in S |-> R[n].denominator]
    <2>1. method = "WEIGHTED_AVERAGE" /\ num # None /\ den \notin {None, 0}
        BY <1>7
    <2>2. \A n \in S : /\ n \in shown /\ R[n].denominator \notin {None, 0}
                       /\ R[n].value = (100 * R[n].numerator) \div R[n].denominator
        BY <2>1 DEF Paired, HasData
    <2>3. \A n \in DOMAIN R : R[n].denominator # None => n \in S
        BY <2>1 DEF Paired
    <2>4. {m \in DOMAIN P : P[m].numerator # None} = S
        BY <1>1, <2>2
    <2>5. {m \in DOMAIN P : P[m].denominator # None} = S
        BY <1>1, <2>2, <2>3
    <2>6. Numerators(P) = f /\ Denominators(P) = g
        <3>1. /\ Numerators(P) = [n \in S |-> P[n].numerator]
              /\ Denominators(P) = [n \in S |-> P[n].denominator]
            <4>1. /\ Numerators(P) = [n \in {m \in DOMAIN P : P[m].numerator # None} |->
                                        P[n].numerator]
                  /\ Denominators(P) = [n \in {m \in DOMAIN P : P[m].denominator # None} |->
                                          P[n].denominator]
                BY ColumnsAre
            <4> HIDE DEF P, S
            <4> QED BY <2>4, <2>5, <4>1
        <3>2. \A n \in S : P[n] = R[n]
            BY <1>1, <2>2
        <3> QED BY <3>1, <3>2
    <2>7. /\ num = IF S = {} THEN None ELSE SumFunctionOnSet(f, S)
          /\ den = IF S = {} THEN None ELSE SumFunctionOnSet(g, S)
        BY <2>6 DEF SumOrNone, SumFunction
    <2>8. S # {} /\ num = SumFunctionOnSet(f, S) /\ den = SumFunctionOnSet(g, S)
        BY <2>1, <2>7
    <2>9. IsFiniteSet(S)
        BY FS_Subset DEF IsList
    <2>10. \A n \in S : R[n].numerator \in Int /\ R[n].denominator \in Nat
        BY <2>2 DEF IsList, OfNumbers
    <2>11. \A n \in S : (100 * R[n].numerator) \div R[n].denominator \in Int
        <3>1. ASSUME NEW x \in Int, NEW y \in Nat, y # 0
              PROVE  (100 * x) \div y \in Int
            BY <3>1
        <3> QED BY <2>2, <2>10, <3>1
    <2>12. S \subseteq filled
        BY <2>2, <2>11, AssessmentAssumption
    <2>13. \A n \in S : /\ f[n] \in Int /\ g[n] \in Nat /\ g[n] # 0
                        /\ v[n] = (100 * f[n]) \div g[n]
        <3>1. \A n \in S : f[n] = R[n].numerator /\ g[n] = R[n].denominator
            OBVIOUS
        <3>2. \A n \in S : v[n] = R[n].value
            BY <2>12
        <3> HIDE DEF f, g, v, S
        <3> QED BY <2>2, <2>10, <3>1, <3>2
    <2>14. nation = (100 * SumFunctionOnSet(f, S)) \div SumFunctionOnSet(g, S)
        BY <1>3, <1>7, <2>8
    <2>15. SumFunctionOnSet(g, S) # 0
        BY <2>1, <2>8
    <2>16. \A n \in S : v[n] = R[n].value
        BY <2>12
    <2> HIDE DEF f, g, v, S, nation, filled
    <2>17. PICK a \in S, b \in S : v[a] <= nation /\ nation <= v[b]
        BY <2>8, <2>9, <2>13, <2>14, <2>15, PooledRateLiesAmong
    <2>18. a \in filled /\ b \in filled /\ R[a].value <= nation /\ nation <= R[b].value
        BY <2>12, <2>16, <2>17
    <2> QED BY <2>1, <2>18 DEF filled, nation
<1> QED BY <1>6, <1>7

(* A national total is the sum of those of the cohorts.                    *)
LEMMA TotalOfCohorts ==
    ASSUME TypeOK, NEW p, NEW i \in Indicator, Def(i).method = "SUM",
           AnalyseIndicator(p, i, None).national.line.value # None
    PROVE  LET page == AnalyseIndicator(p, i, None)
               shares == {k \in DOMAIN page.cohorts : page.cohorts[k].line.value # None}
           IN  page.national.line.value
                 = SumFunction([k \in shares |-> page.cohorts[k].line.value])
<1> DEFINE page == AnalyseIndicator(p, i, None)
           sts == ActiveStates(None)
           R == Readings(sts, p, i)
           D == {n \in DOMAIN R : R[n].value # None}
           v == [n \in D |-> R[n].value]
           group == [n \in D |-> roster[sts[n]].cohort]
           In(k) == {n \in D : group[n] = k}
           shares == {k \in DOMAIN page.cohorts : page.cohorts[k].line.value # None}
<1>1. /\ page.national = NationalLayer(sts, p, i)
      /\ page.cohorts = CohortLayer(sts, p, i)
    BY DEF AnalyseIndicator
<1>2. /\ IsFiniteSet(DOMAIN sts) /\ DOMAIN sts \subseteq Int
      /\ \A n \in DOMAIN sts : sts[n] \in State
      /\ IsList(R) /\ DOMAIN R = DOMAIN sts
    BY ActiveAreStates, ReadingsAreList DEF Readings
<1>3. page.national.line.value = AggregateNational(R, "SUM").value
    BY <1>1 DEF NationalLayer, GroupRow, Together, Line
<1>4. AggregateNational(R, "SUM").value = IF D = {} THEN None ELSE SumFunctionOnSet(v, D)
    BY <1>2, TotalIs
<1>5. IsFiniteSet(D) /\ \A n \in D : v[n] \in Int
    <2>1. \A n \in D : R[n].value \in Int
        BY <1>2 DEF IsList, OfNumbers
    <2> QED BY <1>2, <2>1, FS_Subset
<1>6. ASSUME NEW k \in Cohort, DOMAIN Members(sts, k) # {}
      PROVE  page.cohorts[k].line.value
               = IF In(k) = {} THEN None ELSE SumFunctionOnSet(v, In(k))
    <2> DEFINE own == Members(sts, k)
               Q == Readings(own, p, i)
               E == {n \in DOMAIN Q : Q[n].value # None}
               w == [n \in E |-> Q[n].value]
    <2>1. page.cohorts[k].line.value = AggregateNational(Q, "SUM").value
        <3>1. CohortLayer(sts, p, i)[k].line = Together(own, p, i, PooledTarget(own, p, i))
            BY <1>6, CohortLine
        <3>2. page.cohorts[k].line = Together(own, p, i, PooledTarget(own, p, i))
            BY <1>1, <3>1
        <3> HIDE DEF page
        <3> QED BY <3>2 DEF Together, Line
    <2>2. /\ DOMAIN own = {n \in DOMAIN sts : roster[sts[n]].cohort = k}
          /\ \A n \in DOMAIN own : own[n] = sts[n]
        BY DEF Members, RestrictValues, Restrict
    <2>3. DOMAIN Q = DOMAIN own /\ \A n \in DOMAIN Q : Q[n] = R[n]
        BY <2>2 DEF Readings
    <2>4. IsList(Q)
        <3>1. IsFiniteSet(DOMAIN Q) /\ DOMAIN Q \subseteq DOMAIN R
            BY <1>2, <2>2, <2>3, FS_Subset
        <3> HIDE DEF Q, R
        <3> QED BY <1>2, <2>3, <3>1 DEF IsList
    <2>5. AggregateNational(Q, "SUM").value = IF E = {} THEN None ELSE SumFunctionOnSet(w, E)
        BY <2>4, TotalIs
    <2>6. E = In(k)
        BY <1>2, <2>2, <2>3
    <2>7. SumFunctionOnSet(w, E) = SumFunctionOnSet(v, E)
        <3>1. IsFiniteSet(E) /\ \A n \in E : v[n] \in Int
            BY <1>5, <2>6, FS_Subset
        <3>2. \A n \in E : w[n] = v[n]
            BY <1>2, <2>2, <2>3
        <3> HIDE DEF E, w, v
        <3> QED BY <3>1, <3>2, SumAlike
    <2> QED BY <2>1, <2>5, <2>6, <2>7
<1>7. \A n \in D : /\ group[n] \in Cohort /\ n \in DOMAIN Members(sts, group[n])
                   /\ n \in In(group[n])
    <2>1. \A n \in D : n \in DOMAIN sts /\ roster[sts[n]].cohort \in Cohort
        BY <1>2 DEF TypeOK, Rosters
    <2> QED BY <2>1 DEF Members, RestrictValues, Restrict
<1>8. ASSUME NEW k
      PROVE  IsFiniteSet(In(k)) /\ In(k) \subseteq D /\ SumFunctionOnSet(v, In(k)) \in Int
    <2>1. IsFiniteSet(In(k)) /\ \A n \in In(k) : v[n] \in Int
        BY <1>5, FS_Subset
    <2> HIDE DEF v
    <2> QED BY <2>1, SumType
<1>9. shares = Range(group)
    <2>1. DOMAIN page.cohorts = {k \in Cohort : DOMAIN Members(sts, k) # {}}
        BY <1>1 DEF CohortLayer
    <2>2. \A k \in shares : k \in Range(group)
        <3>1. ASSUME NEW k \in shares
              PROVE  k \in Range(group)
            <4>1. In(k) # {}
                BY <1>6, <2>1
            <4> QED BY <4>1 DEF Range
        <3> QED BY <3>1
    <2>3. \A n \in D : group[n] \in shares
        <3>1. ASSUME NEW n \in D
              PROVE  group[n] \in shares
            <4> DEFINE k == group[n]
            <4>1. k \in Cohort /\ DOMAIN Members(sts, k) # {} /\ In(k) # {}
                BY <1>7
            <4>2. SumFunctionOnSet(v, In(k)) \in Int
                BY <1>8
            <4> HIDE DEF v, In, k, page
            <4>3. page.cohorts[k].line.value # None
                BY <1>6, <4>1, <4>2, AssessmentAssumption
            <4> QED BY <2>1, <4>1, <4>3 DEF k
        <3> QED BY <3>1
    <2> QED BY <2>2, <2>3 DEF Range
<1>10. IsFiniteSet(shares)
    BY <1>5, <1>9, RangeFinite
<1>11. SumFunctionOnSet(v, D)
         = SumFunctionOnSet([k \in shares |-> SumFunctionOnSet(v, {n \in D : group[n] = k})], shares)
    <2>1. \A n \in D : group[n] \in shares
        BY <1>9 DEF Range
    <2> HIDE DEF v, D, shares, group
    <2> QED BY <1>5, <1>10, <2>1, SumOfGroups
<1>12. \A k \in shares : page.cohorts[k].line.value = SumFunctionOnSet(v, {n \in D : group[n] = k})
    <2>1. \A k \in shares : k \in Cohort /\ DOMAIN Members(sts, k) # {}
        BY <1>1 DEF CohortLayer
    <2>2. \A k \in shares : page.cohorts[k].line.value # None
        OBVIOUS
    <2> HIDE DEF shares, page, v
    <2> QED BY <1>6, <2>1, <2>2
<1>13. [k \in shares |-> SumFunctionOnSet(v, {n \in D : group[n] = k})]
         = [k \in shares |-> page.cohorts[k].line.value]
    <2> HIDE DEF shares, page, v, D, group
    <2> QED BY <1>12
<1>14. page.national.line.value = SumFunctionOnSet(v, D)
    BY <1>3, <1>4
<1>15. page.national.line.value = SumFunction([k \in shares |-> page.cohorts[k].line.value])
    <2>1. page.national.line.value
            = SumFunctionOnSet([k \in shares |-> page.cohorts[k].line.value], shares)
        <3> HIDE DEF shares, page, v, D, group
        <3> QED BY <1>11, <1>13, <1>14
    <2> HIDE DEF shares, page
    <2> QED BY <2>1 DEF SumFunction
<1> QED BY <1>15

(* What the page says of the nation rests on what it says of the states.   *)
LEMMA PageRestsOnReports ==
    ASSUME TypeOK, NEW p, NEW i \in Indicator,
           Def(i).method = "WEIGHTED_AVERAGE" => \A st \in State : Paired(Reading(st, p, i))
    PROVE  RestsOnReports(AnalyseIndicator(p, i, None), Def(i).method)
<1> DEFINE page == AnalyseIndicator(p, i, None)
           method == Def(i).method
           sts == ActiveStates(None)
           R == Readings(sts, p, i)
           nation == page.national.line.value
           filled == {n \in DOMAIN R : R[n].value # None}
           shares == {k \in DOMAIN page.cohorts : page.cohorts[k].line.value # None}
           own == {page.states[st].line.value : st \in DOMAIN page.states} \ {None}
           counted == IF method = "AVERAGE_NONZERO" THEN own \ {0} ELSE own
<1>1. page.national = NationalLayer(sts, p, i) /\ page.states = StateLayer(sts, p, i)
    BY DEF AnalyseIndicator
<1>2. /\ IsFiniteSet(DOMAIN sts) /\ \A n \in DOMAIN sts : sts[n] \in State
      /\ IsList(R) /\ DOMAIN R = DOMAIN sts /\ \A n \in DOMAIN R : R[n] = Reading(sts[n], p, i)
    BY ActiveAreStates, ReadingsAreList DEF Readings
<1>3. method \in Method
    BY AssessmentAssumption DEF TypeOK, IsSetup, Def
<1>4. nation = AggregateNational(R, method).value
    BY <1>1 DEF NationalLayer, GroupRow, Together, Line
<1>5. \A n \in filled : R[n].value \in own
    <2>1. ASSUME NEW n \in filled
          PROVE  R[n].value \in own
        <3>1. sts[n] \in Range(sts)
            BY <1>2 DEF Range
        <3>2. page.states[sts[n]].line.value = R[n].value /\ sts[n] \in DOMAIN page.states
            BY <1>1, <1>2, <3>1 DEF StateLayer, StateRow, Line
        <3> HIDE DEF page
        <3> QED BY <3>2
    <2> QED BY <2>1
<1>6. ASSUME nation # None, method = "COUNT_YES"
      PROVE  nation <= page.national.reported
    <2> DEFINE shown == {n \in DOMAIN R : HasData(R[n])}
               yes == {n \in filled : R[n].value >= 1}
    <2>1. nation = Cardinality(yes)
        BY <1>2, <1>3, <1>4, <1>6, NationalValue
    <2>2. page.national.reported = Cardinality({n \in DOMAIN sts : HasData(Reading(sts[n], p, i))})
        BY <1>1 DEF NationalLayer, GroupRow, CountReporting
    <2>3. {n \in DOMAIN sts : HasData(Reading(sts[n], p, i))} = shown
        BY <1>2
    <2>4. yes \subseteq shown /\ IsFiniteSet(shown)
        BY <1>2, FS_Subset DEF HasData
    <2>5. Cardinality(yes) <= Cardinality(shown)
        BY <2>4, FS_Subset
    <2> QED BY <2>1, <2>2, <2>3, <2>5
<1>7. ASSUME nation # None, method \notin {"SUM", "COUNT_YES"}
      PROVE  \E low, high \in counted : low <= nation /\ nation <= high
    <2>1. method = "WEIGHTED_AVERAGE" => \A n \in DOMAIN R : Paired(R[n])
        BY <1>2
    <2>2. PICK a \in filled, b \in filled :
             /\ R[a].value <= nation /\ nation <= R[b].value
             /\ method = "AVERAGE_NONZERO" => R[a].value # 0 /\ R[b].value # 0
        <3> HIDE DEF R
        <3> QED BY <1>2, <1>3, <1>4, <1>7, <2>1, NationLiesAmong
    <2>3. R[a].value \in counted /\ R[b].value \in counted
        <3> HIDE DEF own, filled, R
        <3> QED BY <1>5, <2>2
    <2> HIDE DEF counted, nation, R, filled
    <2> QED BY <2>2, <2>3
<1>8. ASSUME nation # None, method = "SUM"
      PROVE  nation = SumFunction([k \in shares |-> page.cohorts[k].line.value])
    BY <1>8, TotalOfCohorts
<1>9. RestsOnReports(page, method)
    <2>1. nation # None =>
             CASE method = "SUM" -> nation = SumFunction([k \in shares |-> page.cohorts[k].line.value])
               [] method = "COUNT_YES" -> nation <= page.national.reported
               [] OTHER -> \E low, high \in counted : low <= nation /\ nation <= high
        <3> HIDE DEF nation, shares, counted, page, method
        <3> QED BY <1>6, <1>7, <1>8
    <2> HIDE DEF page, method
    <2> QED BY <2>1 DEF RestsOnReports, SumOver
<1> QED BY <1>9

(* A national figure rests on the states that reported.                    *)
THEOREM NationRestsOnReportsAlways == Spec => []NationRestsOnReports
<1>1. TypeOK => NationRestsOnReports
    BY PageRestsOnReports DEF NationRestsOnReports
<1> QED BY <1>1, AssessmentTypeCorrect, PTL

-----------------------------------------------------------------------------
(* Boards.                                                                 *)

(* A return on a board: whether there is one, how it stands, and how many  *)
(* figures it has.                                                         *)
LEMMA ReturnShown ==
    ASSUME TypeOK, NEW st, NEW p
    PROVE  /\ StateReturn(st, p).submitted <=> Filed(st, p)
           /\ Filed(st, p) => /\ StateReturn(st, p).status = latest[<<st, p>>].status
                              /\ StateReturn(st, p).verdict = latest[<<st, p>>].verdict
           /\ StateReturn(st, p).figures \in Nat
<1>1. IsFiniteSet(FiguresOf(st, p))
    <2> DEFINE f == [i \in Indicator |->
                       {i} \X {n \in DOMAIN RowsOf(st, p, i) : Effective(RowsOf(st, p, i)[n]) # None}]
    <2>1. FiguresOf(st, p) = UNION Range(f)
        BY DEF FiguresOf, Range
    <2>2. IsFiniteSet(Range(f))
        BY CatalogueFinite, RangeFinite
    <2>3. ASSUME NEW i \in Indicator
          PROVE  IsFiniteSet(f[i])
        <3> DEFINE S == {n \in DOMAIN RowsOf(st, p, i) : Effective(RowsOf(st, p, i)[n]) # None}
        <3>1. PICK n \in Nat : DOMAIN RowsOf(st, p, i) = 1..n
            BY DEF RowsOf, Filed, TypeOK, IsTable, IsReturn, IsColumn
        <3>2. IsFiniteSet(S) /\ IsFiniteSet({i})
            <4>1. IsFiniteSet(1..n)
                BY FS_Interval
            <4>2. S \subseteq 1..n
                BY <3>1
            <4>3. IsFiniteSet({i})
                BY FS_Singleton
            <4> HIDE DEF S
            <4> QED BY <4>1, <4>2, <4>3, FS_Subset
        <3>3. f[i] = {i} \X S
            OBVIOUS
        <3> HIDE DEF S, f
        <3> QED BY <3>2, <3>3, FS_Product
    <2>4. \A T \in Range(f) : IsFiniteSet(T)
        BY <2>3 DEF Range
    <2> HIDE DEF f
    <2> QED BY <2>1, <2>2, <2>4, FS_UNION
<1>2. Cardinality(FiguresOf(st, p)) \in Nat
    BY <1>1, FS_CardinalityType
<1>3. CASE Filed(st, p)
    BY <1>2, <1>3 DEF StateReturn
<1>4. CASE ~Filed(st, p)
    BY <1>4 DEF StateReturn
<1> QED BY <1>3, <1>4

(* What a board counts: the returns of its states, as they stand.          *)
CountsItsStates(st, cohort, p) ==
    LET sts == BoardStates(st, cohort)
        filed == {s \in Range(sts) : Filed(s, p)}
        board == NationalReturns(st, cohort, p)
        judged(v) == Cardinality({s \in filed : latest[<<s, p>>].verdict = v})
    IN  /\ board.expected = Cardinality(DOMAIN sts) /\ board.reported = Cardinality(filed)
        /\ board.approved = Cardinality({s \in Range(sts) : Analysable(s, p)})
        /\ board.notFit = judged("NOT_FIT") /\ board.withNotes = judged("FIT_WITH_NOTES")
        /\ board.fit = judged("FIT")
        /\ board.figures = SumFunction([s \in filed |-> StateReturn(s, p).figures])
        /\ board.cohorts = [k \in Cohort |-> CohortReturns(k, p, Range(sts))]

(* It does.                                                                *)
LEMMA BoardCounts ==
    ASSUME TypeOK, NEW st, NEW cohort, NEW p
    PROVE  CountsItsStates(st, cohort, p)
<1> DEFINE sts == BoardStates(st, cohort)
           row == [s \in Range(sts) |-> StateReturn(s, p)]
           shown == {s \in Range(sts) : row[s].submitted}
           filed == {s \in Range(sts) : Filed(s, p)}
           board == NationalReturns(st, cohort, p)
           having(v) == {s \in shown : row[s].verdict = v}
<1>1. /\ board.expected = Cardinality(DOMAIN sts) /\ board.reported = Cardinality(shown)
      /\ board.approved = Cardinality({s \in shown : row[s].status = "APPROVED"})
      /\ board.notFit = Cardinality(having("NOT_FIT"))
      /\ board.withNotes = Cardinality(having("FIT_WITH_NOTES"))
      /\ board.fit = Cardinality(having("FIT"))
      /\ board.figures = SumFunction([s \in shown |-> row[s].figures])
      /\ board.cohorts = [k \in Cohort |-> CohortReturns(k, p, Range(sts))]
    BY DEF NationalReturns, CountOf, SumOver
<1>2. \A s \in Range(sts) : row[s] = StateReturn(s, p)
    OBVIOUS
<1> HIDE DEF row, sts, board
<1>3. shown = filed
    BY <1>2, ReturnShown
<1>4. {s \in shown : row[s].status = "APPROVED"} = {s \in Range(sts) : Analysable(s, p)}
    BY <1>2, <1>3, ReturnShown DEF Analysable
<1>5. \A v : having(v) = {s \in filed : latest[<<s, p>>].verdict = v}
    BY <1>2, <1>3, ReturnShown
<1>6. [s \in shown |-> row[s].figures] = [s \in filed |-> StateReturn(s, p).figures]
    BY <1>2, <1>3
<1> HIDE DEF shown, having
<1>7. /\ board.expected = Cardinality(DOMAIN sts) /\ board.reported = Cardinality(filed)
      /\ board.approved = Cardinality({s \in Range(sts) : Analysable(s, p)})
      /\ board.notFit = Cardinality({s \in filed : latest[<<s, p>>].verdict = "NOT_FIT"})
      /\ board.withNotes = Cardinality({s \in filed : latest[<<s, p>>].verdict = "FIT_WITH_NOTES"})
      /\ board.fit = Cardinality({s \in filed : latest[<<s, p>>].verdict = "FIT"})
      /\ board.figures = SumFunction([s \in filed |-> StateReturn(s, p).figures])
      /\ board.cohorts = [k \in Cohort |-> CohortReturns(k, p, Range(sts))]
    BY <1>1, <1>3, <1>4, <1>5, <1>6
<1> QED BY <1>7 DEF sts, board, CountsItsStates

(* The boards of the states that are expected: those of the programme, or  *)
(* of a cohort.                                                            *)
LEMMA CohortFiled ==
    ASSUME TypeOK, NEW c \in Cohort \cup {None}, NEW k \in Cohort, c \in {None, k}, NEW p
    PROVE  LET filed == {s \in Range(ActiveStates(c)) : Filed(s, p) /\ roster[s].cohort = k}
               board == CohortReturns(k, p, Range(ActiveStates(c)))
           IN  /\ board.reported = Cardinality(filed)
               /\ board.figures = SumFunction([s \in filed |-> StateReturn(s, p).figures])
               /\ filed = {s \in Range(ActiveStates(k)) : Filed(s, p)}
<1> DEFINE members == Range(ActiveStates(k))
           given == Range(ActiveStates(c))
           mine == {s \in given : roster[s].cohort = k}
           come == {s \in (IF mine # {} THEN mine ELSE members) : Filed(s, p)}
           filed == {s \in given : Filed(s, p) /\ roster[s].cohort = k}
           row == [s \in come |-> StateReturn(s, p)]
           board == CohortReturns(k, p, given)
<1>1. mine = members
    <2>1. k # None
        BY AssessmentAssumption
    <2>2. \A n \in DOMAIN StateOrder :
             n \in DOMAIN ActiveStates(k)
               <=> n \in DOMAIN ActiveStates(c) /\ roster[StateOrder[n]].cohort = k
        BY <2>1, ActiveIs
    <2>3. /\ DOMAIN ActiveStates(k) \subseteq DOMAIN StateOrder
          /\ DOMAIN ActiveStates(c) \subseteq DOMAIN StateOrder
          /\ \A n \in DOMAIN ActiveStates(k) : ActiveStates(k)[n] = StateOrder[n]
          /\ \A n \in DOMAIN ActiveStates(c) : ActiveStates(c)[n] = StateOrder[n]
        BY ActiveAreStates
    <2>4. members \subseteq mine
        BY <2>2, <2>3 DEF Range
    <2>5. mine \subseteq members
        BY <2>2, <2>3 DEF Range
    <2> QED BY <2>4, <2>5
<1>2. /\ board.reported = Cardinality(come)
      /\ board.figures = SumFunction([s \in come |-> row[s].figures])
    BY DEF CohortReturns, SumOver
<1>3. come = filed /\ filed = {s \in members : Filed(s, p)}
    <2>1. come = {s \in members : Filed(s, p)}
        BY <1>1
    <2>2. filed = {s \in mine : Filed(s, p)}
        OBVIOUS
    <2> QED BY <1>1, <2>1, <2>2
<1>4. [s \in come |-> row[s].figures] = [s \in filed |-> StateReturn(s, p).figures]
    BY <1>3
<1> HIDE DEF board, come, row
<1>5. /\ board.reported = Cardinality(filed)
      /\ board.figures = SumFunction([s \in filed |-> StateReturn(s, p).figures])
    BY <1>2, <1>3, <1>4
<1> QED BY <1>3, <1>5 DEF board

(* The cohorts of a board add up to it.                                    *)
LEMMA CohortsAddUp ==
    ASSUME TypeOK, NEW c \in Cohort \cup {None}, NEW p
    PROVE  LET board == NationalReturns(None, c, p)
               members == IF c = None THEN Cohort ELSE {c}
           IN  /\ board.reported = SumFunction([k \in members |-> board.cohorts[k].reported])
               /\ board.figures = SumFunction([k \in members |-> board.cohorts[k].figures])
<1> DEFINE board == NationalReturns(None, c, p)
           members == IF c = None THEN Cohort ELSE {c}
           sts == ActiveStates(c)
           filed == {s \in Range(sts) : Filed(s, p)}
           figures == [s \in filed |-> StateReturn(s, p).figures]
           one == [s \in filed |-> 1]
           group == [s \in filed |-> roster[s].cohort]
           In(k) == {s \in filed : group[s] = k}
<1>1. BoardStates(None, c) = sts
    BY DEF BoardStates
<1>2. /\ board.reported = Cardinality(filed) /\ board.figures = SumFunction(figures)
      /\ board.cohorts = [k \in Cohort |-> CohortReturns(k, p, Range(sts))]
    <2> DEFINE own == BoardStates(None, c)
               come == {s \in Range(own) : Filed(s, p)}
    <2>1. /\ board.reported = Cardinality(come)
          /\ board.figures = SumFunction([s \in come |-> StateReturn(s, p).figures])
          /\ board.cohorts = [k \in Cohort |-> CohortReturns(k, p, Range(own))]
        <3>1. CountsItsStates(None, c, p)
            BY BoardCounts
        <3> QED BY <3>1 DEF CountsItsStates
    <2>2. own = sts
        BY <1>1
    <2> HIDE DEF board, own, sts
    <2>3. come = filed
        BY <2>2
    <2> HIDE DEF come, filed
    <2> QED BY <2>1, <2>2, <2>3
<1>3. members \subseteq Cohort /\ IsFiniteSet(members) /\ \A k \in members : c \in {None, k}
    <2>1. PICK n \in Nat : DOMAIN CohortOrder = 1..n
        BY AssessmentAssumption
    <2>2. IsFiniteSet(Cohort)
        BY <2>1, FS_Interval, RangeFinite DEF Cohort
    <2> QED BY <2>2, FS_Singleton
<1>4. IsFiniteSet(filed)
    <2>1. IsFiniteSet(Range(sts))
        BY ActiveAreStates, RangeFinite
    <2>2. filed \subseteq Range(sts)
        OBVIOUS
    <2> HIDE DEF filed, sts
    <2> QED BY <2>1, <2>2, FS_Subset
<1>5. \A s \in filed : group[s] \in members
    <2>1. \A n \in DOMAIN sts : /\ roster[sts[n]].cohort \in Cohort
                                /\ c # None => roster[sts[n]].cohort = c
        <3>1. \A n \in DOMAIN sts : sts[n] = StateOrder[n] /\ sts[n] \in State
            BY ActiveAreStates
        <3>2. \A n \in DOMAIN sts : c \in {None, roster[StateOrder[n]].cohort}
            BY ActiveIs
        <3> QED BY <3>1, <3>2 DEF TypeOK, Rosters
    <2> QED BY <2>1 DEF Range
<1>6. \A s \in filed : figures[s] \in Int /\ one[s] \in Int
    <2>1. \A s : StateReturn(s, p).figures \in Nat
        BY ReturnShown
    <2> HIDE DEF filed
    <2> QED BY <2>1
<1>7. ASSUME NEW k \in members
      PROVE  /\ board.cohorts[k].reported = SumFunctionOnSet(one, In(k))
             /\ board.cohorts[k].figures = SumFunctionOnSet(figures, In(k))
    <2> DEFINE mine == {s \in Range(sts) : Filed(s, p) /\ roster[s].cohort = k}
               ones == [s \in mine |-> 1]
               shown == [s \in mine |-> StateReturn(s, p).figures]
    <2>1. k \in Cohort /\ c \in {None, k}
        BY <1>3
    <2>2. board.cohorts[k] = CohortReturns(k, p, Range(sts))
        BY <1>2, <2>1
    <2>3. board.cohorts[k].reported = Cardinality(mine) /\ board.cohorts[k].figures = SumFunction(shown)
        <3>1. /\ CohortReturns(k, p, Range(sts)).reported = Cardinality(mine)
              /\ CohortReturns(k, p, Range(sts)).figures = SumFunction(shown)
            BY <2>1, CohortFiled
        <3> HIDE DEF board, mine, shown, sts
        <3> QED BY <2>2, <3>1
    <2>4. In(k) = mine
        OBVIOUS
    <2>5. IsFiniteSet(mine) /\ mine \subseteq filed
        BY <1>4, <2>4, FS_Subset
    <2>6. Cardinality(mine) = SumFunctionOnSet(ones, mine)
        BY <2>5, CardinalityIsSum
    <2>7. SumFunction(shown) = SumFunctionOnSet(shown, mine)
        BY DEF SumFunction
    <2>8. \A s \in mine : /\ one[s] \in Int /\ ones[s] = one[s]
                          /\ figures[s] \in Int /\ shown[s] = figures[s]
        BY <1>6, <2>5
    <2>9. /\ SumFunctionOnSet(ones, mine) = SumFunctionOnSet(one, mine)
          /\ SumFunctionOnSet(shown, mine) = SumFunctionOnSet(figures, mine)
        <3> HIDE DEF one, ones, figures, shown, mine
        <3> QED BY <2>5, <2>8, SumAlike
    <2> QED BY <2>3, <2>4, <2>6, <2>7, <2>9
<1>8. ASSUME NEW f, \A s \in filed : f[s] \in Int
      PROVE  SumFunctionOnSet(f, filed)
               = SumFunctionOnSet([k \in members |-> SumFunctionOnSet(f, In(k))], members)
    <2> HIDE DEF filed, group, members
    <2> QED BY <1>3, <1>4, <1>5, <1>8, SumOfGroups
<1>9. /\ board.reported = SumFunctionOnSet(one, filed)
      /\ board.figures = SumFunctionOnSet(figures, filed)
    <2>1. Cardinality(filed) = SumFunctionOnSet(one, filed)
        BY <1>4, CardinalityIsSum
    <2>2. SumFunction(figures) = SumFunctionOnSet(figures, filed)
        BY DEF SumFunction
    <2> QED BY <1>2, <2>1, <2>2
<1>10. /\ [k \in members |-> SumFunctionOnSet(one, In(k))]
            = [k \in members |-> board.cohorts[k].reported]
       /\ [k \in members |-> SumFunctionOnSet(figures, In(k))]
            = [k \in members |-> board.cohorts[k].figures]
    <2> HIDE DEF board, members, In, one, figures
    <2> QED BY <1>7
<1>11. /\ board.reported
            = SumFunctionOnSet([k \in members |-> board.cohorts[k].reported], members)
       /\ board.figures
            = SumFunctionOnSet([k \in members |-> board.cohorts[k].figures], members)
    <2>1. (\A s \in filed : one[s] \in Int) /\ (\A s \in filed : figures[s] \in Int)
        BY <1>6
    <2> HIDE DEF board, members, In, one, figures, filed
    <2> QED BY <1>8, <1>9, <1>10, <2>1
<1>12. /\ board.reported = SumFunction([k \in members |-> board.cohorts[k].reported])
       /\ board.figures = SumFunction([k \in members |-> board.cohorts[k].figures])
    <2> HIDE DEF board, members
    <2> QED BY <1>11 DEF SumFunction
<1> QED BY <1>12

(* What has nothing in common is counted apart.                            *)
LEMMA DisjointTogether ==
    ASSUME NEW S, NEW T, IsFiniteSet(S), IsFiniteSet(T), S \cap T = {}
    PROVE  IsFiniteSet(S \cup T) /\ Cardinality(S \cup T) = Cardinality(S) + Cardinality(T)
<1>1. /\ IsFiniteSet(S \cup T)
      /\ Cardinality(S \cup T) = Cardinality(S) + Cardinality(T) - Cardinality(S \cap T)
    BY FS_Union
<1>2. Cardinality(S \cap T) = 0 /\ Cardinality(S) \in Nat /\ Cardinality(T) \in Nat
    BY FS_EmptySet, FS_CardinalityType
<1> QED BY <1>1, <1>2

(* A board is counted alike by its tiles, and counts nobody twice.         *)
LEMMA BoardInOrder ==
    ASSUME TypeOK, NEW st, NEW c, NEW p
    PROVE  BoardAgrees(Overview(st, c, p), {})
<1> DEFINE sts == BoardStates(st, c)
           all == Range(sts)
           filed == {s \in all : Filed(s, p)}
           approved == {s \in all : Analysable(s, p)}
           having(v) == {s \in filed : latest[<<s, p>>].verdict = v}
           page == Overview(st, c, p)
           board == NationalReturns(st, c, p)
           unfit == {s \in {u \in all : Current(u, p)} : latest[<<s, p>>].verdict = "NOT_FIT"}
<1>1. /\ page.board = board /\ page.counts = Counts(sts, p)
      /\ page.fitness = FitnessTile(st, c, p)
    BY DEF Overview
<1>2. /\ page.counts.submitted = Cardinality(filed) /\ page.counts.approved = Cardinality(approved)
      /\ page.counts.expected = Cardinality(DOMAIN sts)
    BY <1>1 DEF Counts, CountOf
<1>3. page.fitness.notFit = Cardinality(unfit)
    BY <1>1 DEF FitnessTile, CountOf
<1>4. CountsItsStates(st, c, p)
    BY BoardCounts
<1>5. /\ board.expected = Cardinality(DOMAIN sts) /\ board.reported = Cardinality(filed)
      /\ board.approved = Cardinality(approved)
    BY <1>4 DEF CountsItsStates
<1>6. /\ board.notFit = Cardinality(having("NOT_FIT"))
      /\ board.withNotes = Cardinality(having("FIT_WITH_NOTES"))
      /\ board.fit = Cardinality(having("FIT"))
    BY <1>4 DEF CountsItsStates
<1>7. IsFiniteSet(DOMAIN sts)
    <2>1. CASE st # None
        <3>1. DOMAIN sts = {1}
            BY <2>1 DEF BoardStates
        <3> QED BY <3>1, FS_Singleton
    <2>2. CASE st = None
        BY <2>2, ActiveAreStates DEF BoardStates
    <2> QED BY <2>1, <2>2
<1>8. IsFiniteSet(all) /\ Cardinality(all) <= Cardinality(DOMAIN sts)
    <2> DEFINE f == [n \in DOMAIN sts |-> sts[n]]
    <2>1. f \in Surjection(DOMAIN sts, all)
        BY DEF Surjection, Range
    <2> HIDE DEF f, sts
    <2> QED BY <1>7, <2>1, FS_Surjection
<1>9. filed \subseteq all /\ approved \subseteq filed /\ unfit \subseteq having("NOT_FIT")
    BY DEF Analysable, Current
<1>10. \A v : having(v) \subseteq filed
    OBVIOUS
<1>11. /\ having("NOT_FIT") \cap having("FIT_WITH_NOTES") = {}
       /\ (having("NOT_FIT") \cup having("FIT_WITH_NOTES")) \cap having("FIT") = {}
    OBVIOUS
<1> HIDE DEF having, filed, approved, unfit, all, sts, board, page
<1>12. /\ IsFiniteSet(filed) /\ Cardinality(filed) <= Cardinality(all)
    BY <1>8, <1>9, FS_Subset
<1>13. Cardinality(approved) <= Cardinality(filed)
    BY <1>9, <1>12, FS_Subset
<1>14. \A v : IsFiniteSet(having(v))
    BY <1>10, <1>12, FS_Subset
<1>15. Cardinality(unfit) <= Cardinality(having("NOT_FIT"))
    BY <1>9, <1>14, FS_Subset
<1>16. Cardinality(having("NOT_FIT")) + Cardinality(having("FIT_WITH_NOTES"))
         + Cardinality(having("FIT")) <= Cardinality(filed)
    <2> DEFINE a == having("NOT_FIT")
               b == having("FIT_WITH_NOTES")
               d == having("FIT")
    <2>1. /\ IsFiniteSet(a) /\ IsFiniteSet(b) /\ IsFiniteSet(d)
          /\ (a \cup b) \cup d \subseteq filed
        BY <1>10, <1>14
    <2>2. a \cap b = {} /\ (a \cup b) \cap d = {}
        BY <1>11
    <2> HIDE DEF a, b, d
    <2>3. IsFiniteSet(a \cup b) /\ Cardinality(a \cup b) = Cardinality(a) + Cardinality(b)
        BY <2>1, <2>2, DisjointTogether
    <2>4. Cardinality((a \cup b) \cup d) = Cardinality(a \cup b) + Cardinality(d)
        BY <2>1, <2>2, <2>3, DisjointTogether
    <2>5. Cardinality((a \cup b) \cup d) <= Cardinality(filed)
        BY <1>12, <2>1, FS_Subset
    <2> QED BY <2>3, <2>4, <2>5 DEF a, b, d
<1>17. /\ Cardinality(filed) \in Nat /\ Cardinality(all) \in Nat /\ Cardinality(DOMAIN sts) \in Nat
    BY <1>7, <1>8, <1>12, FS_CardinalityType
<1>18. /\ page.counts.submitted = page.board.reported /\ page.counts.expected = page.board.expected
       /\ page.counts.approved = page.board.approved
       /\ page.board.approved <= page.board.reported
       /\ page.board.reported <= page.board.expected
       /\ page.board.notFit + page.board.withNotes + page.board.fit <= page.board.reported
       /\ page.fitness.notFit <= page.board.notFit
    BY <1>1, <1>2, <1>3, <1>5, <1>6, <1>8, <1>12, <1>13, <1>15, <1>16, <1>17
<1>19. BoardAgrees(page, {})
    BY <1>18 DEF BoardAgrees
<1> QED BY <1>19 DEF page

(* A board of states agrees with its cohorts.                              *)
LEMMA BoardWithCohorts ==
    ASSUME TypeOK, NEW c \in Cohort \cup {None}, NEW p
    PROVE  BoardAgrees(Overview(None, c, p), IF c = None THEN Cohort ELSE {c})
<1> DEFINE page == Overview(None, c, p)
           members == IF c = None THEN Cohort ELSE {c}
<1>1. BoardAgrees(page, {})
    BY BoardInOrder
<1>2. page.board = NationalReturns(None, c, p)
    BY DEF Overview
<1>3. /\ page.board.reported = SumFunction([k \in members |-> page.board.cohorts[k].reported])
      /\ page.board.figures = SumFunction([k \in members |-> page.board.cohorts[k].figures])
    <2> DEFINE board == NationalReturns(None, c, p)
    <2>1. /\ board.reported = SumFunction([k \in members |-> board.cohorts[k].reported])
          /\ board.figures = SumFunction([k \in members |-> board.cohorts[k].figures])
        BY CohortsAddUp
    <2> HIDE DEF board, members, page
    <2> QED BY <1>2, <2>1 DEF board
<1>4. BoardAgrees(page, members)
    <2> HIDE DEF page, members
    <2> QED BY <1>1, <1>3 DEF BoardAgrees, SumOver
<1> QED BY <1>4

(* The cohort summaries agree with the board of the nation.                *)
LEMMA SummariesInOrder ==
    ASSUME TypeOK, NEW p
    PROVE  SummariesAgree(CohortSummaries(p), NationalReturns(None, None, p))
<1>1. ASSUME NEW k \in DOMAIN CohortSummaries(p)
      PROVE  CohortSummaries(p)[k].reporting = NationalReturns(None, None, p).cohorts[k].reported
    <2> DEFINE filed == {s \in Range(ActiveStates(k)) : Filed(s, p)}
    <2>1. k \in Cohort
        BY <1>1 DEF CohortSummaries
    <2>2. CohortSummaries(p)[k] = CohortSummary(k, p, Pages(p))
        BY <1>1 DEF CohortSummaries
    <2>3. CohortSummary(k, p, Pages(p)).reporting = Cardinality(filed)
        BY DEF CohortSummary
    <2>4. NationalReturns(None, None, p).cohorts
            = [j \in Cohort |-> CohortReturns(j, p, Range(BoardStates(None, None)))]
        <3>1. CountsItsStates(None, None, p)
            BY BoardCounts
        <3> QED BY <3>1 DEF CountsItsStates
    <2>5. BoardStates(None, None) = ActiveStates(None)
        BY DEF BoardStates
    <2>6. CohortReturns(k, p, Range(ActiveStates(None))).reported = Cardinality(filed)
        <3>1. ASSUME NEW c \in Cohort \cup {None}, c = None
              PROVE  CohortReturns(k, p, Range(ActiveStates(c))).reported = Cardinality(filed)
            <4> DEFINE own == {s \in Range(ActiveStates(c)) : Filed(s, p) /\ roster[s].cohort = k}
            <4>1. c \in {None, k}
                BY <3>1
            <4>2. CohortReturns(k, p, Range(ActiveStates(c))).reported = Cardinality(own)
                BY <2>1, <4>1, CohortFiled
            <4>3. own = filed
                BY <2>1, <4>1, CohortFiled
            <4> HIDE DEF own, filed
            <4> QED BY <4>2, <4>3
        <3> HIDE DEF filed
        <3> QED BY <3>1
    <2> QED BY <2>1, <2>2, <2>3, <2>4, <2>5, <2>6
<1> QED BY <1>1 DEF SummariesAgree

(* The model shows no figure of more states than reported.                 *)
LEMMA ModelInOrder ==
    ASSUME TypeOK, NEW p
    PROVE  NoMoreThanReported(AnalysisModel(p))
<1> DEFINE sts == ActiveStates(None)
<1>1. ASSUME NEW i \in Indicator
      PROVE  ModelRow(p, i, AnalyseIndicator(p, i, None), sts).reporting
               <= Cardinality(CurrentStates(p))
    <2> DEFINE page == AnalyseIndicator(p, i, None)
               figures == [n \in DOMAIN sts |-> page.states[sts[n]].line.value]
               shown == {n \in DOMAIN sts : figures[n] # None}
               f == [n \in shown |-> sts[n]]
    <2>1. ModelRow(p, i, page, sts).reporting = Cardinality(DOMAIN Present(figures))
        BY DEF ModelRow
    <2>2. DOMAIN Present(figures) = shown
        BY DEF Present, RestrictValues, Restrict
    <2>3. page.states = StateLayer(sts, p, i)
        BY DEF AnalyseIndicator
    <2> HIDE DEF page
    <2>4. \A n \in DOMAIN sts : figures[n] = Reading(sts[n], p, i).value
        <3>1. \A n \in DOMAIN sts : sts[n] \in Range(sts)
            BY DEF Range
        <3> QED BY <2>3, <3>1 DEF StateLayer, StateRow, Line
    <2>5. \A n \in shown : sts[n] \in CurrentStates(p)
        <3>1. \A n \in DOMAIN sts : sts[n] \in State
            BY ActiveAreStates
        <3>2. \A s : Reading(s, p, i).value # None => Analysable(s, p)
            BY DEF Reading, Blank
        <3>3. \A n \in shown : sts[n] \in State /\ Analysable(sts[n], p)
            BY <2>4, <3>1, <3>2
        <3> HIDE DEF shown, sts
        <3> QED BY <3>3 DEF CurrentStates, Current, Analysable
    <2>6. \A m, n \in shown : sts[m] = sts[n] => m = n
        BY ActiveAreStates, AssessmentAssumption DEF IsInjective
    <2>7. f \in Injection(shown, CurrentStates(p))
        <3>1. DOMAIN f = shown /\ \A n \in shown : f[n] = sts[n]
            OBVIOUS
        <3>2. f \in [shown -> CurrentStates(p)]
            BY <2>5
        <3>3. IsInjective(f)
            <4> HIDE DEF f, shown, sts
            <4> QED BY <2>6, <3>1 DEF IsInjective
        <3> QED BY <3>2, <3>3 DEF Injection
    <2>8. IsFiniteSet(CurrentStates(p))
        BY StatesFinite, FS_Subset DEF CurrentStates
    <2>9. Cardinality(shown) <= Cardinality(CurrentStates(p))
        <3> HIDE DEF f, shown
        <3> QED BY <2>7, <2>8, FS_Injection
    <2> QED BY <2>1, <2>2, <2>9 DEF page
<1>2. ASSUME NEW i \in DOMAIN AnalysisModel(p).rows
      PROVE  AnalysisModel(p).rows[i].reporting <= AnalysisModel(p).statesReporting
    <2>1. i \in Indicator
        BY <1>2 DEF AnalysisModel
    <2>2. AnalysisModel(p).rows[i] = ModelRow(p, i, AnalyseIndicator(p, i, None), sts)
        BY <1>2 DEF AnalysisModel
    <2>3. AnalysisModel(p).statesReporting = Cardinality(CurrentStates(p))
        BY DEF AnalysisModel
    <2> QED BY <1>1, <2>1, <2>2, <2>3
<1> QED BY <1>2 DEF NoMoreThanReported

(* A board counts the states of its scope and no others.                   *)
THEOREM BoardsCountTheirScopeAlways == Spec => []BoardsCountTheirScope
<1>1. TypeOK => BoardsCountTheirScope
    BY BoardInOrder, BoardWithCohorts, SummariesInOrder, ModelInOrder DEF BoardsCountTheirScope
<1> QED BY <1>1, AssessmentTypeCorrect, PTL
=============================================================================

------------------------------ MODULE Exposure ------------------------------
(***************************************************************************)
(* How much of a national result rests on figures the rules doubt, and     *)
(* what that makes of each return.  Nothing here changes a number.         *)
(***************************************************************************)
EXTENDS Figures

Scale == 10000              \* shares of a total are kept in ten-thousandths
MaterialShare == 5          \* percent of the national total
NotFitExposedShare == 10    \* percent of a state's weight

Abs(x) == IF x < 0 THEN -x ELSE x

CurrentStates(p) == {st \in State : Current(st, p)}

(* The rows that state a number.                                           *)
Valued(rows) == {n \in DOMAIN rows : rows[n].value # None}

(* As reported, nothing held out: every row of every current return.       *)
NationalTotal(p, i) ==
    LET stated(rows) == SumFunction([n \in Valued(rows) |-> rows[n].value])
    IN  SumFunction([st \in CurrentStates(p) |-> stated(RowsOf(st, p, i))])

(* The doubted figures: one per rule that found something on a figure.     *)
Doubted(p) ==
    UNION {
        {[state |-> st, indicator |-> f.indicator, rule |-> f.rule, blocks |-> f.blocks,
          reported |-> LastRow(st, p, f.indicator).value, expected |-> f.expected] :
            f \in {g \in latest[<<st, p>>].findings :
                     /\ g.severity \in {"ERROR", "WARNING"}
                     /\ g.indicator # None /\ RowsOf(st, p, g.indicator) # <<>>}} :
        st \in CurrentStates(p)}

DoubtedOn(p, i) == {f \in Doubted(p) : f.indicator = i}

(* How far a figure is likely to be out; None if the rule cannot say.      *)
Distortion(f) ==
    IF f.reported = None \/ f.expected = None THEN None ELSE f.expected - f.reported

ReportedOrZero(f) == IF f.reported = None THEN 0 ELSE f.reported

(* Mutant: two rules that flag one figure charge its error twice.          *)
NetDistortionSummed(p, i) ==
    LET sized == {f \in DoubtedOn(p, i) : Distortion(f) # None}
    IN  IF sized = {} THEN None ELSE SumFunction([f \in sized |-> Distortion(f)])

(* The doubts about one state's figure that say how far it is out, and the *)
(* largest gap claimed: a figure flagged by several rules is one error.    *)
Sized(st, p, i) == {f \in DoubtedOn(p, i) : f.state = st /\ Distortion(f) # None}
WorstGap(st, p, i) ==
    Distortion(CHOOSE f \in Sized(st, p, i) :
        \A g \in Sized(st, p, i) : Abs(Distortion(f)) >= Abs(Distortion(g)))

(* What the national total is likely out by.                               *)
NetDistortion(p, i) ==
    LET affected == {st \in State : Sized(st, p, i) # {}}
    IN  IF affected = {} THEN None ELSE SumFunction([st \in affected |-> WorstGap(st, p, i)])

IndicatorExposure(p, i) ==
    LET total == NationalTotal(p, i)
        exposed == SumFunction([f \in DoubtedOn(p, i) |-> ReportedOrZero(f)])
        gap == NetDistortion(p, i)
    IN  [exposedShare |-> IF total = 0 THEN 0 ELSE Quotient(100 * exposed, total),
         distortion |-> gap,
         material |-> gap # None /\ total > 0 /\ 100 * Abs(gap) >= MaterialShare * total,
         figures |-> Cardinality({f.state : f \in DoubtedOn(p, i)})]

-----------------------------------------------------------------------------
(* A state's weight is the share it supplies of each national total; what  *)
(* is doubted in it is driven by the size of each error.                   *)
Weight(st, p) ==
    LET share(rows, total) ==
            SumFunction([n \in Valued(rows) |-> Quotient(Scale * Abs(rows[n].value), total)])
    IN  SumFunction([i \in {j \in Indicator : NationalTotal(p, j) # 0} |->
                        share(RowsOf(st, p, i), NationalTotal(p, i))])

Charge(p, f) ==
    Quotient(Scale * Abs(IF Distortion(f) # None THEN Distortion(f) ELSE ReportedOrZero(f)),
             NationalTotal(p, f.indicator))

ExposedShare(st, p) ==
    LET charged == {f \in Doubted(p) : f.state = st /\ NationalTotal(p, f.indicator) # 0}
        exposed == SumFunction([f \in charged |-> Charge(p, f)])
    IN  IF Weight(st, p) = 0 THEN 0 ELSE Min({100, Quotient(100 * exposed, Weight(st, p))})

(* Blocking findings whose error moves the national total by half a        *)
(* percent; a total of zero is taken for one, and of a negative total no   *)
(* error is a positive share.                                              *)
MaterialFindings(st, p) ==
    {f \in Doubted(p) :
        /\ f.state = st /\ f.blocks /\ Distortion(f) # None
        /\ NationalTotal(p, f.indicator) >= 0
        /\ 200 * Abs(Distortion(f)) >= Max({1, NationalTotal(p, f.indicator)})}

(* Figures under query or unfit for use (the rows of one share its label). *)
OpenFindings(st, p) ==
    {i \in Indicator : RowsOf(st, p, i) # <<>> /\ latest[<<st, p>>].label[i] \in {"UNFIT", "QUERIED"}}

(* verdict_for_submission: materiality decides, not the count of findings. *)
Verdict(st, p) ==
    IF \A i \in Indicator : RowsOf(st, p, i) = <<>> THEN "NO_DATA"
    ELSE IF MaterialFindings(st, p) # {} \/ ExposedShare(st, p) >= NotFitExposedShare
    THEN "NOT_FIT"
    ELSE IF OpenFindings(st, p) # {} THEN "FIT_WITH_NOTES" ELSE "FIT"

(* What apply_verdicts leaves on every current return of the period.       *)
WithVerdicts(p) ==
    [u \in DOMAIN latest |->
        IF u[2] = p /\ Current(u[1], p)
        THEN [latest[u] EXCEPT !.verdict = Verdict(u[1], p),
                               !.material = Cardinality(MaterialFindings(u[1], p))]
        ELSE latest[u]]

(* The standing disclosure line of a period.                               *)
NationalSummary(p) ==
    LET affected == {i \in Indicator : DoubtedOn(p, i) # {}}
        figures(labels) == Cardinality({c \in CurrentStates(p) \X Indicator :
                              /\ RowsOf(c[1], p, c[2]) # <<>>
                              /\ latest[<<c[1], p>>].label[c[2]] \in labels})
    IN  [affected |-> affected,
         material |-> {i \in affected : IndicatorExposure(p, i).material},
         unfit |-> figures({"UNFIT"}), queried |-> figures({"QUERIED"})]
=============================================================================

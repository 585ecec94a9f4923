--------------------------- MODULE Reconciliation ---------------------------
(***************************************************************************)
(* The same indicators are reported monthly through the performance        *)
(* tracker and quarterly through the results framework.  A line compares   *)
(* the two for one indicator of one state, on the indicator's time basis.  *)
(***************************************************************************)
EXTENDS Figures

CONSTANTS
    RateTolerance,     \* how far apart two rates may be
    Implements         \* Implements[st]: the components st runs; {} means all

NeedsEveryPart == {"SUM", "MAX", "MIN"}
RateUnits == {"PERCENT", "RATIO", "SCORE"}

(* The catalogue's own basis wins; the default reads a figure as a         *)
(* position at the end of the period.                                      *)
TimeBasis(i) ==
    LET d == Def(i)
    IN  CASE d.basis # None -> d.basis
          [] d.basis = None /\ d.unit = "BOOLEAN" -> "LATEST"
          [] d.basis = None /\ d.unit # "BOOLEAN" /\ d.method \in {"MAX", "MIN"} -> d.method
          [] OTHER -> "SNAPSHOT"

(* The figure the finer ones come to.  They are numbered as the periods.   *)
Folded(basis, figures) ==
    IF DOMAIN figures = {} THEN None
    ELSE CASE basis \in {"SNAPSHOT", "LATEST"} -> figures[Max(DOMAIN figures)]
           [] basis = "MAX" -> Max(Range(figures))
           [] basis = "MIN" -> Min(Range(figures))
           [] OTHER -> SumFunction(figures)

Tolerance(i) == IF Def(i).unit \in RateUnits THEN RateTolerance ELSE 0

Within(x, y, slack) == IF x > y THEN x - y <= slack ELSE y - x <= slack

(* Another basis on which the figures would agree: the catalogue may be    *)
(* wrong rather than the return.                                           *)
ReconcilesAs(basis, figures, coarse, slack) ==
    LET bases == <<"SNAPSHOT", "SUM", "LATEST">>
        agreeing == {n \in DOMAIN bases :
                       bases[n] # basis /\ Within(coarse, Folded(bases[n], figures), slack)}
    IN  IF coarse = None \/ Cardinality(DOMAIN figures) < 2 \/ agreeing = {}
        THEN None ELSE bases[Min(agreeing)]

(* Mutant: a total is judged on the months that happen to be in.           *)
StatusEarly(i, coarse, fine, contributing, expected) ==
    CASE fine = None -> "TRACKER_MISSING"
      [] fine # None /\ TimeBasis(i) \notin NeedsEveryPart
            /\ Max(contributing) # Max(expected) -> "INCOMPLETE"
      [] OTHER -> IF coarse = None THEN "FRAMEWORK_MISSING"
                  ELSE IF Within(coarse, fine, Tolerance(i)) THEN "MATCHED" ELSE "MISMATCH"

(* A total needs every month, a position the last one; before that there   *)
(* is no verdict.                                                          *)
LineStatus(i, coarse, fine, contributing, expected) ==
    LET settled == IF TimeBasis(i) \in NeedsEveryPart THEN contributing = expected
                   ELSE Max(expected) \in contributing
    IN  CASE fine = None -> "TRACKER_MISSING"
          [] fine # None /\ ~settled -> "INCOMPLETE"
          [] OTHER -> IF coarse = None THEN "FRAMEWORK_MISSING"
                      ELSE IF Within(coarse, fine, Tolerance(i)) THEN "MATCHED" ELSE "MISMATCH"

(* The indicators of the components a state runs, or all.  The rules pass  *)
(* the retired ones too.                                                   *)
Reconcilable(st) ==
    LET reported == {i \in Indicator : Def(i).reported}
        run == {i \in reported : Def(i).component \in Implements[st]}
    IN  IF run # {} THEN run ELSE reported

CurrentFigure(st, p, i) == IF Current(st, p) THEN FigureOf(st, p, i) ELSE None

(* The figures of the parts that gave one, by the place of the part.       *)
PartValues(st, p, i) ==
    LET given == {n \in DOMAIN Parts[p] : CurrentFigure(st, Parts[p][n], i) # None}
    IN  [n \in given |-> CurrentFigure(st, Parts[p][n], i)]

(* One line for every indicator that either stream reports.  A state that  *)
(* has filed no month at all has nothing to reconcile.                     *)
Lines(st, p) ==
    LET line(i) ==
            LET coarse == CurrentFigure(st, p, i)
                figures == PartValues(st, p, i)
                fine == Folded(TimeBasis(i), figures)
                status == LineStatus(i, coarse, fine, DOMAIN figures, DOMAIN Parts[p])
            IN  [status |-> status, coarse |-> coarse, fine |-> fine,
                 reconcilesAs |-> IF status = "MISMATCH"
                                  THEN ReconcilesAs(TimeBasis(i), figures, coarse, Tolerance(i))
                                  ELSE None]
    IN  [i \in {j \in Reconcilable(st) :
                  /\ \E part \in Range(Parts[p]) : Current(st, part)
                  /\ CurrentFigure(st, p, j) # None \/ DOMAIN PartValues(st, p, j) # {}}
            |-> line(i)]

TrackerComplete(st, p) ==
    Parts[p] # <<>> /\ \A part \in Range(Parts[p]) : Current(st, part)

(* The share of the judged lines on which the streams agree.               *)
Agreement(lines) ==
    LET count(S) == Cardinality({i \in DOMAIN lines : lines[i].status \in S})
        judged == Cardinality(DOMAIN lines) - count({"INCOMPLETE"})
    IN  IF judged = 0 THEN None ELSE (100 * count({"MATCHED"})) \div judged
=============================================================================

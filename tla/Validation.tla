----------------------------- MODULE Validation -----------------------------
(***************************************************************************)
(* The rule engine: what a run of the rules over one return gets to see,   *)
(* and what it finds.                                                      *)
(***************************************************************************)
EXTENDS Rules

CONSTANTS
    Closed,            \* the cycles that are closed: a return came on a reopening
    HistoryDepth       \* approved returns the outlier check looks back over

(* The indicators of the components the state runs; {} means no matrix.    *)
ApplicableTo(st) ==
    {i \in Indicator : Def(i).active /\ Def(i).reported /\ Def(i).component \in Implements[st]}

(* What the state must report: the matrix, else what it has targets for,   *)
(* else the core indicators.                                               *)
ExpectedOf(st, p) ==
    LET targeted == {t.indicator : t \in {u \in Range(target) : u.state = st /\ u.period = p}}
        core == {i \in Indicator : Def(i).core /\ Def(i).active}
    IN  IF ApplicableTo(st) # {} THEN ApplicableTo(st)
        ELSE IF targeted # {} THEN targeted ELSE core

(* What the rows of a figure come to, by their position.                   *)
Effectives(st, p, i) ==
    LET rows == RowsOf(st, p, i)
    IN  [n \in {m \in DOMAIN rows : Effective(rows[m]) # None} |-> Effective(rows[n])]

(* What the state said last time, approved or not.                         *)
PreviousFigure(st, p, i) ==
    LET rows == RowsOf(st, Previous[p], i)
        said == {n \in DOMAIN rows : Effective(rows[n]) # None}
    IN  IF Previous[p] = None \/ said = {} THEN None ELSE Effective(rows[Max(said)])

(* The figures of its last other approved returns, of every family and     *)
(* also of later periods, by the number of the period and the position.    *)
History(st, p, i) ==
    LET approved == {n \in DOMAIN PeriodOrder :
                       PeriodOrder[n] # p /\ Analysable(st, PeriodOrder[n])}
        past == {n \in approved : Cardinality({m \in approved : m > n}) < HistoryDepth}
        said(n) == Effectives(st, PeriodOrder[n], i)
    IN  [r \in UNION {{n} \X DOMAIN said(n) : n \in past} |-> said(r[1])[r[2]]]

(* The figures of the other states approved for the period.                *)
Peers(st, p, i) ==
    LET others == {o \in State \ {st} : Analysable(o, p)}
    IN  [total |-> SumFunction([o \in others |-> SumFunction(Effectives(o, p, i))]),
         rows |-> SumFunction([o \in others |-> Cardinality(DOMAIN Effectives(o, p, i))])]

Context(st, p) ==
    [rows |-> latest[<<st, p>>].rows,
     unmapped |-> latest[<<st, p>>].unmapped,
     closed |-> p \in Closed,
     expected |-> ExpectedOf(st, p), applicable |-> ApplicableTo(st),
     previous |-> [i \in Indicator |-> PreviousFigure(st, p, i)],
     history |-> [i \in Indicator |-> History(st, p, i)],
     targets |-> [i \in Indicator |-> TargetFor(st, p, i)],
     peers |-> [i \in Indicator |-> Peers(st, p, i)],
     lines |-> Lines(st, p), complete |-> TrackerComplete(st, p)]

Findings(st, p) == Registered(Context(st, p))

(* run_validation, for the returns in S: the findings are replaced and an  *)
(* approval stays.  raise_queries then labels the figures.                 *)
Checked(S) ==
    [u \in DOMAIN latest |->
        IF u \notin S THEN latest[u]
        ELSE LET found == Findings(u[1], u[2])
                 doubt(i) == {f \in found : f.indicator = i /\ f.severity # "INFO"}
                 row == latest[u]
             IN  [row EXCEPT
                    !.findings = found,
                    !.status = IF @ = "APPROVED" THEN @ ELSE "VALIDATED",
                    !.label = [i \in Indicator |->
                        IF row.rows[i] = <<>> THEN @[i]
                        ELSE Relabel(@[i], \E f \in doubt(i) : f.blocks, doubt(i) # {})]]]
=============================================================================

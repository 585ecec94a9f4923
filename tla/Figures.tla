------------------------------ MODULE Figures ------------------------------
(***************************************************************************)
(* The figures in the database, as the analysis and the validation rules   *)
(* read them: of every state and period the latest return, with the rows   *)
(* of each indicator, and the reference data they are judged by.           *)
(*                                                                         *)
(* Returns has the versions, the queries and the review of a return; here  *)
(* a return is what those leave for the readers.                           *)
(***************************************************************************)
EXTENDS Aggregation, Disclosure

CONSTANTS
    StateOrder,        \* the states of the programme, ordered by name
    CohortOrder,       \* the cohorts, in their sort order
    PeriodOrder,       \* the calendar
    Parts,             \* Parts[p]: the finer periods inside p, oldest first
    Previous,          \* Previous[p]: the one before p in its family, or None
    IndicatorOrder,    \* the catalogue, by number
    Setups             \* the catalogues and filings a behaviour may be about

VARIABLES
    setup,        \* [def: the definition of each indicator, filings, proposals]
    latest,       \* latest[<<st, p>>]: the latest return of a state for a period
    roster,       \* roster[st]: its cohort, whether it reports, whether it is active
    target,       \* the rows of the targets table, oldest first
    rates         \* the slack the rules allow, as administrators last set it

store == <<setup, latest, roster, target, rates>>

State == Range(StateOrder)
Cohort == Range(CohortOrder)
Period == Range(PeriodOrder)
Indicator == Range(IndicatorOrder)

Def(i) == setup.def[i]

Filed(st, p) == <<st, p>> \in DOMAIN latest

(* A rejected return is nobody's current one.                              *)
Current(st, p) == Filed(st, p) /\ latest[<<st, p>>].status # "REJECTED"

(* Cleared to enter analysis.                                              *)
Analysable(st, p) == Filed(st, p) /\ latest[<<st, p>>].status = "APPROVED"

RowsOf(st, p, i) == IF Filed(st, p) THEN latest[<<st, p>>].rows[i] ELSE <<>>

(* What a look-up of one figure per indicator finds: the last row read.    *)
LastRow(st, p, i) == LET rows == RowsOf(st, p, i) IN rows[Len(rows)]

FigureOf(st, p, i) ==
    IF RowsOf(st, p, i) = <<>> THEN None ELSE Effective(LastRow(st, p, i))

(* Every reported figure of an analysable return counts, whatever its label.*)
Reading(st, p, i) ==
    IF Analysable(st, p) THEN Collapse(RowsOf(st, p, i), Def(i).method) ELSE Blank

(* The states expected to report, those of a cohort if one is given, each  *)
(* at its place in the order of names.                                     *)
ActiveStates(cohort) ==
    RestrictValues(StateOrder, LAMBDA st : /\ roster[st].active /\ roster[st].reporting
                                           /\ cohort \in {None, roster[st].cohort})

(* Targets.  A target without a state is read as a national one, whatever  *)
(* level it was loaded at; of several, the row read last stands.           *)
TargetRows(st, p, i) ==
    {n \in DOMAIN target :
        /\ target[n].period = p /\ target[n].indicator = i
        /\ IF st = None THEN target[n].level = "NATIONAL" \/ target[n].state = None
           ELSE target[n].level # "NATIONAL" /\ target[n].state = st}

TargetFor(st, p, i) ==
    LET rows == TargetRows(st, p, i) IN IF rows = {} THEN None ELSE target[Max(rows)].value

(* What the targets of several states come to, where there is no other.    *)
PooledTarget(sts, p, i) ==
    LET loaded == Column(sts, LAMBDA st : TargetFor(st, p, i))
    IN  IF DOMAIN loaded = {} THEN None
        ELSE IF Def(i).method = "SUM" THEN SumFunction(loaded) ELSE Mean(loaded)

NationalTarget(sts, p, i) ==
    IF TargetFor(None, p, i) # None THEN TargetFor(None, p, i) ELSE PooledTarget(sts, p, i)
=============================================================================

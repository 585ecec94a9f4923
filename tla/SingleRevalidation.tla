------------------------- MODULE SingleRevalidation -------------------------
(***************************************************************************)
(* Re-validating one return by hand, beside the handlers of Assessment,    *)
(* and what the code or its documents promise of figures and findings and  *)
(* the code does not keep.                                                 *)
(***************************************************************************)
EXTENDS AssessmentProperties

VARIABLE asked      \* the return last re-validated, None when something came after

(* The fields of the summary a run of the rules answers with.              *)
SummaryFields ==
    {"submission_id", "passed", "blocking", "error_count", "warning_count", "info_count",
     "usable_share_pct", "findings_by_dimension", "issues"}

(* The rules run; the audit entry then quotes a score from their summary.  *)
(* A field that is not there raises, and the transaction is rolled back.   *)
RevalidateSubmission(u) ==
    /\ Changing
    /\ Keep(IF "overall_score" \in SummaryFields THEN Checked({u}) ELSE latest)
    /\ asked' = u

ByHandSpec ==
    /\ Init /\ asked = None
    /\ [][ \/ Next /\ asked' = None
           \/ \E u \in DOMAIN latest : RevalidateSubmission(u) ]_<<vars, asked>>

-----------------------------------------------------------------------------
(* A return that was just re-validated has the findings of the rules as    *)
(* they are now.                                                           *)
RevalidationRunsTheRules ==
    asked # None => latest[asked].findings = Findings(asked[1], asked[2])

(* Every reported figure counts: a state whose rate differs from that of   *)
(* the others moves the national rate.                                     *)
EveryReportedFigureCounts ==
    \A p \in Period, i \in Indicator :
        \A st \in {s \in Range(ActiveStates(None)) : HasData(Reading(s, p, i))} :
            LET of(sts) == AggregateNational(Readings(sts, p, i), Def(i).method).value
                others == of(RestrictValues(ActiveStates(None), LAMBDA s : s # st))
            IN  others \notin {None, Reading(st, p, i).value} => of(ActiveStates(None)) # others
=============================================================================

----------------------------- MODULE MCReturns -----------------------------
(* Instances of Returns for TLC.  Definitions here give the constants that *)
(* a configuration file cannot write, and the parts of the next-state      *)
(* relation that a run about one question leaves out.                      *)
EXTENDS Corrections, TLC

CONSTANTS kebbi, month, quarter, schools, none

(* CON-002 finds a cumulative figure that falls and blocks; CON-001 finds  *)
(* a large movement and does not.                                          *)
Falls == [rule |-> "CON-002", indicator |-> schools, severity |-> "ERROR", blocks |-> TRUE]
Moves == [rule |-> "CON-001", indicator |-> schools, severity |-> "WARNING", blocks |-> FALSE]

NoRule == {}
OneRule == {Falls}
TwoRules == {Falls, Moves}
OneReport == {[i \in {schools} |-> 1]}
BlankOrOne == {[i \in {schools} |-> n] : n \in {none, 1}}
Standalone == [p \in Period |-> None]
WithinQuarter == [p \in Period |-> IF p = month THEN quarter ELSE None]

-----------------------------------------------------------------------------
(* Nobody closes a cycle: the returns on their own.                        *)
OpenSpec == Init /\ [][Filing \/ Review \/ Workflow]_vars

(* A row that confirms a figure of the rule that blocks, a plain "no       *)
(* change" on the same one, and a row that corrects one.                   *)
Sheet(q, r) ==
    LET confirm == [says |-> {"CONFIRM"}, figure |-> none, explained |-> TRUE]
        same == [says |-> {"CONFIRM", "CORRECT"}, figure |-> none, explained |-> TRUE]
        correct == [says |-> {"CORRECT"}, figure |-> 2, explained |-> TRUE]
    IN  <<Row(q, confirm), Row(q, same), Row(r, correct)>>

(* Returns for a month and its quarter, checked as they are filed.  Each   *)
(* has the finding that blocks, a month perhaps the other too; a figure is *)
(* 1, or blank where Reports allows it.  What remains is the work on the   *)
(* queries: an answer confirms the figure or proposes 2, in either period. *)
CorrectionSpec ==
    Init /\ [][ \/ \E st \in State, p \in Period, report \in Reports,
                      found, foundQ \in SUBSET Finding :
                      /\ p = quarter => found = {Falls}
                      /\ Falls \in found /\ foundQ \in {{}, {Falls}}
                      /\ Ingest(st, p, report, found, FALSE, TRUE, foundQ)
                \/ \E s \in DOMAIN submission : Approve(s)
                \/ \E q \in DOMAIN query :
                      \/ Accept(q) \/ Withdraw(q)
                      \/ Respond(q, None, q.period)
                      \/ \E target \in Period : Respond(q, 2, target)
                \/ \E st \in State : \E q \in SheetFor(st, month), r \in DOMAIN query :
                      /\ q.rule = "CON-002"
                      /\ IngestSheet(st, month, Sheet(q, r)) ]_vars

(* Returns that are approved, corrected, rejected and deleted while cycles *)
(* close, reopen and lapse around them.                                    *)
CalendarSpec ==
    Init /\ [][ \/ \E st \in State, p \in Period, report \in Reports,
                      found \in SUBSET Finding, auto \in BOOLEAN :
                      Ingest(st, p, report, found, auto, TRUE, {})
                \/ \E s \in DOMAIN submission : Approve(s) \/ Reject(s) \/ Delete(s)
                \/ \E q \in DOMAIN query :
                      \/ Accept(q)
                      \/ \E target \in Period : Respond(q, 2, target)
                \/ Administration ]_vars
=============================================================================

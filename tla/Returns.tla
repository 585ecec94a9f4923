------------------------------ MODULE Returns ------------------------------
(***************************************************************************)
(* The life of a state return: filing, validation, the queries raised on   *)
(* its figures, the review decisions, restatement and deletion.            *)
(*                                                                         *)
(* The database is three tables (functions whose domains are the keys of   *)
(* the stored rows).  A handler of the code runs in one transaction, so it *)
(* is one action: the tables are bundled in a record d, each helper of the *)
(* code is an operator from such a record to the next, a handler composes  *)
(* them in the order the code calls them, and Commit stores the outcome.   *)
(* A handler that raises commits nothing and is no action.                 *)
(*                                                                         *)
(* Which findings a validation run yields depends on the figures, their    *)
(* history, the other states and thresholds administrators retune; here it *)
(* is any set of findings.  Two issues of one rule on one figure open one  *)
(* query and leave the heavier label, so one finding stands for them.      *)
(***************************************************************************)
EXTENDS Naturals, Sequences, FiniteSets, Disclosure

CONSTANTS
    State, Period,
    Indicator,
    Rule,              \* codes of the validation rules
    Finding,           \* what a run may find: [rule, indicator, severity, blocks]
    Reports,           \* the reports a return may make: functions on sets of indicators
    Figure,            \* the figures a return may carry and a response may propose
    Encloses,          \* Encloses[p]: the quarter period p lies in, or None
    None,              \* SQL NULL: no indicator, no submission, no figure
    MaxSubmissions,    \* bound: returns ever filed
    MaxRaised,         \* bound: queries ever raised for one rule on one figure
    MaxRestatements,   \* bound: restatements of one stored figure
    MaxGrants, MaxGrantDays, Horizon   \* the bounds of Periods

VARIABLES
    submission,   \* submission[s]: the row of return s
    value,        \* value[<<s, i>>]: the figure return s carries for indicator i
    query,        \* query[q]: the data query q
    filed,        \* returns ever filed; ids are handed out in order
    today, isOpen, grant, landed   \* the variables of Periods

tables == <<submission, value, query, filed>>
calendar == <<today, isOpen, grant, landed>>
vars == <<submission, value, query, filed, today, isOpen, grant, landed>>

Gate == INSTANCE Periods

Severity == {"ERROR", "WARNING", "INFO"}

(* A figure may be blank: a form takes one without a value, and a column   *)
(* of a sheet that is recognised may have no number in it.                 *)
Reported == Figure \cup {None}

ASSUME ReturnsAssumption ==
    /\ MaxSubmissions \in Nat /\ MaxRaised \in Nat /\ MaxRestatements \in Nat
    /\ MaxGrants \in Nat /\ MaxGrantDays \in Nat /\ Horizon \in Nat
    /\ None \notin Nat /\ None \notin Indicator /\ None \notin Period /\ None \notin Figure
    /\ Encloses \in [Period -> Period \cup {None}]
    /\ Finding \subseteq [rule: Rule, indicator: Indicator \cup {None},
                          severity: Severity, blocks: BOOLEAN]
    /\ \A f \in Finding : f.blocks => f.severity = "ERROR"
    /\ Reports \subseteq UNION {[I -> Reported] : I \in (SUBSET Indicator) \ {{}}}
    /\ IsFiniteSet(Indicator) /\ IsFiniteSet(Finding)

SubmissionStatus == {"UPLOADED", "VALIDATED", "REJECTED", "APPROVED", "SUPERSEDED"}
QueryStatus == {"OPEN", "RESPONDED", "ACCEPTED", "REJECTED", "VERIFICATION", "WITHDRAWN"}
OpenQueryStatuses == {"OPEN", "RESPONDED", "REJECTED", "VERIFICATION"}

SubmissionId == Nat \ {0}
ValueId == SubmissionId \X Indicator

(* The n-th query ever raised by a rule on a state's figure for a period.  *)
QueryId == [state: State, period: Period, rule: Rule,
            indicator: Indicator \cup {None}, n: Nat]

Submission ==
    [state: State, period: Period, version: Nat, status: SubmissionStatus,
     current: BOOLEAN, findings: SUBSET Finding, openCount: Nat, heldCount: Nat]

(* trail: the value_revisions rows of the figure, oldest first.            *)
Revision == [query: QueryId, previous: Reported, new: Figure]
Value == [value: Reported, original: Reported, restated: BOOLEAN, label: Label,
          trail: Seq(Revision)]

(* The latest response of a query; the earlier ones are never read again.  *)
NoAnswer == [proposed |-> None, target |-> None]
Answer == [proposed: Figure \cup {None}, target: Period \cup {None}]

(* The columns no handler decides by (the resolution, the review notes and *)
(* outcome of a response, the verification flag, the dates) are left out.  *)
Query == [submission: SubmissionId \cup {None}, severity: Severity, status: QueryStatus,
          answer: Answer]

TypeOK ==
    /\ filed \in Nat
    /\ DOMAIN submission \subseteq 1..filed
    /\ submission \in [DOMAIN submission -> Submission]
    /\ DOMAIN value \subseteq ValueId
    /\ value \in [DOMAIN value -> Value]
    /\ DOMAIN query \subseteq QueryId
    /\ query \in [DOMAIN query -> Query]

Init ==
    /\ submission = <<>> /\ value = <<>> /\ query = <<>> /\ filed = 0
    /\ Gate!Init

-----------------------------------------------------------------------------
(* Reading the tables.                                                     *)

Db == [submission |-> submission, value |-> value, query |-> query]

(* A transaction commits.  The bounds on raised queries and restatements   *)
(* belong to the model.                                                    *)
Commit(d) ==
    /\ \A q \in DOMAIN d.query : q.n <= MaxRaised
    /\ \A v \in DOMAIN d.value : Len(d.value[v].trail) <= MaxRestatements
    /\ submission' = d.submission
    /\ value' = d.value
    /\ query' = d.query

SameUnit(d, s, t) ==
    /\ d.submission[s].state = d.submission[t].state
    /\ d.submission[s].period = d.submission[t].period

(* The returns the code selects as current for a state and period.         *)
CurrentFor(d, st, p) ==
    {s \in DOMAIN d.submission :
        d.submission[s].state = st /\ d.submission[s].period = p /\ d.submission[s].current}

IsOpen(d, q) == d.query[q].status \in OpenQueryStatuses

OpenQueriesOn(d, s) == {q \in DOMAIN d.query : d.query[q].submission = s /\ IsOpen(d, q)}

HeldOn(d, s) == {v \in DOMAIN d.value : v[1] = s /\ ~IsValid(d.value[v].label)}

-----------------------------------------------------------------------------
(* The helpers of the pipeline and of the query service.                   *)

RefreshCounts(d, S) ==
    [d EXCEPT !.submission =
        [s \in DOMAIN d.submission |->
            IF s \in S
            THEN [d.submission[s] EXCEPT !.openCount = Cardinality(OpenQueriesOn(d, s)),
                                         !.heldCount = Cardinality(HeldOn(d, s))]
            ELSE d.submission[s]]]

(* The open queries of the returns in S follow the figure onto return s,   *)
(* which takes their labels where it already carries the figure.           *)
CarryForward(d, S, s) ==
    LET moved == {q \in DOMAIN d.query : d.query[q].submission \in S /\ IsOpen(d, q)}
        onFigure(v) == {q \in moved : v = <<s, q.indicator>>}
        carried ==
            [d EXCEPT
                !.query = [q \in DOMAIN d.query |->
                             IF q \in moved THEN [d.query[q] EXCEPT !.submission = s]
                                            ELSE d.query[q]],
                !.value = [v \in DOMAIN d.value |->
                             [d.value[v] EXCEPT !.label =
                                Relabel(@, \E q \in onFigure(v) : d.query[q].severity = "ERROR",
                                        onFigure(v) # {})]]]
    IN  IF moved = {} THEN d
        ELSE RefreshCounts(carried, {s} \cup {d.query[q].submission : q \in moved})

(* Mutants: the queries are not carried; an approval is not withdrawn; the *)
(* look-up forgets the period.                                             *)
SupersedeOnly(d, s) ==
    [d EXCEPT !.submission = [t \in DOMAIN d.submission |->
        IF t # s /\ SameUnit(d, s, t) /\ d.submission[t].current
        THEN [d.submission[t] EXCEPT !.current = FALSE,
                                     !.status = IF @ = "APPROVED" THEN "SUPERSEDED" ELSE @]
        ELSE d.submission[t]]]

SupersedeKeepsStatus(d, s) ==
    [d EXCEPT !.submission = [t \in DOMAIN d.submission |->
        [d.submission[t] EXCEPT !.current = @ /\ (t = s \/ ~SameUnit(d, s, t))]]]

SupersedeAllPeriods(d, s) ==
    [d EXCEPT !.submission = [t \in DOMAIN d.submission |->
        IF t # s /\ d.submission[t].current /\ d.submission[t].state = d.submission[s].state
        THEN [d.submission[t] EXCEPT !.current = FALSE, !.status = "SUPERSEDED"]
        ELSE d.submission[t]]]

(* Retire every other current return of the state and period of return s.  *)
SupersedePrevious(d, s) ==
    LET previous == {t \in DOMAIN d.submission :
                        t # s /\ SameUnit(d, s, t) /\ d.submission[t].current}
        retired(row) == [row EXCEPT !.current = FALSE,
                                    !.status = IF @ = "APPROVED" THEN "SUPERSEDED" ELSE @]
        swept == [d EXCEPT !.submission = [t \in DOMAIN d.submission |->
                    IF t \in previous THEN retired(d.submission[t]) ELSE d.submission[t]]]
    IN  CarryForward(swept, previous, s)

(* Mutant: an approval does not survive a run of the rules.                *)
RunValidationDemotes(d, found) ==
    [d EXCEPT !.submission = [s \in DOMAIN d.submission |->
        IF s \in DOMAIN found
        THEN [d.submission[s] EXCEPT !.findings = found[s], !.status = "VALIDATED"]
        ELSE d.submission[s]]]

(* Replace the findings of each return in DOMAIN found.  An approval stays.*)
RunValidation(d, found) ==
    [d EXCEPT !.submission = [s \in DOMAIN d.submission |->
        IF s \in DOMAIN found
        THEN [d.submission[s] EXCEPT !.findings = found[s],
                !.status = IF @ = "APPROVED" THEN @ ELSE "VALIDATED"]
        ELSE d.submission[s]]]

Queryable(d, s) == {f \in d.submission[s].findings : f.severity \in {"ERROR", "WARNING"}}

(* Mutant: only queries on this very return count as raised already.       *)
NewQueriesPerReturn(d, s) ==
    LET row == d.submission[s]
        raisedBy(f) == {q \in DOMAIN d.query :
                          /\ q.state = row.state /\ q.period = row.period
                          /\ q.rule = f.rule /\ q.indicator = f.indicator}
    IN  {[state |-> row.state, period |-> row.period, rule |-> f.rule,
          indicator |-> f.indicator, n |-> Cardinality(raisedBy(f)) + 1] :
            f \in {g \in Queryable(d, s) :
                     \A q \in raisedBy(g) : d.query[q].submission # s \/ ~IsOpen(d, q)}}

(* A finding opens no second query while one by the same rule on the same  *)
(* figure of the state's period is open, whichever return that one is on.  *)
NewQueries(d, s) ==
    LET row == d.submission[s]
        raisedBy(f) == {q \in DOMAIN d.query :
                          /\ q.state = row.state /\ q.period = row.period
                          /\ q.rule = f.rule /\ q.indicator = f.indicator}
    IN  {[state |-> row.state, period |-> row.period, rule |-> f.rule,
          indicator |-> f.indicator, n |-> Cardinality(raisedBy(f)) + 1] :
            f \in {g \in Queryable(d, s) : \A q \in raisedBy(g) : ~IsOpen(d, q)}}

(* Label the figures of the returns in S by their findings, whether or not *)
(* the finding opens a query, and open the queries that are missing.       *)
RaiseQueries(d, S) ==
    LET new(s) == NewQueries(d, s)
        opened == UNION {new(s) : s \in S}
        owner(q) == CHOOSE s \in S : q \in new(s)
        severity(q) == (CHOOSE f \in Queryable(d, owner(q)) :
                           f.rule = q.rule /\ f.indicator = q.indicator).severity
        on(v) == IF v[1] \in S THEN {f \in Queryable(d, v[1]) : f.indicator = v[2]} ELSE {}
    IN  RefreshCounts(
          [d EXCEPT
             !.value = [v \in DOMAIN d.value |->
                          [d.value[v] EXCEPT !.label =
                             Relabel(@, \E f \in on(v) : f.blocks, on(v) # {})]],
             !.query = [q \in DOMAIN d.query \cup opened |->
                          IF q \in opened
                          THEN [submission |-> owner(q), severity |-> severity(q),
                                status |-> "OPEN", answer |-> NoAnswer]
                          ELSE d.query[q]]],
          S)

(* Mutant: the first query settled releases the figure.                    *)
ReleaseAtOnce(d, q) ==
    LET v == <<d.query[q].submission, q.indicator>>
    IN  IF v \in DOMAIN d.value /\ ~IsValid(d.value[v].label)
        THEN [d EXCEPT !.value[v].label = Cleared(d.value[v].restated)]
        ELSE d

(* Lift the flag query q put on its figure, unless another open query on   *)
(* the same return still flags it.  A figure that is merely queried was    *)
(* never unfit for use, and keeps its label.                               *)
ReleaseQuarantine(d, q) ==
    LET v == <<d.query[q].submission, q.indicator>>
        others == {o \in OpenQueriesOn(d, v[1]) \ {q} : o.indicator = q.indicator}
    IN  IF v \in DOMAIN d.value /\ ~IsValid(d.value[v].label) /\ others = {}
        THEN [d EXCEPT !.value[v].label = Cleared(d.value[v].restated)]
        ELSE d

(* Mutant: the stored counts are left as they were.                        *)
SettleUncounted(d, q, status) == [d EXCEPT !.query[q].status = status]

(* The query is closed, and its return, if it is still on one, recounted.  *)
Settle(d, q, status) ==
    RefreshCounts([d EXCEPT !.query[q].status = status], {d.query[q].submission})

-----------------------------------------------------------------------------
(* Filing.                                                                 *)

(* The new row takes the next version of its state and period.             *)
NextVersion(d, st, p) ==
    LET versions == {0} \cup {d.submission[s].version :
                        s \in {t \in DOMAIN d.submission :
                                 d.submission[t].state = st /\ d.submission[t].period = p}}
    IN  1 + CHOOSE n \in versions : \A m \in versions : m <= n

AddSubmission(d, s, st, p) ==
    [d EXCEPT !.submission =
        [t \in DOMAIN d.submission \cup {s} |->
            IF t = s
            THEN [state |-> st, period |-> p, version |-> NextVersion(d, st, p),
                  status |-> "UPLOADED", current |-> TRUE, findings |-> {},
                  openCount |-> 0, heldCount |-> 0]
            ELSE d.submission[t]]]

PersistValues(d, s, report) ==
    [d EXCEPT !.value =
        [v \in DOMAIN d.value \cup ({s} \X DOMAIN report) |->
            IF v \in {s} \X DOMAIN report
            THEN [value |-> report[v[2]], original |-> report[v[2]], restated |-> FALSE,
                  label |-> "CLEAN", trail |-> <<>>]
            ELSE d.value[v]]]

(* Validate the returns in DOMAIN found and, unless the caller asked not   *)
(* to, open queries on what was found.                                     *)
Check(d, found, raise) ==
    LET checked == RunValidation(d, found)
    IN  IF raise THEN RaiseQueries(checked, DOMAIN found) ELSE checked

Approved(d, s) ==
    [d EXCEPT !.submission[s].status = "APPROVED", !.submission[s].current = TRUE]

(* The current returns for the quarter that encloses period p.             *)
EnclosingReturns(d, st, p) ==
    IF Encloses[p] = None THEN {} ELSE CurrentFor(d, st, Encloses[p])

(* Mutant: the channel that never asks whether the cycle is closed.        *)
IngestUngated(st, p, report, found, auto, raise, foundQ) ==
    LET s == filed + 1
        stored  == PersistValues(SupersedePrevious(AddSubmission(Db, s, st, p), s), s, report)
    IN  /\ filed < MaxSubmissions
        /\ filed' = s
        /\ foundQ = {}
        /\ Commit(Check(stored, [t \in {s} |-> found], raise))
        /\ UNCHANGED calendar

(* ingest_upload and ingest_manual: the return lands, its predecessor's    *)
(* open queries move to it before it has any figures, then it is checked,  *)
(* perhaps approved on the spot, and the enclosing quarter checked again.  *)
Ingest(st, p, report, found, auto, raise, foundQ) ==
    LET s == filed + 1
        stored  == PersistValues(SupersedePrevious(AddSubmission(Db, s, st, p), s), s, report)
        checked == Check(stored, [t \in {s} |-> found], raise)
        decided == IF auto THEN Approved(checked, s) ELSE checked
        coarser == EnclosingReturns(decided, st, p)
    IN  /\ filed < MaxSubmissions
        /\ Gate!File(st, p)
        /\ filed' = s
        /\ coarser = {} => foundQ = {}
        /\ Commit(Check(decided, [t \in coarser |-> foundQ], raise))

-----------------------------------------------------------------------------
(* Review decisions on a return.                                           *)

(* Mutant: the approval does not retire the version in force.              *)
ApproveBeside(s) ==
    /\ submission[s].status # "REJECTED"
    /\ Commit(Approved(Db, s))
    /\ UNCHANGED <<filed, calendar>>

(* Any version that is not rejected may be approved, a superseded one too: *)
(* the current one is retired and its open queries come along.             *)
Approve(s) ==
    /\ submission[s].status # "REJECTED"
    /\ Commit(Approved(SupersedePrevious(Db, s), s))
    /\ UNCHANGED <<filed, calendar>>

(* No other version becomes current, and the open queries stay.            *)
Reject(s) ==
    /\ Commit([Db EXCEPT !.submission[s].status = "REJECTED",
                         !.submission[s].current = FALSE])
    /\ UNCHANGED <<filed, calendar>>

(* The one re-validation that commits.  That of a single return reads a    *)
(* field its summary no longer has and raises: see Assessment.             *)
RevalidatePeriod(p) ==
    LET S == {s \in DOMAIN submission : submission[s].period = p /\ submission[s].current}
    IN  /\ \E found \in [S -> SUBSET Finding] : Commit(Check(Db, found, TRUE))
        /\ UNCHANGED <<filed, calendar>>

(* The figures go with the return, its queries are left without one.       *)
Delete(s) ==
    /\ Commit([submission |-> [t \in DOMAIN submission \ {s} |-> submission[t]],
               value |-> [v \in {w \in DOMAIN value : w[1] # s} |-> value[v]],
               query |-> [q \in DOMAIN query |->
                            IF query[q].submission = s
                            THEN [query[q] EXCEPT !.submission = None] ELSE query[q]]])
    /\ UNCHANGED <<filed, calendar>>

-----------------------------------------------------------------------------
(* The query workflow.                                                     *)

Respond(q, proposed, target) ==
    /\ IsOpen(Db, q)
    /\ Commit([Db EXCEPT
          !.query[q].answer = [proposed |-> proposed, target |-> target],
          !.query[q].status = "RESPONDED"])
    /\ UNCHANGED <<filed, calendar>>

(* Mutant: any version of the period will do.                              *)
CorrectsAnyVersion(q) ==
    {v \in DOMAIN value :
        /\ v[2] = q.indicator
        /\ submission[v[1]].state = q.state
        /\ submission[v[1]].period = query[q].answer.target}

(* The figure the latest response corrects: on the current return of the   *)
(* period the response names, which need not be the one queried.           *)
Corrects(q) ==
    {v \in DOMAIN value :
        v[2] = q.indicator /\ v[1] \in CurrentFor(Db, q.state, query[q].answer.target)}

(* Mutant: a revision starts from the original, whatever was revised since.*)
RestatementFromOriginal(row, q) ==
    [row EXCEPT !.value = query[q].answer.proposed,
                !.original = IF row.original = None THEN row.value ELSE row.original,
                !.restated = TRUE,
                !.trail = Append(row.trail, [query |-> q, previous |-> row.original,
                                             new |-> query[q].answer.proposed])]

(* The proposed figure takes the place of the stored one, which becomes    *)
(* the original of a figure that has none.                                 *)
Restatement(row, q) ==
    [row EXCEPT !.value = query[q].answer.proposed,
                !.original = IF row.original = None THEN row.value ELSE row.original,
                !.restated = TRUE,
                !.trail = Append(row.trail, [query |-> q, previous |-> row.value,
                                             new |-> query[q].answer.proposed])]

Restated(d, v, q) == [d EXCEPT !.value[v] = Restatement(d.value[v], q)]

(* Mutant: a response that proposes no figure is applied like one that does.*)
AcceptAlwaysRestates(q) ==
    /\ query[q].answer # NoAnswer
    /\ \E v \in Corrects(q) :
          Commit(Settle(ReleaseQuarantine(Restated(Db, v, q), q), q, "ACCEPTED"))
    /\ UNCHANGED <<filed, calendar>>

(* Needs a response and nothing else: the query may be settled already.    *)
Accept(q) ==
    LET Accepted(d) == Settle(ReleaseQuarantine(d, q), q, "ACCEPTED")
    IN  /\ query[q].answer # NoAnswer
        /\ \/ query[q].answer.proposed = None /\ Commit(Accepted(Db))
           \/ /\ query[q].answer.proposed # None
              /\ \E v \in Corrects(q) : Commit(Accepted(Restated(Db, v, q)))
        /\ UNCHANGED <<filed, calendar>>

(* Back to the state.  There is no look at the query's status.             *)
RejectAnswer(q) ==
    /\ Commit([Db EXCEPT !.query[q].status = "REJECTED"])
    /\ UNCHANGED <<filed, calendar>>

Withdraw(q) ==
    /\ IsOpen(Db, q)
    /\ Commit(Settle(ReleaseQuarantine(Db, q), q, "WITHDRAWN"))
    /\ UNCHANGED <<filed, calendar>>

(* There is no look at the query's status here either.                     *)
Escalate(q) ==
    /\ Commit([Db EXCEPT !.query[q].status = "VERIFICATION"])
    /\ UNCHANGED <<filed, calendar>>

-----------------------------------------------------------------------------
Filing ==
    \E st \in State, p \in Period, report \in Reports, found \in SUBSET Finding,
       auto, raise \in BOOLEAN, foundQ \in SUBSET Finding :
        Ingest(st, p, report, found, auto, raise, foundQ)

Review ==
    \/ \E s \in DOMAIN submission : Approve(s) \/ Reject(s) \/ Delete(s)
    \/ \E p \in Period : RevalidatePeriod(p)

Workflow ==
    \E q \in DOMAIN query :
        \/ \E proposed \in Figure \cup {None}, target \in Period : Respond(q, proposed, target)
        \/ Accept(q) \/ RejectAnswer(q) \/ Withdraw(q) \/ Escalate(q)

(* Closing, reopening, granting, withdrawing and the calendar touch no row *)
(* of the three tables.                                                    *)
Administration ==
    /\ \/ \E p \in Period : Gate!ClosePeriod(p) \/ Gate!ReopenPeriod(p)
       \/ \E p \in Period, st \in State, days \in 1..MaxGrantDays :
             Gate!GrantReopening(p, st, days)
       \/ \E g \in DOMAIN grant : Gate!RevokeReopening(g)
       \/ Gate!DayPasses
    /\ UNCHANGED tables

Next == Filing \/ Review \/ Workflow \/ Administration

Spec == Init /\ [][Next]_vars
=============================================================================

----------------------------- MODULE Assessment -----------------------------
(***************************************************************************)
(* How the stored figures change, and with them the findings, the labels   *)
(* and the verdicts: the handlers of Returns, reduced to what the readers  *)
(* of a figure see of them, and the handlers that maintain the reference   *)
(* data.  A transaction works on intermediate tables; After(t) reads a     *)
(* table t as the engine would.                                            *)
(***************************************************************************)
EXTENDS Analytics, Validation, Exposure

(* How much of the bounds of the setup is used: setup.maxFilings returns   *)
(* are filed, and setup.maxChanges restatements, decisions and changes of  *)
(* reference data are made.                                                *)
VARIABLES filings, changes

TimeBases == {"SNAPSHOT", "LATEST", "SUM", "MAX", "MIN"}
Rosters == [State -> [cohort : Cohort, reporting : BOOLEAN, active : BOOLEAN]]

(* The rows of a figure: numbers where there are any.                      *)
IsColumn(rows) ==
    /\ rows \in Seq(Range(rows))
    /\ \A r \in Range(rows) :
          /\ DOMAIN r = {"value", "numerator", "denominator", "label", "raw"}
          /\ {r.value, r.numerator} \subseteq Int \cup {None}
          /\ r.denominator \in Nat \cup {None}

IsFiling(f) ==
    /\ f.state \in State /\ f.period \in Period
    /\ DOMAIN f.rows = Indicator /\ \A i \in Indicator : IsColumn(f.rows[i])

IsSetup(s) ==
    /\ \A i \in Indicator : s.def[i].basis \in TimeBases \cup {None} /\ s.def[i].method \in Method
    /\ \A f \in s.filings : IsFiling(f)
    /\ s.proposals \subseteq Int
    /\ s.roster \in Rosters
    /\ \A m \in s.moves : m.state \in State /\ m.cohort \in Cohort /\ m.active \in BOOLEAN
    /\ s.maxFilings \in Nat /\ s.maxChanges \in Nat

(* The catalogue, the states and the declarations of the rules are lists,  *)
(* the calendar nests shorter periods in longer ones and has earlier ones  *)
(* before later ones, and the setups are of the kinds they should be.      *)
ASSUME AssessmentAssumption ==
    /\ None \notin Int /\ None # "INFO" /\ None \notin Cohort
    /\ IndicatorOrder \in Seq(Indicator) /\ StateOrder \in Seq(State) /\ IsInjective(StateOrder)
    /\ CohortOrder \in Seq(Cohort)
    /\ IsFiniteSet(Subset) /\ IsFiniteSet(Identity) /\ IsFiniteSet(Distinct)
    /\ \A p \in Period : Parts[p] \in Seq(Period) /\ p \notin Range(Parts[p]) /\ p # Previous[p]
    /\ \A s \in Setups : IsSetup(s)

vars == <<store, filings, changes>>

After(t) == INSTANCE Validation WITH latest <- t
AfterVerdicts(t) == INSTANCE Exposure WITH latest <- t

Status == {"VALIDATED", "APPROVED", "REJECTED"}

(* Rows of the targets table with the same key.                            *)
SameTarget(t, u) ==
    /\ t.level = u.level /\ t.state = u.state
    /\ t.period = u.period /\ t.indicator = u.indicator

IsReturn(r) ==
    /\ DOMAIN r = {"status", "rows", "unmapped", "label", "findings", "verdict", "material"}
    /\ r.status \in Status
    /\ r.label \in [Indicator -> Label]
    /\ DOMAIN r.rows = Indicator /\ \A i \in Indicator : IsColumn(r.rows[i])
    /\ IsFiniteSet(r.findings)
    /\ r.verdict \in {None, "NO_DATA", "FIT", "FIT_WITH_NOTES", "NOT_FIT"}
    /\ r.material \in Nat

IsTable(t) == DOMAIN t \subseteq State \X Period /\ \A u \in DOMAIN t : IsReturn(t[u])

TypeOK ==
    /\ setup \in Setups
    /\ IsTable(latest)
    /\ roster \in Rosters
    /\ target \in Seq(Range(target))
    /\ \A m, n \in DOMAIN target : m # n => ~SameTarget(target[m], target[n])
    /\ filings \in 0..setup.maxFilings /\ changes \in 0..setup.maxChanges

Init ==
    /\ setup \in Setups
    /\ latest = <<>> /\ target = <<>>
    /\ roster = setup.roster
    /\ rates = setup.rates
    /\ filings = 0 /\ changes = 0

Changing == changes < setup.maxChanges /\ changes' = changes + 1 /\ UNCHANGED <<setup, filings>>

Keep(t) == latest' = t /\ UNCHANGED <<roster, target, rates>>

-----------------------------------------------------------------------------
(* A return takes the place of its predecessor.                            *)
Landed(f) ==
    [u \in DOMAIN latest \cup {<<f.state, f.period>>} |->
        IF u # <<f.state, f.period>> THEN latest[u]
        ELSE [status |-> "VALIDATED", rows |-> f.rows, unmapped |-> f.unmapped,
              label |-> [i \in Indicator |-> "CLEAN"], findings |-> {},
              verdict |-> None, material |-> 0]]

(* The coarser periods whose current return of the state is checked again. *)
Enclosing(st, p) ==
    {<<st, q>> : q \in {c \in Period : p \in Range(Parts[c]) /\ Current(st, c)}}

(* Mutant: the quarter is not looked at again when a month arrives.        *)
FileAlone(f, auto) ==
    LET u == <<f.state, f.period>>
        checked == After(Landed(f))!Checked({u})
    IN  /\ filings < setup.maxFilings /\ filings' = filings + 1
        /\ latest' = IF auto THEN [checked EXCEPT ![u].status = "APPROVED"] ELSE checked
        /\ roster' = [roster EXCEPT ![f.state].reporting = TRUE]
        /\ UNCHANGED <<setup, target, rates, changes>>

(* A return is filed, checked and perhaps approved on the spot; its state  *)
(* counts as reporting from then on, and the quarter it lies in is checked *)
(* again.                                                                  *)
File(f, auto) ==
    LET u == <<f.state, f.period>>
        checked == After(Landed(f))!Checked({u})
        decided == IF auto THEN [checked EXCEPT ![u].status = "APPROVED"] ELSE checked
    IN  /\ filings < setup.maxFilings /\ filings' = filings + 1
        /\ latest' = After(decided)!Checked(Enclosing(f.state, f.period))
        /\ roster' = [roster EXCEPT ![f.state].reporting = TRUE]
        /\ UNCHANGED <<setup, target, rates, changes>>

Approve(u) ==
    /\ latest[u].status = "VALIDATED"
    /\ Changing /\ Keep([latest EXCEPT ![u].status = "APPROVED"])

Reject(u) ==
    /\ latest[u].status # "REJECTED"
    /\ Changing /\ Keep([latest EXCEPT ![u].status = "REJECTED"])

(* An accepted response: the value of the figure changes, its components   *)
(* and the findings do not.  The label is lifted unless another open query *)
(* holds the figure.                                                       *)
Restate(u, i, v) ==
    /\ Current(u[1], u[2]) /\ latest[u].rows[i] # <<>>
    /\ Changing
    /\ \E label \in {latest[u].label[i],
                     IF IsValid(latest[u].label[i]) THEN latest[u].label[i] ELSE Cleared(TRUE)} :
          Keep([latest EXCEPT ![u].rows[i][1].value = v, ![u].label[i] = label])

(* Mutant: the verdicts are settled before the rules have run.             *)
RevalidatePeriodVerdictsFirst(p) ==
    LET current == {u \in DOMAIN latest : u[2] = p /\ Current(u[1], p)}
    IN  Changing /\ Keep(After(WithVerdicts(p))!Checked(current))

(* The rules run for every current return of the period; materiality is    *)
(* judged when the national picture is whole.                              *)
RevalidatePeriod(p) ==
    LET current == {u \in DOMAIN latest : u[2] = p /\ Current(u[1], p)}
    IN  Changing /\ Keep(AfterVerdicts(After(latest)!Checked(current))!WithVerdicts(p))

-----------------------------------------------------------------------------
(* Reference data.                                                         *)

(* Mutant: the row that is there is not looked for.                        *)
UpsertTargetAppends(row) ==
    /\ Changing /\ target' = Append(target, row)
    /\ UNCHANGED <<latest, roster, rates>>

(* Create the target or replace its value.                                 *)
UpsertTarget(row) ==
    /\ row.level = "NATIONAL" => row.state = None
    /\ Changing
    /\ target' = IF \E t \in Range(target) : SameTarget(t, row)
                 THEN [n \in DOMAIN target |->
                         IF SameTarget(target[n], row) THEN row ELSE target[n]]
                 ELSE Append(target, row)
    /\ UNCHANGED <<latest, roster, rates>>

(* A state moves to another cohort, or is retired or taken back.           *)
UpdateState(st, cohort, active) ==
    /\ Changing
    /\ roster' = [roster EXCEPT ![st].cohort = cohort, ![st].active = active]
    /\ roster' # roster
    /\ UNCHANGED <<latest, target, rates>>

Retune(r) ==
    /\ Changing /\ r # rates /\ rates' = r
    /\ UNCHANGED <<latest, roster, target>>

Next ==
    \/ \E f \in setup.filings, auto \in setup.autos : File(f, auto)
    \/ \E u \in DOMAIN latest :
          \/ Approve(u) \/ Reject(u)
          \/ \E i \in Indicator, v \in setup.proposals : Restate(u, i, v)
    \/ \E p \in Period : RevalidatePeriod(p)
    \/ \E row \in setup.targets : UpsertTarget(row)
    \/ \E m \in setup.moves : UpdateState(m.state, m.cohort, m.active)
    \/ \E r \in setup.retunes : Retune(r)

Spec == Init /\ [][Next]_vars
=============================================================================

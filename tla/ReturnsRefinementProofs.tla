---------------------- MODULE ReturnsRefinementProofs ----------------------
(***************************************************************************)
(* What the life of a return implements: the period gate it is filed       *)
(* through, and PublishedFigures, what the readers of the approved figures *)
(* see, a transaction at a time.                                           *)
(*                                                                         *)
(* Every handler is a step of Periods or leaves the gate alone, and a      *)
(* closed cycle takes a return only against a reopening that the same      *)
(* transaction spends.                                                     *)
(*                                                                         *)
(* What is published for a state and period depends on which of its        *)
(* returns are approved and on the figures these carry.  Most handlers     *)
(* change neither (Untouched).  Filing, approving, rejecting and deleting  *)
(* change the approvals of one unit, and an accepted response one figure.  *)
(***************************************************************************)
EXTENDS ReturnsFiguresProofs


(* Every handler asks the gate, administers it or leaves it alone.         *)
LEMMA GateStep == [Next]_vars => [Gate!Next]_(Gate!vars)
<1> SUFFICES ASSUME [Next]_vars PROVE Gate!Next \/ UNCHANGED calendar
    BY DEF Gate!vars, calendar
<1>1. CASE Filing
    BY <1>1 DEF Filing, Ingest, Gate!Next
<1>2. CASE Review
    BY <1>2 DEF Review, Approve, Reject, Delete, RevalidatePeriod
<1>3. CASE Workflow
    BY <1>3 DEF Workflow, Respond, Accept, RejectAnswer, Withdraw, Escalate
<1>4. CASE Administration
    BY <1>4 DEF Administration, Gate!Next
<1>5. CASE UNCHANGED vars
    BY <1>5 DEF vars, calendar
<1> QED BY <1>1, <1>2, <1>3, <1>4, <1>5 DEF Next

(* The life of a return implements the period gate.                        *)
THEOREM ImplementsPeriods == Spec => Gate!Spec
<1>1. Init => Gate!Init
    BY DEF Init
<1> QED BY <1>1, GateStep, PTL DEF Spec, Gate!Spec

(* The part of the type invariant of Periods that is needed here.          *)
Grants == today \in Nat /\ grant \in Seq(Gate!Reopening)

(* A grant that is used or withdrawn is still a grant.                     *)
LEMMA MarkedGrants ==
    ASSUME Grants, NEW g \in DOMAIN grant,
           \/ grant' = [grant EXCEPT ![g].used = TRUE]
           \/ grant' = [grant EXCEPT ![g].revoked = TRUE]
    PROVE  grant' \in Seq(Gate!Reopening)
<1>1. grant \in Seq(Gate!Reopening) /\ grant[g] \in Gate!Reopening
    BY DEF Grants
<1>2. grant' = [grant EXCEPT ![g] = grant'[g]]
    BY <1>1
<1>3. grant'[g] \in Gate!Reopening
    BY <1>1 DEF Gate!Reopening
<1> QED BY <1>1, <1>2, <1>3

(* Every step of the gate keeps the table of reopenings well-formed.       *)
LEMMA GrantsStep == Grants /\ [Gate!Next]_(Gate!vars) => Grants'
<1> SUFFICES ASSUME Grants, [Gate!Next]_(Gate!vars) PROVE Grants'
    OBVIOUS
<1>1. ASSUME NEW p \in Period, NEW st \in State, NEW days \in 1..MaxGrantDays,
             Gate!GrantReopening(p, st, days)
      PROVE  Grants'
    <2> DEFINE new == [state |-> st, period |-> p, expires |-> today + days,
                       used |-> FALSE, revoked |-> FALSE]
    <2>1. new \in Gate!Reopening
        BY ReturnsAssumption DEF Gate!Reopening, Grants
    <2>2. grant' = Append(grant, new) /\ today' = today
        BY <1>1 DEF Gate!GrantReopening, Gate!AddGrant
    <2> HIDE DEF new
    <2> QED BY <2>1, <2>2 DEF Grants
<1>2. ASSUME NEW g \in DOMAIN grant, Gate!RevokeReopening(g)
      PROVE  Grants'
    BY <1>2, MarkedGrants DEF Gate!RevokeReopening, Grants
<1>3. ASSUME NEW st \in State, NEW p \in Period, Gate!File(st, p)
      PROVE  Grants'
    BY <1>3, MarkedGrants DEF Gate!File, Gate!ActiveReopenings, Gate!ConsumeReopening, Grants
<1>4. ASSUME Gate!DayPasses PROVE Grants'
    BY <1>4 DEF Gate!DayPasses, Grants
<1>5. ASSUME NEW p \in Period, Gate!ClosePeriod(p) \/ Gate!ReopenPeriod(p) PROVE Grants'
    BY <1>5 DEF Gate!ClosePeriod, Gate!ReopenPeriod, Grants
<1>6. CASE UNCHANGED Gate!vars
    BY <1>6 DEF Gate!vars, Grants
<1> QED BY <1>1, <1>2, <1>3, <1>4, <1>5, <1>6 DEF Gate!Next

(* So it is, next to the returns, in every database the handlers produce.  *)
LEMMA AlwaysGrants == Spec => [](IInv /\ Grants)
<1>1. Init => Grants
    BY DEF Init, Gate!Init, Grants
<1> QED BY <1>1, InitIInv, NextIInv, GateStep, GrantsStep, PTL DEF Spec

-----------------------------------------------------------------------------
(* Whatever closes, reopens, lapses and is withdrawn around it, a closed   *)
(* cycle takes a return only from a state with a usable reopening of that  *)
(* cycle, and the filing spends it.                                        *)
THEOREM ClosedCycleTakesNoReturnAlways == Spec => ClosedCycleTakesNoReturn
<1> DEFINE Admitted ==
              filed' # filed =>
                LET row == submission'[filed']
                IN  ~isOpen[row.period] =>
                      \E g \in DOMAIN grant :
                         /\ grant[g].state = row.state /\ grant[g].period = row.period
                         /\ Gate!IsActive(grant[g]) /\ ~Gate!IsActive(grant'[g])
<1>1. IInv /\ Grants /\ [Next]_vars => [Admitted]_vars
    <2> SUFFICES ASSUME IInv, Grants, [Next]_vars PROVE Admitted
        OBVIOUS
    <2>1. CASE Filing
        <3>1. PICK st \in State, p \in Period, report \in Reports, found \in SUBSET Finding,
                   auto \in BOOLEAN, raise \in BOOLEAN, foundQ \in SUBSET Finding :
                 Ingest(st, p, report, found, auto, raise, foundQ)
            BY <2>1 DEF Filing
        <3>2. submission'[filed'].state = st /\ submission'[filed'].period = p
            BY <3>1, IngestStep
        <3>3. Gate!File(st, p)
            BY <3>1 DEF Ingest
        <3>4. ASSUME NEW g \in Gate!ActiveReopenings(st, p), Gate!ConsumeReopening(g, st, p)
              PROVE  /\ g \in DOMAIN grant /\ grant[g].state = st /\ grant[g].period = p
                     /\ Gate!IsActive(grant[g]) /\ ~Gate!IsActive(grant'[g])
            <4>1. /\ g \in DOMAIN grant /\ grant[g].state = st /\ grant[g].period = p
                  /\ Gate!IsActive(grant[g])
                BY <3>4 DEF Gate!ActiveReopenings
            <4>2. grant'[g].used
                <5>1. grant[g] \in Gate!Reopening
                    BY <4>1 DEF Grants
                <5> QED BY <3>4, <4>1, <5>1 DEF Gate!ConsumeReopening, Gate!Reopening
            <4> QED BY <4>1, <4>2 DEF Gate!IsActive
        <3> QED BY <3>2, <3>3, <3>4 DEF Gate!File
    <2>2. ASSUME filed' = filed PROVE Admitted
        BY <2>2
    <2>3. CASE Review
        BY <2>2, <2>3 DEF Review, Approve, Reject, Delete, RevalidatePeriod
    <2>4. CASE Workflow
        BY <2>2, <2>4 DEF Workflow, Respond, Accept, RejectAnswer, Withdraw, Escalate
    <2>5. CASE Administration
        BY <2>2, <2>5 DEF Administration, tables
    <2>6. CASE UNCHANGED vars
        BY <2>2, <2>6 DEF vars
    <2> QED BY <2>1, <2>3, <2>4, <2>5, <2>6 DEF Next
<1>2. Spec => [][Admitted]_vars
    BY <1>1, AlwaysGrants, PTL DEF Spec
<1> QED BY <1>2 DEF ClosedCycleTakesNoReturn

-----------------------------------------------------------------------------

Unit == State \X Period

(* Published, of any record of tables.                                     *)
Authoritative(d, u) == {s \in CurrentFor(d, u[1], u[2]) : d.submission[s].status = "APPROVED"}

Keys(d, s) == {w \in DOMAIN d.value : w[1] = s}

Report(d, s) == [i \in {v[2] : v \in Keys(d, s)} |-> d.value[<<s, i>>].value]

View(d, u) ==
    IF Authoritative(d, u) = {} THEN None
    ELSE LET s == CHOOSE t \in Authoritative(d, u) : TRUE
         IN  [return |-> s, figures |-> Report(d, s)]

UnitOf(d, s) == <<d.submission[s].state, d.submission[s].period>>

Approvals(d) == {s \in DOMAIN d.submission : d.submission[s].status = "APPROVED"}

(* The refinement mapping, before a transaction and after it.              *)
LEMMA PublishedIs == Published = [u \in Unit |-> View(Db, u)]
BY DEF Published, Analysable, View, Report, Keys, Authoritative, CurrentFor, Db, Unit

(* What is published once a transaction has committed.                     *)
LEMMA PublishedBecomes ==
    ASSUME NEW d, Commit(d)
    PROVE  Published' = [u \in Unit |-> View(d, u)]
BY DEF Commit, Published, Analysable, View, Report, Keys, Authoritative, CurrentFor, Db, Unit

(* In a sound database the approved returns are the authoritative ones.    *)
LEMMA AuthoritativeIs ==
    ASSUME NEW d, Standing(d), NEW u \in Unit
    PROVE  Authoritative(d, u) = {s \in Approvals(d) : UnitOf(d, s) = u}
<1>1. PICK st \in State, p \in Period : u = <<st, p>>
    BY DEF Unit
<1>2. u[1] = st /\ u[2] = p
    BY <1>1
<1>3. \A s : UnitOf(d, s) = u <=> d.submission[s].state = st /\ d.submission[s].period = p
    BY <1>1 DEF UnitOf
<1> QED BY <1>2, <1>3 DEF Authoritative, CurrentFor, Approvals, Standing

(* An approved return is what its unit publishes.                          *)
LEMMA ViewOfApproved ==
    ASSUME NEW d, Standing(d), NEW s \in Approvals(d), UnitOf(d, s) \in Unit
    PROVE  View(d, UnitOf(d, s)) = [return |-> s, figures |-> Report(d, s)]
<1> DEFINE u == UnitOf(d, s)
<1>1. s \in Authoritative(d, u)
    BY AuthoritativeIs
<1>2. \A t \in Authoritative(d, u) : t = s
    <2>1. \A t \in Authoritative(d, u) : t \in Approvals(d) /\ UnitOf(d, t) = UnitOf(d, s)
        BY AuthoritativeIs
    <2>2. \A t \in Approvals(d) : UnitOf(d, t) = UnitOf(d, s) => t = s
        BY DEF UnitOf, Approvals, Standing, SameUnit
    <2> QED BY <2>1, <2>2
<1> HIDE DEF u
<1>3. (CHOOSE t \in Authoritative(d, u) : TRUE) = s
    BY <1>1, <1>2
<1> QED BY <1>1, <1>3 DEF View, u

(* A unit without one publishes nothing, and what a unit publishes names   *)
(* an approved return of its own.                                          *)
LEMMA ViewOfNone ==
    ASSUME NEW d, Standing(d), NEW u \in Unit
    PROVE  /\ (\A s \in Approvals(d) : UnitOf(d, s) # u) => View(d, u) = None
           /\ View(d, u) # None =>
                 \E s \in Approvals(d) :
                    UnitOf(d, s) = u /\ View(d, u) = [return |-> s, figures |-> Report(d, s)]
<1>1. Authoritative(d, u) = {s \in Approvals(d) : UnitOf(d, s) = u}
    BY AuthoritativeIs
<1>2. (\A s \in Approvals(d) : UnitOf(d, s) # u) => View(d, u) = None
    BY <1>1 DEF View
<1>3. ASSUME View(d, u) # None
      PROVE  \E s \in Approvals(d) :
                UnitOf(d, s) = u /\ View(d, u) = [return |-> s, figures |-> Report(d, s)]
    <2>1. PICK s \in Approvals(d) : UnitOf(d, s) = u
        BY <1>2, <1>3
    <2> QED BY <2>1, ViewOfApproved
<1> QED BY <1>2, <1>3

(* The figures of a return are an account.                                 *)
LEMMA ReportType ==
    ASSUME NEW d, Tables(d), NEW s
    PROVE  Report(d, s) \in UNION {[I -> Reported] : I \in SUBSET Indicator}
<1> DEFINE I == {v[2] : v \in Keys(d, s)}
<1>1. I \in SUBSET Indicator
    BY DEF Keys, Tables, Table, ValueId
<1>2. \A i \in I : d.value[<<s, i>>].value \in Reported
    <2>1. ASSUME NEW v \in Keys(d, s) PROVE <<s, v[2]>> = v /\ v \in DOMAIN d.value
        BY DEF Keys, Tables, Table, ValueId
    <2>2. \A v \in DOMAIN d.value : d.value[v].value \in Reported
        BY DEF Tables, Table, Value
    <2> QED BY <2>1, <2>2
<1>3. Report(d, s) = [i \in I |-> d.value[<<s, i>>].value]
    BY DEF Report
<1> HIDE DEF I
<1>4. Report(d, s) \in [I -> Reported]
    BY <1>2, <1>3
<1> QED BY <1>1, <1>4

(* A return is of some state and period.                                   *)
LEMMA UnitType ==
    ASSUME NEW d, Tables(d), NEW s \in DOMAIN d.submission
    PROVE  UnitOf(d, s) \in Unit
BY DEF Tables, Table, Submission, UnitOf, Unit

(* Same approvals, same figures on them: the same is published.            *)
LEMMA SameView ==
    ASSUME NEW d, Standing(d), NEW e, Standing(e), NEW u \in Unit,
           \A s : s \in Approvals(d) /\ UnitOf(d, s) = u <=> s \in Approvals(e) /\ UnitOf(e, s) = u,
           \A s \in Approvals(d) : UnitOf(d, s) = u => Report(e, s) = Report(d, s)
    PROVE  View(e, u) = View(d, u)
<1>1. Authoritative(e, u) = Authoritative(d, u)
    BY AuthoritativeIs
<1>2. CASE Authoritative(d, u) = {}
    BY <1>1, <1>2 DEF View
<1>3. CASE Authoritative(d, u) # {}
    <2> DEFINE s == CHOOSE t \in Authoritative(d, u) : TRUE
    <2>1. s \in Authoritative(d, u)
        BY <1>3
    <2>2. Report(e, s) = Report(d, s)
        BY <2>1, AuthoritativeIs
    <2>3. View(d, u) = [return |-> s, figures |-> Report(d, s)]
        BY <1>3 DEF View
    <2>4. View(e, u) = [return |-> s, figures |-> Report(e, s)]
        BY <1>1, <1>3 DEF View
    <2> HIDE DEF s
    <2> QED BY <2>2, <2>3, <2>4
<1> QED BY <1>2, <1>3

(* No figure is added, lost or changed.                                    *)
Frozen(d, e) == SameFigures(d, e) /\ DOMAIN e.value = DOMAIN d.value

(* Two helpers that touch no figure, one after the other, touch none.      *)
LEMMA FrozenTransitive ==
    ASSUME NEW d, NEW e, NEW f, Frozen(d, e), Frozen(e, f)
    PROVE  Frozen(d, f)
BY DEF Frozen, SameFigures

(* Then every return reports what it did.                                  *)
LEMMA FrozenReports ==
    ASSUME NEW d, Tables(d), NEW e, Frozen(d, e), NEW s
    PROVE  Report(e, s) = Report(d, s)
<1>1. Keys(e, s) = Keys(d, s)
    BY DEF Keys, Frozen
<1>2. ASSUME NEW v \in Keys(d, s)
      PROVE  e.value[<<s, v[2]>>].value = d.value[<<s, v[2]>>].value
    <2>1. <<s, v[2]>> = v /\ v \in DOMAIN d.value
        BY DEF Keys, Tables, Table, ValueId
    <2> QED BY <2>1 DEF Frozen, SameFigures
<1> QED BY <1>1, <1>2 DEF Report

(* An account holds the figures of a return that has an id.                *)
LEMMA AccountType ==
    ASSUME NEW d, Tables(d), NEW s \in 1..MaxSubmissions
    PROVE  /\ [return |-> s, figures |-> Report(d, s)] \in Ledger!Account
           /\ [return |-> s, figures |-> Report(d, s)] # None
<1>1. [return |-> s, figures |-> Report(d, s)] \in Ledger!Account
    BY ReportType DEF Ledger!Account, Reported
<1> QED BY <1>1, LedgerAssumption

-----------------------------------------------------------------------------
(* The steps of the ledger.                                                *)

(* The two ends of a transaction, and the ids it may publish.              *)
Transacts(e) ==
    /\ Commit(e)
    /\ Tables(Db) /\ Standing(Db)
    /\ Tables(e) /\ Standing(e)
    /\ DOMAIN e.submission \subseteq 1..MaxSubmissions
    /\ DOMAIN submission \subseteq 1..MaxSubmissions

(* The standing of every return and every figure stays: nothing is said.   *)
LEMMA Untouched ==
    ASSUME NEW e, Transacts(e), Keeps(Db, e), Frozen(Db, e)
    PROVE  Published' = Published
<1>1. \A s : s \in Approvals(e) <=> s \in Approvals(Db)
    BY DEF Keeps, SameStanding, Approvals
<1>2. \A s \in Approvals(Db) : UnitOf(e, s) = UnitOf(Db, s) /\ Report(e, s) = Report(Db, s)
    BY FrozenReports DEF Keeps, SameStanding, Approvals, UnitOf, Transacts
<1>3. \A u \in Unit : View(e, u) = View(Db, u)
    BY <1>1, <1>2, SameView DEF Transacts
<1> QED BY <1>3, PublishedIs, PublishedBecomes DEF Transacts

(* Return s is put in force, or not, and the others of its unit give way.  *)
Replaces(d, e, s) ==
    /\ s \in DOMAIN e.submission
    /\ s \in Approvals(d) => s \in Approvals(e)
    /\ \A t : t # s => ( t \in Approvals(e)
                         <=> t \in Approvals(d) /\ UnitOf(d, t) # UnitOf(e, s) )
    /\ \A t \in Approvals(d) : UnitOf(e, t) = UnitOf(d, t) /\ Report(e, t) = Report(d, t)

(* That publishes it, retracts what was published, or repeats it.          *)
LEMMA ReplacesOne ==
    ASSUME NEW e, Transacts(e), NEW s, Replaces(Db, e, s)
    PROVE  [Ledger!Next]_Published
<1> DEFINE u == UnitOf(e, s)
<1>1. u \in Unit /\ s \in 1..MaxSubmissions
    BY UnitType DEF Replaces, Transacts
<1>2. \A w \in Unit \ {u} : View(e, w) = View(Db, w)
    <2> SUFFICES ASSUME NEW w \in Unit \ {u} PROVE View(e, w) = View(Db, w)
        OBVIOUS
    <2>1. \A t : t \in Approvals(Db) /\ UnitOf(Db, t) = w
                 <=> t \in Approvals(e) /\ UnitOf(e, t) = w
        BY DEF Replaces
    <2>2. \A t \in Approvals(Db) : Report(e, t) = Report(Db, t)
        BY DEF Replaces
    <2> HIDE DEF u
    <2> QED BY <2>1, <2>2, SameView DEF Transacts
<1>3. CASE s \in Approvals(e) /\ s \notin Approvals(Db)
    <2>1. View(e, u) = [return |-> s, figures |-> Report(e, s)]
        BY <1>1, <1>3, ViewOfApproved DEF Transacts
    <2>2. View(e, u) \in Ledger!Account
        BY <1>1, <2>1, AccountType DEF Transacts
    <2>3. \A w \in Unit : View(Db, w) # None => View(Db, w).return # View(e, u).return
        <3> SUFFICES ASSUME NEW w \in Unit, View(Db, w) # None
                     PROVE  View(Db, w).return # s
            BY <2>1
        <3>1. PICK t \in Approvals(Db) : View(Db, w) = [return |-> t, figures |-> Report(Db, t)]
            BY ViewOfNone DEF Transacts
        <3> QED BY <1>3, <3>1
    <2> HIDE DEF u
    <2>4. Ledger!Publish(u)
        BY <1>1, <1>2, <2>2, <2>3, PublishedIs, PublishedBecomes
        DEF Transacts, Ledger!Publish, Ledger!OnlyFor, Ledger!Unit, Unit
    <2> QED BY <1>1, <2>4 DEF Ledger!Next, Ledger!Unit, Unit
<1>4. CASE s \in Approvals(Db)
    <2>1. \A t \in Approvals(Db) : UnitOf(Db, t) = u => t = s
        BY <1>4 DEF Replaces, Approvals, UnitOf, Transacts, Standing, SameUnit
    <2>2. \A t : t \in Approvals(Db) /\ UnitOf(Db, t) = u
                 <=> t \in Approvals(e) /\ UnitOf(e, t) = u
        BY <1>4, <2>1 DEF Replaces
    <2>3. \A t \in Approvals(Db) : Report(e, t) = Report(Db, t)
        BY DEF Replaces
    <2> HIDE DEF u
    <2>4. View(e, u) = View(Db, u)
        BY <1>1, <2>2, <2>3, SameView DEF Transacts
    <2> QED BY <1>2, <2>4, PublishedIs, PublishedBecomes DEF Transacts
<1>5. CASE s \notin Approvals(e) /\ s \notin Approvals(Db)
    <2>1. \A t \in Approvals(e) : UnitOf(e, t) # u
        BY <1>5 DEF Replaces
    <2> HIDE DEF u
    <2>2. View(e, u) = None
        BY <1>1, <2>1, ViewOfNone DEF Transacts
    <2>3. CASE View(Db, u) = None
        BY <1>2, <2>2, <2>3, PublishedIs, PublishedBecomes DEF Transacts
    <2>4. CASE View(Db, u) # None
        <3>1. Ledger!Retract(u)
            BY <1>1, <1>2, <2>2, <2>4, PublishedIs, PublishedBecomes
            DEF Transacts, Ledger!Retract, Ledger!OnlyFor, Ledger!Unit, Unit
        <3> QED BY <1>1, <3>1 DEF Ledger!Next, Ledger!Unit, Unit
    <2> QED BY <2>3, <2>4
<1> QED BY <1>3, <1>4, <1>5 DEF Replaces

(* Return s is taken out of force and nothing takes its place.             *)
Withdraws(d, e, s) ==
    /\ s \in DOMAIN d.submission
    /\ \A t : t \in Approvals(e) <=> t \in Approvals(d) /\ t # s
    /\ \A t \in Approvals(e) : UnitOf(e, t) = UnitOf(d, t) /\ Report(e, t) = Report(d, t)

(* That retracts what its unit published, if that was its.                 *)
LEMMA WithdrawsOne ==
    ASSUME NEW e, Transacts(e), NEW s, Withdraws(Db, e, s)
    PROVE  [Ledger!Next]_Published
<1> DEFINE u == UnitOf(Db, s)
<1>1. u \in Unit
    BY UnitType DEF Withdraws, Transacts
<1>2. ASSUME NEW w \in Unit, w # u \/ s \notin Approvals(Db)
      PROVE  View(e, w) = View(Db, w)
    <2>1. \A t : t \in Approvals(Db) /\ UnitOf(Db, t) = w
                 <=> t \in Approvals(e) /\ UnitOf(e, t) = w
        BY <1>2 DEF Withdraws
    <2>2. \A t \in Approvals(Db) : UnitOf(Db, t) = w => Report(e, t) = Report(Db, t)
        BY <2>1 DEF Withdraws
    <2> HIDE DEF u
    <2> QED BY <2>1, <2>2, SameView DEF Transacts
<1>3. CASE s \notin Approvals(Db)
    BY <1>2, <1>3, PublishedIs, PublishedBecomes DEF Transacts
<1>4. CASE s \in Approvals(Db)
    <2>1. \A t \in Approvals(e) : UnitOf(e, t) # u
        BY <1>4 DEF Withdraws, Approvals, UnitOf, Transacts, Standing, SameUnit
    <2> HIDE DEF u
    <2>2. View(e, u) = None
        BY <1>1, <2>1, ViewOfNone DEF Transacts
    <2>3. CASE View(Db, u) = None
        BY <1>2, <2>2, <2>3, PublishedIs, PublishedBecomes DEF Transacts
    <2>4. CASE View(Db, u) # None
        <3>1. Ledger!Retract(u)
            BY <1>1, <1>2, <2>2, <2>4, PublishedIs, PublishedBecomes
            DEF Transacts, Ledger!Retract, Ledger!OnlyFor, Ledger!Unit, Unit
        <3> QED BY <1>1, <3>1 DEF Ledger!Next, Ledger!Unit, Unit
    <2> QED BY <2>3, <2>4
<1> QED BY <1>3, <1>4

(* Figure v says something else, and no other does.                        *)
Rewrites(d, e, v, figure) ==
    /\ v \in DOMAIN d.value /\ DOMAIN e.value = DOMAIN d.value
    /\ e.value[v].value = figure /\ figure \in Figure
    /\ \A w \in DOMAIN d.value \ {v} : e.value[w].value = d.value[w].value

(* That restates the unit whose published return carries it, if one does.  *)
LEMMA RewritesOne ==
    ASSUME NEW e, Transacts(e), Keeps(Db, e), NEW v, NEW figure, Rewrites(Db, e, v, figure)
    PROVE  [Ledger!Next]_Published
<1> DEFINE s == v[1]
           i == v[2]
           u == UnitOf(Db, s)
<1>1. v = <<s, i>> /\ v \in DOMAIN value /\ Db.value = value
    BY DEF Rewrites, Transacts, Tables, Table, ValueId, Db
<1>2. \A t : t \in Approvals(e) <=> t \in Approvals(Db)
    BY DEF Keeps, SameStanding, Approvals
<1>3. \A t \in Approvals(Db) : UnitOf(e, t) = UnitOf(Db, t)
    BY DEF Keeps, SameStanding, Approvals, UnitOf
<1>4. \A t : Keys(e, t) = Keys(Db, t)
    BY DEF Rewrites, Keys
<1>5. \A t : t # s => Report(e, t) = Report(Db, t)
    <2> SUFFICES ASSUME NEW t, t # s PROVE Report(e, t) = Report(Db, t)
        OBVIOUS
    <2>1. ASSUME NEW w \in Keys(Db, t)
          PROVE  e.value[<<t, w[2]>>].value = Db.value[<<t, w[2]>>].value
        <3>1. <<t, w[2]>> = w /\ w \in DOMAIN Db.value
            BY DEF Keys, Transacts, Tables, Table, ValueId
        <3> QED BY <3>1 DEF Rewrites, Keys
    <2> HIDE DEF s
    <2> QED BY <1>4, <2>1 DEF Report
<1>6. ASSUME NEW w \in Unit, w # u \/ s \notin Approvals(Db)
      PROVE  View(e, w) = View(Db, w)
    <2> HIDE DEF s
    <2>1. \A t \in Approvals(Db) : UnitOf(Db, t) = w => Report(e, t) = Report(Db, t)
        BY <1>5, <1>6
    <2> HIDE DEF u
    <2> QED BY <1>2, <1>3, <2>1, SameView DEF Transacts
<1>7. CASE s \notin Approvals(Db)
    BY <1>6, <1>7, PublishedIs, PublishedBecomes DEF Transacts
<1>8. CASE s \in Approvals(Db)
    <2>1. u \in Unit /\ s \in 1..MaxSubmissions
        BY <1>8, UnitType DEF Approvals, Transacts, Db
    <2>2. View(Db, u) = [return |-> s, figures |-> Report(Db, s)] /\ View(Db, u) # None
        BY <1>8, <2>1, ViewOfApproved, AccountType DEF Transacts
    <2>3. View(e, u) = [return |-> s, figures |-> Report(e, s)]
        BY <1>2, <1>3, <1>8, <2>1, ViewOfApproved DEF Transacts
    <2>4. i \in DOMAIN Report(Db, s)
        BY <1>1 DEF Report, Keys
    <2>5. Report(e, s) = [Report(Db, s) EXCEPT ![i] = figure]
        <3>1. ASSUME NEW w \in Keys(Db, s)
              PROVE  e.value[<<s, w[2]>>].value =
                        IF w[2] = i THEN figure ELSE Db.value[<<s, w[2]>>].value
            <4>1. <<s, w[2]>> = w /\ w \in DOMAIN Db.value
                BY DEF Keys, Transacts, Tables, Table, ValueId
            <4> HIDE DEF s, i
            <4> QED BY <1>1, <4>1 DEF Rewrites
        <3> DEFINE I == {w[2] : w \in Keys(Db, s)}
        <3> HIDE DEF s, i
        <3>2. \A j \in I : e.value[<<s, j>>].value =
                              IF j = i THEN figure ELSE Db.value[<<s, j>>].value
            BY <3>1
        <3>3. /\ Report(e, s) = [j \in I |-> e.value[<<s, j>>].value]
              /\ Report(Db, s) = [j \in I |-> Db.value[<<s, j>>].value]
            BY <1>4 DEF Report
        <3> HIDE DEF I
        <3> QED BY <3>2, <3>3
    <2> HIDE DEF s, i, u
    <2>6. View(e, u) = [View(Db, u) EXCEPT !.figures[i] = figure]
        BY <2>2, <2>3, <2>5
    <2>7. i \in DOMAIN View(Db, u).figures
        BY <2>2, <2>4
    <2>8. /\ Published[u] = View(Db, u) /\ Published'[u] = View(e, u)
          /\ DOMAIN Published' = Unit
          /\ \A w \in Unit \ {u} : Published'[w] = Published[w]
        BY <1>6, <2>1, PublishedIs, PublishedBecomes DEF Transacts
    <2>9. figure \in Figure
        BY DEF Rewrites
    <2>10. Published[u] # None /\ Ledger!OnlyFor(u)
        BY <2>2, <2>8 DEF Ledger!OnlyFor, Ledger!Unit, Unit
    <2>11. \E j \in DOMAIN Published[u].figures, f \in Figure :
              Published'[u] = [Published[u] EXCEPT !.figures[j] = f]
        <3>1. Published'[u] = [Published[u] EXCEPT !.figures[i] = figure]
            BY <2>6, <2>8
        <3>2. i \in DOMAIN Published[u].figures
            BY <2>7, <2>8
        <3> QED BY <2>9, <3>1, <3>2, Zenon
    <2>12. Ledger!Restate(u)
        BY <2>10, <2>11 DEF Ledger!Restate
    <2> QED BY <2>1, <2>12 DEF Ledger!Next, Ledger!Unit, Unit
<1> QED BY <1>7, <1>8

-----------------------------------------------------------------------------
(* What the helpers do to approvals and figures.                           *)

(* What keeps the standing of the returns keeps the approvals.             *)
LEMMA KeepsApprovals ==
    ASSUME NEW d, NEW e, Keeps(d, e)
    PROVE  /\ Approvals(e) = Approvals(d)
           /\ \A t \in DOMAIN d.submission : UnitOf(e, t) = UnitOf(d, t)
BY DEF Keeps, SameStanding, Approvals, UnitOf

(* Superseding for s ends the approvals of the others of its unit, which   *)
(* it finds because every approved return is current.                      *)
LEMMA SupersedeApprovals ==
    ASSUME NEW d, Tables(d), NEW s \in DOMAIN d.submission,
           \A t \in Approvals(d) : d.submission[t].current
    PROVE  LET e == SupersedePrevious(d, s)
           IN  /\ DOMAIN e.submission = DOMAIN d.submission
               /\ \A t : t \in Approvals(e) <=>
                           t \in Approvals(d) /\ (t = s \/ UnitOf(d, t) # UnitOf(d, s))
               /\ \A t \in DOMAIN d.submission : UnitOf(e, t) = UnitOf(d, t)
<1> DEFINE e == SupersedePrevious(d, s)
<1>1. Retires(d, e, s)
    BY SupersedeRetires
<1> HIDE DEF e
<1>2. \A t \in DOMAIN d.submission : SameUnit(d, s, t) <=> UnitOf(d, t) = UnitOf(d, s)
    BY DEF SameUnit, UnitOf
<1>3. DOMAIN e.submission = DOMAIN d.submission
    BY <1>1 DEF Retires
<1>4. ASSUME NEW t \in DOMAIN d.submission
      PROVE  /\ UnitOf(e, t) = UnitOf(d, t)
             /\ t \in Approvals(e) <=>
                    t \in Approvals(d) /\ (t = s \/ UnitOf(d, t) # UnitOf(d, s))
    BY <1>1, <1>2, <1>3 DEF Retires, Approvals, UnitOf
<1>5. \A t : t \in Approvals(e) \/ t \in Approvals(d) => t \in DOMAIN d.submission
    BY <1>3 DEF Approvals
<1> QED BY <1>3, <1>4, <1>5 DEF e

(* Approving s adds it.                                                    *)
LEMMA ApprovedApprovals ==
    ASSUME NEW d, Tables(d), NEW s \in DOMAIN d.submission
    PROVE  LET e == Approved(d, s)
           IN  /\ DOMAIN e.submission = DOMAIN d.submission
               /\ Approvals(e) = Approvals(d) \cup {s}
               /\ \A t \in DOMAIN d.submission : UnitOf(e, t) = UnitOf(d, t)
               /\ Frozen(d, e)
<1> DEFINE row == [d.submission[s] EXCEPT !.status = "APPROVED", !.current = TRUE]
           rows == [d.submission EXCEPT ![s] = row]
           e == Approved(d, s)
<1>1. d.submission[s] \in Submission
    BY DEF Tables, Table
<1>2. /\ row.status = "APPROVED"
      /\ row.state = d.submission[s].state /\ row.period = d.submission[s].period
    BY <1>1 DEF Submission
<1>3. e.submission = rows /\ e.value = d.value
    BY DEF Approved, Tables
<1> HIDE DEF row, e
<1>4. /\ DOMAIN rows = DOMAIN d.submission /\ rows[s] = row
      /\ \A t \in DOMAIN d.submission \ {s} : rows[t] = d.submission[t]
    BY DEF Tables, Table
<1> HIDE DEF rows
<1>5. DOMAIN e.submission = DOMAIN d.submission /\ Approvals(e) = Approvals(d) \cup {s}
    BY <1>2, <1>3, <1>4 DEF Approvals
<1>6. \A t \in DOMAIN d.submission : UnitOf(e, t) = UnitOf(d, t)
    BY <1>2, <1>3, <1>4 DEF UnitOf
<1>7. Frozen(d, e)
    BY <1>3 DEF Frozen, SameFigures
<1> QED BY <1>5, <1>6, <1>7 DEF e

(* Superseding touches no figure.                                          *)
LEMMA SupersedeFrozen ==
    ASSUME NEW d, Tables(d), Sound(d), NEW s \in DOMAIN d.submission
    PROVE  Frozen(d, SupersedePrevious(d, s))
BY SupersedeSound DEF Frozen

(* Neither do the rules, with or without the queries they open.            *)
LEMMA CheckFrozen ==
    ASSUME NEW d, Tables(d), Sound(d), NEW S \in SUBSET InForce(d), NEW raise,
           NEW found, DOMAIN found = S, \A s \in S : found[s] \in SUBSET Finding
    PROVE  Frozen(d, Check(d, found, raise))
<1> DEFINE checked == RunValidation(d, found)
<1>1. Keeps(d, checked)
    BY ValidationKeeps
<1>2. checked.value = d.value
    BY DEF RunValidation, Tables
<1>3. Check(d, found, raise) = IF raise THEN RaiseQueries(checked, S) ELSE checked
    BY DEF Check
<1> HIDE DEF checked
<1>4. DOMAIN RaiseQueries(checked, S).value = DOMAIN checked.value
    <2>1. S \in SUBSET DOMAIN checked.submission
        BY <1>1 DEF Keeps, InForce
    <2>2. Tables(Raised(checked, S))
        BY <1>1, <2>1, RaisedKeeps DEF Keeps
    <2>3. RaiseQueries(checked, S).value = Raised(checked, S).value
        BY <2>2, RaiseIs, RefreshKeeps
    <2>4. DOMAIN Raised(checked, S).value = DOMAIN checked.value
        BY <1>1 DEF Raised, Keeps, Tables
    <2> QED BY <2>3, <2>4
<1>5. SameFigures(d, Check(d, found, raise))
    BY CheckSound
<1> QED BY <1>2, <1>3, <1>4, <1>5 DEF Frozen

(* Neither does settling a query.                                          *)
LEMMA SettledFrozen ==
    ASSUME NEW d, Tables(d), Sound(d), NEW q \in DOMAIN d.query, NEW status \in QueryStatus
    PROVE  Frozen(d, Settle(ReleaseQuarantine(d, q), q, status))
<1> DEFINE r == ReleaseQuarantine(d, q)
           f == [r EXCEPT !.query[q].status = status]
<1>1. Tables(r) /\ r.query = d.query
    BY ReleaseKeeps DEF Keeps
<1>2. DOMAIN r.value = DOMAIN d.value
    BY DEF ReleaseQuarantine, Tables
<1> HIDE DEF r
<1>3. Settle(r, q, status) = RefreshCounts(f, {r.query[q].submission}) /\ f.value = r.value
    BY <1>1 DEF Settle, Tables
<1>4. Tables(f)
    <2> DEFINE row == [d.query[q] EXCEPT !.status = status]
    <2>1. row \in Query
        BY DEF Tables, Table, Query
    <2>2. f = [r EXCEPT !.query = [r.query EXCEPT ![q] = row]]
        BY <1>1 DEF Tables
    <2> HIDE DEF f, row
    <2> QED BY <1>1, <2>1, <2>2, AnswerKeeps DEF Keeps
<1> HIDE DEF f
<1>5. Settle(r, q, status).value = r.value
    BY <1>3, <1>4, RefreshKeeps
<1>6. SameFigures(d, Settle(r, q, status))
    BY SettledSound DEF r
<1> QED BY <1>2, <1>5, <1>6 DEF Frozen, r

(* The figures of a new return are added beside those of the others.       *)
LEMMA PersistReports ==
    ASSUME NEW d, Tables(d), NEW s, NEW report, NEW t, t # s
    PROVE  Report(PersistValues(d, s, report), t) = Report(d, t)
<1> DEFINE arrived == {s} \X DOMAIN report
           first(v) == [value |-> report[v[2]], original |-> report[v[2]], restated |-> FALSE,
                        label |-> "CLEAN", trail |-> <<>>]
           rows == [v \in DOMAIN d.value \cup arrived |-> IF v \in arrived THEN first(v) ELSE d.value[v]]
           e == PersistValues(d, s, report)
<1>1. e.value = rows
    BY DEF PersistValues, Tables
<1>2. \A v \in arrived : v[1] = s
    OBVIOUS
<1> HIDE DEF arrived, first, e
<1>3. \A v \in DOMAIN d.value \cup arrived : v[1] = t => v \in DOMAIN d.value /\ rows[v] = d.value[v]
    BY <1>2
<1>4. DOMAIN rows = DOMAIN d.value \cup arrived
    OBVIOUS
<1> HIDE DEF rows
<1>5. Keys(e, t) = Keys(d, t)
    BY <1>1, <1>3, <1>4 DEF Keys
<1>6. \A v \in Keys(d, t) : e.value[<<t, v[2]>>] = d.value[<<t, v[2]>>]
    <2> SUFFICES ASSUME NEW v \in Keys(d, t) PROVE e.value[<<t, v[2]>>] = d.value[<<t, v[2]>>]
        OBVIOUS
    <2>1. <<t, v[2]>> = v
        BY DEF Keys, Tables, Table, ValueId
    <2> QED BY <1>1, <1>3, <1>4, <2>1 DEF Keys
<1> QED BY <1>5, <1>6 DEF Report, e

-----------------------------------------------------------------------------
(* The handlers.                                                           *)

(* Ids are handed out within the bound.                                    *)
LInv == IInv /\ Sound(Db) /\ filed <= MaxSubmissions

(* A transaction that leaves a database of the invariant behind.           *)
LEMMA TransactsIs ==
    ASSUME LInv, NEW e, Commit(e), Tables(e), IInv', filed' <= MaxSubmissions
    PROVE  Transacts(e)
<1>1. Db' = e
    BY DEF Tables, Commit, Db
<1>2. Tables(e) /\ Standing(e)
    BY <1>1 DEF IInv, Tables, Table, Standing, SameUnit
<1>3. DOMAIN e.submission \subseteq 1..filed'
    BY DEF IInv, Commit
<1>4. DOMAIN submission \subseteq 1..filed /\ Tables(Db) /\ Standing(Db)
    BY DEF LInv, IInv
<1>5. filed \in Nat /\ filed <= MaxSubmissions /\ filed' \in Nat
    BY DEF LInv, IInv
<1> QED BY <1>2, <1>3, <1>4, <1>5, ReturnsAssumption DEF Transacts

(* A return is filed: the versions in force give way, it is checked, and   *)
(* published if it is approved on the spot.                                *)
LEMMA IngestLedger ==
    ASSUME LInv, NEW st \in State, NEW p \in Period, NEW report \in Reports,
           NEW found \in SUBSET Finding, NEW auto \in BOOLEAN, NEW raise \in BOOLEAN,
           NEW foundQ \in SUBSET Finding,
           Ingest(st, p, report, found, auto, raise, foundQ)
    PROVE  [Ledger!Next]_Published
<1> DEFINE s == filed + 1
           added == AddSubmission(Db, s, st, p)
           alone == SupersedePrevious(added, s)
           stored == PersistValues(alone, s, report)
           checked == Check(stored, [t \in {s} |-> found], raise)
           decided == IF auto THEN Approved(checked, s) ELSE checked
           coarser == EnclosingReturns(decided, st, p)
           final == Check(decided, [t \in coarser |-> foundQ], raise)
<1>0. IInv /\ Sound(Db)
    BY DEF LInv
<1>1. /\ filed \in Nat /\ Tables(Db) /\ Standing(Db)
      /\ DOMAIN Db.submission \subseteq 1..filed
    BY <1>0 DEF IInv, Db
<1>2. s \in SubmissionId /\ s \notin DOMAIN Db.submission
    BY <1>1 DEF SubmissionId
<1>3. Commit(final) /\ filed' = s /\ s <= MaxSubmissions
    BY <1>1, ReturnsAssumption DEF Ingest
<1>4. IInv'
    BY <1>0, IngestStep
<1> HIDE DEF s
<1>5. /\ Tables(added) /\ StandingBeside(added, s)
      /\ DOMAIN added.submission = DOMAIN Db.submission \cup {s}
      /\ added.submission[s].current
      /\ Approvals(added) = Approvals(Db)
      /\ \A t \in DOMAIN Db.submission : UnitOf(added, t) = UnitOf(Db, t)
    <2>1. /\ Tables(added)
          /\ DOMAIN added.submission = DOMAIN Db.submission \cup {s}
          /\ \A t \in DOMAIN Db.submission : added.submission[t] = Db.submission[t]
          /\ added.submission[s].status = "UPLOADED" /\ added.submission[s].current
        BY <1>1, <1>2, AddedTables
    <2> HIDE DEF added
    <2>2. Approvals(added) = Approvals(Db)
        BY <2>1 DEF Approvals
    <2> QED BY <1>1, <2>1, <2>2 DEF StandingBeside, Standing, SameUnit, UnitOf
<1>6. Sound(added) /\ Frozen(Db, added) /\ \A v \in DOMAIN Db.value : v[1] # s
    BY <1>0, <1>1, <1>2, AddedSound DEF Frozen, SameFigures
<1> HIDE DEF added
<1>7. /\ Tables(alone) /\ Standing(alone) /\ Sole(alone, s)
      /\ DOMAIN alone.submission = DOMAIN added.submission
      /\ alone.submission[s].current
    BY <1>5, SupersedeStanding
<1>8. /\ \A t : t \in Approvals(alone) <=>
                  t \in Approvals(added) /\ (t = s \/ UnitOf(added, t) # UnitOf(added, s))
      /\ \A t \in DOMAIN added.submission : UnitOf(alone, t) = UnitOf(added, t)
    BY <1>5, SupersedeApprovals DEF StandingBeside, Approvals
<1>9. Sound(alone) /\ Frozen(added, alone) /\ DOMAIN alone.value = DOMAIN added.value
    BY <1>5, <1>6, SupersedeSound DEF Frozen
<1> HIDE DEF alone
<1>10. Keeps(alone, stored)
    BY <1>2, <1>7, PersistKeeps
<1>11. Sound(stored) /\ \A t : t # s => Report(stored, t) = Report(alone, t)
    BY <1>5, <1>6, <1>7, <1>9, PersistSound, PersistReports DEF Frozen
<1> HIDE DEF stored
<1>12. Keeps(stored, checked) /\ Sound(checked) /\ Frozen(stored, checked)
    <2> DEFINE S == {s}
               f == [t \in S |-> found]
    <2>1. S \in SUBSET InForce(stored) /\ Tables(stored)
        BY <1>5, <1>7, <1>10 DEF Keeps, SameStanding, InForce
    <2>2. DOMAIN f = S /\ \A t \in S : f[t] \in SUBSET Finding
        OBVIOUS
    <2>3. checked = Check(stored, f, raise)
        OBVIOUS
    <2> HIDE DEF S, f, checked
    <2> QED BY <1>11, <2>1, <2>2, <2>3, CheckKeeps, CheckSound, CheckFrozen
<1> HIDE DEF checked
<1>13. /\ Keeps(alone, checked) /\ Tables(checked) /\ Standing(checked) /\ Sole(checked, s)
       /\ DOMAIN checked.submission = DOMAIN alone.submission
    <2>1. Keeps(alone, checked)
        BY <1>10, <1>12, KeepsTransitive
    <2> QED BY <1>5, <1>7, <2>1, KeepsStanding, KeepsSole DEF Keeps
<1>14. /\ Tables(decided) /\ Sound(decided) /\ Frozen(checked, decided)
       /\ DOMAIN decided.submission = DOMAIN checked.submission
       /\ Approvals(decided) = Approvals(checked) \cup (IF auto THEN {s} ELSE {})
       /\ \A t \in DOMAIN checked.submission : UnitOf(decided, t) = UnitOf(checked, t)
    <2>1. s \in DOMAIN checked.submission
        BY <1>5, <1>7, <1>13
    <2>2. Tables(Approved(checked, s))
        BY <1>13, <2>1, ApprovedStanding
    <2>3. Sound(Approved(checked, s))
        BY <1>12, <1>13, <2>1, DecisionSound DEF Approved
    <2>4. Frozen(checked, checked)
        BY DEF Frozen, SameFigures
    <2> QED BY <1>12, <1>13, <2>1, <2>2, <2>3, <2>4, ApprovedApprovals
<1> HIDE DEF decided
<1>15. Keeps(decided, final) /\ Frozen(decided, final)
    <2> DEFINE f == [t \in coarser |-> foundQ]
    <2>1. coarser \in SUBSET InForce(decided)
        BY DEF EnclosingReturns, CurrentFor, InForce
    <2>2. DOMAIN f = coarser /\ \A t \in coarser : f[t] \in SUBSET Finding
        OBVIOUS
    <2>3. final = Check(decided, f, raise)
        OBVIOUS
    <2> HIDE DEF coarser, f, final
    <2> QED BY <1>14, <2>1, <2>2, <2>3, CheckKeeps, CheckFrozen
<1> HIDE DEF final
<1>16. DOMAIN final.submission = DOMAIN Db.submission \cup {s} /\ Tables(final)
    BY <1>5, <1>7, <1>13, <1>14, <1>15 DEF Keeps
<1>17. \A t \in DOMAIN added.submission : UnitOf(final, t) = UnitOf(added, t)
    BY <1>7, <1>8, <1>13, <1>14, <1>15, KeepsApprovals
<1>18. \A t : t \in Approvals(final) <=>
               \/ t \in Approvals(Db) /\ (t = s \/ UnitOf(added, t) # UnitOf(added, s))
               \/ auto /\ t = s
    <2>1. Approvals(final) = Approvals(alone) \cup (IF auto THEN {s} ELSE {})
        BY <1>13, <1>14, <1>15, KeepsApprovals
    <2> QED BY <1>5, <1>8, <2>1
<1>19. \A t \in Approvals(Db) : t \in DOMAIN Db.submission /\ t # s
    BY <1>2 DEF Approvals
<1>20. \A t : t # s => Report(final, t) = Report(Db, t)
    BY <1>1, <1>5, <1>6, <1>7, <1>9, <1>11, <1>12, <1>13, <1>14, <1>15, <1>10, FrozenReports
    DEF Keeps
<1>21. Replaces(Db, final, s)
    BY <1>5, <1>16, <1>17, <1>18, <1>19, <1>20 DEF Replaces
<1>22. Transacts(final)
    BY <1>3, <1>4, <1>16, TransactsIs
<1> QED BY <1>21, <1>22, ReplacesOne

(* A version is approved, and published if it was not.                     *)
LEMMA ApproveLedger ==
    ASSUME LInv, NEW s \in DOMAIN submission, Approve(s)
    PROVE  [Ledger!Next]_Published
<1> DEFINE alone == SupersedePrevious(Db, s)
           final == Approved(alone, s)
<1>1. Commit(final) /\ filed' = filed
    BY DEF Approve
<1>2. IInv /\ IInv' /\ Tables(Db) /\ Standing(Db) /\ Sound(Db) /\ s \in DOMAIN Db.submission
    BY ApproveStep DEF LInv, IInv, Db
<1>3. /\ Tables(alone) /\ Standing(alone) /\ Sole(alone, s)
      /\ DOMAIN alone.submission = DOMAIN Db.submission
    BY <1>2, SupersedeStanding DEF Standing, StandingBeside
<1>4. /\ \A t : t \in Approvals(alone) <=>
                  t \in Approvals(Db) /\ (t = s \/ UnitOf(Db, t) # UnitOf(Db, s))
      /\ \A t \in DOMAIN Db.submission : UnitOf(alone, t) = UnitOf(Db, t)
    BY <1>2, SupersedeApprovals DEF Standing, Approvals
<1>5. Frozen(Db, alone)
    BY <1>2, SupersedeFrozen
<1> HIDE DEF alone
<1>6. /\ Tables(final) /\ DOMAIN final.submission = DOMAIN alone.submission
      /\ Approvals(final) = Approvals(alone) \cup {s}
      /\ \A t \in DOMAIN alone.submission : UnitOf(final, t) = UnitOf(alone, t)
      /\ Frozen(alone, final)
    BY <1>2, <1>3, ApprovedStanding, ApprovedApprovals
<1> HIDE DEF final
<1>7. \A t : Report(final, t) = Report(Db, t)
    BY <1>2, <1>3, <1>5, <1>6, FrozenReports
<1>8. Replaces(Db, final, s)
    BY <1>2, <1>3, <1>4, <1>6, <1>7 DEF Replaces, Approvals
<1>9. filed' <= MaxSubmissions
    BY <1>1 DEF LInv
<1> QED BY <1>1, <1>2, <1>6, <1>8, <1>9, TransactsIs, ReplacesOne

(* A version is rejected, and retracted if it was published.               *)
LEMMA RejectLedger ==
    ASSUME LInv, NEW s \in DOMAIN submission, Reject(s)
    PROVE  [Ledger!Next]_Published
<1> DEFINE row == [submission[s] EXCEPT !.status = "REJECTED", !.current = FALSE]
           rows == [submission EXCEPT ![s] = row]
           final == [submission |-> rows, value |-> value, query |-> query]
<1>1. Commit(final) /\ filed' = filed
    <2>1. [Db EXCEPT !.submission[s].status = "REJECTED", !.submission[s].current = FALSE]
            = [Db EXCEPT !.submission = rows]
        BY DEF Db
    <2>2. [Db EXCEPT !.submission = rows] = final
        <3> HIDE DEF rows
        <3> QED BY DEF Db
    <2> QED BY <2>1, <2>2 DEF Reject
<1>2. IInv' /\ Tables(Db) /\ filed' <= MaxSubmissions
    BY <1>1, RejectStep DEF LInv, IInv
<1>3. submission[s] \in Submission /\ Db.submission = submission /\ Db.value = value
    BY <1>2 DEF Tables, Table, Db
<1>4. /\ row \in Submission /\ row.status = "REJECTED"
      /\ row.state = submission[s].state /\ row.period = submission[s].period
    BY <1>3 DEF Submission, SubmissionStatus
<1> HIDE DEF row
<1>5. /\ DOMAIN rows = DOMAIN submission /\ rows[s] = row
      /\ \A t \in DOMAIN submission \ {s} : rows[t] = submission[t]
    BY <1>2, <1>3 DEF Tables, Table
<1>6. Table(rows, SubmissionId, Submission)
    BY <1>2, <1>3, <1>4 DEF Tables, Table
<1> HIDE DEF rows
<1>7. final.submission = rows /\ final.value = value
    OBVIOUS
<1>8. Tables(final)
    BY <1>2, <1>6 DEF Tables, Db
<1> HIDE DEF final
<1>9. Frozen(Db, final)
    BY <1>3, <1>7 DEF Frozen, SameFigures
<1>10. \A t : t \in Approvals(final) <=> t \in Approvals(Db) /\ t # s
    BY <1>3, <1>4, <1>5, <1>7 DEF Approvals
<1>11. \A t \in DOMAIN Db.submission : UnitOf(final, t) = UnitOf(Db, t)
    BY <1>3, <1>4, <1>5, <1>7 DEF UnitOf
<1>12. \A t : Report(final, t) = Report(Db, t)
    BY <1>2, <1>9, FrozenReports
<1>13. Withdraws(Db, final, s)
    BY <1>3, <1>10, <1>11, <1>12 DEF Withdraws, Approvals
<1> QED BY <1>1, <1>2, <1>8, <1>13, TransactsIs, WithdrawsOne

(* A return is deleted with its figures, and retracted if it was published.*)
LEMMA DeleteLedger ==
    ASSUME LInv, NEW s \in DOMAIN submission, Delete(s)
    PROVE  [Ledger!Next]_Published
<1> DEFINE rows == [t \in DOMAIN submission \ {s} |-> submission[t]]
           values == [v \in {w \in DOMAIN value : w[1] # s} |-> value[v]]
           queries == [q \in DOMAIN query |->
                         IF query[q].submission = s
                         THEN [query[q] EXCEPT !.submission = None] ELSE query[q]]
           final == [submission |-> rows, value |-> values, query |-> queries]
<1>1. Commit(final) /\ filed' = filed
    BY DEF Delete
<1>2. IInv' /\ Tables(Db) /\ filed' <= MaxSubmissions
    BY <1>1, DeleteStep DEF LInv, IInv
<1>3. Db.submission = submission /\ Db.value = value
    BY DEF Db
<1>4. /\ DOMAIN rows = DOMAIN submission \ {s}
      /\ \A t \in DOMAIN submission \ {s} : rows[t] = submission[t]
      /\ DOMAIN values = {w \in DOMAIN value : w[1] # s}
      /\ \A v \in DOMAIN values : values[v] = value[v]
    OBVIOUS
<1> HIDE DEF rows, values, queries
<1>5. /\ final.submission = rows /\ final.value = values
      /\ final = [submission |-> final.submission, value |-> final.value, query |-> final.query]
    OBVIOUS
<1> HIDE DEF final
<1>6. Db' = final
    BY <1>1, <1>5 DEF Commit, Db
<1>7. Tables(final)
    BY <1>2, <1>6 DEF IInv, Tables, Table
<1>8. \A t : t \in Approvals(final) <=> t \in Approvals(Db) /\ t # s
    BY <1>3, <1>4, <1>5 DEF Approvals
<1>9. \A t \in Approvals(final) : UnitOf(final, t) = UnitOf(Db, t)
    BY <1>3, <1>4, <1>5 DEF UnitOf, Approvals
<1>10. \A t : t # s => Report(final, t) = Report(Db, t)
    <2> SUFFICES ASSUME NEW t, t # s PROVE Report(final, t) = Report(Db, t)
        OBVIOUS
    <2>1. Keys(final, t) = Keys(Db, t)
        BY <1>3, <1>4, <1>5 DEF Keys
    <2>2. \A v \in Keys(Db, t) : final.value[<<t, v[2]>>] = Db.value[<<t, v[2]>>]
        <3> SUFFICES ASSUME NEW v \in Keys(Db, t)
                     PROVE  final.value[<<t, v[2]>>] = Db.value[<<t, v[2]>>]
            OBVIOUS
        <3>1. <<t, v[2]>> = v
            BY <1>2 DEF Keys, Tables, Table, ValueId
        <3> QED BY <1>3, <1>4, <1>5, <3>1 DEF Keys
    <2> QED BY <2>1, <2>2 DEF Report
<1>11. Withdraws(Db, final, s)
    BY <1>3, <1>8, <1>9, <1>10 DEF Withdraws
<1> QED BY <1>1, <1>2, <1>7, <1>11, TransactsIs, WithdrawsOne

(* A transaction that keeps standings and figures says nothing.            *)
LEMMA UntouchedStep ==
    ASSUME LInv, NEW e, Commit(e), Keeps(Db, e), Frozen(Db, e), UNCHANGED filed
    PROVE  Published' = Published
<1>1. IInv /\ IInv' /\ Tables(e) /\ filed' <= MaxSubmissions
    BY KeepingStep DEF LInv, Keeps
<1> QED BY <1>1, TransactsIs, Untouched

(* So it is with the rules run again,                                      *)
LEMMA RevalidateLedger ==
    ASSUME LInv, \E p \in Period : RevalidatePeriod(p)
    PROVE  Published' = Published
<1>1. Tables(Db) /\ Sound(Db) /\ Db.submission = submission
    BY DEF LInv, IInv, Db
<1>2. PICK p \in Period : RevalidatePeriod(p)
    OBVIOUS
<1> DEFINE S == {s \in DOMAIN submission : submission[s].period = p /\ submission[s].current}
<1>3. PICK f \in [S -> SUBSET Finding] : Commit(Check(Db, f, TRUE))
    BY <1>2 DEF RevalidatePeriod
<1> DEFINE final == Check(Db, f, TRUE)
<1>4. filed' = filed
    BY <1>2 DEF RevalidatePeriod
<1>5. S \in SUBSET InForce(Db)
    BY <1>1 DEF InForce
<1>6. DOMAIN f = S /\ \A t \in S : f[t] \in SUBSET Finding
    OBVIOUS
<1> HIDE DEF S
<1>7. Keeps(Db, final) /\ Frozen(Db, final)
    BY <1>1, <1>5, <1>6, CheckKeeps, CheckFrozen
<1>8. Commit(final)
    BY <1>3
<1> HIDE DEF final
<1> QED BY <1>4, <1>7, <1>8, UntouchedStep

(* and with the steps of the workflow that write the query's row only.     *)
LEMMA AnswerLedger ==
    ASSUME LInv, NEW q \in DOMAIN query,
           \/ \E proposed \in Figure \cup {None}, target \in Period : Respond(q, proposed, target)
           \/ RejectAnswer(q)
           \/ Escalate(q)
    PROVE  Published' = Published
<1>1. submission' = submission /\ value' = value
    BY DEF Respond, RejectAnswer, Escalate, Commit, Db
<1> QED BY <1>1 DEF Published, Analysable, CurrentFor, Db

(* A query is settled: one figure is restated, or none.                    *)
LEMMA SettleLedger ==
    ASSUME LInv, NEW q \in DOMAIN query, Accept(q) \/ Withdraw(q)
    PROVE  [Ledger!Next]_Published
<1>1. /\ Tables(Db) /\ Sound(Db) /\ Db.query = query /\ Db.value = value
      /\ query[q] \in Query /\ q \in QueryId
    BY DEF LInv, IInv, Tables, Table, Db
<1>2. filed' = filed /\ filed' <= MaxSubmissions /\ IInv'
    BY SettleStep DEF Accept, Withdraw, LInv
<1>3. ASSUME NEW status \in QueryStatus, Commit(Settle(ReleaseQuarantine(Db, q), q, status))
      PROVE  Published' = Published
    <2> DEFINE final == Settle(ReleaseQuarantine(Db, q), q, status)
    <2>1. Keeps(Db, final) /\ Frozen(Db, final)
        BY <1>1, SettledKeeps, SettledFrozen
    <2>2. Commit(final)
        BY <1>3
    <2> HIDE DEF final
    <2> QED BY <1>2, <2>1, <2>2, UntouchedStep
<1>4. CASE Withdraw(q)
    BY <1>3, <1>4 DEF Withdraw, QueryStatus
<1>5. CASE Accept(q) /\ query[q].answer.proposed = None
    BY <1>3, <1>5 DEF Accept, QueryStatus
<1>6. CASE Accept(q) /\ query[q].answer.proposed # None
    <2>1. PICK v \in Corrects(q) :
             Commit(Settle(ReleaseQuarantine(Restated(Db, v, q), q), q, "ACCEPTED"))
        BY <1>6 DEF Accept
    <2> DEFINE d == Restated(Db, v, q)
               proposed == query[q].answer.proposed
               final == Settle(ReleaseQuarantine(d, q), q, "ACCEPTED")
    <2>2. v \in DOMAIN Db.value /\ Db.value[v] = value[v]
        BY <1>1 DEF Corrects
    <2>3. proposed \in Figure
        <3>1. query[q].answer \in Answer
            BY <1>1 DEF Query
        <3> QED BY <1>6, <3>1 DEF Answer
    <2>4. Keeps(Db, d) /\ d.query = query
        BY <1>1, <2>2, <2>3, RestatedKeeps
    <2>5. /\ Sound(d) /\ d.value[v].value = proposed /\ DOMAIN d.value = DOMAIN Db.value
          /\ \A w \in DOMAIN Db.value \ {v} : d.value[w] = Db.value[w]
        BY <1>1, <2>2, <2>3, RestatedSound
    <2>6. Commit(final)
        BY <2>1
    <2> HIDE DEF d
    <2>7. Keeps(d, final) /\ Frozen(d, final)
        BY <2>4, <2>5, SettledKeeps, SettledFrozen DEF Keeps, QueryStatus
    <2> HIDE DEF final, proposed
    <2>8. Rewrites(Db, final, v, proposed)
        BY <2>2, <2>3, <2>5, <2>7 DEF Rewrites, Frozen, SameFigures
    <2>9. Keeps(Db, final) /\ Tables(final)
        BY <2>4, <2>7, KeepsTransitive DEF Keeps
    <2> QED BY <1>2, <2>6, <2>8, <2>9, TransactsIs, RewritesOne
<1> QED BY <1>4, <1>5, <1>6

(* Every step is a step of the ledger, or none of its business.            *)
LEMMA NextLedger == LInv /\ [Next]_vars => [Ledger!Next]_Published /\ (filed <= MaxSubmissions)'
<1> SUFFICES ASSUME LInv, [Next]_vars
             PROVE  [Ledger!Next]_Published /\ (filed <= MaxSubmissions)'
    OBVIOUS
<1>1. CASE Filing
    <2>1. (filed <= MaxSubmissions)'
        BY <1>1, ReturnsAssumption DEF Filing, Ingest, LInv, IInv
    <2> QED BY <1>1, <2>1, IngestLedger DEF Filing
<1>2. CASE Review
    <2>1. filed' = filed
        BY <1>2 DEF Review, Approve, Reject, Delete, RevalidatePeriod
    <2> QED BY <1>2, <2>1, ApproveLedger, RejectLedger, DeleteLedger, RevalidateLedger
            DEF Review, LInv
<1>3. CASE Workflow
    <2>1. filed' = filed
        BY <1>3 DEF Workflow, Respond, Accept, RejectAnswer, Withdraw, Escalate
    <2> QED BY <1>3, <2>1, AnswerLedger, SettleLedger DEF Workflow, LInv
<1>4. CASE UNCHANGED tables
    <2>1. Published' = Published
        BY <1>4 DEF tables, Published, Analysable, CurrentFor, Db
    <2> QED BY <1>4, <2>1 DEF tables, LInv
<1>5. CASE Administration
    BY <1>4, <1>5 DEF Administration
<1>6. CASE UNCHANGED vars
    BY <1>4, <1>6 DEF vars, tables
<1> QED BY <1>1, <1>2, <1>3, <1>5, <1>6 DEF Next

(* Nothing is published at first.                                          *)
LEMMA InitLedger == Init => Ledger!Init /\ filed <= MaxSubmissions
<1> SUFFICES ASSUME Init PROVE Ledger!Init /\ filed <= MaxSubmissions
    OBVIOUS
<1>1. submission = <<>> /\ filed = 0 /\ DOMAIN <<>> = {}
    BY DEF Init
<1>2. \A u \in Unit : View(Db, u) = None
    BY <1>1 DEF View, Authoritative, CurrentFor, Db
<1>3. Ledger!Init
    BY <1>2, PublishedIs DEF Ledger!Init, Ledger!Unit, Unit
<1> QED BY <1>1, <1>3, ReturnsAssumption

-----------------------------------------------------------------------------
(* The life of a return implements the reader's view of it: whatever is    *)
(* filed, decided, answered and deleted, one transaction puts one return   *)
(* in force for one unit, takes it out, or restates one figure of it.      *)
THEOREM ImplementsPublishedFigures == Spec => PublishedSpec
<1>1. Init => Ledger!Init /\ LInv
    BY InitLedger, InitIInv, InitSound DEF LInv
<1>2. LInv /\ [Next]_vars => [Ledger!Next]_Published /\ LInv'
    BY NextLedger, NextIInv, NextSound DEF LInv
<1>3. Spec => Ledger!Init /\ [][Ledger!Next]_Published
    BY <1>1, <1>2, PTL DEF Spec
<1> QED BY <1>3 DEF PublishedSpec, Ledger!Spec
=============================================================================

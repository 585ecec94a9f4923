------------------------- MODULE ReturnsProperties -------------------------
(* What the life of a return must guarantee, over the actions of Returns.  *)
EXTENDS Returns

Rows == DOMAIN submission \cap DOMAIN submission'
Figures == DOMAIN value \cap DOMAIN value'
Queries == DOMAIN query \cap DOMAIN query'

-----------------------------------------------------------------------------
(* Exactly one return stays authoritative: whatever versions are filed,    *)
(* approved out of order, rejected, deleted and filed again, a state never *)
(* has two current returns for a period.                                   *)
OneCurrentReturn ==
    \A s, t \in DOMAIN submission :
        SameUnit(Db, s, t) /\ submission[s].current /\ submission[t].current => s = t

(* Approved implies current.  The analysis reads approved current returns, *)
(* the history checks of the rule engine read approved ones and do not ask *)
(* whether they are current; they see the same figures only because of this.*)
ApprovedIsCurrent ==
    \A s \in DOMAIN submission : submission[s].status = "APPROVED" => submission[s].current

(* The count of unfit figures stored on a return is the number of figures  *)
(* labelled unfit on it, through carrying, re-labelling and release.       *)
HeldCountExact ==
    \A s \in DOMAIN submission : submission[s].heldCount = Cardinality(HeldOn(Db, s))

(* The count of open queries stored on a return never promises more open   *)
(* queries than there are.  (It may fall behind: see README, findings.)    *)
OpenCountNeverOverstates ==
    \A s \in DOMAIN submission :
        submission[s].openCount <= Cardinality(OpenQueriesOn(Db, s))

(* The revisions of a figure lead, without a gap, from what the state      *)
(* first reported to what the figure says now, and an unrevised figure is  *)
(* as reported.  The original kept beside it is the start of the trail,    *)
(* unless the state reported a blank and it was corrected more than once:  *)
(* the second acceptance makes the first correction the original.          *)
Origin(trail) ==
    IF trail[1].previous = None /\ Len(trail) > 1 THEN trail[1].new ELSE trail[1].previous

RevisionsExplainFigure ==
    \A v \in DOMAIN value :
        LET row == value[v]
            n   == Len(row.trail)
        IN  /\ row.restated <=> n > 0
            /\ row.value = IF n = 0 THEN row.original ELSE row.trail[n].new
            /\ n > 0 => row.original = Origin(row.trail)
            /\ \A k \in 1..(n - 1) : row.trail[k].new = row.trail[k + 1].previous

-----------------------------------------------------------------------------
(* When a return gives way to another version, every query open on it      *)
(* moves to the version that took its place and is still open there.       *)
QueriesFollowReplacement ==
    [][\A s, t \in Rows \cup (DOMAIN submission' \ DOMAIN submission) :
          ( /\ s \in Rows
            /\ submission[s].current /\ ~submission'[s].current
            /\ submission'[t].current
            /\ SameUnit(Db, s, t)' )
          => \A q \in OpenQueriesOn(Db, s) :
                query'[q].submission = t /\ IsOpen(Db, q)']_vars

(* An unfit label comes off only when no query about that figure of that   *)
(* return is open any more: settling one of two does not release it.       *)
FlagLiftedOnlyWhenSettled ==
    [][\A v \in Figures :
          ~IsValid(value[v].label) /\ IsValid(value'[v].label)
          => \A q \in DOMAIN query' :
                query'[q].submission = v[1] /\ q.indicator = v[2] => ~IsOpen(Db, q)']_vars

(* No figure changes without an accepted response behind it, for exactly   *)
(* that indicator, on the return that is current for the response's period.*)
FiguresMoveByAcceptance ==
    [][\A v \in Figures :
          value'[v].value # value[v].value
          => \E q \in Queries :
                /\ query'[q].status = "ACCEPTED"
                /\ query[q].answer.proposed = value'[v].value
                /\ q.indicator = v[2]
                /\ v[1] \in CurrentFor(Db, q.state, query[q].answer.target)]_vars

(* Re-validation never quietly withdraws an approval: an approved return   *)
(* stops being approved only by rejection or by giving way to another.     *)
ApprovalStands ==
    [][\A s \in Rows :
          submission[s].status = "APPROVED" /\ submission'[s].status # "APPROVED"
          => \/ submission'[s].status = "REJECTED"
             \/ /\ submission'[s].status = "SUPERSEDED"
                /\ \E t \in DOMAIN submission' :
                      t # s /\ SameUnit(Db, s, t)' /\ submission'[t].current]_vars

(* Running the rules again opens no second query for a finding that has    *)
(* one open, also when that one was raised on an earlier version.          *)
RaisedOnce ==
    [][\A q \in DOMAIN query' \ DOMAIN query : \A o \in DOMAIN query' :
          ( /\ o.state = q.state /\ o.period = q.period
            /\ o.rule = q.rule /\ o.indicator = q.indicator
            /\ IsOpen(Db, o)' )
          => o = q]_vars

-----------------------------------------------------------------------------
(* What analysis reads: the approved current return of a state and period, *)
(* with its figures as they stand.  A label travels with a figure and      *)
(* never takes it out.                                                     *)
Analysable(st, p) ==
    {s \in CurrentFor(Db, st, p) : submission[s].status = "APPROVED"}

Published ==
    [u \in State \X Period |->
        IF Analysable(u[1], u[2]) = {} THEN None
        ELSE LET s == CHOOSE t \in Analysable(u[1], u[2]) : TRUE
             IN  [return  |-> s,
                  figures |-> [i \in {v[2] : v \in {w \in DOMAIN value : w[1] = s}} |->
                                 value[<<s, i>>].value]]]

Ledger == INSTANCE PublishedFigures
            WITH published <- Published, ReturnId <- 1..MaxSubmissions

(* What stands for no account is none.                                     *)
ASSUME LedgerAssumption == None \notin Ledger!Account

(* The life of a return implements the reader's view of it: no handler     *)
(* touches the published figures of two states or periods at once, swaps a *)
(* figure in passing or leaves a return half in force.                     *)
PublishedSpec == Ledger!Spec

(* A closed cycle takes a new return only from a state that held a usable  *)
(* reopening of that very cycle, and the return spends it in the same      *)
(* transaction.                                                            *)
ClosedCycleTakesNoReturn ==
    [][filed' # filed =>
          LET row == submission'[filed']
          IN  ~isOpen[row.period] =>
                \E g \in DOMAIN grant :
                   /\ grant[g].state = row.state /\ grant[g].period = row.period
                   /\ Gate!IsActive(grant[g]) /\ ~Gate!IsActive(grant'[g])]_vars

-----------------------------------------------------------------------------
(* What the code or its documents promise and the code does not keep.      *)

(* Every open query of the state and period is on the return just filed.   *)
RefiledReturnTakesQueries ==
    [][filed' # filed
       => \A q \in DOMAIN query' :
             /\ q.state = submission'[filed'].state
             /\ q.period = submission'[filed'].period
             /\ IsOpen(Db, q)'
             => query'[q].submission = filed']_vars
=============================================================================

------------------------------ MODULE Periods ------------------------------
(***************************************************************************)
(* Closing a reporting cycle, and what it takes to file into a closed one. *)
(*                                                                         *)
(* A period is open or closed.  A closed period takes a new return only    *)
(* from a state that holds an active reopening, and a reopening admits one *)
(* return: the ingestion handlers ask AssertCanSubmit before they store    *)
(* anything and consume the grant when the return lands, in one database   *)
(* transaction, so both are one action here (File).                        *)
(***************************************************************************)
EXTENDS Naturals, Sequences

CONSTANTS
    State,         \* the states that file returns
    Period,        \* the reporting periods
    MaxGrants,     \* bound: reopenings ever granted
    MaxGrantDays,  \* bound: the longest a reopening is granted for
    Horizon        \* bound: the last day the calendar reaches

ASSUME BoundsAssumption ==
    MaxGrants \in Nat /\ MaxGrantDays \in Nat /\ Horizon \in Nat

VARIABLES
    today,   \* the date.today() every check reads
    isOpen,  \* isOpen[p]: ReportingPeriod.is_open
    grant,   \* the period_reopenings table; the row with id g is grant[g]
    landed   \* history: the returns that landed in a closed period, in order

vars == <<today, isOpen, grant, landed>>

Reopening ==
    [state: State, period: Period, expires: Nat, used: BOOLEAN, revoked: BOOLEAN]

Landing == [state: State, period: Period, grant: Nat]

TypeOK ==
    /\ today \in Nat
    /\ isOpen \in [Period -> BOOLEAN]
    /\ grant \in Seq(Reopening)
    /\ landed \in Seq(Landing)

Init ==
    /\ today = 0
    /\ isOpen = [p \in Period |-> TRUE]
    /\ grant = <<>>
    /\ landed = <<>>

-----------------------------------------------------------------------------
(* PeriodReopening.is_active without its expiry test: what a mutant checks. *)
IsActiveForever(row) == ~row.revoked /\ ~row.used

IsActive(row) == ~row.revoked /\ ~row.used /\ today <= row.expires

Status(row) ==
    CASE row.revoked    -> "REVOKED"
      [] row.used /\ ~row.revoked -> "USED"
      [] ~row.revoked /\ ~row.used /\ ~IsActive(row) -> "EXPIRED"
      [] OTHER -> "ACTIVE"

(* Mutant: the look-up without its state filter.                           *)
AnyStatesReopenings(st, p) ==
    {g \in DOMAIN grant : grant[g].period = p /\ IsActive(grant[g])}

(* The reopenings that would admit a return of st for p today.             *)
ActiveReopenings(st, p) ==
    {g \in DOMAIN grant :
        grant[g].state = st /\ grant[g].period = p /\ IsActive(grant[g])}

-----------------------------------------------------------------------------
ClosePeriod(p) ==
    /\ isOpen[p]
    /\ isOpen' = [isOpen EXCEPT ![p] = FALSE]
    /\ UNCHANGED <<today, grant, landed>>

(* Reopens the cycle to every state.  Reopenings granted while it was      *)
(* closed are left as they are, and count again if it closes again.        *)
ReopenPeriod(p) ==
    /\ ~isOpen[p]
    /\ isOpen' = [isOpen EXCEPT ![p] = TRUE]
    /\ UNCHANGED <<today, grant, landed>>

(* Mutant: the row is written with its two keys swapped.                   *)
AddGrantSwapped(p, st, days) ==
    /\ Len(grant) < MaxGrants
    /\ today + days < Horizon
    /\ grant' = Append(grant, [state |-> p, period |-> st, expires |-> today + days,
                               used |-> FALSE, revoked |-> FALSE])
    /\ UNCHANGED <<today, isOpen, landed>>

AddGrant(p, st, days) ==
    /\ Len(grant) < MaxGrants
    /\ today + days < Horizon
    /\ grant' = Append(grant, [state |-> st, period |-> p, expires |-> today + days,
                               used |-> FALSE, revoked |-> FALSE])
    /\ UNCHANGED <<today, isOpen, landed>>

(* Mutant: the grant without the look for one the state already holds.     *)
GrantTwice(p, st, days) == ~isOpen[p] /\ AddGrant(p, st, days)

GrantReopening(p, st, days) ==
    /\ ~isOpen[p]
    /\ ActiveReopenings(st, p) = {}
    /\ AddGrant(p, st, days)

(* Mutant: the withdrawal without its first guard.                         *)
RevokeUsed(g) ==
    /\ ~grant[g].revoked
    /\ grant' = [grant EXCEPT ![g].revoked = TRUE]
    /\ UNCHANGED <<today, isOpen, landed>>

(* A lapsed reopening may still be withdrawn; a used one may not.          *)
RevokeReopening(g) ==
    /\ ~grant[g].used
    /\ ~grant[g].revoked
    /\ grant' = [grant EXCEPT ![g].revoked = TRUE]
    /\ UNCHANGED <<today, isOpen, landed>>

(* The return of st for p lands on reopening g, which admits no other.     *)
ConsumeReopening(g, st, p) ==
    /\ grant' = [grant EXCEPT ![g].used = TRUE]
    /\ landed' = Append(landed, [state |-> st, period |-> p, grant |-> g])

(* What an ingestion does to this component: refused unless the period is  *)
(* open or the state holds an active reopening, which it then uses up.  A  *)
(* return that lands in an open period uses no reopening.                  *)
File(st, p) ==
    /\ \/ isOpen[p] /\ UNCHANGED <<grant, landed>>
       \/ ~isOpen[p] /\ \E g \in ActiveReopenings(st, p) : ConsumeReopening(g, st, p)
    /\ UNCHANGED <<today, isOpen>>

DayPasses ==
    /\ today < Horizon
    /\ today' = today + 1
    /\ UNCHANGED <<isOpen, grant, landed>>

Next ==
    \/ \E p \in Period : ClosePeriod(p) \/ ReopenPeriod(p)
    \/ \E p \in Period, st \in State, days \in 1..MaxGrantDays : GrantReopening(p, st, days)
    \/ \E g \in DOMAIN grant : RevokeReopening(g)
    \/ \E st \in State, p \in Period : File(st, p)
    \/ DayPasses

Spec == Init /\ [][Next]_vars

(* The calendar is the only thing here that moves by itself.               *)
FairSpec == Spec /\ WF_vars(DayPasses)

-----------------------------------------------------------------------------
(* A state never holds two reopenings for one period that are both active, *)
(* whatever the order of grants, lapses, withdrawals and filings, so which *)
(* of them active_reopening returns is never a matter of row order.        *)
OneActiveReopening ==
    \A g, h \in DOMAIN grant :
        /\ grant[g].state = grant[h].state
        /\ grant[g].period = grant[h].period
        /\ IsActive(grant[g])
        /\ IsActive(grant[h])
        => g = h

(* Every return that landed in a closed period used up a reopening of that *)
(* very state and period, and no two of them used the same one: re-closing *)
(* a reopened period, or letting days pass, never lets a grant admit twice.*)
OneReturnPerReopening ==
    /\ \A i \in DOMAIN landed :
          /\ landed[i].grant \in DOMAIN grant
          /\ grant[landed[i].grant].used
          /\ grant[landed[i].grant].state = landed[i].state
          /\ grant[landed[i].grant].period = landed[i].period
    /\ \A i, j \in DOMAIN landed : landed[i].grant = landed[j].grant => i = j

(* The status shown for a reopening only moves forward: used and withdrawn *)
(* are final, and a lapsed one can become withdrawn but never usable again.*)
StatusMovesForward ==
    [][\A g \in DOMAIN grant :
          LET before == Status(grant[g])
              after  == Status(grant[g])'
          IN  \/ before = after
              \/ before = "ACTIVE"
              \/ before = "EXPIRED" /\ after = "REVOKED"]_vars

(* A reopening that nobody uses or withdraws lapses by itself: no closed   *)
(* period stays writable for ever.                                         *)
ReopeningsLapse ==
    \A g \in 1..MaxGrants :
        (g \in DOMAIN grant /\ Status(grant[g]) = "ACTIVE")
            ~> (g \in DOMAIN grant /\ Status(grant[g]) # "ACTIVE")
=============================================================================

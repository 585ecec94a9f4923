------------------------------ MODULE Calendar ------------------------------
(***************************************************************************)
(* The reporting calendar: which periods there are, how they are created   *)
(* and how they lie to one another.  A period is named by its family, its  *)
(* year and its number within the year, which its unique code spells out,  *)
(* and spans whole months.                                                 *)
(***************************************************************************)
EXTENDS Integers, SequencesExt

VARIABLE isOpen  \* isOpen[p]: ReportingPeriod.is_open of the periods there are

PeriodGrain == <<"ANNUAL", "SEMI_ANNUAL", "QUARTERLY", "MONTHLY">>
ReportingPeriodTypes == {"MONTHLY", "QUARTERLY"}

Months(type) ==
    CASE type = "MONTHLY" -> 1 [] type = "QUARTERLY" -> 3
      [] type = "SEMI_ANNUAL" -> 6 [] type = "ANNUAL" -> 12

(* The periods there can be.  The number is checked against the family; an *)
(* annual period takes any and is the same row, which is number 1 here.    *)
Cycle == {p \in [type : {PeriodGrain[n] : n \in DOMAIN PeriodGrain}, year : Nat, seq : 1..12] :
             p.seq * Months(p.type) <= 12}

Numbered(type, year) == [type : {type}, year : {year}, seq : 1..(12 \div Months(type))]

(* Mutant: the last month is counted one too far.                          *)
PeriodBoundsOverlapping(p) ==
    LET first == 12 * p.year + (p.seq - 1) * Months(p.type) + 1
    IN  [first |-> first, last |-> first + Months(p.type)]

(* The first and the last month of a period, the months numbered through.  *)
PeriodBounds(p) ==
    LET first == 12 * p.year + (p.seq - 1) * Months(p.type) + 1
    IN  [first |-> first, last |-> first + Months(p.type) - 1]

Inside(p, q) ==
    /\ PeriodBounds(q).first <= PeriodBounds(p).first
    /\ PeriodBounds(p).last <= PeriodBounds(q).last

(* Mutant: the row is written whether it is there or not.                  *)
EnsurePeriodsAnew(P, open) ==
    isOpen' = [p \in P \cup DOMAIN isOpen |-> IF p \in P THEN open ELSE isOpen[p]]

(* The periods of P that are there are left as they are.                   *)
EnsurePeriods(P, open) ==
    isOpen' = [p \in P \cup DOMAIN isOpen |-> IF p \in DOMAIN isOpen THEN isOpen[p] ELSE open]

CreatePeriod(p, open) == EnsurePeriods({p}, open)

GenerateYear(year, types) ==
    EnsurePeriods(UNION {Numbered(type, year) : type \in types}, TRUE)

-----------------------------------------------------------------------------
Earlier(p, q) ==
    IF p.year # q.year THEN p.year < q.year
    ELSE IF p.type # q.type
         THEN Months(p.type) < Months(q.type)
         ELSE p.seq < q.seq

InOrder(P) ==
    [n \in 1..Cardinality(P) |->
        CHOOSE p \in P : Cardinality({q \in P : Earlier(q, p)}) = n - 1]

(* The periods of the families, oldest first.                              *)
OrderedPeriods(types) == InOrder({p \in DOMAIN isOpen : p.type \in types})

(* The period of the family right before p, if there is one.               *)
PrecedingPeriod(p) ==
    LET before == {q \in DOMAIN isOpen : q.type = p.type /\ Earlier(q, p)}
    IN  {q \in before : \A r \in before : ~Earlier(q, r)}

(* The family one step finer, if there is one.                             *)
FinerGrain(type) ==
    {PeriodGrain[n] : n \in {m \in DOMAIN PeriodGrain : m > 1 /\ PeriodGrain[m - 1] = type}}

(* The finer periods that fall entirely inside p, oldest first.            *)
EnclosedPeriods(p) ==
    InOrder({q \in DOMAIN isOpen : q.type \in FinerGrain(p.type) /\ Inside(q, p)})

(* The quarters that are checked again when a return for p arrives, of     *)
(* which the query takes one.                                              *)
EnclosingQuarters(p) ==
    {q \in DOMAIN isOpen : q.type = "QUARTERLY" /\ Inside(p, q) /\ q # p}
=============================================================================

--------------------------- MODULE PeriodsProofs ---------------------------
(* Proofs about Periods, for any states, periods and bounds.               *)
EXTENDS Periods, TLAPS

(* A step that marks a row: a filing uses an active grant, an administrator*)
(* withdraws one that is not used.                                         *)
Marked(g) ==
    \/ IsActive(grant[g]) /\ grant' = [grant EXCEPT ![g].used = TRUE]
    \/ ~grant[g].used /\ grant' = [grant EXCEPT ![g].revoked = TRUE]

(* What a step may make of a row: its state, period and expiry stay, its   *)
(* marks only get set, the use only while it is active, and a used row is  *)
(* not withdrawn any more.                                                 *)
Moves(row, new) ==
    /\ new.state = row.state /\ new.period = row.period /\ new.expires = row.expires
    /\ row.used => new.used
    /\ row.revoked => new.revoked
    /\ row.used /\ ~row.revoked => ~new.revoked
    /\ ~row.used /\ new.used => IsActive(row)

(* Marking a row keeps the table's type and moves no other row.            *)
LEMMA MarkingMoves ==
    ASSUME TypeOK, NEW g \in DOMAIN grant, Marked(g)
    PROVE  /\ grant' \in Seq(Reopening)
           /\ DOMAIN grant' = DOMAIN grant
           /\ \A h \in DOMAIN grant : Moves(grant[h], grant'[h])
<1>1. grant \in Seq(Reopening) /\ grant[g] \in Reopening
    BY DEF TypeOK
<1>2. grant' = [grant EXCEPT ![g] = grant'[g]]
    BY <1>1 DEF Marked
<1>3. grant'[g] \in Reopening /\ Moves(grant[g], grant'[g])
    BY <1>1 DEF Marked, Reopening, Moves
<1> QED
    BY <1>1, <1>2, <1>3 DEF Moves

(* Granting adds one row behind the others and touches none of them.       *)
LEMMA AddingMoves ==
    ASSUME TypeOK, NEW p \in Period, NEW st \in State, NEW days \in 1..MaxGrantDays,
           AddGrant(p, st, days)
    PROVE  /\ grant' \in Seq(Reopening)
           /\ DOMAIN grant' = DOMAIN grant \cup {Len(grant) + 1}
           /\ \A h \in DOMAIN grant : grant'[h] = grant[h]
           /\ grant'[Len(grant) + 1] = [state |-> st, period |-> p, expires |-> today + days,
                                        used |-> FALSE, revoked |-> FALSE]
<1> DEFINE new == [state |-> st, period |-> p, expires |-> today + days,
                   used |-> FALSE, revoked |-> FALSE]
<1>1. new \in Reopening
    BY BoundsAssumption DEF Reopening, TypeOK
<1>2. grant \in Seq(Reopening) /\ grant' = Append(grant, new)
    BY DEF TypeOK, AddGrant
<1> HIDE DEF new
<1>3. /\ grant' \in Seq(Reopening)
      /\ DOMAIN grant' = DOMAIN grant \cup {Len(grant) + 1}
      /\ \A h \in DOMAIN grant : grant'[h] = grant[h]
      /\ grant'[Len(grant) + 1] = new
    BY <1>1, <1>2
<1> QED
    BY <1>3 DEF new

(* The step of the table that each action of the component takes.          *)
LEMMA GrantSteps ==
    ASSUME TypeOK, [Next]_vars
    PROVE  \/ UNCHANGED grant
           \/ \E g \in DOMAIN grant : Marked(g)
           \/ \E p \in Period, st \in State, days \in 1..MaxGrantDays :
                 GrantReopening(p, st, days)
<1>1. ASSUME NEW st \in State, NEW p \in Period, File(st, p)
      PROVE  UNCHANGED grant \/ \E g \in DOMAIN grant : Marked(g)
    BY <1>1 DEF File, ConsumeReopening, ActiveReopenings, Marked
<1>2. ASSUME NEW g \in DOMAIN grant, RevokeReopening(g)
      PROVE  Marked(g)
    BY <1>2 DEF RevokeReopening, Marked
<1> QED
    BY <1>1, <1>2 DEF Next, vars, ClosePeriod, ReopenPeriod, DayPasses

(* Nothing takes a grant away, renames it or clears a mark of it.          *)
LEMMA GrantsOnlyMove ==
    ASSUME TypeOK, [Next]_vars
    PROVE  /\ DOMAIN grant \subseteq DOMAIN grant'
           /\ \A g \in DOMAIN grant : Moves(grant[g], grant'[g])
<1>1. CASE UNCHANGED grant
    BY <1>1 DEF Moves
<1>2. ASSUME NEW g \in DOMAIN grant, Marked(g)
      PROVE  DOMAIN grant' = DOMAIN grant /\ \A h \in DOMAIN grant : Moves(grant[h], grant'[h])
    BY <1>2, MarkingMoves
<1>3. ASSUME NEW p \in Period, NEW st \in State, NEW days \in 1..MaxGrantDays,
             GrantReopening(p, st, days)
      PROVE  DOMAIN grant \subseteq DOMAIN grant' /\ \A h \in DOMAIN grant : grant'[h] = grant[h]
    BY <1>3, AddingMoves DEF GrantReopening
<1> QED
    BY <1>1, <1>2, <1>3, GrantSteps DEF Moves

-----------------------------------------------------------------------------
(* The tables are empty and the calendar at its first day.                 *)
LEMMA TypeOKInit == Init => TypeOK
BY DEF Init, TypeOK

(* The table keeps its type by the two lemmas above; the history takes     *)
(* landings of the returns that used a grant.                              *)
LEMMA TypeOKStep == TypeOK /\ [Next]_vars => TypeOK'
<1> SUFFICES ASSUME TypeOK, [Next]_vars
             PROVE  TypeOK'
    OBVIOUS
<1>1. grant' \in Seq(Reopening)
    <2>1. CASE UNCHANGED grant
        BY <2>1 DEF TypeOK
    <2>2. ASSUME NEW g \in DOMAIN grant, Marked(g)
          PROVE  grant' \in Seq(Reopening)
        BY <2>2, MarkingMoves
    <2>3. ASSUME NEW p \in Period, NEW st \in State, NEW days \in 1..MaxGrantDays,
                 GrantReopening(p, st, days)
          PROVE  grant' \in Seq(Reopening)
        BY <2>3, AddingMoves DEF GrantReopening
    <2> QED
        BY <2>1, <2>2, <2>3, GrantSteps
<1>2. landed' \in Seq(Landing)
    <2>1. ASSUME NEW st \in State, NEW p \in Period, File(st, p)
          PROVE  landed' \in Seq(Landing)
        <3>1. ASSUME NEW g \in ActiveReopenings(st, p), ConsumeReopening(g, st, p)
              PROVE  landed' \in Seq(Landing)
            <4>1. g \in Nat
                BY <3>1 DEF ActiveReopenings, TypeOK
            <4>2. [state |-> st, period |-> p, grant |-> g] \in Landing
                BY <4>1 DEF Landing
            <4> QED
                BY <3>1, <4>2 DEF ConsumeReopening, TypeOK
        <3> QED
            BY <2>1, <3>1 DEF File, TypeOK
    <2>2. ~(\E st \in State, p \in Period : File(st, p)) => UNCHANGED landed
        BY DEF Next, vars, ClosePeriod, ReopenPeriod, GrantReopening, AddGrant,
               RevokeReopening, DayPasses
    <2> QED
        BY <2>1, <2>2 DEF TypeOK
<1>3. isOpen' \in [Period -> BOOLEAN] /\ today' \in Nat
    <2>1. ASSUME NEW p \in Period, ClosePeriod(p) \/ ReopenPeriod(p)
          PROVE  isOpen' \in [Period -> BOOLEAN] /\ UNCHANGED today
        BY <2>1 DEF ClosePeriod, ReopenPeriod, TypeOK
    <2>2. DayPasses => UNCHANGED isOpen /\ today' \in Nat
        BY DEF DayPasses, TypeOK
    <2>3. (\/ UNCHANGED vars
           \/ \E g \in DOMAIN grant : RevokeReopening(g)
           \/ \E st \in State, p \in Period : File(st, p)
           \/ \E p \in Period, st \in State, days \in 1..MaxGrantDays :
                 GrantReopening(p, st, days))
          => UNCHANGED <<isOpen, today>>
        BY DEF vars, GrantReopening, AddGrant, RevokeReopening, File
    <2> QED
        BY <2>1, <2>2, <2>3 DEF Next, TypeOK
<1> QED
    BY <1>1, <1>2, <1>3 DEF TypeOK

(* Every variable keeps to the values the tables and the calendar can hold.*)
THEOREM TypeCorrect == Spec => []TypeOK
BY TypeOKInit, TypeOKStep, PTL DEF Spec

-----------------------------------------------------------------------------
(* The calendar never runs backwards.                                      *)
LEMMA TodayOnlyGrows ==
    ASSUME TypeOK, [Next]_vars
    PROVE  today \in Nat /\ today' \in Nat /\ today <= today'
<1>1. DayPasses \/ UNCHANGED today
    BY DEF Next, vars, ClosePeriod, ReopenPeriod, GrantReopening, AddGrant,
           RevokeReopening, File
<1> QED
    BY <1>1 DEF DayPasses, TypeOK

(* A grant that is active after a step was active before it: once lapsed,  *)
(* used or withdrawn it never becomes usable again.                        *)
LEMMA ActiveBefore ==
    ASSUME TypeOK, [Next]_vars, NEW g \in DOMAIN grant, IsActive(grant[g])'
    PROVE  IsActive(grant[g])
<1>1. Moves(grant[g], grant'[g])
    BY GrantsOnlyMove
<1>2. ~grant[g].used /\ ~grant[g].revoked
    BY <1>1, Zenon DEF IsActive, Moves
<1>3. today <= grant[g].expires
    <2>1. grant[g].expires \in Nat
        <3>1. grant[g] \in Reopening
            BY DEF TypeOK
        <3> QED
            BY <3>1 DEF Reopening
    <2>2. today' <= grant'[g].expires /\ grant'[g].expires = grant[g].expires
        BY <1>1, Zenon DEF IsActive, Moves
    <2> QED
        BY <2>1, <2>2, TodayOnlyGrows
<1> QED
    BY <1>2, <1>3, Zenon DEF IsActive

(* The invariant with the types it rests on.  It is inductive: a step      *)
(* makes no old grant active, and a new one is granted only when the state *)
(* holds none that is.                                                     *)
GrantInv == TypeOK /\ OneActiveReopening

(* The invariant survives every step: the two grants compared are both old,*)
(* or one of them is the one just granted.                                 *)
LEMMA GrantInvStep == GrantInv /\ [Next]_vars => GrantInv'
<1> SUFFICES ASSUME GrantInv, [Next]_vars
             PROVE  GrantInv'
    OBVIOUS
<1> USE DEF GrantInv
<1>1. TypeOK'
    BY TypeOKStep
<1>2. OneActiveReopening'
    <2> SUFFICES ASSUME NEW g \in DOMAIN grant', NEW h \in DOMAIN grant',
                        grant'[g].state = grant'[h].state,
                        grant'[g].period = grant'[h].period,
                        IsActive(grant[g])', IsActive(grant[h])'
                 PROVE  g = h
        BY DEF OneActiveReopening
    <2>1. CASE g \in DOMAIN grant /\ h \in DOMAIN grant
        <3>1. IsActive(grant[g]) /\ IsActive(grant[h])
            BY <2>1, ActiveBefore
        <3>2. Moves(grant[g], grant'[g]) /\ Moves(grant[h], grant'[h])
            BY <2>1, GrantsOnlyMove
        <3> QED
            BY <2>1, <3>1, <3>2 DEF OneActiveReopening, Moves
    <2>2. CASE ~(g \in DOMAIN grant /\ h \in DOMAIN grant)
        <3>1. PICK p \in Period, st \in State, days \in 1..MaxGrantDays :
                 GrantReopening(p, st, days)
            BY <2>2, GrantSteps, MarkingMoves
        <3>2. /\ DOMAIN grant' = DOMAIN grant \cup {Len(grant) + 1}
              /\ \A k \in DOMAIN grant : grant'[k] = grant[k]
              /\ grant'[Len(grant) + 1].state = st
              /\ grant'[Len(grant) + 1].period = p
            <4>1. AddGrant(p, st, days)
                BY <3>1 DEF GrantReopening
            <4>2. /\ DOMAIN grant' = DOMAIN grant \cup {Len(grant) + 1}
                  /\ \A k \in DOMAIN grant : grant'[k] = grant[k]
                  /\ grant'[Len(grant) + 1] =
                       [state |-> st, period |-> p, expires |-> today + days,
                        used |-> FALSE, revoked |-> FALSE]
                BY <4>1, AddingMoves
            <4> QED
                BY <4>2
        <3>3. \A k \in DOMAIN grant :
                 ~(grant[k].state = st /\ grant[k].period = p /\ IsActive(grant[k]))
            BY <3>1 DEF GrantReopening, ActiveReopenings
        <3>4. \A k \in DOMAIN grant : IsActive(grant[k])' => IsActive(grant[k])
            BY ActiveBefore
        <3> QED
            BY <2>2, <3>2, <3>3, <3>4
    <2> QED
        BY <2>1, <2>2
<1> QED
    BY <1>1, <1>2

(* No state ever holds two reopenings of one period that are both active.  *)
THEOREM OneActiveReopeningAlways == Spec => []OneActiveReopening
<1>1. Init => GrantInv
    BY TypeOKInit DEF Init, GrantInv, OneActiveReopening
<1>2. GrantInv => OneActiveReopening
    BY DEF GrantInv
<1> QED
    BY <1>1, <1>2, GrantInvStep, PTL DEF Spec

-----------------------------------------------------------------------------
(* The invariant with its types.  It is inductive: grants keep their state *)
(* and period and stay used, and a return lands only on one not used yet.  *)
LandingInv == TypeOK /\ OneReturnPerReopening

(* The invariant survives every step: only a filing adds a landing, on a   *)
(* grant that no earlier landing used.                                     *)
LEMMA LandingInvStep == LandingInv /\ [Next]_vars => LandingInv'
<1> SUFFICES ASSUME LandingInv, [Next]_vars
             PROVE  LandingInv'
    OBVIOUS
<1> USE DEF LandingInv
<1>1. TypeOK'
    BY TypeOKStep
<1>2. CASE UNCHANGED landed
    <2>1. \A i \in DOMAIN landed : Moves(grant[landed[i].grant], grant'[landed[i].grant])
        BY GrantsOnlyMove DEF OneReturnPerReopening
    <2> QED
        BY <1>1, <1>2, <2>1, GrantsOnlyMove DEF OneReturnPerReopening, Moves
<1>3. ASSUME NEW st \in State, NEW p \in Period, NEW g \in ActiveReopenings(st, p),
             ConsumeReopening(g, st, p)
      PROVE  LandingInv'
    <2> DEFINE last == Len(landed) + 1
    <2>1. /\ g \in DOMAIN grant /\ grant[g].state = st /\ grant[g].period = p /\ ~grant[g].used
          /\ grant'[g].used /\ g \in DOMAIN grant'
        <3>1. g \in DOMAIN grant /\ grant[g].state = st /\ grant[g].period = p /\ ~grant[g].used
            BY <1>3 DEF ActiveReopenings, IsActive
        <3>2. grant[g] \in Reopening
            BY <3>1 DEF TypeOK
        <3> QED
            BY <1>3, <3>1, <3>2, GrantsOnlyMove DEF ConsumeReopening, Reopening
    <2>2. /\ DOMAIN landed' = DOMAIN landed \cup {last}
          /\ \A i \in DOMAIN landed : landed'[i] = landed[i]
          /\ landed'[last] = [state |-> st, period |-> p, grant |-> g]
        BY <1>3 DEF ConsumeReopening, TypeOK
    <2>3. \A i \in DOMAIN landed :
             /\ landed[i].grant \in DOMAIN grant'
             /\ Moves(grant[landed[i].grant], grant'[landed[i].grant])
             /\ landed[i].grant # g
        BY <2>1, GrantsOnlyMove DEF OneReturnPerReopening
    <2>4. Moves(grant[g], grant'[g])
        BY <2>1, GrantsOnlyMove
    <2> HIDE DEF last
    <2>5. OneReturnPerReopening'
        BY <2>1, <2>2, <2>3, <2>4 DEF OneReturnPerReopening, Moves
    <2> QED
        BY <1>1, <2>5
<1> QED
    BY <1>2, <1>3 DEF Next, vars, ClosePeriod, ReopenPeriod, GrantReopening, AddGrant,
                      RevokeReopening, DayPasses, File

(* A reopening never admits two returns, nor one of another state or period.*)
THEOREM OneReturnPerReopeningAlways == Spec => []OneReturnPerReopening
<1>1. Init => LandingInv
    BY TypeOKInit DEF Init, LandingInv, OneReturnPerReopening
<1>2. LandingInv => OneReturnPerReopening
    BY DEF LandingInv
<1> QED
    BY <1>1, <1>2, LandingInvStep, PTL DEF Spec

-----------------------------------------------------------------------------
(* A used or withdrawn reopening keeps its status; a lapsed one can become *)
(* withdrawn and nothing else.                                             *)
LEMMA StatusStep ==
    ASSUME TypeOK, [Next]_vars, NEW g \in DOMAIN grant
    PROVE  \/ Status(grant[g]) = Status(grant[g])'
           \/ Status(grant[g]) = "ACTIVE"
           \/ Status(grant[g]) = "EXPIRED" /\ Status(grant[g])' = "REVOKED"
<1>1. Moves(grant[g], grant'[g])
    BY GrantsOnlyMove
<1>2. IsActive(grant[g])' => IsActive(grant[g])
    BY ActiveBefore
<1>3. grant[g] \in Reopening
    BY DEF TypeOK
<1>4. ASSUME grant[g].revoked
      PROVE  Status(grant[g]) = "REVOKED" /\ Status(grant[g])' = "REVOKED"
    BY <1>1, <1>4 DEF Status, Moves, Reopening
<1>5. ASSUME ~grant[g].revoked, grant[g].used
      PROVE  Status(grant[g]) = "USED" /\ Status(grant[g])' = "USED"
    BY <1>1, <1>5 DEF Status, Moves, Reopening
<1>6. ASSUME ~grant[g].revoked, ~grant[g].used, ~IsActive(grant[g])
      PROVE  Status(grant[g]) = "EXPIRED" /\ Status(grant[g])' \in {"EXPIRED", "REVOKED"}
    <2>1. Status(grant[g]) = "EXPIRED"
        BY <1>6 DEF Status
    <2>2. ~grant'[g].used
        BY <1>1, <1>6 DEF Moves
    <2>3. Status(grant[g])' \in {"EXPIRED", "REVOKED"}
        BY <1>2, <1>6, <2>2 DEF Status
    <2> QED
        BY <2>1, <2>3
<1>7. ASSUME ~grant[g].revoked, ~grant[g].used, IsActive(grant[g])
      PROVE  Status(grant[g]) = "ACTIVE"
    BY <1>7 DEF Status
<1> QED
    BY <1>4, <1>5, <1>6, <1>7

(* The status of a reopening only moves forward.                           *)
THEOREM StatusMovesForwardAlways == Spec => StatusMovesForward
<1>1. TypeOK /\ [Next]_vars
      => [\A g \in DOMAIN grant :
            LET before == Status(grant[g])
                after  == Status(grant[g])'
            IN  \/ before = after
                \/ before = "ACTIVE"
                \/ before = "EXPIRED" /\ after = "REVOKED"]_vars
    BY StatusStep
<1> QED
    BY <1>1, TypeCorrect, PTL DEF Spec, StatusMovesForward
=============================================================================

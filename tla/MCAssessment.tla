---------------------------- MODULE MCAssessment ----------------------------
(* Instances of Assessment for TLC: a small calendar, a small federation,  *)
(* and the setups, each a catalogue with the returns that may be filed     *)
(* under it.                                                               *)
EXTENDS AssessmentProperties, TLC

CONSTANTS abia, kano, kebbi, north, south, q1, may, june, q2, schools, pupils, none

ByName == <<abia, kano, kebbi>>
Cohorts == <<north, south>>
Calendar == <<q1, may, june, q2>>
MonthsOf == [p \in Range(Calendar) |-> IF p = q2 THEN <<may, june>> ELSE <<>>]
Before == [p \in Range(Calendar) |->
             CASE p = q2 -> q1 [] p = june -> may [] OTHER -> none]
Catalogue == <<schools, pupils>>
NoMatrix == [st \in Range(ByName) |-> {}]
PupilsOfSchools == {<<pupils, schools>>}

-----------------------------------------------------------------------------
Plain == [value |-> none, numerator |-> none, denominator |-> none, label |-> none, raw |-> FALSE]
Count(n) == <<[Plain EXCEPT !.value = n]>>
RateOfTen(n) == <<[Plain EXCEPT !.numerator = n, !.denominator = 10]>>

Indicators(method, cumulative, basis, parts) ==
    [i \in Range(Catalogue) |->
        [method |-> method, unit |-> "NUMBER", cumulative |-> cumulative /\ i = schools,
         pair |-> method = "WEIGHTED_AVERAGE", direction |-> "INCREASE", baseline |-> none,
         minimum |-> none, maximum |-> none, basis |-> basis,
         parts |-> IF i = schools THEN parts ELSE {}, core |-> TRUE, active |-> TRUE,
         reported |-> TRUE, component |-> none]]

DefaultRates ==
    [arithmetic |-> 1, identity |-> 0, floor |-> 5, ceiling |-> 300, zscore |-> 3,
     minHistory |-> 3, minStates |-> 3, share |-> 60, fall |-> 50, rise |-> 200]

Filing(st, p, s, t) ==
    [state |-> st, period |-> p, unmapped |-> 0,
     rows |-> [i \in Range(Catalogue) |-> IF i = schools THEN s ELSE t]]

Roster(sts) ==
    [st \in Range(ByName) |-> [cohort |-> IF st = abia THEN south ELSE north,
                               reporting |-> st \in sts, active |-> TRUE]]

Target(level, st, p, v) ==
    [level |-> level, state |-> st, period |-> p, indicator |-> schools, value |-> v]

(* Three states of two cohorts report one period.  Returns that wait for   *)
(* their approval, changes of the roster, and two changes on end, are left *)
(* to one of these setups.                                                 *)
Nation(method, figure(_)) ==
    [def |-> Indicators(method, FALSE, none, {}), roster |-> Roster({abia, kebbi}),
     moves |-> IF method # "SUM" THEN {}
               ELSE {[state |-> kano, cohort |-> north, active |-> FALSE],
                     [state |-> kebbi, cohort |-> south, active |-> TRUE]},
     rates |-> DefaultRates, retunes |-> {}, proposals |-> {}, autos |-> IF method = "SUM" THEN BOOLEAN ELSE {TRUE},
     maxFilings |-> 3, maxChanges |-> IF method = "SUM" THEN 2 ELSE 1,
     filings |-> {Filing(abia, q1, figure(n), <<>>) : n \in IF method = "SUM" THEN {4} ELSE {0, 4}}
                 \cup {Filing(kano, q1, figure(2), <<>>), Filing(kebbi, q1, figure(9), <<>>)},
     targets |-> {Target("NATIONAL", none, q1, 12), Target("STATE", kano, q1, 3),
                  Target("STATE", kebbi, q1, 6)}]

(* One state reports months and quarters.  Corrections of figures are left *)
(* to the setup in which the months add up to the quarter; to compare an   *)
(* indicator with its parts takes one return less.                         *)
Quarter(cumulative, basis, parts) ==
    [def |-> Indicators("SUM", cumulative, basis, parts), roster |-> Roster({abia}), moves |-> {},
     rates |-> DefaultRates, retunes |-> {[DefaultRates EXCEPT !.fall = 90]},
     proposals |-> IF basis = none THEN {} ELSE {7}, autos |-> {FALSE},
     maxFilings |-> IF parts = {} THEN 4 ELSE 3, maxChanges |-> 1,
     filings |-> {Filing(abia, q1, Count(2), Count(1)),
                  Filing(abia, may, Count(4), Count(1)), Filing(abia, june, Count(6), <<>>),
                  Filing(abia, june, Count(1), Count(1)),
                  Filing(abia, q2, Count(10), Count(1)), Filing(abia, q2, <<>>, Count(3))},
     targets |-> {}]

Scenes ==
    {Nation(m, Count) : m \in {"SUM", "AVERAGE", "AVERAGE_NONZERO", "COUNT_YES"}}
    \cup {Nation("WEIGHTED_AVERAGE", RateOfTen)}
    \cup {Quarter(TRUE, none, {}), Quarter(FALSE, "SUM", {}), Quarter(FALSE, none, {pupils})}
=============================================================================

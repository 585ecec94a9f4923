---------------------------- MODULE Aggregation ----------------------------
(***************************************************************************)
(* The arithmetic of the analysis layers: how the rows of one figure       *)
(* become a reading, how the readings of states become a national figure,  *)
(* and how a figure stands against its target.                             *)
(*                                                                         *)
(* A rate, a mean and an achievement are kept in whole percentage points,  *)
(* rounded down; the code rounds to two or four decimals.                  *)
(***************************************************************************)
EXTENDS Integers, Sequences, Functions, FiniteSetsExt

CONSTANT None      \* a blank cell, an absent target

Method == {"SUM", "AVERAGE", "WEIGHTED_AVERAGE", "MAX", "MIN", "LATEST",
           "AVERAGE_NONZERO", "COUNT_YES"}

(* Labels that mark a disaggregated row as the total of its axis.          *)
TotalLabels == {"total", "all", "both", "overall"}

(* A row of a figure: label is its disaggregation, None if it has none.    *)
Effective(row) ==
    IF row.value # None THEN row.value
    ELSE IF row.numerator # None /\ row.denominator \notin {None, 0}
         THEN (100 * row.numerator) \div row.denominator
    ELSE None

(* What is picked from a list keeps its place in it.                       *)
Present(s) == RestrictValues(s, LAMBDA x : x # None)
Column(s, get(_)) == Present([n \in DOMAIN s |-> get(s[n])])
Values(s) == Column(s, LAMBDA r : r.value)
Numerators(s) == Column(s, LAMBDA r : r.numerator)
Denominators(s) == Column(s, LAMBDA r : r.denominator)
SumOrNone(s) == IF DOMAIN s = {} THEN None ELSE SumFunction(s)
Mean(s) == SumFunction(s) \div Cardinality(DOMAIN s)

(* A state that reported 0% has almost always entered nothing: the mean    *)
(* over the non-zero states leaves it out.                                 *)
NonZero(values) == RestrictValues(values, LAMBDA v : v # 0)

(* What an indicator's method makes of a list of numbers.                  *)
Summary(method, used) ==
    IF DOMAIN used = {} THEN None
    ELSE CASE method = "SUM" -> SumFunction(used)
           [] method \in {"MAX", "COUNT_YES"} -> Max(Range(used))
           [] method = "MIN" -> Min(Range(used))
           [] method = "LATEST" -> used[Max(DOMAIN used)]
           [] OTHER -> Mean(used)

ByMethod(method, values) ==
    Summary(method, IF method = "AVERAGE_NONZERO" THEN NonZero(values) ELSE values)

Blank == [value |-> None, numerator |-> None, denominator |-> None]
HasData(reading) == reading.value # None \/ reading.numerator # None

(* What readings, or the rows of one figure, come to together.  A weighted *)
(* rate is that of the summed components; without them it is a mean.       *)
PooledOf(num, den, values, method) ==
    [value |-> IF method = "WEIGHTED_AVERAGE" /\ num # None /\ den \notin {None, 0}
               THEN (100 * num) \div den ELSE ByMethod(method, values),
     numerator |-> num, denominator |-> den]

Pooled(s, method) ==
    PooledOf(SumOrNone(Numerators(s)), SumOrNone(Denominators(s)), Values(s), method)

TotalRows(rows) == RestrictValues(rows, LAMBDA r : r.label \in TotalLabels \cup {None})

(* A single row speaks for itself.                                         *)
CollapsePool(pool, method) ==
    LET single == pool[Max(DOMAIN pool)]
    IN  CASE DOMAIN pool = {} -> Blank
          [] Cardinality(DOMAIN pool) = 1 ->
                [value |-> Effective(single), numerator |-> single.numerator,
                 denominator |-> single.denominator]
          [] OTHER -> Pooled(pool, method)

(* The rows of one state's figure: those marked as totals win over their   *)
(* parts.                                                                  *)
Collapse(rows, method) ==
    CollapsePool(IF DOMAIN TotalRows(rows) = {} THEN rows ELSE TotalRows(rows), method)

(* Mutant: a state without a figure enters the mean as a zero.             *)
AggregateNationalZeroFilled(readings, method) ==
    Pooled([n \in DOMAIN readings |->
              IF HasData(readings[n]) THEN readings[n] ELSE [readings[n] EXCEPT !.value = 0]],
           method)

Populated(readings) == RestrictValues(readings, HasData)

(* Across states.  A Yes/No indicator counts the states that said Yes.     *)
AggregateNational(readings, method) ==
    LET populated == Populated(readings)
        yes == Cardinality({n \in DOMAIN populated :
                   populated[n].value # None /\ populated[n].value >= 1})
    IN  IF DOMAIN populated = {} THEN Blank
        ELSE IF method = "COUNT_YES" THEN [Pooled(populated, method) EXCEPT !.value = yes]
        ELSE Pooled(populated, method)

(* What a state adds to the national figure; None where a share of it      *)
(* would mean nothing.                                                     *)
ContributionBasis(reading, method) ==
    CASE method = "SUM" -> reading.value
      [] method = "WEIGHTED_AVERAGE" ->
            IF reading.numerator # None THEN reading.numerator ELSE reading.value
      [] OTHER -> None

(* Division by either sign, rounded down.                                  *)
Quotient(a, b) == IF b > 0 THEN a \div b ELSE (-a) \div (-b)

(* In percent of the target; for a figure meant to fall, of the way from   *)
(* the baseline.  None where the ratio does not exist.                     *)
Achievement(v, target, direction, baseline) ==
    LET ratio(a, b) == Quotient(100 * a, b)
        whenReached(reached) == IF reached THEN 100 ELSE None
    IN  IF v = None \/ target = None THEN None
        ELSE CASE direction = "DECREASE" /\ baseline \notin {None, target} ->
                     ratio(baseline - v, baseline - target)
               [] direction = "DECREASE" /\ baseline \in {None, target} ->
                     IF v <= 0 THEN whenReached(target <= 0) ELSE ratio(target, v)
               [] direction = "INCREASE" /\ target = 0 -> whenReached(v = 0)
               [] OTHER -> ratio(v, target)

StatusFor(pct) ==
    IF pct = None THEN "No target"
    ELSE CASE pct >= 90 -> "On track"
           [] pct \in 70..89 -> "Progressing"
           [] pct \in 50..69 -> "Lagging"
           [] OTHER -> "Off track"

RowStatus(pct, target, hasData) ==
    IF target # None THEN StatusFor(pct) ELSE IF hasData THEN "Reported" ELSE "No data"
=============================================================================

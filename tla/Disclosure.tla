---------------------------- MODULE Disclosure ----------------------------
(***************************************************************************)
(* What the platform says about a figure.  A label never changes the       *)
(* figure; is_valid ("fit for use") is kept in step with it by set_status, *)
(* so it is a function of the label here and not a second field.           *)
(***************************************************************************)
Label == {"CLEAN", "QUERIED", "UNFIT", "CORRECTED"}

IsValid(label) == label # "UNFIT"

MarkUnfit(label) == "UNFIT"

(* Never softens a blocking finding.                                       *)
MarkQueried(label) == IF IsValid(label) THEN "QUERIED" ELSE label

Cleared(corrected) == IF corrected THEN "CORRECTED" ELSE "CLEAN"

(* A figure's label after every finding in a set of them has been applied  *)
(* to it, in any order: one that blocks outweighs any number that do not.  *)
Relabel(label, blocking, flagged) ==
    IF blocking THEN MarkUnfit(label)
    ELSE IF flagged THEN MarkQueried(label) ELSE label
=============================================================================

---------------------------- MODULE MCReviewRace ----------------------------
(* Instance of ReviewRace for TLC: three versions of one return, and two   *)
(* approvals at a time.                                                    *)
EXTENDS ReviewRace, TLC

CONSTANTS month, schools, none

Standalone == [p \in {month} |-> none]
OneReport == {[i \in {schools} |-> 1]}
=============================================================================

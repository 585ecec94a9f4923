-------------------------- MODULE MCLiveDashboard --------------------------
(* Instances of LiveDashboard for TLC: the constants are in the cfg files. *)
EXTENDS LiveDashboard

(* A user who stays on the boards.                                         *)
BoardSpec == Init /\ [][Next /\ page'.view = "BOARD"]_vars /\ Fairness
=============================================================================

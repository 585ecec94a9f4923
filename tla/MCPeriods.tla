----------------------------- MODULE MCPeriods -----------------------------
(* Instance of Periods for TLC: the constants are given in MCPeriods.cfg.  *)
EXTENDS Periods
=============================================================================

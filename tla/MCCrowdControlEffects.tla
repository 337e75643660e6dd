---------------------- MODULE MCCrowdControlEffects ----------------------
(***************************************************************************)
(* CrowdControlEffects for TLC: effects of two seconds on a clock of a few *)
(* seconds, so that effects overlap, are triggered again while they run    *)
(* and end in every order.  Only effects of one menu meet: those that      *)
(* share a hook or the table, and one more.                                *)
(***************************************************************************)
EXTENDS CrowdControlEffects
OneHook ==
  {TypeEffects \cup {"randomFilter"},
   {"expGain1k", "expGainZero", "invertSTAB"},
   {"neverCapture", "alwaysCapture", "invertSTAB"}}
=============================================================================

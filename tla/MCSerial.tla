------------------------------ MODULE MCSerial ------------------------------
(***************************************************************************)
(* GlobalHeapThreads and CrowdControlThreads where calls do not overlap:   *)
(* one of the two is chosen at the start, and the other stays as it begins.*)
(***************************************************************************)
EXTENDS GlobalHeapThreads, CrowdControlThreads

VARIABLE part

SerialInit ==
  /\ part \in {"heap", "effects"}
  /\ Init
  /\ EffectsInit

SerialNext ==
  /\ part' = part
  /\ \/ part = "heap" /\ Next /\ UNCHANGED effectVars
     \/ part = "effects" /\ EffectsNext /\ UNCHANGED vars

SerialSpec == SerialInit /\ [][SerialNext]_<<part, vars, effectVars>>
=============================================================================

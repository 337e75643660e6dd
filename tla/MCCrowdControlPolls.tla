------------------------ MODULE MCCrowdControlPolls ------------------------
(* Polls of a few seconds; the configurations say which.                   *)
EXTENDS CrowdControlPolls
=============================================================================

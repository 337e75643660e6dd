-------------------------- MODULE MCWebsocketClient --------------------------
(***************************************************************************)
(* WebsocketClient for TLC: storage for the two sockets that exist while   *)
(* one replaces the other, two descriptor numbers, and a few frames.       *)
(***************************************************************************)
EXTENDS WebsocketClient, TLC
Symmetry == Permutations(Obj) \cup Permutations(FD)
=============================================================================

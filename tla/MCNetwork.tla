------------------------------ MODULE MCNetwork ------------------------------
(***************************************************************************)
(* The parts of the common network and log code that do not depend on each *)
(* other's state, one at a time: which one is chosen at the start, and the *)
(* others stay as they begin.                                              *)
(***************************************************************************)
EXTENDS NetworkStart, SSLSocket, HttpClient, TwitchClient, LogPipeline,
        CrashReport, ArchipelagoClient

VARIABLE part

Parts == {"start", "ssl", "http", "twitch", "log", "report", "archipelago"}
wsOnly == <<clientVars, peerVars, readVars, pc, ret, connects>>
netOthers == <<httpVars, twVars, logVars, reportVars>>

(* A part that is not chosen has one state, if it could begin in several.  *)
Init ==
  /\ part \in Parts
  /\ NetInit /\ HttpInit /\ TwInit /\ LogInit
  /\ SslInit /\ ApInit
  /\ part \notin {"ssl", "archipelago"} => owner = [f \in FD |-> Free]
  /\ IF part = "report" THEN ReportInit
     ELSE /\ rp = "start" /\ rendering = FALSE /\ fp = Null /\ module = Null
          /\ registers = <<>> /\ lines = <<>>
          /\ prev = [f \in StackFrame |-> Null]
          /\ returnTo = [f \in StackFrame |-> "zero"]

Next ==
  /\ part' = part
  /\ \/ /\ part = "start" /\ NetNext
        /\ UNCHANGED <<apVars, tls, netOthers>>
     \/ /\ part = "ssl" /\ SslNext
        /\ UNCHANGED <<netVars, wsOnly, apOnly, netOthers>>
     \/ /\ part = "http" /\ HttpNext
        /\ UNCHANGED <<netVars, apVars, tls, twVars, logVars, reportVars>>
     \/ /\ part = "twitch" /\ TwNext
        /\ UNCHANGED <<netVars, apVars, tls, httpVars, logVars, reportVars>>
     \/ /\ part = "log" /\ LogNext
        /\ UNCHANGED <<netVars, apVars, tls, httpVars, twVars, reportVars>>
     \/ /\ part = "report" /\ ReportNext
        /\ UNCHANGED <<netVars, apVars, tls, httpVars, twVars, logVars>>
     \/ /\ part = "archipelago" /\ ApNext
        /\ UNCHANGED <<netVars, tls, netOthers>>

(* The fairness of each part, see HttpFairness, ReportFairness and ApSpec. *)
Fairness ==
  /\ WF_httpVars(part = "http" /\ Execute)
  /\ WF_reportVars(part = "report" /\ ReportNext)
  /\ WF_apVars(part = "archipelago" /\ ClientGoesOn /\ ~Failure)
  /\ WF_apVars(part = "archipelago" /\ Returns)
  /\ SF_apVars(part = "archipelago" /\ HandleOnePacket)
Spec == Init /\ [][Next]_<<part, netVars, apVars, tls, netOthers>> /\ Fairness

(* SslTakesOnlyUnstarted when the sockets are TLS sockets: a close takes   *)
(* another connection's descriptor only in a constructor that finds no     *)
(* network (SSLSocket.cpp).                                                *)
SslCloseTakesNothing == part = "ssl" => SslTakesOnlyUnstarted
=============================================================================

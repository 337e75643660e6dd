---------------------------- MODULE NetworkStart ----------------------------
(***************************************************************************)
(* SocketBase::initCommon (common/src/net/socket/SocketBase.cpp): the      *)
(* first caller brings the network up, every later one gets the result.    *)
(* Nothing guards didInit and initResult, so each read and write of them   *)
(* is a step of its own.                                                   *)
(***************************************************************************)
EXTENDS Naturals

CONSTANT Caller       \* threads that make sockets

VARIABLES
  didInit,       \* didInit
  initResult,    \* initResult
  up,            \* nn::socket::Initialize has succeeded
  netPc,         \* where each thread is in initCommon
  netRet,        \* what its last call returned
  overlapped     \* history: a call began while another was bringing it up

netVars == <<didInit, initResult, up, netPc, netRet, overlapped>>

NetResult == {"success", "failed"}
NetSteps == {"out", "claim", "nifm", "request", "pool", "return"}

NetTypeOK ==
  /\ didInit \in BOOLEAN /\ up \in BOOLEAN /\ overlapped \in BOOLEAN
  /\ initResult \in NetResult
  /\ netPc \in [Caller -> NetSteps]
  /\ netRet \in [Caller -> NetResult \cup {"none"}]

NetInit ==
  /\ didInit = FALSE /\ initResult = "success"
  /\ up = FALSE /\ overlapped = FALSE
  /\ netPc = [t \in Caller |-> "out"]
  /\ netRet = [t \in Caller |-> "none"]

NetGoto(t, step) == netPc' = [netPc EXCEPT ![t] = step]
Starting(t) == netPc[t] \in {"claim", "nifm", "request", "pool"}

-----------------------------------------------------------------------------
InitCommon(t) ==
  /\ netPc[t] = "out"
  /\ NetGoto(t, IF didInit THEN "return" ELSE "claim")
  /\ netRet' = [netRet EXCEPT ![t] = "none"]
  /\ overlapped' = (overlapped \/ \E u \in Caller : Starting(u))
  /\ UNCHANGED <<didInit, initResult, up>>

Claim(t) ==
  /\ netPc[t] = "claim"
  /\ didInit' = TRUE
  /\ NetGoto(t, "nifm")
  /\ UNCHANGED <<initResult, up, netRet, overlapped>>

(* A step that fails stores the error and returns.  Mutant: it returns     *)
(* without storing it.                                                     *)
FailStepForgets(t, step) ==
  /\ netPc[t] = step
  /\ NetGoto(t, "return")
  /\ UNCHANGED <<didInit, initResult, up, netRet, overlapped>>
FailStep(t, step) ==
  /\ netPc[t] = step
  /\ initResult' = "failed"
  /\ NetGoto(t, "return")
  /\ UNCHANGED <<didInit, up, netRet, overlapped>>

NifmInitialize(t) ==
  /\ netPc[t] = "nifm"
  /\ NetGoto(t, "request")
  /\ UNCHANGED <<didInit, initResult, up, netRet, overlapped>>

(* The request stays on hold for as long as the system likes.              *)
NetworkAvailable(t) ==
  /\ netPc[t] = "request"
  /\ NetGoto(t, "pool")
  /\ UNCHANGED <<didInit, initResult, up, netRet, overlapped>>

SocketPool(t) ==
  /\ netPc[t] = "pool"
  /\ ~up
  /\ up' = TRUE
  /\ NetGoto(t, "return")
  /\ UNCHANGED <<didInit, initResult, netRet, overlapped>>

InitReturn(t) ==
  /\ netPc[t] = "return"
  /\ netRet' = [netRet EXCEPT ![t] = initResult]
  /\ NetGoto(t, "out")
  /\ UNCHANGED <<didInit, initResult, up, overlapped>>

NetNext ==
  \E t \in Caller :
    \/ InitCommon(t) \/ Claim(t) \/ NifmInitialize(t) \/ NetworkAvailable(t)
    \/ SocketPool(t) \/ InitReturn(t)
    \/ \E step \in {"nifm", "request", "pool"} : FailStep(t, step)

NetSpec == NetInit /\ [][NetNext]_netVars

-----------------------------------------------------------------------------
(* A socket is told that the network is there only when it is, and that it *)
(* is not only when it is not, unless two threads asked while the first    *)
(* was still bringing it up: didInit is set before the network is.         *)
ResultIsTrue ==
  ~overlapped =>
    \A t \in Caller : netRet[t] # "none" => (netRet[t] = "success" <=> up)
=============================================================================

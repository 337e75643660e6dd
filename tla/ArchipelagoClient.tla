-------------------------- MODULE ArchipelagoClient --------------------------
(***************************************************************************)
(* The Archipelago client base                                             *)
(* (common/src/net/archipelago/ArchipelagoClientBase.cpp) on top of the    *)
(* websocket client: it sends and handles packets, and tells its subclass  *)
(* once when the connection is gone.                                       *)
(***************************************************************************)
EXTENDS WebsocketClient

VARIABLES
  apPc,             \* the call in progress
  isDisconnected,   \* isDisconnected
  reports           \* history: calls of onDisconnect since the last reconnect

apOnly == <<apPc, isDisconnected, reports>>
apVars == <<wsVars, apOnly>>

Calls == {"none", "constructor", "sendPacket", "handleOnePacket", "reconnect",
          "destructor", "deleted", "aborted"}

ApTypeOK ==
  /\ ClientTypeOK
  /\ apPc \in Calls
  /\ isDisconnected \in BOOLEAN
  /\ reports \in Nat

-----------------------------------------------------------------------------
Begin(call) == apPc = "none" /\ apPc' = call
Finish(call) == apPc = call /\ pc = "idle" /\ apPc' = "none"

(* What sendPacket and handleOnePacket do when the client gave them        *)
(* nothing.  Mutants: it is reported each time; only when it was before.   *)
MustReportAgain == ~isOpen
MustReportInverted == isDisconnected /\ ~isOpen
MustReport == ~isDisconnected /\ ~isOpen
Report ==
  IF MustReport
    THEN isDisconnected' = TRUE /\ reports' = reports + 1
    ELSE UNCHANGED <<isDisconnected, reports>>

ConstructorReturns ==
  /\ Finish("constructor")
  /\ UNCHANGED <<wsVars, isDisconnected, reports>>

SendPacket ==
  /\ Begin("sendPacket")
  /\ Send
  /\ UNCHANGED <<isDisconnected, reports>>
SendPacketReturns ==
  /\ Finish("sendPacket")
  /\ IF ret = "sent" THEN UNCHANGED <<isDisconnected, reports>> ELSE Report
  /\ UNCHANGED wsVars

HandleOnePacket ==
  /\ Begin("handleOnePacket")
  /\ ReceiveBegin
  /\ UNCHANGED <<isDisconnected, reports>>
(* A part of a text does not parse, and the mods are built without         *)
(* exceptions.                                                             *)
ParseAborts ==
  /\ apPc = "handleOnePacket" /\ pc = "idle" /\ ret = "part"
  /\ apPc' = "aborted"
  /\ UNCHANGED <<wsVars, isDisconnected, reports>>
HandleOnePacketReturns ==
  /\ Finish("handleOnePacket")
  /\ ret # "part"
  /\ IF ret = "text" THEN UNCHANGED <<isDisconnected, reports>> ELSE Report
  /\ UNCHANGED wsVars

ClearedFlag == FALSE
Reconnect ==
  /\ Begin("reconnect")
  /\ ReconnectBegin
  /\ UNCHANGED <<isDisconnected, reports>>
ReconnectReturns ==
  /\ Finish("reconnect")
  /\ isDisconnected' = ClearedFlag
  /\ reports' = 0
  /\ UNCHANGED wsVars

(* The destructor closes the client, whose own destructor closes it again. *)
Delete ==
  /\ Begin("destructor")
  /\ CallClose
  /\ UNCHANGED <<isDisconnected, reports>>
DeleteMember ==
  /\ apPc = "destructor" /\ apPc' = "deleted"
  /\ Destructor
  /\ UNCHANGED <<isDisconnected, reports>>

ClientGoesOn == ClientStep /\ UNCHANGED apOnly
ApEnvironment == Environment /\ UNCHANGED apOnly

-----------------------------------------------------------------------------
ApInit ==
  /\ ClientInit
  /\ apPc = "constructor"
  /\ isDisconnected = FALSE
  /\ reports = 0

Returns == \/ ConstructorReturns \/ SendPacketReturns \/ HandleOnePacketReturns
           \/ ParseAborts \/ ReconnectReturns \/ DeleteMember

ApNext ==
  \/ SendPacket \/ HandleOnePacket \/ Reconnect \/ Delete
  \/ Returns \/ ClientGoesOn \/ ApEnvironment

(* A call that can go on does, but nothing makes a working connection      *)
(* fail; a subclass that uses the client calls handleOnePacket again and   *)
(* again as long as it has one.                                            *)
Failure == (UpgradeError \/ ReceiveError \/ AnswerError) /\ Connected
ApSpec ==
  /\ ApInit /\ [][ApNext]_apVars
  /\ WF_apVars(ClientGoesOn /\ ~Failure) /\ WF_apVars(Returns)
  /\ SF_apVars(HandleOnePacket)

-----------------------------------------------------------------------------
(* onDisconnect is called at most once between two calls of reconnect.     *)
ReportedOnce == reports <= 1

(* A close frame from the peer is reported, unless the subclass reconnects *)
(* or deletes the client first, or a part of a packet ended the program.   *)
Leaves == apPc \in {"reconnect", "destructor", "deleted", "aborted"}
CloseFrameReported == pc = "echo" ~> isDisconnected \/ Leaves

(* So is a client that is not open after reconnect returned, which the     *)
(* code tells nobody otherwise.                                            *)
FailedReconnectReported ==
  apPc = "none" /\ ~isOpen ~> isDisconnected \/ Leaves

(* Whoever goes on reading is told of a lost connection, either way.       *)
LossIsReported == CloseFrameReported /\ FailedReconnectReported
=============================================================================

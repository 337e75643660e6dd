------------------------ MODULE WebsocketClientProofs ------------------------
(***************************************************************************)
(* Theorems about RawSocket, the WebsocketClient and the ArchipelagoClient *)
(* on top of it: what sockets promise each other, that the client          *)
(* implements them, that an open client has a socket, texts come in order, *)
(* pings are answered, and a lost connection is reported once.  They hold  *)
(* for every set of objects and of descriptor numbers, and any number of   *)
(* connections and frames.                                                 *)
(***************************************************************************)
EXTENDS ArchipelagoClient, SequenceTheorems, FiniteSetTheorems, TLAPS

-----------------------------------------------------------------------------
(* RawSocket: any sockets, called in any order.                            *)
InUse == {"INITIALIZED", "CONNECTED"}

(* What is known of descriptors whatever was closed under whom: an object  *)
(* that owns a number is alive and keeps that number, and a connected      *)
(* object was given one.                                                   *)
OwnersKeepTheirNumber ==
  \A f \in FD : owner[f] \in Obj =>
    obj[owner[f]].fd = f /\ obj[owner[f]].state # "DEAD"
ConnectedHasNumber ==
  \A o \in Obj : obj[o].state = "CONNECTED" => obj[o].fd \in FD

(* What is known of an object whose number nobody else closed.             *)
WorkingHolds ==
  \A o \in Obj \ robbed :
    obj[o].state \in InUse /\ obj[o].fd \in FD => owner[obj[o].fd] = o

SocketIInv ==
  /\ SocketTypeOK
  /\ OwnersKeepTheirNumber
  /\ ConnectedHasNumber
  /\ WorkingHolds
  /\ WorkingTakesNothing

-----------------------------------------------------------------------------
(* Closing keeps the invariant when the object ends in a state that is not *)
(* CONNECTED nor INITIALIZED: the common part of close(), of a failed      *)
(* connect() and of a failed transfer.                                     *)
LEMMA ClosingKeepsInvariant ==
  ASSUME SocketIInv, NEW o \in Obj, obj[o].state # "DEAD",
         NEW s \in {"CLOSED", "ERRORED"}, CloseTo(o, s)
  PROVE  SocketIInv'
<1> USE SocketAssumption
<1>1. SocketTypeOK'
  BY DEF SocketIInv, SocketTypeOK, CloseTo, Released, Theft, Victims, SocketState
<1>2. OwnersKeepTheirNumber'
  BY DEF SocketIInv, SocketTypeOK, OwnersKeepTheirNumber, CloseTo, Released
<1>3. ConnectedHasNumber'
  BY DEF SocketIInv, SocketTypeOK, ConnectedHasNumber, CloseTo
<1>4. WorkingHolds'
  BY DEF SocketIInv, SocketTypeOK, WorkingHolds, InUse, CloseTo, Released, Victims
<1>5. WorkingTakesNothing'
  BY DEF SocketIInv, SocketTypeOK, WorkingTakesNothing, WorkingHolds, InUse,
         CloseTo, Theft, Victims, SocketState
<1> QED BY <1>1, <1>2, <1>3, <1>4, <1>5 DEF SocketIInv

(* The destructor: as close(), and then the storage is free.               *)
LEMMA DestroyKeepsInvariant ==
  ASSUME SocketIInv, NEW o \in Obj, Destroy(o)
  PROVE  SocketIInv'
<1> USE SocketAssumption DEF Destroy, Constructed
<1>1. SocketTypeOK'
  BY DEF SocketIInv, SocketTypeOK, Released, Theft, Victims, SocketState
<1>2. OwnersKeepTheirNumber'
  BY DEF SocketIInv, SocketTypeOK, OwnersKeepTheirNumber, Released
<1>3. ConnectedHasNumber'
  BY DEF SocketIInv, SocketTypeOK, ConnectedHasNumber
<1>4. WorkingHolds'
  BY DEF SocketIInv, SocketTypeOK, WorkingHolds, InUse, Released, Victims,
         OwnersKeepTheirNumber
<1>5. WorkingTakesNothing'
  BY DEF SocketIInv, SocketTypeOK, WorkingTakesNothing, WorkingHolds, InUse,
         Theft, Victims, SocketState
<1> QED BY <1>1, <1>2, <1>3, <1>4, <1>5 DEF SocketIInv

(* The constructor, with or without a descriptor, or with what the storage *)
(* held.                                                                   *)
LEMMA ConstructKeepsInvariant ==
  ASSUME SocketIInv, NEW o \in Obj,
         \/ \E f \in FD \cup {NoFD} : ConstructNoNetwork(o, f)
         \/ ConstructNoDescriptor(o)
         \/ \E f \in FD : Construct(o, f)
  PROVE  SocketIInv'
<1> USE SocketAssumption DEF Constructed
<1>1. CASE \E f \in FD \cup {NoFD} : ConstructNoNetwork(o, f)
  BY <1>1 DEF ConstructNoNetwork, SocketIInv, SocketTypeOK, SocketState,
     OwnersKeepTheirNumber, ConnectedHasNumber, WorkingHolds, InUse,
     WorkingTakesNothing
<1>2. CASE ConstructNoDescriptor(o)
  BY <1>2 DEF ConstructNoDescriptor, SocketIInv, SocketTypeOK, SocketState,
     OwnersKeepTheirNumber, ConnectedHasNumber, WorkingHolds, InUse,
     WorkingTakesNothing
<1>3. ASSUME NEW f \in FD, Construct(o, f) PROVE SocketIInv'
  BY <1>3 DEF Construct, SocketIInv, SocketTypeOK, SocketState,
     OwnersKeepTheirNumber, ConnectedHasNumber, WorkingHolds, InUse,
     WorkingTakesNothing
<1> QED BY <1>1, <1>2, <1>3

(* Every step of the sockets and of the rest of the process keeps the      *)
(* invariant.                                                              *)
LEMMA StepKeepsInvariant ==
  SocketIInv /\ [SocketNext]_sockVars => SocketIInv'
<1> SUFFICES ASSUME SocketIInv, [SocketNext]_sockVars PROVE SocketIInv'
  OBVIOUS
<1> USE SocketAssumption
<1>1. ASSUME NEW o \in Obj,
             \/ \E f \in FD \cup {NoFD} : ConstructNoNetwork(o, f)
             \/ ConstructNoDescriptor(o)
             \/ \E f \in FD : Construct(o, f)
      PROVE  SocketIInv'
  BY <1>1, ConstructKeepsInvariant
<1>2. ASSUME NEW o \in Obj,
             ConnectTooLate(o) \/ ConnectFails(o) \/ TransferFails(o) \/ Close(o)
      PROVE  SocketIInv'
  <2>1. /\ obj[o].state # "DEAD"
        /\ CloseTo(o, "ERRORED") \/ CloseTo(o, "CLOSED")
    BY <1>2 DEF ConnectTooLate, ConnectFails, TransferFails, Close
  <2> QED BY <2>1, ClosingKeepsInvariant
<1>3. ASSUME NEW o \in Obj, ConnectSucceeds(o) PROVE SocketIInv'
  BY <1>3 DEF ConnectSucceeds, Holds, SocketIInv, SocketTypeOK, SocketState,
     OwnersKeepTheirNumber, ConnectedHasNumber, WorkingHolds, InUse,
     WorkingTakesNothing
<1>4. ASSUME NEW o \in Obj, Destroy(o) PROVE SocketIInv'
  BY <1>4, DestroyKeepsInvariant
<1>5. ASSUME NEW f \in FD, OtherOpens(f) \/ OtherCloses(f) PROVE SocketIInv'
  <2>1. SocketTypeOK'
    BY <1>5 DEF OtherOpens, OtherCloses, SocketIInv, SocketTypeOK
  <2>2. OwnersKeepTheirNumber' /\ ConnectedHasNumber' /\ WorkingTakesNothing'
    BY <1>5 DEF OtherOpens, OtherCloses, SocketIInv, SocketTypeOK,
       OwnersKeepTheirNumber, ConnectedHasNumber, WorkingTakesNothing
  <2>3. WorkingHolds'
    BY <1>5 DEF OtherOpens, OtherCloses, SocketIInv, SocketTypeOK, WorkingHolds
  <2> QED BY <2>1, <2>2, <2>3 DEF SocketIInv
<1>6. CASE UNCHANGED sockVars
  BY <1>6 DEF sockVars, SocketIInv, SocketTypeOK, OwnersKeepTheirNumber,
     ConnectedHasNumber, WorkingHolds, WorkingTakesNothing
<1> QED BY <1>1, <1>2, <1>3, <1>4, <1>5, <1>6 DEF SocketNext

(* The inductive invariant holds throughout.                               *)
THEOREM SocketInvariant == SocketSpec => []SocketIInv
<1>1. SocketInit => SocketIInv
  BY SocketAssumption DEF SocketInit, SocketIInv, SocketTypeOK, SocketState,
     OwnersKeepTheirNumber, ConnectedHasNumber, WorkingHolds, InUse,
     WorkingTakesNothing
<1> QED BY <1>1, StepKeepsInvariant, PTL DEF SocketSpec

-----------------------------------------------------------------------------
(* Whatever mix of sockets and other connections share the descriptor      *)
(* numbers, and however many numbers were closed under their owners, the   *)
(* close() of a working RawSocket that was not robbed takes no number from *)
(* another.  A CLOSED or ERRORED one may: by a second close(), or by the   *)
(* first after a constructor that found no network.                        *)
THEOREM WorkingSocketsTakeNothing == SocketSpec => []WorkingTakesNothing
<1>1. SocketIInv => WorkingTakesNothing
  BY DEF SocketIInv
<1> QED BY <1>1, SocketInvariant, PTL

(* A connected socket whose number nobody else closed talks to the peer it *)
(* connected to: RawSocket::send and recv use its own number.              *)
THEOREM ConnectedSocketsHold == SocketSpec => []ConnectedHoldsItsDescriptor
<1>1. SocketIInv => ConnectedHoldsItsDescriptor
  BY DEF SocketIInv, ConnectedHoldsItsDescriptor, ConnectedHasNumber, WorkingHolds,
     InUse, Holds
<1> QED BY <1>1, SocketInvariant, PTL

(* No two working RawSocket objects keep one number, of those whose number *)
(* nobody else closed.                                                     *)
THEOREM WorkingSocketsApart == SocketSpec => []DescriptorsNotShared
<1>1. SocketIInv => DescriptorsNotShared
  <2> SUFFICES ASSUME SocketIInv, NEW o \in Obj \ robbed, NEW p \in Obj \ robbed,
                      {obj[o].state, obj[p].state} \subseteq InUse,
                      obj[o].fd = obj[p].fd, obj[o].fd # NoFD
               PROVE  o = p
    BY DEF DescriptorsNotShared, InUse
  <2>1. obj[o].fd \in FD
    BY DEF SocketIInv, SocketTypeOK
  <2>2. owner[obj[o].fd] = o /\ owner[obj[p].fd] = p
    BY <2>1 DEF SocketIInv, WorkingHolds
  <2> QED BY <2>2
<1> QED BY <1>1, SocketInvariant, PTL

(* RawSocket's destructor leaves no number open, whatever the order of     *)
(* failures and closes before it.                                          *)
THEOREM NoSocketLeak == SocketSpec => []NoDescriptorLeak
<1>1. SocketIInv => NoDescriptorLeak
  BY DEF SocketIInv, OwnersKeepTheirNumber, NoDescriptorLeak
<1> QED BY <1>1, SocketInvariant, PTL

(* No call brings a closed or failed RawSocket back into use.              *)
THEOREM SocketsStayClosed == SocketSpec => NoRevival
<1>1. SocketIInv /\ [SocketNext]_sockVars =>
        [\A o \in Obj :
           obj[o].state \in {"CLOSED", "ERRORED"} =>
             obj'[o].state \in {"CLOSED", "ERRORED", "DEAD"}]_sockVars
  BY SocketAssumption DEF SocketIInv, SocketTypeOK, SocketNext, CloseTo,
     Constructed, ConstructNoNetwork, ConstructNoDescriptor, Construct,
     ConnectTooLate, ConnectFails, ConnectSucceeds, TransferFails, Close,
     Destroy, OtherOpens, OtherCloses
<1> QED BY <1>1, SocketInvariant, PTL DEF SocketSpec, NoRevival

-----------------------------------------------------------------------------
(* The steps of reconnect, in which the client is not open yet, and the    *)
(* steps that use the socket.                                              *)
Reconnecting == {"parse", "make", "swap", "connect", "drop", "upgrade",
                 "handshake"}
UsesSocket == {"connect", "drop", "upgrade", "handshake", "shut", "header",
               "payload", "pong", "echo"}

OwnTypes ==
  /\ obj \in [Obj -> [state : SocketState, fd : FD \cup {NoFD}]]
  /\ sock \in Obj \cup {NoSock}
  /\ fresh \in Obj \cup {NoSock}
  /\ isOpen \in BOOLEAN
  /\ pc \in Steps

(* The sockets the client can reach are alive, and are two.                *)
SocketsAlive ==
  /\ sock # NoSock => obj[sock].state # "DEAD"
  /\ fresh # NoSock => obj[fresh].state # "DEAD" /\ fresh # sock
  /\ pc = "swap" <=> fresh # NoSock

(* Where the call is tells whether there is a socket.                      *)
PlaceTellsSocket ==
  /\ isOpen \/ pc \in UsesSocket => sock # NoSock
  /\ pc \in Reconnecting \cup {"gone"} => ~isOpen

ClientIInv == OwnTypes /\ SocketsAlive /\ PlaceTellsSocket

-----------------------------------------------------------------------------
(* What a close in any state and a transfer error leave of the objects:    *)
(* the types, and who is alive.                                            *)
LEMMA ClosingKeepsAlive ==
  ASSUME OwnTypes, NEW o \in Obj, obj[o].state # "DEAD",
         Close(o) \/ TransferFails(o) \/ ConnectFails(o) \/ ConnectTooLate(o)
           \/ ConnectSucceeds(o)
  PROVE  /\ obj' \in [Obj -> [state : SocketState, fd : FD \cup {NoFD}]]
         /\ \A p \in Obj : obj'[p].state = "DEAD" <=> obj[p].state = "DEAD"
  BY DEF OwnTypes, Close, TransferFails, ConnectFails, ConnectTooLate,
     ConnectSucceeds, CloseTo, SocketState

(* The same for a destructor: one object, no other, is no longer alive.    *)
LEMMA DestroyKillsOne ==
  ASSUME OwnTypes, NEW o \in Obj, Destroy(o)
  PROVE  /\ obj' \in [Obj -> [state : SocketState, fd : FD \cup {NoFD}]]
         /\ \A p \in Obj \ {o} : obj'[p] = obj[p]
  BY DEF OwnTypes, Destroy, Constructed, SocketState

(* And for a constructor: one object that was not alive now is.            *)
Made(o) ==
  \/ \E f \in FD : Construct(o, f)
  \/ ConstructNoDescriptor(o)
  \/ \E f \in FD \cup {NoFD} : ConstructNoNetwork(o, f)
LEMMA MadeLivens ==
  ASSUME OwnTypes, NEW o \in Obj, Made(o)
  PROVE  /\ obj' \in [Obj -> [state : SocketState, fd : FD \cup {NoFD}]]
         /\ obj[o].state = "DEAD" /\ obj'[o].state # "DEAD"
         /\ \A p \in Obj \ {o} : obj'[p] = obj[p]
  BY DEF OwnTypes, Made, Construct, ConstructNoDescriptor, ConstructNoNetwork,
     Constructed, SocketState

(* A transfer error on a socket there is keeps alive what was.             *)
LEMMA TransferKeepsAlive ==
  ASSUME OwnTypes, sock \in Obj, obj[sock].state # "DEAD", TransferError
  PROVE  /\ obj' \in [Obj -> [state : SocketState, fd : FD \cup {NoFD}]]
         /\ \A p \in Obj : obj'[p].state = "DEAD" <=> obj[p].state = "DEAD"
<1>1. CASE TransferFails(sock)
  BY <1>1, ClosingKeepsAlive
<1>2. CASE UNCHANGED sockVars
  BY <1>2 DEF OwnTypes, sockVars
<1> QED BY <1>1, <1>2 DEF TransferError

-----------------------------------------------------------------------------
(* Each step of the client is a step of its sockets or leaves them alone,  *)
(* and keeps the invariant: the calls first, ...                           *)
LEMMA CallKeeps ==
  ASSUME ClientIInv, Call
  PROVE  ClientIInv' /\ [SocketNext]_sockVars
<1> USE ClientAssumption DEF ClientIInv, clientVars
<1>1. CASE ReconnectBegin
  <2>1. CASE isOpen
    <3>1. sock \in Obj /\ obj[sock].state # "DEAD" /\ Close(sock)
      BY <1>1, <2>1 DEF OwnTypes, SocketsAlive, PlaceTellsSocket, ReconnectBegin
    <3>2. SocketNext
      BY <3>1 DEF SocketNext
    <3>3. ClientIInv'
      BY <1>1, <2>1, <3>1, ClosingKeepsAlive DEF ReconnectBegin, Goto, OwnTypes, Steps,
         ClosedFlag, SocketsAlive, PlaceTellsSocket, UsesSocket, Reconnecting
    <3> QED BY <3>2, <3>3
  <2>2. CASE ~isOpen
    BY <1>1, <2>2 DEF ReconnectBegin, Goto, OwnTypes, Steps, SocketsAlive, sockVars,
       PlaceTellsSocket, UsesSocket, Reconnecting
  <2> QED BY <2>1, <2>2
<1>2. CASE ReceiveBegin
  BY <1>2 DEF ReceiveBegin, Goto, Return, OwnTypes, Steps, SocketsAlive, sockVars,
     PlaceTellsSocket, UsesSocket, Reconnecting
<1>3. CASE Send
  <2>1. CASE UNCHANGED sockVars
    BY <1>3, <2>1 DEF Send, Return, OwnTypes, Steps, SocketsAlive, sockVars,
       PlaceTellsSocket, UsesSocket, Reconnecting
  <2>2. CASE isOpen /\ TransferFails(sock)
    <3>1. sock \in Obj /\ obj[sock].state # "DEAD"
      BY <2>2 DEF OwnTypes, SocketsAlive, PlaceTellsSocket
    <3>2. SocketNext
      BY <2>2, <3>1 DEF SocketNext
    <3>3. ClientIInv'
      BY <1>3, <2>2, <3>1, ClosingKeepsAlive DEF Send, Return, OwnTypes, Steps,
         SocketsAlive, PlaceTellsSocket, UsesSocket, Reconnecting
    <3> QED BY <3>2, <3>3
  <2> QED BY <1>3, <2>1, <2>2 DEF Send, TransferError
<1>4. CASE CallClose \/ Destructor
  <2>1. CASE sock = NoSock
    BY <1>4, <2>1 DEF CallClose, Destructor, Crash, OwnTypes, Steps, SocketsAlive,
       sockVars, PlaceTellsSocket, UsesSocket, Reconnecting
  <2>2. CASE sock # NoSock
    <3>1. sock \in Obj /\ obj[sock].state # "DEAD" /\ Close(sock)
      BY <1>4, <2>2 DEF CallClose, Destructor, OwnTypes, SocketsAlive
    <3>2. SocketNext
      BY <3>1 DEF SocketNext
    <3>3. ClientIInv'
      BY <1>4, <2>2, <3>1, ClosingKeepsAlive DEF CallClose, Destructor, Return,
         OwnTypes, Steps, ClosedFlag, SocketsAlive, PlaceTellsSocket, UsesSocket,
         Reconnecting
    <3> QED BY <3>2, <3>3
  <2> QED BY <2>1, <2>2
<1> QED BY <1>1, <1>2, <1>3, <1>4 DEF Call

(* ... then reconnect, ...                                                 *)
LEMMA ReconnectKeeps ==
  ASSUME ClientIInv, ReconnectStep
  PROVE  ClientIInv' /\ [SocketNext]_sockVars
<1> USE ClientAssumption DEF ClientIInv, clientVars
<1>1. CASE ReconnectParse \/ UpgradeSent \/ Handshake
  <2>1. UNCHANGED <<sockVars, sock, fresh>>
    BY <1>1 DEF ReconnectParse, UpgradeSent, Handshake
  <2>2. CASE ReconnectParse
    BY <2>1, <2>2 DEF ReconnectParse, Goto, OwnTypes, Steps, SocketsAlive, sockVars,
       PlaceTellsSocket, UsesSocket, Reconnecting
  <2>3. CASE UpgradeSent
    BY <2>1, <2>3 DEF UpgradeSent, Goto, OwnTypes, Steps, SocketsAlive, sockVars,
       PlaceTellsSocket, UsesSocket, Reconnecting
  <2>4. CASE Handshake
    <3>1. isOpen' = TRUE /\ pc = "handshake" /\ pc' = "idle"
      BY <2>4 DEF Handshake, Goto
    <3> QED
      BY <2>1, <3>1 DEF OwnTypes, Steps, SocketsAlive, sockVars, PlaceTellsSocket,
         UsesSocket, Reconnecting
  <2> QED BY <1>1, <2>2, <2>3, <2>4
<1>2. CASE ReconnectMake
  <2>1. PICK o \in Obj : Made(o) /\ fresh' = o
    BY <1>2 DEF ReconnectMake, Made
  <2>2. SocketNext
    BY <2>1 DEF SocketNext, Made
  <2>3. ClientIInv'
    BY <1>2, <2>1, MadeLivens DEF ReconnectMake, Goto, OwnTypes, Steps,
       SocketsAlive, PlaceTellsSocket, UsesSocket, Reconnecting
  <2> QED BY <2>2, <2>3
<1>3. CASE ReconnectSwap
  <2>1. CASE sock = NoSock
    BY <1>3, <2>1 DEF ReconnectSwap, Goto, OwnTypes, Steps, SocketsAlive, sockVars,
       PlaceTellsSocket, UsesSocket, Reconnecting
  <2>2. CASE sock # NoSock
    <3>1. sock \in Obj /\ Destroy(sock)
      BY <1>3, <2>2 DEF ReconnectSwap, OwnTypes
    <3>2. SocketNext
      BY <3>1 DEF SocketNext
    <3>3. ClientIInv'
      BY <1>3, <3>1, DestroyKillsOne DEF ReconnectSwap, Goto, OwnTypes, Steps,
         SocketsAlive, PlaceTellsSocket, UsesSocket, Reconnecting
    <3> QED BY <3>2, <3>3
  <2> QED BY <2>1, <2>2
<1>4. CASE ReconnectConnect \/ ReconnectRefused
  <2>1. /\ sock \in Obj /\ obj[sock].state # "DEAD"
        /\ ConnectSucceeds(sock) \/ ConnectTooLate(sock) \/ ConnectFails(sock)
    BY <1>4 DEF ReconnectConnect, ReconnectRefused, OwnTypes, SocketsAlive,
       PlaceTellsSocket, UsesSocket
  <2>2. SocketNext
    BY <2>1 DEF SocketNext
  <2>3. ClientIInv'
    BY <1>4, <2>1, ClosingKeepsAlive DEF ReconnectConnect, ReconnectRefused, Goto,
       OwnTypes, Steps, SocketsAlive, PlaceTellsSocket, UsesSocket, Reconnecting
  <2> QED BY <2>2, <2>3
<1>5. CASE ReconnectDrop
  <2>1. sock \in Obj /\ Destroy(sock)
    BY <1>5 DEF ReconnectDrop, OwnTypes, PlaceTellsSocket, UsesSocket
  <2>2. SocketNext
    BY <2>1 DEF SocketNext
  <2>3. ClientIInv'
    BY <1>5, <2>1, DestroyKillsOne DEF ReconnectDrop, Goto, OwnTypes, Steps,
       SocketsAlive, PlaceTellsSocket, UsesSocket, Reconnecting
  <2> QED BY <2>2, <2>3
<1>6. CASE UpgradeError
  <2>1. sock \in Obj /\ obj[sock].state # "DEAD" /\ TransferError
    BY <1>6 DEF UpgradeError, OwnTypes, SocketsAlive, PlaceTellsSocket, UsesSocket
  <2>2. [SocketNext]_sockVars
    BY <2>1 DEF SocketNext, TransferError
  <2>3. ClientIInv'
    BY <1>6, <2>1, TransferKeepsAlive DEF UpgradeError, Goto, OwnTypes, Steps,
       SocketsAlive, PlaceTellsSocket, UsesSocket, Reconnecting
  <2> QED BY <2>2, <2>3
<1>7. CASE Shut
  <2>1. sock \in Obj /\ obj[sock].state # "DEAD" /\ Close(sock)
    BY <1>7 DEF Shut, OwnTypes, SocketsAlive, PlaceTellsSocket, UsesSocket
  <2>2. SocketNext
    BY <2>1 DEF SocketNext
  <2>3. ClientIInv'
    BY <1>7, <2>1, ClosingKeepsAlive DEF Shut, Goto, OwnTypes, Steps, ClosedFlag,
       SocketsAlive, PlaceTellsSocket, UsesSocket, Reconnecting
  <2> QED BY <2>2, <2>3
<1> QED BY <1>1, <1>2, <1>3, <1>4, <1>5, <1>6, <1>7 DEF ReconnectStep

(* ... receive and the destruction of the member, ...                      *)
LEMMA ReceiveKeeps ==
  ASSUME ClientIInv, ReceiveStep \/ DestroyMember
  PROVE  ClientIInv' /\ [SocketNext]_sockVars
<1> USE ClientAssumption DEF ClientIInv, clientVars
<1>1. CASE ReceiveHeader \/ ReceivePayload \/ SendPong
  BY <1>1 DEF ReceiveHeader, ReceivePayload, SendPong, Goto, Return, OwnTypes, Steps,
     SocketsAlive, sockVars, PlaceTellsSocket, UsesSocket, Reconnecting
<1>2. CASE ReceiveError \/ AnswerError
  <2>1. sock \in Obj /\ obj[sock].state # "DEAD" /\ TransferError
    BY <1>2 DEF ReceiveError, AnswerError, OwnTypes, SocketsAlive, PlaceTellsSocket,
       UsesSocket
  <2>2. [SocketNext]_sockVars
    BY <2>1 DEF SocketNext, TransferError
  <2>3. ClientIInv'
    BY <1>2, <2>1, TransferKeepsAlive DEF ReceiveError, AnswerError, Goto, Return,
       OwnTypes, Steps, SocketsAlive, PlaceTellsSocket, UsesSocket, Reconnecting
  <2> QED BY <2>2, <2>3
<1>3. CASE SendEcho
  <2>1. sock \in Obj /\ obj[sock].state # "DEAD" /\ Close(sock)
    BY <1>3 DEF SendEcho, OwnTypes, SocketsAlive, PlaceTellsSocket, UsesSocket
  <2>2. SocketNext
    BY <2>1 DEF SocketNext
  <2>3. ClientIInv'
    BY <1>3, <2>1, ClosingKeepsAlive DEF SendEcho, Return, OwnTypes, Steps, EchoedFlag,
       ClosedFlag, SocketsAlive, PlaceTellsSocket, UsesSocket, Reconnecting
  <2> QED BY <2>2, <2>3
<1>4. CASE DestroyMember
  <2>1. sock \in Obj /\ Destroy(sock)
    BY <1>4 DEF DestroyMember, OwnTypes
  <2>2. SocketNext
    BY <2>1 DEF SocketNext
  <2>3. ClientIInv'
    BY <1>4, <2>1, DestroyKillsOne DEF DestroyMember, OwnTypes, Steps, SocketsAlive,
       PlaceTellsSocket, UsesSocket, Reconnecting
  <2> QED BY <2>2, <2>3
<1> QED BY <1>1, <1>2, <1>3, <1>4 DEF ReceiveStep

(* ... and what is not the client's: its peer, and the other threads.      *)
LEMMA EnvironmentKeeps ==
  ASSUME ClientIInv, Environment \/ UNCHANGED wsVars
  PROVE  ClientIInv' /\ [SocketNext]_sockVars
<1> USE DEF ClientIInv, clientVars, sockVars, OwnTypes, SocketsAlive, PlaceTellsSocket
<1>1. CASE PeerAnswers
  BY <1>1 DEF PeerAnswers
<1>2. ASSUME NEW k \in Kinds, PeerSends(k) PROVE ClientIInv' /\ [SocketNext]_sockVars
  BY <1>2 DEF PeerSends
<1>3. CASE OtherThread
  BY <1>3 DEF OtherThread, OtherOpens, OtherCloses, SocketNext
<1>4. CASE UNCHANGED wsVars
  BY <1>4 DEF wsVars
<1> QED BY <1>1, <1>2, <1>3, <1>4 DEF Environment

LEMMA ClientStepKeeps ==
  ClientIInv /\ [ClientNext]_wsVars => ClientIInv' /\ [SocketNext]_sockVars
BY CallKeeps, ReconnectKeeps, ReceiveKeeps, EnvironmentKeeps DEF ClientNext, ClientStep

LEMMA ClientStarts == ClientInit => ClientIInv /\ SocketInit
<1> SUFFICES ASSUME ClientInit PROVE ClientIInv
  BY DEF ClientInit
<1>1. /\ obj = [o \in Obj |-> [state |-> "DEAD", fd |-> NoFD]]
      /\ sock = NoSock /\ fresh = NoSock /\ isOpen = FALSE /\ pc = "parse"
  BY DEF ClientInit, SocketInit
<1> QED
  BY <1>1 DEF ClientIInv, OwnTypes, SocketState, Steps, SocketsAlive,
     PlaceTellsSocket, UsesSocket, Reconnecting

-----------------------------------------------------------------------------
(* Each run of WebsocketClient, with its peer and the other threads, is a  *)
(* run of RawSocket: the client never calls a method on storage that holds *)
(* no socket, and never makes one where another lives.                     *)
THEOREM ClientUsesSockets == ClientSpec => SocketSpec
BY ClientStarts, ClientStepKeeps, PTL DEF ClientSpec, SocketSpec

(* An open client has a live socket, so receive and send never go through  *)
(* the null unique_ptr that a failed reconnect leaves.                     *)
THEOREM OpenClientHasSocket == ClientSpec => []OpenHasSocket
<1>1. ClientIInv => OpenHasSocket
  BY DEF ClientIInv, SocketsAlive, PlaceTellsSocket, OpenHasSocket
<1> QED BY <1>1, ClientStarts, ClientStepKeeps, PTL DEF ClientSpec

(* So what RawSocket promises, the client's sockets keep: but for those    *)
(* whose number another closed, a working one takes no other's number when *)
(* it is closed, a connected one has its own number and no two working     *)
(* ones share it; no number outlives them; and none is used again once     *)
(* closed or failed.                                                       *)
THEOREM ClientSocketsAreSound ==
  ClientSpec =>
    /\ []WorkingTakesNothing
    /\ []ConnectedHoldsItsDescriptor
    /\ []DescriptorsNotShared
    /\ []NoDescriptorLeak
    /\ NoRevival
BY ClientUsesSockets, WorkingSocketsTakeNothing, ConnectedSocketsHold,
   WorkingSocketsApart, NoSocketLeak, SocketsStayClosed
-----------------------------------------------------------------------------
(* The stream.  What is known of types, apart from the sockets; ...        *)
Piece == [frame : Nat, part : {"response", "header", "payload"}]
StreamTypes ==
  /\ wire \in Seq(Piece)
  /\ kinds \in Seq(Kinds) /\ Len(kinds) <= MaxFrames
  /\ got \in Seq(1 .. MaxFrames)
  /\ lost \in Nat /\ read \in Nat /\ pongs \in Nat
  /\ garbled \in BOOLEAN
  /\ lost <= read /\ read <= Len(kinds) /\ (garbled => read > 0)

(* ... that what nobody read yet is the end of what the peer sent in k     *)
(* frames, its answer to the handshake before them; ...                    *)
Sent(p) == [frame |-> p \div 2,
            part |-> IF p = 1 THEN "response"
                     ELSE IF p % 2 = 0 THEN "header" ELSE "payload"]
EndOfStream(w, k) ==
  /\ Len(w) <= 2 * k + 1
  /\ \A i \in 1 .. Len(w) : w[i] = Sent(2 * k + 1 - Len(w) + i)
WireIsRest == EndOfStream(wire, Len(kinds))

(* ... where a connection can be alive: only in reconnect after connect(), *)
(* and in a client that is open; ...                                       *)
WorkingPlaces ==
  /\ Working => isOpen \/ pc \in {"upgrade", "handshake"}
  /\ fresh # NoSock => obj[fresh].state # "CONNECTED"

(* ... that nothing was read before the handshake; ...                     *)
HandshakeUnread ==
  pc \in {"upgrade", "handshake"} =>
    /\ lost = 0 /\ read = 0 /\ got = <<>> /\ pongs = 0 /\ ~garbled
    /\ \/ wire = <<>> /\ kinds = <<>>
       \/ Len(wire) = 2 * Len(kinds) + 1

(* ... that a reader that keeps its place is between two frames, or in     *)
(* receive() between the header and the payload of one, or has the rest of *)
(* a payload of misread size before it; ...                                *)
Misread == read > lost /\ kinds[read] = "large"
Due == IF pc = "payload" \/ Misread THEN 1 ELSE 0
ReaderInStep ==
  isOpen /\ Working /\ ~garbled => Len(wire) = 2 * (Len(kinds) - read) + Due

(* ... and what it has done with the frames it took: the one in hand is    *)
(* not delivered before its payload is read, and not answered before the   *)
(* pong is sent.                                                           *)
TextsDelivered ==
  ~garbled =>
    \/ Delivered(read) /\ pc # "payload"
    \/ Delivered(read - 1) /\ read > lost /\ (pc = "payload" \/ ~Working)
PongsSent ==
  Working /\ ~garbled =>
    /\ pc = "payload" => pongs = Cardinality(Pings(read - 1))
    /\ pc = "pong" => pongs + 1 = Cardinality(Pings(read))
    /\ pc \notin {"payload", "pong"} => pongs = Cardinality(Pings(read))

StreamIInv ==
  /\ StreamTypes /\ WireIsRest /\ WorkingPlaces /\ HandshakeUnread
  /\ ReaderInStep /\ PlaceKept /\ TextsDelivered /\ PongsSent

(* The pieces of frame f.                                                  *)
LEMMA SentIs ==
  ASSUME NEW f \in Nat
  PROVE  /\ Sent(1) = Response
         /\ f >= 1 => Sent(2 * f) = [frame |-> f, part |-> "header"]
         /\ f >= 1 => Sent(2 * f + 1) = [frame |-> f, part |-> "payload"]
<1>1. /\ (2 * f) \div 2 = f /\ (2 * f) % 2 = 0 /\ 1 \div 2 = 0
      /\ (2 * f + 1) \div 2 = f /\ (2 * f + 1) % 2 = 1
  BY SMT
<1> QED BY <1>1 DEF Sent, Response

(* Whoever reads the first m pieces leaves an end of the stream.           *)
LEMMA ReadingLeavesEnd ==
  ASSUME NEW w \in Seq(Piece), NEW k \in Nat, EndOfStream(w, k),
         NEW m \in 0 .. Len(w)
  PROVE  EndOfStream(SubSeq(w, m + 1, Len(w)), k)
<1> DEFINE v == SubSeq(w, m + 1, Len(w))
<1>1. Len(v) = Len(w) - m /\ \A i \in 1 .. Len(w) - m : v[i] = w[m + i]
  OBVIOUS
<1> HIDE DEF v
<1>2. ASSUME NEW i \in 1 .. Len(v)
      PROVE  v[i] = Sent(2 * k + 1 - Len(v) + i)
  <2>1. m + i \in 1 .. Len(w) /\ v[i] = w[m + i]
    BY <1>1
  <2>2. 2 * k + 1 - Len(w) + (m + i) = 2 * k + 1 - Len(v) + i
    BY <1>1
  <2>3. w[m + i] = Sent(2 * k + 1 - Len(w) + (m + i))
    BY <2>1 DEF EndOfStream
  <2> QED BY <2>1, <2>2, <2>3
<1>3. EndOfStream(v, k)
  BY <1>1, <1>2 DEF EndOfStream
<1> QED BY <1>3 DEF v

(* One frame more makes the stream longer by its two pieces.               *)
LEMMA SendingLengthens ==
  ASSUME NEW w \in Seq(Piece), NEW k \in Nat, EndOfStream(w, k)
  PROVE  /\ w \o Frame(k + 1) \in Seq(Piece)
         /\ Len(w \o Frame(k + 1)) = Len(w) + 2
         /\ EndOfStream(w \o Frame(k + 1), k + 1)
<1> DEFINE x == Frame(k + 1)
           v == w \o x
<1>1. /\ x \in Seq(Piece) /\ Len(x) = 2
      /\ x[1] = Sent(2 * (k + 1)) /\ x[2] = Sent(2 * (k + 1) + 1)
  BY SentIs DEF Frame, Piece
<1> HIDE DEF x
<1>2. /\ v \in Seq(Piece) /\ Len(v) = Len(w) + 2
      /\ \A i \in 1 .. Len(w) : v[i] = w[i]
      /\ v[Len(w) + 1] = x[1] /\ v[Len(w) + 2] = x[2]
  <2>1. v \in Seq(Piece) /\ Len(v) = Len(w) + Len(x)
    BY <1>1, ConcatProperties
  <2>2. \A i \in 1 .. Len(w) + Len(x) :
          v[i] = IF i <= Len(w) THEN w[i] ELSE x[i - Len(w)]
    BY <1>1, ConcatProperties
  <2>3. /\ Len(w) + 1 \in 1 .. Len(w) + Len(x) /\ Len(w) + 1 - Len(w) = 1
        /\ Len(w) + 2 \in 1 .. Len(w) + Len(x) /\ Len(w) + 2 - Len(w) = 2
    BY <1>1
  <2> HIDE DEF v
  <2>4. v[Len(w) + 1] = x[1] /\ v[Len(w) + 2] = x[2]
    BY <2>2, <2>3
  <2> QED BY <1>1, <2>1, <2>2, <2>4
<1> HIDE DEF v
<1>3. ASSUME NEW i \in 1 .. Len(v)
      PROVE  v[i] = Sent(2 * (k + 1) + 1 - Len(v) + i)
  <2>1. CASE i \in 1 .. Len(w)
    <3>1. 2 * k + 1 - Len(w) + i = 2 * (k + 1) + 1 - Len(v) + i
      BY <1>2, <2>1
    <3> QED BY <1>2, <2>1, <3>1 DEF EndOfStream
  <2>2. CASE i = Len(w) + 1
    BY <1>1, <1>2, <2>2
  <2>3. CASE i = Len(w) + 2
    BY <1>1, <1>2, <2>3
  <2> QED BY <1>2, <2>1, <2>2, <2>3
<1> QED BY <1>2, <1>3 DEF EndOfStream, v, x

(* The first piece of the rest, by how much it is.                         *)
LEMMA FirstPiece ==
  ASSUME NEW w \in Seq(Piece), NEW k \in Nat, EndOfStream(w, k), NEW r \in 0 .. k,
         w # <<>>
  PROVE  /\ Len(w) = 2 * (k - r) =>
              r < k /\ w[1] = [frame |-> r + 1, part |-> "header"]
         /\ Len(w) = 2 * (k - r) + 1 /\ r >= 1 =>
              w[1] = [frame |-> r, part |-> "payload"]
<1>1. 1 \in 1 .. Len(w) /\ w[1] = Sent(2 * k + 1 - Len(w) + 1)
  BY DEF EndOfStream
<1>2. ASSUME Len(w) = 2 * (k - r)
      PROVE  r < k /\ w[1] = [frame |-> r + 1, part |-> "header"]
  <2>1. r < k /\ 2 * k + 1 - Len(w) + 1 = 2 * (r + 1)
    BY <1>1, <1>2
  <2> QED BY <1>1, <2>1 DEF Sent
<1>3. ASSUME Len(w) = 2 * (k - r) + 1, r >= 1
      PROVE  w[1] = [frame |-> r, part |-> "payload"]
  <2>1. 2 * k + 1 - Len(w) + 1 = 2 * r + 1
    BY <1>3
  <2> QED BY <1>1, <1>3, <2>1 DEF Sent
<1> QED BY <1>2, <1>3

(* The handshake's recv takes n pieces of an unread stream: what it took   *)
(* last belongs to frame f, and it cut that frame in two exactly when a    *)
(* payload is now first.                                                   *)
LEMMA HandshakeTakes ==
  ASSUME NEW w \in Seq(Piece), NEW k \in Nat, EndOfStream(w, k),
         Len(w) = 2 * k + 1, NEW n \in 1 .. Len(w)
  PROVE  \E f \in 0 .. k :
           /\ w[n].frame = f
           /\ \/ n = 2 * f + 1 /\ ~(n < Len(w) /\ w[n + 1].part = "payload")
              \/ n = 2 * f /\ f >= 1 /\ n < Len(w) /\ w[n + 1].part = "payload"
<1>1. \A i \in 1 .. Len(w) : w[i] = Sent(i)
  BY DEF EndOfStream
<1>2. PICK f \in 0 .. k : n = 2 * f + 1 \/ (n = 2 * f /\ f >= 1)
  <2>1. n \in Nat /\ n >= 1 /\ n <= 2 * k + 1
    OBVIOUS
  <2>2. n \div 2 \in 0 .. k /\ (n = 2 * (n \div 2) + 1 \/ n = 2 * (n \div 2))
    BY <2>1, SMT
  <2> QED BY <2>1, <2>2
<1>3. CASE n = 2 * f /\ f >= 1
  <2>1. w[n] = Sent(2 * f) /\ w[n + 1] = Sent(2 * f + 1) /\ n < Len(w)
    BY <1>1, <1>3
  <2>2. w[n].frame = f /\ w[n + 1].part = "payload"
    BY <1>3, <2>1 DEF Sent
  <2> QED BY <1>3, <2>1, <2>2
<1>4. CASE n = 2 * f + 1
  <2>1. w[n].frame = f
    <3>1. w[n] = Sent(n)
      BY <1>1
    <3>2. n \div 2 = f
      BY <1>4
    <3> QED BY <3>1, <3>2 DEF Sent
  <2>2. ASSUME n < Len(w) PROVE w[n + 1].part # "payload"
    <3>1. n + 1 \in 1 .. Len(w) /\ n + 1 = 2 * (f + 1)
      BY <1>4, <2>2
    <3>2. w[n + 1] = Sent(2 * (f + 1))
      BY <1>1, <3>1
    <3> QED BY <3>2 DEF Sent
  <2> QED BY <1>4, <2>1, <2>2
<1> QED BY <1>2, <1>3, <1>4

(* What closing leaves: the socket closed is not connected, and the others *)
(* are as they were.                                                       *)
LEMMA ClosingDisconnects ==
  ASSUME OwnTypes, NEW o \in Obj,
         Close(o) \/ TransferFails(o) \/ ConnectFails(o) \/ ConnectTooLate(o)
  PROVE  obj'[o].state # "CONNECTED" /\ \A p \in Obj \ {o} : obj'[p] = obj[p]
BY DEF OwnTypes, Close, TransferFails, ConnectFails, ConnectTooLate, CloseTo

LEMMA TransferDisconnects ==
  ASSUME OwnTypes, sock \in Obj, TransferError
  PROVE  obj'[sock].state # "CONNECTED" /\ \A p \in Obj \ {sock} : obj'[p] = obj[p]
<1>1. CASE TransferFails(sock)
  BY <1>1, ClosingDisconnects
<1>2. CASE obj[sock].state # "CONNECTED" /\ UNCHANGED sockVars
  BY <1>2 DEF sockVars
<1> QED BY <1>1, <1>2 DEF TransferError

LEMMA MadeIsNotConnected ==
  ASSUME OwnTypes, NEW o \in Obj, Made(o)
  PROVE  obj'[o].state # "CONNECTED" /\ \A p \in Obj \ {o} : obj'[p] = obj[p]
BY DEF OwnTypes, Made, Construct, ConstructNoDescriptor, ConstructNoNetwork, Constructed

(* A step that touches nothing of the stream keeps the invariant, when it  *)
(* makes no connection work and leaves receive() only with a dead one.     *)
Quiet ==
  /\ UNCHANGED <<peerVars, readVars>>
  /\ WorkingPlaces'
  /\ Working' => Working /\ pc \notin {"payload", "pong"}
  /\ isOpen' => isOpen
  /\ pc' \notin {"payload", "pong"}
  /\ pc' \in {"upgrade", "handshake"} => pc \in {"upgrade", "handshake"}
LEMMA QuietKeeps ==
  ASSUME StreamIInv, Quiet
  PROVE  StreamIInv'
<1> USE DEF StreamIInv, Quiet, peerVars, readVars
<1>1. StreamTypes' /\ WireIsRest' /\ PlaceKept'
  BY DEF StreamTypes, WireIsRest, PlaceKept
<1>2. HandshakeUnread'
  BY DEF HandshakeUnread
<1>3. ReaderInStep'
  BY DEF ReaderInStep, Due, Misread
<1>4. \A n : Delivered(n)' <=> Delivered(n)
  BY DEF Delivered
<1>5. TextsDelivered'
  BY <1>4 DEF TextsDelivered
<1>6. PongsSent'
  BY DEF PongsSent, Pings
<1> QED BY <1>1, <1>2, <1>3, <1>5, <1>6

(* The calls, and what closes or replaces a socket, are such steps.        *)
LEMMA CallIsQuiet ==
  ASSUME ClientIInv, StreamIInv, Call
  PROVE  Quiet
<1> USE ClientAssumption DEF ClientIInv, OwnTypes, SocketsAlive, PlaceTellsSocket,
        UsesSocket, Reconnecting, StreamIInv, WorkingPlaces, Working, Quiet, Goto,
        clientVars, sockVars
<1>1. CASE ReconnectBegin
  <2>1. CASE isOpen
    <3>1. sock \in Obj /\ Close(sock)
      BY <1>1, <2>1 DEF ReconnectBegin
    <3>2. obj'[sock].state # "CONNECTED" /\ \A p \in Obj \ {sock} : obj'[p] = obj[p]
      BY <3>1, ClosingDisconnects
    <3> QED BY <1>1, <2>1, <3>1, <3>2 DEF ReconnectBegin, ClosedFlag
  <2>2. CASE ~isOpen
    BY <1>1, <2>2 DEF ReconnectBegin
  <2> QED BY <2>1, <2>2
<1>2. CASE ReceiveBegin
  BY <1>2 DEF ReceiveBegin, Return
<1>3. CASE Send
  <2>1. CASE UNCHANGED sockVars
    BY <1>3, <2>1 DEF Send, Return
  <2>2. CASE isOpen /\ TransferError
    <3>1. obj'[sock].state # "CONNECTED" /\ \A p \in Obj \ {sock} : obj'[p] = obj[p]
      BY <2>2, TransferDisconnects
    <3> QED BY <1>3, <2>2, <3>1 DEF Send, Return
  <2> QED BY <1>3, <2>1, <2>2 DEF Send
<1>4. CASE CallClose \/ Destructor
  <2>1. CASE sock = NoSock
    BY <1>4, <2>1 DEF CallClose, Destructor, Crash
  <2>2. CASE sock # NoSock
    <3>1. sock \in Obj /\ Close(sock)
      BY <1>4, <2>2 DEF CallClose, Destructor
    <3>2. obj'[sock].state # "CONNECTED" /\ \A p \in Obj \ {sock} : obj'[p] = obj[p]
      BY <3>1, ClosingDisconnects
    <3> QED BY <1>4, <2>2, <3>1, <3>2 DEF CallClose, Destructor, Return, ClosedFlag
  <2> QED BY <2>1, <2>2
<1> QED BY <1>1, <1>2, <1>3, <1>4 DEF Call

LEMMA ReconnectIsQuiet ==
  ASSUME ClientIInv, StreamIInv,
         \/ ReconnectParse \/ ReconnectMake \/ ReconnectSwap \/ ReconnectRefused
         \/ ReconnectDrop \/ UpgradeSent \/ UpgradeError \/ Shut
  PROVE  Quiet
<1> USE ClientAssumption DEF ClientIInv, OwnTypes, SocketsAlive, PlaceTellsSocket,
        UsesSocket, Reconnecting, StreamIInv, WorkingPlaces, Working, Quiet, Goto,
        clientVars, sockVars
<1>1. CASE ReconnectParse \/ UpgradeSent
  BY <1>1 DEF ReconnectParse, UpgradeSent
<1>2. CASE ReconnectMake
  <2>1. PICK o \in Obj : Made(o) /\ fresh' = o
    BY <1>2 DEF ReconnectMake, Made
  <2>2. obj'[o].state # "CONNECTED" /\ \A p \in Obj \ {o} : obj'[p] = obj[p]
    BY <2>1, MadeIsNotConnected
  <2> QED BY <1>2, <2>1, <2>2 DEF ReconnectMake
<1>3. CASE ReconnectSwap
  <2>1. CASE sock = NoSock
    BY <1>3, <2>1 DEF ReconnectSwap
  <2>2. CASE sock # NoSock
    <3>1. \A p \in Obj \ {sock} : obj'[p] = obj[p]
      BY <1>3, <2>2, DestroyKillsOne DEF ReconnectSwap
    <3> QED BY <1>3, <2>2, <3>1 DEF ReconnectSwap
  <2> QED BY <2>1, <2>2
<1>4. CASE ReconnectRefused
  <2>1. obj'[sock].state # "CONNECTED" /\ \A p \in Obj \ {sock} : obj'[p] = obj[p]
    BY <1>4, ClosingDisconnects DEF ReconnectRefused
  <2> QED BY <1>4, <2>1 DEF ReconnectRefused
<1>5. CASE ReconnectDrop
  <2>1. \A p \in Obj \ {sock} : obj'[p] = obj[p]
    BY <1>5, DestroyKillsOne DEF ReconnectDrop
  <2> QED BY <1>5, <2>1 DEF ReconnectDrop
<1>6. CASE UpgradeError
  <2>1. obj'[sock].state # "CONNECTED" /\ \A p \in Obj \ {sock} : obj'[p] = obj[p]
    BY <1>6, TransferDisconnects DEF UpgradeError
  <2> QED BY <1>6, <2>1 DEF UpgradeError
<1>7. CASE Shut
  <2>1. obj'[sock].state # "CONNECTED" /\ \A p \in Obj \ {sock} : obj'[p] = obj[p]
    BY <1>7, ClosingDisconnects DEF Shut
  <2> QED BY <1>7, <2>1 DEF Shut, ClosedFlag
<1> QED BY <1>1, <1>2, <1>3, <1>4, <1>5, <1>6, <1>7

LEMMA ReceiveFailsQuietly ==
  ASSUME ClientIInv, StreamIInv,
         ReceiveError \/ AnswerError \/ SendEcho \/ DestroyMember
  PROVE  Quiet
<1> USE ClientAssumption DEF ClientIInv, OwnTypes, SocketsAlive, PlaceTellsSocket,
        UsesSocket, Reconnecting, StreamIInv, WorkingPlaces, Working, Quiet, Goto,
        Return, clientVars, sockVars
<1>1. CASE ReceiveError \/ AnswerError
  <2>1. obj'[sock].state # "CONNECTED" /\ \A p \in Obj \ {sock} : obj'[p] = obj[p]
    BY <1>1, TransferDisconnects DEF ReceiveError, AnswerError
  <2> QED BY <1>1, <2>1 DEF ReceiveError, AnswerError
<1>2. CASE SendEcho
  <2>1. obj'[sock].state # "CONNECTED" /\ \A p \in Obj \ {sock} : obj'[p] = obj[p]
    BY <1>2, ClosingDisconnects DEF SendEcho
  <2> QED BY <1>2, <2>1 DEF SendEcho, EchoedFlag, ClosedFlag
<1>3. CASE DestroyMember
  <2>1. \A p \in Obj \ {sock} : obj'[p] = obj[p]
    BY <1>3, DestroyKillsOne DEF DestroyMember
  <2> QED BY <1>3, <2>1 DEF DestroyMember
<1> QED BY <1>1, <1>2, <1>3

(* One frame more: its text comes last, and a frame of another kind        *)
(* changes nothing of what is due.                                         *)
LEMMA TextComesLast ==
  ASSUME StreamTypes, Delivered(read - 1), read > lost, UNCHANGED <<kinds, lost, read>>
  PROVE  /\ kinds[read] = "text" /\ got' = Append(got, read) => Delivered(read)'
         /\ kinds[read] # "text" /\ got' = got => Delivered(read)'
<1>1. \A i \in 1 .. Len(got) : got[i] < read
  <2> SUFFICES ASSUME NEW i \in 1 .. Len(got) PROVE got[i] < read
    OBVIOUS
  <2>1. got[i] \in ToSet(got)
    BY DEF ToSet, StreamTypes
  <2> QED BY <2>1 DEF Delivered, StreamTypes
<1>2. ASSUME kinds[read] = "text", got' = Append(got, read)
      PROVE  Delivered(read)'
  <2>1. /\ Len(got') = Len(got) + 1 /\ got'[Len(got) + 1] = read
        /\ \A i \in 1 .. Len(got) : got'[i] = got[i]
        /\ DOMAIN got' = 1 .. Len(got) + 1 /\ DOMAIN got = 1 .. Len(got)
    BY <1>2 DEF StreamTypes
  <2>2. ToSet(got') = ToSet(got) \cup {read}
    BY <2>1 DEF ToSet
  <2>3. ToSet(got') = {n \in lost' + 1 .. read' : kinds'[n] = "text"}
    BY <1>2, <2>2 DEF Delivered, StreamTypes
  <2>4. ASSUME NEW i \in 1 .. Len(got'), NEW j \in 1 .. Len(got'), i < j
        PROVE  got'[i] < got'[j]
    <3>1. Len(got) \in Nat /\ i \in 1 .. Len(got) /\ got'[i] = got[i]
      BY <2>1, <2>4 DEF StreamTypes
    <3>2. CASE j = Len(got) + 1
      BY <1>1, <2>1, <3>1, <3>2
    <3>3. CASE j \in 1 .. Len(got)
      BY <2>1, <2>4, <3>1, <3>3 DEF Delivered
    <3> QED BY <2>1, <3>1, <3>2, <3>3
  <2> QED BY <2>3, <2>4 DEF Delivered
<1>3. ASSUME kinds[read] # "text", got' = got
      PROVE  Delivered(read)'
  BY <1>3 DEF Delivered, StreamTypes
<1> QED BY <1>2, <1>3

LEMMA PingsGrow ==
  ASSUME StreamTypes, read > lost
  PROVE  /\ Cardinality(Pings(read - 1)) \in Nat
         /\ Cardinality(Pings(read)) =
              Cardinality(Pings(read - 1)) + (IF kinds[read] = "ping" THEN 1 ELSE 0)
<1>1. IsFiniteSet(Pings(read - 1)) /\ Cardinality(Pings(read - 1)) \in Nat
  <2>1. IsFiniteSet(lost + 1 .. read - 1)
    BY FS_Interval DEF StreamTypes
  <2>2. Pings(read - 1) \subseteq lost + 1 .. read - 1
    BY DEF Pings
  <2> QED BY <2>1, <2>2, FS_Subset, FS_CardinalityType
<1>2. CASE kinds[read] = "ping"
  <2>1. Pings(read) = Pings(read - 1) \cup {read} /\ read \notin Pings(read - 1)
    BY <1>2 DEF Pings, StreamTypes
  <2> QED BY <1>1, <1>2, <2>1, FS_AddElement
<1>3. CASE kinds[read] # "ping"
  <2>1. Pings(read) = Pings(read - 1)
    BY <1>3 DEF Pings, StreamTypes
  <2> QED BY <1>1, <1>3, <2>1
<1> QED BY <1>1, <1>2, <1>3

(* The steps that move the stream.  A new connection starts another; ...   *)
LEMMA ConnectStartsStream ==
  ASSUME ClientIInv, StreamIInv, ReconnectConnect
  PROVE  StreamIInv'
<1>1. /\ wire' = <<>> /\ kinds' = <<>> /\ got' = <<>> /\ lost' = 0 /\ read' = 0
      /\ pongs' = 0 /\ garbled' = FALSE /\ pc' = "upgrade"
  BY DEF ReconnectConnect, Goto
<1>2. StreamTypes'
  <2>1. garbled' \in BOOLEAN
    BY <1>1
  <2>2. \A S : <<>> \in Seq(S)
    OBVIOUS
  <2> QED BY <1>1, <2>1, <2>2, ClientAssumption DEF StreamTypes
<1>3. PlaceKept' /\ HandshakeUnread'
  BY <1>1 DEF PlaceKept, HandshakeUnread
<1>4. WireIsRest'
  <2>1. EndOfStream(<<>>, 0)
    BY DEF EndOfStream
  <2> QED BY <1>1, <2>1 DEF WireIsRest
<1>5. WorkingPlaces' /\ ReaderInStep'
  BY <1>1, ClientAssumption
  DEF ClientIInv, OwnTypes, SocketsAlive, PlaceTellsSocket, Reconnecting, StreamIInv,
      WorkingPlaces, ReaderInStep, clientVars, ReconnectConnect, ConnectSucceeds
<1>6. TextsDelivered'
  BY <1>1 DEF TextsDelivered, Delivered, ToSet
<1>7. PongsSent'
  <2>1. Pings(read)' = {}
    BY <1>1 DEF Pings
  <2> QED BY <1>1, <2>1, FS_EmptySet DEF PongsSent
<1> QED BY <1>2, <1>3, <1>4, <1>5, <1>6, <1>7 DEF StreamIInv

(* ... the handshake takes the first pieces of it; ...                     *)
LEMMA HandshakeKeepsStream ==
  ASSUME ClientIInv, StreamIInv, Handshake
  PROVE  StreamIInv'
<1>1. PICK n \in 1 .. Len(wire) :
        /\ wire' = SubSeq(wire, n + 1, Len(wire))
        /\ lost' = wire[n].frame /\ read' = wire[n].frame
        /\ garbled' = (n < Len(wire) /\ wire[n + 1].part = "payload")
  BY DEF Handshake
<1>2. /\ wire \in Seq(Piece) /\ Len(kinds) \in Nat /\ EndOfStream(wire, Len(kinds))
      /\ Len(wire) \in Nat /\ Len(wire) = 2 * Len(kinds) + 1
      /\ got = <<>> /\ pongs = 0
  BY <1>1 DEF StreamIInv, StreamTypes, WireIsRest, HandshakeUnread, Handshake
<1>3. PICK f \in 0 .. Len(kinds) :
        /\ wire[n].frame = f
        /\ \/ n = 2 * f + 1 /\ ~(n < Len(wire) /\ wire[n + 1].part = "payload")
           \/ n = 2 * f /\ f >= 1 /\ n < Len(wire) /\ wire[n + 1].part = "payload"
  BY <1>2, HandshakeTakes
<1>4. wire' \in Seq(Piece) /\ Len(wire') = Len(wire) - n
  BY <1>1, <1>2, SubSeqProperties
<1>5. EndOfStream(wire', Len(kinds))
  <2>1. n \in 0 .. Len(wire)
    BY <1>2
  <2> QED BY <1>1, <1>2, <2>1, ReadingLeavesEnd
<1>6. /\ lost' = f /\ read' = f /\ garbled' \in BOOLEAN
      /\ ~garbled' => n = 2 * f + 1
      /\ garbled' => f >= 1
      /\ kinds' = kinds /\ got' = <<>> /\ pongs' = 0 /\ pc' = "idle"
      /\ isOpen' = TRUE /\ UNCHANGED <<sock, fresh, obj>>
  BY <1>1, <1>2, <1>3 DEF Handshake, Goto, sockVars
<1> HIDE DEF Piece
<1>7. StreamTypes'
  BY <1>4, <1>6 DEF StreamIInv, StreamTypes
<1>8. PlaceKept' /\ WireIsRest' /\ WorkingPlaces' /\ HandshakeUnread'
  BY <1>5, <1>6 DEF PlaceKept, WireIsRest, StreamIInv, WorkingPlaces, HandshakeUnread
<1>9. ReaderInStep'
  BY <1>2, <1>4, <1>6 DEF ReaderInStep, Due, Misread
<1>10. TextsDelivered'
  BY <1>6 DEF TextsDelivered, Delivered, ToSet
<1>11. PongsSent'
  <2>1. Pings(read)' = {}
    BY <1>6 DEF Pings
  <2> QED BY <1>6, <2>1, FS_EmptySet DEF PongsSent
<1> QED BY <1>7, <1>8, <1>9, <1>10, <1>11 DEF StreamIInv

(* ... receive() takes a header, ...                                       *)
LEMMA HeaderKeepsStream ==
  ASSUME ClientIInv, StreamIInv, ReceiveHeader
  PROVE  StreamIInv'
<1>1. Working /\ isOpen /\ ~garbled /\ pc = "header" /\ wire # <<>>
  BY DEF ClientIInv, PlaceTellsSocket, UsesSocket, StreamIInv, WorkingPlaces,
     ReceiveHeader, Connected, Working
<1>2. /\ wire \in Seq(Piece) /\ Len(kinds) \in Nat /\ read \in 0 .. Len(kinds)
      /\ EndOfStream(wire, Len(kinds)) /\ lost \in Nat
  BY DEF StreamIInv, StreamTypes, WireIsRest
<1>3. /\ wire' = Tail(wire) /\ pc' = "payload" /\ Head(wire) = wire[1]
      /\ UNCHANGED <<obj, sock, fresh, isOpen, kinds, lost, got, pongs>>
  BY <1>1, <1>2 DEF ReceiveHeader, Goto, sockVars, clientVars
<1>4. wire' \in Seq(Piece) /\ Len(wire') = Len(wire) - 1 /\ EndOfStream(wire', Len(kinds))
  <2>1. /\ wire' = SubSeq(wire, 2, Len(wire)) /\ wire' \in Seq(Piece)
        /\ Len(wire') = Len(wire) - 1 /\ 1 \in 0 .. Len(wire)
    BY <1>1, <1>2, <1>3, HeadTailProperties
  <2> QED BY <1>2, <2>1, ReadingLeavesEnd
<1>5. WireIsRest' /\ WorkingPlaces' /\ HandshakeUnread'
  BY <1>1, <1>3, <1>4 DEF WireIsRest, StreamIInv, WorkingPlaces, Working,
     HandshakeUnread
<1>6. CASE Misread
  <2>1. Len(wire) = 2 * (Len(kinds) - read) + 1 /\ read >= 1
    BY <1>1, <1>2, <1>6 DEF StreamIInv, ReaderInStep, Due, Misread
  <2>2. wire[1] = [frame |-> read, part |-> "payload"]
    BY <1>1, <1>2, <2>1, FirstPiece
  <2>3. read' = read /\ garbled' = TRUE
    <3>1. Head(wire).frame = read /\ Head(wire).part = "payload"
      BY <1>3, <2>2
    <3> QED BY <3>1 DEF ReceiveHeader
  <2>4. garbled' \in BOOLEAN
    BY <2>3
  <2>5. StreamTypes'
    <3>1. read' \in Nat /\ lost <= read' /\ read' <= Len(kinds) /\ read' > 0
      BY <1>2, <2>1, <2>3 DEF StreamIInv, StreamTypes
    <3> QED BY <1>3, <1>4, <2>4, <3>1 DEF StreamIInv, StreamTypes
  <2>6. PlaceKept'
    BY <1>3, <1>6, <2>3 DEF PlaceKept, Misread
  <2>7. ReaderInStep' /\ TextsDelivered' /\ PongsSent'
    BY <2>3 DEF ReaderInStep, TextsDelivered, PongsSent
  <2> QED BY <1>5, <2>5, <2>6, <2>7 DEF StreamIInv
<1>7. CASE ~Misread
  <2>1. Len(wire) = 2 * (Len(kinds) - read)
    BY <1>1, <1>2, <1>7 DEF StreamIInv, ReaderInStep, Due
  <2>2. read < Len(kinds) /\ wire[1] = [frame |-> read + 1, part |-> "header"]
    BY <1>1, <1>2, <2>1, FirstPiece
  <2>3. read' = read + 1 /\ garbled' = FALSE
    <3>1. Head(wire).frame = read + 1 /\ Head(wire).part = "header"
      BY <1>3, <2>2
    <3> QED BY <3>1 DEF ReceiveHeader
  <2>4. garbled' \in BOOLEAN
    BY <2>3
  <2>5. /\ read' \in Nat /\ lost <= read' /\ read' <= Len(kinds)
        /\ garbled' => read' > 0
    BY <1>2, <2>2, <2>3 DEF StreamIInv, StreamTypes
  <2>6. StreamTypes'
    BY <1>3, <1>4, <2>4, <2>5 DEF StreamIInv, StreamTypes
  <2>7. PlaceKept'
    BY <2>3 DEF PlaceKept
  <2>8. ReaderInStep'
    <3>1. Due' = 1
      BY <1>3 DEF Due
    <3>2. Len(wire') = 2 * (Len(kinds) - (read + 1)) + 1
      BY <1>2, <1>4, <2>1
    <3> QED BY <1>3, <2>3, <3>1, <3>2 DEF ReaderInStep
  <2>9. TextsDelivered' /\ PongsSent'
    <3>1. Delivered(read) /\ pongs = Cardinality(Pings(read)) /\ read + 1 > lost
      BY <1>1, <1>2 DEF StreamIInv, TextsDelivered, PongsSent, StreamTypes
    <3>2. read' - 1 = read
      BY <1>2, <2>3
    <3> QED BY <1>3, <2>3, <3>1, <3>2 DEF TextsDelivered, PongsSent, Delivered, Pings
  <2> QED BY <1>5, <2>6, <2>7, <2>8, <2>9 DEF StreamIInv
<1> QED BY <1>6, <1>7

(* ... its payload, ...                                                    *)
LEMMA PayloadKeepsStream ==
  ASSUME ClientIInv, StreamIInv, ReceivePayload
  PROVE  StreamIInv'
<1>1. Working /\ isOpen /\ ~garbled /\ pc = "payload" /\ wire # <<>>
  BY DEF ClientIInv, PlaceTellsSocket, UsesSocket, StreamIInv, WorkingPlaces,
     ReceivePayload, Connected, Working
<1>2. /\ wire \in Seq(Piece) /\ Len(kinds) \in Nat /\ read \in 0 .. Len(kinds)
      /\ EndOfStream(wire, Len(kinds)) /\ StreamTypes /\ pongs \in Nat
  BY DEF StreamIInv, StreamTypes, WireIsRest
<1>3. /\ Len(wire) = 2 * (Len(kinds) - read) + 1
      /\ Delivered(read - 1) /\ read > lost /\ pongs = Cardinality(Pings(read - 1))
  BY <1>1, <1>2 DEF StreamIInv, ReaderInStep, Due, Misread, TextsDelivered, PongsSent
<1>4. /\ UNCHANGED <<obj, sock, fresh, isOpen, kinds, lost, garbled, read, pongs>>
      /\ wire' = IF kinds[read] = "large" THEN wire ELSE Tail(wire)
      /\ \/ kinds[read] = "text" /\ pc' = "idle" /\ got' = Append(got, read)
         \/ kinds[read] = "ping" /\ pc' = "pong" /\ got' = got
         \/ kinds[read] \notin {"text", "ping"} /\ pc' \in {"echo", "idle"} /\ got' = got
  BY DEF ReceivePayload, Opcode, Unread, Goto, Return, sockVars, clientVars
<1>5. /\ wire' \in Seq(Piece) /\ EndOfStream(wire', Len(kinds))
      /\ Len(wire') = IF kinds[read] = "large" THEN Len(wire) ELSE Len(wire) - 1
  <2>1. /\ Tail(wire) = SubSeq(wire, 2, Len(wire)) /\ Tail(wire) \in Seq(Piece)
        /\ Len(Tail(wire)) = Len(wire) - 1 /\ 1 \in 0 .. Len(wire)
    BY <1>1, <1>2, HeadTailProperties
  <2>2. EndOfStream(SubSeq(wire, 1 + 1, Len(wire)), Len(kinds))
    BY <1>2, <2>1, ReadingLeavesEnd
  <2>3. EndOfStream(Tail(wire), Len(kinds))
    <3>1. Tail(wire) = SubSeq(wire, 1 + 1, Len(wire))
      BY <1>1, <1>2
    <3> QED BY <2>2, <3>1
  <2> QED BY <1>2, <1>4, <2>1, <2>3
<1>6. StreamTypes'
  <2>1. read \in 1 .. MaxFrames
    BY <1>2, <1>3, ClientAssumption DEF StreamTypes
  <2>2. got' \in Seq(1 .. MaxFrames)
    <3>1. Append(got, read) \in Seq(1 .. MaxFrames)
      BY <1>2, <2>1, AppendProperties DEF StreamTypes
    <3> QED BY <1>2, <1>4, <3>1 DEF StreamTypes
  <2> QED BY <1>2, <1>4, <1>5, <2>2 DEF StreamTypes
<1>7. PlaceKept' /\ WireIsRest' /\ WorkingPlaces' /\ HandshakeUnread'
  BY <1>1, <1>4, <1>5 DEF PlaceKept, WireIsRest, StreamIInv, WorkingPlaces, Working,
     HandshakeUnread
<1>8. ReaderInStep'
  <2> DEFINE rest == IF kinds[read] = "large" THEN 1 ELSE 0
  <2>1. Len(wire') = 2 * (Len(kinds) - read) + rest
    BY <1>2, <1>3, <1>5
  <2>2. Due' = rest
    BY <1>3, <1>4 DEF Due, Misread
  <2> QED BY <1>4, <2>1, <2>2 DEF ReaderInStep
<1>9. TextsDelivered'
  <2>1. Delivered(read)'
    BY <1>2, <1>3, <1>4, TextComesLast
  <2> QED BY <1>4, <2>1 DEF TextsDelivered
<1>10. PongsSent'
  <2>1. /\ kinds[read] = "ping" => pongs + 1 = Cardinality(Pings(read))
        /\ kinds[read] # "ping" => pongs = Cardinality(Pings(read))
    BY <1>2, <1>3, PingsGrow
  <2>2. Pings(read)' = Pings(read)
    BY <1>4 DEF Pings
  <2> QED BY <1>4, <2>1, <2>2 DEF PongsSent
<1> QED BY <1>6, <1>7, <1>8, <1>9, <1>10 DEF StreamIInv

(* ... and answers a ping; ...                                             *)
LEMMA PongKeepsStream ==
  ASSUME ClientIInv, StreamIInv, SendPong
  PROVE  StreamIInv'
<1>1. /\ pongs' = pongs + 1 /\ pc = "pong" /\ pc' = "header"
      /\ UNCHANGED <<obj, sock, fresh, isOpen, wire, kinds>>
      /\ UNCHANGED <<lost, garbled, read, got>>
  BY DEF SendPong, Goto, sockVars, clientVars, peerVars
<1> USE <1>1 DEF StreamIInv
<1>2. StreamTypes' /\ WireIsRest' /\ PlaceKept'
  BY DEF StreamTypes, WireIsRest, PlaceKept
<1>3. WorkingPlaces' /\ HandshakeUnread'
  BY DEF WorkingPlaces, Working, HandshakeUnread
<1>4. ReaderInStep'
  BY DEF ReaderInStep, Due, Misread, Working
<1>5. TextsDelivered'
  BY DEF TextsDelivered, Delivered, Working
<1>6. PongsSent'
  BY DEF PongsSent, Pings, Working
<1> QED BY <1>2, <1>3, <1>4, <1>5, <1>6

(* ... the peer answers the request, ...                                   *)
LEMMA AnswerKeepsStream ==
  ASSUME ClientIInv, StreamIInv, PeerAnswers
  PROVE  StreamIInv'
<1>1. /\ wire = <<>> /\ kinds = <<>> /\ wire' = <<Response>> /\ pc = "handshake"
      /\ UNCHANGED <<obj, sock, fresh, isOpen, kinds, pc>>
      /\ UNCHANGED <<lost, garbled, read, got, pongs>> /\ ~isOpen
  BY DEF PeerAnswers, sockVars, clientVars, readVars, ClientIInv, PlaceTellsSocket,
     Reconnecting
<1>2. wire' \in Seq(Piece) /\ Len(wire') = 1 /\ wire'[1] = Sent(1) /\ Len(kinds) = 0
  <2>1. Response \in Piece /\ Sent(1) = Response
    BY DEF Piece, Response, Sent
  <2> HIDE DEF Piece, Response
  <2> QED BY <1>1, <2>1
<1>3. WireIsRest'
  <2>1. EndOfStream(wire', 0)
    BY <1>2 DEF EndOfStream
  <2> QED BY <1>1, <1>2, <2>1 DEF WireIsRest
<1> USE <1>1, <1>2 DEF StreamIInv
<1>4. StreamTypes' /\ PlaceKept' /\ WorkingPlaces'
  BY DEF StreamTypes, PlaceKept, WorkingPlaces, Working
<1>5. HandshakeUnread' /\ ReaderInStep'
  BY DEF HandshakeUnread, ReaderInStep
<1>6. TextsDelivered' /\ PongsSent'
  BY DEF TextsDelivered, Delivered, Working, PongsSent, Pings
<1> QED BY <1>3, <1>4, <1>5, <1>6

(* ... and sends another frame.                                            *)
LEMMA FrameKeepsStream ==
  ASSUME ClientIInv, StreamIInv, NEW k \in Kinds, PeerSends(k)
  PROVE  StreamIInv'
<1>1. /\ wire # <<>> \/ isOpen
      /\ Len(kinds) < MaxFrames
      /\ kinds' = Append(kinds, k) /\ wire' = wire \o Frame(Len(kinds) + 1)
      /\ UNCHANGED <<obj, sock, fresh, isOpen, pc>>
      /\ UNCHANGED <<lost, garbled, read, got, pongs>>
  BY DEF PeerSends, sockVars, clientVars, readVars
<1>2. /\ wire \in Seq(Piece) /\ Len(kinds) \in Nat /\ EndOfStream(wire, Len(kinds))
      /\ kinds \in Seq(Kinds) /\ read \in Nat /\ lost \in Nat /\ read <= Len(kinds)
  BY DEF StreamIInv, StreamTypes, WireIsRest
<1>3. /\ kinds' \in Seq(Kinds) /\ Len(kinds') = Len(kinds) + 1
      /\ \A n \in 1 .. Len(kinds) : kinds'[n] = kinds[n]
  BY <1>1, <1>2, AppendProperties
<1>4. /\ wire' \in Seq(Piece) /\ Len(wire') = Len(wire) + 2
      /\ EndOfStream(wire', Len(kinds) + 1)
  BY <1>1, <1>2, SendingLengthens
<1>5. StreamTypes'
  BY <1>1, <1>2, <1>3, <1>4, ClientAssumption DEF StreamIInv, StreamTypes
<1>6. WireIsRest' /\ PlaceKept' /\ WorkingPlaces'
  <2>1. garbled => read \in 1 .. Len(kinds)
    BY <1>2 DEF StreamIInv, StreamTypes
  <2>2. PlaceKept'
    BY <1>1, <1>3, <2>1 DEF StreamIInv, PlaceKept
  <2> QED BY <1>1, <1>3, <1>4, <2>2 DEF WireIsRest, StreamIInv, WorkingPlaces, Working
<1>7. HandshakeUnread'
  <2>1. pc \in {"upgrade", "handshake"} => Len(wire) = 2 * Len(kinds) + 1
    BY <1>1 DEF StreamIInv, HandshakeUnread, ClientIInv, PlaceTellsSocket, Reconnecting
  <2>2. Len(wire) \in Nat
    BY <1>2
  <2>3. pc \in {"upgrade", "handshake"} => Len(wire') = 2 * Len(kinds') + 1
    <3>1. Len(wire) = 2 * Len(kinds) + 1 => Len(wire) + 2 = 2 * (Len(kinds) + 1) + 1
      BY <1>2, <2>2
    <3> QED BY <1>3, <1>4, <2>1, <3>1
  <2> QED BY <1>1, <2>3 DEF StreamIInv, HandshakeUnread
<1>8. ReaderInStep'
  <2>1. Working' = Working /\ Due' = Due /\ Due \in Nat
    <3>1. read > lost => read \in 1 .. Len(kinds)
      BY <1>2
    <3>2. Misread' <=> Misread
      BY <1>1, <1>3, <3>1 DEF Misread
    <3> QED BY <1>1, <3>2 DEF Working, Due
  <2>2. 2 * (Len(kinds) - read) + Due + 2 = 2 * (Len(kinds) + 1 - read) + Due
    BY <1>2, <2>1
  <2>3. ASSUME isOpen, Working, ~garbled
        PROVE  Len(wire') = 2 * (Len(kinds') - read') + Due'
    <3>1. Len(wire) + 2 = 2 * (Len(kinds) - read) + Due + 2
      BY <2>3 DEF StreamIInv, ReaderInStep
    <3>2. Len(wire') = 2 * (Len(kinds) + 1 - read) + Due
      BY <1>4, <2>2, <3>1
    <3>3. Len(kinds') = Len(kinds) + 1 /\ read' = read /\ Due' = Due
      BY <1>1, <1>3, <2>1
    <3> QED BY <1>2, <2>1, <3>2, <3>3
  <2> QED BY <1>1, <2>1, <2>3 DEF ReaderInStep
<1>9. \A n \in {read, read - 1} :
        (Delivered(n)' <=> Delivered(n)) /\ Pings(n)' = Pings(n)
  <2> SUFFICES ASSUME NEW n \in {read, read - 1}
               PROVE  (Delivered(n)' <=> Delivered(n)) /\ Pings(n)' = Pings(n)
    OBVIOUS
  <2>1. lost + 1 .. n \subseteq 1 .. Len(kinds)
    BY <1>2
  <2>2. \A m \in lost + 1 .. n : kinds'[m] = kinds[m]
    BY <1>3, <2>1
  <2>3. Pings(n)' = Pings(n)
    BY <1>1, <2>2 DEF Pings
  <2>4. {m \in lost' + 1 .. n : kinds'[m] = "text"}
          = {m \in lost + 1 .. n : kinds[m] = "text"}
    BY <1>1, <2>2
  <2>5. Delivered(n)' <=> Delivered(n)
    BY <1>1, <2>4 DEF Delivered
  <2> QED BY <2>3, <2>5
<1>10. TextsDelivered' /\ PongsSent'
  BY <1>1, <1>9 DEF StreamIInv, TextsDelivered, PongsSent, Working
<1> QED BY <1>5, <1>6, <1>7, <1>8, <1>10 DEF StreamIInv

(* Together: each step keeps the invariant.                                *)
LEMMA StreamStepKeeps ==
  ClientIInv /\ StreamIInv /\ [ClientNext]_wsVars => StreamIInv'
<1> SUFFICES ASSUME ClientIInv, StreamIInv, [ClientNext]_wsVars
             PROVE  StreamIInv'
  OBVIOUS
<1>1. CASE Call
  BY <1>1, CallIsQuiet, QuietKeeps
<1>2. CASE ReconnectStep
  BY <1>2, ReconnectIsQuiet, QuietKeeps, ConnectStartsStream, HandshakeKeepsStream
  DEF ReconnectStep
<1>3. CASE ReceiveStep \/ DestroyMember
  BY <1>3, ReceiveFailsQuietly, QuietKeeps, HeaderKeepsStream, PayloadKeepsStream,
     PongKeepsStream DEF ReceiveStep
<1>4. CASE PeerAnswers \/ \E k \in Kinds : PeerSends(k)
  BY <1>4, AnswerKeepsStream, FrameKeepsStream
<1>5. CASE OtherThread \/ UNCHANGED wsVars
  <2>1. /\ UNCHANGED <<obj, sock, fresh, isOpen, pc, wire, kinds>>
        /\ UNCHANGED <<lost, garbled, read, got, pongs>>
    BY <1>5 DEF OtherThread, OtherOpens, OtherCloses, wsVars, sockVars, clientVars,
       peerVars, readVars
  <2>2. StreamTypes' /\ WireIsRest' /\ WorkingPlaces' /\ HandshakeUnread'
    BY <2>1 DEF StreamIInv, StreamTypes, WireIsRest, WorkingPlaces, Working,
       HandshakeUnread
  <2>3. ReaderInStep' /\ PlaceKept' /\ TextsDelivered' /\ PongsSent'
    BY <2>1 DEF StreamIInv, ReaderInStep, Due, Misread, Working, PlaceKept, TextsDelivered,
       Delivered, PongsSent, Pings
  <2> QED BY <2>2, <2>3 DEF StreamIInv
<1> QED
  BY <1>1, <1>2, <1>3, <1>4, <1>5 DEF ClientNext, ClientStep, Environment

LEMMA StreamStarts == ClientInit => StreamIInv
<1> SUFFICES ASSUME ClientInit PROVE StreamIInv
  OBVIOUS
<1>1. /\ wire = <<>> /\ kinds = <<>> /\ got = <<>> /\ lost = 0 /\ read = 0
      /\ pongs = 0 /\ garbled = FALSE /\ pc = "parse" /\ sock = NoSock
      /\ fresh = NoSock /\ isOpen = FALSE
  BY DEF ClientInit
<1>2. StreamTypes
  <2>1. garbled \in BOOLEAN
    BY <1>1
  <2>2. \A S : <<>> \in Seq(S)
    OBVIOUS
  <2> QED BY <1>1, <2>1, <2>2, ClientAssumption DEF StreamTypes
<1>3. WireIsRest
  <2>1. EndOfStream(<<>>, 0)
    BY DEF EndOfStream
  <2> QED BY <1>1, <2>1 DEF WireIsRest
<1>4. WorkingPlaces /\ HandshakeUnread /\ ReaderInStep /\ PlaceKept
  BY <1>1 DEF WorkingPlaces, Working, HandshakeUnread, ReaderInStep, PlaceKept
<1>5. TextsDelivered /\ PongsSent
  BY <1>1 DEF TextsDelivered, Delivered, ToSet, PongsSent, Working
<1> QED BY <1>2, <1>3, <1>4, <1>5 DEF StreamIInv

LEMMA StreamInvariant == ClientSpec => [](ClientIInv /\ StreamIInv)
BY ClientStarts, ClientStepKeeps, StreamStarts, StreamStepKeeps, PTL DEF ClientSpec

(* Whatever the peer sends, wherever the handshake or an error cuts it,    *)
(* and whenever the caller calls: what receive() returned on a connection  *)
(* is every text of less than 65536 bytes the handshake left, once and in  *)
(* the order sent, but for one in hand when the connection broke, and as   *)
(* long as the client keeps its place.  It loses it only when the          *)
(* handshake cut a frame in two, or after a larger frame.                  *)
THEOREM TextsInOrder == ClientSpec => []DeliveredInOrder
<1>1. StreamIInv => DeliveredInOrder
  BY DEF StreamIInv, TextsDelivered, DeliveredInOrder
<1> QED BY <1>1, StreamInvariant, PTL

(* And each ping read on a connection that still works has its pong.       *)
THEOREM PingsHavePongs == ClientSpec => []PingsAnswered
<1>1. StreamIInv => PingsAnswered
  BY DEF StreamIInv, PongsSent, PingsAnswered
<1> QED BY <1>1, StreamInvariant, PTL

-----------------------------------------------------------------------------
(* The Archipelago client.  Its flag tells whether the loss was reported.  *)
ReportsAreFlag ==
  /\ isDisconnected \in BOOLEAN
  /\ reports = IF isDisconnected THEN 1 ELSE 0

LEMMA ReportsStart == ApInit => ReportsAreFlag
BY DEF ApInit, ReportsAreFlag

LEMMA ReportsStay == ReportsAreFlag /\ [ApNext]_apVars => ReportsAreFlag'
<1> SUFFICES ASSUME ReportsAreFlag, [ApNext]_apVars PROVE ReportsAreFlag'
  OBVIOUS
<1>1. CASE Report
  <2>1. CASE MustReport
    BY <1>1, <2>1 DEF Report, MustReport, ReportsAreFlag
  <2>2. CASE ~MustReport
    BY <1>1, <2>2 DEF Report, ReportsAreFlag
  <2> QED BY <2>1, <2>2
<1>2. CASE UNCHANGED <<isDisconnected, reports>>
  BY <1>2 DEF ReportsAreFlag
<1>3. CASE ReconnectReturns
  BY <1>3 DEF ReconnectReturns, ClearedFlag, ReportsAreFlag
<1>4. Report \/ UNCHANGED <<isDisconnected, reports>> \/ ReconnectReturns
  BY DEF ApNext, apVars, apOnly, SendPacket, HandleOnePacket, Reconnect, Delete, Returns,
     ConstructorReturns, SendPacketReturns, HandleOnePacketReturns, ParseAborts,
     DeleteMember, ClientGoesOn, ApEnvironment
<1> QED BY <1>1, <1>2, <1>3, <1>4

(* However sendPacket and handleOnePacket meet the end of a connection,    *)
(* onDisconnect is called at most once until the next reconnect.           *)
THEOREM LossReportedOnce == ApSpec => []ReportedOnce
<1>1. ReportsAreFlag => ReportedOnce
  BY DEF ReportsAreFlag, ReportedOnce
<1> QED BY <1>1, ReportsStart, ReportsStay, PTL DEF ApSpec

(* The base class only calls the client, one call after another: all that  *)
(* holds of the client holds of it under the base class.                   *)
THEOREM ApIsClient == ApSpec => ClientSpec
<1>1. ApInit => ClientInit
  BY DEF ApInit
<1>2. [ApNext]_apVars => [ClientNext]_wsVars
  BY DEF ApNext, apVars, SendPacket, HandleOnePacket, Reconnect, Delete, Returns,
     ConstructorReturns, SendPacketReturns, HandleOnePacketReturns, ReconnectReturns,
     ParseAborts, DeleteMember, ClientGoesOn, ApEnvironment, ClientNext, Call
<1> QED BY <1>1, <1>2, PTL DEF ApSpec, ClientSpec
=============================================================================

--------------------------- MODULE WebsocketClient ---------------------------
(***************************************************************************)
(* The websocket client (common/src/net/WebsocketClient.cpp) of a ws://    *)
(* address: a client object with at most one RawSocket, used by one        *)
(* thread, and the peer at the other end of the connection.  Each call is  *)
(* taken apart where it calls the socket, because the rest of the process  *)
(* may open and close descriptors in between.                              *)
(***************************************************************************)
EXTENDS RawSocket, Sequences, SequencesExt

CONSTANTS
  NoSock,         \* a null unique_ptr
  MaxConnects,    \* bound of the connections that succeed
  MaxFrames       \* bound of the frames a peer sends on one connection

ASSUME ClientAssumption ==
  /\ NoSock \notin Obj
  /\ MaxConnects \in Nat
  /\ MaxFrames \in Nat

VARIABLES
  sock,       \* the socket object the client owns, or NoSock
  isOpen,     \* isOpen
  pc,         \* where the call in progress is
  ret,        \* what the last call returned
  fresh,      \* reconnect: the socket object made, not yet assigned
  wire,       \* what the peer sent on this connection and nobody read
  kinds,      \* history: the kinds of the frames the peer sent
  connects,   \* history: connections made
  lost,       \* history: frames the handshake threw away
  garbled,    \* history: some bytes in a frame were taken for a header
  read,       \* history: frames the client took whole or in part
  got,        \* history: frames returned whole to the caller, oldest first
  pongs       \* history: pings that were answered

clientVars == <<sock, isOpen, fresh>>
peerVars == <<wire, kinds>>
readVars == <<lost, garbled, read, got, pongs>>
wsVars == <<sockVars, clientVars, peerVars, readVars, pc, ret, connects>>

(* The frames: text or binary, ping, close, and all other opcodes; "large" *)
(* is text or binary of 65536 bytes or more, the peer's size in 64 bits.   *)
Kinds == {"text", "large", "ping", "close", "other"}
Steps == {"idle", "parse", "make", "swap", "connect", "drop", "upgrade",
          "handshake", "shut", "header", "payload", "pong", "echo", "crashed",
          "gone"}

(* The peer's bytes: its answer to the handshake, and each frame's header  *)
(* and payload.                                                            *)
Response == [frame |-> 0, part |-> "response"]
Frame(n) == <<[frame |-> n, part |-> "header"],
              [frame |-> n, part |-> "payload"]>>
Unit == [frame : 0 .. MaxFrames, part : {"response", "header", "payload"}]

ClientTypeOK ==
  /\ SocketTypeOK
  /\ sock \in Obj \cup {NoSock}
  /\ isOpen \in BOOLEAN
  /\ pc \in Steps
  /\ ret \in {"none", "text", "part", "nothing", "sent", "failed"}
  /\ fresh \in Obj \cup {NoSock}
  /\ wire \in Seq(Unit)
  /\ kinds \in Seq(Kinds)
  /\ connects \in 0 .. MaxConnects
  /\ lost \in 0 .. MaxFrames
  /\ garbled \in BOOLEAN
  /\ read \in 0 .. MaxFrames
  /\ got \in Seq(1 .. MaxFrames)
  /\ pongs \in 0 .. MaxFrames

-----------------------------------------------------------------------------
Goto(step) == pc' = step
Return(r) == pc' = "idle" /\ ret' = r

(* Whether the socket's own connection is at the other end of its number.  *)
Connected == obj[sock].state = "CONNECTED" /\ Holds(sock)

(* A send or a recv that returns less than zero.                           *)
TransferError ==
  \/ TransferFails(sock)
  \/ obj[sock].state # "CONNECTED" /\ UNCHANGED sockVars

(* A call through a null unique_ptr.                                       *)
Crash == pc' = "crashed" /\ UNCHANGED <<sockVars, clientVars, ret>>

-----------------------------------------------------------------------------
(* Closing clears isOpen.  Mutant: the flag stays set.                     *)
StaleFlag == isOpen
ClosedFlag == FALSE

(* reconnect closes first what is open.                                    *)
ReconnectBegin ==
  /\ pc = "idle"
  /\ Goto("parse")
  /\ ret' = "none"
  /\ IF isOpen
       THEN Close(sock) /\ isOpen' = ClosedFlag
       ELSE UNCHANGED <<sockVars, isOpen>>
  /\ UNCHANGED <<sock, fresh, peerVars, readVars, connects>>

(* Then it parses the address, which may fail, ...                         *)
ReconnectParse ==
  /\ pc = "parse"
  /\ Goto("make") \/ Goto("idle")
  /\ UNCHANGED <<sockVars, clientVars, peerVars, readVars, ret, connects>>

(* ... makes another socket, ...                                           *)
ReconnectMake ==
  /\ pc = "make"
  /\ \E o \in Obj :
       /\ \/ \E f \in FD : Construct(o, f)
          \/ ConstructNoDescriptor(o)
          \/ \E f \in FD \cup {NoFD} : ConstructNoNetwork(o, f)
       /\ fresh' = o
  /\ Goto("swap")
  /\ UNCHANGED <<sock, isOpen, peerVars, readVars, ret, connects>>

(* ... assigns it, which destroys the socket of before, ...                *)
ReconnectSwap ==
  /\ pc = "swap"
  /\ IF sock = NoSock THEN UNCHANGED sockVars ELSE Destroy(sock)
  /\ sock' = fresh
  /\ fresh' = NoSock
  /\ Goto("connect")
  /\ UNCHANGED <<isOpen, peerVars, readVars, ret, connects>>

(* ... and connects it.  The peer accepts, and answers the handshake when  *)
(* it pleases.                                                             *)
ReconnectConnect ==
  /\ pc = "connect"
  /\ connects < MaxConnects
  /\ ConnectSucceeds(sock)
  /\ connects' = connects + 1
  /\ wire' = <<>>
  /\ kinds' = <<>>
  /\ lost' = 0 /\ garbled' = FALSE /\ read' = 0 /\ got' = <<>> /\ pongs' = 0
  /\ Goto("upgrade")
  /\ UNCHANGED <<clientVars, ret>>

ReconnectRefused ==
  /\ pc = "connect"
  /\ ConnectTooLate(sock) \/ ConnectFails(sock)
  /\ Goto("drop")
  /\ UNCHANGED <<clientVars, peerVars, readVars, ret, connects>>

(* sock = nullptr destroys the socket.                                     *)
ReconnectDrop ==
  /\ pc = "drop"
  /\ Destroy(sock)
  /\ sock' = NoSock
  /\ Goto("idle")
  /\ UNCHANGED <<isOpen, fresh, peerVars, readVars, ret, connects>>

(* sendAll of the request, and recv until the end of the response's head.  *)
(* recv takes what is there: frames, and parts of frames, after the        *)
(* response are thrown away with it.                                       *)
UpgradeSent ==
  /\ pc = "upgrade"
  /\ Connected
  /\ Goto("handshake")
  /\ UNCHANGED <<sockVars, clientVars, peerVars, readVars, ret, connects>>

UpgradeError ==
  /\ pc \in {"upgrade", "handshake"}
  /\ TransferError
  /\ Goto("shut")
  /\ UNCHANGED <<clientVars, peerVars, readVars, ret, connects>>

Handshake ==
  /\ pc = "handshake"
  /\ Connected
  /\ \E n \in 1 .. Len(wire) :
       /\ wire' = SubSeq(wire, n + 1, Len(wire))
       /\ lost' = wire[n].frame
       /\ read' = wire[n].frame
       /\ garbled' = (n < Len(wire) /\ wire[n + 1].part = "payload")
  /\ isOpen' = TRUE
  /\ Goto("idle")
  /\ UNCHANGED <<sockVars, sock, fresh, kinds, got, pongs, ret, connects>>

(* close(), where a failed send or recv calls it.                          *)
Shut ==
  /\ pc = "shut"
  /\ isOpen' = ClosedFlag
  /\ Close(sock)
  /\ Goto("idle")
  /\ UNCHANGED <<sock, fresh, peerVars, readVars, ret, connects>>

-----------------------------------------------------------------------------
(* close() from the caller, and the destructor.  Neither looks whether     *)
(* there is a socket.                                                      *)
CallClose ==
  /\ pc = "idle"
  /\ IF sock = NoSock
       THEN Crash
       ELSE /\ Close(sock) /\ isOpen' = ClosedFlag /\ Return("none")
            /\ UNCHANGED <<sock, fresh>>
  /\ UNCHANGED <<peerVars, readVars, connects>>

Destructor ==
  /\ pc = "idle"
  /\ IF sock = NoSock
       THEN Crash
       ELSE /\ Close(sock) /\ isOpen' = ClosedFlag /\ pc' = "gone"
            /\ UNCHANGED <<sock, fresh, ret>>
  /\ UNCHANGED <<peerVars, readVars, connects>>

(* Then the member is destroyed.                                           *)
DestroyMember ==
  /\ pc = "gone"
  /\ sock # NoSock
  /\ Destroy(sock)
  /\ sock' = NoSock
  /\ UNCHANGED <<isOpen, fresh, peerVars, readVars, pc, ret, connects>>

(* send().                                                                 *)
Send ==
  /\ pc = "idle"
  /\ \/ ~isOpen /\ Return("failed") /\ UNCHANGED sockVars
     \/ isOpen /\ Connected /\ Return("sent") /\ UNCHANGED sockVars
     \/ isOpen /\ TransferError /\ Return("failed")
  /\ UNCHANGED <<clientVars, peerVars, readVars, connects>>

-----------------------------------------------------------------------------
(* receive() returns at once when the client is not open.                  *)
ReceiveBegin ==
  /\ pc = "idle"
  /\ IF isOpen THEN Goto("header") /\ ret' = "none" ELSE Return("nothing")
  /\ UNCHANGED <<sockVars, clientVars, peerVars, readVars, connects>>

(* recvAll of the header and of the size; while there is none the call     *)
(* stays in it.  A piece of a payload makes a header that means nothing.   *)
ReceiveHeader ==
  /\ pc = "header"
  /\ Connected
  /\ wire # <<>>
  /\ ~garbled
  /\ read' = Head(wire).frame
  /\ garbled' = (Head(wire).part # "header")
  /\ wire' = Tail(wire)
  /\ Goto("payload")
  /\ UNCHANGED <<sockVars, clientVars, kinds, lost, got, pongs, ret, connects>>

(* Mutant: a ping is taken for an opcode nobody knows.                     *)
PingUnknown(n) == IF kinds[n] = "ping" THEN "other" ELSE kinds[n]
Opcode(n) == kinds[n]

(* ntohs(x) is a disjunction without parentheses around it, so ntohl's and *)
(* ntohll's shifts take one half of it only: a 64-bit size comes out       *)
(* smaller than it is (65536 as 1), and a part of the payload stays unread.*)
(* The sizes of 2^24 and more that come out right fit no stack.            *)
Unread(n) == IF kinds[n] = "large" THEN wire ELSE Tail(wire)

(* recvAll of the payload, and the opcode.  Ping is answered and the next  *)
(* frame read; close is answered; what is neither text nor binary is       *)
(* dropped.                                                                *)
ReceivePayload ==
  /\ pc = "payload"
  /\ Connected
  /\ wire # <<>>
  /\ ~garbled
  /\ wire' = Unread(read)
  /\ \/ Opcode(read) = "text" /\ Return("text") /\ got' = Append(got, read)
     \/ Opcode(read) = "large" /\ Return("part") /\ UNCHANGED got
     \/ Opcode(read) = "ping" /\ Goto("pong") /\ UNCHANGED <<ret, got>>
     \/ Opcode(read) = "close" /\ Goto("echo") /\ UNCHANGED <<ret, got>>
     \/ Opcode(read) = "other" /\ Return("nothing") /\ UNCHANGED got
  /\ UNCHANGED <<sockVars, clientVars, kinds, lost, garbled, read, pongs,
                 connects>>

(* An error returns nothing, and the client stays open.                    *)
ReceiveError ==
  /\ pc \in {"header", "payload"}
  /\ TransferError
  /\ Return("nothing")
  /\ UNCHANGED <<clientVars, peerVars, readVars, connects>>

SendPong ==
  /\ pc = "pong"
  /\ Connected
  /\ pongs' = pongs + 1
  /\ Goto("header")
  /\ UNCHANGED <<sockVars, clientVars, peerVars, lost, garbled, read, got, ret,
                 connects>>

(* A pong or an echo that cannot be sent closes the client.                *)
AnswerError ==
  /\ pc \in {"pong", "echo"}
  /\ TransferError
  /\ Goto("shut")
  /\ ret' = "nothing"
  /\ UNCHANGED <<clientVars, peerVars, readVars, connects>>

(* The close frame answered: the socket is closed and then isOpen cleared. *)
(* Mutant: it is not.                                                      *)
EchoedStale == isOpen
EchoedFlag == ClosedFlag
SendEcho ==
  /\ pc = "echo"
  /\ Connected
  /\ Close(sock)
  /\ isOpen' = EchoedFlag
  /\ Return("nothing")
  /\ UNCHANGED <<sock, fresh, peerVars, readVars, connects>>

-----------------------------------------------------------------------------
(* The client's socket has a connection as far as it knows.                *)
Working == sock # NoSock /\ obj[sock].state = "CONNECTED"

(* The peer answers the request and then sends frames, none after close.   *)
PeerAnswers ==
  /\ Working
  /\ pc = "handshake"
  /\ wire = <<>> /\ kinds = <<>>
  /\ wire' = <<Response>>
  /\ UNCHANGED <<sockVars, clientVars, kinds, readVars, pc, ret, connects>>
PeerSends(k) ==
  /\ Working
  /\ wire # <<>> \/ isOpen
  /\ Len(kinds) < MaxFrames
  /\ "close" \notin ToSet(kinds)
  /\ kinds' = Append(kinds, k)
  /\ wire' = wire \o Frame(Len(kinds) + 1)
  /\ UNCHANGED <<sockVars, clientVars, readVars, pc, ret, connects>>

(* Other threads open and close descriptors of their own.                  *)
OtherThread ==
  /\ \E f \in FD : OtherOpens(f) \/ OtherCloses(f)
  /\ UNCHANGED <<clientVars, peerVars, readVars, pc, ret, connects>>

-----------------------------------------------------------------------------
ClientInit ==
  /\ SocketInit
  /\ sock = NoSock
  /\ isOpen = FALSE
  /\ pc = "parse"              \* the constructor calls reconnect
  /\ ret = "none"
  /\ fresh = NoSock
  /\ wire = <<>> /\ kinds = <<>> /\ connects = 0
  /\ lost = 0 /\ garbled = FALSE /\ read = 0 /\ got = <<>> /\ pongs = 0

ReconnectStep ==
  \/ ReconnectParse \/ ReconnectMake \/ ReconnectSwap
  \/ ReconnectConnect \/ ReconnectRefused \/ ReconnectDrop
  \/ UpgradeSent \/ UpgradeError \/ Handshake \/ Shut
ReceiveStep ==
  \/ ReceiveHeader \/ ReceivePayload \/ ReceiveError
  \/ SendPong \/ SendEcho \/ AnswerError
ClientStep == ReconnectStep \/ ReceiveStep \/ DestroyMember
Call == ReconnectBegin \/ ReceiveBegin \/ Send \/ CallClose \/ Destructor
Environment == PeerAnswers \/ (\E k \in Kinds : PeerSends(k)) \/ OtherThread

ClientNext == Call \/ ClientStep \/ Environment
ClientSpec == ClientInit /\ [][ClientNext]_wsVars

-----------------------------------------------------------------------------
(* An open client has a socket, so receive and send never go through null. *)
OpenHasSocket == isOpen => sock # NoSock /\ obj[sock].state # "DEAD"

(* On one connection the caller gets every text frame of less than 65536   *)
(* bytes the handshake did not throw away, whole, once and in the order    *)
(* they were sent.  The last one taken may be missing after an error, and  *)
(* then the connection is over.                                            *)
(* The client loses its place in the stream only when the handshake took a *)
(* part of a frame, or in the next header after a frame whose size it      *)
(* misread, and not by an error in the middle of one, though it stays open.*)
Delivered(upto) ==
  /\ ToSet(got) = {n \in lost + 1 .. upto : kinds[n] = "text"}
  /\ \A i, j \in 1 .. Len(got) : i < j => got[i] < got[j]
PlaceKept == garbled => lost > 0 \/ kinds[read] = "large"
DeliveredInOrder ==
  /\ PlaceKept
  /\ pc = "idle" /\ ~garbled =>
       \/ Delivered(read)
       \/ Delivered(read - 1) /\ ~Working

(* Every ping taken on a connection that still works was answered.         *)
Pings(upto) == {n \in lost + 1 .. upto : kinds[n] = "ping"}
PingsAnswered ==
  pc = "idle" /\ Working /\ ~garbled => pongs = Cardinality(Pings(read))

(* reconnect is there for services "where you need to reconnect": the      *)
(* socket it is about to connect has the descriptor it was made with.      *)
NewSocketHasDescriptor ==
  pc = "connect" /\ obj[sock].state = "INITIALIZED" /\ obj[sock].fd \in FD
    => Holds(sock)
=============================================================================

------------------------------ MODULE SSLSocket ------------------------------
(***************************************************************************)
(* TLS sockets (common/src/net/socket/SSLSocket.cpp) as makeSocket gives   *)
(* them to the clients, and by the default constructor, over the           *)
(* descriptor numbers of RawSocket.  Unlike RawSocket's, their close()     *)
(* forgets the number it gives back: mbedtls_net_free stores -1.           *)
(***************************************************************************)
EXTENDS RawSocket

CONSTANT Zero         \* descriptor 0, what an unset mbedtls_net_context holds
ASSUME ZeroAssumption == Zero \in FD

VARIABLE tls          \* per object: its SSL context, and that of ClientWithHttp

sslVars == <<sockVars, tls>>

(* The context of a socket: none yet, all zero, set up, set up in vain,    *)
(* or freed.                                                               *)
TlsState == {"none", "zero", "ready", "unset", "freed"}

SslTypeOK ==
  /\ obj \in [Obj -> [state : SocketState \cup {"UNINITIALIZED"},
                      fd : FD \cup {NoFD}]]
  /\ owner \in [FD -> Obj \cup {Free, Other}]
  /\ robbed \subseteq Obj
  /\ theft \subseteq SocketState \cup {"UNINITIALIZED"}
  /\ tls \in [Obj -> TlsState]

SslInit == SocketInit /\ tls = [o \in Obj |-> "none"]

-----------------------------------------------------------------------------
(* close(): the number is given back and forgotten, the context freed.     *)
(* Mutant: the number is kept, as RawSocket does.                          *)
SslCloseToKeeps(o, s) ==
  /\ CloseTo(o, s)
  /\ tls' = [tls EXCEPT ![o] = "freed"]
SslCloseTo(o, s) ==
  /\ obj' = [obj EXCEPT ![o] = [state |-> s, fd |-> NoFD]]
  /\ owner' = Released(owner, obj[o].fd)
  /\ robbed' = robbed \cup Victims(owner, o, obj[o].fd)
  /\ theft' = Theft(owner, o, obj[o].fd)
  /\ tls' = [tls EXCEPT ![o] = "freed"]

(* The constructor makeSocket uses: initCommon is not called, and whether  *)
(* init() or initSSL() failed is not looked at.                            *)
SslMake(o, t) ==
  /\ obj[o].state = "DEAD"
  /\ obj' = Constructed(o, "INITIALIZED", NoFD)
  /\ tls' = [tls EXCEPT ![o] = t]
  /\ UNCHANGED <<owner, robbed, theft>>

(* The default constructor when the network does not start: close() runs   *)
(* before init() has, on a context that is all zero.                       *)
SslUnstarted(o) ==
  /\ obj[o].state = "DEAD"
  /\ obj' = Constructed(o, "ERRORED", NoFD)
  /\ owner' = Released(owner, Zero)
  /\ robbed' = robbed \cup Victims(owner, o, Zero)
  /\ theft' = IF owner[Zero] \notin {o, Free}
                THEN theft \cup {"UNINITIALIZED"} ELSE theft
  /\ tls' = [tls EXCEPT ![o] = "freed"]

(* connect(): the number comes from mbedtls_net_connect, and the handshake *)
(* needs a context that is set up.                                         *)
SslConnect(o, f) ==
  /\ obj[o] = [state |-> "INITIALIZED", fd |-> NoFD]
  /\ owner[f] = Free
  /\ obj' = [obj EXCEPT ![o] = [state |-> "INITIALIZED", fd |-> f]]
  /\ owner' = [owner EXCEPT ![f] = o]
  /\ UNCHANGED <<robbed, theft, tls>>
SslHandshake(o) ==
  /\ obj[o].state = "INITIALIZED"
  /\ Holds(o)
  /\ tls[o] = "ready"
  /\ obj' = [obj EXCEPT ![o].state = "CONNECTED"]
  /\ UNCHANGED <<owner, robbed, theft, tls>>
SslConnectFails(o) ==
  /\ obj[o].state # "DEAD"
  /\ SslCloseTo(o, "ERRORED")

(* send() and recv(): an error that is not "try again" closes the socket.  *)
SslTransferFails(o) ==
  /\ obj[o].state = "CONNECTED"
  /\ SslCloseTo(o, "ERRORED")

SslClose(o) ==
  /\ obj[o].state # "DEAD"
  /\ SslCloseTo(o, "CLOSED")

(* The destructor is close() and then the storage is free.                 *)
SslDestroy(o) ==
  /\ obj[o].state # "DEAD"
  /\ obj' = Constructed(o, "DEAD", NoFD)
  /\ owner' = Released(owner, obj[o].fd)
  /\ robbed' = (robbed \cup Victims(owner, o, obj[o].fd)) \ {o}
  /\ theft' = Theft(owner, o, obj[o].fd)
  /\ tls' = [tls EXCEPT ![o] = "none"]

SslNext ==
  \/ \E o \in Obj :
       \/ \E t \in {"ready", "unset"} : SslMake(o, t)
       \/ SslUnstarted(o)
       \/ \E f \in FD : SslConnect(o, f)
       \/ SslHandshake(o) \/ SslConnectFails(o) \/ SslTransferFails(o)
       \/ SslClose(o) \/ SslDestroy(o)
  \/ (\E f \in FD : OtherOpens(f) \/ OtherCloses(f)) /\ UNCHANGED tls

SslSpec == SslInit /\ [][SslNext]_sslVars

-----------------------------------------------------------------------------
(* However often close() runs, a TLS socket that was not robbed takes      *)
(* another connection's descriptor only in a constructor that finds no     *)
(* network, and when it is connected it has its own number and a context   *)
(* that was set up.                                                        *)
SslTakesOnlyUnstarted ==
  /\ theft \subseteq {"UNINITIALIZED"}
  /\ \A o \in Obj \ robbed :
       obj[o].state = "CONNECTED" => Holds(o) /\ tls[o] = "ready"
=============================================================================

------------------------------ MODULE RawSocket ------------------------------
(***************************************************************************)
(* The plain TCP socket of the mods, common/src/net/socket/RawSocket.cpp,  *)
(* over the descriptors of the operating system.  A socket object keeps a  *)
(* state and a descriptor number; close() gives the number back but keeps  *)
(* it, and the destructor calls close() once more.  Descriptor numbers are *)
(* shared with every other connection of the process.                      *)
(***************************************************************************)
EXTENDS FiniteSets, Naturals

CONSTANTS
  Obj,      \* storage for RawSocket objects
  FD,       \* descriptor numbers
  NoFD,     \* -1
  Free,     \* owner of a number not in use
  Other     \* owner of a number used by another part of the process

ASSUME SocketAssumption ==
  /\ NoFD \notin FD
  /\ Free \notin Obj
  /\ Other \notin Obj \cup {Free}

VARIABLES
  obj,      \* for each storage, the object's SocketState and descriptor
  owner,    \* who opened each descriptor number last, or Free
  robbed,   \* history: live objects whose number another object closed
  theft     \* history: the states in which objects, not robbed themselves,
            \* closed a number that belonged to another

sockVars == <<obj, owner, robbed, theft>>

(* SocketState, with "DEAD" for storage that holds no object.              *)
SocketState == {"DEAD", "INITIALIZED", "CONNECTED", "ERRORED", "CLOSED"}

SocketTypeOK ==
  /\ obj \in [Obj -> [state : SocketState, fd : FD \cup {NoFD}]]
  /\ owner \in [FD -> Obj \cup {Free, Other}]
  /\ robbed \subseteq Obj
  /\ theft \subseteq SocketState

SocketInit ==
  /\ obj = [o \in Obj |-> [state |-> "DEAD", fd |-> NoFD]]
  /\ owner \in [FD -> {Free, Other}]
  /\ robbed = {} /\ theft = {}

-----------------------------------------------------------------------------
(* nn::socket::Close on the number object o keeps, whoever has it now.     *)
Released(own, f) == IF f \in FD THEN [own EXCEPT ![f] = Free] ELSE own
Victims(own, o, f) == IF f \in FD THEN ({own[f]} \cap Obj) \ {o} ELSE {}
Theft(own, o, f) ==
  IF f \in FD /\ own[f] \notin {o, Free} /\ o \notin robbed
    THEN theft \cup {obj[o].state} ELSE theft

(* close() and then the state it is given.                                 *)
CloseTo(o, s) ==
  /\ obj' = [obj EXCEPT ![o].state = s]
  /\ owner' = Released(owner, obj[o].fd)
  /\ robbed' = robbed \cup Victims(owner, o, obj[o].fd)
  /\ theft' = Theft(owner, o, obj[o].fd)

(* The constructor.  initCommon may fail, and the descriptor is then never *)
(* written: it is whatever the storage held.  Socket() may fail, and then  *)
(* ERRORED is overwritten by the INITIALIZED of the line below.  Mutant:   *)
(* so it is when initCommon fails.                                         *)
Constructed(o, s, f) == [obj EXCEPT ![o] = [state |-> s, fd |-> f]]
ConstructGoesOn(o, f) ==
  /\ obj[o].state = "DEAD"
  /\ obj' = Constructed(o, "INITIALIZED", f)
  /\ UNCHANGED <<owner, robbed, theft>>
ConstructNoNetwork(o, f) ==
  /\ obj[o].state = "DEAD"
  /\ obj' = Constructed(o, "ERRORED", f)
  /\ UNCHANGED <<owner, robbed, theft>>
ConstructNoDescriptor(o) ==
  /\ obj[o].state = "DEAD"
  /\ obj' = Constructed(o, "INITIALIZED", NoFD)
  /\ UNCHANGED <<owner, robbed, theft>>
Construct(o, f) ==
  /\ obj[o].state = "DEAD"
  /\ owner[f] = Free
  /\ obj' = Constructed(o, "INITIALIZED", f)
  /\ owner' = [owner EXCEPT ![f] = o]
  /\ UNCHANGED <<robbed, theft>>

(* connect().  Only a descriptor that is open and the object's own can     *)
(* succeed; the network may refuse it as well.                             *)
ConnectTooLate(o) ==
  /\ obj[o].state \notin {"DEAD", "INITIALIZED"}
  /\ CloseTo(o, "ERRORED")
ConnectFails(o) ==
  /\ obj[o].state = "INITIALIZED"
  /\ CloseTo(o, "ERRORED")
Holds(o) == obj[o].fd \in FD /\ owner[obj[o].fd] = o
ConnectSucceeds(o) ==
  /\ obj[o].state = "INITIALIZED"
  /\ Holds(o)
  /\ obj' = [obj EXCEPT ![o].state = "CONNECTED"]
  /\ UNCHANGED <<owner, robbed, theft>>

(* send() or recv() that gets an error from the system: close().  In any   *)
(* other state than CONNECTED they return -1 and change nothing.  Mutant:  *)
(* the socket is left as it is.                                            *)
TransferFailsNoClose(o) ==
  /\ obj[o].state = "CONNECTED"
  /\ UNCHANGED sockVars
TransferFails(o) ==
  /\ obj[o].state = "CONNECTED"
  /\ CloseTo(o, "CLOSED")

(* close(), in whatever state the socket is.                               *)
Close(o) ==
  /\ obj[o].state # "DEAD"
  /\ CloseTo(o, "CLOSED")

(* The destructor.  What it leaves in the storage is the number found by a *)
(* constructor that does not write it, whichever it is.                    *)
Destroy(o) ==
  /\ obj[o].state # "DEAD"
  /\ obj' = Constructed(o, "DEAD", NoFD)
  /\ owner' = Released(owner, obj[o].fd)
  /\ robbed' = (robbed \cup Victims(owner, o, obj[o].fd)) \ {o}
  /\ theft' = Theft(owner, o, obj[o].fd)

(* The rest of the process opens and closes descriptors of its own.        *)
OtherOpens(f) ==
  /\ owner[f] = Free
  /\ owner' = [owner EXCEPT ![f] = Other]
  /\ UNCHANGED <<obj, robbed, theft>>
OtherCloses(f) ==
  /\ owner[f] = Other
  /\ owner' = [owner EXCEPT ![f] = Free]
  /\ UNCHANGED <<obj, robbed, theft>>

-----------------------------------------------------------------------------
SocketNext ==
  \/ \E o \in Obj :
       \/ \E f \in FD \cup {NoFD} : ConstructNoNetwork(o, f)
       \/ ConstructNoDescriptor(o)
       \/ \E f \in FD : Construct(o, f)
       \/ ConnectTooLate(o) \/ ConnectFails(o) \/ ConnectSucceeds(o)
       \/ TransferFails(o) \/ Close(o) \/ Destroy(o)
  \/ \E f \in FD : OtherOpens(f) \/ OtherCloses(f)

SocketSpec == SocketInit /\ [][SocketNext]_sockVars

-----------------------------------------------------------------------------
(* No close() of a working object, in a call, after an error or in the     *)
(* destructor, closes a number of another, however many objects were       *)
(* robbed before.  Those that do are objects that are CLOSED or ERRORED    *)
(* already -- a second close(), or the first after a constructor that      *)
(* found no network -- and objects that were robbed themselves, whose      *)
(* number has a new owner.                                                 *)
WorkingTakesNothing == theft \subseteq {"CLOSED", "ERRORED"}

(* A connected object that was not robbed has its own descriptor, so what  *)
(* it sends and receives goes to the peer it connected to.                 *)
ConnectedHoldsItsDescriptor ==
  \A o \in Obj \ robbed : obj[o].state = "CONNECTED" => Holds(o)

(* Two working objects never use one number, unless one was robbed.        *)
DescriptorsNotShared ==
  \A o, p \in Obj \ robbed :
    /\ {obj[o].state, obj[p].state} \subseteq {"INITIALIZED", "CONNECTED"}
    /\ obj[o].fd = obj[p].fd
    /\ obj[o].fd # NoFD
    => o = p

(* No descriptor outlives the object that opened it.                       *)
NoDescriptorLeak ==
  \A f \in FD : owner[f] \in Obj => obj[owner[f]].state # "DEAD"

(* A socket that has been closed or has failed is never used again: it     *)
(* does not come back to INITIALIZED or CONNECTED.                         *)
NoRevival ==
  [][\A o \in Obj :
       obj[o].state \in {"CLOSED", "ERRORED"} =>
         obj'[o].state \in {"CLOSED", "ERRORED", "DEAD"}]_sockVars
=============================================================================

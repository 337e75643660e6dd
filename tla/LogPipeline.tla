---------------------------- MODULE LogPipeline ----------------------------
(***************************************************************************)
(* Logger::log and the listeners MainInitHook adds (common/src/logger,     *)
(* common/src/main.cpp): the debugger, the log file and the websocket.     *)
(* A listener that fails logs that, so calls of log nest; any thread of    *)
(* the program is in here at any time and nothing is locked.               *)
(***************************************************************************)
EXTENDS Naturals, Sequences

CONSTANTS
  Logging,    \* threads that log
  MaxDepth    \* bound: nesting at which the stack overflows

ASSUME LogAssumption == MaxDepth \in Nat \ {0, 1}

VARIABLES
  listeners,            \* 0: none yet; 1: debugger; 2: and file; 3: and websocket
  stack,                \* per thread, for each nested log, what it is doing
  disableFileLogger,
  fileOpen,             \* the thread that has mod.log open, or "none"
  wsOpen,               \* of the log websocket
  sockConnected,        \* of its socket
  linkUp,               \* its connection works
  raced                 \* history: the guard was cleared under another thread

logVars == <<listeners, stack, disableFileLogger, fileOpen, wsOpen,
             sockConnected, linkUp, raced>>

Places == {"file", "opening", "write", "reporting", "ws", "failing", "refused"}

LogTypeOK ==
  /\ listeners \in 0..3
  /\ \A t \in Logging : stack[t] \in Seq(Places) /\ Len(stack[t]) <= MaxDepth
  /\ fileOpen \in Logging \cup {"none"}
  /\ {disableFileLogger, wsOpen, sockConnected, linkUp, raced} \subseteq BOOLEAN

LogInit ==
  /\ listeners = 0
  /\ stack = [t \in Logging |-> <<>>]
  /\ disableFileLogger = FALSE /\ fileOpen = "none"
  /\ wsOpen = FALSE /\ sockConnected = FALSE /\ linkUp = FALSE
  /\ raced = FALSE

In(t, place) == stack[t] # <<>> /\ stack[t][Len(stack[t])] = place
Replaced(t, place) == [stack EXCEPT ![t][Len(stack[t])] = place]
Returned(t) == [stack EXCEPT ![t] = SubSeq(@, 1, Len(@) - 1)]
(* The listener at "place" calls log: the debugger has the line at once.   *)
Nested(t, place) == [stack EXCEPT ![t] = Append(Replaced(t, place)[t], "file")]
MayNest(t) == Len(stack[t]) < MaxDepth
LogState == <<disableFileLogger, fileOpen>>
WsState == <<wsOpen, sockConnected, linkUp>>

-----------------------------------------------------------------------------
(* MainInitHook: the listeners are added in this order, and the last only  *)
(* when the websocket could be opened.                                     *)
AddListener ==
  /\ listeners < 3
  /\ listeners' = listeners + 1
  /\ IF listeners' = 3
       THEN wsOpen' = TRUE /\ sockConnected' = TRUE /\ linkUp' = TRUE
       ELSE UNCHANGED WsState
  /\ UNCHANGED <<stack, disableFileLogger, fileOpen, raced>>

Log(t) ==
  /\ stack[t] = <<>>
  /\ listeners >= 1
  /\ stack' = [stack EXCEPT ![t] = <<"file">>]
  /\ UNCHANGED <<listeners, disableFileLogger, fileOpen, WsState, raced>>

(* The file listener.  It does nothing while another call reports that     *)
(* the file would not open.  Mutant: it always tries.                      *)
NeverDisabled == FALSE
Disabled == disableFileLogger
FileSkips(t) ==
  /\ In(t, "file")
  /\ listeners < 2 \/ Disabled
  /\ stack' = Replaced(t, "ws")
  /\ UNCHANGED <<listeners, disableFileLogger, fileOpen, WsState, raced>>
(* Between the look at the guard and its setting is OpenFile, and any      *)
(* number of threads.                                                      *)
FileTries(t) ==
  /\ In(t, "file") /\ listeners >= 2 /\ ~Disabled
  /\ stack' = Replaced(t, "opening")
  /\ UNCHANGED <<listeners, LogState, WsState, raced>>
FileOpens(t) ==
  /\ In(t, "opening")
  /\ fileOpen = "none"
  /\ fileOpen' = t
  /\ stack' = Replaced(t, "write")
  /\ UNCHANGED <<listeners, disableFileLogger, WsState, raced>>
FileOpenFails(t) ==
  /\ In(t, "opening")
  /\ MayNest(t)
  /\ disableFileLogger' = TRUE
  /\ stack' = Nested(t, "reporting")
  /\ UNCHANGED <<listeners, fileOpen, WsState, raced>>
GuardAfter == FALSE
FileReported(t) ==
  /\ In(t, "reporting")
  /\ disableFileLogger' = GuardAfter
  /\ raced' = (raced \/ \E u \in Logging \ {t} :
                 \E i \in DOMAIN stack[u] : stack[u][i] = "reporting")
  /\ stack' = Replaced(t, "ws")
  /\ UNCHANGED <<listeners, fileOpen, WsState>>
FileWrites(t) ==
  /\ In(t, "write")
  /\ fileOpen' = "none"
  /\ stack' = Replaced(t, "ws")
  /\ UNCHANGED <<listeners, disableFileLogger, WsState, raced>>

(* The websocket listener: WebsocketClient::send and RawSocket::send.  A   *)
(* socket that is not connected, and an error, are logged; the socket is   *)
(* closed after that, and wsOpen stays.                                    *)
WsSends(t) ==
  /\ In(t, "ws")
  /\ listeners < 3 \/ ~wsOpen \/ (sockConnected /\ linkUp)
  /\ stack' = Returned(t)
  /\ UNCHANGED <<listeners, LogState, WsState, raced>>
WsFails(t) ==
  /\ In(t, "ws") /\ listeners = 3 /\ wsOpen
  /\ MayNest(t)
  /\ \/ ~sockConnected /\ stack' = Nested(t, "refused")
     \/ sockConnected /\ ~linkUp /\ stack' = Nested(t, "failing")
  /\ UNCHANGED <<listeners, LogState, WsState, raced>>
WsReported(t) ==
  /\ In(t, "refused") \/ In(t, "failing")
  /\ sockConnected' = (sockConnected /\ In(t, "refused"))
  /\ stack' = Returned(t)
  /\ UNCHANGED <<listeners, LogState, wsOpen, linkUp, raced>>

LogStep(t) ==
  \/ FileSkips(t) \/ FileTries(t) \/ FileOpens(t) \/ FileOpenFails(t)
  \/ FileReported(t) \/ FileWrites(t) \/ WsSends(t) \/ WsFails(t) \/ WsReported(t)

(* handleWs: receive answers pings and a close frame, every 3 seconds; an  *)
(* error closes the socket.  The connection may be lost at any time.       *)
HandleWsCloseFrame ==
  /\ wsOpen /\ sockConnected /\ linkUp
  /\ wsOpen' = FALSE
  /\ UNCHANGED <<listeners, stack, LogState, sockConnected, linkUp, raced>>
HandleWsError ==
  /\ wsOpen /\ sockConnected /\ ~linkUp
  /\ sockConnected' = FALSE
  /\ UNCHANGED <<listeners, stack, LogState, wsOpen, linkUp, raced>>
LogServerLost ==
  /\ linkUp
  /\ linkUp' = FALSE
  /\ UNCHANGED <<listeners, stack, LogState, wsOpen, sockConnected, raced>>

LogNext ==
  \/ AddListener
  \/ \E t \in Logging : Log(t) \/ LogStep(t)
  \/ HandleWsCloseFrame \/ HandleWsError \/ LogServerLost

LogSpec == LogInit /\ [][LogNext]_logVars

-----------------------------------------------------------------------------
(* main.cpp:48, "avoid recursion": log nests more than once only when the  *)
(* connection of the log websocket is lost while it counts as open (then   *)
(* without end, for the failure is logged to the same websocket), or two   *)
(* threads fail to open the file at once and share the guard.              *)
RecursionNeedsCause ==
  \A t \in Logging : Len(stack[t]) > 2 => raced \/ (listeners = 3 /\ ~linkUp)
=============================================================================

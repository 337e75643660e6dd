---------------------------- MODULE NetworkProofs ----------------------------
(***************************************************************************)
(* Theorems about the parts of the common network and log code that        *)
(* MCNetwork checks one at a time: NetworkStart, LogPipeline, TwitchClient,*)
(* HttpClient and SSLSocket.                                               *)
(***************************************************************************)
EXTENDS MCNetwork, TLAPS, SequenceTheorems

-----------------------------------------------------------------------------
(* NetworkStart: what initCommon tells its callers, for any number of      *)
(* threads.                                                                *)

(* As long as nobody asked while another was at it, at most one thread is  *)
(* bringing the network up; before the first has come that far nobody      *)
(* knows a result; and the result stored is true whenever nobody is at it. *)
OneStarter == \A t, u \in Caller : Starting(t) /\ Starting(u) => t = u
NobodyKnows == \A t \in Caller : netRet[t] = "none" /\ netPc[t] # "return"
Fresh == NobodyKnows /\ initResult = "success" /\ ~up
Stored == initResult = "success" <=> up
InTurn ==
  /\ OneStarter
  /\ \A t \in Caller :
       /\ Starting(t) => Fresh
       /\ netPc[t] = "claim" => ~didInit
       /\ netPc[t] \in {"nifm", "request", "pool"} => didInit
  /\ ~didInit => Fresh
  /\ didInit /\ (\A t \in Caller : ~Starting(t)) => Stored
  /\ ResultIsTrue
StartInv == NetTypeOK /\ (~overlapped => InTurn)

-----------------------------------------------------------------------------
LEMMA StartInvInit == NetInit => StartInv
BY DEF NetInit, StartInv, InTurn, Fresh, NetTypeOK, OneStarter, NobodyKnows,
       Starting, Stored, ResultIsTrue, NetResult, NetSteps

LEMMA TypeStep ==
  ASSUME NetTypeOK, [NetNext]_netVars
  PROVE  NetTypeOK'
<1>1. CASE UNCHANGED netVars
  BY <1>1 DEF netVars, NetTypeOK
<1>2. ASSUME NEW t \in Caller, InitCommon(t) PROVE NetTypeOK'
  BY <1>2 DEF InitCommon, NetGoto, NetTypeOK, NetResult, NetSteps
<1>3. ASSUME NEW t \in Caller, Claim(t) \/ NifmInitialize(t) \/
               NetworkAvailable(t) \/ SocketPool(t)
      PROVE  NetTypeOK'
  BY <1>3 DEF Claim, NifmInitialize, NetworkAvailable, SocketPool, NetGoto,
              NetTypeOK, NetResult, NetSteps
<1>4. ASSUME NEW t \in Caller, InitReturn(t) PROVE NetTypeOK'
  BY <1>4 DEF InitReturn, NetGoto, NetTypeOK, NetResult, NetSteps
<1>5. ASSUME NEW t \in Caller, NEW from \in {"nifm", "request", "pool"},
             FailStep(t, from)
      PROVE  NetTypeOK'
  BY <1>5 DEF FailStep, NetGoto, NetTypeOK, NetResult, NetSteps
<1> QED BY <1>1, <1>2, <1>3, <1>4, <1>5 DEF NetNext

(* A call that comes while another is at it leaves the turn; else the      *)
(* caller is the only one in the function that may start.                  *)
LEMMA InitCallStep ==
  ASSUME StartInv, NEW t \in Caller, InitCommon(t), ~overlapped'
  PROVE  InTurn'
<1>1. ~overlapped /\ InTurn /\ NetTypeOK /\ \A u \in Caller : ~Starting(u)
  BY DEF InitCommon, StartInv, NetTypeOK
<1>2. CASE didInit
  <2>1. Stored BY <1>1, <1>2 DEF InTurn
  <2>2. \A u \in Caller : ~Starting(u)'
    BY <1>1, <1>2 DEF InitCommon, NetGoto, Starting, NetTypeOK
  <2>3. ResultIsTrue'
    BY <1>1 DEF InitCommon, InTurn, ResultIsTrue, NetTypeOK
  <2>4. didInit' /\ Stored'
    BY <1>2, <2>1 DEF InitCommon, Stored
  <2> QED BY <2>2, <2>3, <2>4 DEF InTurn, OneStarter, Starting
<1>3. CASE ~didInit
  <2>1. Fresh BY <1>1, <1>3 DEF InTurn
  <2>2. Fresh'
    BY <1>1, <1>3, <2>1
    DEF InitCommon, NetGoto, Fresh, NobodyKnows, NetTypeOK
  <2>3. OneStarter'
    BY <1>1, <1>3 DEF InitCommon, NetGoto, OneStarter, Starting, NetTypeOK
  <2>4. ~didInit' BY <1>3 DEF InitCommon
  <2>5. \A u \in Caller : netPc'[u] \notin {"nifm", "request", "pool"}
    BY <1>1, <1>3 DEF InitCommon, NetGoto, Starting, NetTypeOK
  <2>6. ResultIsTrue' BY <2>2 DEF Fresh, NobodyKnows, ResultIsTrue
  <2> QED BY <2>2, <2>3, <2>4, <2>5, <2>6 DEF InTurn
<1> QED BY <1>2, <1>3

(* The thread that brings the network up moves on and stays the only one.  *)
LEMMA ProgressStep ==
  ASSUME StartInv, ~overlapped, NEW t \in Caller,
         Claim(t) \/ NifmInitialize(t) \/ NetworkAvailable(t)
  PROVE  InTurn'
<1> USE DEF Claim, NifmInitialize, NetworkAvailable, NetGoto
<1>1. InTurn /\ NetTypeOK /\ Starting(t) /\ Fresh /\ Starting(t)'
  BY DEF StartInv, InTurn, Starting, NetTypeOK
<1>2. Fresh' BY <1>1 DEF Fresh, NobodyKnows, NetTypeOK
<1>3. \A u \in Caller : u # t => ~Starting(u) /\ ~Starting(u)'
  BY <1>1 DEF InTurn, OneStarter, Starting, NetTypeOK
<1>4. OneStarter' BY <1>3 DEF OneStarter
<1>5. didInit' /\ netPc'[t] # "claim"
  BY <1>1 DEF InTurn, NetTypeOK
<1>6. ResultIsTrue' BY <1>2 DEF Fresh, NobodyKnows, ResultIsTrue
<1> QED BY <1>1, <1>2, <1>3, <1>4, <1>5, <1>6 DEF InTurn, Starting

(* It leaves with the network up, or with the error stored.                *)
LEMMA OutcomeStep ==
  ASSUME StartInv, ~overlapped, NEW t \in Caller,
         \/ SocketPool(t)
         \/ \E from \in {"nifm", "request", "pool"} : FailStep(t, from)
  PROVE  InTurn'
<1> USE DEF SocketPool, FailStep, NetGoto
<1>1. InTurn /\ NetTypeOK /\ Starting(t) /\ Fresh /\ didInit
  BY DEF StartInv, InTurn, Starting, NetTypeOK
<1>2. \A u \in Caller : ~Starting(u)'
  BY <1>1 DEF InTurn, OneStarter, Starting, NetTypeOK
<1>3. didInit' /\ Stored'
  <2>1. CASE SocketPool(t) BY <1>1, <2>1 DEF Stored, Fresh
  <2>2. CASE \E from \in {"nifm", "request", "pool"} : FailStep(t, from)
    BY <1>1, <2>2 DEF Stored, Fresh
  <2> QED BY <2>1, <2>2
<1>4. \A u \in Caller : netRet'[u] = "none"
  BY <1>1 DEF Fresh, NobodyKnows
<1>5. ResultIsTrue' BY <1>4 DEF ResultIsTrue
<1> QED BY <1>2, <1>3, <1>5 DEF InTurn, OneStarter, Starting

(* A call that returns hands out the stored result when nobody is at it.   *)
LEMMA ReturnStep ==
  ASSUME StartInv, ~overlapped, NEW t \in Caller, InitReturn(t)
  PROVE  InTurn'
<1> USE DEF InitReturn, NetGoto
<1>1. InTurn /\ NetTypeOK BY DEF StartInv
<1>2. ~Fresh BY DEF Fresh, NobodyKnows
<1>3. didInit /\ (\A u \in Caller : ~Starting(u)) /\ Stored
  BY <1>1, <1>2 DEF InTurn
<1>4. \A u \in Caller : ~Starting(u)'
  BY <1>1, <1>3 DEF Starting, NetTypeOK
<1>5. didInit' /\ Stored' BY <1>3 DEF Stored
<1>6. ResultIsTrue'
  BY <1>1, <1>3 DEF InTurn, ResultIsTrue, Stored, NetTypeOK, NetResult
<1> QED BY <1>4, <1>5, <1>6 DEF InTurn, OneStarter, Starting

LEMMA StartInvStep ==
  ASSUME StartInv, [NetNext]_netVars
  PROVE  StartInv'
<1>1. NetTypeOK' BY TypeStep DEF StartInv
<1>2. ASSUME ~overlapped' PROVE InTurn'
  <2>1. CASE UNCHANGED netVars
    BY <1>2, <2>1
    DEF StartInv, netVars, InTurn, OneStarter, Fresh, NobodyKnows, Starting,
        Stored, ResultIsTrue
  <2>2. ASSUME NEW t \in Caller, InitCommon(t) PROVE InTurn'
    BY <1>2, <2>2, InitCallStep
  <2>3. ASSUME NEW t \in Caller,
               Claim(t) \/ NifmInitialize(t) \/ NetworkAvailable(t)
        PROVE  InTurn'
    <3>1. ~overlapped
      BY <1>2, <2>3 DEF Claim, NifmInitialize, NetworkAvailable
    <3> QED BY <2>3, <3>1, ProgressStep
  <2>4. ASSUME NEW t \in Caller,
               \/ SocketPool(t)
               \/ \E from \in {"nifm", "request", "pool"} : FailStep(t, from)
        PROVE  InTurn'
    <3>1. ~overlapped BY <1>2, <2>4 DEF SocketPool, FailStep
    <3> QED BY <2>4, <3>1, OutcomeStep
  <2>5. ASSUME NEW t \in Caller, InitReturn(t) PROVE InTurn'
    <3>1. ~overlapped BY <1>2, <2>5 DEF InitReturn
    <3> QED BY <2>5, <3>1, ReturnStep
  <2> QED BY <2>1, <2>2, <2>3, <2>4, <2>5 DEF NetNext
<1> QED BY <1>1, <1>2 DEF StartInv

-----------------------------------------------------------------------------
(* A caller that initCommon tells of success has the network, and one that *)
(* it tells of failure has none, for any number of threads, unless one     *)
(* asked while another was bringing the network up.                        *)
THEOREM ResultTold == NetSpec => []ResultIsTrue
<1>1. StartInv => ResultIsTrue BY DEF StartInv, InTurn, ResultIsTrue
<1> QED BY <1>1, StartInvInit, StartInvStep, PTL DEF NetSpec

-----------------------------------------------------------------------------
(* LogPipeline.  Until the log websocket fails, no call of log is about an *)
(* error of it; ...                                                        *)
LinkGood == listeners < 3 \/ linkUp
NoWsError ==
  LinkGood =>
    /\ listeners = 3 => sockConnected
    /\ \A t \in Logging : \A i \in 1 .. Len(stack[t]) :
         stack[t][i] \notin {"failing", "refused"}

(* ... until two threads shared the guard it is set while any of them      *)
(* reports that the file would not open, and what the report logs stays    *)
(* away from the file; ...                                                 *)
GuardHolds ==
  ~raced =>
    \A t \in Logging : \A i \in 1 .. Len(stack[t]) :
      stack[t][i] = "reporting" =>
        /\ disableFileLogger
        /\ \A j \in i + 1 .. Len(stack[t]) :
             stack[t][j] \notin {"opening", "write", "reporting"}

(* ... so log nests only in that report.                                   *)
NestsInReport ==
  ~raced /\ LinkGood =>
    \A t \in Logging :
      Len(stack[t]) <= 2 /\ (Len(stack[t]) = 2 => stack[t][1] = "reporting")

StackTypes == stack \in [Logging -> Seq(Places)] /\ listeners \in 0 .. 3
LogIInv == StackTypes /\ NoWsError /\ GuardHolds /\ NestsInReport

(* What the three operations on the stack do to it.                        *)
LEMMA StackReplaced ==
  ASSUME StackTypes, NEW t \in Logging, stack[t] # <<>>, NEW place \in Places,
         stack' = Replaced(t, place)
  PROVE  /\ stack' \in [Logging -> Seq(Places)]
         /\ \A u \in Logging \ {t} : stack'[u] = stack[u]
         /\ Len(stack[t]) \in Nat \ {0} /\ Len(stack'[t]) = Len(stack[t])
         /\ stack'[t][Len(stack[t])] = place
         /\ \A i \in 1 .. Len(stack[t]) - 1 : stack'[t][i] = stack[t][i]
<1> DEFINE s == stack[t]
           r == [s EXCEPT ![Len(s)] = place]
<1>1. s \in Seq(Places) /\ Len(s) \in Nat /\ Len(s) # 0
  BY DEF StackTypes
<1>2. /\ r \in Seq(Places) /\ Len(r) = Len(s) /\ r[Len(s)] = place
      /\ \A i \in 1 .. Len(s) - 1 : r[i] = s[i]
  BY <1>1
<1>3. stack' = [stack EXCEPT ![t] = r]
  BY DEF Replaced, StackTypes
<1> HIDE DEF r
<1>4. stack'[t] = r /\ \A u \in Logging \ {t} : stack'[u] = stack[u]
  BY <1>3 DEF StackTypes
<1>5. stack' \in [Logging -> Seq(Places)]
  BY <1>2, <1>3 DEF StackTypes
<1> QED BY <1>1, <1>2, <1>4, <1>5

LEMMA StackNested ==
  ASSUME StackTypes, NEW t \in Logging, stack[t] # <<>>, NEW place \in Places,
         stack' = Nested(t, place)
  PROVE  /\ stack' \in [Logging -> Seq(Places)]
         /\ \A u \in Logging \ {t} : stack'[u] = stack[u]
         /\ Len(stack[t]) \in Nat \ {0} /\ Len(stack'[t]) = Len(stack[t]) + 1
         /\ stack'[t][Len(stack[t])] = place
         /\ stack'[t][Len(stack[t]) + 1] = "file"
         /\ \A i \in 1 .. Len(stack[t]) - 1 : stack'[t][i] = stack[t][i]
<1> DEFINE s == stack[t]
           r == [s EXCEPT ![Len(s)] = place]
           n == Append(r, "file")
<1>1. s \in Seq(Places) /\ Len(s) \in Nat /\ Len(s) # 0
  BY DEF StackTypes
<1>2. /\ r \in Seq(Places) /\ Len(r) = Len(s) /\ r[Len(s)] = place
      /\ \A i \in 1 .. Len(s) - 1 : r[i] = s[i]
  BY <1>1
<1>3. n \in Seq(Places) /\ Len(n) = Len(s) + 1
  BY <1>2 DEF Places
<1>4. n[Len(s) + 1] = "file" /\ \A i \in 1 .. Len(s) : n[i] = r[i]
  BY <1>1, <1>2
<1>5. stack' = [stack EXCEPT ![t] = n]
  BY DEF Nested, Replaced, StackTypes
<1> HIDE DEF n, r
<1>6. stack'[t] = n /\ \A u \in Logging \ {t} : stack'[u] = stack[u]
  BY <1>5 DEF StackTypes
<1>7. stack' \in [Logging -> Seq(Places)]
  BY <1>3, <1>5 DEF StackTypes
<1>8. n[Len(s)] = place /\ \A i \in 1 .. Len(s) - 1 : n[i] = s[i]
  BY <1>1, <1>2, <1>4
<1> QED BY <1>1, <1>3, <1>4, <1>6, <1>7, <1>8

LEMMA StackReturned ==
  ASSUME StackTypes, NEW t \in Logging, stack[t] # <<>>, stack' = Returned(t)
  PROVE  /\ stack' \in [Logging -> Seq(Places)]
         /\ \A u \in Logging \ {t} : stack'[u] = stack[u]
         /\ Len(stack[t]) \in Nat \ {0} /\ Len(stack'[t]) = Len(stack[t]) - 1
         /\ \A i \in 1 .. Len(stack[t]) - 1 : stack'[t][i] = stack[t][i]
<1> DEFINE s == stack[t]
           p == SubSeq(s, 1, Len(s) - 1)
<1>1. s \in Seq(Places) /\ Len(s) \in Nat /\ Len(s) # 0
  BY DEF StackTypes
<1>2. /\ p \in Seq(Places) /\ Len(p) = Len(s) - 1
      /\ \A i \in 1 .. Len(s) - 1 : p[i] = s[i]
  BY <1>1
<1>3. stack' = [stack EXCEPT ![t] = p]
  BY DEF Returned, StackTypes
<1> HIDE DEF p
<1>4. stack'[t] = p /\ \A u \in Logging \ {t} : stack'[u] = stack[u]
  BY <1>3 DEF StackTypes
<1>5. stack' \in [Logging -> Seq(Places)]
  BY <1>2, <1>3 DEF StackTypes
<1> QED BY <1>1, <1>2, <1>4, <1>5

(* A listener that goes on to its next place, or from where it reported,   *)
(* when that place is none of an error.                                    *)
LEMMA GoingOnKeeps ==
  ASSUME LogIInv, NEW t \in Logging, stack[t] # <<>>,
         NEW place \in {"ws", "opening", "write"}, stack' = Replaced(t, place),
         place = "ws" \/ ~disableFileLogger \/ In(t, "opening"),
         UNCHANGED <<listeners, WsState, raced>>,
         disableFileLogger' = disableFileLogger
  PROVE  LogIInv'
<1> USE DEF LogIInv
<1>1. /\ stack' \in [Logging -> Seq(Places)]
      /\ \A u \in Logging \ {t} : stack'[u] = stack[u]
      /\ Len(stack[t]) \in Nat \ {0} /\ Len(stack'[t]) = Len(stack[t])
      /\ stack'[t][Len(stack[t])] = place
      /\ \A i \in 1 .. Len(stack[t]) - 1 : stack'[t][i] = stack[t][i]
  <2>1. place \in Places /\ StackTypes
    BY DEF Places
  <2> QED BY <2>1, StackReplaced
<1>2. StackTypes'
  BY <1>1 DEF StackTypes
<1>3. NoWsError'
  BY <1>1 DEF NoWsError, LinkGood, WsState, StackTypes
<1>4. GuardHolds'
  <2> SUFFICES ASSUME ~raced, NEW u \in Logging, NEW i \in 1 .. Len(stack'[u]),
                      stack'[u][i] = "reporting"
               PROVE  /\ disableFileLogger
                      /\ \A j \in i + 1 .. Len(stack'[u]) :
                           stack'[u][j] \notin {"opening", "write", "reporting"}
    BY DEF GuardHolds
  <2>1. CASE u # t
    BY <1>1, <2>1 DEF GuardHolds
  <2>2. CASE u = t
    <3>1. i \in 1 .. Len(stack[t]) - 1 /\ stack[t][i] = "reporting"
      BY <1>1, <2>2
    <3>2. /\ disableFileLogger
          /\ \A j \in i + 1 .. Len(stack[t]) :
               stack[t][j] \notin {"opening", "write", "reporting"}
      BY <1>1, <3>1 DEF GuardHolds
    <3>4. place = "ws"
      <4>1. Len(stack[t]) \in i + 1 .. Len(stack[t])
        BY <1>1, <3>1
      <4>2. ~In(t, "opening")
        BY <3>2, <4>1 DEF In
      <4> QED BY <3>2, <4>2
    <3>3. ASSUME NEW j \in i + 1 .. Len(stack[t])
          PROVE  stack'[t][j] \notin {"opening", "write", "reporting"}
      <4>1. CASE j = Len(stack[t])
        BY <1>1, <3>4, <4>1
      <4>2. CASE j \in 1 .. Len(stack[t]) - 1
        BY <1>1, <3>2, <4>2
      <4> QED BY <1>1, <4>1, <4>2
    <3> QED BY <1>1, <2>2, <3>2, <3>3
  <2> QED BY <2>1, <2>2
<1>5. NestsInReport'
  <2>1. Len(stack[t]) = 2 => stack'[t][1] = stack[t][1]
    BY <1>1
  <2> QED BY <1>1, <2>1 DEF NestsInReport, LinkGood, WsState
<1> QED BY <1>2, <1>3, <1>4, <1>5

(* The file would not open: this is the first log of the thread, as those  *)
(* nested in a report do not come this far.                                *)
LEMMA OpenFailsKeeps ==
  ASSUME LogIInv, NEW t \in Logging, FileOpenFails(t)
  PROVE  LogIInv'
<1> USE DEF LogIInv
<1>0. PICK place \in Places : place = "reporting"
  BY DEF Places
<1>1. /\ stack' \in [Logging -> Seq(Places)]
      /\ \A u \in Logging \ {t} : stack'[u] = stack[u]
      /\ Len(stack[t]) \in Nat \ {0} /\ Len(stack'[t]) = Len(stack[t]) + 1
      /\ stack'[t][Len(stack[t])] = "reporting"
      /\ stack'[t][Len(stack[t]) + 1] = "file"
      /\ \A i \in 1 .. Len(stack[t]) - 1 : stack'[t][i] = stack[t][i]
  <2>1. place \in Places /\ StackTypes /\ stack[t] # <<>>
    BY DEF FileOpenFails, In
  <2>2. stack' = Nested(t, place)
    BY <1>0 DEF FileOpenFails
  <2> QED BY <1>0, <2>1, <2>2, StackNested
<1>2. /\ stack[t][Len(stack[t])] = "opening" /\ disableFileLogger' = TRUE
      /\ UNCHANGED <<listeners, WsState, raced>>
  BY DEF FileOpenFails, In
<1>3. StackTypes'
  BY <1>1, <1>2 DEF StackTypes
<1>4. NoWsError'
  <2> SUFFICES ASSUME LinkGood, NEW u \in Logging, NEW i \in 1 .. Len(stack'[u])
               PROVE  stack'[u][i] \notin {"failing", "refused"}
    BY <1>2 DEF NoWsError, LinkGood, WsState
  <2>1. CASE u # t
    BY <1>1, <2>1 DEF NoWsError
  <2>2. CASE u = t /\ i \in 1 .. Len(stack[t]) - 1
    BY <1>1, <2>2 DEF NoWsError
  <2>3. CASE u = t /\ i \in {Len(stack[t]), Len(stack[t]) + 1}
    BY <1>1, <2>3
  <2> QED BY <1>1, <2>1, <2>2, <2>3
<1>5. ~raced => \A i \in 1 .. Len(stack[t]) - 1 : stack[t][i] # "reporting"
  <2> SUFFICES ASSUME ~raced, NEW i \in 1 .. Len(stack[t]) - 1,
                      stack[t][i] = "reporting"
               PROVE  FALSE
    OBVIOUS
  <2>1. i \in 1 .. Len(stack[t]) /\ Len(stack[t]) \in i + 1 .. Len(stack[t])
    BY <1>1
  <2> QED BY <1>2, <2>1 DEF GuardHolds
<1>6. GuardHolds'
  <2> SUFFICES ASSUME ~raced, NEW u \in Logging, NEW i \in 1 .. Len(stack'[u]),
                      stack'[u][i] = "reporting"
               PROVE  \A j \in i + 1 .. Len(stack'[u]) :
                        stack'[u][j] \notin {"opening", "write", "reporting"}
    BY <1>2 DEF GuardHolds
  <2>1. CASE u # t
    BY <1>1, <2>1 DEF GuardHolds
  <2>2. CASE u = t
    <3>1. i = Len(stack[t])
      BY <1>1, <1>5, <2>2
    <3>2. \A j \in i + 1 .. Len(stack'[u]) : j = Len(stack[t]) + 1
      BY <1>1, <2>2, <3>1
    <3> QED BY <1>1, <2>2, <3>2
  <2> QED BY <2>1, <2>2
<1>7. NestsInReport'
  <2> SUFFICES ASSUME ~raced, LinkGood
               PROVE  Len(stack'[t]) = 2 /\ stack'[t][1] = "reporting"
    BY <1>1, <1>2 DEF NestsInReport, LinkGood, WsState
  <2>1. Len(stack[t]) <= 2 /\ (Len(stack[t]) = 2 => stack[t][1] = "reporting")
    BY DEF NestsInReport
  <2>2. Len(stack[t]) # 2
    <3>1. Len(stack[t]) = 2 => 1 \in 1 .. Len(stack[t]) - 1
      OBVIOUS
    <3> QED BY <1>5, <2>1, <3>1
  <2>3. Len(stack[t]) = 1
    <3>1. Len(stack[t]) \in Nat /\ Len(stack[t]) # 0 /\ Len(stack[t]) <= 2
      BY <1>1, <2>1
    <3>2. \A n \in Nat : n # 0 /\ n <= 2 /\ n # 2 => n = 1
      OBVIOUS
    <3> QED BY <2>2, <3>1, <3>2
  <2> QED BY <1>1, <2>3
<1> QED BY <1>3, <1>4, <1>6, <1>7

(* The report is over and the guard cleared: either nobody else reports,   *)
(* or the two have raced.                                                  *)
LEMMA ReportedKeeps ==
  ASSUME LogIInv, NEW t \in Logging, FileReported(t)
  PROVE  LogIInv'
<1> USE DEF LogIInv
<1>0. PICK place \in Places : place = "ws"
  BY DEF Places
<1>1. /\ stack' \in [Logging -> Seq(Places)]
      /\ \A u \in Logging \ {t} : stack'[u] = stack[u]
      /\ Len(stack[t]) \in Nat \ {0} /\ Len(stack'[t]) = Len(stack[t])
      /\ stack'[t][Len(stack[t])] = "ws"
      /\ \A i \in 1 .. Len(stack[t]) - 1 : stack'[t][i] = stack[t][i]
  <2>1. place \in Places /\ StackTypes /\ stack[t] # <<>>
    BY DEF FileReported, In
  <2>2. stack' = Replaced(t, place)
    BY <1>0 DEF FileReported
  <2> QED BY <1>0, <2>1, <2>2, StackReplaced
<1>2. /\ stack[t][Len(stack[t])] = "reporting"
      /\ UNCHANGED <<listeners, WsState>>
      /\ raced' = (raced \/ \E u \in Logging \ {t} :
                       \E i \in DOMAIN stack[u] : stack[u][i] = "reporting")
  BY DEF FileReported, In
<1>3. StackTypes'
  BY <1>1, <1>2 DEF StackTypes
<1>4. NoWsError'
  BY <1>1, <1>2 DEF NoWsError, LinkGood, WsState, StackTypes
<1>5. GuardHolds'
  <2> SUFFICES ASSUME ~raced', NEW u \in Logging, NEW i \in 1 .. Len(stack'[u]),
                      stack'[u][i] = "reporting"
               PROVE  FALSE
    BY DEF GuardHolds
  <2>1. CASE u # t
    <3>1. stack[u] \in Seq(Places)
      BY DEF StackTypes
    <3>2. i \in DOMAIN stack[u] /\ stack[u][i] = "reporting"
      BY <1>1, <2>1, <3>1
    <3> QED BY <1>2, <2>1, <3>2
  <2>2. CASE u = t
    <3>0. ~raced
      BY <1>2
    <3>1. i \in 1 .. Len(stack[t]) - 1 /\ stack[t][i] = "reporting"
      <4>1. i \in 1 .. Len(stack[t]) /\ i # Len(stack[t])
        BY <1>1, <2>2
      <4> QED BY <1>1, <2>2, <4>1
    <3>2. i \in 1 .. Len(stack[t]) /\ Len(stack[t]) \in i + 1 .. Len(stack[t])
      BY <1>1, <3>1
    <3> QED BY <1>2, <3>0, <3>1, <3>2 DEF GuardHolds
  <2> QED BY <2>1, <2>2
<1>6. NestsInReport'
  <2>1. Len(stack[t]) = 2 => stack'[t][1] = stack[t][1]
    BY <1>1
  <2>2. raced => raced'
    BY <1>2
  <2> QED BY <1>1, <1>2, <2>1, <2>2 DEF NestsInReport, LinkGood, WsState
<1> QED BY <1>3, <1>4, <1>5, <1>6

(* A call of log that returns leaves what is below it as it was.           *)
LEMMA ReturnKeeps ==
  ASSUME LogIInv, NEW t \in Logging, stack[t] # <<>>, stack' = Returned(t),
         UNCHANGED <<listeners, disableFileLogger, linkUp, raced>>,
         LinkGood => UNCHANGED sockConnected
  PROVE  LogIInv'
<1> USE DEF LogIInv
<1>1. /\ stack' \in [Logging -> Seq(Places)]
      /\ \A u \in Logging \ {t} : stack'[u] = stack[u]
      /\ Len(stack[t]) \in Nat \ {0} /\ Len(stack'[t]) = Len(stack[t]) - 1
      /\ \A i \in 1 .. Len(stack[t]) - 1 : stack'[t][i] = stack[t][i]
  <2> QED BY StackReturned
<1>2. StackTypes'
  BY <1>1 DEF StackTypes
<1>3. NoWsError'
  <2> SUFFICES ASSUME LinkGood
               PROVE  /\ listeners = 3 => sockConnected'
                      /\ \A u \in Logging : \A i \in 1 .. Len(stack'[u]) :
                           stack'[u][i] \notin {"failing", "refused"}
    BY DEF NoWsError, LinkGood
  <2>1. listeners = 3 => sockConnected'
    BY DEF NoWsError
  <2>2. \A i \in 1 .. Len(stack'[t]) :
          i \in 1 .. Len(stack[t]) /\ stack'[t][i] = stack[t][i]
    BY <1>1
  <2> QED BY <1>1, <2>1, <2>2 DEF NoWsError
<1>4. GuardHolds'
  <2> SUFFICES ASSUME ~raced, NEW u \in Logging, NEW i \in 1 .. Len(stack'[u]),
                      stack'[u][i] = "reporting"
               PROVE  /\ disableFileLogger
                      /\ \A j \in i + 1 .. Len(stack'[u]) :
                           stack'[u][j] \notin {"opening", "write", "reporting"}
    BY DEF GuardHolds
  <2>1. CASE u # t
    BY <1>1, <2>1 DEF GuardHolds
  <2>2. CASE u = t
    <3>1. i \in 1 .. Len(stack[t]) /\ stack[t][i] = "reporting"
      BY <1>1, <2>2
    <3>2. /\ disableFileLogger
          /\ \A j \in i + 1 .. Len(stack[t]) :
               stack[t][j] \notin {"opening", "write", "reporting"}
      BY <3>1 DEF GuardHolds
    <3>3. \A j \in i + 1 .. Len(stack'[t]) :
            /\ j \in i + 1 .. Len(stack[t])
            /\ stack'[t][j] = stack[t][j]
      BY <1>1
    <3> QED BY <2>2, <3>2, <3>3
  <2> QED BY <2>1, <2>2
<1>5. NestsInReport'
  <2> SUFFICES ASSUME ~raced, LinkGood
               PROVE  \A u \in Logging :
                        /\ Len(stack'[u]) <= 2
                        /\ Len(stack'[u]) = 2 => stack'[u][1] = "reporting"
    BY DEF NestsInReport, LinkGood
  <2>1. Len(stack'[t]) <= 2 /\ Len(stack'[t]) # 2
    <3>1. Len(stack[t]) \in Nat /\ Len(stack[t]) <= 2
      BY <1>1 DEF NestsInReport
    <3>2. \A n \in Nat : n <= 2 => n - 1 <= 2 /\ n - 1 # 2
      OBVIOUS
    <3> QED BY <1>1, <3>1, <3>2
  <2>2. ASSUME NEW u \in Logging, u # t PROVE stack'[u] = stack[u]
    BY <1>1, <2>2
  <2> QED BY <2>1, <2>2 DEF NestsInReport
<1> QED BY <1>2, <1>3, <1>4, <1>5

(* A send is answered by an error: the link is not good any more.          *)
LEMMA WsFailsKeeps ==
  ASSUME LogIInv, NEW t \in Logging, WsFails(t)
  PROVE  LogIInv'
<1> USE DEF LogIInv
<1>1. ~LinkGood /\ UNCHANGED <<listeners, LogState, WsState, raced>>
  BY DEF WsFails, NoWsError, LinkGood
<1>2. PICK place \in {"refused", "failing"} : stack' = Nested(t, place)
  BY DEF WsFails
<1>3. /\ stack' \in [Logging -> Seq(Places)]
      /\ \A u \in Logging \ {t} : stack'[u] = stack[u]
      /\ Len(stack[t]) \in Nat \ {0} /\ Len(stack'[t]) = Len(stack[t]) + 1
      /\ stack'[t][Len(stack[t])] = place
      /\ stack'[t][Len(stack[t]) + 1] = "file"
      /\ \A i \in 1 .. Len(stack[t]) - 1 : stack'[t][i] = stack[t][i]
  <2>1. place \in Places /\ StackTypes /\ stack[t] # <<>>
    BY DEF Places, WsFails, In
  <2> QED BY <1>2, <2>1, StackNested
<1>4. StackTypes'
  BY <1>1, <1>3 DEF StackTypes
<1>5. ~LinkGood'
  BY <1>1 DEF LinkGood, WsState
<1>6. GuardHolds'
  <2> SUFFICES ASSUME ~raced, NEW u \in Logging, NEW i \in 1 .. Len(stack'[u]),
                      stack'[u][i] = "reporting"
               PROVE  /\ disableFileLogger
                      /\ \A j \in i + 1 .. Len(stack'[u]) :
                           stack'[u][j] \notin {"opening", "write", "reporting"}
    BY <1>1 DEF GuardHolds, LogState
  <2>1. CASE u # t
    BY <1>3, <2>1 DEF GuardHolds
  <2>2. CASE u = t
    <3>1. i \in 1 .. Len(stack[t]) - 1 /\ stack[t][i] = "reporting"
      BY <1>3, <2>2
    <3>2. /\ disableFileLogger
          /\ \A j \in i + 1 .. Len(stack[t]) :
               stack[t][j] \notin {"opening", "write", "reporting"}
      BY <1>3, <3>1 DEF GuardHolds
    <3>3. ASSUME NEW j \in i + 1 .. Len(stack'[t])
          PROVE  stack'[t][j] \notin {"opening", "write", "reporting"}
      <4>1. CASE j \in 1 .. Len(stack[t]) - 1
        BY <1>3, <3>2, <4>1
      <4>2. CASE j \in {Len(stack[t]), Len(stack[t]) + 1}
        BY <1>3, <4>2
      <4> QED BY <1>3, <4>1, <4>2
    <3> QED BY <2>2, <3>2, <3>3
  <2> QED BY <2>1, <2>2
<1> QED BY <1>4, <1>5, <1>6 DEF NoWsError, NestsInReport

(* Steps of one thread in a call of log.  An error of the websocket is     *)
(* none that can be met while its connection works.                        *)
LEMMA LogStepKeeps ==
  ASSUME LogIInv, NEW t \in Logging, LogStep(t)
  PROVE  LogIInv'
<1>1. CASE FileSkips(t)
  <2>1. stack[t] # <<>> /\ stack' = Replaced(t, "ws")
    BY <1>1 DEF FileSkips, In
  <2> QED BY <1>1, <2>1, GoingOnKeeps DEF FileSkips
<1>2. CASE FileTries(t)
  <2>1. stack[t] # <<>> /\ stack' = Replaced(t, "opening") /\ ~disableFileLogger
    BY <1>2 DEF FileTries, In, Disabled
  <2> QED BY <1>2, <2>1, GoingOnKeeps DEF FileTries, LogState
<1>3. CASE FileOpens(t)
  <2>1. stack[t] # <<>> /\ stack' = Replaced(t, "write") /\ In(t, "opening")
    BY <1>3 DEF FileOpens, In
  <2> QED BY <1>3, <2>1, GoingOnKeeps DEF FileOpens
<1>4. CASE FileOpenFails(t)
  BY <1>4, OpenFailsKeeps
<1>5. CASE FileReported(t)
  BY <1>5, ReportedKeeps
<1>6. CASE FileWrites(t)
  <2>1. stack[t] # <<>> /\ stack' = Replaced(t, "ws")
    BY <1>6 DEF FileWrites, In
  <2> QED BY <1>6, <2>1, GoingOnKeeps DEF FileWrites
<1>7. CASE WsSends(t)
  <2>1. stack[t] # <<>> /\ stack' = Returned(t)
    BY <1>7 DEF WsSends, In
  <2> QED BY <1>7, <2>1, ReturnKeeps DEF WsSends, LogState, WsState
<1>8. CASE WsFails(t)
  BY <1>8, WsFailsKeeps
<1>9. CASE WsReported(t)
  <2>1. stack[t] # <<>> /\ stack' = Returned(t)
    BY <1>9 DEF WsReported, In
  <2>2. ~LinkGood
    <3>1. /\ Len(stack[t]) \in 1 .. Len(stack[t])
          /\ stack[t][Len(stack[t])] \in {"failing", "refused"}
      BY <1>9, <2>1 DEF WsReported, In, LogIInv, StackTypes
    <3>2. PICK i \in 1 .. Len(stack[t]) : stack[t][i] \in {"failing", "refused"}
      BY <3>1
    <3> QED BY <3>2 DEF LogIInv, NoWsError
  <2> QED BY <1>9, <2>1, <2>2, ReturnKeeps DEF WsReported, LogState
<1> QED
  BY <1>1, <1>2, <1>3, <1>4, <1>5, <1>6, <1>7, <1>8, <1>9 DEF LogStep

(* A call of log begins, on a thread that is in none.                      *)
LEMMA LogKeeps ==
  ASSUME LogIInv, NEW t \in Logging, Log(t)
  PROVE  LogIInv'
<1> USE DEF LogIInv
<1>1. /\ stack' \in [Logging -> Seq(Places)]
      /\ \A u \in Logging \ {t} : stack'[u] = stack[u]
      /\ stack'[t] = <<"file">> /\ Len(stack'[t]) = 1 /\ stack'[t][1] = "file"
  BY DEF Log, StackTypes, Places
<1>2. UNCHANGED <<listeners, disableFileLogger, linkUp, sockConnected, raced>>
  BY DEF Log, WsState
<1>3. StackTypes'
  BY <1>1, <1>2 DEF StackTypes
<1>4. \A i \in 1 .. Len(stack'[t]) : stack'[t][i] = "file"
  BY <1>1
<1>5. NoWsError' /\ GuardHolds'
  BY <1>1, <1>2, <1>4 DEF NoWsError, GuardHolds, LinkGood
<1>6. NestsInReport'
  <2> SUFFICES ASSUME ~raced, LinkGood
               PROVE  \A u \in Logging :
                        /\ Len(stack'[u]) <= 2
                        /\ Len(stack'[u]) = 2 => stack'[u][1] = "reporting"
    BY <1>2 DEF NestsInReport, LinkGood
  <2>1. Len(stack'[t]) <= 2 /\ Len(stack'[t]) # 2
    BY <1>1
  <2> QED BY <1>1, <2>1 DEF NestsInReport
<1> QED BY <1>3, <1>5, <1>6

LEMMA LogIInvInit == LogInit => LogIInv
<1> SUFFICES ASSUME LogInit PROVE LogIInv
  OBVIOUS
<1>1. listeners = 0 /\ stack = [t \in Logging |-> <<>>]
  BY DEF LogInit
<1>2. \A t \in Logging : Len(stack[t]) = 0 /\ stack[t] \in Seq(Places)
  BY <1>1
<1>3. \A t \in Logging : \A i \in 1 .. Len(stack[t]) : FALSE
  BY <1>2
<1> QED
  BY <1>1, <1>2, <1>3
  DEF LogIInv, StackTypes, NoWsError, GuardHolds, NestsInReport, LinkGood

LEMMA LogIInvStep ==
  ASSUME LogIInv, [LogNext]_logVars
  PROVE  LogIInv'
<1> USE DEF LogIInv
<1>1. CASE AddListener
  <2>1. /\ UNCHANGED <<stack, disableFileLogger, raced>>
        /\ listeners' = listeners + 1 /\ listeners' \in 0 .. 3 /\ listeners < 3
    BY <1>1 DEF AddListener, StackTypes
  <2>2. LinkGood /\ (listeners' = 3 => sockConnected')
    BY <1>1, <2>1 DEF AddListener, LinkGood, WsState
  <2> QED
    BY <2>1, <2>2 DEF StackTypes, NoWsError, GuardHolds, NestsInReport
<1>2. ASSUME NEW t \in Logging, Log(t) \/ LogStep(t) PROVE LogIInv'
  BY <1>2, LogKeeps, LogStepKeeps
<1>3. CASE \/ HandleWsCloseFrame \/ HandleWsError \/ LogServerLost
           \/ UNCHANGED logVars
  <2>1. UNCHANGED <<stack, listeners, disableFileLogger, raced>>
    BY <1>3 DEF HandleWsCloseFrame, HandleWsError, LogServerLost, LogState, logVars
  <2>2. LinkGood' => LinkGood
    BY <1>3, <2>1
    DEF HandleWsCloseFrame, HandleWsError, LogServerLost, LinkGood, logVars
  <2>3. LinkGood' /\ listeners = 3 /\ sockConnected => sockConnected'
    <3>1. CASE HandleWsError
      BY <2>1, <3>1 DEF HandleWsError, LinkGood
    <3>2. CASE UNCHANGED sockConnected
      BY <3>2
    <3> QED
      BY <1>3, <3>1, <3>2 DEF HandleWsCloseFrame, LogServerLost, logVars
  <2> QED
    BY <2>1, <2>2, <2>3 DEF StackTypes, NoWsError, GuardHolds, NestsInReport
<1> QED BY <1>1, <1>2, <1>3 DEF LogNext

-----------------------------------------------------------------------------
(* Log nests more than once only when the connection of the log websocket  *)
(* is lost or two threads shared the guard (main.cpp:46-56), for any       *)
(* number of threads and any depth of the stack.                           *)
THEOREM LogNestsForACause == LogSpec => []RecursionNeedsCause
<1>1. LogIInv => RecursionNeedsCause
  <2> SUFFICES ASSUME LogIInv, NEW t \in Logging, Len(stack[t]) > 2, ~raced
               PROVE  listeners = 3 /\ ~linkUp
    BY DEF RecursionNeedsCause
  <2>1. Len(stack[t]) \in Nat /\ listeners \in 0 .. 3
    BY DEF LogIInv, StackTypes
  <2>2. ~LinkGood
    BY <2>1 DEF LogIInv, NestsInReport
  <2> QED BY <2>1, <2>2 DEF LinkGood
<1> QED BY <1>1, LogIInvInit, LogIInvStep, PTL DEF LogSpec

-----------------------------------------------------------------------------
(* SSLSocket: a number an object keeps is its own, unless another closed   *)
(* it, and a connected object has one and a context that was set up.       *)
KeptIsOwn == \A o \in Obj \ robbed : obj[o].fd \in FD => owner[obj[o].fd] = o
ConnectedIsReady ==
  \A o \in Obj \ robbed :
    obj[o].state = "CONNECTED" => obj[o].fd \in FD /\ tls[o] = "ready"
SslIInv ==
  /\ obj \in [Obj -> [state : SocketState, fd : FD \cup {NoFD}]]
  /\ owner \in [FD -> Obj \cup {Free, Other}] /\ tls \in [Obj -> TlsState]
  /\ theft \subseteq {"UNINITIALIZED"}
  /\ KeptIsOwn /\ ConnectedIsReady


LEMMA SslIInvInit == SslInit => SslIInv
BY SocketAssumption
DEF SslInit, SocketInit, SslIInv, KeptIsOwn, ConnectedIsReady, SocketState, TlsState

(* An object gives the number it keeps back and forgets it.                *)
LEMMA SslCloseKeeps ==
  ASSUME SslIInv, NEW o \in Obj, NEW s \in {"CLOSED", "ERRORED", "DEAD"},
         NEW t \in TlsState,
         obj' = [obj EXCEPT ![o] = [state |-> s, fd |-> NoFD]],
         owner' = Released(owner, obj[o].fd),
         robbed' \in {robbed \cup Victims(owner, o, obj[o].fd),
                     (robbed \cup Victims(owner, o, obj[o].fd)) \ {o}},
         theft' = Theft(owner, o, obj[o].fd),
         tls' = [tls EXCEPT ![o] = t]
  PROVE  SslIInv'
<1> USE SocketAssumption DEF SslIInv
<1>1. theft' = theft
  BY DEF Theft, KeptIsOwn
<1>2. /\ obj' \in [Obj -> [state : SocketState, fd : FD \cup {NoFD}]]
      /\ owner' \in [FD -> Obj \cup {Free, Other}] /\ tls' \in [Obj -> TlsState]
  BY DEF Released, SocketState
<1>3. ASSUME NEW p \in Obj \ robbed', obj'[p].fd \in FD
      PROVE  owner'[obj'[p].fd] = p
  <2>1. p # o /\ obj'[p] = obj[p]
    BY <1>3
  <2>2. p \notin robbed /\ p \notin Victims(owner, o, obj[o].fd)
    BY <1>3, <2>1
  <2>3. owner[obj[p].fd] = p
    BY <1>3, <2>1, <2>2 DEF KeptIsOwn
  <2>4. obj[p].fd # obj[o].fd
    BY <1>3, <2>1, <2>2, <2>3 DEF Victims
  <2> QED BY <1>3, <2>1, <2>3, <2>4 DEF Released
<1>4. ConnectedIsReady'
  BY <1>1 DEF ConnectedIsReady
<1> QED BY <1>1, <1>2, <1>3, <1>4 DEF KeptIsOwn

LEMMA SslIInvStep ==
  ASSUME SslIInv, [SslNext]_sslVars
  PROVE  SslIInv'
<1> USE SocketAssumption, ZeroAssumption
<1>1. CASE UNCHANGED sslVars
  BY <1>1 DEF sslVars, sockVars, SslIInv, KeptIsOwn, ConnectedIsReady
<1>2. ASSUME NEW o \in Obj, NEW t \in {"ready", "unset"}, SslMake(o, t)
      PROVE  SslIInv'
  BY <1>2
  DEF SslMake, Constructed, SslIInv, KeptIsOwn, ConnectedIsReady, SocketState, TlsState
<1>3. ASSUME NEW o \in Obj, SslUnstarted(o) PROVE SslIInv'
  <2> USE <1>3 DEF SslUnstarted, Constructed, SslIInv
  <2>1. /\ obj' \in [Obj -> [state : SocketState, fd : FD \cup {NoFD}]]
        /\ owner' \in [FD -> Obj \cup {Free, Other}] /\ tls' \in [Obj -> TlsState]
        /\ theft' \subseteq {"UNINITIALIZED"}
    BY DEF Released, SocketState, TlsState
  <2>2. KeptIsOwn'
    BY DEF KeptIsOwn, Released, Victims
  <2>3. ConnectedIsReady'
    BY DEF ConnectedIsReady
  <2> QED BY <2>1, <2>2, <2>3
<1>4. ASSUME NEW o \in Obj, NEW f \in FD, SslConnect(o, f) PROVE SslIInv'
  <2> USE <1>4 DEF SslConnect, SslIInv
  <2>1. /\ obj' \in [Obj -> [state : SocketState, fd : FD \cup {NoFD}]]
        /\ owner' \in [FD -> Obj \cup {Free, Other}]
    BY DEF SocketState
  <2>2. KeptIsOwn'
    BY DEF KeptIsOwn
  <2>3. ConnectedIsReady'
    BY DEF ConnectedIsReady
  <2> QED BY <2>1, <2>2, <2>3
<1>5. ASSUME NEW o \in Obj, SslHandshake(o) PROVE SslIInv'
  BY <1>5
  DEF SslHandshake, Holds, SslIInv, KeptIsOwn, ConnectedIsReady, SocketState
<1>6. ASSUME NEW o \in Obj,
             \/ SslConnectFails(o) \/ SslTransferFails(o) \/ SslClose(o)
             \/ SslDestroy(o)
      PROVE  SslIInv'
  <2>1. CASE SslDestroy(o)
    BY <2>1, SslCloseKeeps DEF SslDestroy, Constructed, TlsState
  <2>2. CASE SslConnectFails(o) \/ SslTransferFails(o)
    BY <2>2, SslCloseKeeps
    DEF SslConnectFails, SslTransferFails, SslCloseTo, TlsState
  <2>3. CASE SslClose(o)
    BY <2>3, SslCloseKeeps DEF SslClose, SslCloseTo, TlsState
  <2> QED BY <1>6, <2>1, <2>2, <2>3
<1>7. ASSUME NEW f \in FD, OtherOpens(f) \/ OtherCloses(f), UNCHANGED tls
      PROVE  SslIInv'
  <2>1. /\ owner' \in [FD -> Obj \cup {Free, Other}]
        /\ UNCHANGED <<obj, robbed, theft, tls>>
    BY <1>7 DEF OtherOpens, OtherCloses, SslIInv
  <2>2. KeptIsOwn'
    BY <1>7 DEF OtherOpens, OtherCloses, SslIInv, KeptIsOwn
  <2> QED BY <2>1, <2>2 DEF SslIInv, ConnectedIsReady
<1> QED BY <1>1, <1>2, <1>3, <1>4, <1>5, <1>6, <1>7 DEF SslNext

LEMMA SslIInvSuffices == SslIInv => SslTakesOnlyUnstarted
BY DEF SslIInv, KeptIsOwn, ConnectedIsReady, SslTakesOnlyUnstarted, Holds

(* For any number of sockets and descriptors, a TLS socket that was not    *)
(* robbed takes the descriptor of another connection only in a constructor *)
(* that finds no network, and talks over its own (SSLSocket.cpp); ...      *)
THEOREM SslTakesOnly == SslSpec => []SslTakesOnlyUnstarted
BY SslIInvInit, SslIInvStep, SslIInvSuffices, PTL DEF SslSpec

(* ... so it is in the composition of the parts that MCNetwork checks.     *)
THEOREM SslPartTakesOnly == Spec => []SslCloseTakesNothing
<1> DEFINE Inv == part = "ssl" => SslIInv
<1>1. Init => Inv
  BY SslIInvInit DEF Init
<1>2. ASSUME Inv, [Next]_<<part, netVars, apVars, tls, netOthers>> PROVE Inv'
  <2>1. CASE UNCHANGED <<part, netVars, apVars, tls, netOthers>>
    <3>1. part' = part /\ UNCHANGED sslVars
      BY <2>1 DEF sslVars, apVars, wsVars, sockVars
    <3> QED BY <1>2, <3>1, SslIInvStep
  <2>2. CASE Next
    <3>1. part' = part /\ (part = "ssl" => SslNext)
      BY <2>2 DEF Next
    <3> QED BY <1>2, <3>1, SslIInvStep
  <2> QED BY <1>2, <2>1, <2>2
<1>3. Inv => SslCloseTakesNothing
  BY SslIInvSuffices DEF SslCloseTakesNothing
<1> QED BY <1>1, <1>2, <1>3, PTL DEF Spec

-----------------------------------------------------------------------------
(* HttpClient: how far the exchange with the present server is, as long as *)
(* no connection was lost or ended early and no read met a pause.          *)
AskedOncePerHop ==
  /\ hc \in {"start", "connect", "send"} => asked = hop
  /\ hc \in {"recv", "parse", "close"} => asked = hop + 1
ExchangeSoFar ==
  /\ hc \in {"recv", "parse", "close"} => reply \in Reply
  /\ hc = "recv" => arrived <= reply.pieces
  /\ link = "broken" => cut
  /\ hc \in {"connect", "send"} => arrived = 0
  /\ hc = "send" => link \in {"open", "broken"}
  /\ hc = "recv" => link \in {"open", "ended", "broken"}
  /\ hc = "recv" /\ link = "ended" /\ ~cut => arrived = reply.pieces
  /\ hc = "parse" /\ ~cut /\ ~paused => answer = reply.pieces
  /\ hc = "close" => response.statusCode \in {0, reply.status}
  /\ hc = "close" /\ ~cut /\ ~paused =>
       response = [errorCode |-> 0, statusCode |-> reply.status,
                   pieces |-> reply.pieces]
HttpIInv ==
  /\ hop \in Nat /\ asked \in Nat /\ arrived \in Nat /\ answer \in Nat
  /\ cut \in BOOLEAN /\ paused \in BOOLEAN
  /\ AskedOncePerHop /\ ExchangeSoFar /\ AnswerIsWhole

LEMMA HttpIInvInit == HttpInit => HttpIInv
<1> SUFFICES ASSUME HttpInit PROVE HttpIInv
  OBVIOUS
<1>1. hc = "start" /\ hop = 0 /\ asked = 0 /\ arrived = 0 /\ answer = 0
      /\ link = "none" /\ cut \in BOOLEAN /\ paused \in BOOLEAN
  BY DEF HttpInit
<1> QED
  BY <1>1 DEF HttpIInv, AskedOncePerHop, ExchangeSoFar, AnswerIsWhole

LEMMA HttpIInvStep ==
  ASSUME HttpIInv, [HttpNext]_httpVars
  PROVE  HttpIInv'
<1> USE HttpAssumption
    DEF HttpIInv, AskedOncePerHop, ExchangeSoFar, AnswerIsWhole, Reply
<1>1. CASE UNCHANGED httpVars
  BY <1>1 DEF httpVars
<1>2. CASE BadUrl
  BY <1>2 DEF BadUrl, NoResponse
<1>3. CASE MakeSocket
  BY <1>3 DEF MakeSocket
<1>4. CASE Connect
  BY <1>4 DEF Connect
<1>5. CASE SendAll
  BY <1>5 DEF SendAll
<1>6. CASE SendFails
  BY <1>6 DEF SendFails, NoResponse
<1>7. CASE RecvPiece
  BY <1>7 DEF RecvPiece
<1>8. CASE RecvEnds
  <2>1. /\ UNCHANGED <<hop, link, reply, arrived, answer, response, asked, cut>>
        /\ hc = "recv" /\ hc' = "parse"
        /\ link = "broken" \/ answer = arrived
        /\ paused' \in BOOLEAN
    BY <1>8 DEF RecvEnds, EmptyRead
  <2>2. ~paused' /\ link = "open" => ~(arrived < reply.pieces)
    BY <1>8 DEF RecvEnds
  <2>3. ~cut /\ ~paused' => answer = reply.pieces
    BY <2>1, <2>2
  <2> QED BY <2>1, <2>3
<1>9. CASE ParseResponse
  BY <1>9 DEF ParseResponse
<1>10. CASE CloseRedirect
  BY <1>10 DEF CloseRedirect
<1>11. CASE CloseReturn
  BY <1>11 DEF CloseReturn
<1>12. CASE ServerSends
  BY <1>12 DEF ServerSends
<1>13. CASE ServerEnds
  <2>1. /\ UNCHANGED <<hc, hop, reply, arrived, answer, response, asked, paused>>
        /\ hc = "recv" /\ link' = "ended" /\ cut' \in BOOLEAN
    BY <1>13 DEF ServerEnds
  <2>2. ~cut' => ~(arrived < reply.pieces)
    BY <1>13 DEF ServerEnds
  <2>3. ~cut' => arrived = reply.pieces
    BY <2>1, <2>2
  <2> QED BY <2>1, <2>3
<1>14. CASE LinkBreaks
  BY <1>14 DEF LinkBreaks
<1> QED
  BY <1>1, <1>2, <1>3, <1>4, <1>5, <1>6, <1>7, <1>8, <1>9, <1>10, <1>11, <1>12,
     <1>13, <1>14 DEF HttpNext, Execute

-----------------------------------------------------------------------------
(* The safety half of HttpAnswers, for any number of pieces and redirects: *)
(* what HttpClient::execute returns without an error is the whole answer   *)
(* of the last server, asked once per redirect, unless a connection was    *)
(* lost or ended early or a read met a pause in the answer.                *)
THEOREM HttpAnswerIsWhole == HttpSpec => []AnswerIsWhole
<1>1. HttpIInv => AnswerIsWhole BY DEF HttpIInv
<1> QED BY <1>1, HttpIInvInit, HttpIInvStep, PTL DEF HttpSpec

-----------------------------------------------------------------------------
(* TwitchClient.  Tokens are given out once, and 0 is none.                *)
TokensKnown ==
  /\ given \in Nat /\ renewable \subseteq 1 .. given
  /\ file # NoFile => file \in 0 .. given
  /\ client \in [Copy -> [access : 0 .. given, refresh : 0 .. given,
                         ready : BOOLEAN]]
  /\ step \in [Copy -> TwSteps] /\ asks \in [Copy -> {"user", "own"}]
  /\ retries \in [Copy -> BOOLEAN] /\ isRecursive \in [Static -> BOOLEAN]
  /\ trouble \in BOOLEAN
  /\ \A c \in Copy : client[c].access \in {0, client[c].refresh}

(* Which copy can be where in its call, by the stage of the program.       *)
PlacesByStage ==
  /\ \A c \in Copy : retries[c] => step[c] \notin {"idle", "ok", "gaveUp"}
  /\ asks["static"] = "user" /\ asks["init"] = "user"
  /\ stage = "start" =>
       /\ step["static"] \in {"refresh", "save", "write", "back"}
       /\ step["init"] = "idle" /\ ~retries["static"]
  /\ stage \notin {"off", "start"} => step["static"] = "idle"
  /\ stage \in {"obtain", "again"} =>
       step["init"] \in {"idle", "save", "write", "back"} /\ ~retries["init"]
  /\ stage = "running" => step["init"] = "idle"
  /\ stage \notin {"off", "running"} => step["ws"] = "idle" /\ step["event"] = "idle"

(* The static of a function that one copy calls is set while that copy     *)
(* asks a second time.                                                     *)
SetByItsCaller ==
  /\ isRecursive["subscribeEvent"] => asks["ws"] = "own" /\ retries["ws"]
  /\ isRecursive["createPoll"] => asks["event"] = "own" /\ retries["event"]
  /\ isRecursive["getUserData"] /\ stage \notin {"off", "running"} => retries["init"]

(* Of the copies that hold a refresh token Twitch takes, one that saves is *)
(* the only one, and when none does the token is the one in the file.      *)
HoldsToken(c) == client[c].refresh \in renewable
Saving(c) == step[c] \in {"save", "write"}
SaverAlone ==
  \A c \in Copy : Saving(c) =>
    HoldsToken(c) /\ \A d \in Copy \ {c} : ~HoldsToken(d)
OthersFromFile ==
  (\A c \in Copy : ~Saving(c)) =>
    \A d \in Copy : HoldsToken(d) => client[d].refresh = file

(* Who holds it at each stage.                                             *)
HeldByStage ==
  /\ stage # "again"
  /\ stage = "start" =>
       /\ \A d \in Copy \ {"static"} : ~HoldsToken(d)
       /\ step["static"] \in {"save", "write", "back"} =>
            (HoldsToken("static") <=> client["static"].ready)
  /\ stage = "obtain" /\ step["init"] = "idle" => \A d \in Copy : ~HoldsToken(d)
  /\ stage = "obtain" /\ step["init"] # "idle" => HoldsToken("init")
  /\ stage = "user" => HoldsToken("init") /\ step["init"] # "gaveUp"
  /\ stage = "running" /\ (\A c \in Copy : ~Saving(c)) => file \in renewable

(* A pair that was just renewed is taken, and who gave up in a function of *)
(* its own has none.                                                       *)
RenewedIsTaken ==
  \A c \in Copy : (Saving(c) \/ step[c] = "back" \/ retries[c]) /\ HoldsToken(c) =>
    client[c].access \in accepted
GaveUpWithout ==
  \A c \in {"ws", "event"} : step[c] = "gaveUp" /\ asks[c] = "own" => ~HoldsToken(c)

TokenHeld ==
  SaverAlone /\ OthersFromFile /\ HeldByStage /\ RenewedIsTaken /\ GaveUpWithout
TokenIInv ==
  TokensKnown /\ PlacesByStage /\ SetByItsCaller /\ (~trouble => TokenHeld)

-----------------------------------------------------------------------------
LEMMA TokenIInvInit == TwInit => TokenIInv
<1> SUFFICES ASSUME TwInit PROVE TokenIInv
  OBVIOUS
<1> USE DEF TwInit
<1>1. TokensKnown
  <2>1. NewClient \in [access : 0 .. 0, refresh : 0 .. 0, ready : BOOLEAN]
    BY DEF NewClient
  <2>2. given = 0 /\ NewClient.access = 0
    BY DEF NewClient
  <2>3. retries \in [Copy -> BOOLEAN] /\ isRecursive \in [Static -> BOOLEAN]
        /\ trouble \in BOOLEAN
    OBVIOUS
  <2> HIDE DEF TwInit
  <2> QED BY <2>1, <2>2, <2>3 DEF TwInit, TokensKnown, TwSteps
<1>2. PlacesByStage
  BY DEF PlacesByStage, Copy
<1>3. SetByItsCaller
  BY DEF SetByItsCaller, Static
<1>4. /\ SaverAlone /\ OthersFromFile /\ HeldByStage /\ RenewedIsTaken
      /\ GaveUpWithout
  BY DEF SaverAlone, OthersFromFile, HeldByStage, RenewedIsTaken, GaveUpWithout,
         Saving, HoldsToken, Copy
<1> QED BY <1>1, <1>2, <1>3, <1>4 DEF TokenIInv, TokenHeld

LEMMA TokensKnownStep ==
  ASSUME TokensKnown, [TwNext]_twVars
  PROVE  TokensKnown'
<1> USE DEF TokensKnown, TwGoto, TwSteps
<1>1. CASE UNCHANGED twVars
  BY <1>1 DEF twVars, calling
<1>2. CASE PowerOff
  BY <1>2 DEF PowerOff, calling
<1>3. CASE ProgramStart
  <2>1. /\ NewClient \in [access : 0 .. given, refresh : 0 .. given, ready : BOOLEAN]
        /\ NewClient.access = 0
    BY DEF NewClient
  <2>2. /\ client' \in [Copy -> [access : 0 .. given, refresh : 0 .. given,
                                ready : BOOLEAN]]
        /\ \A c \in Copy : client'[c].access = 0
    BY <1>3, <2>1 DEF ProgramStart
  <2>3. retries' \in [Copy -> BOOLEAN] /\ isRecursive' \in [Static -> BOOLEAN]
        /\ trouble' \in BOOLEAN
    BY <1>3 DEF ProgramStart
  <2> QED BY <1>3, <2>2, <2>3 DEF ProgramStart
<1>4. ASSUME NEW c \in Copy, Refresh(c) PROVE TokensKnown'
  <2>1. given' = given + 1 /\ given' \in 1 .. given' /\ 0 .. given \subseteq 0 .. given'
        /\ 1 .. given \subseteq 1 .. given'
    BY <1>4 DEF Refresh
  <2>2. client' \in [Copy -> [access : 0 .. given', refresh : 0 .. given',
                             ready : BOOLEAN]]
    <3>1. client \in [Copy -> [access : 0 .. given', refresh : 0 .. given',
                              ready : BOOLEAN]]
      BY <2>1
    <3>2. given' \in 0 .. given'
      BY <2>1
    <3>3. CASE NewPair(c)
      BY <3>1, <3>2, <3>3 DEF NewPair
    <3>4. CASE client' = [client EXCEPT ![c].ready = FALSE]
      BY <3>1, <3>4
    <3> QED BY <1>4, <3>3, <3>4 DEF Refresh
  <2>3. \A d \in Copy : client'[d].access \in {0, client'[d].refresh}
    BY <1>4 DEF Refresh, NewPair
  <2>4. trouble' \in BOOLEAN /\ renewable' \subseteq 1 .. given'
        /\ step' \in [Copy -> TwSteps]
    BY <1>4, <2>1 DEF Refresh
  <2> QED BY <1>4, <2>1, <2>2, <2>3, <2>4 DEF Refresh, calling
<1>12. ASSUME NEW c \in Copy, RefreshRefused(c) PROVE TokensKnown'
  <2>1. trouble' \in BOOLEAN
    BY <1>12 DEF RefreshRefused
  <2>2. client' \in [Copy -> [access : 0 .. given, refresh : 0 .. given,
                             ready : BOOLEAN]]
    BY <1>12 DEF RefreshRefused
  <2>3. \A d \in Copy : client'[d].access \in {0, client'[d].refresh}
    BY <1>12 DEF RefreshRefused
  <2> QED BY <1>12, <2>1, <2>2, <2>3 DEF RefreshRefused, calling
<1>5. ASSUME NEW c \in Copy, SaveTokens(c) \/ WriteFile(c) PROVE TokensKnown'
  <2>1. /\ file' \in {Empty, file, client[c].refresh}
        /\ UNCHANGED <<client, calling, given, renewable, trouble>>
        /\ step' \in [Copy -> TwSteps]
    BY <1>5 DEF SaveTokens, WriteFile
  <2>2. file' # NoFile => file' \in 0 .. given
    BY <2>1 DEF Empty
  <2> QED BY <2>1, <2>2 DEF calling
<1>6. ASSUME NEW c \in Copy,
             CallAnswered(c) \/ CallUnauthorized(c) \/ CallFails(c) \/ Retry(c)
      PROVE  TokensKnown'
  <2>1. Called(c) \in Static
    BY DEF Called, Static
  <2> QED
    BY <1>6, <2>1
    DEF CallAnswered, CallUnauthorized, CallFails, Retry, Answered, calling
<1>7. CASE CopyInit
  BY <1>7 DEF CopyInit, calling, Copy
<1>8. CASE Authorize
  BY <1>8 DEF Authorize, calling, Copy
<1>9. CASE \E success \in BOOLEAN : ObtainReturns(success)
  BY <1>9 DEF ObtainReturns, calling, Copy
<1>13. CASE UserKnown
  <2>1. (client["init"].ready /\ step["init"] = "ok") \in BOOLEAN
    OBVIOUS
  <2>2. client' \in [Copy -> [access : 0 .. given, refresh : 0 .. given,
                             ready : BOOLEAN]]
    BY <1>13, <2>1 DEF UserKnown, Copy
  <2>3. \A d \in Copy : client'[d].access \in {0, client'[d].refresh}
    BY <1>13 DEF UserKnown, Copy
  <2> QED BY <1>13, <2>2, <2>3 DEF UserKnown, calling, Copy
<1>10. ASSUME NEW c \in {"ws", "event"}, CopyThread(c) \/ NextCall(c)
       PROVE  TokensKnown'
  <2>1. "static" \in Copy /\ c \in Copy
    BY DEF Copy
  <2>2. CASE CopyThread(c)
    BY <2>1, <2>2 DEF CopyThread, calling
  <2>3. CASE NextCall(c)
    <3>1. asks' \in [Copy -> {"user", "own"}]
      BY <2>1, <2>3 DEF NextCall
    <3> QED BY <2>1, <2>3, <3>1 DEF NextCall
  <2> QED BY <1>10, <2>2, <2>3
<1>11. ASSUME NEW a \in accepted, AccessExpires(a) PROVE TokensKnown'
  BY <1>11 DEF AccessExpires, calling
<1> QED
  BY <1>1, <1>2, <1>3, <1>4, <1>5, <1>6, <1>7, <1>8, <1>9, <1>10, <1>11, <1>12, <1>13
  DEF TwNext, CallStep

LEMMA PlacesByStageStep ==
  ASSUME TokensKnown, PlacesByStage, [TwNext]_twVars
  PROVE  PlacesByStage'
<1> USE DEF TokensKnown, PlacesByStage, TwGoto, TwSteps, Copy
<1>1. CASE UNCHANGED twVars
  BY <1>1 DEF twVars, calling
<1>2. CASE PowerOff
  BY <1>2 DEF PowerOff, calling
<1>3. CASE ProgramStart
  BY <1>3 DEF ProgramStart
<1>4. ASSUME NEW c \in Copy, stage # "off", Refresh(c) \/ RefreshRefused(c)
      PROVE  PlacesByStage'
  BY <1>4 DEF Refresh, RefreshRefused, calling
<1>5. ASSUME NEW c \in Copy, stage # "off", SaveTokens(c) \/ WriteFile(c)
      PROVE  PlacesByStage'
  BY <1>5 DEF SaveTokens, WriteFile, calling
<1>6. ASSUME NEW c \in Copy, stage # "off",
             CallAnswered(c) \/ CallUnauthorized(c) \/ CallFails(c) \/ Retry(c)
      PROVE  PlacesByStage'
  BY <1>6
  DEF CallAnswered, CallUnauthorized, CallFails, Retry, Answered, calling, Obtaining
<1>7. CASE CopyInit
  BY <1>7 DEF CopyInit, calling
<1>8. CASE Authorize
  BY <1>8 DEF Authorize, calling, Obtaining
<1>9. CASE UserKnown \/ \E success \in BOOLEAN : ObtainReturns(success)
  BY <1>9 DEF UserKnown, ObtainReturns, calling, Obtaining
<1>10. ASSUME NEW c \in {"ws", "event"}, CopyThread(c) \/ NextCall(c)
       PROVE  PlacesByStage'
  BY <1>10 DEF CopyThread, NextCall, calling
<1>11. ASSUME NEW a \in accepted, AccessExpires(a) PROVE PlacesByStage'
  BY <1>11 DEF AccessExpires, calling
<1> QED
  BY <1>1, <1>2, <1>3, <1>4, <1>5, <1>6, <1>7, <1>8, <1>9, <1>10, <1>11
  DEF TwNext, CallStep

LEMMA SetByItsCallerStep ==
  ASSUME TokensKnown, PlacesByStage, SetByItsCaller, [TwNext]_twVars
  PROVE  SetByItsCaller'
<1> USE DEF TokensKnown, PlacesByStage, SetByItsCaller, TwGoto, TwSteps, Copy, Static
<1>1. CASE UNCHANGED twVars
  BY <1>1 DEF twVars, calling
<1>2. CASE PowerOff
  BY <1>2 DEF PowerOff, calling
<1>3. CASE ProgramStart
  BY <1>3 DEF ProgramStart
<1>4. ASSUME NEW c \in Copy,
             Refresh(c) \/ RefreshRefused(c) \/ SaveTokens(c) \/ WriteFile(c)
      PROVE  SetByItsCaller'
  BY <1>4 DEF Refresh, RefreshRefused, SaveTokens, WriteFile, calling
<1>5. ASSUME NEW c \in Copy, stage # "off",
             CallAnswered(c) \/ CallUnauthorized(c) \/ CallFails(c)
      PROVE  SetByItsCaller'
  <2>1. /\ stage' = stage /\ step[c] = "call"
        /\ Answered(c) \/ UNCHANGED calling
    BY <1>5 DEF CallAnswered, CallUnauthorized, CallFails
  <2> QED BY <1>5, <2>1 DEF Answered, calling, Called
<1>6. ASSUME NEW c \in Copy, stage # "off", Retry(c) PROVE SetByItsCaller'
  BY <1>6 DEF Retry, Called
<1>7. CASE CopyInit \/ Authorize
  BY <1>7 DEF CopyInit, Authorize, calling, Obtaining
<1>8. CASE UserKnown \/ \E success \in BOOLEAN : ObtainReturns(success)
  BY <1>8 DEF UserKnown, ObtainReturns, calling, Obtaining
<1>9. ASSUME NEW c \in {"ws", "event"}, CopyThread(c) PROVE SetByItsCaller'
  BY <1>9 DEF CopyThread, calling
<1>10. ASSUME NEW c \in {"ws", "event"}, NextCall(c) PROVE SetByItsCaller'
  BY <1>10 DEF NextCall
<1>11. ASSUME NEW a \in accepted, AccessExpires(a) PROVE SetByItsCaller'
  BY <1>11 DEF AccessExpires, calling
<1> QED
  BY <1>1, <1>2, <1>3, <1>4, <1>5, <1>6, <1>7, <1>8, <1>9, <1>10, <1>11
  DEF TwNext, CallStep

(* A refresh that is answered: the copy has the one new token and saves    *)
(* it, the others have none.                                               *)
LEMMA RefreshKeeps ==
  ASSUME TokensKnown, PlacesByStage, TokenHeld, stage # "off",
         NEW c \in Copy, Refresh(c), ~trouble, ~trouble'
  PROVE  TokenHeld'
<1> USE DEF TokenHeld
<1>1. /\ step[c] = "refresh" /\ step' = [step EXCEPT ![c] = "save"]
      /\ HoldsToken(c) /\ NewPair(c) /\ given' = given + 1
      /\ renewable' = (renewable \ {client[c].refresh}) \cup {given'}
      /\ given' \in accepted' /\ UNCHANGED <<stage, file, calling>>
  BY DEF Refresh, TwGoto, HoldsToken
<1>2. /\ client'[c] = [access |-> given', refresh |-> given', ready |-> TRUE]
      /\ \A d \in Copy \ {c} : client'[d] = client[d]
  BY <1>1 DEF NewPair, TokensKnown
<1>3. \A d \in Copy : client[d].refresh # given'
  BY <1>1 DEF TokensKnown
<1>4. \A d \in Copy : ~Saving(d)
  BY <1>1 DEF SaverAlone, Saving
<1>5. \A d \in Copy \ {c} : ~HoldsToken(d)'
  BY <1>1, <1>2, <1>3, <1>4 DEF OthersFromFile, HoldsToken
<1>6. HoldsToken(c)'
  BY <1>1, <1>2 DEF HoldsToken
<1>7. /\ Saving(c)'
      /\ \A d \in Copy \ {c} : ~Saving(d)' /\ step'[d] = step[d]
  BY <1>1, <1>4 DEF Saving, TokensKnown
<1>8. SaverAlone' /\ OthersFromFile'
  BY <1>5, <1>6, <1>7 DEF SaverAlone, OthersFromFile
<1>9. HeldByStage'
  <2>1. \/ stage = "start" /\ c = "static"
        \/ stage = "user" /\ c = "init"
        \/ stage \notin {"start", "obtain", "user", "again"}
    BY <1>1 DEF PlacesByStage, HeldByStage, Copy
  <2>2. step'[c] = "save" /\ c \in Copy /\ "static" \in Copy
    BY <1>1 DEF TokensKnown, Copy
  <2> QED BY <1>1, <1>2, <1>5, <1>6, <1>7, <2>1, <2>2 DEF HeldByStage
<1>10. RenewedIsTaken'
  BY <1>1, <1>2, <1>5 DEF RenewedIsTaken
<1>11. GaveUpWithout'
  BY <1>1, <1>5 DEF GaveUpWithout, TokensKnown, Copy
<1> QED BY <1>8, <1>9, <1>10, <1>11

(* Nothing happens to the tokens, and who saves them stays the same.       *)
LEMMA SameTokens ==
  ASSUME TokenHeld, UNCHANGED <<file, renewable>>,
         \A d \in Copy : client'[d].refresh = client[d].refresh,
         \A d \in Copy : Saving(d)' <=> Saving(d)
  PROVE  /\ SaverAlone' /\ OthersFromFile'
         /\ \A d \in Copy : HoldsToken(d)' <=> HoldsToken(d)
<1>1. \A d \in Copy : HoldsToken(d)' <=> HoldsToken(d)
  BY DEF HoldsToken
<1>2. SaverAlone'
  BY <1>1 DEF TokenHeld, SaverAlone
<1>3. OthersFromFile'
  BY <1>1 DEF TokenHeld, OthersFromFile
<1> QED BY <1>1, <1>2, <1>3

(* One that is refused, without trouble, had no token Twitch takes.        *)
LEMMA RefusedKeeps ==
  ASSUME TokensKnown, PlacesByStage, TokenHeld, stage # "off",
         NEW c \in Copy, RefreshRefused(c), ~trouble, ~trouble'
  PROVE  TokenHeld'
<1>1. /\ step[c] = "refresh" /\ step' = [step EXCEPT ![c] = "back"]
      /\ ~HoldsToken(c) /\ client' = [client EXCEPT ![c].ready = FALSE]
      /\ UNCHANGED <<stage, file, calling, renewable, accepted>>
  BY DEF RefreshRefused, TwGoto, HoldsToken
<1>2. /\ \A d \in Copy : client'[d].refresh = client[d].refresh
                        /\ client'[d].access = client[d].access
      /\ client'[c].ready = FALSE
      /\ \A d \in Copy \ {c} : client'[d] = client[d] /\ step'[d] = step[d]
      /\ step'[c] = "back"
  BY <1>1 DEF TokensKnown
<1>3. \A d \in Copy : Saving(d)' <=> Saving(d)
  BY <1>1, <1>2 DEF Saving
<1>4. /\ SaverAlone' /\ OthersFromFile'
      /\ \A d \in Copy : HoldsToken(d)' <=> HoldsToken(d)
  BY <1>1, <1>2, <1>3, SameTokens
<1>5. HeldByStage'
  <2>1. \/ stage = "start" /\ c = "static"
        \/ stage \notin {"start", "obtain", "user", "again"}
    BY <1>1 DEF PlacesByStage, HeldByStage, Copy, TokenHeld
  <2>2. c \in Copy /\ "static" \in Copy
    BY DEF Copy
  <2> QED BY <1>1, <1>2, <1>3, <1>4, <2>1, <2>2 DEF HeldByStage, TokenHeld
<1>6. RenewedIsTaken'
  BY <1>1, <1>2, <1>3, <1>4 DEF RenewedIsTaken, TokenHeld, calling
<1>7. GaveUpWithout'
  BY <1>1, <1>2, <1>4 DEF GaveUpWithout, TokenHeld, calling, Copy
<1> QED BY <1>4, <1>5, <1>6, <1>7 DEF TokenHeld

(* saveTokens: who saves is alone, so the file has the token afterwards.   *)
LEMMA SaveKeeps ==
  ASSUME TokensKnown, PlacesByStage, TokenHeld, stage # "off",
         NEW c \in Copy, SaveTokens(c) \/ WriteFile(c)
  PROVE  TokenHeld'
<1> USE DEF TokenHeld
<1>1. /\ Saving(c) /\ step'[c] \in {"write", "back"}
      /\ step' = [step EXCEPT ![c] = step'[c]]
      /\ step'[c] = "back" => file' = client[c].refresh
      /\ UNCHANGED <<stage, client, calling, renewable, accepted>>
  BY DEF SaveTokens, WriteFile, TwGoto, Saving, TokensKnown
<1>2. HoldsToken(c) /\ \A d \in Copy \ {c} : ~HoldsToken(d) /\ ~Saving(d)
  BY <1>1 DEF SaverAlone
<1>3. /\ \A d \in Copy \ {c} : step'[d] = step[d] /\ ~Saving(d)'
      /\ \A d \in Copy : HoldsToken(d)' <=> HoldsToken(d)
      /\ Saving(c)' <=> step'[c] # "back"
  BY <1>1, <1>2 DEF Saving, HoldsToken, TokensKnown
<1>4. SaverAlone' /\ OthersFromFile'
  BY <1>1, <1>2, <1>3 DEF SaverAlone, OthersFromFile
<1>5. HeldByStage'
  <2>1. "static" \in Copy /\ "init" \in Copy
    BY DEF Copy
  <2>2. stage = "running" /\ ~Saving(c)' => file' \in renewable
    BY <1>1, <1>2, <1>3 DEF HoldsToken
  <2>3. \A d \in Copy : step'[d] # "idle" <=> step[d] # "idle"
    BY <1>1, <1>3 DEF Saving
  <2>4. stage = "start" => c = "static"
    BY <1>1 DEF PlacesByStage, Saving, Copy
  <2>5. step'["init"] # "gaveUp" \/ step'["init"] = step["init"]
    BY <1>1, <1>3, <2>1
  <2> QED
    BY <1>1, <1>2, <1>3, <2>1, <2>2, <2>3, <2>4, <2>5 DEF HeldByStage, Saving
<1>6. RenewedIsTaken'
  BY <1>1, <1>2, <1>3 DEF RenewedIsTaken
<1>7. GaveUpWithout'
  BY <1>1, <1>2, <1>3 DEF GaveUpWithout, calling, Copy
<1> QED BY <1>4, <1>5, <1>6, <1>7

(* A request with a token that was just renewed is answered, so only a     *)
(* copy without one gives up in a function of its own.                     *)
LEMMA CallKeeps ==
  ASSUME TokensKnown, PlacesByStage, SetByItsCaller, TokenHeld, stage # "off",
         NEW c \in Copy, ~trouble',
         CallAnswered(c) \/ CallUnauthorized(c) \/ CallFails(c) \/ Retry(c)
  PROVE  TokenHeld'
<1>1. /\ step[c] \in {"call", "back"} /\ step'[c] \in {"ok", "gaveUp", "refresh", "call"}
      /\ step' = [step EXCEPT ![c] = step'[c]]
      /\ UNCHANGED <<stage, file, client, renewable, accepted, asks>>
  BY DEF CallAnswered, CallUnauthorized, CallFails, Retry, TwGoto, TokensKnown,
         Answered, calling
<1>2. /\ \A d \in Copy \ {c} : retries'[d] = retries[d]
      /\ retries'[c] => retries[c] \/ step[c] = "back"
  BY DEF CallAnswered, CallUnauthorized, CallFails, Retry, TokensKnown, Answered, calling
<1>3. \A d \in Copy \ {c} : step'[d] = step[d]
  BY <1>1 DEF TokensKnown
<1>4. \A d \in Copy : Saving(d)' <=> Saving(d)
  BY <1>1, <1>3 DEF Saving
<1>5. /\ SaverAlone' /\ OthersFromFile'
      /\ \A d \in Copy : HoldsToken(d)' <=> HoldsToken(d)
  BY <1>1, <1>4, SameTokens
<1>6. ASSUME step'[c] = "gaveUp"
      PROVE  isRecursive[Called(c)] /\ client[c].access \notin accepted
  <2>1. ~CallAnswered(c) /\ ~CallFails(c) /\ ~Retry(c)
    BY <1>6 DEF CallAnswered, CallFails, Retry, TwGoto, TokensKnown
  <2> QED
    BY <1>6, <2>1 DEF CallUnauthorized, TwGoto, TokensKnown
<1>7. HeldByStage'
  <2>1. "static" \in Copy /\ "init" \in Copy
    BY DEF Copy
  <2>2. c = "static" => stage # "start"
    BY <1>1 DEF CallAnswered, CallUnauthorized, CallFails, Retry, PlacesByStage
  <2>3. c = "init" => stage # "obtain"
    BY DEF CallAnswered, CallUnauthorized, CallFails, Retry, PlacesByStage, Obtaining
  <2>4. stage = "user" => step'["init"] # "gaveUp"
    <3> SUFFICES ASSUME stage = "user", step'["init"] = "gaveUp" PROVE FALSE
      OBVIOUS
    <3>1. c = "init" /\ HoldsToken("init") /\ asks["init"] = "user"
      BY <1>3, <2>1 DEF TokenHeld, HeldByStage, PlacesByStage
    <3>2. isRecursive["getUserData"]
      BY <1>6, <3>1 DEF Called
    <3>3. retries["init"]
      BY <3>2 DEF SetByItsCaller
    <3> QED BY <1>6, <2>1, <3>1, <3>3 DEF TokenHeld, RenewedIsTaken
  <2> QED
    BY <1>1, <1>3, <1>4, <1>5, <2>1, <2>2, <2>3, <2>4 DEF HeldByStage, TokenHeld
<1>8. RenewedIsTaken'
  BY <1>1, <1>2, <1>3, <1>4, <1>5 DEF RenewedIsTaken, TokenHeld
<1>9. GaveUpWithout'
  <2> SUFFICES ASSUME c \in {"ws", "event"}, step'[c] = "gaveUp", asks[c] = "own"
               PROVE  ~HoldsToken(c)
    BY <1>1, <1>3, <1>5 DEF GaveUpWithout, TokenHeld, Copy
  <2>1. retries[c]
    BY <1>6 DEF Called, SetByItsCaller
  <2> QED BY <1>6, <2>1 DEF TokenHeld, RenewedIsTaken
<1> QED BY <1>5, <1>7, <1>8, <1>9 DEF TokenHeld

(* The program starts: nobody holds a token but the static client, which   *)
(* has the one of the file.                                                *)
LEMMA StartKeeps ==
  ASSUME TokensKnown, ProgramStart
  PROVE  TokenHeld'
<1>1. /\ stage' = "start" /\ UNCHANGED <<file, renewable>>
      /\ \A c \in Copy \ {"static"} : client'[c].refresh = 0 /\ step'[c] = "idle"
      /\ client'["static"].refresh \in {0, file} /\ ~client'["static"].ready
      /\ step'["static"] = "back" => client'["static"].refresh = 0
      /\ step'["static"] \in {"refresh", "back"}
      /\ \A c \in Copy : ~retries'[c]
  BY DEF ProgramStart, NewClient, Copy
<1>2. 0 \notin renewable
  BY DEF TokensKnown
<1>3. /\ \A c \in Copy \ {"static"} : ~HoldsToken(c)'
      /\ HoldsToken("static")' => client'["static"].refresh = file
      /\ step'["static"] = "back" => ~HoldsToken("static")'
      /\ \A c \in Copy : ~Saving(c)'
  BY <1>1, <1>2 DEF HoldsToken, Saving
<1>4. SaverAlone' /\ OthersFromFile'
  BY <1>1, <1>3 DEF SaverAlone, OthersFromFile
<1>5. HeldByStage'
  BY <1>1, <1>3 DEF HeldByStage
<1>6. RenewedIsTaken' /\ GaveUpWithout'
  BY <1>1, <1>3 DEF RenewedIsTaken, GaveUpWithout, Copy
<1> QED BY <1>4, <1>5, <1>6 DEF TokenHeld

(* Who copies the static client holds what that holds.                     *)
LEMMA CopyKeeps ==
  ASSUME TokensKnown, PlacesByStage, TokenHeld, stage # "off",
         CopyInit \/ \E c \in {"ws", "event"} : CopyThread(c)
  PROVE  TokenHeld'
<1>1. PICK c \in {"init", "ws", "event"} :
        /\ c = "init" => CopyInit
        /\ c # "init" => CopyThread(c)
  BY DEF Copy
<1>2. /\ c \in Copy /\ "static" \in Copy /\ step[c] = "idle" /\ ~Saving("static")
      /\ step'[c] \in {"idle", "call"} /\ ~Saving("static")'
      /\ step'["static"] = "idle"
      /\ \A d \in Copy \ {c, "static"} : step'[d] = step[d]
      /\ client' = [client EXCEPT ![c] = client["static"]]
      /\ UNCHANGED <<file, calling, renewable, accepted>>
  BY <1>1 DEF CopyInit, CopyThread, TwGoto, TokensKnown, PlacesByStage, Saving, Copy
<1>3. /\ \A d \in Copy \ {c} : client'[d] = client[d]
      /\ client'[c] = client["static"]
  BY <1>2 DEF TokensKnown
<1>4. /\ \A d \in Copy \ {c} : HoldsToken(d)' <=> HoldsToken(d)
      /\ HoldsToken(c)' <=> HoldsToken("static")
      /\ \A d \in Copy : Saving(d)' <=> Saving(d)
      /\ ~Saving(c) /\ ~retries[c]
  BY <1>2, <1>3 DEF HoldsToken, Saving, PlacesByStage
<1>5. SaverAlone'
  BY <1>2, <1>4 DEF TokenHeld, SaverAlone
<1>6. OthersFromFile'
  BY <1>2, <1>3, <1>4 DEF TokenHeld, OthersFromFile
<1>7. RenewedIsTaken' /\ GaveUpWithout'
  <2>1. \A d \in Copy : step'[d] \in {"back", "gaveUp"} => step[d] = step'[d] /\ d # c
    BY <1>2
  <2> QED
    BY <1>2, <1>3, <1>4, <2>1
    DEF TokenHeld, RenewedIsTaken, GaveUpWithout, calling, Copy
<1>8. HeldByStage'
  <2>1. CASE CopyInit
    <3>1. /\ stage = "start" /\ step["static"] = "back" /\ c = "init"
          /\ IF client["static"].ready
               THEN stage' = "user" /\ step'["init"] = "call"
               ELSE stage' = "obtain" /\ step'["init"] = "idle"
      BY <1>1, <2>1 DEF CopyInit, CopyThread, TokensKnown, Copy
    <3> QED BY <1>2, <1>4, <3>1 DEF TokenHeld, HeldByStage
  <2>2. CASE ~CopyInit
    <3>1. stage = "running" /\ stage' = "running"
      BY <1>1, <2>2 DEF CopyThread
    <3> QED BY <1>2, <1>4, <3>1 DEF TokenHeld, HeldByStage
  <2> QED BY <2>1, <2>2
<1> QED BY <1>5, <1>6, <1>7, <1>8 DEF TokenHeld

(* The player authorizes while nobody holds a token.                       *)
LEMMA AuthorizeKeeps ==
  ASSUME TokensKnown, PlacesByStage, TokenHeld, Authorize
  PROVE  TokenHeld'
<1>1. /\ stage = "obtain" /\ step["init"] = "idle" /\ "init" \in Copy
      /\ \A d \in Copy : ~HoldsToken(d)
  BY DEF Authorize, Obtaining, TokenHeld, HeldByStage, Copy
<1>2. /\ given' = given + 1 /\ renewable' = renewable \cup {given'}
      /\ given' \in accepted' /\ step' = [step EXCEPT !["init"] = "save"]
      /\ UNCHANGED <<stage, file, calling>>
  BY DEF Authorize, TwGoto
<1>3. /\ client'["init"].access = given' /\ client'["init"].refresh = given'
      /\ \A d \in Copy \ {"init"} : client'[d] = client[d]
  BY <1>1 DEF Authorize, TokensKnown
<1>4. /\ HoldsToken("init")' /\ Saving("init")'
      /\ \A d \in Copy \ {"init"} : ~HoldsToken(d)' /\ step'[d] = step[d]
  <2>1. \A d \in Copy : client[d].refresh # given'
    BY <1>2 DEF TokensKnown
  <2> QED BY <1>1, <1>2, <1>3, <2>1 DEF HoldsToken, Saving, TokensKnown
<1>5. \A d \in Copy \ {"init"} : ~Saving(d)'
  BY <1>1, <1>4 DEF TokenHeld, SaverAlone, Saving
<1>6. SaverAlone' /\ OthersFromFile'
  BY <1>1, <1>4, <1>5 DEF SaverAlone, OthersFromFile
<1>7. HeldByStage'
  BY <1>1, <1>2, <1>4 DEF HeldByStage, Saving
<1>8. RenewedIsTaken' /\ GaveUpWithout'
  BY <1>2, <1>3, <1>4 DEF RenewedIsTaken, GaveUpWithout, Copy
<1> QED BY <1>6, <1>7, <1>8 DEF TokenHeld

(* luaCCInit moves on, and a thread to its next call.                      *)
LEMMA StageKeeps ==
  ASSUME TokensKnown, PlacesByStage, TokenHeld, stage # "off",
         \/ UserKnown \/ \E success \in BOOLEAN : ObtainReturns(success)
         \/ \E c \in {"ws", "event"} : NextCall(c)
  PROVE  TokenHeld'
<1>1. UNCHANGED <<file, renewable, accepted, retries>>
  BY DEF UserKnown, ObtainReturns, NextCall, calling
<1>2. \A d \in Copy : /\ client'[d].refresh = client[d].refresh
                     /\ client'[d].access = client[d].access
  BY DEF UserKnown, ObtainReturns, NextCall, TokensKnown
<1>3. PICK c \in {"init", "ws", "event"} :
        /\ step[c] \in {"ok", "gaveUp", "back", "idle"} /\ step'[c] \in {"idle", "call"}
        /\ \A d \in Copy \ {c} : step'[d] = step[d] /\ asks'[d] = asks[d]
  <2>1. CASE UserKnown \/ \E success \in BOOLEAN : ObtainReturns(success)
    BY <2>1 DEF UserKnown, ObtainReturns, TwGoto, TokensKnown, Copy, calling
  <2>2. ASSUME NEW c \in {"ws", "event"}, NextCall(c)
        PROVE  /\ step[c] = "ok" /\ step'[c] = "call"
               /\ \A d \in Copy \ {c} : step'[d] = step[d] /\ asks'[d] = asks[d]
    BY <2>2 DEF NextCall, TwGoto, TokensKnown, Copy
  <2> QED BY <2>1, <2>2
<1>4. \A d \in Copy : Saving(d)' <=> Saving(d)
  BY <1>3 DEF Saving
<1>5. /\ SaverAlone' /\ OthersFromFile'
      /\ \A d \in Copy : HoldsToken(d)' <=> HoldsToken(d)
  BY <1>1, <1>2, <1>4, SameTokens
<1>6. RenewedIsTaken' /\ GaveUpWithout'
  <2>1. \A d \in Copy : step'[d] \in {"back", "gaveUp"} =>
          step[d] = step'[d] /\ asks'[d] = asks[d]
    BY <1>3
  <2> QED
    BY <1>1, <1>2, <1>4, <1>5, <2>1 DEF TokenHeld, RenewedIsTaken, GaveUpWithout, Copy
<1>7. HeldByStage'
  <2>1. CASE UserKnown
    <3>1. /\ stage = "user" /\ step["init"] = "ok" /\ stage' = "running"
          /\ \A d \in Copy : ~Saving(d)
      BY <2>1 DEF UserKnown, TokenHeld, HeldByStage, PlacesByStage, Saving, Copy
    <3>2. file \in renewable
      BY <3>1 DEF TokenHeld, HeldByStage, OthersFromFile, HoldsToken, Copy
    <3> QED BY <1>1, <3>1, <3>2 DEF HeldByStage
  <2>2. ASSUME NEW success \in BOOLEAN, ObtainReturns(success) PROVE HeldByStage'
    <3>1. /\ stage = "obtain"
          /\ IF success THEN /\ step["init"] = "back" /\ stage' = "user"
                             /\ step'["init"] = "call"
                        ELSE stage' = "aborted"
      BY <2>2 DEF ObtainReturns, Obtaining, TokenHeld, HeldByStage, TwGoto,
                  TokensKnown, Copy
    <3> QED BY <1>5, <3>1 DEF TokenHeld, HeldByStage, Copy
  <2>3. ASSUME NEW d \in {"ws", "event"}, NextCall(d) PROVE HeldByStage'
    <3>1. stage = "running" /\ stage' = "running"
      BY <2>3 DEF NextCall
    <3> QED BY <1>1, <1>4, <3>1 DEF TokenHeld, HeldByStage
  <2> QED BY <2>1, <2>2, <2>3
<1> QED BY <1>5, <1>6, <1>7 DEF TokenHeld

(* The console goes off, or an access token expires that nobody has just   *)
(* been given.                                                             *)
LEMMA ExpiresKeeps ==
  ASSUME TokenHeld,
         \/ PowerOff \/ UNCHANGED twVars
         \/ \E a \in accepted : AccessExpires(a)
  PROVE  TokenHeld'
<1>1. /\ UNCHANGED <<file, client, step, asks, retries, renewable>>
      /\ stage' \in {stage, "off"}
  BY DEF PowerOff, AccessExpires, twVars, calling
<1>2. \A d \in Copy : (Saving(d)' <=> Saving(d)) /\ (HoldsToken(d)' <=> HoldsToken(d))
  BY <1>1 DEF Saving, HoldsToken
<1>3. SaverAlone' /\ OthersFromFile' /\ GaveUpWithout'
  BY <1>1, <1>2 DEF TokenHeld, SaverAlone, OthersFromFile, GaveUpWithout, Copy
<1>4. HeldByStage'
  BY <1>1, <1>2 DEF TokenHeld, HeldByStage, Copy
<1>5. RenewedIsTaken'
  <2>1. CASE UNCHANGED accepted
    BY <1>1, <1>2, <2>1 DEF TokenHeld, RenewedIsTaken
  <2>2. CASE \E a \in accepted : AccessExpires(a)
    BY <1>1, <2>2 DEF AccessExpires, RenewedIsTaken, Saving
  <2> QED BY <2>1, <2>2 DEF PowerOff, twVars
<1> QED BY <1>3, <1>4, <1>5 DEF TokenHeld

LEMMA TokenIInvStep ==
  ASSUME TokenIInv, [TwNext]_twVars
  PROVE  TokenIInv'
<1> USE DEF TokenIInv
<1>1. TokensKnown' /\ PlacesByStage' /\ SetByItsCaller'
  BY TokensKnownStep, PlacesByStageStep, SetByItsCallerStep
<1>2. ASSUME ~trouble' PROVE TokenHeld'
  <2>1. CASE ProgramStart
    BY <2>1, StartKeeps
  <2>2. CASE ~ProgramStart
    <3>1. ~trouble
      BY <1>2, <2>2
      DEF TwNext, CallStep, PowerOff, CallAnswered, CallUnauthorized, CallFails,
          Refresh, RefreshRefused, SaveTokens, WriteFile, Retry, CopyInit, Authorize,
          UserKnown, ObtainReturns, CopyThread, NextCall, AccessExpires, twVars
    <3>2. TokenHeld
      BY <3>1
    <3>3. ASSUME NEW c \in Copy, CallStep(c), stage # "off" PROVE TokenHeld'
      <4>1. CASE Refresh(c)
        BY <1>2, <3>1, <3>2, <3>3, <4>1, RefreshKeeps
      <4>2. CASE RefreshRefused(c)
        BY <1>2, <3>1, <3>2, <3>3, <4>2, RefusedKeeps
      <4>3. CASE SaveTokens(c) \/ WriteFile(c)
        BY <3>2, <3>3, <4>3, SaveKeeps
      <4>4. CASE CallAnswered(c) \/ CallUnauthorized(c) \/ CallFails(c) \/ Retry(c)
        BY <1>2, <3>2, <3>3, <4>4, CallKeeps
      <4> QED BY <3>3, <4>1, <4>2, <4>3, <4>4 DEF CallStep
    <3>4. CASE stage # "off" /\ (CopyInit \/ \E c \in {"ws", "event"} : CopyThread(c))
      BY <3>2, <3>4, CopyKeeps
    <3>5. CASE Authorize
      BY <3>2, <3>5, AuthorizeKeeps
    <3>6. CASE /\ stage # "off"
               /\ \/ UserKnown \/ \E success \in BOOLEAN : ObtainReturns(success)
                  \/ \E c \in {"ws", "event"} : NextCall(c)
      BY <3>2, <3>6, StageKeeps
    <3>7. CASE \/ PowerOff \/ UNCHANGED twVars
               \/ \E a \in accepted : AccessExpires(a)
      BY <3>2, <3>7, ExpiresKeeps
    <3> QED BY <2>2, <3>3, <3>4, <3>5, <3>6, <3>7 DEF TwNext
  <2> QED BY <2>1, <2>2
<1> QED BY <1>1, <1>2

-----------------------------------------------------------------------------
(* However many pairs of tokens Twitch gives out and however often the     *)
(* program starts, once luaCCInit is through the file has a refresh token  *)
(* that Twitch takes, unless an answer was lost or a save is under way.    *)
THEOREM FileKeepsToken == TwSpec => []FileHoldsToken
<1>1. TokenIInv => FileHoldsToken
  BY DEF TokenIInv, TokenHeld, HeldByStage, FileHoldsToken, Saving
<1> QED BY <1>1, TokenIInvInit, TokenIInvStep, PTL DEF TwSpec

(* And a thread of the mod gives up in a function of its own only when it  *)
(* has no refresh token that Twitch would take.                            *)
THEOREM GivesUpOnlyWithout == TwSpec => []GivesUpWithoutToken
<1>1. TokenIInv => GivesUpWithoutToken
  BY DEF TokenIInv, TokenHeld, GaveUpWithout, GivesUpWithoutToken, HoldsToken
<1> QED BY <1>1, TokenIInvInit, TokenIInvStep, PTL DEF TwSpec
=============================================================================

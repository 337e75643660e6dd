---------------------- MODULE CrowdControlPollsProofs ----------------------
(***************************************************************************)
(* config.cpp says that the mod breaks unless pollDuration is shorter than *)
(* pollInterval.  Here is that it does not break, in that way, if it is,   *)
(* and what the added seconds are for: they must cover the time by which   *)
(* Twitch ends a poll late.                                                *)
(***************************************************************************)
EXTENDS CrowdControlPolls, TLAPS

(* The event thread sleeps longer than the poll can stay open, OpenFor.    *)
Polls == [id : Ids, left : 0 .. PollDuration, late : 0 .. EndDelay]
OpenFor == poll.left + EndDelay - poll.late
SleepsLonger ==
  /\ asleep \in Nat
  /\ lastPoll \in Ids
  /\ poll = NoPoll \/ poll \in Polls
  /\ events = "create" => poll = NoPoll
  /\ events = "asleep" /\ poll # NoPoll => OpenFor < asleep

LEMMA InitSleeps == Init => SleepsLonger
  BY DEF Init, SleepsLonger, Ids

(* The event loop: a poll that is open when it goes to sleep has at most   *)
(* pollDuration and the delay to go.                                       *)
LEMMA EventSleeps ==
  ASSUME PollDuration < PollInterval, EndDelay <= Slack,
         SleepsLonger, EventStep \/ Start
  PROVE  SleepsLonger'
<1> USE PollAssumption
<1>1. CASE EventUser \/ Start
  BY <1>1 DEF EventUser, Start, SleepsLonger, twitchVars, OpenFor
<1>2. CASE EventCheck
  <2>1. poll' = poll /\ lastPoll' = lastPoll /\ events' \in {"asleep", "stopped"}
    BY <1>2 DEF EventCheck, EventsOver, twitchVars
  <2>2. CASE events' = "stopped"
    <3>1. asleep' = asleep
      BY <1>2, <2>2 DEF EventCheck
    <3> QED
      BY <2>1, <2>2, <3>1 DEF SleepsLonger
  <2>3. CASE events' = "asleep"
    <3>1. asleep' = PollInterval + Slack
      BY <1>2, <2>3 DEF EventCheck, EventsOver, SleepFor
    <3>2. poll \in Polls => OpenFor \in Int /\ OpenFor <= PollDuration + EndDelay
      BY DEF Polls, OpenFor
    <3>3. OpenFor' = OpenFor
      BY <2>1 DEF OpenFor
    <3> QED
      BY <2>1, <2>3, <3>1, <3>2, <3>3 DEF SleepsLonger
  <2> QED
    BY <2>1, <2>2, <2>3
<1>3. CASE EventWake
  <2>1. poll = NoPoll
    BY <1>3 DEF EventWake, SleepsLonger, OpenFor, Polls
  <2> QED
    BY <1>3, <2>1 DEF EventWake, SleepsLonger, twitchVars
<1>4. CASE CreatePoll
  <2>1. asleep' = asleep /\ events' # "create" /\ events' # "asleep"
    BY <1>4 DEF CreatePoll, EventsOver
  <2>2. NextId \in Ids
    BY DEF NextId, Ids, SleepsLonger
  <2>3. \/ poll' = poll /\ lastPoll' = lastPoll
        \/ /\ poll' = [id |-> NextId, left |-> PollDuration, late |-> 0]
           /\ lastPoll' = NextId
    BY <1>4 DEF CreatePoll
  <2> QED
    BY <2>1, <2>2, <2>3 DEF SleepsLonger, Polls
<1> QED
  BY <1>1, <1>2, <1>3, <1>4 DEF EventStep

(* A second passes for the poll as it does for the event thread.           *)
LEMMA SecondSleeps ==
  ASSUME SleepsLonger, Second
  PROVE  SleepsLonger'
<1> USE PollAssumption
<1>1. lastPoll' = lastPoll /\ events' = events /\ asleep' = Down(asleep)
  BY DEF Second
<1>2. CASE poll = NoPoll
  <2>1. poll' = NoPoll
    <3>1. NoPoll.left = -1 /\ NoPoll.late = 0
      BY DEF NoPoll
    <3>2. poll' = [NoPoll EXCEPT !.left = -1, !.late = 0]
      BY <1>2, <3>1 DEF Second, Down
    <3> QED
      BY <3>2 DEF NoPoll
  <2> QED
    BY <1>1, <2>1 DEF SleepsLonger, Down
<1>3. CASE poll \in Polls
  <2> DEFINE late == IF poll.left = 0 THEN poll.late + 1 ELSE poll.late
  <2>a. poll' = [poll EXCEPT !.left = Down(poll.left), !.late = late]
    BY DEF Second
  <2>b. poll.left \in 0 .. PollDuration /\ poll.late \in 0 .. EndDelay
    BY <1>3 DEF Polls
  <2>c. poll.left = 0 => poll.late < EndDelay
    BY DEF Second
  <2>d. Down(poll.left) \in 0 .. PollDuration /\ late \in 0 .. EndDelay
    BY <2>b, <2>c DEF Down
  <2>1. /\ poll'.left = Down(poll.left) /\ poll'.late = late
        /\ poll' \in Polls
    <3> HIDE DEF late
    <3> QED
      BY <1>3, <2>a, <2>d DEF Polls
  <2>2. OpenFor' = OpenFor - 1 /\ OpenFor \in Nat
    BY <2>1, <2>b, <2>c DEF OpenFor, Down
  <2>3. events' # "create"
    BY <1>1, <1>3 DEF SleepsLonger, NoPoll, Polls
  <2> QED
    BY <1>1, <1>3, <2>1, <2>2, <2>3 DEF SleepsLonger, Down, NoPoll, Polls
<1> QED
  BY <1>2, <1>3 DEF SleepsLonger

(* The websocket thread does not touch any of it, and a poll may end.      *)
LEMMA OthersSleep ==
  ASSUME SleepsLonger, WsStep \/ EndPoll \/ LinkLost \/ UNCHANGED vars
  PROVE  SleepsLonger'
<1>1. /\ asleep' = asleep /\ events' = events /\ lastPoll' = lastPoll
      /\ poll' = poll \/ poll' = NoPoll
  <2>1. CASE WsStep
    BY <2>1 DEF WsStep, Connect, WsCheck, Subscribe, ReceiveClosed,
          ReceiveWelcome, ReceiveReconnect, ReceivePollEnd, ReceiveOther, WsRest,
          eventVars, twitchVars
  <2>2. CASE EndPoll \/ LinkLost \/ UNCHANGED vars
    BY <2>2 DEF EndPoll, LinkLost, vars, eventVars, twitchVars
  <2> QED
    BY <2>1, <2>2
<1>2. poll' = poll => OpenFor' = OpenFor
  BY DEF OpenFor
<1> QED
  BY <1>1, <1>2 DEF SleepsLonger

(* For any durations with pollDuration < pollInterval, the event thread    *)
(* never asks for a poll while another is open, provided that Twitch ends  *)
(* a poll within the five seconds that eventLoop adds.                     *)
THEOREM PollsDoNotCollide ==
  ASSUME PollDuration < PollInterval, EndDelay <= Slack
  PROVE  Spec => []NoPollCollision
<1>1. SleepsLonger /\ [Next]_vars => SleepsLonger'
  BY EventSleeps, SecondSleeps, OthersSleep DEF Next
<1>2. SleepsLonger => NoPollCollision
  BY DEF SleepsLonger, NoPollCollision
<1> QED
  BY <1>1, <1>2, InitSleeps, PTL DEF Spec
=============================================================================

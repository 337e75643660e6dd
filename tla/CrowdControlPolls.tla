------------------------- MODULE CrowdControlPolls -------------------------
(***************************************************************************)
(* The two threads of the crowd control mod for Scarlet/Violet             *)
(* (pokemon_sv/mod_crowd_control/src/lua.cpp): the event thread opens a    *)
(* poll on Twitch every so often, the websocket thread listens for the end *)
(* of the polls and launches what was voted for.  They share nothing but   *)
(* Twitch and the flag running.  The clock is a set of countdowns, in      *)
(* seconds.  How the winner is found is PollTally, and what an effect does *)
(* CrowdControlEffects.                                                    *)
(***************************************************************************)
EXTENDS Integers, Sequences

CONSTANTS
  PollInterval, PollDuration, EffectDuration,   \* of config.cpp
  Slack,          \* the seconds the event loop adds to pollInterval
  EndDelay,       \* bound: Twitch ends a poll at most that late
  NotifyDelay,    \* bound: a notification is handled at most that late
  MayTerminate    \* whether the streamer may end a poll early

ASSUME PollAssumption ==
  /\ {PollInterval, PollDuration, EffectDuration, Slack, EndDelay, NotifyDelay}
       \subseteq Nat
  /\ MayTerminate \in BOOLEAN

VARIABLES
  running,    \* running
  events,     \* where the event thread is
  asleep,     \* the seconds it still sleeps for
  ws,         \* where the websocket thread is
  opened,     \* whether the websocket was connected
  link,       \* external: the connection: up, closed by Twitch, or failed
  session,    \* external: how far the subscription is
  poll,       \* external: the poll that viewers vote in, or NoPoll
  lastPoll,   \* external: the number of the last poll
  inbox,      \* external: the notifications under way
  force,      \* the seconds each poll's effect is still in force
  launched,   \* history: how often each poll launched an effect
  crashSeen   \* history: the notice that the mod crashed was pushed

eventVars == <<events, asleep, crashSeen>>
wsVars == <<ws, opened>>
twitchVars == <<link, session, poll, lastPoll, inbox>>
effectVars == <<force, launched>>
vars == <<running, eventVars, wsVars, twitchVars, effectVars>>

(* Polls are numbered in a ring that is large enough not to mix them up.   *)
Ids == 0 .. 3
NoPoll == [id |-> 0, left |-> -1, late |-> 0]
Status == {"completed", "archived"}

TypeOK ==
  /\ running \in BOOLEAN /\ opened \in BOOLEAN
  /\ link \in {"up", "closed", "failed"}
  /\ crashSeen \in BOOLEAN
  /\ events \in {"new", "user", "check", "asleep", "create", "stopped"}
  /\ asleep \in 0 .. PollInterval + Slack
  /\ ws \in {"new", "connect", "check", "receive", "subscribe", "stopped"}
  /\ session \in {"new", "welcomed", "subscribed", "moved"}
  /\ poll \in [id : Ids, left : -1 .. PollDuration, late : 0 .. EndDelay]
  /\ lastPoll \in Ids
  /\ inbox \in Seq([id : Ids, status : Status, age : 0 .. NotifyDelay])
  /\ force \in [Ids -> 0 .. EffectDuration]
  /\ launched \in [Ids -> Nat]

Init ==
  /\ running = FALSE /\ opened = FALSE /\ link = "up" /\ crashSeen = FALSE
  /\ events = "new" /\ asleep = 0
  /\ ws = "new" /\ session = "new"
  /\ poll = NoPoll /\ lastPoll = 0 /\ inbox = <<>>
  /\ force = [i \in Ids |-> 0]
  /\ launched = [i \in Ids |-> 0]

(* luaCCStart: the first call starts both threads, the others do nothing.  *)
Start ==
  /\ events = "new"
  /\ running' = TRUE
  /\ events' = "user" /\ ws' = "connect"
  /\ UNCHANGED <<asleep, crashSeen, opened, twitchVars, effectVars>>

-----------------------------------------------------------------------------
(* eventLoop.                                                              *)
(* A request to Twitch may fail for any reason.                            *)
EventUser ==
  /\ events = "user"
  /\ \/ events' = "check" /\ UNCHANGED running
     \/ events' = "stopped" /\ running' = FALSE
  /\ UNCHANGED <<asleep, crashSeen, wsVars, twitchVars, effectVars>>

(* Mutant: without the seconds to spare.                                   *)
NoSlack == PollInterval
SleepFor == PollInterval + Slack

(* Leaving the loop, whoever ended it, tells the player.                   *)
(* Mutant: a loop that was ended by the other thread says nothing.         *)
EventsOverSilent ==
  /\ events' = "stopped" /\ running' = FALSE
  /\ crashSeen' = (crashSeen \/ running)
EventsOver ==
  /\ events' = "stopped" /\ running' = FALSE
  /\ crashSeen' = TRUE

EventCheck ==
  /\ events = "check"
  /\ IF running
       THEN /\ events' = "asleep" /\ asleep' = SleepFor
            /\ UNCHANGED <<running, crashSeen>>
       ELSE EventsOver /\ UNCHANGED asleep
  /\ UNCHANGED <<wsVars, twitchVars, effectVars>>

EventWake ==
  /\ events = "asleep" /\ asleep = 0
  /\ events' = "create"
  /\ UNCHANGED <<running, asleep, crashSeen, wsVars, twitchVars, effectVars>>

(* Twitch refuses a poll while there is one.                               *)
NextId == (lastPoll + 1) % 4
CreatePoll ==
  /\ events = "create"
  /\ \/ /\ poll = NoPoll
        /\ poll' = [id |-> NextId, left |-> PollDuration, late |-> 0]
        /\ lastPoll' = NextId
        /\ launched' = [launched EXCEPT ![NextId] = 0]
        /\ events' = "check"
        /\ UNCHANGED <<running, crashSeen>>
     \/ EventsOver /\ UNCHANGED <<poll, lastPoll, launched>>
  /\ UNCHANGED <<asleep, wsVars, link, session, inbox, force>>

-----------------------------------------------------------------------------
(* wsLoop.                                                                 *)
(* A websocket whose handshake fails ends the thread and nothing else (a   *)
(* refused connection ends the program, see WebsocketClient).              *)
Connect ==
  /\ ws = "connect"
  /\ \/ ws' = "check" /\ opened' = TRUE
     \/ ws' = "stopped" /\ UNCHANGED opened
  /\ UNCHANGED <<running, eventVars, twitchVars, effectVars>>

(* Mutant: the thread forgets to stop the other one.                       *)
WsOverAlone == ws' = "stopped" /\ inbox' = <<>> /\ UNCHANGED running
WsOver == ws' = "stopped" /\ inbox' = <<>> /\ running' = FALSE

WsCheck ==
  /\ ws = "check"
  /\ IF running
       THEN ws' = "receive" /\ UNCHANGED <<running, inbox>>
       ELSE WsOver
  /\ UNCHANGED <<eventVars, opened, link, session, poll, lastPoll, effectVars>>

Receiving(next) == ws = "receive" /\ ws' = next
Delivers == link = "up"
WsRest == UNCHANGED <<running, eventVars, opened>>

(* receiveJson yields nothing and open() is false.                         *)
ReceiveClosed ==
  /\ ws = "receive" /\ link = "closed"
  /\ WsOver
  /\ UNCHANGED <<eventVars, opened, link, session, poll, lastPoll, effectVars>>

ReceiveWelcome ==
  /\ Receiving("subscribe") /\ Delivers
  /\ session \in {"new", "moved"}
  /\ session' = IF session = "new" THEN "welcomed" ELSE "subscribed"
  /\ WsRest /\ UNCHANGED <<link, poll, lastPoll, inbox, effectVars>>

(* getUserData, then subscribeEvent: any of them may fail.                 *)
Subscribe ==
  /\ ws = "subscribe"
  /\ \/ /\ session' = "subscribed" /\ ws' = "check"
        /\ UNCHANGED <<running, inbox>>
     \/ WsOver /\ UNCHANGED session
  /\ UNCHANGED <<eventVars, opened, link, poll, lastPoll, effectVars>>

(* The new connection is welcomed like the first; Twitch moves the         *)
(* subscription there.  reconnect does not say whether it worked; if not,  *)
(* the websocket is closed.                                                *)
ReceiveReconnect ==
  /\ Receiving("check") /\ Delivers
  /\ session = "subscribed"
  /\ \/ session' = "moved" /\ UNCHANGED link
     \/ link' = "closed" /\ UNCHANGED session
  /\ inbox' = IF link' = "closed" THEN <<>> ELSE inbox
  /\ WsRest /\ UNCHANGED <<poll, lastPoll, effectVars>>

(* The status that is passed over: the same poll is archived later.        *)
(* Mutants: none is, or all but that one are.                              *)
IgnoresNothing(status) == FALSE
IgnoresOthers(status) == status # "completed"
Ignores(status) == status = "completed"

ReceivePollEnd ==
  /\ Receiving("check") /\ Delivers
  /\ inbox # <<>> /\ inbox' = Tail(inbox)
  /\ IF Ignores(Head(inbox).status)
       THEN UNCHANGED effectVars
       ELSE LET id == Head(inbox).id IN
            /\ launched' = [launched EXCEPT ![id] = @ + 1]
            /\ force' = [force EXCEPT ![id] = EffectDuration]
  /\ WsRest /\ UNCHANGED <<link, session, poll, lastPoll>>

(* A keepalive, an unknown event, or nothing from a websocket that says it *)
(* is open: one that failed says so for ever.                              *)
ReceiveOther ==
  /\ Receiving("check") /\ link # "closed"
  /\ WsRest /\ UNCHANGED <<twitchVars, effectVars>>

-----------------------------------------------------------------------------
(* Twitch and the clock.                                                   *)
(* A subscriber is told that a poll ended and, later, that it is archived. *)
Told(statuses) ==
  inbox' = IF session \in {"subscribed", "moved"} /\ ws # "stopped" /\ Delivers
             THEN inbox \o [i \in DOMAIN statuses |->
                              [id |-> poll.id, status |-> statuses[i], age |-> 0]]
             ELSE inbox

EndPoll ==
  /\ poll # NoPoll /\ poll' = NoPoll
  /\ \/ poll.left = 0 /\ Told(<<"completed", "archived">>)
     \/ MayTerminate /\ Told(<<"archived">>)
  /\ UNCHANGED <<running, eventVars, wsVars, link, session, lastPoll, effectVars>>

LinkLost ==
  /\ Delivers /\ link' \in {"closed", "failed"}
  /\ inbox' = <<>>
  /\ UNCHANGED <<running, eventVars, wsVars, session, poll, lastPoll, effectVars>>

Down(n) == IF n > 0 THEN n - 1 ELSE n
Second ==
  /\ poll.left = 0 => poll.late < EndDelay
  /\ \A i \in DOMAIN inbox : inbox[i].age < NotifyDelay
  /\ asleep' = Down(asleep)
  /\ poll' = [poll EXCEPT !.left = Down(@),
                          !.late = IF poll.left = 0 THEN @ + 1 ELSE @]
  /\ inbox' = [i \in DOMAIN inbox |-> [inbox[i] EXCEPT !.age = @ + 1]]
  /\ force' = [i \in Ids |-> Down(force[i])]
  /\ UNCHANGED <<running, events, crashSeen, wsVars, link, session, lastPoll,
                 launched>>

-----------------------------------------------------------------------------
EventStep == EventUser \/ EventCheck \/ EventWake \/ CreatePoll
WsStep == \/ Connect \/ WsCheck \/ Subscribe \/ ReceiveClosed \/ ReceiveWelcome
          \/ ReceiveReconnect \/ ReceivePollEnd \/ ReceiveOther
Next == Start \/ EventStep \/ WsStep \/ EndPoll \/ LinkLost \/ Second

(* Both threads are scheduled, requests return, Twitch ends the polls and  *)
(* sends keepalives or closes the connection, so that a receive returns,   *)
(* and other messages do not hold a notification back for ever.            *)
Spec ==
  /\ Init /\ [][Next]_vars
  /\ WF_vars(Second) /\ WF_vars(EventStep) /\ WF_vars(WsStep)
  /\ WF_vars(EndPoll /\ poll.left = 0) /\ SF_vars(ReceivePollEnd)

-----------------------------------------------------------------------------
(* No poll is opened while viewers still vote in the last one, as long as  *)
(* pollDuration is shorter than pollInterval.                              *)
NoPollCollision == events = "create" => poll = NoPoll

(* A poll launches its effect once, and not before viewers are done.       *)
OneEffectPerPoll ==
  \A i \in Ids : /\ launched[i] <= 1
                 /\ launched[i] > 0 => i # poll.id \/ poll = NoPoll

(* The effects of two polls are not in force together if they last no      *)
(* longer than the time between two polls less what a poll and its notice  *)
(* may take (the streamer may end the next poll as soon as it is open).    *)
InForce == {i \in Ids : force[i] > 0}
EffectsApart == \A i, j \in InForce : i = j

(* What config.cpp tells the player instead: only an effectDuration longer *)
(* than pollInterval + pollDuration lets them overlap.                     *)
EffectsOverlapOnlyIfLonger ==
  EffectDuration <= PollInterval + PollDuration => EffectsApart

(* If one thread gives up the other does too, wherever it is; a websocket  *)
(* that was never opened is the exception.                                 *)
StopTogether ==
  events = "stopped" \/ (opened /\ ws = "stopped")
    ~> events = "stopped" /\ ws = "stopped"

(* The player is told when the websocket thread gave up an open websocket, *)
(* unless the event thread did before its loop.                            *)
CrashIsAnnounced ==
  opened /\ ws = "stopped" /\ events \in {"check", "asleep", "create"}
    ~> crashSeen

(* Both: wherever a thread gives up, polls end and the player knows it.    *)
StopTogetherAndTell == StopTogether /\ CrashIsAnnounced

(* A poll that ended is followed by its effect, unless the websocket is    *)
(* lost or its thread given up.                                            *)
PollHasEffect ==
  \A i \in Ids :
    (\E n \in DOMAIN inbox : inbox[n].id = i)
      ~> launched[i] > 0 \/ ws = "stopped" \/ ~Delivers

(* Both: each poll has exactly one effect.                                 *)
EachPollOneEffect == []OneEffectPerPoll /\ PollHasEffect
=============================================================================

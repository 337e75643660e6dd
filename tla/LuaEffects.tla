------------------------------ MODULE LuaEffects ------------------------------
(***************************************************************************)
(* The Lua half of the crowd control mod                                   *)
(* (pokemon_sv/mod_crowd_control/romfs/script/lua/boot and the scripts of  *)
(* pokemon_sv/common it uses): effects that last, each with a timer and a  *)
(* coroutine that the game resumes once a frame; the start of the mod; the *)
(* notices and announcements.                                              *)
(*                                                                         *)
(* A Lua call is one step here: two threads in one Lua state at once are   *)
(* beyond any model.  Times are what cc_Tick returns.                      *)
(***************************************************************************)
EXTENDS Integers

CONSTANTS
  LuaEffect,     \* the five effects that last, or some of them
  MaxTick        \* bound of cc_Tick

ASSUME LuaAssumption == MaxTick \in Nat \ {0}

VARIABLES
  tick,          \* cc_Tick
  deadline,      \* filterTimer, disableTimer, ...: 0 when off
  listeners,     \* the coroutines of each effect that are registered
  lasts,         \* history: when the last launch of each effect is over
  initDone,      \* cc_init_done
  started,       \* cc_started
  starts,        \* history: how often the threads were started
  hasStarter,    \* the player has a first Pokemon
  noticeQueue,   \* length of NOTICE_QUEUE
  noticeTags,    \* notices the game was asked for and has not set up
  announceQueue, \* length of ANNOUNCE_QUEUE
  announceTags   \* as noticeTags

timerVars == <<deadline, listeners, lasts>>
startVars == <<initDone, started, starts, hasStarter>>
noticeVars == <<noticeQueue, noticeTags>>
announceVars == <<announceQueue, announceTags>>
luaVars == <<tick, timerVars, startVars, noticeVars, announceVars>>

LuaInit ==
  /\ tick = 1
  /\ deadline = [e \in LuaEffect |-> 0]
  /\ listeners = [e \in LuaEffect |-> 0]
  /\ lasts = [e \in LuaEffect |-> 0]
  /\ initDone = FALSE
  /\ started = FALSE
  /\ starts = 0
  /\ hasStarter = FALSE
  /\ noticeQueue = 0 /\ noticeTags = 0
  /\ announceQueue = 0 /\ announceTags = 0

-----------------------------------------------------------------------------
(* CC_RANDOM_FILTER, CC_DISABLE_ABILITIES, CC_ENABLE_...(time): a listener *)
(* is registered when the timer was off, and a running one goes on longer. *)
(* Mutants: each launch has its own listener; the test is the wrong way    *)
(* round; a running timer is kept.                                         *)
ShouldEnableAlways(e) == TRUE
ShouldEnableInverted(e) == deadline[e] # 0
ShouldEnable(e) == deadline[e] = 0
DeadlineKept(e, time) ==
  IF deadline[e] = 0 THEN tick + time ELSE deadline[e]
NewDeadline(e, time) == tick + time
LaunchEffect(e, time) ==
  /\ starts > 0 /\ tick + time <= MaxTick
  /\ deadline' = [deadline EXCEPT ![e] = NewDeadline(e, time)]
  /\ listeners' = [listeners EXCEPT ![e] = IF ShouldEnable(e) THEN @ + 1 ELSE @]
  /\ lasts' = [lasts EXCEPT ![e] = tick + time]
  /\ UNCHANGED <<tick, startVars, noticeVars, announceVars>>

(* The game resumes a listener: it yields again, or ends the effect and    *)
(* removes itself.                                                         *)
Elapsed(e) == tick >= deadline[e] \/ deadline[e] = 0
ResumeListener(e) ==
  /\ listeners[e] > 0
  /\ Elapsed(e)
  /\ deadline' = [deadline EXCEPT ![e] = 0]
  /\ listeners' = [listeners EXCEPT ![e] = @ - 1]
  /\ UNCHANGED <<tick, lasts, startVars, noticeVars, announceVars>>

LuaClock ==
  /\ tick < MaxTick
  /\ tick' = tick + 1
  /\ UNCHANGED <<timerVars, startVars, noticeVars, announceVars>>

-----------------------------------------------------------------------------
(* The title screen is set up, perhaps more than once: cc_Init.            *)
TitleSetup ==
  /\ ~initDone
  /\ initDone' = TRUE
  /\ UNCHANGED <<tick, timerVars, started, starts, hasStarter, noticeVars,
                 announceVars>>

(* luaCCStart: the threads start once.                                     *)
StartsOnce == IF starts = 0 THEN 1 ELSE starts
CcStart == starts' = StartsOnce

(* pushNotice: dropped while another waits.                                *)
Asked == noticeTags + 1
PushNotice ==
  IF noticeQueue # 0 THEN UNCHANGED noticeVars
    ELSE noticeQueue' = 1 /\ noticeTags' = Asked

(* The end of the scenario in which the player gets the first Pokemon ...  *)
GetStarter ==
  /\ initDone /\ ~hasStarter
  /\ hasStarter' = TRUE
  /\ CcStart
  /\ PushNotice
  /\ UNCHANGED <<tick, timerVars, initDone, started, announceVars>>
(* ... which may also be in the save already; ...                          *)
LoadSave ==
  /\ initDone /\ ~hasStarter /\ starts = 0
  /\ hasStarter' = TRUE
  /\ UNCHANGED <<tick, timerVars, initDone, started, starts, noticeVars,
                 announceVars>>
(* ... and then the first frame in which the player moves about.           *)
PostUpdate ==
  /\ hasStarter /\ ~started
  /\ started' = TRUE
  /\ CcStart
  /\ PushNotice
  /\ UNCHANGED <<tick, timerVars, initDone, hasStarter, announceVars>>

-----------------------------------------------------------------------------
(* A poll is announced, or the crash.                                      *)
ThreadNotice ==
  /\ starts > 0
  /\ PushNotice
  /\ UNCHANGED <<tick, timerVars, startVars, announceVars>>
(* The game sets up a notice: one of ours, or one of its own, which then   *)
(* shows our text.                                                         *)
SetUpNotice(ours) ==
  /\ ours => noticeTags > 0
  /\ noticeQueue' = 0
  /\ noticeTags' = IF ours THEN noticeTags - 1 ELSE noticeTags
  /\ noticeQueue # 0 \/ ours
  /\ UNCHANGED <<tick, timerVars, startVars, announceVars>>

(* pushAnnounce: the newest takes the place of one that waits.             *)
PushAnnounce ==
  /\ starts > 0 /\ announceTags < 2
  /\ announceQueue' = 1
  /\ announceTags' = announceTags + 1
  /\ UNCHANGED <<tick, timerVars, startVars, noticeVars>>
SetUpAnnounce(ours) ==
  /\ ours => announceTags > 0
  /\ announceQueue' = 0
  /\ announceTags' = IF ours THEN announceTags - 1 ELSE announceTags
  /\ announceQueue # 0 \/ ours
  /\ UNCHANGED <<tick, timerVars, startVars, noticeVars>>

LuaStart == TitleSetup \/ GetStarter \/ LoadSave \/ PostUpdate
LuaNotices ==
  \/ ThreadNotice /\ noticeTags < 3
  \/ PushAnnounce
  \/ \E ours \in BOOLEAN : SetUpNotice(ours) \/ SetUpAnnounce(ours)
LuaNext ==
  \/ \E e \in LuaEffect :
       (\E time \in 1 .. MaxTick : LaunchEffect(e, time)) \/ ResumeListener(e)
  \/ LuaClock
  \/ LuaStart
  \/ LuaNotices

LuaSpec == LuaInit /\ [][LuaNext]_luaVars

-----------------------------------------------------------------------------
(* An effect is on until its last launch is over: a launch while it runs   *)
(* makes it longer, and the listener of the first launch must not end it.  *)
(* One listener does for it, for as long as it is on.                      *)
EffectLasts ==
  \A e \in LuaEffect :
    /\ lasts[e] > tick => deadline[e] = lasts[e]
    /\ listeners[e] = IF deadline[e] = 0 THEN 0 ELSE 1

(* An effect that is on goes off, if it is not launched again for ever     *)
(* (MaxTick ends that): its listener is resumed each frame, and the clock  *)
(* goes on.                                                                *)
EffectEnds == \A e \in LuaEffect : deadline[e] # 0 ~> deadline[e] = 0
=============================================================================

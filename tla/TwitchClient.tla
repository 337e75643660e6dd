---------------------------- MODULE TwitchClient ----------------------------
(***************************************************************************)
(* TwitchClient (common/src/net/twitch/TwitchClient.cpp) and its token     *)
(* file, as mod_crowd_control uses them: the static client reads the file, *)
(* luaCCInit and the two threads each work on a COPY of it.  A client is a *)
(* pair of tokens; Twitch takes a refresh token once and gives a new pair. *)
(***************************************************************************)
EXTENDS Naturals

CONSTANTS
  MaxToken,   \* bound: pairs of tokens Twitch gives out
  MaxStart    \* bound: starts of the program

ASSUME TwitchAssumption == MaxToken \in Nat \ {0} /\ MaxStart \in Nat \ {0}

VARIABLES
  stage,      \* of the program: see TwTypeOK
  starts,     \* starts so far
  file,       \* twitch.tokens: a token, Empty when created only, or NoFile
  client,     \* accessToken, refreshToken, tokensReady of each copy
  step,       \* place of each copy in its call
  asks,       \* what each copy calls: getUserData or a function of its own
  retries,    \* whether each copy's call is the one made after a refresh
  isRecursive,    \* the static of each function
  given,      \* Twitch: pairs given out
  renewable,  \* Twitch: refresh tokens it takes
  accepted,   \* Twitch: access tokens it takes
  trouble     \* history: a request or its answer was lost in this run

calling == <<asks, retries, isRecursive>>
twVars == <<stage, starts, file, client, step, calling, given, renewable,
            accepted, trouble>>

Copy == {"static", "init", "ws", "event"}
Static == {"getUserData", "subscribeEvent", "createPoll"}
Token == 0..MaxToken       \* 0: the empty string
NoFile == MaxToken + 1
Empty == 0
TwSteps == {"idle", "call", "refresh", "save", "write", "back", "ok", "gaveUp"}

TwTypeOK ==
  /\ stage \in {"off", "start", "obtain", "user", "again", "running", "aborted"}
  /\ starts \in 0..MaxStart
  /\ file \in Token \cup {NoFile}
  /\ client \in [Copy -> [access : Token, refresh : Token, ready : BOOLEAN]]
  /\ step \in [Copy -> TwSteps]
  /\ asks \in [Copy -> {"user", "own"}]
  /\ retries \in [Copy -> BOOLEAN]
  /\ isRecursive \in [Static -> BOOLEAN]
  /\ given \in Token /\ renewable \subseteq Token /\ accepted \subseteq Token
  /\ trouble \in BOOLEAN

NewClient == [access |-> 0, refresh |-> 0, ready |-> FALSE]

TwInit ==
  /\ stage = "off" /\ starts = 0 /\ file = NoFile
  /\ client = [c \in Copy |-> NewClient]
  /\ step = [c \in Copy |-> "idle"]
  /\ asks = [c \in Copy |-> "user"]
  /\ retries = [c \in Copy |-> FALSE]
  /\ isRecursive = [f \in Static |-> FALSE]
  /\ given = 0 /\ renewable = {} /\ accepted = {} /\ trouble = FALSE

Obtaining == stage \in {"obtain", "again"}
TwGoto(c, s) == step' = [step EXCEPT ![c] = s]
Called(c) == IF asks[c] = "user" THEN "getUserData"
             ELSE IF c = "ws" THEN "subscribeEvent" ELSE "createPoll"

-----------------------------------------------------------------------------
(* refreshTokens.  A request that is answered takes the token and gives a  *)
(* new pair; one that is refused, or whose answer is lost, clears ready.   *)
NewPair(c) ==
  client' = [client EXCEPT ![c].access = given', ![c].refresh = given',
                           ![c].ready = TRUE]
Refresh(c) ==
  /\ step[c] = "refresh"
  /\ client[c].refresh \in renewable
  /\ given < MaxToken
  /\ given' = given + 1
  /\ renewable' = (renewable \ {client[c].refresh}) \cup {given'}
  /\ accepted' = (accepted \ {client[c].access}) \cup {given'}
  /\ \/ NewPair(c) /\ TwGoto(c, "save") /\ UNCHANGED trouble
     \/ /\ client' = [client EXCEPT ![c].ready = FALSE]
        /\ trouble' = TRUE
        /\ TwGoto(c, "back")
  /\ UNCHANGED <<stage, starts, file, calling>>
RefreshRefused(c) ==
  /\ step[c] = "refresh"
  /\ client' = [client EXCEPT ![c].ready = FALSE]
  /\ trouble' = (trouble \/ client[c].refresh \in renewable)
  /\ TwGoto(c, "back")
  /\ UNCHANGED <<stage, starts, file, calling, given, renewable, accepted>>

(* saveTokens: writeFile creates the file when it is not there, empty, and *)
(* then writes it.  Mutant: what is there already stays.                   *)
SaveTokens(c) ==
  /\ step[c] = "save"
  /\ file' = IF file = NoFile THEN Empty ELSE file
  /\ TwGoto(c, "write")
  /\ UNCHANGED <<stage, starts, client, calling, given, renewable,
                 accepted, trouble>>
WriteFileKeeps(c) ==
  /\ step[c] = "write"
  /\ file' = IF file = Empty THEN client[c].refresh ELSE file
  /\ TwGoto(c, "back")
  /\ UNCHANGED <<stage, starts, client, calling, given, renewable,
                 accepted, trouble>>
WriteFile(c) ==
  /\ step[c] = "write"
  /\ file' = client[c].refresh
  /\ TwGoto(c, "back")
  /\ UNCHANGED <<stage, starts, client, calling, given, renewable,
                 accepted, trouble>>

-----------------------------------------------------------------------------
(* getUserData, subscribeEvent, createPoll: on a 401 refresh and ask once  *)
(* more; the call that set isRecursive clears it when the second answer is *)
(* in.  The threads share the static of getUserData.  Mutant: it is not    *)
(* cleared.                                                                *)
AnsweredOnce(c) ==
  /\ retries' = [retries EXCEPT ![c] = FALSE]
  /\ UNCHANGED <<asks, isRecursive>>
Answered(c) ==
  /\ isRecursive' = [isRecursive EXCEPT ![Called(c)] = @ /\ ~retries[c]]
  /\ retries' = [retries EXCEPT ![c] = FALSE]
  /\ UNCHANGED asks
CallAnswered(c) ==
  /\ step[c] = "call"
  /\ client[c].access \in accepted
  /\ TwGoto(c, "ok")
  /\ Answered(c)
  /\ UNCHANGED <<stage, starts, file, client, given, renewable, accepted,
                 trouble>>
CallUnauthorized(c) ==
  /\ step[c] = "call"
  /\ client[c].access \notin accepted
  /\ IF isRecursive[Called(c)]
       THEN TwGoto(c, "gaveUp") /\ Answered(c)
       ELSE TwGoto(c, "refresh") /\ UNCHANGED calling
  /\ UNCHANGED <<stage, starts, file, client, given, renewable, accepted,
                 trouble>>
CallFails(c) ==
  /\ step[c] = "call"
  /\ TwGoto(c, "gaveUp")
  /\ Answered(c)
  /\ trouble' = TRUE
  /\ UNCHANGED <<stage, starts, file, client, given, renewable, accepted>>
Retry(c) ==
  /\ step[c] = "back"
  /\ c # "static" /\ ~Obtaining
  /\ isRecursive' = [isRecursive EXCEPT ![Called(c)] = TRUE]
  /\ retries' = [retries EXCEPT ![c] = TRUE]
  /\ TwGoto(c, "call")
  /\ UNCHANGED asks
  /\ UNCHANGED <<stage, starts, file, client, given, renewable, accepted,
                 trouble>>

-----------------------------------------------------------------------------
(* The program starts: the file is read into the static client, which asks *)
(* for new tokens with what it found.                                      *)
ProgramStart ==
  /\ stage = "off"
  /\ starts < MaxStart
  /\ starts' = starts + 1
  /\ stage' = "start"
  /\ trouble' = FALSE
  /\ client' = [c \in Copy |->
       IF c = "static" /\ file # NoFile THEN [NewClient EXCEPT !.refresh = file]
       ELSE NewClient]
  /\ step' = [c \in Copy |->
       IF c = "static" /\ file # NoFile THEN "refresh"
       ELSE IF c = "static" THEN "back" ELSE "idle"]
  /\ asks' = [c \in Copy |-> "user"]
  /\ retries' = [c \in Copy |-> FALSE]
  /\ isRecursive' = [f \in Static |-> FALSE]
  /\ UNCHANGED <<file, given, renewable, accepted>>

(* luaCCInit: auto twitch = getTwitchClient() copies.  obtainTokens is     *)
(* done at once when the tokens are ready, and the user data are the test. *)
CopyInit ==
  /\ stage = "start"
  /\ step["static"] = "back"
  /\ client' = [client EXCEPT !["init"] = client["static"]]
  /\ step' = [step EXCEPT !["static"] = "idle",
                !["init"] = IF client["static"].ready THEN "call" ELSE "idle"]
  /\ stage' = IF client["static"].ready THEN "user" ELSE "obtain"
  /\ UNCHANGED <<starts, file, calling, given, renewable, accepted, trouble>>

(* obtainTokens: the device's code, the popup while the player authorizes, *)
(* and the first pair.  tokensReady stays as it was.                       *)
Authorize ==
  /\ Obtaining /\ step["init"] = "idle"
  /\ given < MaxToken
  /\ given' = given + 1
  /\ renewable' = renewable \cup {given'}
  /\ accepted' = accepted \cup {given'}
  /\ client' = [client EXCEPT !["init"].access = given', !["init"].refresh = given']
  /\ TwGoto("init", "save")
  /\ UNCHANGED <<stage, starts, file, calling, trouble>>
ObtainReturns(success) ==
  /\ Obtaining
  /\ step["init"] = IF success THEN "back" ELSE "idle"
  /\ stage' = IF stage = "again" THEN "running"
              ELSE IF success THEN "user" ELSE "aborted"
  /\ TwGoto("init", IF stage = "obtain" /\ success THEN "call" ELSE "idle")
  /\ UNCHANGED <<starts, file, client, calling, given, renewable, accepted,
                 trouble>>

(* No user data: the tokens are not ready after all, and are asked for.    *)
UserKnown ==
  /\ stage = "user" /\ step["init"] \in {"ok", "gaveUp"}
  /\ stage' = IF step["init"] = "ok" THEN "running" ELSE "again"
  /\ client' = [client EXCEPT !["init"].ready = @ /\ step["init"] = "ok"]
  /\ TwGoto("init", "idle")
  /\ UNCHANGED <<starts, file, calling, given, renewable, accepted, trouble>>

(* wsLoop and eventLoop copy the static client too, and call while they    *)
(* get answers.                                                            *)
CopyThread(c) ==
  /\ stage = "running" /\ step[c] = "idle"
  /\ client' = [client EXCEPT ![c] = client["static"]]
  /\ TwGoto(c, "call")
  /\ UNCHANGED <<stage, starts, file, calling, given, renewable, accepted,
                 trouble>>
NextCall(c) ==
  /\ stage = "running" /\ step[c] = "ok"
  /\ \/ asks' = [asks EXCEPT ![c] = "own"]
     \/ c = "ws" /\ asks[c] = "own" /\ asks' = [asks EXCEPT ![c] = "user"]
  /\ TwGoto(c, "call")
  /\ UNCHANGED <<stage, starts, file, client, retries, isRecursive, given,
                 renewable, accepted, trouble>>

(* The console is switched off at any moment.                              *)
PowerOff ==
  /\ stage # "off"
  /\ stage' = "off"
  /\ UNCHANGED <<starts, file, client, step, calling, given, renewable,
                 accepted, trouble>>

(* Twitch lets access tokens expire; bound: not between a refresh and the  *)
(* second request.                                                         *)
AccessExpires(a) ==
  /\ a \in accepted
  /\ \A c \in Copy : step[c] \notin {"refresh", "save", "write", "back"}
                      /\ ~retries[c]
  /\ accepted' = accepted \ {a}
  /\ UNCHANGED <<stage, starts, file, client, step, calling, given,
                 renewable, trouble>>

CallStep(c) ==
  \/ CallAnswered(c) \/ CallUnauthorized(c) \/ CallFails(c)
  \/ Refresh(c) \/ RefreshRefused(c) \/ SaveTokens(c) \/ WriteFile(c)
  \/ Retry(c)

TwNext ==
  \/ ProgramStart \/ PowerOff
  \/ /\ stage # "off"
     /\ \/ \E c \in Copy : CallStep(c)
        \/ CopyInit \/ Authorize \/ UserKnown
        \/ \E success \in BOOLEAN : ObtainReturns(success)
        \/ \E c \in {"ws", "event"} : CopyThread(c) \/ NextCall(c)
        \/ \E a \in accepted : AccessExpires(a)

TwSpec == TwInit /\ [][TwNext]_twVars

-----------------------------------------------------------------------------
(* Once luaCCInit is through, the next start finds a refresh token in the  *)
(* file that Twitch takes, whichever copy refreshed last and however the   *)
(* runs before ended, unless an answer was lost or a save is under way.    *)
FileHoldsToken ==
  (/\ stage = "running" /\ ~trouble
   /\ \A c \in Copy : step[c] \notin {"save", "write"}) => file \in renewable

(* A thread gives up only when it has no refresh token that Twitch would   *)
(* take: another copy has used it, or this start asked the player and only *)
(* the copy of luaCCInit was told.  However often its access expires.  The *)
(* exception is getUserData, whose static another thread may have set.     *)
GivesUpWithoutToken ==
  \A c \in {"ws", "event"} :
    stage = "running" /\ step[c] = "gaveUp" /\ ~trouble /\ asks[c] = "own"
      => client[c].refresh \notin renewable
=============================================================================

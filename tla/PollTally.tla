------------------------------ MODULE PollTally ------------------------------
(***************************************************************************)
(* How the websocket thread of the crowd control mod finds the winner of a *)
(* poll (pokemon_sv/mod_crowd_control/src/lua.cpp): one pass over the      *)
(* choices that keeps the largest number of votes and who has it, and a    *)
(* random draw among those.                                                *)
(***************************************************************************)
EXTENDS Integers

CONSTANTS
  Options,    \* pollOptions: the number of choices
  MaxVotes    \* bound of the votes of a choice

ASSUME TallyAssumption == Options \in Nat \ {0} /\ MaxVotes \in Nat

VARIABLES
  votes,      \* the votes of each choice
  item,       \* the choice the loop is at
  maxValue,   \* maxValue
  max,        \* the choices in the vector max
  chosen      \* chosen, or 0 before the draw

tallyVars == <<votes, item, maxValue, max, chosen>>
PollChoices == 1 .. Options

TallyTypeOK ==
  /\ votes \in [PollChoices -> 0 .. MaxVotes]
  /\ item \in 1 .. Options + 1
  /\ maxValue \in -1 .. MaxVotes
  /\ max \subseteq PollChoices
  /\ chosen \in 0 .. Options

TallyInit ==
  /\ votes \in [PollChoices -> 0 .. MaxVotes]
  /\ item = 1
  /\ maxValue = -1
  /\ max = {}
  /\ chosen = 0

(* A choice with more votes than all before it takes their place.          *)
(* Mutant: it joins them.                                                  *)
LeadersJoined(n) == max \cup {n}
Leaders(n) == IF votes[n] > maxValue THEN {n} ELSE max \cup {n}
Leads(n) == votes[n] >= maxValue

Count ==
  /\ item <= Options
  /\ IF Leads(item)
       THEN max' = Leaders(item) /\ maxValue' = votes[item]
       ELSE UNCHANGED <<max, maxValue>>
  /\ item' = item + 1
  /\ UNCHANGED <<votes, chosen>>

Draw ==
  /\ item = Options + 1
  /\ chosen = 0
  /\ chosen' \in max
  /\ UNCHANGED <<votes, item, maxValue, max>>

TallyNext == Count \/ Draw
TallySpec == TallyInit /\ [][TallyNext]_tallyVars

-----------------------------------------------------------------------------
(* The winner has the most votes.                                          *)
WinnerHasMost ==
  chosen # 0 => \A n \in PollChoices : votes[n] <= votes[chosen]

(* Every choice with the most votes can be drawn, so ties are not decided  *)
(* by the order of the choices; and there is always one to draw.           *)
EveryLeaderCanWin ==
  item = Options + 1 =>
    /\ max = {n \in PollChoices : \A m \in PollChoices : votes[m] <= votes[n]}
    /\ max # {}

(* The loop invariant: the same of the choices looked at so far.           *)
LoopInv ==
  /\ TallyTypeOK
  /\ \A n \in 1 .. item - 1 : votes[n] <= maxValue
  /\ max = {n \in 1 .. item - 1 : votes[n] = maxValue}
  /\ IF item = 1 THEN maxValue = -1 ELSE max # {}
  /\ chosen # 0 => item = Options + 1 /\ chosen \in max
=============================================================================

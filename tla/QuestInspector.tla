---------------------------- MODULE QuestInspector ----------------------------
(***************************************************************************)
(* The Quest Inspector of the Legends Z-A menu (mod_debug_tools/ui.cpp):   *)
(* a pointer to a quest of the game, kept from frame to frame, and buttons *)
(* that write the quest's progress and tell the game that it changed.      *)
(***************************************************************************)
EXTENDS Naturals

CONSTANTS Quest, NoQuest
ASSUME NoQuestAssumption == NoQuest \notin Quest

VARIABLES
  questType,     \* type->selected: main, side or lab
  quest,         \* the chosen quest, or a null pointer
  items,         \* m_mainQuests, m_subQuests and m_labQuests of the manager
  work,          \* work value of each quest: the part it is at
  heard,         \* work value when the game was last heard of a change
  flags,         \* the flags that the conditions of a part name
  completed,     \* quests that QuestComplete was called for
  questCrash     \* a null pointer was read

questVars == <<questType, quest, items, work, heard, flags, completed, questCrash>>

QUEST_TYPES == {"Main", "Side", "Lab"}
Part == 0..2             \* bound: parts of a quest; 0 is none
Done == 255
GameSide == <<work, heard, flags, completed>>

QuestTypeOK ==
  /\ questType \in QUEST_TYPES /\ quest \in Quest \cup {NoQuest}
  /\ items \in [QUEST_TYPES -> SUBSET Quest]
  /\ work \in [Quest -> Part \cup {Done}] /\ heard \in [Quest -> Part \cup {Done}]
  /\ flags \in [Quest -> BOOLEAN] /\ completed \subseteq Quest
  /\ questCrash \in BOOLEAN

(* Each quest is in one of the lists; the combo box starts at the first.   *)
QuestInit ==
  /\ questType = "Main" /\ quest = NoQuest
  /\ \E kindOf \in [Quest -> QUEST_TYPES] :
       items = [k \in QUEST_TYPES |-> {q \in Quest : kindOf[q] = k}]
  /\ work = [q \in Quest |-> 0] /\ heard = [q \in Quest |-> 0]
  /\ flags = [q \in Quest |-> FALSE] /\ completed = {} /\ questCrash = FALSE

-----------------------------------------------------------------------------
(* Mutant: another type keeps the quest that was chosen.                   *)
OnTypeChangeKept(q) == q
OnTypeChange(q) == NoQuest
ChooseType(k) ==
  /\ questType' = k
  /\ quest' = IF k # questType THEN OnTypeChange(quest) ELSE quest
  /\ UNCHANGED <<items, GameSide, questCrash>>

SelectQuest(q) ==
  /\ q \in items[questType]
  /\ quest' = q
  /\ UNCHANGED <<questType, items, GameSide, questCrash>>

(* SetWorkValue, then SendQuestProgressUpdate, which has the game read it. *)
SetWork(q, value) ==
  /\ work' = [work EXCEPT ![q] = value]
  /\ heard' = [heard EXCEPT ![q] = value]

(* Neither button tests the pointer, and both are drawn without a quest.   *)
PressWithoutQuest ==
  /\ quest = NoQuest
  /\ questCrash' = TRUE
  /\ UNCHANGED <<questType, quest, items, GameSide>>
ResetProgress ==
  /\ quest # NoQuest
  /\ SetWork(quest, 0)
  /\ UNCHANGED <<questType, quest, items, flags, completed, questCrash>>
(* Here the game is told first, between QuestComplete and the value.       *)
Complete ==
  /\ quest # NoQuest
  /\ completed' = completed \cup {quest}
  /\ heard' = [heard EXCEPT ![quest] = work[quest]]
  /\ work' = [work EXCEPT ![quest] = Done]
  /\ UNCHANGED <<questType, quest, items, flags, questCrash>>
(* The tab of a part, drawn only with a quest; and the buttons of a        *)
(* condition on a flag, within it.                                         *)
SetActive(part) ==
  /\ quest # NoQuest
  /\ SetWork(quest, part)
  /\ UNCHANGED <<questType, quest, items, flags, completed, questCrash>>
QuestCondition(value) ==
  /\ quest # NoQuest
  /\ flags' = [flags EXCEPT ![quest] = value]
  /\ UNCHANGED <<questType, quest, items, work, heard, completed, questCrash>>

(* The player gets on with a quest in the game.                            *)
GameAdvances(q, part) ==
  /\ part > work[q]
  /\ work' = [work EXCEPT ![q] = part]
  /\ heard' = [heard EXCEPT ![q] = part]
  /\ UNCHANGED <<questType, quest, items, flags, completed, questCrash>>

QuestNext ==
  /\ ~questCrash
  /\ \/ \E k \in QUEST_TYPES : ChooseType(k)
     \/ \E q \in Quest : SelectQuest(q)
     \/ PressWithoutQuest \/ ResetProgress \/ Complete
     \/ \E part \in Part \ {0} :
          SetActive(part) \/ \E q \in Quest : GameAdvances(q, part)
     \/ \E value \in BOOLEAN : QuestCondition(value)

QuestSpec == QuestInit /\ [][QuestNext]_questVars

-----------------------------------------------------------------------------
(* The pointer stays from frame to frame while the list under it may be    *)
(* another: a quest is set back, completed or has a flag of it written only *)
(* while it is in the list that the menu shows, whatever was chosen, and   *)
(* wherever the game has got with it, in the meantime.                     *)
OnlyShownWritten ==
  [][\A q \in Quest :
       (work'[q] < work[q] \/ flags'[q] # flags[q] \/ q \in completed' \ completed)
         => q \in items[questType]]_questVars
=============================================================================

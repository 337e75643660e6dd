------------------------------- MODULE MCGame -------------------------------
(***************************************************************************)
(* The parts of the mods that meet the game's own data, and the vote count *)
(* of the crowd control mod, one at a time: which one is chosen at the     *)
(* start, and the others stay as they begin.                               *)
(***************************************************************************)
EXTENDS TomodachiHeap, MemoryObject, PartyEditor, EncounterEditor,
        QuestInspector, BattleSettings, HeapPanel, RomfsRedirect,
        BootScripts, LuaEffects, PollTally

VARIABLE part

Parts == {"heap", "object", "party", "encounter", "quest", "battle", "panel",
          "romfs", "boot", "lua", "tally"}
store == <<tomoVars, refVars>>
menus == <<partyVars, encounterVars, questVars, battleVars, panelVars>>
files == <<romfsVars, bootVars, luaVars, tallyVars>>

(* A part that is not chosen has one state, if it could begin in several.  *)
Init ==
  /\ part \in Parts
  /\ TomoInit /\ RefInit /\ EncounterInit /\ BattleInit /\ PanelInit
  /\ BootInit /\ LuaInit
  /\ PartyInit /\ (part # "party" => party[0] = OwnPokemon(1, FALSE))
  /\ QuestInit /\ (part # "quest" => items["Main"] = Quest)
  /\ RomfsInit /\ (part # "romfs" => replaced /\ readModes = {3})
  /\ TallyInit /\ (part # "tally" => \A c \in PollChoices : votes[c] = 0)

Next ==
  /\ part' = part
  /\ \/ /\ part = "heap" /\ TomoNext
        /\ UNCHANGED <<menus, files, refVars>>
     \/ /\ part = "object" /\ RefNext
        /\ UNCHANGED <<menus, files, tomoVars>>
     \/ /\ part = "party" /\ PartyNext
        /\ UNCHANGED <<store, files, encounterVars, questVars, battleVars,
                       panelVars>>
     \/ /\ part = "encounter" /\ EncounterNext
        /\ UNCHANGED <<store, files, partyVars, questVars, battleVars,
                       panelVars>>
     \/ /\ part = "quest" /\ QuestNext
        /\ UNCHANGED <<store, files, partyVars, encounterVars, battleVars,
                       panelVars>>
     \/ /\ part = "battle" /\ BattleNext
        /\ UNCHANGED <<store, files, partyVars, encounterVars, questVars,
                       panelVars>>
     \/ /\ part = "panel" /\ PanelNext
        /\ UNCHANGED <<store, files, partyVars, encounterVars, questVars,
                       battleVars>>
     \/ /\ part = "romfs" /\ RomfsNext
        /\ UNCHANGED <<store, menus, bootVars, luaVars, tallyVars>>
     \/ /\ part = "boot" /\ BootNext
        /\ UNCHANGED <<store, menus, romfsVars, luaVars, tallyVars>>
     \/ /\ part = "lua" /\ LuaNext
        /\ UNCHANGED <<store, menus, romfsVars, bootVars, tallyVars>>
     \/ /\ part = "tally" /\ TallyNext
        /\ UNCHANGED <<store, menus, romfsVars, bootVars, luaVars>>

(* The coroutines are resumed each frame, and the clock goes on.           *)
Fairness ==
  /\ WF_luaVars(part = "lua" /\ LuaClock)
  /\ \A e \in LuaEffect : WF_luaVars(part = "lua" /\ ResumeListener(e))
Spec == Init /\ [][Next]_<<part, store, menus, files>> /\ Fairness
=============================================================================

--------------------------- MODULE EncounterEditor ---------------------------
(***************************************************************************)
(* The Encounter Editor of the Legends Z-A menu (mod_debug_tools/ui.cpp)   *)
(* and ChangeEncounterHook (battle_hooks.cpp), which reads the edited data *)
(* when the game makes a wild Pokemon.  Moves, which the editor offers     *)
(* too, are not copied by the hook: traits are the sex, the nature, the    *)
(* ability and the values here.                                            *)
(***************************************************************************)
EXTENDS PokemonEditor

VARIABLES
  s_dataForEncounter,
  boxes,         \* what the three checkboxes of the section show
  encounter      \* the InitialSpec of the last Pokemon made

encounterVars == <<s_dataForEncounter, boxes, encounter>>

InitialSpec ==
  [species : Species, form : Form, level : Level, traits : Traits \cup {"wild", "alpha"},
   rare : BOOLEAN, oybn : BOOLEAN]
Wild(species, rare) ==
  [species |-> species, form |-> 0, level |-> 1, traits |-> "wild", rare |-> rare,
   oybn |-> FALSE]

EncounterInit ==
  /\ s_dataForEncounter = NewPokemonData
  /\ boxes = [forceShiny |-> FALSE, forceModify |-> FALSE,
              forceAlpha |-> NewPokemonData.forceAlpha]
  /\ encounter = Wild(1, FALSE)

(* "100% Shiny Rate", "100% Alpha Rate" and "Force modify encounter".      *)
UseBox(name) ==
  /\ boxes' = [boxes EXCEPT ![name] = ~@]
  /\ s_dataForEncounter' = [s_dataForEncounter EXCEPT ![name] = boxes'[name]]
  /\ UNCHANGED encounter
(* The frame in which an input of PokemonEditor is used.                   *)
EditEncounter ==
  /\ \E d \in Edits(s_dataForEncounter, FALSE) : s_dataForEncounter' = Existing(d)
  /\ UNCHANGED <<boxes, encounter>>

(* Shiny, then alpha, then what was edited.                                *)
(* Mutant: what makes an alpha comes after what was edited.                *)
ForcedShiny(spec, d) == IF d.forceShiny THEN [spec EXCEPT !.rare = TRUE] ELSE spec
ForcedAlpha(spec, d) ==
  IF d.forceAlpha
    THEN [spec EXCEPT !.oybn = TRUE, !.level = 2, !.traits = "alpha"] ELSE spec
Modified(spec, d) ==
  IF d.forceModify
    THEN [spec EXCEPT !.species = d.species, !.form = d.form, !.level = d.level,
                      !.traits = d.traits]
    ELSE spec
ChangedAlphaLast(spec, d) == ForcedAlpha(Modified(ForcedShiny(spec, d), d), d)
Changed(spec, d) == Modified(ForcedAlpha(ForcedShiny(spec, d), d), d)
(* The multiplier of the shiny rate gives FixInitSpec, which decides rare, *)
(* more tries.                                                             *)
ChangeEncounterHook(species, rare) ==
  /\ encounter' = Changed(Wild(species, rare), s_dataForEncounter)
  /\ UNCHANGED <<s_dataForEncounter, boxes>>

EncounterNext ==
  \/ \E name \in DOMAIN boxes : UseBox(name)
  \/ EditEncounter
  \/ \E species \in Species, rare \in BOOLEAN : ChangeEncounterHook(species, rare)

EncounterSpec == EncounterInit /\ [][EncounterNext]_encounterVars

-----------------------------------------------------------------------------
(* A Pokemon made with "Force modify encounter" on has just the values     *)
(* that were edited, alpha or not; it exists, unless that was waived; and  *)
(* it is an alpha exactly when the box shows that.  It is shiny when the   *)
(* box for that shows it, and one made with neither an alpha nor what was  *)
(* edited asked for is the game's in all but that.                         *)
IsAsEdited(s, d) ==
  /\ <<s.species, s.form, s.level, s.traits>>
       = <<d.species, d.form, d.level, d.traits>>
  /\ d.allowInvalidForms \/ CheckPokeExist(s.species, s.form)
  /\ s.oybn = boxes.forceAlpha
LeftAlone(s) == \E species \in Species : s = Wild(species, s.rare)
ModifiedAsEdited ==
  [][encounter' # encounter =>
       /\ boxes.forceModify => IsAsEdited(encounter', s_dataForEncounter)
       /\ boxes.forceShiny => encounter'.rare
       /\ ~boxes.forceModify /\ ~boxes.forceAlpha => LeftAlone(encounter')
    ]_encounterVars
=============================================================================

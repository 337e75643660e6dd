----------------------------- MODULE PartyEditor -----------------------------
(***************************************************************************)
(* The party editor and the Party Inspector of the Legends Z-A menu        *)
(* (mod_debug_tools/src/ui.cpp).  In each frame the editor takes the       *)
(* Pokemon out of its encoded form, copies it into s_partyData, lets the   *)
(* inputs change the copy and writes it back if editing is enabled.  The   *)
(* game goes on meanwhile.                                                 *)
(***************************************************************************)
EXTENDS PokemonEditor

Slot == 0..1             \* bound: of the six of a party

VARIABLES
  party,         \* the Pokemon of each slot; a slot may be empty
  partyIdx,      \* the input "Party Index" of the editor
  enabled,       \* the checkbox "Enable"
  s_partyData, oldLevel, isFixPressed,
  partyPc,       \* place in the frame
  edited,        \* history: an input was used in this frame
  before,        \* history: the Pokemon at the start of the frame
  raced          \* history: the game changed it within a frame

partyVars == <<party, partyIdx, enabled, s_partyData, oldLevel,
               isFixPressed, partyPc, edited, before, raced>>
Inputs == <<partyIdx, enabled>>
Frame == <<isFixPressed, edited, before, raced>>

(* Experience of each species: the second one grows more slowly.           *)
GetMinExp(species, level) == species * (level - 1)
LevelOf(species, exp) == IF exp >= species THEN 2 ELSE 1
Exp == 0..2

(* fast: StartFastMode has decoded the blocks, and the checksum is not     *)
(* that of what they hold.                                                 *)
Pokemon ==
  [species : Species, form : Form, level : Level, exp : Exp, traits : Traits,
   rare : BOOLEAN, isOybn : BOOLEAN, badEgg : BOOLEAN, fast : BOOLEAN]
OwnPokemon(species, badEgg) ==
  [species |-> species, form |-> 0, level |-> 1, exp |-> 0, traits |-> "own",
   rare |-> FALSE, isOybn |-> FALSE, badEgg |-> badEgg, fast |-> FALSE]
Empty == OwnPokemon(0, FALSE)       \* GetMemberPtr returns a null pointer

PartyTypeOK ==
  /\ party \in [Slot -> Pokemon \cup {Empty}]
  /\ partyIdx \in Slot
  /\ s_partyData \in PokemonData /\ oldLevel \in Level
  /\ {enabled, isFixPressed, edited, raced} \subseteq BOOLEAN
  /\ partyPc \in {"idle", "inspecting", "ready", "loaded", "editing"}
  /\ before \in Pokemon \cup {Empty}

PartyInit ==
  /\ \E species \in Species, badEgg \in BOOLEAN :
       party = [i \in Slot |-> IF i = 0 THEN OwnPokemon(species, badEgg) ELSE Empty]
  /\ partyIdx = 0 /\ enabled = FALSE
  /\ s_partyData = NewPokemonData /\ oldLevel = 1 /\ isFixPressed = FALSE
  /\ partyPc = "idle" /\ edited = FALSE /\ before = Empty /\ raced = FALSE

-----------------------------------------------------------------------------
(* The Party Inspector, earlier in the frame, on a slot of its own: it     *)
(* only shows what it reads.                                               *)
Inspect(i) ==
  /\ partyPc = "idle"
  /\ partyPc' = "inspecting"
  /\ party' = IF party[i] = Empty THEN party ELSE [party EXCEPT ![i].fast = TRUE]
  /\ UNCHANGED <<Inputs, s_partyData, oldLevel, Frame>>
EndInspect ==
  /\ partyPc = "inspecting"
  /\ partyPc' = "ready"
  /\ party' = [i \in Slot |-> [party[i] EXCEPT !.fast = FALSE]]
  /\ UNCHANGED <<Inputs, s_partyData, oldLevel, Frame>>

(* The inputs of the window, before the Pokemon is read.                   *)
ChooseSlot ==
  /\ partyPc = "idle"
  /\ partyIdx' \in Slot
  /\ UNCHANGED <<party, enabled, s_partyData, oldLevel, partyPc, Frame>>
ToggleEnabled ==
  /\ partyPc = "idle"
  /\ enabled' = ~enabled
  /\ UNCHANGED <<party, partyIdx, s_partyData, oldLevel, partyPc, Frame>>

(* StartFastMode, the button "Fix" of a bad egg, and the copy.             *)
Load(fix) ==
  /\ partyPc = "ready" /\ party[partyIdx] # Empty
  /\ fix => party[partyIdx].badEgg
  /\ isFixPressed' = fix
  /\ before' = party[partyIdx]
  /\ LET p == party[partyIdx]
     IN /\ party' = [party EXCEPT ![partyIdx] =
                       [p EXCEPT !.fast = TRUE, !.badEgg = @ /\ ~fix]]
        /\ s_partyData' = [s_partyData EXCEPT
                             !.species = p.species, !.form = p.form,
                             !.level = p.level, !.traits = p.traits,
                             !.forceShiny = p.rare, !.forceAlpha = p.isOybn]
        /\ oldLevel' = p.level
  /\ partyPc' = "loaded"
  /\ edited' = FALSE /\ raced' = FALSE
  /\ UNCHANGED Inputs
LoadNothing ==
  /\ partyPc = "ready" /\ party[partyIdx] = Empty
  /\ partyPc' = "idle"
  /\ UNCHANGED <<party, Inputs, s_partyData, oldLevel, Frame>>

(* PokemonEditor, drawn over the copy.                                     *)
Edit(used) ==
  /\ partyPc = "loaded"
  /\ LET inputs == IF used THEN Edits(s_partyData, TRUE) ELSE {s_partyData}
     IN \E d \in inputs : s_partyData' = Existing(d)
  /\ edited' = used
  /\ partyPc' = "editing"
  /\ UNCHANGED <<party, Inputs, oldLevel, isFixPressed, before, raced>>

FrameDone ==
  /\ partyPc' = "idle"
  /\ isFixPressed' = FALSE /\ edited' = FALSE /\ before' = Empty /\ raced' = FALSE
  /\ UNCHANGED <<Inputs, s_partyData, oldLevel>>

(* The return when nothing is to be written.                               *)
Reencoded(p) == [p EXCEPT !.fast = FALSE]
Discard ==
  /\ partyPc = "editing" /\ ~enabled /\ ~isFixPressed
  /\ party' = [party EXCEPT ![partyIdx] = Reencoded(@)]
  /\ FrameDone

(* The copy written over the Pokemon, UpdateCalcDatas and EndFastMode.     *)
(* Mutant: the experience is set each time.                                *)
ExpAlways(p, d) == GetMinExp(d.species, d.level)
ExpFor(p, d) == IF d.level # oldLevel THEN GetMinExp(d.species, d.level) ELSE p.exp
Written(p, d) ==
  [species |-> d.species, form |-> d.form, level |-> d.level,
   exp |-> ExpFor(p, d), traits |-> d.traits, rare |-> d.forceShiny,
   isOybn |-> d.forceAlpha, badEgg |-> p.badEgg, fast |-> p.fast]
WriteBack ==
  /\ partyPc = "editing" /\ (enabled \/ isFixPressed)
  /\ party' = [party EXCEPT ![partyIdx] = Reencoded(Written(@, s_partyData))]
  /\ FrameDone

(* The game, on its own thread: a Pokemon grows, or the party is changed.  *)
GrowUp(i) ==
  /\ party[i] # Empty /\ party[i].exp < 2
  /\ party' = [party EXCEPT ![i].exp = @ + 1,
                            ![i].level = LevelOf(party[i].species, party[i].exp + 1)]
  /\ raced' = (raced \/ (i = partyIdx /\ partyPc \in {"loaded", "editing"}))
  /\ UNCHANGED <<Inputs, s_partyData, oldLevel, isFixPressed, partyPc, edited, before>>

PartyNext ==
  \/ \E i \in Slot : Inspect(i)
  \/ EndInspect \/ ChooseSlot \/ ToggleEnabled
  \/ \E fix \in BOOLEAN : Load(fix)
  \/ LoadNothing
  \/ \E used \in BOOLEAN : Edit(used)
  \/ Discard \/ WriteBack
  \/ \E i \in Slot : GrowUp(i)

PartySpec == PartyInit /\ [][PartyNext]_partyVars

-----------------------------------------------------------------------------
(* Looking does not change: a frame in which no input is used and nothing  *)
(* is fixed leaves the Pokemon as it was, even while editing is enabled,   *)
(* if its form exists or may be one that does not and the game left it     *)
(* alone.  What was edited while it is not enabled is not kept.            *)
OnlyLooked ==
  /\ ~raced /\ ~isFixPressed
  /\ ~enabled \/ (~edited /\ CheckPokeExist(before.species, before.form))
LookingChangesNothing ==
  [][(Discard \/ WriteBack) /\ OnlyLooked => party'[partyIdx] = before]_partyVars
=============================================================================

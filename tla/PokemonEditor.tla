---------------------------- MODULE PokemonEditor ----------------------------
(***************************************************************************)
(* The inputs of PokemonEditor (pokemon_za/mod_debug_tools/src/ui.cpp),    *)
(* which the encounter editor and the party editor both build in every     *)
(* frame over their own PokemonData (hook_util.h).  Of the fields, species *)
(* and form are kept apart as the one restricts the other; the sex, the    *)
(* nature, ability, values and moves are written and read in the same way  *)
(* and stand as one, traits.                                               *)
(***************************************************************************)
EXTENDS Integers

Species == 1..2          \* bound: of 1..1010 in the menu
Form == 0..1             \* bound: of 0..27
Level == 1..2            \* bound: of 1..100
Traits == {"own", "set"}

PokemonData ==
  [species : Species, form : Form, level : Level, traits : Traits,
   forceShiny : BOOLEAN, forceAlpha : BOOLEAN, forceModify : BOOLEAN,
   allowInvalidForms : BOOLEAN]
NewPokemonData ==
  [species |-> 1, form |-> 0, level |-> 1, traits |-> "own",
   forceShiny |-> FALSE, forceAlpha |-> FALSE, forceModify |-> FALSE,
   allowInvalidForms |-> FALSE]

(* PersonalSystem: the second species has the one form.                    *)
CheckPokeExist(species, form) == species = 1 \/ form = 0

(* What one use of an input makes of the data.  InputInt keeps a number    *)
(* within its bounds, so that nothing else can be reached.                 *)
Edits(d, withExtraSettings) ==
  {[d EXCEPT !.allowInvalidForms = ~@]}
  \cup {[d EXCEPT !.species = s] : s \in Species}
  \cup {[d EXCEPT !.form = f] : f \in Form}
  \cup {[d EXCEPT !.level = l] : l \in Level}
  \cup {[d EXCEPT !.traits = t] : t \in Traits}
  \cup IF withExtraSettings
         THEN {[d EXCEPT !.forceShiny = ~@], [d EXCEPT !.forceAlpha = ~@]}
         ELSE {}

(* The element after the two inputs puts the form back to 0 when there is  *)
(* no such Pokemon and that was not asked for.                             *)
(* Mutant: it does so when that was asked for.                             *)
ExistingWhenAllowed(d) ==
  IF d.allowInvalidForms /\ ~CheckPokeExist(d.species, d.form)
    THEN [d EXCEPT !.form = 0] ELSE d
Existing(d) ==
  IF ~d.allowInvalidForms /\ ~CheckPokeExist(d.species, d.form)
    THEN [d EXCEPT !.form = 0] ELSE d
=============================================================================

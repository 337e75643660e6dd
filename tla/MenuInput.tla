------------------------------ MODULE MenuInput ------------------------------
(***************************************************************************)
(* The pad, shared by the game and the menu: InputUtil (common/src/util),  *)
(* the hook that hides it from the game (imgui_backend/hooks.cpp), and     *)
(* updateInput (imgui_impl_nvn.cpp), which tells ImGui what changed.  The  *)
(* menu reads on the thread that draws, the game on another; one flag      *)
(* tells the hook whose read it is.                                        *)
(***************************************************************************)
EXTENDS FiniteSets

CONSTANT Key       \* the other mapped buttons, keys and mouse buttons

Chord == {"ZL", "R"}
Button == Key \cup Chord

VARIABLES
  held,            \* what the player holds
  curController, prevController,
  isReadInput, toggleInput,
  menuPc,          \* the frame: "idle", "reading", "read"
  imguiKeys,       \* what ImGui has been told is down
  gamePc, gameSees,     \* the read of the game: "idle", "hooked", "seen"
  missed,          \* history: released in a frame without the menu
  overlap          \* history: the menu's read, or a toggle, fell into the game's

inputVars == <<held, curController, prevController, isReadInput, toggleInput,
               menuPc, imguiKeys, gamePc, gameSees, missed, overlap>>

InputTypeOK ==
  /\ {held, curController, prevController, imguiKeys, gameSees, missed}
       \subseteq SUBSET Button
  /\ {isReadInput, toggleInput, overlap} \subseteq BOOLEAN
  /\ menuPc \in {"idle", "reading", "read"} /\ gamePc \in {"idle", "hooked", "seen"}

InputInit ==
  /\ held = {} /\ curController = {} /\ prevController = {}
  /\ isReadInput = TRUE /\ toggleInput = FALSE
  /\ menuPc = "idle" /\ imguiKeys = {}
  /\ gamePc = "idle" /\ gameSees = {}
  /\ missed = {} /\ overlap = FALSE

GameState == <<gamePc, gameSees>>
PadState == <<curController, prevController>>

-----------------------------------------------------------------------------
Press(b) ==
  /\ held' = (held \ {b}) \cup ({b} \ held)
  /\ UNCHANGED <<PadState, isReadInput, toggleInput, menuPc, imguiKeys,
                 GameState, missed, overlap>>

(* updatePadState: tryGetContState raises the flag, reads through the same *)
(* hook, and takes the flag down.                                          *)
UpdatePadState ==
  /\ menuPc = "idle"
  /\ menuPc' = "reading"
  /\ prevController' = curController
  /\ isReadInput' = TRUE
  /\ overlap' = (overlap \/ gamePc = "hooked")
  /\ UNCHANGED <<held, curController, toggleInput, imguiKeys, GameState,
                 missed>>
IsPress(b) == b \in curController' /\ b \notin prevController
TryGetContState ==
  /\ menuPc = "reading"
  /\ menuPc' = "read"
  /\ curController' = held
  /\ isReadInput' = FALSE
  /\ toggleInput' = (toggleInput # ("ZL" \in curController' /\ IsPress("R")))
  /\ overlap' = (overlap \/ (gamePc = "hooked" /\ toggleInput' # toggleInput))
  /\ UNCHANGED <<held, prevController, imguiKeys, GameState, missed>>

(* newFrame, updateInput: nothing is told while the menu is off.  Mutant:  *)
(* a release counts only when the button was told of in this frame.        *)
Pressed == curController \ prevController
ReleasedNow == (prevController \ curController) \cap held
Released == prevController \ curController
UpdateInput ==
  /\ menuPc = "read"
  /\ menuPc' = "idle"
  /\ IF toggleInput
       THEN /\ imguiKeys' = (imguiKeys \cup Pressed) \ Released
            /\ missed' = missed \ (Pressed \cup Released)
       ELSE /\ missed' = missed \cup (prevController \ curController)
            /\ UNCHANGED imguiKeys
  /\ UNCHANGED <<held, PadState, isReadInput, toggleInput, GameState,
                 overlap>>

-----------------------------------------------------------------------------
(* GetNpadStates for the game: the pad is read, and cleared by the hook    *)
(* when the menu is on and is not reading itself.                          *)
Hides == ~isReadInput /\ toggleInput
GameReads ==
  /\ gamePc \in {"idle", "seen"}
  /\ gamePc' = "hooked"
  /\ gameSees' = held
  /\ overlap' = (menuPc = "reading")
  /\ UNCHANGED <<held, PadState, isReadInput, toggleInput, menuPc,
                 imguiKeys, missed>>
DisablePadState ==
  /\ gamePc = "hooked"
  /\ gamePc' = "seen"
  /\ gameSees' = IF Hides THEN {} ELSE gameSees
  /\ UNCHANGED <<held, PadState, isReadInput, toggleInput, menuPc,
                 imguiKeys, missed, overlap>>

InputNext ==
  \/ \E b \in Button : Press(b)
  \/ UpdatePadState \/ TryGetContState \/ UpdateInput
  \/ GameReads \/ DisablePadState

InputSpec == InputInit /\ [][InputNext]_inputVars

-----------------------------------------------------------------------------
(* ImGui takes no button for held that is up, unless it went up while the  *)
(* menu was off: that of the chord that closes the menu always does.       *)
NoKeyStuck ==
  menuPc = "idle" => imguiKeys \subseteq curController \cup missed
=============================================================================

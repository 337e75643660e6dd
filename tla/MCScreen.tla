------------------------------ MODULE MCScreen ------------------------------
(***************************************************************************)
(* The parts of the menu on the screen, one at a time: the hooks of the    *)
(* graphics driver, the drawing, the pad and the elements.  Which one is   *)
(* chosen at the start, and the others stay as they begin.                 *)
(***************************************************************************)
EXTENDS NvnHooks, NvnBackend, MenuInput, UiFrame

VARIABLE part

(* A part that is not chosen has one state, if it could begin in several.  *)
Init ==
  /\ part \in {"hooks", "backend", "input", "frame"}
  /\ NvnInit /\ BackInit /\ InputInit
  /\ part # "hooks" => canInitImgui
  /\ UiInit
  /\ part # "frame" =>
       /\ chain = CHOOSE c \in Chains : TRUE
       /\ leaf = CHOOSE l \in LeavesOf[chain[Len(chain)]] : TRUE
       /\ off = 0 /\ ~window.sticky /\ ~window.toggleable

Next ==
  /\ part' = part
  /\ \/ /\ part = "hooks" /\ NvnNext
        /\ UNCHANGED <<backVars, inputVars, uiVars>>
     \/ /\ part = "backend" /\ BackNext
        /\ UNCHANGED <<nvnVars, inputVars, uiVars>>
     \/ /\ part = "input" /\ InputNext
        /\ UNCHANGED <<nvnVars, backVars, uiVars>>
     \/ /\ part = "frame" /\ UiNext
        /\ UNCHANGED <<nvnVars, backVars, inputVars>>

Spec == Init /\ [][Next]_<<part, nvnVars, backVars, inputVars, uiVars>>
=============================================================================

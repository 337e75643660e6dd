------------------------------- MODULE UiFrame -------------------------------
(***************************************************************************)
(* One frame of the menu: common/src/ui walks the tree of elements, opens  *)
(* and closes the scopes of ImGui around each, and calls back for what the *)
(* player did.  The tree is a window with containers inside one another    *)
(* and a leaf in the innermost; every way in which the elements may nest   *)
(* is tried, as is every answer of ImGui.                                  *)
(***************************************************************************)
EXTENDS Integers, Sequences

VARIABLES
  chain,        \* the containers from the window inwards
  leaf,         \* the element in the innermost container
  off,          \* how far in an element is disabled (0: none is)
  window,       \* sticky, toggleable and open of the window
  showing, swkbd_active, wantText,    \* Root, and WantTextInput of ImGui
  at, inward,   \* position in the walk; 0 is the root
  answers,      \* what beginDraw of each container returned
  scopes,       \* what was opened in ImGui and is not closed: <<level, scope>>
  value, told,  \* of the leaf: shown, and last given to the callback
  misplaced,    \* history: an End of this frame met another element's scope
  childHid      \* history: BeginChild returned false in this frame

uiVars == <<chain, leaf, off, window, showing, swkbd_active, wantText, at,
            inward, answers, scopes, value, told, misplaced, childHid>>
Tree == <<chain, leaf, off>>
RootState == <<showing, swkbd_active, wantText>>

MaxNesting == 3          \* bound: containers in one another
Lowest == 1              \* min and max of the leaf
Highest == 2
Shown == 0..3            \* bound: what a player may type
Untold == 4              \* the callback was not called yet

-----------------------------------------------------------------------------
(* ELEMENT_SUPPORTS_CHILD: the containers that each may hold.              *)
CommonElements == {"Combo", "FunctionWrappingElement", "MenuBar"}
Holds ==
  [Window |-> CommonElements \cup {"CollapsingHeader", "Row", "Grid", "Group", "Child"},
   CollapsingHeader |-> CommonElements \cup {"Row", "Grid", "Group"},
   Grid |-> CommonElements \cup {"Row", "Group"},
   Row |-> CommonElements \cup {"Group"},
   Group |-> CommonElements, Child |-> CommonElements,
   FunctionWrappingElement |-> {"Combo", "MenuBar"},
   MenuBar |-> {"Menu"}, Combo |-> {}, Menu |-> {}]
(* The leaves: what can be changed, and one that stands for the text and   *)
(* the spacing, which ImGui only draws.                                    *)
LeavesOf ==
  [k \in DOMAIN Holds |->
     CASE k = "Combo" -> {"Selectable"}
       [] k = "Menu" -> {"MenuItem"}
       [] k = "MenuBar" -> {"Text"}
       [] OTHER -> {"Button", "Checkbox", "ComboSimple", "InputInt", "Slider", "Text"}]

(* The containers whose beginDraw asks ImGui; the others return true.      *)
MayAnswerNo ==
  {"Window", "CollapsingHeader", "Child", "Combo", "Menu", "MenuBar",
   "FunctionWrappingElement"}
(* The scope ImGui opens.  Begin and BeginChild open theirs whatever they  *)
(* return; the popups and bars only when they return true.                 *)
Opens(k, yes) ==
  \/ k \in {"Window", "Child", "Grid", "Group"}
  \/ k \in {"Combo", "Menu", "MenuBar"} /\ yes
(* Drawable.render calls endDraw when beginDraw was true; Window has a     *)
(* render of its own.                                                      *)
(* Mutant: endDraw runs for every element.                                 *)
CallsEndAlways(k, yes) == TRUE
CallsEnd(k, yes) == yes \/ k = "Window"
(* What endDraw closes: nothing for a header, a row or a function.         *)
Closes(k) == k \in {"Window", "Child", "Grid", "Group", "Combo", "Menu", "MenuBar"}

Chains ==
  {c \in UNION {[1..n -> DOMAIN Holds] : n \in 1..MaxNesting} :
     c[1] = "Window" /\ \A i \in 2..Len(c) : c[i] \in Holds[c[i - 1]]}

UiTypeOK ==
  /\ chain \in Chains /\ leaf \in LeavesOf[chain[Len(chain)]]
  /\ off \in 0..Len(chain) + 1 /\ at \in 0..Len(chain) + 1
  /\ window \in [sticky : BOOLEAN, toggleable : BOOLEAN, open : BOOLEAN]
  /\ {showing, swkbd_active, wantText, inward, misplaced, childHid} \subseteq BOOLEAN
  /\ answers \in [1..MaxNesting -> BOOLEAN]
  /\ scopes \in Seq((1..MaxNesting + 1) \X {"Scope", "Disabled"})
  /\ value \in Shown /\ told \in Shown \cup {Untold}

UiInit ==
  /\ chain \in Chains
  /\ leaf \in LeavesOf[chain[Len(chain)]]
  /\ off \in {0} \cup 2..Len(chain) + 1
  /\ window \in [sticky : BOOLEAN, toggleable : BOOLEAN, open : {FALSE}]
  /\ showing = FALSE /\ swkbd_active = FALSE /\ wantText = FALSE
  /\ at = 0 /\ inward = TRUE /\ answers = [i \in 1..MaxNesting |-> FALSE]
  /\ scopes = <<>> /\ value = Lowest /\ told = Untold
  /\ misplaced = FALSE /\ childHid = FALSE

-----------------------------------------------------------------------------
(* Closing takes the innermost scope, whoever opened it.                   *)
Pop(open) == IF open # <<>> THEN SubSeq(open, 1, Len(open) - 1) ELSE open
Fits(open, i, what) == open # <<>> /\ open[Len(open)] = <<i, what>>

(* Root.beginDraw: once the menu was toggled on, the tree is walked in     *)
(* every frame.  A field that wants text opens the keyboard of the system, *)
(* once until it no longer does; what it returns is typed into the field.  *)
(* ImGui forgives the scopes that the frame before left open.              *)
RootBegin(toggled, wants) ==
  /\ at = 0
  /\ showing' = (showing \/ toggled)
  /\ wantText' = (wants /\ showing')
  /\ swkbd_active' = IF showing' THEN wantText' ELSE swkbd_active
  /\ childHid' = FALSE /\ misplaced' = FALSE
  /\ IF ~showing' THEN UNCHANGED <<at, inward, answers, scopes>>
     ELSE LET drawn == /\ window.sticky \/ toggled
                       /\ ~window.toggleable \/ window.open
          IN \E yes \in BOOLEAN :
               /\ at' = IF drawn THEN (IF yes THEN 2 ELSE 1) ELSE 0
               /\ inward' = (drawn /\ yes)
               /\ answers' = [answers EXCEPT ![1] = yes]
               /\ scopes' = IF drawn THEN <<<<1, "Scope">>>> ELSE <<>>
  /\ UNCHANGED <<Tree, window, value, told>>

(* BeginDisabled, around all that render does, also when it draws nothing. *)
(* Mutant: a container renders by itself, as the slider does, without it.  *)
DisabledNever(i) == scopes
DisabledBegun(i) ==
  IF off = i THEN Append(scopes, <<i, "Disabled">>) ELSE scopes
(* render of a container, and beginDraw.                                   *)
Enter(i, yes) ==
  /\ inward /\ at = i /\ i \in 2..Len(chain)
  /\ yes \/ chain[i] \in MayAnswerNo
  /\ scopes' = IF Opens(chain[i], yes)
                 THEN Append(DisabledBegun(i), <<i, "Scope">>)
                 ELSE DisabledBegun(i)
  /\ answers' = [answers EXCEPT ![i] = yes]
  /\ childHid' = (childHid \/ (chain[i] = "Child" /\ ~yes))
  /\ at' = IF yes THEN i + 1 ELSE i
  /\ inward' = yes
  /\ UNCHANGED <<Tree, window, RootState, value, told, misplaced>>

(* The children are drawn: endDraw, and the end of render.                 *)
Leave(i) ==
  /\ ~inward /\ at = i /\ i \in 1..Len(chain)
  /\ LET ends == CallsEnd(chain[i], answers[i]) /\ Closes(chain[i])
         inner == IF ends THEN Pop(scopes) ELSE scopes
     IN /\ scopes' = IF off = i THEN Pop(inner) ELSE inner
        /\ misplaced' = \/ misplaced
                        \/ ends /\ ~Fits(scopes, i, "Scope")
                        \/ off = i /\ ~Fits(inner, i, "Disabled")
  /\ at' = i - 1
  /\ UNCHANGED <<Tree, window, RootState, inward, answers, value, told, childHid>>

-----------------------------------------------------------------------------
(* The leaves.  A slider has a render of its own, which has no             *)
(* BeginDisabled: it is never disabled by itself, only by what is around.  *)
Disabled == \/ \E n \in 1..Len(scopes) : scopes[n][2] = "Disabled"
            \/ off = Len(chain) + 1 /\ leaf # "Slider"
LeafDrawn ==
  /\ inward /\ at = Len(chain) + 1
  /\ inward' = FALSE /\ at' = Len(chain)
  /\ UNCHANGED <<Tree, window, RootState, answers, scopes, misplaced, childHid>>

DrawUntouched == LeafDrawn /\ UNCHANGED <<value, told>>
(* Button, Selectable: the callback is told of the click alone.            *)
ClickButton ==
  /\ LeafDrawn /\ ~Disabled /\ leaf \in {"Button", "Selectable"}
  /\ told' = value /\ UNCHANGED value
(* Checkbox, MenuItem: ImGui turns the flag over that it was given.        *)
ToggleFlag ==
  /\ LeafDrawn /\ ~Disabled /\ leaf \in {"Checkbox", "MenuItem"}
  /\ value' = Lowest + Highest - value
  /\ told' = value'
ChooseItem ==
  /\ LeafDrawn /\ ~Disabled /\ leaf = "ComboSimple"
  /\ value' \in Lowest..Highest /\ told' = value'
Clamped(v) == IF v < Lowest THEN Lowest ELSE IF v > Highest THEN Highest ELSE v
EditInputInt(typed) ==
  /\ LeafDrawn /\ ~Disabled /\ leaf = "InputInt"
  /\ value' = Clamped(typed) /\ told' = value'
(* A slider keeps to its ends when it is dragged; a number typed into it   *)
(* is taken as it is, as the flags do not ask ImGui to clamp.              *)
MoveSlider(typed) ==
  /\ LeafDrawn /\ ~Disabled /\ leaf = "Slider"
  /\ value' = typed /\ told' = value'

(* The entry of the menu, or the button of its title bar, opens or closes  *)
(* the window between two frames.                                          *)
ToggleWindow ==
  /\ at = 0 /\ window.toggleable
  /\ window' = [window EXCEPT !.open = ~@]
  /\ UNCHANGED <<Tree, RootState, at, inward, answers, scopes, value, told,
                 misplaced, childHid>>

UiNext ==
  \/ \E toggled, wants \in BOOLEAN : RootBegin(toggled, wants)
  \/ \E i \in 1..MaxNesting, yes \in BOOLEAN : Enter(i, yes)
  \/ \E i \in 1..MaxNesting : Leave(i)
  \/ DrawUntouched \/ ClickButton \/ ToggleFlag \/ ChooseItem
  \/ \E v \in Shown : EditInputInt(v) \/ MoveSlider(v)
  \/ ToggleWindow

UiSpec == UiInit /\ [][UiNext]_uiVars

-----------------------------------------------------------------------------
(* Every End meets the scope its own element opened, and none is left open *)
(* at the end of a frame, whatever ImGui answers -- except after a Child   *)
(* that reported itself hidden, whose EndChild is then never called.       *)
ScopesBalanced ==
  ~childHid => ~misplaced /\ (at = 0 => scopes = <<>>)

(* Disabling a container reaches every leaf inside, however deep and past  *)
(* whatever scopes are opened and closed between the two, and disabling a  *)
(* leaf reaches the leaf: it neither changes nor calls back.  A slider     *)
(* that is disabled itself is the exception, for its own render            *)
(* (slider.h:19) has no BeginDisabled; inside a disabled container it is   *)
(* none.                                                                   *)
DisabledIsInert ==
  [][<<value, told>>' # <<value, told>> =>
       off = 0 \/ (off = Len(chain) + 1 /\ leaf = "Slider")]_uiVars
=============================================================================

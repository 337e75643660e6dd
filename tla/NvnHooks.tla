------------------------------- MODULE NvnHooks -------------------------------
(***************************************************************************)
(* The hooks on the graphics driver (common/src/imgui_backend/hooks.cpp):  *)
(* the game asks for functions by name and gets the hook of some, and the  *)
(* first command buffer after the first device and queue starts ImGui and  *)
(* builds the menu.  Games call the driver from several threads.           *)
(***************************************************************************)
EXTENDS Naturals

CONSTANT Renderer     \* threads of the game that call the driver

VARIABLES
  temp,          \* functions whose address has been stored
  nvnDevice, nvnQueue,
  canInitImgui,  \* what the game's own canInitImgui answers
  hasInitImGui,
  nvnPc,         \* place of each thread in cmdBufInit
  starts,        \* times that InitImGui got past its test
  tree,          \* setup_ui has built the whole menu
  viewport,      \* viewportSize: set by a window of the game, or the default
  gone,          \* "" or how the program stopped
  partDrawn,     \* history: a frame drew a menu that was not complete
  together       \* history: another call came while ImGui was being started

nvnVars == <<temp, nvnDevice, nvnQueue, canInitImgui, hasInitImGui, nvnPc,
             starts, tree, viewport, gone, partDrawn, together>>

Bootstrapped == {"device", "getProc"}
Proc == Bootstrapped \cup {"queue", "cmdBuf", "present", "texSize",
                           "windowTextures", "crop"}

NvnTypeOK ==
  /\ temp \subseteq Proc
  /\ nvnPc \in [Renderer -> {"out", "test", "start", "setup"}]
  /\ starts \in Nat
  /\ viewport \in {"none", "default", "texture", "crop"}
  /\ gone \in {"", "nullCall", "assertion"}
  /\ {nvnDevice, nvnQueue, canInitImgui, hasInitImGui, tree, partDrawn,
      together} \subseteq BOOLEAN

NvnInit ==
  /\ temp = {} /\ nvnDevice = FALSE /\ nvnQueue = FALSE
  /\ canInitImgui \in BOOLEAN
  /\ hasInitImGui = FALSE /\ tree = FALSE
  /\ nvnPc = [t \in Renderer |-> "out"]
  /\ starts = 0 /\ viewport = "none" /\ gone = ""
  /\ partDrawn = FALSE /\ together = FALSE

NvnGoto(t, place) == nvnPc' = [nvnPc EXCEPT ![t] = place]
Busy == \E u \in Renderer : nvnPc[u] # "out"
MenuState == <<canInitImgui, hasInitImGui, starts, tree>>
History == <<partDrawn, together>>

-----------------------------------------------------------------------------
(* A function is asked for by the loader or by getProc.                    *)
NvnBootstrap(p) ==
  /\ p \in Bootstrapped
  /\ temp' = temp \cup {p}
  /\ UNCHANGED <<nvnDevice, nvnQueue, MenuState, nvnPc, viewport, gone, History>>
GetProc(p) ==
  /\ "getProc" \in temp
  /\ temp' = temp \cup {p}
  /\ UNCHANGED <<nvnDevice, nvnQueue, MenuState, nvnPc, viewport, gone, History>>

(* deviceInit and queueInit keep the first of each.  The functions of the  *)
(* device are loaded through the address of getProc, asked for or not.     *)
DeviceInit ==
  /\ "device" \in temp
  /\ nvnDevice' = TRUE
  /\ gone' = IF "getProc" \in temp THEN gone ELSE "nullCall"
  /\ UNCHANGED <<temp, nvnQueue, MenuState, nvnPc, viewport, History>>
QueueInit ==
  /\ "queue" \in temp /\ nvnDevice
  /\ nvnQueue' = TRUE
  /\ UNCHANGED <<temp, nvnDevice, MenuState, nvnPc, viewport, gone, History>>

(* cmdBufInit, taken apart at the test, InitImGui and setup_ui.  Mutant:   *)
(* it does not look whether ImGui has been started.                        *)
MustStartAgain == nvnQueue /\ nvnDevice
MustStart == ~hasInitImGui /\ nvnQueue /\ nvnDevice
CmdBufInit(t) ==
  /\ "cmdBuf" \in temp /\ nvnDevice
  /\ nvnPc[t] = "out"
  /\ NvnGoto(t, "test")
  /\ together' = (together \/ Busy)
  /\ UNCHANGED <<temp, nvnDevice, nvnQueue, MenuState, viewport, gone, partDrawn>>
CmdBufTest(t) ==
  /\ nvnPc[t] = "test"
  /\ NvnGoto(t, IF MustStart THEN "start" ELSE "out")
  /\ UNCHANGED <<temp, nvnDevice, nvnQueue, MenuState, viewport, gone, History>>

(* InitImGui.  A second start keeps the context of the first, where the    *)
(* backend's assertion finds its data.  That the backend was set up only   *)
(* in part is not told.                                                    *)
InitImGui(t) ==
  /\ nvnPc[t] = "start"
  /\ IF canInitImgui
       THEN /\ starts' = starts + 1
            /\ hasInitImGui' = (hasInitImGui \/ starts = 0)
            /\ viewport' = IF starts = 0 THEN "default" ELSE viewport
            /\ gone' = IF starts = 0 THEN gone ELSE "assertion"
            /\ NvnGoto(t, "setup")
       ELSE /\ NvnGoto(t, "out")
            /\ UNCHANGED <<starts, hasInitImGui, viewport, gone>>
  /\ UNCHANGED <<temp, nvnDevice, nvnQueue, canInitImgui, tree, History>>
SetupUi(t) ==
  /\ nvnPc[t] = "setup"
  /\ tree' = TRUE
  /\ NvnGoto(t, "out")
  /\ UNCHANGED <<temp, nvnDevice, nvnQueue, canInitImgui, hasInitImGui, starts,
                 viewport, gone, History>>

(* The game's heap is there from now on.                                   *)
GameIsReady ==
  /\ ~canInitImgui
  /\ canInitImgui' = TRUE
  /\ UNCHANGED <<temp, nvnDevice, nvnQueue, hasInitImGui, nvnPc, starts, tree,
                 viewport, gone, History>>

-----------------------------------------------------------------------------
(* A frame: the menu is drawn first.                                       *)
PresentTexture(t) ==
  /\ "present" \in temp /\ nvnQueue
  /\ nvnPc[t] = "out"
  /\ partDrawn' = (partDrawn \/ (hasInitImGui /\ ~tree))
  /\ together' = (together \/ Busy)
  /\ UNCHANGED <<temp, nvnDevice, nvnQueue, MenuState, nvnPc, viewport, gone>>

(* The size of a window is read with functions that only the game loads.   *)
WindowBuilderSetTextures ==
  /\ "windowTextures" \in temp /\ nvnDevice
  /\ hasInitImGui
  /\ IF "texSize" \in temp
       THEN viewport' = "texture" /\ UNCHANGED gone
       ELSE gone' = "nullCall" /\ UNCHANGED viewport
  /\ UNCHANGED <<temp, nvnDevice, nvnQueue, MenuState, nvnPc, History>>
SetCrop ==
  /\ "crop" \in temp /\ nvnDevice
  /\ hasInitImGui
  /\ viewport' = "crop"
  /\ UNCHANGED <<temp, nvnDevice, nvnQueue, MenuState, nvnPc, gone, History>>

NvnNext ==
  /\ gone = ""
  /\ \/ \E p \in Proc : NvnBootstrap(p) \/ GetProc(p)
     \/ DeviceInit \/ QueueInit \/ GameIsReady
     \/ \E t \in Renderer :
          CmdBufInit(t) \/ CmdBufTest(t) \/ InitImGui(t) \/ SetupUi(t)
          \/ PresentTexture(t)
     \/ WindowBuilderSetTextures \/ SetCrop

NvnSpec == NvnInit /\ [][NvnNext]_nvnVars

-----------------------------------------------------------------------------
(* As long as no call comes while another starts ImGui, it is started once,*)
(* however many command buffers the game makes, its backend never fails    *)
(* its assertion, and no frame draws a menu that is only partly built.     *)
StartsWhole ==
  together \/ (starts <= 1 /\ gone # "assertion" /\ ~partDrawn)
=============================================================================

------------------------------ MODULE ScreenProofs ------------------------------
(***************************************************************************)
(* Theorems about the parts of the menu that MCScreen checks one at a time.*)
(***************************************************************************)
EXTENDS MCScreen, TLAPS, SequenceTheorems

-----------------------------------------------------------------------------
(* NvnHooks: for any number of threads that render.                        *)

(* One thread at a time is at work, and it alone has seen that ImGui must  *)
(* be started, or has the menu to build.                                   *)
OneBusy ==
  \A t, u \in Renderer : nvnPc[t] # "out" /\ nvnPc[u] # "out" => t = u
StartsOnce ==
  /\ starts \in {0, 1} /\ (hasInitImGui <=> starts = 1)
  /\ gone # "assertion" /\ ~partDrawn
  /\ \A t \in Renderer : nvnPc[t] = "start" => starts = 0
  /\ \A t \in Renderer : nvnPc[t] = "setup" => starts = 1
TreeOrSetup == starts = 1 => tree \/ \E t \in Renderer : nvnPc[t] = "setup"
NvnInv ==
  /\ nvnPc \in [Renderer -> {"out", "test", "start", "setup"}]
  /\ together \in BOOLEAN
  /\ ~together => OneBusy /\ StartsOnce /\ TreeOrSetup

LEMMA NvnInvInit == NvnInit => NvnInv
<1> SUFFICES ASSUME NvnInit PROVE NvnInv
  OBVIOUS
<1>1. together \in BOOLEAN /\ ~hasInitImGui /\ starts = 0 /\ ~partDrawn
  BY Zenon DEF NvnInit
<1>2. gone # "assertion"
  BY Zenon DEF NvnInit
<1>3. nvnPc = [t \in Renderer |-> "out"]
  BY Zenon DEF NvnInit
<1> HIDE DEF NvnInit
<1> QED BY <1>1, <1>2, <1>3 DEF NvnInv, OneBusy, StartsOnce, TreeOrSetup

(* A step that leaves the threads where they are and starts nothing.       *)
LEMMA StartUntouched ==
  ASSUME NvnInv, UNCHANGED <<nvnPc, starts, hasInitImGui, tree, partDrawn, together>>,
         gone' # "assertion" \/ gone' = gone
  PROVE  NvnInv'
BY DEF NvnInv, OneBusy, StartsOnce, TreeOrSetup

LEMMA CmdBufInitStep ==
  ASSUME NvnInv, NEW t \in Renderer, CmdBufInit(t)
  PROVE  NvnInv'
<1>1. /\ nvnPc' = [nvnPc EXCEPT ![t] = "test"] /\ nvnPc[t] = "out"
      /\ together' = (together \/ Busy)
      /\ UNCHANGED <<starts, hasInitImGui, tree, gone, partDrawn>>
  BY DEF CmdBufInit, NvnGoto, MenuState
<1>2. nvnPc' \in [Renderer -> {"out", "test", "start", "setup"}]
  BY <1>1 DEF NvnInv
<1>3. together' \in BOOLEAN
  BY <1>1
<1>4. ASSUME ~together' PROVE OneBusy' /\ StartsOnce' /\ TreeOrSetup'
  <2>1. ~together /\ \A u \in Renderer : nvnPc[u] = "out"
    BY <1>1, <1>4 DEF Busy
  <2>2. \A u \in Renderer : nvnPc'[u] # "out" => u = t /\ nvnPc'[u] = "test"
    BY <1>1, <2>1 DEF NvnInv
  <2>3. StartsOnce /\ TreeOrSetup
    BY <2>1 DEF NvnInv
  <2> QED BY <1>1, <2>1, <2>2, <2>3 DEF OneBusy, StartsOnce, TreeOrSetup
<1> QED BY <1>2, <1>3, <1>4 DEF NvnInv

LEMMA CmdBufTestStep ==
  ASSUME NvnInv, NEW t \in Renderer, CmdBufTest(t)
  PROVE  NvnInv'
<1> DEFINE place == IF MustStart THEN "start" ELSE "out"
<1>1. /\ nvnPc' = [nvnPc EXCEPT ![t] = place] /\ nvnPc[t] = "test"
      /\ UNCHANGED <<starts, hasInitImGui, tree, gone, partDrawn, together>>
  BY DEF CmdBufTest, NvnGoto, MenuState, History
<1>2. place \in {"out", "start"} /\ (place = "start" => ~hasInitImGui)
  BY DEF MustStart
<1> HIDE DEF place
<1>3. nvnPc' \in [Renderer -> {"out", "test", "start", "setup"}]
  BY <1>1, <1>2 DEF NvnInv
<1>4. \A u \in Renderer : nvnPc'[u] = IF u = t THEN place ELSE nvnPc[u]
  BY <1>1 DEF NvnInv
<1>5. ASSUME ~together PROVE OneBusy' /\ StartsOnce' /\ TreeOrSetup'
  <2>1. OneBusy /\ StartsOnce /\ TreeOrSetup
    BY <1>5 DEF NvnInv
  <2>2. OneBusy'
    BY <1>1, <1>4, <2>1 DEF OneBusy
  <2>3. StartsOnce'
    BY <1>1, <1>2, <1>4, <2>1 DEF StartsOnce
  <2>4. TreeOrSetup'
    BY <1>1, <1>4, <2>1 DEF TreeOrSetup
  <2> QED BY <2>2, <2>3, <2>4
<1> QED BY <1>1, <1>3, <1>5 DEF NvnInv

LEMMA InitImGuiStep ==
  ASSUME NvnInv, NEW t \in Renderer, InitImGui(t)
  PROVE  NvnInv'
<1> DEFINE place == IF canInitImgui THEN "setup" ELSE "out"
<1>1. /\ nvnPc' = [nvnPc EXCEPT ![t] = place] /\ nvnPc[t] = "start"
      /\ UNCHANGED <<tree, partDrawn, together>>
  BY DEF InitImGui, NvnGoto, History
<1>2. \A u \in Renderer : nvnPc'[u] = IF u = t THEN place ELSE nvnPc[u]
  BY <1>1 DEF NvnInv
<1>3. nvnPc' \in [Renderer -> {"out", "test", "start", "setup"}]
  BY <1>1 DEF NvnInv
<1>4. ASSUME ~together PROVE OneBusy' /\ StartsOnce' /\ TreeOrSetup'
  <2>1. OneBusy /\ StartsOnce /\ TreeOrSetup
    BY <1>4 DEF NvnInv
  <2>2. /\ starts = 0 /\ \A u \in Renderer \ {t} : nvnPc[u] = "out"
    BY <1>1, <2>1 DEF OneBusy, StartsOnce
  <2>3. OneBusy'
    BY <1>2, <2>2 DEF OneBusy
  <2>4. CASE canInitImgui
    <3>0. /\ starts' = starts + 1
          /\ gone' = IF starts = 0 THEN gone ELSE "assertion"
      BY <2>4, Zenon DEF InitImGui
    <3>1. starts' = 1 /\ gone' = gone
      BY <2>2, <3>0
    <3>2. nvnPc'[t] = "setup" /\ \A u \in Renderer \ {t} : nvnPc'[u] = "out"
      BY <1>2, <2>2, <2>4
    <3>3. hasInitImGui'
      BY <2>2, <2>4 DEF InitImGui
    <3> QED BY <1>1, <2>1, <2>3, <3>1, <3>2, <3>3 DEF StartsOnce, TreeOrSetup
  <2>5. CASE ~canInitImgui
    <3>1. UNCHANGED <<starts, hasInitImGui, gone>>
      BY <2>5 DEF InitImGui
    <3>2. \A u \in Renderer : nvnPc'[u] = "out"
      BY <1>2, <2>2, <2>5
    <3> QED BY <1>1, <2>1, <2>2, <2>3, <3>1, <3>2 DEF StartsOnce, TreeOrSetup
  <2> QED BY <2>4, <2>5
<1> QED BY <1>1, <1>3, <1>4 DEF NvnInv

LEMMA SetupUiStep ==
  ASSUME NvnInv, NEW t \in Renderer, SetupUi(t)
  PROVE  NvnInv'
<1>1. /\ nvnPc' = [nvnPc EXCEPT ![t] = "out"] /\ tree' = TRUE
      /\ UNCHANGED <<starts, hasInitImGui, gone, partDrawn, together>>
  BY DEF SetupUi, NvnGoto, History
<1>2. \A u \in Renderer : nvnPc'[u] = IF u = t THEN "out" ELSE nvnPc[u]
  BY <1>1 DEF NvnInv
<1>3. nvnPc' \in [Renderer -> {"out", "test", "start", "setup"}]
  BY <1>1 DEF NvnInv
<1>4. OneBusy => OneBusy'
  BY <1>2 DEF OneBusy
<1>5. StartsOnce => StartsOnce'
  BY <1>1, <1>2 DEF StartsOnce
<1>6. TreeOrSetup'
  BY <1>1 DEF TreeOrSetup
<1> QED BY <1>1, <1>3, <1>4, <1>5, <1>6 DEF NvnInv

LEMMA PresentStep ==
  ASSUME NvnInv, NEW t \in Renderer, PresentTexture(t)
  PROVE  NvnInv'
<1>1. /\ partDrawn' = (partDrawn \/ (hasInitImGui /\ ~tree))
      /\ together' = (together \/ Busy)
      /\ UNCHANGED <<nvnPc, starts, hasInitImGui, tree, gone>>
  BY DEF PresentTexture, MenuState
<1>2. together' \in BOOLEAN
  BY <1>1
<1>3. ASSUME ~together' PROVE OneBusy' /\ StartsOnce' /\ TreeOrSetup'
  <2>1. ~together /\ \A u \in Renderer : nvnPc[u] = "out"
    BY <1>1, <1>3 DEF Busy
  <2>2. OneBusy /\ StartsOnce /\ TreeOrSetup
    BY <2>1 DEF NvnInv
  <2>3. ~partDrawn'
    BY <1>1, <2>1, <2>2 DEF StartsOnce, TreeOrSetup
  <2> QED BY <1>1, <2>2, <2>3 DEF OneBusy, StartsOnce, TreeOrSetup
<1> QED BY <1>1, <1>2, <1>3 DEF NvnInv

LEMMA NvnInvStep == ASSUME NvnInv, [NvnNext]_nvnVars PROVE NvnInv'
<1>1. CASE UNCHANGED nvnVars
  BY <1>1, StartUntouched DEF nvnVars
<1>2. CASE \/ \E p \in Proc : NvnBootstrap(p) \/ GetProc(p)
           \/ DeviceInit \/ QueueInit \/ GameIsReady
           \/ WindowBuilderSetTextures \/ SetCrop
  <2>1. /\ UNCHANGED <<nvnPc, starts, hasInitImGui, tree, partDrawn, together>>
        /\ gone' \in {gone, "nullCall"}
    BY <1>2 DEF NvnBootstrap, GetProc, DeviceInit, QueueInit, GameIsReady,
       WindowBuilderSetTextures, SetCrop, MenuState, History
  <2> QED BY <2>1, StartUntouched
<1>3. ASSUME NEW t \in Renderer,
             \/ CmdBufInit(t) \/ CmdBufTest(t) \/ InitImGui(t) \/ SetupUi(t)
             \/ PresentTexture(t)
      PROVE  NvnInv'
  BY <1>3, CmdBufInitStep, CmdBufTestStep, InitImGuiStep, SetupUiStep, PresentStep
<1> QED BY <1>1, <1>2, <1>3 DEF NvnNext

(* ImGui is started once and no frame draws a part of the menu, unless a   *)
(* call comes while another starts it.                                     *)
THEOREM StartedWhole == NvnSpec => []StartsWhole
<1>1. NvnInv => StartsWhole
  BY DEF NvnInv, StartsOnce, StartsWhole
<1> QED BY <1>1, NvnInvInit, NvnInvStep, PTL DEF NvnSpec

-----------------------------------------------------------------------------
(* MenuInput: for any buttons.                                             *)

(* What ImGui takes for held was so at the read before, or was missed.     *)
KeyInv ==
  /\ menuPc \in {"idle", "reading", "read"}
  /\ menuPc # "read" => imguiKeys \subseteq curController \cup missed
  /\ menuPc # "idle" => imguiKeys \subseteq prevController \cup missed

LEMMA KeyInvStep == ASSUME KeyInv, [InputNext]_inputVars PROVE KeyInv'
<1>1. ASSUME UNCHANGED <<menuPc, imguiKeys, curController, prevController, missed>>
      PROVE  KeyInv'
  BY <1>1 DEF KeyInv
<1>2. CASE UNCHANGED inputVars
  BY <1>1, <1>2 DEF inputVars
<1>3. ASSUME NEW b \in Button, Press(b) PROVE KeyInv'
  BY <1>1, <1>3 DEF Press, PadState
<1>4. CASE GameReads \/ DisablePadState
  BY <1>1, <1>4 DEF GameReads, DisablePadState, PadState
<1>5. CASE UpdatePadState
  BY <1>5 DEF UpdatePadState, KeyInv
<1>6. CASE TryGetContState
  BY <1>6 DEF TryGetContState, KeyInv
<1>7. CASE UpdateInput
  BY <1>7 DEF UpdateInput, KeyInv, Pressed, Released, PadState
<1> QED BY <1>2, <1>3, <1>4, <1>5, <1>6, <1>7 DEF InputNext

(* No button stays down for ImGui that went up while the menu was on.      *)
THEOREM KeysComeUp == InputSpec => []NoKeyStuck
<1>1. InputInit => KeyInv
  BY DEF InputInit, KeyInv
<1>2. KeyInv => NoKeyStuck
  BY DEF KeyInv, NoKeyStuck
<1> QED BY <1>1, <1>2, KeyInvStep, PTL DEF InputSpec

-----------------------------------------------------------------------------
(* NvnBackend: for pages of any size and any number of frames.             *)

(* A buffer that is ready has the size it says.  The draws that the GPU    *)
(* has not run find their own lists in both buffers, unless a frame began  *)
(* before it had run the last.                                             *)
Sized(b) ==
  b.ready => /\ b.size \in Nat /\ DOMAIN b.data = 1 .. b.size
             /\ DOMAIN b = {"size", "ready", "data", "made"}
Reads(d) == Own(vtxBuffer, d.vtx, d) /\ Own(idxBuffer, d.idx, d)
AllRead == \A k \in 1 .. Len(submitted) : Reads(submitted[k])
BackTyped ==
  /\ frame \in Nat /\ Sized(vtxBuffer) /\ Sized(idxBuffer)
  /\ submitted \in Seq([list : Nat \X Nat, from : Nat, count : Nat,
                        vtx : Nat, idx : Nat])
  /\ vtxBuffer.made \in Nat /\ idxBuffer.made \in Nat
  /\ late \in BOOLEAN /\ foreign \in BOOLEAN
  /\ isInitialized => setup = Len(Steps)
  /\ submitted # <<>> => isInitialized
BackInv ==
  /\ BackTyped
  /\ ~late => ~foreign /\ AllRead

LEMMA PageHolds ==
  ASSUME NEW n \in Nat
  PROVE  AlignUp(n) \in Nat /\ n <= AlignUp(n)
<1> DEFINE m == n + Page - 1
<1>1. m \in Nat /\ Page \in Nat \ {0} /\ m - Page + 1 = n
  BY BackendAssumption
<1>2. /\ m \div Page \in Nat /\ (m % Page) \in 0 .. Page - 1
      /\ m = Page * (m \div Page) + (m % Page)
  <2> HIDE DEF m
  <2> QED BY <1>1
<1> HIDE DEF m
<1>3. (m \div Page) * Page = Page * (m \div Page) /\ Page * (m \div Page) \in Nat
  BY <1>1, <1>2
<1>4. AlignUp(n) = Page * (m \div Page)
  BY <1>3 DEF AlignUp, m
<1> QED BY <1>1, <1>2, <1>3, <1>4

(* A buffer that is ready after it was made to fit has room for the lists. *)
LEMMA FittedHolds ==
  ASSUME NEW b, Sized(b), b.made \in Nat, NEW n \in Nat, NEW f \in Fitted(b, n),
         frame \in Nat
  PROVE  Sized(f) /\ f.made \in Nat /\ (f.ready => n <= f.size)
<1>1. CASE b.made = 0 \/ TooSmall(b, n)
  <2>1. f \in MadeBuffer(n)
    BY <1>1 DEF Fitted
  <2>2. CASE f = [NoBuffer EXCEPT !.made = frame + 1]
    BY <2>2 DEF NoBuffer, Sized
  <2>3. ASSUME NEW r \in BOOLEAN,
               f = [size |-> AlignUp(n), ready |-> r, made |-> frame + 1,
                    data |-> [i \in 1 .. AlignUp(n) |-> Nothing]]
        PROVE  Sized(f) /\ f.made \in Nat /\ (f.ready => n <= f.size)
    <3>1. /\ f.size = AlignUp(n) /\ f.made = frame + 1
          /\ DOMAIN f.data = 1 .. AlignUp(n)
          /\ DOMAIN f = {"size", "ready", "data", "made"}
      BY <2>3
    <3> QED BY <3>1, PageHolds DEF Sized
  <2> QED BY <2>1, <2>2, <2>3 DEF MadeBuffer
<1>2. CASE ~(b.made = 0 \/ TooSmall(b, n))
  <2>1. f = b
    BY <1>2 DEF Fitted
  <2> QED BY <1>2, <2>1 DEF TooSmall, Sized
<1> QED BY <1>1, <1>2

LEMMA ListsTyped ==
  ASSUME NEW lists \in Lists
  PROVE  /\ Len(lists) \in {1, 2} /\ DOMAIN lists = 1 .. Len(lists)
         /\ \A k \in DOMAIN lists : lists[k] \in Nat \ {0}
         /\ Total(lists) \in Nat
<1>1. CASE \E a \in 1 .. 3 : lists = <<a>>
  BY <1>1 DEF Total
<1>2. CASE \E a, b \in 1 .. 2 : lists = <<a, b>>
  BY <1>2 DEF Total
<1> QED BY <1>1, <1>2 DEF Lists

(* Each list is where its draw looks for it.                               *)
LEMMA CopiedLists ==
  ASSUME NEW b, Sized(b), b.ready, NEW lists \in Lists, Total(lists) <= b.size,
         NEW k \in DOMAIN lists
  PROVE  /\ Copied(b, lists).made = b.made
         /\ Offset(lists, k) \in Nat
         /\ \A i \in Offset(lists, k) + 1 .. Offset(lists, k) + lists[k] :
              /\ i \in DOMAIN Copied(b, lists).data
              /\ Copied(b, lists).data[i] = <<frame + 1, k>>
<1> DEFINE In(i) == {j \in DOMAIN lists : i > Offset(lists, j)
                                          /\ i <= Offset(lists, j) + lists[j]}
           data(i) == IF In(i) = {} THEN b.data[i]
                      ELSE <<frame + 1, CHOOSE m \in In(i) : \A j \in In(i) : j <= m>>
<1>1. /\ b.size \in Nat /\ DOMAIN b.data = 1 .. b.size
      /\ DOMAIN b = {"size", "ready", "data", "made"}
  BY DEF Sized
<1>2. Copied(b, lists) = [b EXCEPT !.data = [i \in DOMAIN b.data |-> data(i)]]
  BY DEF Copied
<1> HIDE DEF data
<1>3. /\ Copied(b, lists).made = b.made
      /\ Copied(b, lists).data = [i \in 1 .. b.size |-> data(i)]
  BY <1>1, <1>2
<1>4. /\ Len(lists) \in {1, 2} /\ DOMAIN lists = 1 .. Len(lists)
      /\ \A j \in DOMAIN lists : lists[j] \in Nat \ {0}
  BY ListsTyped
<1>5. \A j \in DOMAIN lists : Offset(lists, j) = IF j = 1 THEN 0 ELSE lists[1]
  BY DEF Offset
<1>6. Offset(lists, k) \in Nat
  BY <1>4, <1>5
<1>7. ASSUME NEW i \in Offset(lists, k) + 1 .. Offset(lists, k) + lists[k]
      PROVE  i \in 1 .. b.size /\ data(i) = <<frame + 1, k>>
  <2>1. i \in 1 .. b.size
    BY <1>1, <1>4, <1>5, <1>7 DEF Total
  <2>2. In(i) = {k}
    BY <1>4, <1>5, <1>7
  <2> HIDE DEF In
  <2>3. data(i) = <<frame + 1, CHOOSE m \in {k} : \A j \in {k} : j <= m>>
    BY <2>2 DEF data
  <2>4. (CHOOSE m \in {k} : \A j \in {k} : j <= m) = k
    BY <1>4
  <2> QED BY <2>1, <2>3, <2>4
<1> QED BY <1>3, <1>6, <1>7

LEMMA BackInvInit == BackInit => BackInv
<1> SUFFICES ASSUME BackInit PROVE BackInv
  OBVIOUS
<1>1. late \in BOOLEAN /\ foreign \in BOOLEAN /\ ~isInitialized /\ ~foreign
  BY DEF BackInit
<1>2. submitted = <<>> /\ frame = 0
  BY DEF BackInit
<1>3. /\ Sized(vtxBuffer) /\ Sized(idxBuffer)
      /\ vtxBuffer.made = 0 /\ idxBuffer.made = 0
  BY DEF BackInit, Sized, NoBuffer
<1>4. /\ submitted \in Seq([list : Nat \X Nat, from : Nat, count : Nat,
                           vtx : Nat, idx : Nat])
      /\ AllRead
  BY <1>2, EmptySeq DEF AllRead
<1>5. BackTyped
  BY <1>1, <1>2, <1>3, <1>4 DEF BackTyped
<1> QED BY <1>1, <1>4, <1>5 DEF BackInv

LEMMA RenderStep ==
  ASSUME BackInv, NEW lists \in Lists,
         NEW vtx \in Fitted(vtxBuffer, Total(lists)),
         NEW idx \in Fitted(idxBuffer, Total(lists)),
         RenderDrawData(lists, vtx, idx)
  PROVE  BackInv'
<1>1. /\ isInitialized /\ isInitialized' = isInitialized /\ setup' = setup
      /\ frame' = frame + 1 /\ foreign' = foreign
      /\ late' = (late \/ submitted # <<>>)
  BY DEF RenderDrawData
<1>2. /\ frame \in Nat /\ (isInitialized => setup = Len(Steps))
      /\ submitted \in Seq([list : Nat \X Nat, from : Nat, count : Nat,
                            vtx : Nat, idx : Nat])
      /\ foreign \in BOOLEAN /\ late \in BOOLEAN
  BY DEF BackInv, BackTyped
<1>3. /\ Sized(vtx) /\ vtx.made \in Nat /\ (vtx.ready => Total(lists) <= vtx.size)
      /\ Sized(idx) /\ idx.made \in Nat /\ (idx.ready => Total(lists) <= idx.size)
  BY FittedHolds, ListsTyped DEF BackInv, BackTyped
<1>4. late' \in BOOLEAN
  BY <1>1
<1>5. CASE ~(vtx.ready /\ idx.ready)
  <2>1. vtxBuffer' = vtx /\ idxBuffer' = idx /\ submitted' = submitted
    BY <1>5 DEF RenderDrawData
  <2>2. BackTyped'
    BY <1>1, <1>2, <1>3, <1>4, <2>1 DEF BackTyped
  <2>3. ASSUME ~late'
        PROVE  ~foreign' /\ AllRead'
    <3>1. submitted' = <<>> /\ ~late
      BY <1>1, <2>1, <2>3
    <3> QED BY <1>1, <3>1 DEF BackInv, AllRead
  <2> QED BY <2>2, <2>3 DEF BackInv
<1>6. CASE vtx.ready /\ idx.ready
  <2> DEFINE Draw == [list : Nat \X Nat, from : Nat, count : Nat,
                      vtx : Nat, idx : Nat]
             new == Draws(lists, vtx, idx)
  <2>1. /\ vtxBuffer' = Copied(vtx, lists) /\ idxBuffer' = Copied(idx, lists)
        /\ submitted' = submitted \o new
    BY <1>6 DEF RenderDrawData
  <2>2. /\ Len(lists) \in Nat /\ DOMAIN lists = 1 .. Len(lists)
        /\ \A k \in DOMAIN lists : lists[k] \in Nat \ {0}
    BY ListsTyped
  <2>3. \A k \in DOMAIN lists :
          new[k] = [list |-> <<frame + 1, k>>, from |-> Offset(lists, k),
                    count |-> lists[k], vtx |-> vtx.made, idx |-> idx.made]
    BY DEF Draws
  <2>4. \A k \in DOMAIN lists : Offset(lists, k) \in Nat
    BY <1>3, <1>6, CopiedLists
  <2>5. ASSUME NEW k \in DOMAIN lists PROVE new[k] \in Draw
    <3> HIDE DEF new
    <3>1. /\ <<frame + 1, k>> \in Nat \X Nat /\ Offset(lists, k) \in Nat
          /\ lists[k] \in Nat
      BY <1>2, <2>2, <2>4
    <3>2. new[k] = [list |-> <<frame + 1, k>>, from |-> Offset(lists, k),
                    count |-> lists[k], vtx |-> vtx.made, idx |-> idx.made]
      BY <2>3
    <3>3. vtx.made \in Nat /\ idx.made \in Nat
      BY <1>3
    <3> QED BY <3>1, <3>2, <3>3
  <2>6. DOMAIN new = 1 .. Len(lists)
    BY <2>2 DEF Draws
  <2>7. new \in Seq(Draw) /\ Len(new) = Len(lists)
    BY <2>2, <2>5, <2>6 DEF Draws
  <2>8. Sized(Copied(vtx, lists)) /\ Sized(Copied(idx, lists))
    BY <1>3, <1>6 DEF Sized, Copied
  <2>9. /\ Copied(vtx, lists).made = vtx.made /\ Copied(idx, lists).made = idx.made
    <3>1. 1 \in DOMAIN lists
      BY ListsTyped
    <3>2. Copied(vtx, lists).made = vtx.made
      BY <1>3, <1>6, CopiedLists, <3>1
    <3>3. Copied(idx, lists).made = idx.made
      BY <1>3, <1>6, CopiedLists, <3>1
    <3> QED BY <3>2, <3>3
  <2> HIDE DEF new, Draw
  <2>10. BackTyped'
    <3>1. submitted' \in Seq(Draw)
      BY <1>2, <2>1, <2>7 DEF Draw
    <3> QED BY <1>1, <1>2, <1>3, <1>4, <2>1, <2>8, <2>9, <3>1 DEF BackTyped, Draw
  <2>11. ASSUME ~late'
         PROVE  ~foreign' /\ AllRead'
    <3>0. ~late /\ submitted = <<>>
      BY <1>1, <2>11
    <3>1. ~late /\ submitted' = new
      BY <2>1, <2>7, <3>0, ConcatEmptySeq
    <3>2. ASSUME NEW k \in DOMAIN lists
          PROVE  /\ Own(Copied(vtx, lists), new[k].vtx, new[k])
                 /\ Own(Copied(idx, lists), new[k].idx, new[k])
      <4> DEFINE d == new[k]
      <4>0. d = [list |-> <<frame + 1, k>>, from |-> Offset(lists, k),
                 count |-> lists[k], vtx |-> vtx.made, idx |-> idx.made]
        BY <2>3
      <4> HIDE DEF d
      <4>1. /\ d.list = <<frame + 1, k>> /\ d.from = Offset(lists, k)
            /\ d.count = lists[k] /\ d.vtx = vtx.made /\ d.idx = idx.made
        BY <4>0
      <4>2. Own(Copied(vtx, lists), d.vtx, d)
        BY <1>3, <1>6, <4>1, CopiedLists DEF Own
      <4>3. Own(Copied(idx, lists), d.idx, d)
        BY <1>3, <1>6, <4>1, CopiedLists DEF Own
      <4> QED BY <4>2, <4>3 DEF d
    <3>3. AllRead'
      BY <2>1, <2>2, <2>7, <3>1, <3>2 DEF AllRead, Reads
    <3>4. ~foreign'
      BY <1>1, <3>1 DEF BackInv
    <3> QED BY <3>3, <3>4
  <2> QED BY <2>10, <2>11 DEF BackInv
<1> QED BY <1>5, <1>6

LEMMA GpuStep == ASSUME BackInv, GpuDraws PROVE BackInv'
<1> DEFINE d == Head(submitted)
<1>1. /\ submitted # <<>> /\ submitted' = Tail(submitted)
      /\ UNCHANGED <<setup, isInitialized, vtxBuffer, idxBuffer, frame, late>>
  BY DEF GpuDraws
<1>2. foreign' = (foreign \/ setup < Len(Steps) \/ ~Own(vtxBuffer, d.vtx, d)
                  \/ ~Own(idxBuffer, d.idx, d))
  BY DEF GpuDraws
<1>3. setup = Len(Steps) /\ submitted \in Seq([list : Nat \X Nat, from : Nat, count : Nat,
                        vtx : Nat, idx : Nat])
  BY <1>1 DEF BackInv, BackTyped
<1>4. /\ submitted' \in Seq([list : Nat \X Nat, from : Nat, count : Nat,
                            vtx : Nat, idx : Nat])
      /\ Len(submitted') = Len(submitted) - 1 /\ Len(submitted) \in Nat
      /\ \A k \in 1 .. Len(submitted') : submitted'[k] = submitted[k + 1]
      /\ d = submitted[1] /\ Len(submitted) > 0
  BY <1>1, <1>3, HeadTailProperties, EmptySeq
<1>5. foreign' \in BOOLEAN
  BY <1>2
<1>6. BackTyped'
  BY <1>1, <1>4, <1>5 DEF BackInv, BackTyped
<1>7. ASSUME ~late PROVE ~foreign' /\ AllRead'
  <2>1. ~foreign /\ \A k \in 1 .. Len(submitted) : Reads(submitted[k])
    BY <1>7 DEF BackInv, AllRead
  <2>2. Own(vtxBuffer, d.vtx, d) /\ Own(idxBuffer, d.idx, d)
    BY <1>4, <2>1 DEF Reads
  <2>3. ~(setup < Len(Steps))
    <3>1. Len(Steps) = 12
      BY DEF Steps
    <3> QED BY <1>3, <3>1
  <2>4. ~foreign'
    <3> HIDE DEF d
    <3> QED BY <1>2, <2>1, <2>2, <2>3
  <2>5. AllRead'
    <3> SUFFICES ASSUME NEW k \in 1 .. Len(submitted')
                 PROVE  Reads(submitted[k])'
      BY DEF AllRead
    <3>1. k + 1 \in 1 .. Len(submitted) /\ submitted'[k] = submitted[k + 1]
      BY <1>4
    <3>2. Reads(submitted[k + 1])
      BY <2>1, <3>1
    <3> QED BY <1>1, <3>1, <3>2 DEF Reads
  <2> QED BY <2>4, <2>5
<1> QED BY <1>1, <1>6, <1>7 DEF BackInv

LEMMA BackInvStep == ASSUME BackInv, [BackNext]_backVars PROVE BackInv'
<1>1. CASE UNCHANGED backVars
  BY <1>1 DEF backVars, BackInv, BackTyped, AllRead, Reads
<1>2. ASSUME NEW n \in 1 .. Len(Steps), InitBackend(n) PROVE BackInv'
  <2>1. /\ setup' = n /\ isInitialized' = (n = Len(Steps)) /\ ~isInitialized
        /\ UNCHANGED <<vtxBuffer, idxBuffer, frame, submitted, foreign, late>>
    BY <1>2 DEF InitBackend, AllDone
  <2>2. submitted = <<>>
    BY <2>1 DEF BackInv, BackTyped
  <2>3. BackTyped'
    BY <2>1, <2>2 DEF BackInv, BackTyped
  <2> QED BY <2>1, <2>3 DEF BackInv, AllRead, Reads
<1>3. CASE RenderNothing
  <2>1. /\ frame' = frame + 1 /\ late' = (late \/ submitted # <<>>)
        /\ UNCHANGED <<setup, isInitialized, vtxBuffer, idxBuffer, submitted, foreign>>
    BY <1>3 DEF RenderNothing
  <2>2. late' \in BOOLEAN
    BY <2>1
  <2>3. BackTyped'
    BY <2>1, <2>2 DEF BackInv, BackTyped
  <2> QED BY <2>1, <2>3 DEF BackInv, AllRead, Reads
<1> QED BY <1>1, <1>2, <1>3, RenderStep, GpuStep DEF BackNext

(* Every draw reads its own lists, in memory that is there and with all    *)
(* that it binds set up, unless a frame began before the GPU was done.     *)
THEOREM OwnListsAreDrawn == BackSpec => []DrawsOwnLists
<1>1. BackInv => DrawsOwnLists
  BY DEF BackInv, DrawsOwnLists
<1> QED BY <1>1, BackInvInit, BackInvStep, PTL DEF BackSpec

-----------------------------------------------------------------------------
(* UiFrame: the scopes.                                                    *)

(* The levels of the tree that the walk has entered and not left.          *)
Depth == IF inward /\ at > 0 THEN at - 1 ELSE at

(* What is open once level i was entered, given what was open before.      *)
Entered(open, i, yes) ==
  LET disabled == IF off = i THEN Append(open, <<i, "Disabled">>) ELSE open
  IN IF Opens(chain[i], yes) THEN Append(disabled, <<i, "Scope">>) ELSE disabled

(* h tells for each level what was open once it was entered, and what it   *)
(* tells of the innermost level is open now.                               *)
ScopeSeq == Seq((1 .. MaxNesting + 1) \X {"Scope", "Disabled"})
Nested(h) ==
  /\ h \in [0 .. MaxNesting -> ScopeSeq] /\ h[0] = <<>>
  /\ \A i \in 1 .. Depth : h[i] = Entered(h[i - 1], i, answers[i])
  /\ scopes = h[Depth]

(* endDraw runs for exactly the levels whose beginDraw opened something.   *)
Paired(k, yes) == (yes \/ k \in MayAnswerNo) /\ (k = "Child" => yes)
LevelsPaired == \A i \in 1 .. Depth : Paired(chain[i], answers[i])

WalkTyped ==
  /\ Len(chain) \in 1 .. MaxNesting /\ chain[1] = "Window"
  /\ \A i \in 1 .. Len(chain) : chain[i] \in DOMAIN Holds
  /\ at \in 0 .. Len(chain) + 1 /\ off # 1
  /\ inward \in BOOLEAN /\ childHid \in BOOLEAN /\ misplaced \in BOOLEAN
  /\ showing \in BOOLEAN
  /\ answers \in [1 .. MaxNesting -> BOOLEAN]
ScopeInv ==
  /\ WalkTyped
  /\ ~inward => at \in 0 .. Len(chain)
  /\ ~showing => at = 0 /\ scopes = <<>>
  /\ ~childHid => ~misplaced /\ LevelsPaired /\ \E h : Nested(h)

LEMMA PairedEnds ==
  ASSUME NEW k \in DOMAIN Holds, NEW yes \in BOOLEAN, Paired(k, yes)
  PROVE  (CallsEnd(k, yes) /\ Closes(k)) <=> Opens(k, yes)
BY DEF Holds, CommonElements, Paired, MayAnswerNo, CallsEnd, Closes, Opens

LEMMA PopAppend ==
  ASSUME NEW S, NEW s \in Seq(S), NEW i, NEW w, <<i, w>> \in S
  PROVE  /\ Append(s, <<i, w>>) \in Seq(S)
         /\ Pop(Append(s, <<i, w>>)) = s
         /\ Fits(Append(s, <<i, w>>), i, w)
<1> DEFINE x == <<i, w>>
           a == Append(s, x)
<1> HIDE DEF x
<1>1. x \in S
  BY DEF x
<1>2. /\ a \in Seq(S) /\ a # <<>> /\ Len(a) = Len(s) + 1 /\ Len(s) \in Nat
      /\ \A n \in 1 .. Len(s) : a[n] = s[n]
      /\ a[Len(s) + 1] = x
  BY <1>1, AppendProperties, LenProperties
<1> HIDE DEF a
<1>3. Fits(a, i, w)
  BY <1>2 DEF Fits, x
<1>4. Pop(a) = s
  <2>1. Pop(a) = SubSeq(a, 1, Len(s))
    BY <1>2 DEF Pop
  <2>2. SubSeq(a, 1, Len(s)) = [n \in 1 .. Len(s) |-> a[n]]
    BY <1>2
  <2>3. s = [n \in 1 .. Len(s) |-> s[n]]
    BY LenProperties
  <2> QED BY <1>2, <2>1, <2>2, <2>3
<1> QED BY <1>2, <1>3, <1>4 DEF a, x

LEMMA DepthRange ==
  ASSUME WalkTyped, ~inward => at \in 0 .. Len(chain)
  PROVE  Depth \in 0 .. Len(chain) /\ Depth \in 0 .. MaxNesting
BY DEF WalkTyped, Depth, MaxNesting

LEMMA EnteredIsSeq ==
  ASSUME NEW open \in ScopeSeq, NEW i \in 1 .. MaxNesting, NEW yes
  PROVE  Entered(open, i, yes) \in ScopeSeq
<1> DEFINE S == (1 .. MaxNesting + 1) \X {"Scope", "Disabled"}
           disabled == IF off = i THEN Append(open, <<i, "Disabled">>) ELSE open
<1>1. <<i, "Disabled">> \in S /\ <<i, "Scope">> \in S
  BY DEF MaxNesting
<1>2. open \in Seq(S) /\ ScopeSeq = Seq(S)
  BY DEF ScopeSeq
<1> HIDE DEF S
<1>3. disabled \in Seq(S)
  BY <1>1, <1>2, AppendProperties
<1>4. Append(disabled, <<i, "Scope">>) \in Seq(S)
  <2> HIDE DEF disabled
  <2> QED BY <1>1, <1>3, AppendProperties
<1> QED BY <1>2, <1>3, <1>4 DEF Entered

(* The end of a level takes exactly what its beginning added.              *)
LEMMA LeavesWhatEntered ==
  ASSUME NEW open \in ScopeSeq, NEW i \in 1 .. MaxNesting, NEW yes \in BOOLEAN,
         chain[i] \in DOMAIN Holds, Paired(chain[i], yes)
  PROVE  LET s == Entered(open, i, yes)
             ends == CallsEnd(chain[i], yes) /\ Closes(chain[i])
             inner == IF ends THEN Pop(s) ELSE s
         IN /\ (ends => Fits(s, i, "Scope"))
            /\ (off = i => Fits(inner, i, "Disabled"))
            /\ (IF off = i THEN Pop(inner) ELSE inner) = open
<1> DEFINE S == (1 .. MaxNesting + 1) \X {"Scope", "Disabled"}
           disabled == IF off = i THEN Append(open, <<i, "Disabled">>) ELSE open
           s == Entered(open, i, yes)
           ends == CallsEnd(chain[i], yes) /\ Closes(chain[i])
           inner == IF ends THEN Pop(s) ELSE s
<1>1. <<i, "Disabled">> \in S /\ <<i, "Scope">> \in S
  BY DEF MaxNesting
<1>2. open \in Seq(S)
  BY DEF ScopeSeq
<1> HIDE DEF S
<1>3. disabled \in Seq(S)
  BY <1>1, <1>2, AppendProperties
<1>4. ends <=> Opens(chain[i], yes)
  BY PairedEnds
<1>5. s = IF Opens(chain[i], yes) THEN Append(disabled, <<i, "Scope">>) ELSE disabled
  BY DEF Entered
<1>6. /\ Pop(Append(disabled, <<i, "Scope">>)) = disabled
      /\ Fits(Append(disabled, <<i, "Scope">>), i, "Scope")
  <2> HIDE DEF disabled
  <2> QED BY <1>1, <1>3, PopAppend
<1>7. inner = disabled /\ (ends => Fits(s, i, "Scope"))
  <2> HIDE DEF disabled, s, ends
  <2> QED BY <1>4, <1>5, <1>6
<1>8. /\ Pop(Append(open, <<i, "Disabled">>)) = open
      /\ Fits(Append(open, <<i, "Disabled">>), i, "Disabled")
  BY <1>1, <1>2, PopAppend
<1>9. /\ (off = i => Fits(inner, i, "Disabled"))
      /\ (IF off = i THEN Pop(inner) ELSE inner) = open
  <2> HIDE DEF inner, s, ends
  <2> QED BY <1>7, <1>8
<1> QED BY <1>7, <1>9

LEMMA LeaveStep ==
  ASSUME ScopeInv, NEW i \in 1 .. MaxNesting, Leave(i)
  PROVE  ScopeInv'
<1> DEFINE ends == CallsEnd(chain[i], answers[i]) /\ Closes(chain[i])
           inner == IF ends THEN Pop(scopes) ELSE scopes
<1>1. /\ ~inward /\ at = i /\ i \in 1 .. Len(chain) /\ at' = i - 1
      /\ scopes' = IF off = i THEN Pop(inner) ELSE inner
      /\ chain' = chain /\ off' = off /\ inward' = inward /\ answers' = answers
      /\ childHid' = childHid /\ showing' = showing
  BY DEF Leave, Tree, RootState
<1>2. misplaced' = \/ misplaced
                   \/ ends /\ ~Fits(scopes, i, "Scope")
                   \/ off = i /\ ~Fits(inner, i, "Disabled")
  BY DEF Leave
<1> HIDE DEF inner, ends
<1>3. misplaced' \in BOOLEAN
  BY <1>2 DEF ScopeInv, WalkTyped
<1>4. WalkTyped /\ showing /\ Len(chain) \in Nat
  BY <1>1 DEF ScopeInv, WalkTyped
<1>5. WalkTyped' /\ (at \in 0 .. Len(chain))'
  BY <1>1, <1>3, <1>4 DEF WalkTyped
<1>6. Depth = i /\ Depth' = i - 1
  BY <1>1 DEF Depth
<1>7. ASSUME ~childHid PROVE ~misplaced' /\ LevelsPaired' /\ (\E h : Nested(h))'
  <2>1. ~misplaced /\ LevelsPaired
    BY <1>7 DEF ScopeInv
  <2>2. PICK h : Nested(h)
    BY <1>7 DEF ScopeInv
  <2>3. /\ h \in [0 .. MaxNesting -> ScopeSeq] /\ h[0] = <<>>
        /\ \A j \in 1 .. i : h[j] = Entered(h[j - 1], j, answers[j])
        /\ scopes = h[i]
    BY <1>6, <2>2 DEF Nested
  <2>4. h[i - 1] \in ScopeSeq /\ scopes = Entered(h[i - 1], i, answers[i])
    <3>1. i - 1 \in 0 .. MaxNesting /\ i \in 1 .. i
      BY DEF MaxNesting
    <3> QED BY <2>3, <3>1
  <2>5. /\ chain[i] \in DOMAIN Holds /\ answers[i] \in BOOLEAN
        /\ Paired(chain[i], answers[i])
    BY <1>1, <1>4, <1>6, <2>1 DEF WalkTyped, LevelsPaired
  <2>6. /\ (ends => Fits(scopes, i, "Scope"))
        /\ (off = i => Fits(inner, i, "Disabled"))
        /\ (IF off = i THEN Pop(inner) ELSE inner) = h[i - 1]
    BY <2>4, <2>5, LeavesWhatEntered DEF ends, inner
  <2>7. ~misplaced' /\ scopes' = h[i - 1]
    BY <1>1, <1>2, <2>1, <2>6
  <2>8. LevelsPaired'
    BY <1>1, <1>6, <2>1 DEF LevelsPaired
  <2>9. Nested(h)'
    BY <1>1, <1>6, <2>3, <2>7 DEF Nested, Entered
  <2> QED BY <2>7, <2>8, <2>9
<1> QED BY <1>1, <1>4, <1>5, <1>7 DEF ScopeInv

LEMMA EnterStep ==
  ASSUME ScopeInv, NEW i \in 1 .. MaxNesting, NEW yes \in BOOLEAN, Enter(i, yes)
  PROVE  ScopeInv'
<1>1. /\ inward /\ at = i /\ i \in 2 .. Len(chain) /\ (yes \/ chain[i] \in MayAnswerNo)
      /\ scopes' = Entered(scopes, i, yes)
      /\ answers' = [answers EXCEPT ![i] = yes]
      /\ at' = (IF yes THEN i + 1 ELSE i) /\ inward' = yes
      /\ chain' = chain /\ off' = off /\ misplaced' = misplaced /\ showing' = showing
  BY DEF Enter, Entered, DisabledBegun, Tree, RootState
<1>2. childHid' = (childHid \/ (chain[i] = "Child" /\ ~yes))
  BY DEF Enter
<1>3. childHid' \in BOOLEAN
  BY <1>2 DEF ScopeInv, WalkTyped
<1>4. WalkTyped /\ showing /\ Len(chain) \in Nat
  BY <1>1 DEF ScopeInv, WalkTyped
<1>5. WalkTyped' /\ (~inward => at \in 0 .. Len(chain))'
  BY <1>1, <1>3, <1>4 DEF WalkTyped
<1>6. Depth = i - 1 /\ Depth' = i
  BY <1>1, <1>4 DEF Depth
<1>7. answers'[i] = yes /\ \A j \in 1 .. i - 1 : answers'[j] = answers[j]
  BY <1>1, <1>4 DEF WalkTyped
<1>8. ASSUME ~childHid' PROVE ~misplaced' /\ LevelsPaired' /\ (\E h : Nested(h))'
  <2>1. ~childHid /\ (chain[i] = "Child" => yes)
    BY <1>2, <1>8
  <2>2. ~misplaced /\ LevelsPaired
    BY <2>1 DEF ScopeInv
  <2>3. LevelsPaired'
    <3> SUFFICES ASSUME NEW j \in 1 .. i PROVE Paired(chain[j], answers'[j])
      BY <1>1, <1>6 DEF LevelsPaired
    <3>1. CASE j = i
      BY <1>1, <1>7, <2>1, <3>1 DEF Paired
    <3>2. CASE j # i
      BY <1>6, <1>7, <2>2, <3>2 DEF LevelsPaired
    <3> QED BY <3>1, <3>2
  <2>4. PICK h : Nested(h)
    BY <2>1 DEF ScopeInv
  <2>5. /\ h \in [0 .. MaxNesting -> ScopeSeq] /\ h[0] = <<>>
        /\ \A j \in 1 .. i - 1 : h[j] = Entered(h[j - 1], j, answers[j])
        /\ scopes = h[i - 1]
    BY <1>6, <2>4 DEF Nested
  <2>6. scopes' \in ScopeSeq
    <3>1. i - 1 \in 0 .. MaxNesting
      BY DEF MaxNesting
    <3>2. scopes \in ScopeSeq
      BY <2>5, <3>1
    <3> QED BY <1>1, <3>2, EnteredIsSeq
  <2>7. i \in 0 .. MaxNesting /\ i # 0
    BY DEF MaxNesting
  <2>8. PICK g \in [0 .. MaxNesting -> ScopeSeq] :
          g[i] = scopes' /\ \A j \in 0 .. i - 1 : g[j] = h[j]
    <3> DEFINE hh == [h EXCEPT ![i] = scopes']
    <3>1. hh \in [0 .. MaxNesting -> ScopeSeq]
      BY <2>5, <2>6, <2>7
    <3>2. hh[i] = scopes' /\ \A j \in 0 .. i - 1 : hh[j] = h[j]
      BY <2>5, <2>7 DEF MaxNesting
    <3> HIDE DEF hh
    <3> QED BY <3>1, <3>2
  <2>9. g[0] = <<>>
    BY <2>5, <2>8
  <2>10. ASSUME NEW j \in 1 .. i
         PROVE  g[j] = Entered(g[j - 1], j, answers'[j])
    <3>1. j - 1 \in 0 .. i - 1
      OBVIOUS
    <3>2. g[j - 1] = h[j - 1]
      BY <2>8, <3>1
    <3>3. CASE j = i
      BY <1>1, <1>7, <2>5, <2>8, <3>2, <3>3
    <3>4. CASE j # i
      <4>1. j \in 1 .. i - 1 /\ j \in 0 .. i - 1
        BY <3>4
      <4> QED BY <1>7, <2>5, <2>8, <3>2, <4>1
    <3> QED BY <3>3, <3>4
  <2>11. Nested(g)'
    BY <1>1, <1>6, <2>8, <2>9, <2>10 DEF Nested, Entered
  <2> QED BY <1>1, <2>2, <2>3, <2>11
<1> QED BY <1>1, <1>4, <1>5, <1>8 DEF ScopeInv

LEMMA RootStep ==
  ASSUME ScopeInv, NEW toggled \in BOOLEAN, NEW wants \in BOOLEAN,
         RootBegin(toggled, wants)
  PROVE  ScopeInv'
<1>1. /\ at = 0 /\ showing' = (showing \/ toggled)
      /\ ~childHid' /\ ~misplaced'
      /\ chain' = chain /\ off' = off
  BY DEF RootBegin, Tree
<1>2. WalkTyped /\ showing' \in BOOLEAN /\ childHid' \in BOOLEAN /\ misplaced' \in BOOLEAN
  BY <1>1 DEF RootBegin, ScopeInv, WalkTyped
<1> DEFINE none == [j \in 0 .. MaxNesting |-> <<>>]
           first == [j \in 0 .. MaxNesting |->
                       IF j = 0 THEN <<>> ELSE <<<<1, "Scope">>>>]
<1>3. none \in [0 .. MaxNesting -> ScopeSeq] /\ none[0] = <<>>
  BY DEF ScopeSeq, MaxNesting
<1>4. /\ first \in [0 .. MaxNesting -> ScopeSeq] /\ first[0] = <<>>
      /\ first[1] = <<<<1, "Scope">>>>
  BY DEF ScopeSeq, MaxNesting
<1> HIDE DEF none, first
<1>5. ASSUME at' = 0, scopes' = <<>>, inward' \in BOOLEAN,
             answers' \in [1 .. MaxNesting -> BOOLEAN]
      PROVE  ScopeInv'
  <2>1. Depth' = 0
    BY <1>5 DEF Depth
  <2>2. WalkTyped' /\ (at \in 0 .. Len(chain))'
    BY <1>1, <1>2, <1>5 DEF WalkTyped
  <2>3. LevelsPaired' /\ Nested(none)'
    BY <1>3, <1>5, <2>1 DEF LevelsPaired, Nested
  <2> QED BY <1>1, <1>5, <2>2, <2>3 DEF ScopeInv
<1>6. CASE ~showing'
  <2>1. /\ scopes = <<>>
        /\ UNCHANGED <<at, inward, answers, scopes>>
    BY <1>1, <1>6 DEF RootBegin, ScopeInv
  <2> QED BY <1>1, <1>2, <1>5, <2>1 DEF WalkTyped
<1>7. CASE showing'
  <2> DEFINE drawn == /\ window.sticky \/ toggled
                      /\ ~window.toggleable \/ window.open
  <2>1. PICK yes \in BOOLEAN :
          /\ at' = IF drawn THEN (IF yes THEN 2 ELSE 1) ELSE 0
          /\ inward' = (drawn /\ yes)
          /\ answers' = [answers EXCEPT ![1] = yes]
          /\ scopes' = IF drawn THEN <<<<1, "Scope">>>> ELSE <<>>
    BY <1>7 DEF RootBegin
  <2>2. drawn \in BOOLEAN
    OBVIOUS
  <2> HIDE DEF drawn
  <2>3. /\ answers' \in [1 .. MaxNesting -> BOOLEAN] /\ answers'[1] = yes
        /\ inward' \in BOOLEAN
    BY <1>2, <2>1, <2>2 DEF WalkTyped, MaxNesting
  <2>4. CASE ~drawn
    BY <1>5, <2>1, <2>3, <2>4
  <2>5. CASE drawn
    <3>1. /\ at' = (IF yes THEN 2 ELSE 1) /\ inward' = yes
          /\ scopes' = <<<<1, "Scope">>>>
      BY <2>1, <2>2, <2>3, <2>5
    <3>2. Depth' = 1
      BY <3>1 DEF Depth
    <3>3. WalkTyped' /\ (~inward => at \in 0 .. Len(chain))'
      BY <1>1, <1>2, <2>3, <3>1 DEF WalkTyped
    <3>4. LevelsPaired'
      <4>1. Paired(chain[1], yes)
        BY <1>2 DEF WalkTyped, Paired, MayAnswerNo
      <4> QED BY <1>1, <2>3, <3>2, <4>1 DEF LevelsPaired
    <3>5. Entered(<<>>, 1, yes) = <<<<1, "Scope">>>>
      BY <1>2 DEF WalkTyped, Entered, Opens
    <3>6. Nested(first)'
      <4>1. \A j \in 1 .. 1 : first[j] = Entered(first[j - 1], j, answers'[j])
        BY <1>4, <2>3, <3>5
      <4> QED BY <1>1, <1>4, <3>1, <3>2, <4>1 DEF Nested, Entered
    <3> QED BY <1>1, <1>7, <3>3, <3>4, <3>6 DEF ScopeInv
  <2> QED BY <2>4, <2>5
<1> QED BY <1>2, <1>6, <1>7

LEMMA LeafStep ==
  ASSUME ScopeInv, LeafDrawn
  PROVE  ScopeInv'
<1>1. /\ inward /\ at = Len(chain) + 1 /\ ~inward' /\ inward' \in BOOLEAN
      /\ at' = Len(chain)
      /\ UNCHANGED <<chain, off, showing, answers, scopes, misplaced, childHid>>
  BY DEF LeafDrawn, Tree, RootState
<1>2. WalkTyped /\ showing
  BY <1>1 DEF ScopeInv, WalkTyped
<1>3. WalkTyped' /\ (at \in 0 .. Len(chain))'
  BY <1>1, <1>2 DEF WalkTyped
<1>4. Depth' = Depth
  BY <1>1, <1>2 DEF Depth, WalkTyped
<1> QED
  BY <1>1, <1>2, <1>3, <1>4 DEF ScopeInv, LevelsPaired, Nested, Entered

LEMMA ScopeInvStep == ASSUME ScopeInv, [UiNext]_uiVars PROVE ScopeInv'
<1>1. ASSUME UNCHANGED <<chain, off, showing, at, inward, answers, scopes,
                         misplaced, childHid>>
      PROVE  ScopeInv'
  BY <1>1 DEF ScopeInv, WalkTyped, LevelsPaired, Nested, Entered, Depth
<1>2. CASE UNCHANGED uiVars
  BY <1>1, <1>2 DEF uiVars
<1>3. CASE ToggleWindow
  BY <1>1, <1>3 DEF ToggleWindow, Tree, RootState
<1>4. CASE DrawUntouched \/ ClickButton \/ ToggleFlag \/ ChooseItem
  BY <1>4, LeafStep DEF DrawUntouched, ClickButton, ToggleFlag, ChooseItem
<1>5. ASSUME NEW v \in Shown, EditInputInt(v) \/ MoveSlider(v) PROVE ScopeInv'
  BY <1>5, LeafStep DEF EditInputInt, MoveSlider
<1> QED
  BY <1>2, <1>3, <1>4, <1>5, RootStep, EnterStep, LeaveStep DEF UiNext

LEMMA ScopeInvInit == ASSUME UiInit PROVE ScopeInv
<1>1. /\ Len(chain) \in 1 .. MaxNesting /\ chain[1] = "Window"
      /\ \A i \in 1 .. Len(chain) : chain[i] \in DOMAIN Holds
  <2>1. PICK n \in 1 .. MaxNesting : chain \in [1 .. n -> DOMAIN Holds]
    BY DEF UiInit, Chains
  <2>2. n \in Nat /\ Len(chain) = n
    BY <2>1 DEF MaxNesting
  <2> QED BY <2>1, <2>2 DEF UiInit, Chains
<1>2. /\ off # 1 /\ at = 0 /\ inward /\ ~showing /\ ~misplaced /\ ~childHid
      /\ scopes = <<>> /\ answers \in [1 .. MaxNesting -> BOOLEAN]
  BY <1>1 DEF UiInit
<1>3. inward \in BOOLEAN /\ showing \in BOOLEAN /\ misplaced \in BOOLEAN
      /\ childHid \in BOOLEAN
  BY DEF UiInit
<1>4. WalkTyped
  BY <1>1, <1>2, <1>3 DEF WalkTyped
<1>5. Depth = 0
  BY <1>2 DEF Depth
<1>6. \E h : Nested(h)
  <2> DEFINE none == [j \in 0 .. MaxNesting |-> <<>>]
  <2>1. none \in [0 .. MaxNesting -> ScopeSeq] /\ none[0] = <<>>
    BY DEF ScopeSeq, MaxNesting
  <2> HIDE DEF none
  <2>2. Nested(none)
    BY <1>2, <1>5, <2>1 DEF Nested
  <2> QED BY <2>2
<1> QED BY <1>2, <1>4, <1>5, <1>6 DEF ScopeInv, LevelsPaired

(* Every End meets the scope that its own element opened, and none is left *)
(* open at the end of a frame, whatever ImGui answers, unless a Child      *)
(* reported itself hidden.                                                 *)
THEOREM EveryScopeCloses == UiSpec => []ScopesBalanced
<1>1. ScopeInv => ScopesBalanced
  <2> SUFFICES ASSUME ScopeInv, ~childHid PROVE ~misplaced /\ (at = 0 => scopes = <<>>)
    BY DEF ScopesBalanced
  <2>1. PICK h : Nested(h)
    BY DEF ScopeInv
  <2>2. at = 0 => Depth = 0
    BY DEF Depth
  <2> QED BY <2>1, <2>2 DEF ScopeInv, Nested
<1> QED BY <1>1, ScopeInvInit, ScopeInvStep, PTL DEF UiSpec

-----------------------------------------------------------------------------
(* UiFrame: the disabled elements.                                         *)

(* Once the walk is past a disabled container, on its way in, what the     *)
(* container began is among the open scopes.                               *)
DisabledOpen(s) == \E n \in 1 .. Len(s) : s[n][2] = "Disabled"
InertInv ==
  /\ Len(chain) \in Nat /\ off \in 0 .. Len(chain) + 1 /\ off # 1 /\ at \in Nat
  /\ scopes \in ScopeSeq
  /\ inward /\ off \in 2 .. Len(chain) /\ off < at => DisabledOpen(scopes)

LEMMA AppendKeepsDisabled ==
  ASSUME NEW s \in ScopeSeq, NEW x \in (1 .. MaxNesting + 1) \X {"Scope", "Disabled"}
  PROVE  /\ Append(s, x) \in ScopeSeq
         /\ DisabledOpen(s) \/ x[2] = "Disabled" => DisabledOpen(Append(s, x))
<1> DEFINE T == (1 .. MaxNesting + 1) \X {"Scope", "Disabled"}
           a == Append(s, x)
<1>1. s \in Seq(T) /\ x \in T
  BY DEF ScopeSeq
<1> HIDE DEF T
<1>2. /\ a \in Seq(T) /\ Len(s) \in Nat /\ Len(a) = Len(s) + 1
      /\ \A n \in 1 .. Len(s) : a[n] = s[n]
      /\ a[Len(s) + 1] = x
  BY <1>1
<1> HIDE DEF a
<1>3. DisabledOpen(s) => DisabledOpen(a)
  BY <1>2 DEF DisabledOpen
<1>4. x[2] = "Disabled" => DisabledOpen(a)
  BY <1>2 DEF DisabledOpen
<1> QED BY <1>2, <1>3, <1>4 DEF a, T, ScopeSeq

LEMMA InertEnter ==
  ASSUME InertInv, NEW i \in 1 .. MaxNesting, NEW yes \in BOOLEAN, Enter(i, yes)
  PROVE  InertInv'
<1>1. /\ at = i /\ inward /\ i \in 2 .. Len(chain) /\ scopes \in ScopeSeq
      /\ at' \in {i, i + 1} /\ chain' = chain /\ off' = off
      /\ i \in 1 .. MaxNesting + 1 /\ (inward' => at' = i + 1)
  BY DEF Enter, Tree, InertInv, MaxNesting
<1>2. /\ DisabledBegun(i) \in ScopeSeq
      /\ off = i => DisabledOpen(DisabledBegun(i))
      /\ DisabledOpen(scopes) => DisabledOpen(DisabledBegun(i))
  <2>1. <<i, "Disabled">> \in (1 .. MaxNesting + 1) \X {"Scope", "Disabled"}
    BY <1>1
  <2> QED BY <1>1, <2>1, AppendKeepsDisabled DEF DisabledBegun
<1>3. /\ scopes' \in ScopeSeq
      /\ DisabledOpen(DisabledBegun(i)) => DisabledOpen(scopes')
  <2>1. <<i, "Scope">> \in (1 .. MaxNesting + 1) \X {"Scope", "Disabled"}
    BY <1>1
  <2>2. scopes' = Append(DisabledBegun(i), <<i, "Scope">>)
        \/ scopes' = DisabledBegun(i)
    BY DEF Enter
  <2> QED BY <1>2, <2>1, <2>2, AppendKeepsDisabled
<1>4. off \in 2 .. Len(chain) /\ off < i + 1 => off = i \/ DisabledOpen(scopes)
  BY <1>1 DEF InertInv
<1>5. inward' /\ off \in 2 .. Len(chain) /\ off < at' => DisabledOpen(scopes')
  BY <1>1, <1>2, <1>3, <1>4
<1> QED BY <1>1, <1>3, <1>5 DEF InertInv, DisabledOpen

LEMMA InertRoot ==
  ASSUME InertInv, NEW toggled \in BOOLEAN, NEW wants \in BOOLEAN,
         RootBegin(toggled, wants)
  PROVE  InertInv'
<1>1. at = 0 /\ chain' = chain /\ off' = off
  BY DEF RootBegin, Tree
<1>2. CASE ~showing'
  BY <1>1, <1>2 DEF RootBegin, InertInv, DisabledOpen
<1>3. CASE showing'
  <2>1. at' \in 0 .. 2 /\ scopes' \in {<<<<1, "Scope">>>>, <<>>}
    BY <1>3 DEF RootBegin
  <2>2. <<<<1, "Scope">>>> \in ScopeSeq
    <3>1. <<1, "Scope">> \in (1 .. MaxNesting + 1) \X {"Scope", "Disabled"}
      BY DEF MaxNesting
    <3> QED BY <3>1 DEF ScopeSeq
  <2>3. <<>> \in ScopeSeq
    BY EmptySeq DEF ScopeSeq
  <2>4. scopes' \in ScopeSeq
    BY <2>1, <2>2, <2>3
  <2> QED BY <1>1, <2>1, <2>4 DEF InertInv
<1> QED BY <1>2, <1>3

LEMMA InertLeave ==
  ASSUME InertInv, NEW i \in 1 .. MaxNesting, Leave(i)
  PROVE  InertInv'
<1>1. /\ at' = i - 1 /\ chain' = chain /\ off' = off /\ ~inward /\ inward' = inward
      /\ scopes \in ScopeSeq
  BY DEF Leave, Tree, InertInv
<1>2. ASSUME NEW s \in ScopeSeq PROVE Pop(s) \in ScopeSeq
  <2> DEFINE T == (1 .. MaxNesting + 1) \X {"Scope", "Disabled"}
  <2>1. s \in Seq(T)
    BY <1>2 DEF ScopeSeq
  <2> HIDE DEF T
  <2>2. CASE s = <<>>
    BY <2>1, <2>2 DEF Pop, T, ScopeSeq
  <2>3. CASE s # <<>>
    <3>1. Len(s) \in Nat \ {0} /\ DOMAIN s = 1 .. Len(s)
          /\ \A n \in 1 .. Len(s) : s[n] \in T
      BY <2>1, <2>3
    <3>2. \A n \in 1 .. Len(s) - 1 : s[n] \in T
      BY <3>1
    <3>3. SubSeq(s, 1, Len(s) - 1) \in Seq(T)
      BY <2>1, <3>1, <3>2
    <3> QED BY <2>3, <3>3 DEF Pop, T, ScopeSeq
  <2> QED BY <2>2, <2>3
<1>3. scopes' \in ScopeSeq
  BY <1>1, <1>2 DEF Leave
<1> QED BY <1>1, <1>3 DEF InertInv

LEMMA InertInvStep == ASSUME InertInv, [UiNext]_uiVars PROVE InertInv'
<1>1. ASSUME UNCHANGED <<chain, off, at, inward, scopes>> PROVE InertInv'
  BY <1>1 DEF InertInv, DisabledOpen
<1>2. ASSUME LeafDrawn PROVE InertInv'
  BY <1>2 DEF LeafDrawn, Tree, InertInv
<1>3. CASE UNCHANGED uiVars
  BY <1>1, <1>3 DEF uiVars
<1>4. CASE DrawUntouched \/ ClickButton \/ ToggleFlag \/ ChooseItem
  BY <1>2, <1>4 DEF DrawUntouched, ClickButton, ToggleFlag, ChooseItem
<1>5. ASSUME NEW v \in Shown, EditInputInt(v) \/ MoveSlider(v) PROVE InertInv'
  BY <1>2, <1>5 DEF EditInputInt, MoveSlider
<1>6. CASE ToggleWindow
  BY <1>1, <1>6 DEF ToggleWindow, Tree
<1> QED
  BY <1>3, <1>4, <1>5, <1>6, InertEnter, InertRoot, InertLeave DEF UiNext

(* A leaf that is disabled, by itself or by a container anywhere around    *)
(* it, neither changes nor calls back, however the elements between nest   *)
(* and whatever ImGui answers; a slider disabled by itself is excepted.    *)
THEOREM DisabledStaysInert == UiSpec => DisabledIsInert
<1>1. UiInit => InertInv
  <2> SUFFICES ASSUME UiInit PROVE InertInv
    OBVIOUS
  <2>1. Len(chain) \in Nat
    <3>1. PICK n \in 1 .. MaxNesting : chain \in [1 .. n -> DOMAIN Holds]
      BY DEF UiInit, Chains
    <3>2. n \in Nat /\ Len(chain) = n
      BY <3>1 DEF MaxNesting
    <3> QED BY <3>2
  <2>2. scopes \in ScopeSeq
    BY DEF UiInit, ScopeSeq
  <2> QED BY <2>1, <2>2 DEF UiInit, InertInv
<1>2. InertInv /\ [UiNext]_uiVars =>
        [<<value, told>>' # <<value, told>> =>
           off = 0 \/ (off = Len(chain) + 1 /\ leaf = "Slider")]_uiVars
  <2> SUFFICES ASSUME InertInv, UiNext, <<value, told>>' # <<value, told>>
               PROVE  off = 0 \/ (off = Len(chain) + 1 /\ leaf = "Slider")
    BY DEF uiVars
  <2>1. LeafDrawn /\ ~Disabled
    BY DEF UiNext, RootBegin, Enter, Leave, DrawUntouched, ToggleWindow,
           ClickButton, ToggleFlag, ChooseItem, EditInputInt, MoveSlider
  <2>2. inward /\ at = Len(chain) + 1
    BY <2>1 DEF LeafDrawn
  <2>3. ~(off \in 2 .. Len(chain))
    BY <2>1, <2>2 DEF InertInv, Disabled, DisabledOpen
  <2>4. ~(off = Len(chain) + 1 /\ leaf # "Slider")
    BY <2>1 DEF Disabled
  <2> QED BY <2>3, <2>4 DEF InertInv
<1> QED BY <1>1, <1>2, InertInvStep, PTL DEF UiSpec, DisabledIsInert
=============================================================================

-------------------------- MODULE ConfigView_proofs --------------------------
(***************************************************************************)
(* Theorems about ConfigView for any number of panels.                     *)
(***************************************************************************)
EXTENDS ConfigView, TLAPS

\* a panel not yet created is nobody's, a disposed one has nothing under way
Unborn == \A p \in Panel : At(p, "none") => ~open[p] /\ currentPanel # p

Silent == \A p \in Panel : ~open[p] =>
              ~invoking[p] /\ toView[p] = <<>> /\ toHost[p] = <<>>

IInv == TypeOK /\ OneOldDefconfig /\ TrackedIsOpen /\ Unborn /\ Silent

(* The invariant holds of the state createOrShow() starts from.            *)
LEMMA InitIInv == Init => IInv
  BY NoneIsNoPanel DEF Init, IInv, TypeOK, OneOldDefconfig, TrackedIsOpen, Unborn,
     Silent, At, Content, Absent, Stage

(* dispose(), called by p's chain or by the user, keeps the parts that are *)
(* about panels.                                                           *)
LEMMA DisposeKeeps ==
    ASSUME IInv, NEW p \in Panel, Dispose(p)
    PROVE  /\ currentPanel' \in Panel \cup {None}
           /\ open' \in [Panel -> BOOLEAN]
           /\ target' \in [Panel -> {"kernel", "project"}]
           /\ invoking' \in [Panel -> BOOLEAN]
           /\ overlay' \in [Panel -> BOOLEAN]
           /\ toView' \in [Panel -> Seq({"init", "saved"})]
           /\ toHost' \in [Panel -> Seq({"loading", "save"})]
           /\ TrackedIsOpen'
           /\ Silent'
           /\ \A q \in Panel : open'[q] => open[q]
  BY NoneIsNoPanel DEF IInv, TypeOK, Dispose, TrackedIsOpen, Silent

(* Every step keeps the invariant.                                         *)
LEMMA NextIInv == IInv /\ [Next]_vars => IInv'
<1> SUFFICES ASSUME IInv, [Next]_vars PROVE IInv'
  OBVIOUS
<1> USE NoneIsNoPanel
<1>1. ASSUME NEW p \in Panel, Create(p) PROVE IInv'
  BY <1>1 DEF IInv, TypeOK, OneOldDefconfig, TrackedIsOpen, Unborn, Silent,
     At, Goto, Content, Absent, Stage, Create, files
<1>2. ASSUME NEW p \in Panel, ClickSave(p) PROVE IInv'
  BY <1>2 DEF IInv, TypeOK, OneOldDefconfig, TrackedIsOpen, Unborn, Silent,
     At, Content, Absent, Stage, ClickSave, panels, files
<1>3. ASSUME NEW p \in Panel, CloseTab(p) PROVE IInv'
  <2>1. Unborn' /\ OneOldDefconfig'
    BY <1>3, DisposeKeeps DEF IInv, TypeOK, CloseTab, Unborn, OneOldDefconfig, At,
       Dispose, files, Absent
  <2> QED
    BY <1>3, <2>1, DisposeKeeps DEF IInv, TypeOK, CloseTab, files
<1>4. ASSUME NEW p \in Panel, Rejected(p), UNCHANGED <<project, build>>,
             ~At(p, "none"),
             dotconfig' \in Content \cup {Absent},
             dotconfig' # dotconfig \/ dotconfig' = Absent
                => \A q \in Panel : At(q, "olddefconfig") => q = p
      PROVE  IInv'
  <2>1. chain' \in [Panel -> Stage] /\ ~At(p, "olddefconfig")'
    BY <1>4 DEF Rejected, Goto, At, IInv, TypeOK, Stage
  <2>2. \A q \in Panel : q # p => chain'[q] = chain[q]
    BY <1>4 DEF Rejected, Goto, IInv, TypeOK
  <2>3. OneOldDefconfig'
    BY <1>4, <2>1, <2>2 DEF IInv, OneOldDefconfig, At
  <2>4. Unborn'
    BY <1>4, <2>1, <2>2, DisposeKeeps DEF IInv, TypeOK, Unborn, At, Rejected, Goto,
       Dispose, Stage
  <2> QED
    BY <1>4, <2>1, <2>3, <2>4, DisposeKeeps DEF IInv, TypeOK, Rejected
<1>5. ASSUME NEW p \in Panel, InitKernelKconfig(p) PROVE IInv'
  <2>1. /\ chain' \in [Panel -> Stage] /\ chain'[p] # "none"
        /\ \A q \in Panel : q # p => chain'[q] = chain[q]
    BY <1>5 DEF InitKernelKconfig, Goto, IInv, TypeOK, Stage
  <2>2. TypeOK' /\ TrackedIsOpen' /\ Silent'
    BY <1>5, <2>1 DEF InitKernelKconfig, Stays, IInv, TypeOK, TrackedIsOpen, Silent,
       Content, Absent, panels, view
  <2>3. Unborn'
    BY <1>5, <2>1 DEF InitKernelKconfig, Stays, IInv, Unborn, At, panels
  <2>4. CASE dotconfig = Absent
    <3>1. \A q \in Panel : q # p => ~At(q, "olddefconfig")'
      BY <2>1, <2>4 DEF IInv, OneOldDefconfig, At
    <3> QED
      BY <1>5, <2>2, <2>3, <2>4, <3>1 DEF InitKernelKconfig, IInv, OneOldDefconfig, Absent
  <2>5. CASE dotconfig # Absent
    <3>1. chain'[p] = "preconfig" /\ dotconfig' = dotconfig
      BY <1>5, <2>5 DEF InitKernelKconfig, Goto, IInv, TypeOK
    <3>2. OneOldDefconfig'
      BY <2>1, <3>1 DEF IInv, OneOldDefconfig, At
    <3> QED
      BY <2>2, <2>3, <3>2 DEF IInv
  <2> QED
    BY <2>4, <2>5
<1>6. ASSUME NEW p \in Panel, InitFails(p) PROVE IInv'
  BY <1>4, <1>6 DEF InitFails, IInv, OneOldDefconfig, At, Absent, Content
<1>7. ASSUME NEW p \in Panel, OldDefconfig(p) PROVE IInv'
  BY <1>7 DEF IInv, TypeOK, OneOldDefconfig, TrackedIsOpen, Unborn, Silent,
     At, Goto, Stays, Content, Absent, Stage, OldDefconfig, panels, view
<1>8. ASSUME NEW p \in Panel, OldDefconfigFails(p) PROVE IInv'
  BY <1>4, <1>8 DEF OldDefconfigFails, IInv, OneOldDefconfig, At, Absent, Content
<1>9. ASSUME NEW p \in Panel, Preconfig(p) PROVE IInv'
  BY <1>9 DEF IInv, TypeOK, OneOldDefconfig, TrackedIsOpen, Unborn, Silent,
     At, Goto, Stays, Content, Absent, Stage, Preconfig, panels, view, files
<1>10. ASSUME NEW p \in Panel, CopyConfig(p) PROVE IInv'
  BY <1>10 DEF IInv, TypeOK, OneOldDefconfig, TrackedIsOpen, Unborn, Silent,
     At, Goto, Stays, Content, Absent, Stage, CopyConfig, panels, view
<1>11. ASSUME NEW p \in Panel, StepFails(p) PROVE IInv'
  BY <1>4, <1>11 DEF StepFails, IInv, TypeOK, OneOldDefconfig, At, Absent, files
<1>12. ASSUME NEW p \in Panel, Parse(p) PROVE IInv'
  BY <1>12 DEF IInv, TypeOK, OneOldDefconfig, TrackedIsOpen, Unborn, Silent,
     At, Goto, Content, Absent, Stage, Parse, panels, files
<1>13. ASSUME NEW p \in Panel, ReceiveInit(p) PROVE IInv'
  BY <1>13 DEF IInv, TypeOK, OneOldDefconfig, TrackedIsOpen, Unborn, Silent,
     At, Content, Absent, Stage, ReceiveInit, panels, files
<1>14. ASSUME NEW p \in Panel, ReceiveSaved(p) PROVE IInv'
  BY <1>14 DEF IInv, TypeOK, OneOldDefconfig, TrackedIsOpen, Unborn, Silent,
     At, Content, Absent, Stage, ReceiveSaved, panels, files
<1>15. ASSUME NEW p \in Panel, ReceiveLoading(p) PROVE IInv'
  BY <1>15 DEF IInv, TypeOK, OneOldDefconfig, TrackedIsOpen, Unborn, Silent,
     At, Content, Absent, Stage, ReceiveLoading, files
<1>16. ASSUME NEW p \in Panel, ReceiveSave(p) PROVE IInv'
  <2>1. /\ UNCHANGED <<currentPanel, open, target, invoking, chain, overlay, build>>
        /\ dotconfig' \in {dotconfig, "user"}
        /\ project' \in {project, "user"}
        /\ toHost' = [toHost EXCEPT ![p] = Tail(@)]
        /\ \/ toView' = toView
           \/ toView' = [toView EXCEPT ![p] = Append(@, "saved")]
    BY <1>16 DEF ReceiveSave, panels, files
  <2>2. toHost[p] # <<>> /\ open[p]
    BY <1>16 DEF ReceiveSave, IInv, Silent
  <2>3. TypeOK'
    <3>1. toHost' \in [Panel -> Seq({"loading", "save"})]
      <4>1. toHost[p] \in Seq({"loading", "save"}) /\ toHost[p] # <<>>
        BY <2>2 DEF IInv, TypeOK
      <4>2. Tail(toHost[p]) \in Seq({"loading", "save"})
        BY <4>1
      <4> QED
        BY <2>1, <4>2 DEF IInv, TypeOK
    <3>2. toView' \in [Panel -> Seq({"init", "saved"})]
      <4>1. Append(toView[p], "saved") \in Seq({"init", "saved"})
        BY DEF IInv, TypeOK
      <4> QED
        BY <2>1, <4>1 DEF IInv, TypeOK
    <3> QED
      BY <2>1, <3>1, <3>2 DEF IInv, TypeOK, Content
  <2>4. OneOldDefconfig' /\ TrackedIsOpen' /\ Unborn'
    BY <2>1 DEF IInv, TypeOK, OneOldDefconfig, TrackedIsOpen, Unborn, At, Absent
  <2>5. Silent'
    BY <2>1, <2>2 DEF IInv, TypeOK, Silent
  <2> QED
    BY <2>3, <2>4, <2>5 DEF IInv
<1>17. CASE BuildStarts \/ BuildConfigures \/ BuildEnds
  BY <1>17 DEF IInv, TypeOK, OneOldDefconfig, TrackedIsOpen, Unborn, Silent,
     At, Content, Absent, Stage, BuildStarts, BuildConfigures, BuildEnds,
     panels, view, files
<1>18. CASE UNCHANGED vars
  BY <1>18 DEF IInv, TypeOK, OneOldDefconfig, TrackedIsOpen, Unborn, Silent, At,
     vars, panels, view, files
<1> QED
  BY <1>1, <1>2, <1>3, <1>5, <1>6, <1>7, <1>8, <1>9, <1>10, <1>11, <1>12, <1>13,
     <1>14, <1>15, <1>16, <1>17, <1>18 DEF Next, Due

(* IInv is an invariant of the extension's panels.                         *)
LEMMA Invariance == Spec => []IInv
  BY InitIInv, NextIInv, PTL DEF Spec

(* The state of every panel stays well typed.                              *)
THEOREM TypeCorrect == Spec => []TypeOK
  BY Invariance, PTL DEF IInv

(* Two olddefconfig never run at once in the kernel's directory, and the   *)
(* .config is there when the callback of a failed one removes it.          *)
THEOREM OldDefconfigAlone == Spec => []OneOldDefconfig
  BY Invariance, PTL DEF IInv

(* createOrShow() never reveals a disposed panel.                          *)
THEOREM NeverRevealsDisposed == Spec => []TrackedIsOpen
  BY Invariance, PTL DEF IInv
-----------------------------------------------------------------------------
(* The steps of a panel are steps of PanelLife.                            *)

(* What a step may do to one panel's life while the others' stay.          *)
LEMMA LifeSteps ==
    ASSUME NEW p \in Panel,
           \A q \in Panel : q # p => LifeOf(q)' = LifeOf(q),
           \/ LifeOf(p)' = LifeOf(p)
           \/ LifeOf(p) = "new" /\ LifeOf(p)' = "invoking"
           \/ LifeOf(p) = "invoking" /\ LifeOf(p)' = "ready"
           \/ LifeOf(p) \in {"invoking", "ready"} /\ LifeOf(p)' = "closed"
    PROVE  [Lives!Next]_lives
<1>1. lives[p] = LifeOf(p)
  BY DEF lives
<1>2. lives' = [lives EXCEPT ![p] = LifeOf(p)']
  BY DEF lives
<1>3. CASE LifeOf(p)' = LifeOf(p)
  <2>1. lives' = lives
    BY <1>3 DEF lives
  <2> QED
    BY <2>1
<1>4. CASE LifeOf(p) = "new" /\ LifeOf(p)' = "invoking"
  BY <1>1, <1>2, <1>4 DEF Lives!Next, Lives!Open
<1>5. CASE LifeOf(p) = "invoking" /\ LifeOf(p)' = "ready"
  BY <1>1, <1>2, <1>5 DEF Lives!Next, Lives!Ready
<1>6. CASE LifeOf(p) \in {"invoking", "ready"} /\ LifeOf(p)' = "closed"
  BY <1>1, <1>2, <1>6 DEF Lives!Next, Lives!Close
<1> QED
  BY <1>3, <1>4, <1>5, <1>6

(* A panel is disposed: it is closed, or was before; or its chain goes on  *)
(* and touches neither the panel nor the notification.                     *)
LEMMA ChainSteps ==
    ASSUME IInv, NEW p \in Panel, ~At(p, "none"),
           \/ chain' = chain
           \/ \E stage \in Stage \ {"none"} : Goto(p, stage),
           Dispose(p) \/ UNCHANGED panels
    PROVE  [Lives!Next]_lives
<1>1. ~At(p, "none")' /\ \A q \in Panel : q # p => chain'[q] = chain[q]
  BY DEF IInv, TypeOK, Goto, At
<1>2. CASE UNCHANGED panels
  BY <1>1, <1>2, LifeSteps DEF LifeOf, At, panels
<1>3. CASE Dispose(p)
  <2>1. \A q \in Panel : q # p => open'[q] = open[q] /\ invoking'[q] = invoking[q]
    BY <1>3 DEF IInv, TypeOK, Dispose
  <2>2. ~open'[p] /\ ~invoking'[p]
    BY <1>3 DEF IInv, TypeOK, Dispose
  <2>3. LifeOf(p)' = "closed"
    BY <1>1, <2>2 DEF LifeOf
  <2>4. \A q \in Panel : q # p => LifeOf(q)' = LifeOf(q)
    BY <1>1, <2>1 DEF LifeOf, At
  <2>5. LifeOf(p) \in {"invoking", "ready", "closed"}
    BY DEF LifeOf
  <2> QED
    BY <2>3, <2>4, <2>5, LifeSteps
<1> QED
  BY <1>2, <1>3

(* Every step is one of PanelLife's, or changes no panel's life.           *)
LEMMA NextLives == IInv /\ [Next]_vars => [Lives!Next]_lives
<1> SUFFICES ASSUME IInv, [Next]_vars PROVE [Lives!Next]_lives
  OBVIOUS
<1>1. ASSUME NEW p \in Panel, Create(p) PROVE [Lives!Next]_lives
  <2>1. LifeOf(p) = "new" /\ LifeOf(p)' = "invoking"
    BY <1>1 DEF Create, Goto, LifeOf, At, IInv, TypeOK
  <2>2. \A q \in Panel : q # p => LifeOf(q)' = LifeOf(q)
    BY <1>1 DEF Create, Goto, LifeOf, At, IInv, TypeOK
  <2> QED
    BY <2>1, <2>2, LifeSteps
<1>2. ASSUME NEW p \in Panel, CloseTab(p) PROVE [Lives!Next]_lives
  BY <1>2, ChainSteps DEF CloseTab, IInv, Unborn
<1>3. ASSUME NEW p \in Panel,
             \/ InitKernelKconfig(p) \/ InitFails(p)
             \/ OldDefconfig(p) \/ OldDefconfigFails(p)
             \/ Preconfig(p) \/ CopyConfig(p) \/ StepFails(p) \/ Parse(p)
      PROVE  [Lives!Next]_lives
  <2>1. ~At(p, "none")
    BY <1>3 DEF At, InitKernelKconfig, InitFails, OldDefconfig, OldDefconfigFails,
       Preconfig, CopyConfig, StepFails, Parse
  <2>2. Dispose(p) \/ UNCHANGED panels
    BY <1>3 DEF Rejected, Stays, InitKernelKconfig, InitFails, OldDefconfig,
       OldDefconfigFails, Preconfig, CopyConfig, StepFails, Parse
  <2>3. \E stage \in Stage \ {"none"} : Goto(p, stage)
    BY <1>3 DEF Rejected, Stage, InitKernelKconfig, InitFails, OldDefconfig,
       OldDefconfigFails, Preconfig, CopyConfig, StepFails, Parse
  <2> QED
    BY <2>1, <2>2, <2>3, ChainSteps
<1>4. ASSUME NEW p \in Panel, ReceiveLoading(p) PROVE [Lives!Next]_lives
  <2>1. open[p] /\ ~At(p, "none")
    BY <1>4 DEF ReceiveLoading, IInv, Silent, Unborn
  <2>2. ~invoking'[p] /\ \A q \in Panel : q # p => invoking'[q] = invoking[q]
    BY <1>4 DEF ReceiveLoading, IInv, TypeOK
  <2>3. LifeOf(p) \in {"invoking", "ready"} /\ LifeOf(p)' = "ready"
    BY <1>4, <2>1, <2>2 DEF ReceiveLoading, LifeOf, At
  <2>4. \A q \in Panel : q # p => LifeOf(q)' = LifeOf(q)
    BY <1>4, <2>2 DEF ReceiveLoading, LifeOf, At
  <2> QED
    BY <2>3, <2>4, LifeSteps
<1>5. CASE UNCHANGED <<panels, chain>>
  <2>1. lives' = lives
    BY <1>5 DEF lives, LifeOf, At, panels
  <2> QED
    BY <2>1
<1>6. CASE \/ \E p \in Panel : \/ ClickSave(p) \/ ReceiveInit(p)
                               \/ ReceiveSaved(p) \/ ReceiveSave(p)
           \/ BuildStarts \/ BuildConfigures \/ BuildEnds
           \/ UNCHANGED vars
  BY <1>5, <1>6 DEF ClickSave, ReceiveInit, ReceiveSaved, ReceiveSave,
     BuildStarts, BuildConfigures, BuildEnds, vars
<1> QED
  BY <1>1, <1>2, <1>3, <1>4, <1>6 DEF Next, Due

(* The safety half of PanelLife: a panel goes from invoking to ready or    *)
(* closed, from ready to closed, and never back, whatever late callbacks   *)
(* do (that it does not invoke for ever is checked by TLC).                *)
THEOREM PanelsLive == Spec => Lives!Safe
<1>1. Init => Lives!Init
  BY DEF Init, Lives!Init, lives, LifeOf, At
<1> QED
  BY <1>1, Invariance, NextLives, PTL DEF Spec, Lives!Safe
=============================================================================

----------------------------- MODULE ConfigView -----------------------------
(***************************************************************************)
(* The panels of the configuration view in the extension host              *)
(* (src/configview/sdkconfigview2.ts), and what they do to the kernel's    *)
(* .config and the project's.                                              *)
(*                                                                         *)
(* createOrShow() opens a panel unless the static currentPanel says that   *)
(* one is open.  The panel starts a chain of asynchronous steps - a timer, *)
(* "make olddefconfig" when the kernel has no .config yet, "make           *)
(* preconfig", a copy of the kernel's .config for a project without one,   *)
(* kconfig2json.py - whose last sends the menu to the webview.  Closing    *)
(* the tab, cancelling the notification and a failing step all call        *)
(* dispose(), which does not end the chain: the callbacks still come, and  *)
(* call dispose() again.                                                   *)
(*                                                                         *)
(* Between two callbacks JavaScript runs to its end, so a callback and the *)
(* promise reactions it triggers are one step.                             *)
(***************************************************************************)
EXTENDS Sequences, FiniteSets

CONSTANTS
    Panel,          \* bound: the panels opened, one after the other
    None

ASSUME NoneIsNoPanel == None \notin Panel

\* what a configuration file holds: the bare defconfig, the result of
\* olddefconfig, or what the user has saved
Content == {"raw", "configured", "user"}
Absent == "absent"

Stage == {"none", "timer", "olddefconfig", "preconfig", "copy", "parse", "end"}

VARIABLES
    currentPanel,   \* the static member
    open,           \* which panels have a webview
    target,         \* is it the kernel's or the project's configuration?
    chain,          \* what the panel's chain of steps waits for
    invoking,       \* is its progress notification shown?
    overlay,        \* is the webview covered by its progress window?
    toView, toHost, \* messages on their way
    dotconfig,      \* the kernel's .config
    project,        \* the project's
    build           \* the build task: "none", "starting" or "making"

panels == <<currentPanel, open, target, invoking>>
view   == <<overlay, toView, toHost>>
files  == <<dotconfig, project>>
vars   == <<panels, chain, view, files, build>>
-----------------------------------------------------------------------------
At(p, stage)   == chain[p] = stage
Goto(p, stage) == chain' = [chain EXCEPT ![p] = stage]

Stays(p) == UNCHANGED <<panels, view>>

\* mutant of Dispose: the static member keeps the closed panel
DisposeTracked(p) ==
    /\ UNCHANGED <<currentPanel, target, overlay>>
    /\ open' = [open EXCEPT ![p] = FALSE]
    /\ invoking' = [invoking EXCEPT ![p] = FALSE]
    /\ toView' = [toView EXCEPT ![p] = <<>>]
    /\ toHost' = [toHost EXCEPT ![p] = <<>>]

\* mutant of Dispose: the notification is not told
DisposeSilently(p) ==
    /\ currentPanel' = None
    /\ open' = [open EXCEPT ![p] = FALSE]
    /\ toView' = [toView EXCEPT ![p] = <<>>]
    /\ toHost' = [toHost EXCEPT ![p] = <<>>]
    /\ UNCHANGED <<target, invoking, overlay>>

(* dispose().  A killed process still calls back, with or without an       *)
(* error; messages on their way are dropped.                               *)
Dispose(p) ==
    /\ currentPanel' = None
    /\ open' = [open EXCEPT ![p] = FALSE]
    /\ invoking' = [invoking EXCEPT ![p] = FALSE]
    /\ toView' = [toView EXCEPT ![p] = <<>>]
    /\ toHost' = [toHost EXCEPT ![p] = <<>>]
    /\ UNCHANGED <<target, overlay>>

\* the chain is rejected
Rejected(p) == Dispose(p) /\ Goto(p, "end")
-----------------------------------------------------------------------------
Init ==
    /\ currentPanel = None
    /\ open = [p \in Panel |-> FALSE]
    /\ target \in [Panel -> {"kernel", "project"}]
    /\ chain = [p \in Panel |-> "none"]
    /\ invoking = [p \in Panel |-> FALSE]
    /\ overlay = [p \in Panel |-> FALSE]
    /\ toView = [p \in Panel |-> <<>>]
    /\ toHost = [p \in Panel |-> <<>>]
    /\ dotconfig \in {Absent, "configured"}
    /\ project = Absent
    /\ build = "none"

(* createOrShow() without a current panel, and _generateMenu().            *)
Create(p) ==
    /\ build = "none"
    /\ currentPanel = None
    /\ At(p, "none")
    /\ currentPanel' = p
    /\ open' = [open EXCEPT ![p] = TRUE]
    /\ invoking' = [invoking EXCEPT ![p] = TRUE]
    /\ overlay' = [overlay EXCEPT ![p] = TRUE]
    /\ Goto(p, "timer")
    /\ UNCHANGED <<target, toView, toHost, files, build>>

\* mutant of InitKernelKconfig: force is always true
InitAlways(p) ==
    /\ At(p, "timer")
    /\ dotconfig' = "raw"
    /\ Goto(p, "olddefconfig")
    /\ Stays(p)
    /\ UNCHANGED <<project, build>>

(* The timer runs _initKernelKconfig(false).                               *)
InitKernelKconfig(p) ==
    /\ At(p, "timer")
    /\ IF dotconfig = Absent
       THEN dotconfig' = "raw" /\ Goto(p, "olddefconfig")
       ELSE UNCHANGED dotconfig /\ Goto(p, "preconfig")
    /\ Stays(p)
    /\ UNCHANGED <<project, build>>

(* The default defconfig cannot be copied or tweaked.                      *)
InitFails(p) ==
    /\ At(p, "timer")
    /\ dotconfig = Absent
    /\ dotconfig' \in {Absent, "raw"}
    /\ Rejected(p)
    /\ UNCHANGED <<project, build>>

OldDefconfig(p) ==
    /\ At(p, "olddefconfig")
    /\ dotconfig' = IF dotconfig = "raw" THEN "configured" ELSE dotconfig
    /\ Goto(p, "preconfig")
    /\ Stays(p)
    /\ UNCHANGED <<project, build>>

(* The callback removes .config; unlinkSync() throws if there is none, and *)
(* nothing catches it.                                                     *)
OldDefconfigFails(p) ==
    /\ At(p, "olddefconfig")
    /\ dotconfig' = Absent
    /\ IF dotconfig = Absent
       THEN Goto(p, "end") /\ Stays(p)
       ELSE Rejected(p)
    /\ UNCHANGED <<project, build>>

Preconfig(p) ==
    /\ At(p, "preconfig")
    /\ Goto(p, IF target[p] = "project" /\ project = Absent THEN "copy" ELSE "parse")
    /\ Stays(p)
    /\ UNCHANGED <<files, build>>

CopyConfig(p) ==
    /\ At(p, "copy")
    /\ dotconfig # Absent
    /\ project' = dotconfig
    /\ Goto(p, "parse")
    /\ Stays(p)
    /\ UNCHANGED <<dotconfig, build>>

\* preconfig, the copy or kconfig2json.py fails
StepFails(p) ==
    /\ chain[p] \in {"preconfig", "copy", "parse"}
    /\ Rejected(p)
    /\ UNCHANGED <<files, build>>

(* kconfig2json.py has run: the menu goes to the webview.  The webview of  *)
(* a disposed panel cannot be posted to: an exception, caught by nobody.   *)
Parse(p) ==
    /\ At(p, "parse")
    /\ Goto(p, "end")
    /\ toView' = IF open[p] THEN [toView EXCEPT ![p] = Append(@, "init")] ELSE toView
    /\ UNCHANGED <<panels, overlay, toHost, files, build>>
-----------------------------------------------------------------------------
(* The webview.                                                            *)

\* constructTree(), then "loading" at 100
ReceiveInit(p) ==
    /\ toView[p] # <<>> /\ Head(toView[p]) = "init"
    /\ toView' = [toView EXCEPT ![p] = Tail(@)]
    /\ toHost' = [toHost EXCEPT ![p] = Append(@, "loading")]
    /\ overlay' = [overlay EXCEPT ![p] = FALSE]
    /\ UNCHANGED <<panels, chain, files, build>>

ReceiveSaved(p) ==
    /\ toView[p] # <<>> /\ Head(toView[p]) = "saved"
    /\ toView' = [toView EXCEPT ![p] = Tail(@)]
    /\ overlay' = [overlay EXCEPT ![p] = FALSE]
    /\ UNCHANGED <<panels, chain, toHost, files, build>>

ClickSave(p) ==
    /\ open[p]
    /\ ~overlay[p]
    /\ overlay' = [overlay EXCEPT ![p] = TRUE]
    /\ toHost' = [toHost EXCEPT ![p] = Append(@, "save")]
    /\ UNCHANGED <<panels, chain, toView, files, build>>

(* The host's message handler.                                             *)

ReceiveLoading(p) ==
    /\ toHost[p] # <<>> /\ Head(toHost[p]) = "loading"
    /\ toHost' = [toHost EXCEPT ![p] = Tail(@)]
    /\ invoking' = [invoking EXCEPT ![p] = FALSE]
    /\ UNCHANGED <<currentPanel, open, target, chain, overlay, toView, files, build>>

\* while a build task runs, an error message is all there is; "saved" is sent
\* even if the file cannot be written
ReceiveSave(p) ==
    /\ toHost[p] # <<>> /\ Head(toHost[p]) = "save"
    /\ toHost' = [toHost EXCEPT ![p] = Tail(@)]
    /\ IF build # "none"
       THEN UNCHANGED <<toView, files>>
       ELSE /\ \/ UNCHANGED files
               \/ target[p] = "kernel" /\ dotconfig' = "user" /\ UNCHANGED project
               \/ target[p] = "project" /\ project' = "user" /\ UNCHANGED dotconfig
            /\ toView' = [toView EXCEPT ![p] = Append(@, "saved")]
    /\ UNCHANGED <<panels, chain, overlay, build>>

(* The tab is closed, or the notification cancelled while it is shown.     *)
CloseTab(p) ==
    /\ open[p]
    /\ Dispose(p)
    /\ UNCHANGED <<chain, files, build>>
-----------------------------------------------------------------------------
(* The build task, which may start at any time (scripts/build.sh).         *)

BuildStarts ==
    /\ build = "none"
    /\ build' = "starting"
    /\ UNCHANGED <<panels, chain, view, files>>

\* the project's configuration replaces the kernel's, if it differs
BuildConfigures ==
    /\ build = "starting"
    /\ \/ /\ project # Absent
          /\ dotconfig' = project
          /\ build' = "making"
       \/ /\ dotconfig # Absent           \* built from the SDK's folder
          /\ build' = "making"
          /\ UNCHANGED dotconfig
       \/ /\ Absent \in {project, dotconfig}
          /\ build' = "none"
          /\ UNCHANGED dotconfig
    /\ UNCHANGED <<panels, chain, view, project>>

BuildEnds ==
    /\ build = "making"
    /\ build' = "none"
    /\ UNCHANGED <<panels, chain, view, files>>
-----------------------------------------------------------------------------
\* a callback, a timer or a message that is due
Due(p) ==
    \/ InitKernelKconfig(p) \/ InitFails(p)
    \/ OldDefconfig(p) \/ OldDefconfigFails(p)
    \/ Preconfig(p) \/ CopyConfig(p) \/ StepFails(p) \/ Parse(p)
    \/ ReceiveInit(p) \/ ReceiveSaved(p) \/ ReceiveLoading(p) \/ ReceiveSave(p)

Next ==
    \/ \E p \in Panel : Create(p) \/ ClickSave(p) \/ CloseTab(p) \/ Due(p)
    \/ BuildStarts \/ BuildConfigures \/ BuildEnds

Spec == Init /\ [][Next]_vars

(* Processes end, timers fire and messages arrive; builds may take as long *)
(* as they like, and nothing is asked of the user.                         *)
FairSpec == Spec /\ \A p \in Panel : WF_vars(Due(p))
-----------------------------------------------------------------------------
(* Properties.                                                             *)

TypeOK ==
    /\ currentPanel \in Panel \cup {None}
    /\ open \in [Panel -> BOOLEAN]
    /\ target \in [Panel -> {"kernel", "project"}]
    /\ chain \in [Panel -> Stage]
    /\ invoking \in [Panel -> BOOLEAN]
    /\ overlay \in [Panel -> BOOLEAN]
    /\ toView \in [Panel -> Seq({"init", "saved"})]
    /\ toHost \in [Panel -> Seq({"loading", "save"})]
    /\ dotconfig \in Content \cup {Absent}
    /\ project \in Content \cup {Absent}
    /\ build \in {"none", "starting", "making"}

(* The existence of .config is the only lock: at most one olddefconfig     *)
(* runs in the kernel's directory, and while it runs nothing removes the   *)
(* file, so that the unlinkSync() of its callback cannot throw and leave   *)
(* the panel invoking for good.                                            *)
OneOldDefconfig ==
    \A p \in Panel : At(p, "olddefconfig") =>
        /\ dotconfig # Absent
        /\ \A q \in Panel : At(q, "olddefconfig") => p = q

(* createOrShow() reveals currentPanel, which fails for a disposed panel:  *)
(* the static member never names one, whatever old chains still do.        *)
TrackedIsOpen == currentPanel # None => open[currentPanel]

LifeOf(p) == IF At(p, "none") THEN "new"
             ELSE IF invoking[p] THEN "invoking"
             ELSE IF open[p] THEN "ready" ELSE "closed"

lives == [p \in Panel |-> LifeOf(p)]

Lives == INSTANCE PanelLife WITH life <- lives

(* Every panel lives as PanelLife says, its notification included: it is   *)
(* shown until the menu is up or the panel closed, and never comes back.   *)
LivesAsPromised == Lives!Spec

(* "Remove .config file for reenterring in the next time": no open panel   *)
(* goes on with a .config that olddefconfig has not completed.             *)
NotHalfMade ==
    \A p \in Panel :
        open[p] /\ chain[p] \in {"preconfig", "copy", "parse"} => dotconfig # "raw"

(* "Please close other configuration tab first": there is one tab.         *)
OneTab == \A p, q \in Panel : open[p] /\ open[q] => p = q

(* The webview sends the content "and save it because webview javascript   *)
(* can't save it directly", covered until "saved" comes back: it is not    *)
(* covered for ever.                                                       *)
SaveAnswered == \A p \in Panel : open[p] /\ overlay[p] ~> ~(open[p] /\ overlay[p])
=============================================================================

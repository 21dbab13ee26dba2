-------------------------- MODULE KconfigSync_proofs --------------------------
(***************************************************************************)
(* sync_deps() never lets make miss a change, for any number of symbols,   *)
(* as long as it is not killed while it writes auto.conf and no symbol     *)
(* loses its definition while others refer to it.                          *)
(*                                                                         *)
(* The argument: auto.conf always tells what the sources were built with,  *)
(* but for the symbols whose files are touched (Recorded); a run of the    *)
(* loop touches what now differs from it (Caught); so auto.conf may be     *)
(* replaced.                                                               *)
(***************************************************************************)
EXTENDS KconfigSync, KconfigFiles, TLAPS

\* The symbol's sources were built with what auto.conf says, or will be built.
Recorded(s) == built[s] \in {NotBuilt, auto[s]} \/ s \in touched

\* What _load_old_vals has left in _old_val.
Loaded(s) == IF now[s] = "unknown" THEN auto[s] = None \/ s \in touched
             ELSE old[s] = auto[s]

Caught(s) == auto[s] = Output(now[s]) \/ s \in touched
Written(s) == auto[s] = Output(now[s])

Shape == /\ DOMAIN now = Syms /\ DOMAIN auto = Syms /\ DOMAIN built = Syms
         /\ DOMAIN old = Syms
         /\ syncing \in {"idle", "comparing", "writing", "done"}
         /\ next \in Nat \ {0}
         /\ \A s \in Syms : auto[s] # "n"


IdleInv == syncing = "idle" => \A s \in Syms : Recorded(s)
ComparingInv == syncing = "comparing" => \A s \in Syms : Recorded(s) /\ Loaded(s)
PassedInv == syncing = "comparing" =>
                 \A i \in DOMAIN Order : i < next => Caught(Order[i])
WritingInv == syncing = "writing" =>
                 /\ \A s \in Syms : UpToDate(s)
                 /\ \A i \in DOMAIN Order : i < next => Written(Order[i])
DoneInv == syncing = "done" => \A s \in Syms : UpToDate(s) /\ Written(s)

SyncInv == Shape /\ IdleInv /\ ComparingInv /\ PassedInv /\ WritingInv /\ DoneInv

Sound == ~TornWrites /\ ~StillReferenced

-----------------------------------------------------------------------------

LEMMA OrderTypes == /\ \A i \in DOMAIN Order : Order[i] \in Syms /\ i \in Nat
                    /\ \A s \in Syms : \E i \in DOMAIN Order : s = Order[i]
  BY SyncAssumption DEF SyncAssumption, Syms

LEMMA OutputNotN == \A v : Output(v) # "n"
  BY DEF Output, None, Hidden, Undefined

\* The loop's tests catch every difference from auto.conf.
LEMMA ComparedIsCaught ==
  ASSUME NEW s, Sound, auto[s] # "n", Loaded(s), s \notin touched,
         now[s] = "unknown" \/ ~Changed(s)
  PROVE  Written(s)
  BY DEF Loaded, Changed, Written, Output, Hidden, Undefined, None, Sound

LEMMA CaughtIsUpToDate ==
  ASSUME NEW s, Recorded(s), Caught(s)
  PROVE  UpToDate(s)
  BY DEF Recorded, Caught, UpToDate

-----------------------------------------------------------------------------

LEMMA InitSync == Init => SyncInv
<1> SUFFICES ASSUME Init PROVE SyncInv
  OBVIOUS
<1>1. \A s \in Syms : auto[s] = "none" /\ Recorded(s)
  BY DEF Init, NoLines, None, Recorded
<1>2. Shape
  BY <1>1 DEF Init, Shape, NoLines
<1> QED
  BY <1>1, <1>2 DEF Init, SyncInv, IdleInv, ComparingInv, PassedInv, WritingInv, DoneInv

LEMMA EditSync == ASSUME SyncInv, NEW x \in Syms, Edit(x) PROVE SyncInv'
  BY DEF Edit, SyncInv, Shape, IdleInv, ComparingInv, PassedInv, WritingInv,
     DoneInv, Recorded

LEMMA LoadSync == ASSUME SyncInv, Sound, LoadOldVals PROVE SyncInv'
<1>1. Shape'
  BY DEF LoadOldVals, SyncInv, Shape
<1>2. ComparingInv'
  BY DEF LoadOldVals, SyncInv, Shape, IdleInv, ComparingInv, Recorded, Loaded, None
<1>3. PassedInv'
  BY OrderTypes, SyncAssumption DEF LoadOldVals, PassedInv, SyncAssumption
<1> QED
  BY <1>1, <1>2, <1>3 DEF LoadOldVals, SyncInv, IdleInv, WritingInv, DoneInv

LEMMA CompareSync == ASSUME SyncInv, Sound, Compare PROVE SyncInv'
<1>a. PICK c \in Syms : c = Order[next]
  BY OrderTypes DEF Compare
<1>0. touched \subseteq touched'
  BY DEF Compare
<1>1. Shape'
  BY DEF Compare, SyncInv, Shape
<1>2. ComparingInv'
  BY <1>0 DEF Compare, SyncInv, ComparingInv, Recorded, Loaded
<1>3. Caught(c)'
  <2>1. CASE c \in touched'
    BY <2>1 DEF Caught
  <2>2. CASE c \notin touched'
    <3>1. now[c] = "unknown" \/ ~Changed(c)
      BY <2>2, <1>a DEF Compare, Sound, Undefined
    <3>2. Loaded(c) /\ auto[c] # "n" /\ c \notin touched
      BY <1>0, <2>2 DEF SyncInv, ComparingInv, Shape, Compare
    <3>3. Written(c)
      BY <3>1, <3>2, ComparedIsCaught
    <3> QED
      BY <3>3 DEF Compare, Written, Caught
  <2> QED
    BY <2>1, <2>2
<1>4. PassedInv'
  <2> SUFFICES ASSUME NEW i \in DOMAIN Order, i < next'
               PROVE  Caught(Order[i])'
    BY DEF PassedInv, Compare
  <2>1. CASE i = next
    BY <2>1, <1>3, <1>a
  <2>2. CASE i # next
    <3>1. i < next
      BY <2>2, OrderTypes DEF Compare, SyncInv, Shape
    <3> QED
      BY <3>1, <1>0 DEF Compare, SyncInv, PassedInv, Caught
  <2> QED
    BY <2>1, <2>2
<1> QED
  BY <1>1, <1>2, <1>4 DEF Compare, SyncInv, IdleInv, WritingInv, DoneInv

LEMMA WriteOldSync == ASSUME SyncInv, WriteOldVals PROVE SyncInv'
<1>1. \A i \in DOMAIN Order : i < next
  BY SyncAssumption DEF WriteOldVals, SyncInv, Shape, SyncAssumption
<1>2. \A s \in Syms : UpToDate(s)
  <2> SUFFICES ASSUME NEW s \in Syms PROVE UpToDate(s)
    OBVIOUS
  <2>1. Recorded(s)
    BY DEF SyncInv, ComparingInv, WriteOldVals
  <2>2. PICK i \in DOMAIN Order : s = Order[i]
    BY OrderTypes
  <2>3. Caught(s)
    BY <2>2, <1>1 DEF SyncInv, PassedInv, WriteOldVals
  <2> QED
    BY <2>1, <2>3, CaughtIsUpToDate
<1>3. \A s \in Syms : UpToDate(s)'
  BY <1>2 DEF WriteOldVals, UpToDate
<1>4. Shape'
  BY DEF WriteOldVals, SyncInv, Shape, NoLines, None
<1>5. CASE auto = Contents
  <2>1. \A s \in Syms : Written(s)'
    BY <1>5 DEF WriteOldVals, Written, Contents
  <2>2. syncing' = "done"
    BY <1>5 DEF WriteOldVals
  <2> QED
    BY <1>3, <1>4, <2>1, <2>2 DEF SyncInv, IdleInv, ComparingInv, PassedInv, WritingInv, DoneInv
<1>6. CASE auto # Contents
  <2>1. syncing' = "writing" /\ next' = 1
    BY <1>6 DEF WriteOldVals
  <2>2. WritingInv'
    BY <2>1, <1>3, OrderTypes, SyncAssumption DEF WritingInv, SyncAssumption, WriteOldVals
  <2> QED
    BY <1>4, <2>1, <2>2 DEF SyncInv, IdleInv, ComparingInv, PassedInv, DoneInv
<1> QED
  BY <1>5, <1>6

LEMMA WriteLineSync == ASSUME SyncInv, WriteLine PROVE SyncInv'
<1> DEFINE c == Order[next]
<1>0. c \in Syms
  BY OrderTypes DEF WriteLine
<1>1. Shape'
  BY <1>0, OutputNotN DEF WriteLine, SyncInv, Shape
<1>2. \A s \in Syms : UpToDate(s)'
  BY DEF WriteLine, SyncInv, WritingInv, UpToDate
<1>3. ASSUME NEW i \in DOMAIN Order, i < next'
      PROVE  Written(Order[i])'
  <2>0. Order[i] \in Syms /\ Order[i] \in DOMAIN auto
    BY OrderTypes DEF SyncInv, Shape
  <2>1. CASE Order[i] = c
    BY <2>0, <2>1 DEF WriteLine, Written
  <2>2. CASE Order[i] # c
    <3>1. i < next
      BY <2>2, <1>3, OrderTypes DEF WriteLine, SyncInv, Shape
    <3> QED
      BY <2>0, <2>2, <3>1 DEF WriteLine, Written, SyncInv, WritingInv
  <2> QED
    BY <2>1, <2>2
<1> QED
  BY <1>1, <1>2, <1>3 DEF WriteLine, SyncInv, IdleInv, ComparingInv, PassedInv,
     WritingInv, DoneInv

LEMMA CloseSync == ASSUME SyncInv, CloseAuto PROVE SyncInv'
<1>1. \A i \in DOMAIN Order : i < next
  BY SyncAssumption DEF CloseAuto, SyncInv, Shape, SyncAssumption
<1>2. \A s \in Syms : UpToDate(s)' /\ Written(s)'
  BY <1>1, OrderTypes DEF CloseAuto, SyncInv, WritingInv, UpToDate, Written
<1> QED
  BY <1>2 DEF CloseAuto, SyncInv, Shape, IdleInv, ComparingInv, PassedInv,
     WritingInv, DoneInv

LEMMA CompileSync == ASSUME SyncInv, NEW x \in Syms, Compile(x) PROVE SyncInv'
<1>1. \A s \in Syms : UpToDate(s)'
  BY DEF Compile, SyncInv, DoneInv, UpToDate, Shape
<1>2. \A s \in Syms : Written(s)'
  BY DEF Compile, SyncInv, DoneInv, Written
<1> QED
  BY <1>1, <1>2 DEF Compile, SyncInv, Shape, IdleInv, ComparingInv, PassedInv,
     WritingInv, DoneInv

LEMMA LeaveSync == ASSUME SyncInv, Leave PROVE SyncInv'
<1>1. \A s \in Syms : Recorded(s)'
  BY DEF Leave, SyncInv, DoneInv, UpToDate, Written, Recorded
<1> QED
  BY <1>1 DEF Leave, SyncInv, Shape, IdleInv, ComparingInv, PassedInv,
     WritingInv, DoneInv

LEMMA CrashSync == ASSUME SyncInv, Sound, Crash PROVE SyncInv'
<1>1. syncing = "comparing" /\ auto' = auto
  BY DEF Crash, Sound, Leftovers
<1>2. \A s \in Syms : Recorded(s)'
  BY <1>1 DEF Crash, SyncInv, ComparingInv, Recorded
<1> QED
  BY <1>1, <1>2 DEF Crash, SyncInv, Shape, IdleInv, ComparingInv, PassedInv,
     WritingInv, DoneInv, NoLines

LEMMA OutputLines == \A s, v : v \in States(s) => Output(v) \in LinesOf(s)
  BY SyncAssumption DEF SyncAssumption, Output, LinesOf, States, Values, Hidden,
     Undefined, None

LEMMA TypeStep == ASSUME SyncTypeOK, [Next]_vars PROVE SyncTypeOK'
<1> USE DEF SyncTypeOK
<1>0. \A i \in DOMAIN Order : Order[i] \in Syms /\ i \in Nat /\ i + 1 \in 1..(Len(Order) + 1)
  BY SyncAssumption DEF SyncAssumption, Syms
<1>1. ASSUME NEW s \in Syms, Edit(s) PROVE SyncTypeOK'
  <2>1. PICK v \in States(s) : now' = [now EXCEPT ![s] = v]
    BY <1>1 DEF Edit
  <2> QED BY <1>1, <2>1 DEF Edit
<1>2. ASSUME NEW s \in Syms, Compile(s) PROVE SyncTypeOK'
  BY <1>2, OutputLines DEF Compile
<1>3. CASE LoadOldVals
  BY <1>3, SyncAssumption DEF LoadOldVals, LinesOf, SyncAssumption
<1>4. CASE Compare
  BY <1>0, <1>4 DEF Compare
<1>5. CASE WriteOldVals
  BY <1>5, SyncAssumption DEF WriteOldVals, NoLines, LinesOf, SyncAssumption
<1>6. CASE WriteLine
  <2>1. Output(now[Order[next]]) \in LinesOf(Order[next]) /\ Order[next] \in Syms
    BY <1>0, <1>6, OutputLines DEF WriteLine
  <2> QED BY <1>0, <1>6, <2>1 DEF WriteLine
<1>7. CASE CloseAuto
  BY <1>7, SyncAssumption DEF CloseAuto, SyncAssumption
<1>8. CASE Leave
  BY <1>8 DEF Leave
<1>9. CASE Crash
  <2>1. ASSUME NEW t \in Texts, NEW s \in Syms \ Bools PROVE t \in LinesOf(s)
    BY <2>1, SyncAssumption DEF SyncAssumption, LinesOf, Values
  <2>2. DOMAIN auto' = Syms /\ \A s \in Syms : auto'[s] \in LinesOf(s)
    <3>1. CASE auto' = auto
      BY <3>1
    <3>2. ASSUME NEW t \in Texts, next \in DOMAIN Order, Order[next] \notin Bools,
                 auto' = [auto EXCEPT ![Order[next]] = t]
          PROVE <2>2!1 /\ <2>2!2
      BY <1>0, <2>1, <3>2
    <3> QED BY <1>9, <3>1, <3>2 DEF Crash, Leftovers
  <2> QED BY <1>9, <2>2, SyncAssumption DEF Crash, NoLines, LinesOf, SyncAssumption
<1>10. CASE UNCHANGED vars
  BY <1>10 DEF vars
<1> QED BY <1>1, <1>2, <1>3, <1>4, <1>5, <1>6, <1>7, <1>8, <1>9, <1>10 DEF Next

\* For any symbols, and whatever a crash leaves of auto.conf, the state is well
\* typed; auto.conf never has a line for a symbol that is n.
THEOREM SyncTypeCorrect == Spec => []SyncTypeOK
<1>1. Init => SyncTypeOK
  BY SyncAssumption DEF Init, NoLines, SyncTypeOK, States, LinesOf, Hidden, Undefined, SyncAssumption
<1> QED BY <1>1, TypeStep, PTL DEF Spec

LEMMA StutterSync == ASSUME SyncInv, UNCHANGED vars PROVE SyncInv'
  BY DEF SyncInv, Shape, IdleInv, ComparingInv, PassedInv, WritingInv, DoneInv,
     vars, Recorded, Loaded, Caught, Written, UpToDate

-----------------------------------------------------------------------------

\* When a run of sync_deps() is over, make finds everything it has to compile,
\* whatever was edited before and however often earlier runs were killed while
\* comparing or the builds after them broken off: for any symbols.
THEOREM SyncDepsComplete == ASSUME Sound PROVE Spec => []SyncComplete
<1>1. SyncInv => SyncComplete
  BY DEF SyncInv, DoneInv, SyncComplete
<1>2. SyncInv /\ [Next]_vars => SyncInv'
  BY Sound, EditSync, LoadSync, CompareSync, WriteOldSync, WriteLineSync,
     CloseSync, CompileSync, LeaveSync, CrashSync, StutterSync DEF Next
<1> QED
  BY <1>1, <1>2, InitSync, PTL DEF Spec
-----------------------------------------------------------------------------
(* One crash of write_config() loses no configuration, whatever the        *)
(* configurations are: while the file is written its old contents are in   *)
(* .config.old, if the last write ended well.                              *)

FilesInv ==
    /\ saving \in {"idle", "copying", "saved", "writing"}
    /\ wanted \in Configs
    /\ crashed \in {"never", "once", "again"}
    /\ saving \in {"idle", "copying"} /\ crashed = "never" => dotConfig \in Configs
    /\ saving \in {"saved", "writing"} /\ crashed = "never" => dotOld \in Configs
    /\ saving = "idle" /\ crashed = "once" => dotConfig \in Configs \/ dotOld \in Configs

LEMMA InitFiles == FilesInit => FilesInv
  BY DEF FilesInit, FilesInv

LEMMA StepFiles == FilesInv /\ [FilesNext]_fileVars => FilesInv'
<1> SUFFICES ASSUME FilesInv, [FilesNext]_fileVars PROVE FilesInv'
  OBVIOUS
<1> USE DEF FilesInv
<1>1. CASE EditConfig
  BY <1>1 DEF EditConfig
<1>2. CASE SaveOld
  BY <1>2, FilesAssumption DEF SaveOld, FilesAssumption
<1>3. CASE Copied
  BY <1>3 DEF Copied
<1>4. CASE Open
  BY <1>4 DEF Open
<1>5. CASE Close
  BY <1>5 DEF Close
<1>6. CASE Killed
  BY <1>6 DEF Killed
<1>7. CASE UNCHANGED fileVars
  BY <1>7 DEF fileVars
<1> QED
  BY <1>1, <1>2, <1>3, <1>4, <1>5, <1>6, <1>7 DEF FilesNext

\* After one crash of write_config(), at whatever system call and for a plain
\* file or a symbolic link, .config or .config.old is a complete configuration.
THEOREM OneCrashLosesNothing == FilesSpec => []Recoverable
<1>1. FilesInv => Recoverable
  BY DEF FilesInv, Recoverable
<1> QED
  BY <1>1, InitFiles, StepFiles, PTL DEF FilesSpec
===============================================================================

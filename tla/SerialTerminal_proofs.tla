------------------------ MODULE SerialTerminal_proofs ------------------------
(***************************************************************************)
(* Theorems about SerialTerminal, for any terminals and tasks.             *)
(***************************************************************************)
EXTENDS SerialTerminal, TLAPS

-----------------------------------------------------------------------------
(* What the open command does to the terminals: nothing, or it creates one *)
(* that was not there, while nothing runs.                                 *)

LEMMA OpenEffect ==
    ASSUME NEW running, Open(running)
    PROVE  \/ UNCHANGED <<serialTerminal, window>>
           \/ /\ running = {}
              /\ \E t \in Terminals :
                    /\ window[t] = "none"
                    /\ serialTerminal' = t
                    /\ window' = [window EXCEPT ![t] = "open"]
BY DEF Open, OpenPort, Create

LEMMA OpenTypes ==
    ASSUME NEW running, TypeOK, Open(running)
    PROVE  /\ serialTerminal' \in Terminals \cup {undefined}
           /\ window' \in [Terminals -> {"none", "open", "disposed"}]
           /\ choosing' \in BOOLEAN
           /\ updating' \in 0..MaxUpdating
           /\ serialTerminal' # undefined => window'[serialTerminal'] # "none"
<1>1. /\ serialTerminal' \in Terminals \cup {undefined}
      /\ window' \in [Terminals -> {"none", "open", "disposed"}]
      /\ serialTerminal' # undefined => window'[serialTerminal'] # "none"
  BY OpenEffect DEF TypeOK
<1>2. choosing' \in BOOLEAN /\ updating' \in 0..MaxUpdating
  BY DEF TypeOK, Open, OpenPort
<1> QED BY <1>1, <1>2

\* Closing the known terminal leaves every terminal where it was or disposed.
LEMMA DisposedTypes ==
    ASSUME TypeOK
    PROVE  /\ Disposed \in [Terminals -> {"none", "open", "disposed"}]
           /\ serialTerminal # undefined =>
                 /\ Disposed[serialTerminal] # "none"
                 /\ Disposed[serialTerminal] # "open"
BY SerialAssumption DEF SerialAssumption, TypeOK, Disposed

-----------------------------------------------------------------------------
(* Types.                                                                  *)

LEMMA TypeInit == Init => TypeOK
<1> SUFFICES ASSUME Init PROVE TypeOK
  OBVIOUS
<1> USE SerialAssumption DEF SerialAssumption, Init
<1>1. updating \in 0..MaxUpdating /\ flashtaskExitCode \in -1..1
  OBVIOUS
<1>2. /\ serialTerminal \in Terminals \cup {undefined}
      /\ window \in [Terminals -> {"none", "open", "disposed"}]
      /\ task \in [Tasks -> {"idle", "launched", "running", "ending"}]
  OBVIOUS
<1>3. choosing \in BOOLEAN
  OBVIOUS
<1> QED BY <1>1, <1>2, <1>3 DEF TypeOK

LEMMA TypeStep == TypeOK /\ [Next]_vars => TypeOK'
<1> SUFFICES ASSUME TypeOK, [Next]_vars PROVE TypeOK'
  OBVIOUS
<1> USE SerialAssumption DEF SerialAssumption
<1>1. CASE OpenCommand
  BY <1>1, OpenTypes DEF OpenCommand, TypeOK
<1>2. CASE PickPort
  <2>1. updating' \in 0..MaxUpdating
    BY <1>2 DEF PickPort, TypeOK
  <2>2. choosing' \in BOOLEAN
    BY <1>2 DEF PickPort
  <2> QED BY <1>2, <2>1, <2>2 DEF PickPort, TypeOK
<1>3. CASE DismissSelector
  BY <1>3 DEF DismissSelector, TypeOK
<1>4. CASE PortStored
  BY <1>4 DEF PortStored, OpenPort, Create, TypeOK
<1>5. CASE CloseCommand
  BY <1>5, DisposedTypes DEF CloseCommand, TypeOK
<1>6. ASSUME NEW t \in Terminals, EndTerminal(t) PROVE TypeOK'
  BY <1>6 DEF EndTerminal, TypeOK
<1>7. ASSUME NEW t \in Terminals, DidCloseTerminal(t) PROVE TypeOK'
  BY <1>7 DEF DidCloseTerminal, Forget, TypeOK
<1>8. ASSUME NEW k \in Tasks, Launch(k) PROVE TypeOK'
  BY <1>8 DEF Launch, TypeOK
<1>9. ASSUME NEW k \in Tasks, DidStartTask(k) PROVE TypeOK'
  BY <1>9, DisposedTypes DEF DidStartTask, TypeOK
<1>10. ASSUME NEW k \in Tasks, DidEndTaskProcess(k) PROVE TypeOK'
  BY <1>10 DEF DidEndTaskProcess, TypeOK
<1>11. ASSUME NEW k \in Tasks, DidEndTask(k) PROVE TypeOK'
  <2>1. CASE k \in AutoTasks /\ flashtaskExitCode = 0
    <3>1. Open(TaskExecutions \ {k})
      BY <1>11, <2>1 DEF DidEndTask
    <3> QED BY <1>11, <3>1, OpenTypes DEF DidEndTask, TypeOK
  <2>2. CASE ~(k \in AutoTasks /\ flashtaskExitCode = 0)
    BY <1>11, <2>2 DEF DidEndTask, TypeOK
  <2> QED BY <2>1, <2>2
<1>12. CASE UNCHANGED vars
  BY <1>12 DEF vars, TypeOK
<1> QED BY <1>1, <1>2, <1>3, <1>4, <1>5, <1>6, <1>7, <1>8, <1>9, <1>10, <1>11,
           <1>12 DEF Next

\* The state is well typed, and the terminal the extension knows exists.
THEOREM TypeCorrect == Spec => []TypeOK
<1> QED BY TypeInit, TypeStep, PTL DEF Spec

-----------------------------------------------------------------------------
(* A known flash task has the line to itself, as far as the known terminal *)
(* goes.                                                                   *)

LEMMA UndisturbedStep ==
    TypeOK /\ FlashUndisturbed /\ [Next]_vars => FlashUndisturbed'
<1> SUFFICES ASSUME TypeOK, FlashUndisturbed, [Next]_vars
             PROVE  FlashUndisturbed'
  OBVIOUS
<1> USE SerialAssumption DEF SerialAssumption
<1>1. CASE OpenCommand
  <2>1. Open(TaskExecutions) /\ TaskExecutions' = TaskExecutions
    BY <1>1 DEF OpenCommand, TaskExecutions
  <2> QED BY <2>1, OpenEffect DEF FlashUndisturbed
<1>2. CASE PickPort
  BY <1>2 DEF PickPort, FlashUndisturbed, TaskExecutions
<1>3. CASE DismissSelector
  BY <1>3 DEF DismissSelector, FlashUndisturbed, TaskExecutions
<1>4. CASE PortStored
  <2>1. OpenPort(TaskExecutions) /\ TaskExecutions' = TaskExecutions
    BY <1>4 DEF PortStored, TaskExecutions
  <2> QED BY <2>1 DEF OpenPort, FlashUndisturbed
<1>5. CASE CloseCommand
  BY <1>5, DisposedTypes DEF CloseCommand, FlashUndisturbed
<1>6. ASSUME NEW t \in Terminals, EndTerminal(t) PROVE FlashUndisturbed'
  BY <1>6 DEF EndTerminal, FlashUndisturbed, TaskExecutions, TypeOK
<1>7. ASSUME NEW t \in Terminals, DidCloseTerminal(t) PROVE FlashUndisturbed'
  BY <1>7 DEF DidCloseTerminal, Forget, FlashUndisturbed, TaskExecutions, TypeOK
<1>8. ASSUME NEW k \in Tasks, Launch(k) PROVE FlashUndisturbed'
  <2>1. TaskExecutions' = TaskExecutions
    BY <1>8 DEF Launch, TaskExecutions, TypeOK
  <2> QED BY <1>8, <2>1 DEF Launch, FlashUndisturbed
<1>9. ASSUME NEW k \in Tasks, DidStartTask(k) PROVE FlashUndisturbed'
  BY <1>9, DisposedTypes DEF DidStartTask, FlashUndisturbed
<1>10. ASSUME NEW k \in Tasks, DidEndTaskProcess(k) PROVE FlashUndisturbed'
  <2>1. TaskExecutions' = TaskExecutions
    BY <1>10 DEF DidEndTaskProcess, TaskExecutions, TypeOK
  <2> QED BY <1>10, <2>1 DEF DidEndTaskProcess, FlashUndisturbed
<1>11. ASSUME NEW k \in Tasks, DidEndTask(k) PROVE FlashUndisturbed'
  <2>1. TaskExecutions' = TaskExecutions \ {k}
    BY <1>11 DEF DidEndTask, TaskExecutions, TypeOK
  <2>2. CASE UNCHANGED <<serialTerminal, window>>
    BY <2>1, <2>2 DEF FlashUndisturbed
  <2>3. CASE k \in AutoTasks /\ flashtaskExitCode = 0
    <3>1. Open(TaskExecutions')
      BY <1>11, <2>1, <2>3 DEF DidEndTask
    <3> QED BY <2>2, <3>1, OpenEffect DEF FlashUndisturbed
  <2> QED BY <1>11, <2>2, <2>3 DEF DidEndTask
<1>12. CASE UNCHANGED vars
  BY <1>12 DEF vars, FlashUndisturbed, TaskExecutions
<1> QED BY <1>1, <1>2, <1>3, <1>4, <1>5, <1>6, <1>7, <1>8, <1>9, <1>10, <1>11,
           <1>12 DEF Next

\* In every run a flash task the extension knows is not disturbed by the
\* terminal it knows: opens that waited check again, and starts close.
THEOREM NeverDisturbed == Spec => []FlashUndisturbed
<1>1. Init => FlashUndisturbed
  BY DEF Init, FlashUndisturbed
<1> QED BY <1>1, TypeCorrect, UndisturbedStep, PTL DEF Spec
=============================================================================

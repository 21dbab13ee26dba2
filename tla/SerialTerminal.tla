--------------------------- MODULE SerialTerminal ---------------------------
(***************************************************************************)
(* The serial terminal and the tasks that flash over the same serial line, *)
(* as src/serial_terminal.ts sees them: commands of the user, a selector   *)
(* somebody has to answer, and the events of terminals and tasks, each     *)
(* delivered some time after what it tells.                                *)
(*                                                                         *)
(* A handler runs to its end or to its next await.  Which ports exist and  *)
(* which is configured is left open: an open command may find its port,    *)
(* ask for one, or find none.                                              *)
(***************************************************************************)
EXTENDS Integers

CONSTANTS Terminals,      \* as many as there may be at a time
          Tasks,          \* those isConflictTask() tells
          AutoTasks,      \* those isAutoSerialTerminalTask() tells
          MaxUpdating,    \* how many opens may wait for the settings
          undefined

ASSUME SerialAssumption ==
    /\ AutoTasks \subseteq Tasks
    /\ undefined \notin Terminals
    /\ MaxUpdating \in Nat

VARIABLES serialTerminal,      \* the terminal the extension knows, or undefined
          flashtaskExitCode,
          choosing,            \* an open command waits for the port selector
          updating,            \* how many wait for the port to be stored
          window,              \* of each terminal: none, open, or disposed
                               \* with the event of its end on the way
          task                 \* of each task: idle, launched but not yet
                               \* told, running, or ending (process ended)

vars == <<serialTerminal, flashtaskExitCode, choosing, updating, window, task>>

Init == /\ serialTerminal = undefined
        /\ flashtaskExitCode = -1
        /\ choosing = FALSE
        /\ updating = 0
        /\ window = [t \in Terminals |-> "none"]
        /\ task = [k \in Tasks |-> "idle"]

\* vscode.tasks.taskExecutions, as far as they conflict
TaskExecutions == {k \in Tasks : task[k] \in {"running", "ending"}}

-----------------------------------------------------------------------------
(* The commands.                                                           *)

Create == \E t \in Terminals :
             /\ window[t] = "none"
             /\ serialTerminal' = t
             /\ window' = [window EXCEPT ![t] = "open"]

\* mutant of OpenPort: what is running was looked at before the wait
OpenUnchecked(running) ==
    \/ Create
    \/ UNCHANGED <<serialTerminal, window>>

\* The end of the open command, once it has a port.  It ends with an error
\* if a task is running, or else if the port is no name of a device.
OpenPort(running) ==
    \/ running = {} /\ Create
    \/ UNCHANGED <<serialTerminal, window>>

\* The command up to its first wait.  A selector that is shown makes the one
\* shown before go, which ends the command that waited for that.
Open(running) ==
    IF serialTerminal # undefined
    THEN UNCHANGED <<serialTerminal, window, choosing, updating>>
    ELSE \/ OpenPort(running) /\ UNCHANGED <<choosing, updating>>
         \/ choosing' = TRUE /\ UNCHANGED <<serialTerminal, window, updating>>

OpenCommand == /\ Open(TaskExecutions)
               /\ UNCHANGED <<flashtaskExitCode, task>>

\* the user answers the selector, and the answer is stored
PickPort == /\ choosing /\ updating < MaxUpdating
            /\ choosing' = FALSE
            /\ updating' = updating + 1
            /\ UNCHANGED <<serialTerminal, flashtaskExitCode, window, task>>

\* the user does not, or asks for another selector to set the port only
DismissSelector == /\ choosing
                   /\ choosing' = FALSE
                   /\ UNCHANGED <<serialTerminal, flashtaskExitCode, updating,
                                  window, task>>

PortStored == /\ updating > 0
              /\ updating' = updating - 1
              /\ OpenPort(TaskExecutions)
              /\ UNCHANGED <<flashtaskExitCode, choosing, task>>

Disposed == [t \in Terminals |-> IF t = serialTerminal /\ window[t] = "open"
                                 THEN "disposed" ELSE window[t]]

CloseCommand == /\ window' = Disposed
                /\ UNCHANGED <<serialTerminal, flashtaskExitCode, choosing,
                               updating, task>>

-----------------------------------------------------------------------------
(* Terminals end, and the extension is told.                               *)

\* the user kills the terminal, or its program ends
EndTerminal(t) == /\ window[t] = "open"
                  /\ window' = [window EXCEPT ![t] = "disposed"]
                  /\ UNCHANGED <<serialTerminal, flashtaskExitCode, choosing,
                                 updating, task>>

\* mutant of Forget: the terminal is known for ever
ForgetNone(t) == serialTerminal

Forget(t) == IF t = serialTerminal THEN undefined ELSE serialTerminal

DidCloseTerminal(t) == /\ window[t] = "disposed"
                       /\ window' = [window EXCEPT ![t] = "none"]
                       /\ serialTerminal' = Forget(t)
                       /\ UNCHANGED <<flashtaskExitCode, choosing, updating,
                                      task>>

-----------------------------------------------------------------------------
(* Tasks start and end, and the extension is told.                         *)

Launch(k) == /\ task[k] = "idle"
             /\ task' = [task EXCEPT ![k] = "launched"]
             /\ UNCHANGED <<serialTerminal, flashtaskExitCode, choosing,
                            updating, window>>

\* mutant of DidStartTask: the line is not left to the task
StartUnnoticed(k) == /\ task[k] = "launched"
                     /\ task' = [task EXCEPT ![k] = "running"]
                     /\ UNCHANGED <<serialTerminal, flashtaskExitCode,
                                    choosing, updating, window>>

DidStartTask(k) == /\ task[k] = "launched"
                   /\ task' = [task EXCEPT ![k] = "running"]
                   /\ window' = Disposed
                   /\ UNCHANGED <<serialTerminal, flashtaskExitCode, choosing,
                                  updating>>

\* a killed process has no exit code
DidEndTaskProcess(k) ==
    /\ task[k] = "running"
    /\ task' = [task EXCEPT ![k] = "ending"]
    /\ \E code \in {undefined, 0, 1} :
          flashtaskExitCode' = IF k \in AutoTasks /\ code # undefined
                               THEN code ELSE flashtaskExitCode
    /\ UNCHANGED <<serialTerminal, choosing, updating, window>>

\* a task without a process ends at once; what ended is no longer among the
\* executions when the handler runs
DidEndTask(k) ==
    /\ task[k] \in {"running", "ending"}
    /\ task' = [task EXCEPT ![k] = "idle"]
    /\ IF k \in AutoTasks /\ flashtaskExitCode = 0
       THEN Open(TaskExecutions \ {k})
       ELSE UNCHANGED <<serialTerminal, window, choosing, updating>>
    /\ UNCHANGED flashtaskExitCode

Next == \/ OpenCommand
        \/ PickPort
        \/ DismissSelector
        \/ PortStored
        \/ CloseCommand
        \/ \E t \in Terminals : EndTerminal(t) \/ DidCloseTerminal(t)
        \/ \E k \in Tasks : \/ Launch(k)
                            \/ DidStartTask(k)
                            \/ DidEndTaskProcess(k)
                            \/ DidEndTask(k)

Spec == Init /\ [][Next]_vars

\* what happened is told in the end
FairSpec == /\ Spec
            /\ \A t \in Terminals : WF_vars(DidCloseTerminal(t))
            /\ \A k \in Tasks : WF_vars(DidStartTask(k))

-----------------------------------------------------------------------------
(* What has to hold.                                                       *)

\* The types, and that the terminal the extension knows exists, so that the
\* open command, which only shows a known terminal, is not dead for ever.
TypeOK == /\ serialTerminal \in Terminals \cup {undefined}
          /\ flashtaskExitCode \in -1..1
          /\ choosing \in BOOLEAN
          /\ updating \in 0..MaxUpdating
          /\ window \in [Terminals -> {"none", "open", "disposed"}]
          /\ task \in [Tasks -> {"idle", "launched", "running", "ending"}]
          /\ serialTerminal # undefined => window[serialTerminal] # "none"

\* While the extension knows of a task that flashes, the terminal it knows is
\* not open: an open command checks after its last wait, and a start closes.
FlashUndisturbed ==
    TaskExecutions # {} /\ serialTerminal # undefined
        => window[serialTerminal] # "open"

\* The terminal known while a task that flashes is, is soon gone, even if the
\* task has ended by then or another terminal has taken its place.
LineFreed ==
    \A t \in Terminals :
        TaskExecutions # {} /\ serialTerminal = t ~> window[t] = "none"

\* No terminal at all is open while a flash task is known.  This fails: two
\* open commands may both wait for the port to be stored, the second
\* terminal replaces the first, and nothing closes the first.
LineUndisturbed ==
    TaskExecutions # {} => \A t \in Terminals : window[t] # "open"
=============================================================================

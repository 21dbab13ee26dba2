----------------------------- MODULE KconfigSync -----------------------------
(***************************************************************************)
(* Incremental builds with sync_deps() of kconfiglib.py.                   *)
(*                                                                         *)
(* Before a build sync_deps() compares the values of the symbols with      *)
(* those it wrote to auto.conf the last time, touches a file for every     *)
(* symbol whose output has changed, and then writes auto.conf anew; make   *)
(* recompiles what depends on a touched file.  Between two runs the user   *)
(* edits values and Kconfig files, and a run may be killed.                *)
(***************************************************************************)
EXTENDS Naturals, Sequences

CONSTANTS Order,           \* the symbols, in definition order
          Bools,           \* those that are bool or tristate
          Texts,           \* the values of the others
          TornWrites,      \* whether a run may be killed while it writes auto.conf
          StillReferenced  \* whether a symbol may lose its definition while
                           \* other symbols refer to it

Syms == {Order[i] : i \in DOMAIN Order}

(* A symbol is unknown, known only as an operand of other symbols, without *)
(* an assignment in the configuration, or it has a value.                  *)
Undefined == {"unknown"} \cup IF StillReferenced THEN {"referenced"} ELSE {}
Hidden == Undefined \cup {"hidden"}
Values(s) == IF s \in Bools THEN {"n", "m", "y"} ELSE Texts
States(s) == Hidden \cup Values(s)

None == "none"
NotBuilt == "not built"

SyncAssumption == /\ Order \in Seq(Syms)
                  /\ Texts \cap (Hidden \cup {None, NotBuilt, "n"}) = {}
                  /\ TornWrites \in BOOLEAN /\ StillReferenced \in BOOLEAN
ASSUME SyncAssumption

VARIABLES now,             \* the state of each symbol
          auto,            \* the lines of auto.conf
          touched,         \* the files touched and not yet compiled for
          built,           \* the output each symbol's sources were built with
          syncing,         \* what the run of sync_deps is doing
          old,             \* _old_val of each symbol
          next             \* the symbol the run has come to

vars == <<now, auto, touched, built, syncing, old, next>>

-----------------------------------------------------------------------------

\* mutant of Output: an n is written like any other value
OutputWithN(v) == IF v \in Hidden THEN None ELSE v

(* The line of a symbol in autoconf.h, and in auto.conf: an n is left out. *)
Output(v) == IF v \in Hidden \cup {"n"} THEN None ELSE v

Contents == [s \in Syms |-> Output(now[s])]

\* mutant of Changed: a symbol that is no longer written is not looked at
ChangedIfWritten(s) ==
    /\ now[s] \notin Hidden
    /\ ~(old[s] = None /\ now[s] = "n")
    /\ now[s] # old[s]

(* The tests of sync_deps' loop.                                           *)
Changed(s) == IF now[s] \in Hidden THEN old[s] # None
              ELSE /\ ~(old[s] = None /\ now[s] = "n")
                   /\ now[s] # old[s]

NoLines == [s \in Syms |-> None]

Init == /\ now = [s \in Syms |-> "hidden"]
        /\ auto = NoLines
        /\ touched = {}
        /\ built = [s \in Syms |-> NotBuilt]
        /\ syncing = "idle"
        /\ old = NoLines
        /\ next = 1

(* The user changes the configuration or the Kconfig files.                *)
Edit(s) == /\ syncing = "idle"
           /\ now' \in {[now EXCEPT ![s] = v] : v \in States(s)}
           /\ UNCHANGED <<auto, touched, built, syncing, old, next>>

(* sync_deps starts: _load_old_vals, which flags the symbols of auto.conf  *)
(* that nothing knows any more.                                            *)
LoadOldVals ==
    /\ syncing = "idle"
    /\ old' = [s \in Syms |-> IF now[s] = "unknown" THEN None ELSE auto[s]]
    /\ touched' = touched \cup {s \in Syms : now[s] = "unknown" /\ auto[s] # None}
    /\ syncing' = "comparing"
    /\ next' = 1
    /\ UNCHANGED <<now, auto, built>>

(* One pass of its loop over the defined symbols.                          *)
Compare ==
    /\ syncing = "comparing"
    /\ next \in DOMAIN Order
    /\ LET s == Order[next]
       IN  touched' = touched \cup {x \in {s} : /\ now[x] \notin Undefined
                                               /\ Changed(x)}
    /\ next' = next + 1
    /\ UNCHANGED <<now, auto, built, syncing, old>>

(* _write_old_vals: auto.conf is left alone if nothing changes, and else   *)
(* truncated and written line by line.                                     *)
WriteOldVals ==
    /\ syncing = "comparing"
    /\ next \notin DOMAIN Order
    /\ IF auto = Contents THEN syncing' = "done" /\ UNCHANGED auto
       ELSE syncing' = "writing" /\ auto' = NoLines
    /\ old' = NoLines
    /\ next' = 1
    /\ UNCHANGED <<now, touched, built>>

WriteLine ==
    /\ syncing = "writing"
    /\ next \in DOMAIN Order
    /\ auto' = [auto EXCEPT ![Order[next]] = Output(now[Order[next]])]
    /\ next' = next + 1
    /\ UNCHANGED <<now, touched, built, syncing, old>>

CloseAuto ==
    /\ syncing = "writing"
    /\ next \notin DOMAIN Order
    /\ syncing' = "done"
    /\ next' = 1
    /\ UNCHANGED <<now, auto, touched, built, old>>

(* make compiles what depends on a touched file or was never compiled, or  *)
(* is interrupted before it does.                                          *)
Compile(s) ==
    /\ syncing = "done"
    /\ s \in touched \/ built[s] = NotBuilt
    /\ built' = [built EXCEPT ![s] = Output(now[s])]
    /\ touched' = touched \ {s}
    /\ UNCHANGED <<now, auto, syncing, old, next>>

Leave == /\ syncing = "done"
         /\ syncing' = "idle"
         /\ UNCHANGED <<now, auto, touched, built, old, next>>

(* What a crash leaves of the line being written: a number may end early,  *)
(* and then reads as another one.                                          *)
Leftovers ==
    {auto} \cup IF syncing = "writing" /\ next \in DOMAIN Order /\ Order[next] \notin Bools
                THEN {[auto EXCEPT ![Order[next]] = t] : t \in Texts}
                ELSE {}

(* The process dies.                                                       *)
Crash ==
    /\ syncing = "comparing" \/ (syncing = "writing" /\ TornWrites)
    /\ syncing' = "idle"
    /\ auto' \in Leftovers
    /\ old' = NoLines
    /\ next' = 1
    /\ UNCHANGED <<now, touched, built>>

Next == \/ \E s \in Syms : Edit(s) \/ Compile(s)
        \/ LoadOldVals
        \/ Compare
        \/ WriteOldVals
        \/ WriteLine
        \/ CloseAuto
        \/ Leave
        \/ Crash

Spec == Init /\ [][Next]_vars

-----------------------------------------------------------------------------

(* The type invariant.  auto.conf has no line for a symbol that is n or    *)
(* without an assignment, as autoconf.h has none.                          *)
LinesOf(s) == {None} \cup (Values(s) \ {"n"})

SyncTypeOK ==
    /\ \A f \in {now, auto, old, built} : DOMAIN f = Syms
    /\ \A s \in Syms : /\ now[s] \in States(s)
                      /\ auto[s] \in LinesOf(s)
                      /\ old[s] \in LinesOf(s)
                      /\ built[s] \in LinesOf(s) \cup {NotBuilt}
    /\ touched \subseteq Syms
    /\ syncing \in {"idle", "comparing", "writing", "done"}
    /\ next \in 1..(Len(Order) + 1)

\* Sources that were built with another output of the symbol than the
\* present one will be compiled: its file is touched.
UpToDate(s) == built[s] \in {NotBuilt, Output(now[s])} \/ s \in touched

\* When sync_deps is done make finds everything it has to compile, whatever
\* was edited and however often earlier runs were killed, before they began to
\* write auto.conf, or builds were broken off.  With TornWrites this fails: a
\* symbol whose line is lost or cut short and that is then set to n, or to what
\* was left, is not noticed.
SyncComplete == syncing = "done" => \A s \in Syms : UpToDate(s)
=============================================================================

---------------------------- MODULE KconfigFiles ----------------------------
(***************************************************************************)
(* write_config() of kconfiglib.py saves the old .config as .config.old,   *)
(* by renaming it or, for a symbolic link, by copying it, and then writes  *)
(* the new one in place.  The process may die between any two system       *)
(* calls.  A file is missing, torn (begun and not ended), or holds one of  *)
(* the configurations.                                                     *)
(***************************************************************************)
CONSTANTS Configs,         \* complete configurations
          Missing, Torn

FilesAssumption == Missing # Torn /\ Missing \notin Configs /\ Torn \notin Configs
ASSUME FilesAssumption

VARIABLES linked,          \* whether .config is a symbolic link
          dotConfig,       \* .config
          dotOld,          \* .config.old
          wanted,          \* the configuration in memory
          saving,          \* what write_config is doing
          crashed          \* how often it was killed since it last finished:
                           \* "never", "once" or "again"

fileVars == <<linked, dotConfig, dotOld, wanted, saving, crashed>>

FilesInit == /\ linked \in BOOLEAN
             /\ dotConfig \in Configs
             /\ dotOld = Missing
             /\ wanted = dotConfig
             /\ saving = "idle"
             /\ crashed = "never"

EditConfig == /\ saving = "idle"
              /\ wanted' \in Configs
              /\ UNCHANGED <<linked, dotConfig, dotOld, saving, crashed>>

\* mutant of SaveOld: the new file is begun before the old one is saved
SaveOldLate ==
    /\ saving = "idle"
    /\ dotConfig # wanted
    /\ dotConfig' = Torn
    /\ dotOld' = Torn
    /\ saving' = "saved"
    /\ UNCHANGED <<linked, wanted, crashed>>

(* _contents_eq, and _save_old with rename or, when the file is a link,    *)
(* the first half of a copy.  There may be nothing to save.                *)
SaveOld ==
    /\ saving = "idle"
    /\ dotConfig # wanted
    /\ IF dotConfig = Missing THEN saving' = "saved" /\ UNCHANGED <<dotConfig, dotOld>>
       ELSE IF linked THEN saving' = "copying" /\ dotOld' = Torn /\ UNCHANGED dotConfig
       ELSE saving' = "saved" /\ dotOld' = dotConfig /\ dotConfig' = Missing
    /\ UNCHANGED <<linked, wanted, crashed>>

Copied == /\ saving = "copying"
          /\ dotOld' = dotConfig
          /\ saving' = "saved"
          /\ UNCHANGED <<linked, dotConfig, wanted, crashed>>

Open == /\ saving = "saved"
        /\ dotConfig' = Torn
        /\ saving' = "writing"
        /\ UNCHANGED <<linked, dotOld, wanted, crashed>>

Close == /\ saving = "writing"
         /\ dotConfig' = wanted
         /\ saving' = "idle"
         /\ crashed' = "never"
         /\ UNCHANGED <<linked, dotOld, wanted>>

(* The process dies, and the next one starts from what it makes of the     *)
(* files.                                                                  *)
Killed == /\ saving # "idle"
          /\ saving' = "idle"
          /\ wanted' \in Configs
          /\ crashed' = IF crashed = "never" THEN "once" ELSE "again"
          /\ UNCHANGED <<linked, dotConfig, dotOld>>

FilesNext == EditConfig \/ SaveOld \/ Copied \/ Open \/ Close \/ Killed

FilesSpec == FilesInit /\ [][FilesNext]_fileVars

-----------------------------------------------------------------------------

\* After one crash a complete configuration is left, in .config or in
\* .config.old.  (The next run saves the torn file over the good one, so that
\* a second crash in a row may leave none.)
Recoverable == saving = "idle" /\ crashed # "again"
                  => dotConfig \in Configs \/ dotOld \in Configs
=============================================================================

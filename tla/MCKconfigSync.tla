---------------------------- MODULE MCKconfigSync ----------------------------
(***************************************************************************)
(* KconfigSync and KconfigFiles over a tristate B and an int N.  A process *)
(* runs either operation; the two share no file.                           *)
(***************************************************************************)
EXTENDS KconfigSync, KconfigFiles

MCOrder == <<"B", "N">>

MCInit == Init /\ FilesInit

MCNext == \/ Next /\ saving = "idle" /\ UNCHANGED fileVars
          \/ FilesNext /\ syncing = "idle" /\ UNCHANGED vars

MCSpec == MCInit /\ [][MCNext]_<<vars, fileVars>>
=============================================================================

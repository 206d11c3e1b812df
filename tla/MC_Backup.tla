------------------------------- MODULE MC_Backup -------------------------------
(***************************************************************************)
(* BackupRestore for TLC: one recipient, two versions, two stamps, so that *)
(* a rotation, a deletion with re-creation, a clock stepping back and a    *)
(* prune all happen around one loss and two restores.                      *)
(***************************************************************************)
EXTENDS BackupRestore
CONSTANTS u1
OneUser == {u1}
=============================================================================

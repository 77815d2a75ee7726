---------------------------- MODULE MCLogBackup ----------------------------
(***************************************************************************)
(* Instances of LogBackup.                                                 *)
(***************************************************************************)
EXTENDS LogBackup
=============================================================================

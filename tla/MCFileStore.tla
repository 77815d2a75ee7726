---------------------------- MODULE MCFileStore ----------------------------
(***************************************************************************)
(* Instances of FileStore.                                                 *)
(***************************************************************************)
EXTENDS FileStore
=============================================================================

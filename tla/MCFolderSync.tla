---------------------------- MODULE MCFolderSync ----------------------------
(* Instances of FolderSync for TLC. *)
EXTENDS FolderSync
=============================================================================

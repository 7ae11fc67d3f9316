------------------------------- MODULE MCAliases ------------------------------
(***************************************************************************)
(* Renames by releases that TLC can tell apart.                            *)
(***************************************************************************)
EXTENDS Aliases, MCKeyNames
==============================================================================

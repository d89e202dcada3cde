------------------------------ MODULE MCPttLink ------------------------------
(***************************************************************************)
(* Small instances of PttLink; the configurations give the bounds.         *)
(***************************************************************************)
EXTENDS PttLink
==============================================================================

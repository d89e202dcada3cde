------------------------------ MODULE MCGateway ------------------------------
(***************************************************************************)
(* Small instances of Gateway: one warning and one advisory rule.          *)
(***************************************************************************)
EXTENDS Gateway

CONSTANTS warning, advisory, tool
==============================================================================

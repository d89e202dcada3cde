-------------------------- MODULE MCTelemetryStream --------------------------
(***************************************************************************)
(* Two aircraft; the address of a switch of the one is a switch of the     *)
(* other, too.                                                             *)
(***************************************************************************)
EXTENDS TelemetryStream, TLC

CONSTANTS hornet, viper

MCDefinitions == (hornet :> {1, 2}) @@ (viper :> {1})
==============================================================================

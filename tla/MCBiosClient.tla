----------------------------- MODULE MCBiosClient -----------------------------
(***************************************************************************)
(* Two aircraft that share the address of one control.                     *)
(***************************************************************************)
EXTENDS BiosClient, TLC

CONSTANTS hornet, viper

MCDefinitions == (hornet :> {1, 2}) @@ (viper :> {1})
==============================================================================

---------------------------- MODULE MCSupervisor ----------------------------
(***************************************************************************)
(* One pool thread beside the UI thread; a monitor for every call that may *)
(* get its backend.                                                        *)
(***************************************************************************)
EXTENDS Supervisor
==============================================================================

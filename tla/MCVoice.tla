------------------------------- MODULE MCVoice -------------------------------
(***************************************************************************)
(* One reply and two announcements: two calls for one to find what the     *)
(* other left, a third to wait for the lock meanwhile.                     *)
(***************************************************************************)
EXTENDS Voice
==============================================================================

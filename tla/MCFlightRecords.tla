--------------------------- MODULE MCFlightRecords ---------------------------
(***************************************************************************)
(* Small instances of FlightRecords: a deque of two and a tool call beside *)
(* the main loop.                                                          *)
(***************************************************************************)
EXTENDS FlightRecords

CONSTANT tool
==============================================================================

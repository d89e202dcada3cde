------------------------------- MODULE MCCoach -------------------------------
(***************************************************************************)
(* One echelon, the approach and the CASE I pattern, with two pictures.  *)
(***************************************************************************)
EXTENDS Coach

MCPictures ==
    {[formation |-> "good", zone |-> "GOOD", approach |-> "low", advance |-> FALSE],
     [formation |-> "closure", zone |-> "OUTSIDE", approach |-> "diverging", advance |-> TRUE]}

=============================================================================

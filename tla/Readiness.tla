------------------------------ MODULE Readiness ------------------------------
(***************************************************************************)
(* Readiness reports: an item is COMPLETE, INCOMPLETE or, when its value   *)
(* is not usable, UNCONFIRMED; a report is drawn from all its items.       *)
(* Symbolic values that are not usable are "none".                         *)
(***************************************************************************)

Statuses == {"COMPLETE", "INCOMPLETE", "UNCONFIRMED"}

Report(statuses) ==
    CASE "INCOMPLETE" \in statuses  -> "BLOCKED"
      [] "UNCONFIRMED" \in statuses /\ "INCOMPLETE" \notin statuses -> "UNKNOWN"
      [] OTHER                      -> "READY"

\* _expected: a value and the one that is wanted.
Expected(value, wanted) ==
    IF value = "none" THEN "UNCONFIRMED"
    ELSE IF value = wanted THEN "COMPLETE" ELSE "INCOMPLETE"

==============================================================================

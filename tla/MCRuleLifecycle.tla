--------------------------- MODULE MCRuleLifecycle ---------------------------
(***************************************************************************)
(* Two rules of RuleLifecycle with its history.  caution applies to every  *)
(* aircraft, activates at once, clears after one time unit and has no      *)
(* cooldown; wings is the hornet's, debounced on activation only, with a   *)
(* cooldown, and is marked for minimal speech.                             *)
(***************************************************************************)
EXTENDS RuleHistory

CONSTANTS caution, wings, hornet, other

MCAircraftNames == [r \in Rules |->
                        IF r = caution THEN Aircraft ELSE {hornet}]
MCDebounceOn    == [r \in Rules |-> IF r = caution THEN 0 ELSE 1]
MCDebounceOff   == [r \in Rules |-> IF r = caution THEN 1 ELSE 0]
MCCooldown      == [r \in Rules |-> IF r = caution THEN 0 ELSE 2]
MCMinimumMode   == [r \in Rules |-> IF r = caution THEN "NORMAL" ELSE "MINIMAL"]
MCProactive     == [r \in Rules |-> TRUE]
==============================================================================

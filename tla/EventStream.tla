----------------------------- MODULE EventStream -----------------------------
(***************************************************************************)
(* What the backend's EventManager promises to whoever speaks its events:  *)
(* the stream of published semantic events of one realtime connection.     *)
(*                                                                         *)
(* An event is an activation of one deterministic rule.  It is raised once *)
(* and closed at most once, a rule has at most one open event, and the     *)
(* close of an event is published exactly when its raise was.  Nothing is  *)
(* said here of telemetry, debounce, cooldown or speech policy: they only  *)
(* decide when a rule raises and which raises are published.               *)
(***************************************************************************)
EXTENDS Naturals

CONSTANT Rules          \* identifiers of the deterministic rules

VARIABLES
    raised,             \* how many events each rule has raised
    open,               \* events raised and not closed yet
    announced,          \* events whose raise was published
    withdrawn           \* events whose close was published

vars == <<raised, open, announced, withdrawn>>

\* An event id: the rule and the ordinal of its activation.
EventIds == Rules \X Nat

TypeOK ==
    /\ raised \in [Rules -> Nat]
    /\ open \subseteq EventIds
    /\ announced \subseteq EventIds
    /\ withdrawn \subseteq EventIds

Init ==
    /\ raised = [r \in Rules |-> 0]
    /\ open = {}
    /\ announced = {}
    /\ withdrawn = {}

NewEvent(r) == <<r, raised[r] + 1>>

(***************************************************************************)
(* One batch: the events `closing` end, the rules `raising` each raise a   *)
(* new event, and the raises of the rules `publish` are published.         *)
(***************************************************************************)
Deliver(closing, raising, publish) ==
    /\ closing \subseteq open
    /\ publish \subseteq raising
    /\ \A e \in open \ closing : e[1] \notin raising
    /\ raised' = [r \in Rules |-> raised[r] + (IF r \in raising THEN 1 ELSE 0)]
    /\ open' = (open \ closing) \cup {NewEvent(r) : r \in raising}
    /\ announced' = announced \cup {NewEvent(r) : r \in publish}
    /\ withdrawn' = withdrawn \cup (closing \cap announced)

\* The connection breaks down: open events end without a word.
Abandon ==
    /\ open' = {}
    /\ UNCHANGED <<raised, announced, withdrawn>>

Next ==
    \/ \E closing \in SUBSET open, raising \in SUBSET Rules :
         \E publish \in SUBSET raising : Deliver(closing, raising, publish)
    \/ Abandon

Spec == Init /\ [][Next]_vars

------------------------------------------------------------------------------

\* No close is published for an event that was never announced, and an event
\* that is still open has not been withdrawn: a consumer that forgets an event
\* on its close never forgets one that goes on.
WithdrawnOnceAnnounced ==
    /\ withdrawn \subseteq announced
    /\ withdrawn \cap open = {}

\* A rule never has two open events, and the open one is its latest.
OneOpenEventPerRule ==
    \A e \in open : e[2] = raised[e[1]]
==============================================================================

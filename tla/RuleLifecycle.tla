---------------------------- MODULE RuleLifecycle ----------------------------
(***************************************************************************)
(* The deterministic semantics of one realtime connection of the backend:  *)
(* AircraftStateStore.update, which on every telemetry batch or aircraft   *)
(* tool call drives, in one synchronous pass,                              *)
(*                                                                         *)
(*   - RuleEngine          debounce, activation, resolution, cooldown;     *)
(*   - EventManager        event ids and which events are published;       *)
(*   - SpeechPolicy        the chatter level deciding what is spoken;      *)
(*   - FlightStatsManager  coverage and activation counts of a flight.     *)
(*                                                                         *)
(* Telemetry is abstracted to what decides a transition: for each rule,    *)
(* whether its inputs are usable and whether its condition is violated.    *)
(* The condition may use hysteresis and history, so it is unconstrained.   *)
(*                                                                         *)
(* A definition named Mutant... is the definition after it with a          *)
(* plausible bug; nothing uses it.                                         *)
(***************************************************************************)
EXTENDS Integers, FiniteSets

CONSTANTS
    Rules,              \* rule identifiers
    Aircraft,           \* aircraft the client may report
    NoAircraft,         \* AircraftState(aircraft=None, connected=False)
    None,               \* Python's None
    AircraftNames,      \* rule.aircraft_names
    DebounceOn,         \* rule.debounce_on_seconds
    DebounceOff,        \* rule.debounce_off_seconds
    Cooldown,           \* rule.cooldown_seconds
    MinimumMode,        \* rule.minimum_mode
    Proactive,          \* whether the rule's data allows speech
    MaxRuleActivations, \* MAX_RULE_ACTIVATIONS, 100 in the code
    MaxTime,            \* bound on the clock
    MaxRaised           \* bound on the events one rule raises

Modes == {"MINIMAL", "NORMAL", "COACH"}

ASSUME ConstantsAssumption ==
    /\ NoAircraft \notin Aircraft
    /\ None \notin Nat
    /\ AircraftNames \in [Rules -> SUBSET Aircraft]
    /\ DebounceOn \in [Rules -> Nat]
    /\ DebounceOff \in [Rules -> Nat]
    /\ Cooldown \in [Rules -> Nat]
    /\ MinimumMode \in [Rules -> Modes]
    /\ Proactive \in [Rules -> BOOLEAN]
    /\ MaxRuleActivations \in Nat
    /\ MaxTime \in Nat
    /\ MaxRaised \in Nat

VARIABLES
    now,                 \* time.monotonic()
    current,             \* AircraftStateStore.current: the connected aircraft
    runtime,             \* RuleEngine._runtime
    raised,              \* event ids each rule has drawn so far
    active_event_ids,    \* EventManager._active_event_ids
    published_event_ids, \* EventManager._published_event_ids
    speech_mode,         \* EventManager.speech_policy.mode
    flight_aircraft,     \* FlightStatsManager._aircraft
    covered,             \* FlightStatsManager._covered
    activations,         \* FlightStatsManager._activations
    archived,            \* activations reported by the finished summaries
    announced,           \* published RAISED events handed to the gateway
    withdrawn,           \* published RESOLVED/DISABLED events handed to it
    connection           \* "open", "closed", or "failed" by an exception

engineVars == <<current, runtime>>
eventVars  == <<raised, active_event_ids, published_event_ids>>
flightVars == <<flight_aircraft, covered, activations, archived>>
outputVars == <<announced, withdrawn>>
vars == <<now, engineVars, eventVars, speech_mode, flightVars, outputVars,
          connection>>

\* uuid4() never repeats: an event id is the rule and the ordinal of the draw.
EventIds == Rules \X Nat

\* issue is the aircraft of the active issue, NoAircraft when there is none.
RuleRuntime ==
    [issue: Aircraft \cup {NoAircraft},
     candidate_active: {"none", "on", "off"},
     candidate_since: Nat \cup {None},
     last_notification_at: Nat \cup {None}]

FreshRuntime ==
    [issue |-> NoAircraft, candidate_active |-> "none",
     candidate_since |-> None, last_notification_at |-> None]

\* Every variable has its type: no runtime, event or count is malformed.
TypeOK ==
    /\ now \in Nat
    /\ current \in Aircraft \cup {NoAircraft}
    /\ runtime \in [Rules -> RuleRuntime]
    /\ raised \in [Rules -> Nat]
    /\ active_event_ids \in [Rules -> Nat \cup {None}]
    /\ published_event_ids \subseteq EventIds
    /\ speech_mode \in Modes
    /\ flight_aircraft \in Aircraft \cup {NoAircraft}
    /\ covered \subseteq Rules
    /\ activations \in [Rules -> Nat]
    /\ archived \in [Rules -> Nat]
    /\ announced \subseteq EventIds
    /\ withdrawn \subseteq EventIds
    /\ connection \in {"open", "closed", "failed"}

Init ==
    /\ now = 0
    /\ current = NoAircraft
    /\ runtime = [r \in Rules |-> FreshRuntime]
    /\ raised = [r \in Rules |-> 0]
    /\ active_event_ids = [r \in Rules |-> None]
    /\ published_event_ids = {}
    /\ speech_mode = "NORMAL"
    /\ flight_aircraft = NoAircraft
    /\ covered = {}
    /\ activations = [r \in Rules |-> 0]
    /\ archived = [r \in Rules |-> 0]
    /\ announced = {}
    /\ withdrawn = {}
    /\ connection = "open"

------------------------------------------------------------------------------
(* RuleEngine: one rule's runtime under one evaluation.                    *)

Active(rt) == rt.issue # NoAircraft

MutantSettledKeeps(rt) == rt
Settled(rt) ==
    [rt EXCEPT !.candidate_active = "none", !.candidate_since = None]

MutantDeactivateForgets(rt) == FreshRuntime
Deactivate(rt) == [Settled(rt) EXCEPT !.issue = NoAircraft]

\* Whether an activation now is outside the rule's cooldown.
Eligible(r, rt) ==
    \/ rt.last_notification_at = None
    \/ now - rt.last_notification_at >= Cooldown[r]

MutantActivateBackdates(r, rt, a) ==
    [rt EXCEPT !.issue = a, !.last_notification_at = now - Cooldown[r]]
Activate(r, rt, a) ==
    [Settled(rt) EXCEPT
        !.issue = a,
        !.last_notification_at = IF Eligible(r, rt) THEN now ELSE @]

\* The side the condition pulls to, and how long it must have pulled there.
Wanted(violated) == IF violated THEN "on" ELSE "off"
Delay(r, violated) == IF violated THEN DebounceOn[r] ELSE DebounceOff[r]
Since(rt, violated) ==
    IF rt.candidate_active = Wanted(violated) THEN rt.candidate_since ELSE now

MutantWaitingLonger(r, rt, violated) ==
    now - Since(rt, violated) <= Delay(r, violated)
Waiting(r, rt, violated) == now - Since(rt, violated) < Delay(r, violated)

Advance(r, rt, a, violated) ==
    IF violated <=> Active(rt) THEN Settled(rt)
    ELSE IF Waiting(r, rt, violated)
         THEN [rt EXCEPT !.candidate_active = Wanted(violated),
                         !.candidate_since = Since(rt, violated)]
    ELSE IF violated THEN Activate(r, rt, a)
    ELSE Deactivate(rt)

Evaluate(r, rt, a, applicable, violated) ==
    IF applicable THEN Advance(r, rt, a, violated) ELSE Deactivate(rt)

------------------------------------------------------------------------------
(* AircraftStateStore.update with aircraft a (NoAircraft: not connected).  *)

\* Leaving the aircraft, or losing it, resets the whole cockpit context.
Cleared(a) == a = NoAircraft \/ a # current

MutantPriorUnreset(a) == runtime
Prior(a) == IF Cleared(a) THEN [r \in Rules |-> FreshRuntime] ELSE runtime

MutantEvaluableAnywhere(a, usable) == usable
Evaluable(a, usable) == {r \in usable : a \in AircraftNames[r]}

Evaluated(a, usable, violated) ==
    [r \in Rules |-> Evaluate(r, Prior(a)[r], a,
                              r \in Evaluable(a, usable), r \in violated)]

\* Rules whose issue ends: all of them on a reset, else those the pass ended.
MutantClosedByPassOnly(a, usable, violated) ==
    {r \in Rules : /\ Active(runtime[r])
                   /\ ~Active(Evaluated(a, usable, violated)[r])}
Closed(a, usable, violated) ==
    {r \in Rules : /\ Active(runtime[r])
                   /\ \/ Cleared(a)
                      \/ ~Active(Evaluated(a, usable, violated)[r])}

MutantActivatedEachPass(a, usable, violated) ==
    {r \in Rules : Active(Evaluated(a, usable, violated)[r])}
Activated(a, usable, violated) ==
    {r \in Rules : /\ ~Active(Prior(a)[r])
                   /\ Active(Evaluated(a, usable, violated)[r])}

\* SpeechPolicy.allows for an activation of rule r.
ModeRank(mode) ==
    CASE mode = "MINIMAL" -> 0 [] mode = "NORMAL" -> 1 [] mode = "COACH" -> 2

Allows(r, eligible) ==
    /\ eligible
    /\ Proactive[r]
    /\ ModeRank(speech_mode) >= ModeRank(MinimumMode[r])

Spoken(a, activated) ==
    {r \in activated : Allows(r, Eligible(r, Prior(a)[r]))}

MutantNewEventRedrawn(r) == <<r, raised[r] + 2>>
NewEvent(r) == <<r, raised[r] + 1>>
OpenEvent(r) == <<r, active_event_ids[r]>>

\* EventManager.handle_transition for every transition of the pass, and its
\* reset when the cockpit context is cleared.
HandleTransitions(a, closed, activated) ==
    LET closing == {OpenEvent(r) : r \in closed}
        opening == {NewEvent(r) : r \in Spoken(a, activated)}
    IN  /\ raised' = [r \in Rules |->
                        raised[r] + (IF r \in activated THEN 1 ELSE 0)]
        /\ active_event_ids' = [r \in Rules |->
                IF r \in activated THEN raised[r] + 1
                ELSE IF r \in closed \/ Cleared(a) THEN None
                ELSE active_event_ids[r]]
        /\ published_event_ids' =
                (IF Cleared(a) THEN {} ELSE published_event_ids \ closing)
                    \cup opening
        /\ announced' = announced \cup opening
        /\ withdrawn' = withdrawn \cup (published_event_ids \cap closing)

\* FlightStatsManager.finish builds a FlightSummary, whose validation rejects
\* a count above MaxRuleActivations.
Finishing(a) == a # flight_aircraft /\ flight_aircraft # NoAircraft
Summarizable == \A r \in covered : activations[r] <= MaxRuleActivations

\* What finish leaves of a rule's count.
MutantCountKept(a, r) == activations[r]
CountKept(a, r) == IF Finishing(a) THEN 0 ELSE activations[r]

\* FlightStatsManager.observe before the rules run, and _on_transition after.
Observe(a, evaluable, activated) ==
    /\ flight_aircraft' = a
    /\ covered' = (IF Finishing(a) THEN {} ELSE covered) \cup evaluable
    /\ activations' = [r \in Rules |->
            CountKept(a, r) + (IF r \in activated \cap covered' THEN 1 ELSE 0)]
    /\ archived' = [r \in Rules |->
            archived[r]
                + (IF Finishing(a) /\ r \in covered THEN activations[r] ELSE 0)]

Update(a, usable, violated) ==
    LET closed    == Closed(a, usable, violated)
        activated == Activated(a, usable, violated)
    IN  /\ connection = "open"
        /\ Finishing(a) => Summarizable
        /\ \A r \in activated : raised[r] < MaxRaised
        /\ current' = a
        /\ runtime' = Evaluated(a, usable, violated)
        /\ HandleTransitions(a, closed, activated)
        /\ Observe(a, Evaluable(a, usable), activated)
        /\ UNCHANGED <<now, speech_mode>>

\* A telemetry batch or an aircraft tool call while an aircraft is connected.
UpdateConnected(a, usable, violated) ==
    /\ a \in Aircraft
    /\ Update(a, usable, violated)
    /\ UNCHANGED connection

\* The reset batch that opens a new telemetry epoch.
UpdateDisconnected ==
    /\ Update(NoAircraft, {}, {})
    /\ UNCHANGED connection

\* The connection handler's cleanup.
EndConnection ==
    /\ Update(NoAircraft, {}, {})
    /\ connection' = "closed"

(***************************************************************************)
(* The summary is rejected: update raises out of observe.  A disconnected  *)
(* update raises before anything has changed; a connected one has already  *)
(* reset the cockpit context, and its events are lost with the exception.  *)
(* The exception leaves the connection handler, whose cleanup calls update *)
(* again and raises again.                                                 *)
(***************************************************************************)
UpdateRaises(a) ==
    /\ connection = "open"
    /\ Finishing(a)
    /\ ~Summarizable
    /\ connection' = "failed"
    /\ IF a = NoAircraft
       THEN UNCHANGED <<engineVars, active_event_ids, published_event_ids>>
       ELSE /\ current' = a
            /\ runtime' = [r \in Rules |-> FreshRuntime]
            /\ active_event_ids' = [r \in Rules |-> None]
            /\ published_event_ids' = {}
    /\ UNCHANGED <<now, raised, speech_mode, flightVars, outputVars>>

\* The pilot's chatter level, from the account or the set_chatter_level tool.
ApplySpeechMode(mode) ==
    /\ connection = "open"
    /\ speech_mode' = mode
    /\ UNCHANGED <<now, engineVars, eventVars, flightVars, outputVars,
                   connection>>

Tick ==
    /\ connection = "open"
    /\ now < MaxTime
    /\ now' = now + 1
    /\ UNCHANGED <<engineVars, eventVars, speech_mode, flightVars, outputVars,
                   connection>>

Next ==
    \/ \E a \in Aircraft, usable \in SUBSET Rules :
         \E violated \in SUBSET usable : UpdateConnected(a, usable, violated)
    \/ UpdateDisconnected
    \/ EndConnection
    \/ \E a \in Aircraft \cup {NoAircraft} : UpdateRaises(a)
    \/ \E mode \in Modes : ApplySpeechMode(mode)
    \/ Tick

Spec == Init /\ [][Next]_vars

------------------------------------------------------------------------------
(* Properties.                                                             *)

\* Engine and event manager agree: a rule has an event id exactly while it has
\* an active issue, that id is the last it drew, and only such ids are
\* published.  So no transition ever closes an event under a fresh id
\* (EventManager.handle_transition's fallback), whatever resets come between.
IssuesHaveEvents ==
    /\ \A r \in Rules :
         active_event_ids[r] = IF Active(runtime[r]) THEN raised[r] ELSE None
    /\ \A e \in published_event_ids : e = OpenEvent(e[1])

\* No announcement is left hanging: while the connection has not failed, what
\* was announced and not withdrawn is what is still published, whatever the
\* chatter level became in between.
AnnouncementsWithdrawn ==
    /\ withdrawn \subseteq announced
    /\ connection # "failed" => announced \ withdrawn = published_event_ids

\* An active issue belongs to the connected aircraft and its activation is
\* counted in the flight under way: resets, coverage and evaluation happen in
\* the order that makes them so.
IssuesCounted ==
    \A r \in Rules :
        Active(runtime[r]) =>
            /\ runtime[r].issue = current
            /\ current \in AircraftNames[r]
            /\ flight_aircraft = current
            /\ r \in covered
            /\ activations[r] > 0

\* Every activation is counted once, in the flight under way or in one of the
\* finished summaries: slot changes and disconnects lose none.
ActivationsConserved ==
    \A r \in Rules : raised[r] = archived[r] + activations[r]

\* A new event id was never seen before, and a withdrawn event stays closed.
EventIdsFresh ==
    /\ \A e \in announced : e[2] <= raised[e[1]]
    /\ \A e \in withdrawn : e # OpenEvent(e[1])

(***************************************************************************)
(* The published events are an EventStream: the pass of one update, with   *)
(* its reset, is one batch of that stream.                                 *)
(***************************************************************************)
OpenEvents == {OpenEvent(r) : r \in {q \in Rules : active_event_ids[q] # None}}

Stream == INSTANCE EventStream WITH open <- OpenEvents

ImplementsEventStream == Stream!Spec

\* A rule with a count is covered, so a summary leaves out no count.
CountsCovered == \A r \in Rules : activations[r] > 0 => r \in covered

\* The inductive invariant behind all of the above.
IInv ==
    /\ TypeOK
    /\ IssuesHaveEvents
    /\ AnnouncementsWithdrawn
    /\ EventIdsFresh
    /\ IssuesCounted
    /\ CountsCovered
    /\ ActivationsConserved

\* docs/architecture.md, habits: at aircraft change or session end the backend
\* creates a semantic summary, so no flight is left open when the connection is over.
SummaryAtSessionEnd ==
    connection # "open" => flight_aircraft = NoAircraft
==============================================================================

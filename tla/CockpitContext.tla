---------------------------- MODULE CockpitContext ----------------------------
(***************************************************************************)
(* What AircraftStateStore.update remembers of one cockpit besides its     *)
(* issues: the weight-on-wheels transitions of StateHistory, the flight    *)
(* phase of FlightPhaseDetector and the progress of the guided checklist;  *)
(* and the reports the tools derive from it: before-taxi readiness and the *)
(* ground phase.  Takeoff readiness and departure cleanup, which need no   *)
(* memory, are in Hornet.                                                  *)
(*                                                                         *)
(* A cockpit is the picture the adapter normalizes from the raw values:    *)
(* numbers are -1 and readings "none" or "unknown" when they are not       *)
(* usable.  A checklist item reads "good" or "bad".  The tools see the     *)
(* same raw values later, when some have become stale (`view`).            *)
(*                                                                         *)
(* There is one checklist, as shipped, whose items are of type STATE,      *)
(* DERIVED or MANUAL; none is conditional.  The application passes the     *)
(* aircraft None exactly when it reports a disconnection.                  *)
(*                                                                         *)
(* A definition named Mutant... is the definition after it with a          *)
(* plausible bug; nothing uses it.                                         *)
(***************************************************************************)
EXTENDS CockpitClock, Sequences, SequencesExt, Readiness

CONSTANTS
    Aircraft, None, Hornet,
    Cockpits,       \* pictures that may be normalized
    Stages, DefaultStage, DependsOn, ItemsOf, Kind, Latching,
    Dwell,          \* phase_dwell_seconds by phase
    Hold            \* 20 s: takeoff hold and touchdown memory

Phases == {"UNKNOWN", "COLD_DARK", "STARTUP", "TAXI", "TAKEOFF", "CLIMB", "CRUISE",
           "REFUELING", "APPROACH", "LANDING", "POST_LANDING"}
Items    == UNION {ToSet(ItemsOf[s]) : s \in Stages}
Readings == {"good", "bad", "unknown"}
Picture  == [wow : {"air", "wheels", "none"}, engines : {"off", "starting", "running", "none"},
             ias : Int, ground : Int, gear : {"up", "transit", "down", "none"},
             climb : {"sinking", "level", "climbing", "none"}, fuelling : BOOLEAN,
             bar : {"up", "down", "none"}, items : [Items -> Readings]]

ASSUME ContextAssumption ==
    /\ Hornet \in Aircraft /\ None \notin Aircraft
    /\ Cockpits \subseteq Picture
    /\ DefaultStage \in Stages
    /\ DependsOn \in [Stages -> Seq(Stages)]
    /\ \A s \in Stages : ItemsOf[s] \in Seq(Items)
    /\ Kind \in [Items -> {"state", "derived", "manual"}]
    /\ Latching \subseteq Items
    /\ None \notin Stages \cup Items
    /\ Dwell \in [Phases -> Nat] /\ Dwell["UNKNOWN"] = 0
    /\ Hold \in Nat /\ MaxTime \in Nat

VARIABLES
    aircraft,       \* current.aircraft, None when not connected
    view,           \* what snapshot() shows now
    wheels,         \* StateHistory: last usable weight on wheels, and when it
                    \* last changed to air and back
    detector,       \* FlightPhaseDetector
    progress,       \* ChecklistEngine: stage of the session, confirmed, latched
    steady,         \* history: the phase inferred last, since when without
                    \* interruption, and when last
    seen, said      \* history: latching items of this cockpit that telemetry verified
                    \* and that the pilot confirmed

historyVars == <<steady, seen, said>>
vars == <<now, aircraft, view, wheels, detector, progress, historyVars>>

Dark  == [wow |-> "none", engines |-> "none", ias |-> -1, ground |-> -1, gear |-> "none",
          climb |-> "none", fuelling |-> FALSE, bar |-> "none",
          items |-> [i \in Items |-> "unknown"]]

NoWheels      == [last |-> "none", liftoff |-> Never, touchdown |-> Never]
FreshDetector == [current |-> "UNKNOWN", candidate |-> "UNKNOWN", since |-> Never,
                  phaseSince |-> Never]
FreshProgress == [stage |-> None, confirmed |-> {}, latched |-> {}]

\* Every variable has its type.
TypeOK ==
    /\ now \in Times
    /\ aircraft \in Aircraft \cup {None}
    /\ view \in Picture
    /\ wheels \in [last : {"air", "wheels", "none"}, liftoff : Times \cup {Never},
                   touchdown : Times \cup {Never}]
    /\ detector \in [current : Phases, candidate : Phases, since : Times \cup {Never},
                     phaseSince : Times \cup {Never}]
    /\ progress \in [stage : Stages \cup {None}, confirmed : SUBSET Items,
                     latched : SUBSET Items]
    /\ steady \in [phase : Phases, since : Times, at : Times]
    /\ seen \subseteq Latching /\ said \subseteq Items

Init ==
    /\ now = 0 /\ aircraft = None /\ view = Dark
    /\ wheels = NoWheels /\ detector = FreshDetector /\ progress = FreshProgress
    /\ steady = [phase |-> "UNKNOWN", since |-> 0, at |-> 0]
    /\ seen = {} /\ said = {}

------------------------------------------------------------------------------
(* Flight phase.                                                           *)

\* record: a change from or to an unusable value is neither liftoff nor
\* touchdown.
Recorded(w, c) ==
    [last      |-> c.wow,
     liftoff   |-> IF w.last = "wheels" /\ c.wow = "air" THEN now ELSE w.liftoff,
     touchdown |-> IF w.last = "air" /\ c.wow = "wheels" THEN now ELSE w.touchdown]

ChangedWithin(t) == t # Never /\ t >= now - Hold

OnWheels(d, w, c) ==
    CASE c.ias >= 80 /\ c.engines = "running"                    -> "TAKEOFF"
      [] ~(c.ias >= 80 /\ c.engines = "running") /\
         (\/ ChangedWithin(w.touchdown)
          \/ d.current = "POST_LANDING" /\ c.engines # "off" /\ c.ground >= 0) -> "POST_LANDING"
      [] OTHER ->
            IF c.ground >= 3 /\ c.engines = "running" THEN "TAXI"
            ELSE IF c.engines = "off" THEN "COLD_DARK"
            ELSE IF c.engines # "none" /\ c.ground \in 0..2 THEN "STARTUP"
            ELSE "UNKNOWN"

TakingOff(d, w) ==
    \/ ChangedWithin(w.liftoff)
    \/ d.current = "TAKEOFF" /\ d.phaseSince # Never /\ now - d.phaseSince < Hold

InTheAir(d, w, c) ==
    IF c.ias < 90 THEN "UNKNOWN"
    ELSE IF c.fuelling THEN "REFUELING"
    ELSE IF TakingOff(d, w) THEN "TAKEOFF"
    ELSE IF c.gear = "down" /\ c.ias =< 160 /\ c.climb = "sinking" THEN "LANDING"
    ELSE IF c.gear \in {"down", "transit"} /\ c.ias =< 250 THEN "APPROACH"
    ELSE IF c.climb = "climbing" THEN "CLIMB"
    ELSE IF c.gear = "up" THEN "CRUISE"
    ELSE "UNKNOWN"

Infer(d, w, c) ==
    IF c.wow = "wheels" THEN OnWheels(d, w, c)
    ELSE IF c.wow = "air" THEN InTheAir(d, w, c) ELSE "UNKNOWN"

\* A candidate keeps its age while the current phase is inferred in between.
MutantDetected(d, p) ==
    LET since == IF p # d.candidate \/ d.since = Never THEN now ELSE d.since
    IN  IF p = d.current THEN d
        ELSE IF now - since >= Dwell[p]
        THEN [current |-> p, candidate |-> p, since |-> Never, phaseSince |-> now]
        ELSE [d EXCEPT !.candidate = p, !.since = since]

\* The time is not noted when a candidate comes back.
MutantDetectedLater(d, p) ==
    LET since == IF p # d.candidate /\ d.since = Never THEN now ELSE d.since
    IN  IF p = d.current THEN [d EXCEPT !.since = Never]
        ELSE IF since # Never /\ now - since >= Dwell[p]
        THEN [current |-> p, candidate |-> p, since |-> Never, phaseSince |-> now]
        ELSE [d EXCEPT !.candidate = p, !.since = since]

Detected(d, p) ==
    LET since == IF p # d.candidate THEN now ELSE d.since
    IN  IF p = d.current THEN [d EXCEPT !.candidate = p, !.since = Never]
        ELSE IF since # Never /\ now - since >= Dwell[p]
        THEN [current |-> p, candidate |-> p, since |-> Never, phaseSince |-> now]
        ELSE [d EXCEPT !.candidate = p, !.since = since]

------------------------------------------------------------------------------
(* Checklist.                                                              *)

\* Dependencies first, each stage once: the depth-first order of visit().
Chain[s \in Stages] ==
    Append(FoldLeft(LAMBDA done, d : done \o SelectSeq(Chain[d], LAMBDA x : x \notin ToSet(done)),
                    <<>>, DependsOn[s]), s)

ChainItems(s) == FlattenSeq([k \in DOMAIN Chain[s] |-> ItemsOf[Chain[s][k]]])

\* _evaluate_item.  A derived condition over unusable values is false.
Verdict(c, i) ==
    CASE Kind[i] = "manual"  -> "UNCONFIRMED"
      [] Kind[i] = "derived" -> IF c.items[i] = "good" THEN "COMPLETE" ELSE "INCOMPLETE"
      [] OTHER               -> CASE c.items[i] = "good" -> "COMPLETE"
                                  [] c.items[i] = "bad"  -> "INCOMPLETE"
                                  [] OTHER               -> "UNCONFIRMED"

\* What the pilot said last counts only while telemetry does not disagree.
MutantStatus(i) ==
    IF i \in progress.latched \/ (i \in progress.confirmed /\ view.items[i] # "bad")
    THEN "COMPLETE" ELSE Verdict(view, i)

Status(i) ==
    IF i \in progress.confirmed \cup progress.latched THEN "COMPLETE" ELSE Verdict(view, i)

\* next_item: what is incomplete before what is unconfirmed.
Unresolved(s) ==
    SelectSeq(ChainItems(s), LAMBDA i : Status(i) = "INCOMPLETE")
        \o SelectSeq(ChainItems(s), LAMBDA i : Status(i) = "UNCONFIRMED")
NextItem == IF Unresolved(progress.stage) = <<>> THEN None ELSE Head(Unresolved(progress.stage))

\* An item is latched when nothing is known to be wrong with it.
MutantObserved(p, a, c) ==
    IF a = Hornet
    THEN [p EXCEPT !.latched = @ \cup {i \in Latching : Verdict(c, i) # "INCOMPLETE"}]
    ELSE p

Observed(p, a, c) ==
    IF a = Hornet
    THEN [p EXCEPT !.latched = @ \cup {i \in Latching : Verdict(c, i) = "COMPLETE"}]
    ELSE p

------------------------------------------------------------------------------
(* Reports.                                                                *)

BeforeTaxi ==
    IF aircraft = None \/ view.wow = "none" THEN "UNKNOWN"
    ELSE Report({Status(i) : i \in ToSet(ChainItems(DefaultStage))})

\* carrier_launch_sequence, derived for the Hornet alone.
CarrierLaunch == aircraft = Hornet /\ view.wow = "wheels" /\ view.bar = "down"

Usable(c) ==
    \/ c.wow # "none" \/ c.engines # "none" \/ c.ias >= 0 \/ c.ground >= 0
    \/ c.gear # "none" \/ c.climb # "none" \/ c.fuelling \/ c.bar # "none"
    \/ \E i \in Items : c.items[i] # "unknown"

\* The phase that snapshot() shows.
FlightPhase == IF Usable(view) THEN detector.current ELSE "UNKNOWN"

GroundPhase ==
    IF aircraft = None \/ view.wow = "none" THEN "UNKNOWN"
    ELSE IF view.wow = "air" THEN "IN_FLIGHT"
    ELSE IF aircraft = Hornet /\ view.ias >= 80 THEN "TAKEOFF_ROLL"
    ELSE IF CarrierLaunch THEN "CARRIER_LAUNCH"
    ELSE IF FlightPhase = "POST_LANDING" THEN "POST_LANDING"
    ELSE IF view.engines = "off" THEN "COLD_START"
    ELSE IF view.engines = "starting" THEN "ENGINE_START"
    ELSE IF FlightPhase = "TAXI" \/ (view.engines = "running" /\ view.ground >= 3) THEN "TAXI"
    ELSE IF view.engines = "none" THEN "UNKNOWN"
    ELSE IF BeforeTaxi = "READY" THEN "READY_FOR_TAXI" ELSE "PRE_TAXI"

------------------------------------------------------------------------------
(* Steps.                                                                  *)

\* A new cockpit is another aircraft, or the first after a disconnection.
Fresh(a) == a # aircraft

\* Progress survives a change of aircraft.
MutantStartingProgress(a) == progress

StartingProgress(a) == IF Fresh(a) THEN FreshProgress ELSE progress

Update(a, c) ==
    LET d == IF Fresh(a) THEN FreshDetector ELSE detector
        w == Recorded(IF Fresh(a) THEN NoWheels ELSE wheels, c)
        p == Infer(d, w, c)
    IN  /\ aircraft' = a /\ view' = c
        /\ wheels' = w
        /\ detector' = Detected(d, p)
        /\ progress' = Observed(StartingProgress(a), a, c)
        /\ steady' = [phase |-> p, at |-> now,
                      since |-> IF Fresh(a) \/ steady.phase # p THEN now ELSE steady.since]
        /\ seen' = (IF Fresh(a) THEN {} ELSE seen) \cup
                      {i \in Latching : a = Hornet /\ Kind[i] # "manual" /\ c.items[i] = "good"}
        /\ said' = IF Fresh(a) THEN {} ELSE said
        /\ UNCHANGED now

\* The reset of a new epoch, or the end of the connection.
Disconnect ==
    /\ aircraft' = None /\ view' = Dark
    /\ wheels' = NoWheels /\ detector' = FreshDetector /\ progress' = FreshProgress
    /\ steady' = [phase |-> "UNKNOWN", since |-> now, at |-> now]
    /\ seen' = {} /\ said' = {}
    /\ UNCHANGED now

\* Some raw values have become stale since the last update.
StaleImage(c) ==
    /\ c.wow \in {view.wow, "none"} /\ c.engines \in {view.engines, "none"}
    /\ c.ias \in {view.ias, -1} /\ c.ground \in {view.ground, -1}
    /\ c.gear \in {view.gear, "none"} /\ c.climb = view.climb /\ c.fuelling = view.fuelling
    /\ c.bar \in {view.bar, "none"}
    /\ \A i \in Items : c.items[i] \in {view.items[i], "unknown"}

Age ==
    /\ aircraft # None
    /\ view' \in {c \in Cockpits : StaleImage(c)}
    /\ UNCHANGED <<now, aircraft, wheels, detector, progress, historyVars>>

\* Connected or not.
StartGuidedChecklist ==
    /\ progress' \in {[progress EXCEPT !.stage = s] : s \in Stages}
    /\ UNCHANGED <<now, aircraft, view, wheels, detector, historyVars>>

\* Stopping resets.
MutantStopGuidedChecklist ==
    /\ progress' = FreshProgress
    /\ UNCHANGED <<now, aircraft, view, wheels, detector, historyVars>>

StopGuidedChecklist ==
    /\ progress' = [progress EXCEPT !.stage = None]
    /\ UNCHANGED <<now, aircraft, view, wheels, detector, historyVars>>

\* The guide may have nothing left to confirm.
MutantConfirmChecklistItem ==
    /\ progress.stage # None
    /\ progress' = [progress EXCEPT !.confirmed = @ \cup {NextItem}]
    /\ said' = said \cup {NextItem}
    /\ UNCHANGED <<now, aircraft, view, wheels, detector, steady, seen>>

ConfirmChecklistItem ==
    /\ progress.stage # None /\ NextItem # None
    /\ progress' = [progress EXCEPT !.confirmed = @ \cup {NextItem}]
    /\ said' = said \cup {NextItem}
    /\ UNCHANGED <<now, aircraft, view, wheels, detector, steady, seen>>

Tick ==
    /\ now < MaxTime
    /\ now' = now + 1
    /\ UNCHANGED <<aircraft, view, wheels, detector, progress, historyVars>>

Next ==
    \/ \E a \in Aircraft, c \in Cockpits : Update(a, c)
    \/ Disconnect \/ Age
    \/ StartGuidedChecklist \/ StopGuidedChecklist \/ ConfirmChecklistItem
    \/ Tick

Spec == Init /\ [][Next]_vars

------------------------------------------------------------------------------
(* Properties.                                                             *)

\* A phase is taken only after every update of its whole dwell time has
\* inferred it: a flicker back to the current phase begins anew.
PhaseHeld ==
    [][aircraft' = aircraft /\ aircraft # None /\ detector'.current # detector.current
       => /\ detector'.current = steady'.phase
          /\ now - steady'.since >= Dwell[steady'.phase]]_vars

\* A phase that has been inferred for its dwell time has been taken: no order of
\* flickers leaves the detector waiting for a time it never noted.
PhaseFollows ==
    detector.current # steady.phase => steady.at - steady.since < Dwell[steady.phase]

\* Progress is of this cockpit: exactly the latching items that telemetry has
\* verified in it and the items the pilot has confirmed in it.
ProgressIsOfThisCockpit ==
    /\ progress.confirmed = said
    /\ progress.latched = seen

\* Progress is lost with the cockpit only, whatever happens to the guide.
ProgressKept ==
    [][aircraft' = aircraft /\ aircraft # None
       => progress.confirmed \subseteq progress'.confirmed /\ progress.latched \subseteq progress'.latched]_vars

\* The guide never asks again for what the pilot has confirmed.
AskedOnce == progress.stage # None => NextItem \notin said

\* An item that is verified by now: telemetry shows it, has shown it where that
\* is enough, or the pilot has said so.
Verified(i) == i \in said \/ i \in seen \/ (Kind[i] # "manual" /\ view.items[i] = "good")

\* The aircraft is ready, in the before-taxi report and in the ground phase drawn
\* from it, only when every item of the whole chain has been verified.
ReadyIsVerified ==
    /\ BeforeTaxi = "READY" => \A i \in ToSet(ChainItems(DefaultStage)) : Verified(i)
    /\ GroundPhase = "READY_FOR_TAXI"
       => /\ view.wow = "wheels" /\ view.engines = "running"
          /\ \A i \in ToSet(ChainItems(DefaultStage)) : Verified(i)

\* Stale and unavailable values remain unknown: only a usable value blocks.
StaleIsUnknown ==
    BeforeTaxi = "BLOCKED" =>
        \E i \in ToSet(ChainItems(DefaultStage)) : Status(i) = "INCOMPLETE" /\ view.items[i] = "bad"

==============================================================================

-------------------------------- MODULE Coach --------------------------------
(***************************************************************************)
(* The spatial coach of one realtime connection: the permissions that      *)
(* coach.telemetry carries, the observation store behind them, the one     *)
(* active exercise of CoachCoordinator and what it says.                   *)
(*                                                                         *)
(* Geometry is abstracted to what the exercises decide with it.  A reading *)
(* of the picture is                                                       *)
(*   formation  the condition _feedback_for names: "closure", "good",      *)
(*              "acceptable" or an axis, and the `zone` it lies in         *)
(*   approach   "low", "diverging" (low, and getting lower), "lineup",     *)
(*              "fine"                                                     *)
(*   advance    whether the CASE I phase's exit condition is met           *)
(* and `posed` says whether position and heading were both present.  The   *)
(* ownship and the references of a message get the time of its receipt, so *)
(* an observation is stale exactly when that is too long ago.              *)
(*                                                                         *)
(* The protocol refuses ownship without ownship_export and references      *)
(* without world_object_export before the coach sees them.  A message      *)
(* older than the last in both its clock and its sequence changes nothing. *)
(* Tools and messages run to their end on one event loop.                  *)
(*                                                                         *)
(* A definition named Mutant... is the definition after it with a          *)
(* plausible bug; nothing uses it.                                         *)
(***************************************************************************)
EXTENDS CockpitClock, Sequences, SequencesExt, FiniteSetsExt

CONSTANTS
    Exercises,          \* those the pilot starts
    Pictures,           \* what a message's picture may show
    Nothing,
    GoodHold, OutsideHold, ApproachHold,        \* feedback holds
    FormationCooldown, ApproachCooldown,        \* speech cooldowns
    StaleAfter,
    KeptFeedback,       \* 64, maxlen of the feedback deque
    MaxStarts           \* bound

Zones      == {"GOOD", "ACCEPTABLE", "OUTSIDE"}
References == {"LEAD_AIRCRAFT", "CARRIER"}
Echelons   == {"LEFT_ECHELON", "RIGHT_ECHELON"}
ExerciseId == Echelons \cup {"CASE1_PATTERN", "CARRIER_APPROACH"}
Reading    == [formation : {"closure", "good", "acceptable", "forward", "lateral", "vertical"},
               zone : Zones, approach : {"low", "diverging", "lineup", "fine"},
               advance : BOOLEAN]
Conditions == {"closure", "good", "acceptable", "forward", "lateral", "vertical",
               "low", "lineup", "fine", "none"}
PatternPhases ==
    <<"UNKNOWN", "INITIAL", "BREAK", "DOWNWIND", "ABEAM", "180", "90", "GROOVE",
      "TRAP_OR_BOLTER">>

ASSUME CoachAssumption ==
    /\ Exercises \subseteq ExerciseId
    /\ Pictures \subseteq Reading
    /\ Nothing \notin ExerciseId \cup Conditions
    /\ {GoodHold, OutsideHold, ApproachHold, FormationCooldown, ApproachCooldown,
        StaleAfter, MaxTime, MaxStarts} \subseteq Nat
    /\ KeptFeedback \in Nat \ {0}

VARIABLES
    caps,           \* DcsCapabilities: ownship and world-object export
    ownship,        \* LiveObservationStore.ownship, None or a picture
    references,     \* LiveObservationStore._references: when each was observed
    active,         \* CoachCoordinator.active
    lastStatus,     \* _last_status
    feedback,       \* _feedback
    lastDebrief,    \* last_debrief
    starts          \* bound: exercises started

coachVars == <<now, caps, ownship, references, active, lastStatus, feedback, lastDebrief, starts>>

RequiredReference(e) == IF e \in Echelons THEN "LEAD_AIRCRAFT" ELSE "CARRIER"

\* All four exercises need both permissions.
Available(c) == c.own /\ c.world

Stale(at) == now - at > StaleAfter

\* What the exercise makes of a picture.
Condition(e, r) ==
    CASE e \in Echelons           -> r.formation
      [] e = "CARRIER_APPROACH"   -> IF r.approach = "diverging" THEN "low" ELSE r.approach
      [] OTHER                    -> "none"
HoldTime(e, c) ==
    CASE e \notin Echelons -> ApproachHold
      [] c = "good"        -> GoodHold
      [] OTHER             -> OutsideHold
Cooldown(e) == IF e \in Echelons THEN FormationCooldown ELSE ApproachCooldown
Silent == {"acceptable", "fine", "none"}

\* FormationExercise, CarrierApproachExercise and Case1Exercise as started.
CreateExercise(e) ==
    [id |-> e, state |-> "ACTIVE", startedAt |-> now, samples |-> <<>>,
     zoneSeconds |-> [z \in Zones |-> 0], condition |-> Nothing, conditionSince |-> now,
     lastSpokenAt |-> -Cooldown(e), lowSpoken |-> FALSE,
     overshoots |-> 0, warning |-> FALSE, phase |-> 1, segments |-> <<>>]

MutantFeedbackFor(x, r) ==
    LET c == Condition(x.id, r) IN
    IF c \in Silent \/ now - x.lastSpokenAt < Cooldown(x.id)
       \/ now - x.conditionSince < HoldTime(x.id, c)
    THEN <<>>
    ELSE <<[code |-> c, at |-> now,
            still |-> x.id = "CARRIER_APPROACH" /\ x.lowSpoken /\ r.approach = "diverging"]>>

\* _feedback_for: a condition must hold and the last feedback have cooled down.
FeedbackFor(x, r) ==
    LET c == Condition(x.id, r) IN
    IF \/ c # x.condition \/ c \in Silent
       \/ now - x.conditionSince < HoldTime(x.id, c)
       \/ now - x.lastSpokenAt < Cooldown(x.id)
    THEN <<>>
    ELSE <<[code |-> c, at |-> now,
            still |-> x.id = "CARRIER_APPROACH" /\ x.lowSpoken /\ r.approach = "diverging"]>>

MutantRecord(segments, phase) ==
    Append(segments, [phase |-> phase, started |-> now, ended |-> Nothing, count |-> 1])

\* _record of CASE I: the phase's segment ends where the next begins.
Record(segments, phase) ==
    LET n == Len(segments) IN
    IF n > 0 /\ segments[n].phase = phase
    THEN [segments EXCEPT ![n].count = @ + 1]
    ELSE Append([i \in 1 .. n |-> IF i = n THEN [segments[n] EXCEPT !.ended = now] ELSE segments[i]],
                [phase |-> phase, started |-> now, ended |-> Nothing, count |-> 1])

\* What one sample adds: the time since the last to that one's zone, itself, and
\* in CASE I the phase it completes.
ZoneTimes(x) ==
    IF x.id \in Echelons /\ x.samples # <<>>
    THEN [x.zoneSeconds EXCEPT ![Last(x.samples).zone] = @ + (now - Last(x.samples).at)]
    ELSE x.zoneSeconds
SampleOf(x, r) ==
    [at |-> now, condition |-> Condition(x.id, r),
     zone |-> IF x.id \in Echelons THEN r.zone ELSE Nothing, resumed |-> x.state = "PAUSED"]
PhaseAfter(x, r) ==
    IF x.id = "CASE1_PATTERN" /\ r.advance /\ x.phase < Len(PatternPhases)
    THEN x.phase + 1 ELSE x.phase

\* One sample of an exercise whose ownship and reference are current.  The cap of
\* 100,000 samples is left out.
Sampled(x, r) ==
    LET c       == Condition(x.id, r)
        says    == FeedbackFor(x, r) # <<>>
        closing == x.id \in Echelons /\ c = "closure"
        phase   == PhaseAfter(x, r)
    IN  [x EXCEPT !.state = "ACTIVE",
            !.zoneSeconds = ZoneTimes(x),
            !.samples = Append(x.samples, SampleOf(x, r)),
            !.condition = c,
            !.conditionSince = IF c # x.condition THEN now ELSE x.conditionSince,
            !.lastSpokenAt = IF says THEN now ELSE x.lastSpokenAt,
            !.lowSpoken = IF says THEN c = "low" ELSE x.lowSpoken,
            !.overshoots = IF closing /\ ~x.warning THEN x.overshoots + 1 ELSE x.overshoots,
            !.warning = closing,
            !.phase = phase,
            !.segments = IF x.id = "CASE1_PATTERN" THEN Record(x.segments, phase)
                         ELSE x.segments]

\* CoachExercise.update.
Current(ship, observed) == ship.posed /\ ~Stale(ship.at) /\ ~Stale(observed)
Updated(x, ship, observed) ==
    IF Current(ship, observed) THEN Sampled(x, ship.reading) ELSE [x EXCEPT !.state = "PAUSED"]
Heard(x, ship, observed) ==
    IF Current(ship, observed) THEN FeedbackFor(x, ship.reading) ELSE <<>>

Kept(s) == SubSeq(s, 1 + (IF Len(s) > KeptFeedback THEN Len(s) - KeptFeedback ELSE 0), Len(s))

Idle == [exercise |-> Nothing, state |-> "IDLE"]
StatusOf(x) == [exercise |-> x.id, state |-> x.state]
Debrief(x, reason) ==
    [exercise |-> x.id, startedAt |-> x.startedAt, reason |-> reason,
     samples |-> Len(x.samples)]

-----------------------------------------------------------------------------
CoachInit ==
    /\ now = 0
    /\ caps = [own |-> FALSE, world |-> FALSE]
    /\ ownship = Nothing
    /\ references = [t \in {} |-> 0]
    /\ active = Nothing
    /\ lastStatus = Idle
    /\ feedback = <<>>
    /\ lastDebrief = Nothing
    /\ starts = 0

\* CapabilityManager.update and its callbacks: the store forgets the selected
\* objects, then the coordinator ends an exercise that is no longer permitted.
LosesExercise(c) == active # Nothing /\ Available(caps) /\ ~Available(c)
KeptReferences(c) == IF caps.world /\ ~c.world THEN [t \in {} |-> 0] ELSE references

ChangeCapabilities(c) ==
    /\ caps' = c
    /\ lastStatus' = IF LosesExercise(c)
                     THEN [exercise |-> active.id, state |-> "UNAVAILABLE"] ELSE lastStatus

\* coach.telemetry without ownship: the references stay as they were.
TelemetryWithoutOwnship ==
    \E c \in [own : BOOLEAN, world : BOOLEAN] :
        /\ ChangeCapabilities(c)
        /\ ownship' = Nothing
        /\ references' = KeptReferences(c)
        /\ active' = IF LosesExercise(c) THEN Nothing ELSE active
        /\ UNCHANGED <<now, feedback, lastDebrief, starts>>

\* coach.telemetry with ownship: CoachCoordinator.ingest.  The client sends less
\* often than the clock ticks, so an exercise gets one message at a time.
Telemetry ==
    \E world, posed \in BOOLEAN, seen \in SUBSET References, r \in Pictures :
        LET c    == [own |-> TRUE, world |-> world]
            ship == [posed |-> posed, reading |-> r, at |-> now]
            x    == IF LosesExercise(c) THEN Nothing ELSE active
        IN  /\ seen # {} => world
            /\ x # Nothing /\ x.samples # <<>> => now > Last(x.samples).at
            /\ ChangeCapabilities(c)
            /\ ownship' = ship
            /\ references' = [t \in seen |-> now]
            /\ IF x = Nothing
               THEN active' = Nothing /\ UNCHANGED feedback
               ELSE LET t == RequiredReference(x.id) IN
                    IF t \in seen
                    THEN /\ active' = Updated(x, ship, now)
                         /\ feedback' = Kept(feedback \o Heard(x, ship, now))
                    ELSE active' = [x EXCEPT !.state = "PAUSED"] /\ UNCHANGED feedback
            /\ UNCHANGED <<now, lastDebrief, starts>>

\* coach_start_exercise: refused without the permission or a known reference;
\* replaces the active exercise and looks at once at what the store holds.
Startable(e) == Available(caps) /\ RequiredReference(e) \in DOMAIN references
Start(e) ==
    LET x == CreateExercise(e)
        at == references[RequiredReference(e)]
    IN  /\ Startable(e)
        /\ starts < MaxStarts
        /\ starts' = starts + 1
        /\ lastDebrief' = IF active # Nothing THEN Debrief(active, "replaced") ELSE lastDebrief
        /\ active' = IF ownship # Nothing THEN Updated(x, ownship, at) ELSE x
        /\ feedback' = IF ownship # Nothing THEN Heard(x, ownship, at) ELSE <<>>
        /\ lastStatus' = StatusOf(active')
        /\ UNCHANGED <<now, caps, ownship, references>>

\* coach_stop_exercise.
Stop ==
    /\ active # Nothing
    /\ lastDebrief' = Debrief(active, Nothing)
    /\ lastStatus' = [exercise |-> active.id, state |-> "STOPPED"]
    /\ active' = Nothing
    /\ UNCHANGED <<now, caps, ownship, references, feedback, starts>>

\* Telemetry epoch reset: the permissions and the last debrief stay.
Reset ==
    /\ ownship' = Nothing
    /\ references' = [t \in {} |-> 0]
    /\ active' = Nothing
    /\ feedback' = <<>>
    /\ lastStatus' = Idle
    /\ UNCHANGED <<now, caps, lastDebrief, starts>>

CoachTick ==
    /\ now < MaxTime
    /\ now' = now + 1
    /\ UNCHANGED <<caps, ownship, references, active, lastStatus, feedback, lastDebrief, starts>>

CoachNext ==
    \/ TelemetryWithoutOwnship
    \/ Telemetry
    \/ \E e \in Exercises : Start(e)
    \/ Stop
    \/ Reset
    \/ CoachTick

CoachSpec == CoachInit /\ [][CoachNext]_coachVars

-----------------------------------------------------------------------------
Sample  == [at : Times, condition : Conditions, zone : Zones \cup {Nothing}, resumed : BOOLEAN]
Segment == [phase : 1 .. Len(PatternPhases), started : Times, ended : Times \cup {Nothing}, count : Nat]
Said    == [code : Conditions, at : Times, still : BOOLEAN]
Exercise ==
    [id : ExerciseId, state : {"ACTIVE", "PAUSED"}, startedAt : Times, samples : Seq(Sample),
     zoneSeconds : [Zones -> Nat], condition : Conditions \cup {Nothing}, conditionSince : Times,
     lastSpokenAt : Int, lowSpoken : BOOLEAN, overshoots : Nat, warning : BOOLEAN,
     phase : 1 .. Len(PatternPhases), segments : Seq(Segment)]
Flown ==
    [exercise : ExerciseId, startedAt : Times, reason : {"replaced", Nothing}, samples : Nat]

ASSUME NothingAssumption == Nothing \notin Exercise \cup Flown

\* An ended exercise is never left as the active one; what is stored is what
\* one message or one exercise put there.
CoachTypeOK ==
    /\ now \in Times
    /\ caps \in [own : BOOLEAN, world : BOOLEAN]
    /\ ownship \in [posed : BOOLEAN, reading : Pictures, at : Times] \cup {Nothing}
    /\ \E seen \in SUBSET References : references \in [seen -> Times]
    /\ active \in Exercise \cup {Nothing}
    /\ lastStatus \in [exercise : ExerciseId \cup {Nothing},
                       state : {"IDLE", "ACTIVE", "PAUSED", "STOPPED", "UNAVAILABLE"}]
    /\ feedback \in Seq(Said) /\ Len(feedback) <= KeptFeedback
    /\ lastDebrief \in Flown \cup {Nothing}
    /\ starts \in 0 .. MaxStarts

\* No exercise runs without both permissions, and without world-object export
\* the store holds no object of the world: permission loss takes effect before
\* any exercise is updated (CapabilityManager.update calls both callbacks
\* before the message's observations are used).
PermissionRespected ==
    /\ active # Nothing => caps.own /\ caps.world
    /\ ~caps.world => references = [t \in {} |-> 0]

\* What coach_get_status reports when no exercise runs never says that one
\* does, however the last one ended.
StatusTruth == active = Nothing => lastStatus.state \notin {"ACTIVE", "PAUSED"}

\* Feedback repeats no sooner than the cooldown; each answers samples that all
\* showed its condition for at least its hold; and "Still trending low" is
\* said only right after another low call.
HeldBefore(x, s) ==
    \E i, j \in DOMAIN x.samples :
        /\ i <= j /\ x.samples[j].at = s.at
        /\ \A k \in i .. j : x.samples[k].condition = s.code
        /\ x.samples[j].at - x.samples[i].at >= HoldTime(x.id, s.code)
HeldAndSpaced(x, said) ==
    \A i \in DOMAIN said :
        /\ HeldBefore(x, said[i])
        /\ i > 1 => said[i].at - said[i - 1].at >= Cooldown(x.id)
        /\ said[i].still => said[i].code = "low" /\ (i > 1 => said[i - 1].code = "low")
FeedbackHeldAndSpaced == active # Nothing => HeldAndSpaced(active, feedback)

\* The instants at which an exercise is in a zone: each sample's zone lasts until
\* the next sample.
InZone(x, z) ==
    {t \in Times : \E i \in 1 .. Len(x.samples) - 1 :
        /\ x.samples[i].zone = z
        /\ x.samples[i].at <= t /\ t < x.samples[i + 1].at}

\* The samples that begin a run of closure warnings.
Closures(x) ==
    {i \in DOMAIN x.samples :
        /\ x.samples[i].condition = "closure"
        /\ i > 1 => x.samples[i - 1].condition # "closure"}

\* The debrief's zone times add up to what the samples say; an overshoot is a
\* run of closure warnings.
ZonesAddUp(x) ==
    x.id \in Echelons =>
        /\ \A z \in Zones : x.zoneSeconds[z] = Cardinality(InZone(x, z))
        /\ x.overshoots = Cardinality(Closures(x))

\* The samples a segment spans.
Spanned(x, i) ==
    {k \in DOMAIN x.samples :
        /\ x.segments[i].started <= x.samples[k].at
        /\ i < Len(x.segments) => x.samples[k].at < x.segments[i].ended}

\* The CASE I segments follow the pattern's order without a gap: the first begins
\* with the first sample, each ends where the next begins, only the last is open,
\* and each counts the samples it spans.
SegmentsOrdered(x) ==
    x.id = "CASE1_PATTERN" =>
        LET s == x.segments IN
        /\ s = <<>> <=> x.samples = <<>>
        /\ s # <<>> => /\ s[1].started = x.samples[1].at
                       /\ s[Len(s)].ended = Nothing /\ s[Len(s)].phase = x.phase
        /\ \A i \in 1 .. Len(s) - 1 :
              /\ s[i].ended = s[i + 1].started /\ s[i + 1].phase = s[i].phase + 1
        /\ \A i \in DOMAIN s : s[i].count = Cardinality(Spanned(x, i))

\* A debrief tells what was flown, in the echelons (formation.py) and in the
\* pattern (case1.py).
DebriefFacts == active # Nothing => ZonesAddUp(active) /\ SegmentsOrdered(active)

\* An exercise that is stopped or replaced leaves its debrief; only a lost
\* permission or a reset ends one without.
DebriefKept ==
    [][active # Nothing /\ (active' = Nothing \/ starts' # starts) =>
          \/ /\ lastDebrief' # Nothing
             /\ lastDebrief'.exercise = active.id
             /\ lastDebrief'.startedAt = active.startedAt
             /\ lastDebrief'.samples = Len(active.samples)
          \/ lastStatus'.state \in {"UNAVAILABLE", "IDLE"}]_coachVars

\* docs/spatial-coaching-integration.md:117: a pause is not counted as time in
\* a zone; the zone of the sample before it does not last through it.
PausesAreNotCounted ==
    active # Nothing /\ active.id \in Echelons =>
        FoldFunctionOnSet(LAMBDA a, b : a + b, 0, active.zoneSeconds, Zones)
            = FoldFunctionOnSet(LAMBDA a, b : a + b, 0,
                [i \in 1 .. Len(active.samples) - 1 |->
                    IF active.samples[i + 1].resumed THEN 0
                    ELSE active.samples[i + 1].at - active.samples[i].at],
                1 .. Len(active.samples) - 1)

=============================================================================

-------------------------------- MODULE Hornet --------------------------------
(***************************************************************************)
(* The Hornet adapter, its configuration rules and the reports over the    *)
(* same cockpit: raw controls are normalized into a picture, at every      *)
(* update and again whenever a tool asks for a snapshot; the picture, the  *)
(* flight phase and the context fields derived from both decide which      *)
(* rules are violated and what the takeoff and departure reports say.      *)
(*                                                                         *)
(* One adapter serves all the cockpits of a session.  It remembers the     *)
(* last weight on wheels, the trim button, since when the gear looks up,   *)
(* the model time and the position; nothing resets it with the cockpit.    *)
(*                                                                         *)
(* An image is the raw store as the adapter reads it: values that are      *)
(* missing or stale are "none" or -1, switches are "yes" or "no".  Only    *)
(* the gear composite looks at stale values: `gearFresh` is "none" when    *)
(* the lever or a light is there but stale.  The phase comes from          *)
(* CockpitContext's detector, which lags the picture, so that any phase    *)
(* may accompany any picture.  Debounces are RuleLifecycle's.              *)
(*                                                                         *)
(* A definition named Mutant... is the definition after it with a          *)
(* plausible bug; nothing uses it.                                         *)
(***************************************************************************)
EXTENDS CockpitClock, Readiness

CONSTANTS
    Images,         \* raw images the model receives
    ReportedPhases, \* flight phases the detector reports here
    GearDwell,      \* gear_up_dwell_seconds
    Health          \* health_timeout

Flag     == {"yes", "no", "none"}
Gears    == {"up", "transit", "down", "none"}
Switches == [wow : Flag, toTrim : Flag, bar : Flag, hook : Flag, hookLever : Flag, seat : Flag,
             obogs : Flag, wings : Flag, combat : Flag, caution : Flag, park : Flag,
             taxiLight : Flag, probe : Flag, gearFresh : {"yes", "none"},
             lever : {"up", "down", "none"}, lights : {"lit", "some", "out", "none"},
             flaps : {"auto", "half", "full", "none"}, arm : {"safe", "arm", "none"},
             canopy : {"closed", "open", "moving", "none"}]
\* speed is what the positions give, -1 without one; brake is in percent of its travel.
Numbers  == [time : Int, ias : Int, speed : Int, brake : Int]
HornetPicture ==
            [switches : Switches, gear : Gears, trim : Flag, brake : Int, ias : Int,
             ground : Int]

ASSUME HornetAssumption ==
    /\ Images \subseteq [switches : Switches, numbers : Numbers]
    /\ GearDwell \in Nat /\ Health \in Nat /\ MaxTime \in Nat

VARIABLES
    connected,      \* the current cockpit is a connected Hornet
    raw,            \* the image of its raw store
    adapter,        \* FA18CAdapter: previous wow, trim confirmed, gear up since
    clock,          \* its GenericAircraftAdapter: last model time, when it last
                    \* advanced, whether it is validated, previous position's time
    phase,          \* current.flight_phase
    shown,          \* the picture normalized last
    upFor,          \* history: since when every picture had the lever up and the
                    \* lights out
    still,          \* history: the model time seen last, when, since when it has been,
                    \* and whether it was set back
    mine            \* history: of this cockpit, whether the trim button was seen
                    \* pressed, and how many positions, up to two

history == <<upFor, still, mine>>
hornetVars == <<now, connected, raw, adapter, clock, phase, shown, history>>

DarkSwitches ==
    [[f \in {"wow", "toTrim", "bar", "hook", "hookLever", "seat", "obogs", "wings", "combat",
             "caution", "park", "taxiLight", "probe", "gearFresh", "lever", "lights", "flaps",
             "arm", "canopy"} |-> "none"] EXCEPT !.gearFresh = "yes"]
DarkImage   == [switches |-> DarkSwitches,
                numbers  |-> [time |-> -1, ias |-> -1, speed |-> -1, brake |-> -1]]
DarkPicture == [switches |-> DarkSwitches, gear |-> "none", trim |-> "none", brake |-> -1,
                ias |-> -1, ground |-> -1]

\* Every variable has its type.
HornetTypeOK ==
    /\ now \in Times /\ connected \in BOOLEAN
    /\ raw \in Images \cup {DarkImage}
    /\ adapter \in [wow : Flag, trim : BOOLEAN, upSince : Times \cup {Never}]
    /\ clock \in [last : Int, advanced : Times \cup {Never}, valid : BOOLEAN, position : Int]
    /\ phase \in ReportedPhases
    /\ shown \in HornetPicture
    /\ upFor \in Times \cup {Never}
    /\ still \in [time : Int, since : Times, at : Times, rewound : BOOLEAN]
    /\ mine \in [pressed : BOOLEAN, located : 0..2]

HornetInit ==
    /\ now = 0 /\ connected = FALSE /\ raw = DarkImage
    /\ adapter = [wow |-> "none", trim |-> FALSE, upSince |-> Never]
    /\ clock = [last |-> -1, advanced |-> Never, valid |-> FALSE, position |-> -1]
    /\ phase = "UNKNOWN" /\ shown = DarkPicture
    /\ upFor = Never /\ still = [time |-> -1, since |-> 0, at |-> 0, rewound |-> FALSE]
    /\ mine = [pressed |-> FALSE, located |-> 0]

------------------------------------------------------------------------------
(* Normalization.                                                          *)

\* The lever is up and no light is lit.
LooksUp(s) == s.lever = "up" /\ s.lights = "out"

\* A lit light in between does not begin the dwell anew.
MutantUpSince(s) == IF LooksUp(s) /\ adapter.upSince = Never THEN now ELSE adapter.upSince

UpSince(s) ==
    IF ~LooksUp(s) THEN Never ELSE IF adapter.upSince = Never THEN now ELSE adapter.upSince

GearState(s, since) ==
    IF s.lever = "none" \/ s.lights = "none" \/ s.gearFresh = "none" THEN "none"
    ELSE IF s.lights = "lit" THEN "down"
    ELSE IF LooksUp(s) /\ now - since >= GearDwell THEN "up" ELSE "transit"

\* A landing forgets the button, unless weight on wheels was unusable before it.
Trimmed(s) == (adapter.trim /\ ~(adapter.wow = "no" /\ s.wow = "yes")) \/ s.toTrim = "yes"

\* _observe_model_time.
Advanced(time) ==
    [clock EXCEPT
        !.valid    = time # -1 /\ clock.last # -1 /\ (time > clock.last \/ (time = clock.last /\ @)),
        !.advanced = IF time # -1 /\ clock.last # -1 /\ time > clock.last THEN now ELSE @,
        !.last     = IF time = -1 THEN @ ELSE time]

\* A clock that has advanced once is healthy for good.
MutantHealthy(c) == c.valid

Healthy(c) == c.valid /\ now - c.advanced =< Health

\* A faster ground speed, in knots, is a jump of the position.
TopSpeed == 2000

Normalize(image) ==
    LET s == image.switches
        n == image.numbers
        c == Advanced(n.time)
        located == Healthy(c) /\ n.speed # -1
        rolling == located /\ clock.position # -1 /\ n.time > clock.position
                   /\ n.speed =< TopSpeed
    IN  /\ adapter' = [wow |-> s.wow, trim |-> Trimmed(s), upSince |-> UpSince(s)]
        /\ clock' = [c EXCEPT !.position = IF located THEN n.time ELSE -1]
        /\ shown' = [switches |-> s, gear |-> GearState(s, UpSince(s)), brake |-> n.brake,
                     trim |-> IF s.toTrim = "none" THEN "none" ELSE IF Trimmed(s) THEN "yes" ELSE "no",
                     ias |-> IF Healthy(c) THEN n.ias ELSE -1,
                     ground |-> IF rolling THEN n.speed ELSE -1]
        /\ upFor' = IF ~LooksUp(s) THEN Never ELSE IF upFor = Never THEN now ELSE upFor
        /\ still' = IF still.time = n.time THEN [still EXCEPT !.at = now]
                     ELSE [time |-> n.time, since |-> now, at |-> now,
                           rewound |-> n.time # -1 /\ n.time =< clock.last]
        /\ mine' = [pressed |-> mine.pressed \/ s.toTrim = "yes",
                    located |-> IF located /\ mine.located < 2 THEN mine.located + 1
                                ELSE mine.located]

------------------------------------------------------------------------------
(* Context fields, derived by _derive_context_fields.                      *)

Is(b) == IF b THEN "yes" ELSE "no"

Airborne(p)  == IF p.switches.wow = "none" THEN "none" ELSE Is(p.switches.wow = "no")
CarrierLaunchSequence(p) ==
    IF p.switches.wow = "none" \/ p.switches.bar = "none" THEN "none"
    ELSE Is(p.switches.wow = "yes" /\ p.switches.bar = "yes")
TakeoffSequence(p) ==
    IF p.switches.wow = "none" \/ (p.ias = -1 /\ CarrierLaunchSequence(p) = "none") THEN "none"
    ELSE Is(CarrierLaunchSequence(p) = "yes" \/ (p.switches.wow = "yes" /\ p.ias >= 80))
CarrierRecovery(p, f) ==
    IF p.switches.wow = "none" \/ (p.switches.hookLever = "none" /\ p.switches.hook = "none")
    THEN "none"
    ELSE Is(f \in {"APPROACH", "LANDING"} /\ (p.switches.hookLever = "yes" \/ p.switches.hook = "yes"))

------------------------------------------------------------------------------
(* Rules: the identifiers of those that are violated in picture p and      *)
(* phase f, `held` being whether the issue is active already.              *)

If(condition, rule) == IF condition THEN {rule} ELSE {}

LaunchIssues(p, f) ==
    LET s == p.switches
        carrier == f \in {"TAXI", "TAKEOFF"} /\ CarrierLaunchSequence(p) = "yes"
        takeoff == f \in {"TAXI", "TAKEOFF"} /\ TakeoffSequence(p) = "yes"
    IN  UNION {If(carrier /\ s.flaps \in {"auto", "full"}, "CARRIER_FLAPS_NOT_HALF"),
               If(carrier /\ p.trim = "no", "TAKEOFF_TRIM_NOT_CONFIRMED"),
               If(carrier /\ s.wings = "no", "WINGS_NOT_SPREAD_FOR_LAUNCH"),
               If(carrier /\ p.brake > 5, "SPEEDBRAKE_EXTENDED_FOR_LAUNCH"),
               If(takeoff /\ s.seat = "no", "EJECTION_SEAT_SAFE_FOR_LAUNCH"),
               If(takeoff /\ s.obogs = "no", "OBOGS_OFF_FOR_TAKEOFF")}

DepartureIssues(p, f) ==
    LET s == p.switches
        climbing == f = "CLIMB" /\ Airborne(p) = "yes"
        departed == f \in {"TAKEOFF", "CLIMB"} /\ Airborne(p) = "yes"
    IN  UNION {If(Airborne(p) = "yes" /\ s.bar = "yes", "LAUNCH_BAR_DOWN_AIRBORNE"),
               If(climbing /\ s.flaps \in {"half", "full"}, "FLAPS_NOT_AUTO_AFTER_TAKEOFF"),
               If(departed /\ p.gear \in {"down", "transit"}, "GEAR_STILL_DOWN_AFTER_TAKEOFF")}

FlightIssues(p, f) ==
    LET s == p.switches
        away == f \in {"TAKEOFF", "CLIMB", "CRUISE", "COMBAT", "REFUELING"}
    IN  UNION {If(Airborne(p) = "yes" /\ CarrierRecovery(p, f) = "no" /\ s.hook = "yes",
                  "HOOK_DOWN_OUTSIDE_RECOVERY"),
               If(s.combat = "yes" /\ s.arm = "safe", "MASTER_ARM_SAFE_IN_COMBAT_MODE"),
               If(s.lever = "down" /\ p.gear \in {"up", "transit"}, "GEAR_COMMANDED_DOWN_BUT_NOT_SAFE"),
               If(away /\ s.hookLever = "yes" /\ s.hook = "no", "HOOK_COMMANDED_DOWN_BUT_NOT_EXTENDED")}

RecoveryIssues(p, f) ==
    LET recovering == /\ f \in {"APPROACH", "LANDING"} /\ CarrierRecovery(p, f) = "yes"
                      /\ p.gear = "down"
    IN  UNION {If(recovering /\ p.switches.hook = "no", "CARRIER_HOOK_NOT_DOWN"),
               If(recovering /\ p.switches.flaps \in {"auto", "half"},
                  "FLAPS_NOT_FULL_ON_CARRIER_RECOVERY")}

MovingIssues(p, f, held) ==
    LET s == p.switches
        ground == s.wow = "yes" /\ p.ground # -1
    IN  UNION {If(s.caution = "yes", "FA18_MASTER_CAUTION"),
               If(s.wow = "no" /\ p.gear \in {"down", "transit"} /\ p.ias >= IF held THEN 240 ELSE 250,
                  "FA18_GEAR_OVERSPEED"),
               If(s.canopy \in {"open", "moving"} /\ p.ias >= IF held THEN 10 ELSE 20,
                  "FA18_CANOPY_OPEN_MOVING"),
               If(ground /\ s.park = "yes" /\ p.ground >= IF held THEN 2 ELSE 5,
                  "FA18_PARKING_BRAKE_TAXI"),
               If(ground /\ f = "TAXI" /\ s.taxiLight = "no" /\ p.ground >= 3, "FA18_TAXI_LIGHT_OFF")}

PhaseIssues(p, f) ==
    LET airborne == {"TAKEOFF", "CLIMB", "CRUISE", "COMBAT", "REFUELING", "APPROACH", "LANDING"}
    IN  UNION {If(f \in airborne \cup {"TAXI"} /\ p.switches.seat = "no", "FA18_EJECTION_SEAT_NOT_ARMED"),
               If(f \in airborne \ {"TAKEOFF", "REFUELING"} /\ p.switches.probe = "yes",
                  "FA18_REFUELING_PROBE_LEFT_OUT")}

Issues(p, f, held) ==
    UNION {LaunchIssues(p, f), DepartureIssues(p, f), FlightIssues(p, f), RecoveryIssues(p, f),
           MovingIssues(p, f, held), PhaseIssues(p, f)}

------------------------------------------------------------------------------
(* Reports.                                                                *)

ResolveOperation(p, op) ==
    IF op # "AUTO" THEN op ELSE IF CarrierLaunchSequence(p) = "yes" THEN "CARRIER" ELSE "UNKNOWN"

LaunchBar(p, op) ==
    CASE ResolveOperation(p, op) = "CARRIER" -> Expected(p.switches.bar, "yes")
      [] ResolveOperation(p, op) = "LAND"    -> Expected(p.switches.bar, "no")
      [] OTHER                               -> "UNCONFIRMED"

\* The gate without the wings.
MutantTakeoffGate(p) ==
    LET s == p.switches
    IN  {Expected(s.flaps, "half"), Expected(p.gear, "down"), Expected(s.hook, "no"),
         Expected(s.arm, "safe"), Expected(s.seat, "yes"), Expected(s.obogs, "yes"),
         Expected(s.canopy, "closed"), Expected(p.trim, "yes"), Expected(s.caution, "no"),
         IF p.brake = -1 THEN "UNCONFIRMED" ELSE IF p.brake =< 5 THEN "COMPLETE" ELSE "INCOMPLETE"}

TakeoffGate(p) ==
    LET s == p.switches
    IN  {Expected(s.flaps, "half"), Expected(p.gear, "down"), Expected(s.hook, "no"),
         Expected(s.arm, "safe"), Expected(s.seat, "yes"), Expected(s.obogs, "yes"),
         Expected(s.canopy, "closed"), Expected(p.trim, "yes"), Expected(s.wings, "yes"),
         Expected(s.caution, "no"),
         IF p.brake = -1 THEN "UNCONFIRMED" ELSE IF p.brake =< 5 THEN "COMPLETE" ELSE "INCOMPLETE"}

TakeoffReadiness(p, op) ==
    IF p.switches.wow = "no" THEN "NOT_APPLICABLE"
    ELSE Report(TakeoffGate(p) \cup {LaunchBar(p, op)})

DepartureCleanup(p, f) ==
    IF f = "UNKNOWN" THEN "UNKNOWN"
    ELSE IF f \notin {"TAKEOFF", "CLIMB"} THEN "NOT_APPLICABLE"
    ELSE IF Airborne(p) = "none" THEN "UNKNOWN"
    ELSE IF Airborne(p) = "no" THEN "NOT_APPLICABLE"
    ELSE Report({Expected(p.gear, "up"), Expected(p.switches.flaps, "auto"),
                 Expected(p.switches.bar, "no")})

\* The phase a snapshot shows.
ShownPhase == IF shown = DarkPicture THEN "UNKNOWN" ELSE phase

------------------------------------------------------------------------------
(* Steps.                                                                  *)

\* A snapshot or a delta of the current slot, and the update it causes.
UpdateHornet(image) ==
    /\ connected' = TRUE /\ raw' = image
    /\ Normalize(image)
    /\ phase' \in ReportedPhases
    /\ UNCHANGED now

\* image is raw with some of its values gone stale.
StaleOf(image) ==
    /\ image.switches.lever = raw.switches.lever /\ image.switches.lights = raw.switches.lights
    /\ \A f \in DOMAIN image.switches : image.switches[f] \in {raw.switches[f], "none"}
    /\ \A f \in DOMAIN image.numbers : image.numbers[f] \in {raw.numbers[f], -1}

\* A tool reads the cockpit: normalized anew, but no update.
Snapshot(image) ==
    /\ connected /\ StaleOf(image)
    /\ raw' = image
    /\ Normalize(image)
    /\ UNCHANGED <<now, connected, phase>>

\* The slot or the connection ends, or another aircraft is flown.
Leave ==
    /\ connected
    /\ connected' = FALSE /\ raw' = DarkImage /\ phase' = "UNKNOWN" /\ shown' = DarkPicture
    /\ mine' = [pressed |-> FALSE, located |-> 0]
    /\ UNCHANGED <<now, adapter, clock, upFor, still>>

HornetTick ==
    /\ now < MaxTime
    /\ now' = now + 1
    /\ UNCHANGED <<connected, raw, adapter, clock, phase, shown, history>>

HornetNext ==
    \/ \E image \in Images : UpdateHornet(image) \/ Snapshot(image)
    \/ Leave \/ HornetTick

HornetSpec == HornetInit /\ [][HornetNext]_hornetVars

------------------------------------------------------------------------------
(* Properties.                                                             *)

\* What a takeoff gate covers.  The gate wants the Master Arm SAFE even where
\* MASTER_ARM_SAFE_IN_COMBAT_MODE, which is not among them, warns of it.
Readies == {"CARRIER_FLAPS_NOT_HALF", "TAKEOFF_TRIM_NOT_CONFIRMED", "WINGS_NOT_SPREAD_FOR_LAUNCH",
            "SPEEDBRAKE_EXTENDED_FOR_LAUNCH", "EJECTION_SEAT_SAFE_FOR_LAUNCH",
            "OBOGS_OFF_FOR_TAKEOFF", "FA18_MASTER_CAUTION", "FA18_CANOPY_OPEN_MOVING",
            "FA18_EJECTION_SEAT_NOT_ARMED", "GEAR_COMMANDED_DOWN_BUT_NOT_SAFE",
            "HOOK_DOWN_OUTSIDE_RECOVERY"}

\* A pilot who is told that the aircraft is ready for takeoff, or cleaned up after
\* it, is not warned in the same state about what that report covers.
ReportsAgreeWithRules ==
    \A held \in BOOLEAN :
        /\ \A op \in {"AUTO", "LAND", "CARRIER"} :
             TakeoffReadiness(shown, op) = "READY"
             => Issues(shown, ShownPhase, held) \cap Readies = {}
        /\ DepartureCleanup(shown, ShownPhase) = "READY"
           => DepartureIssues(shown, ShownPhase) \cup
                 (Issues(shown, ShownPhase, held) \cap {"FA18_GEAR_OVERSPEED"}) = {}

\* The gear is shown up only when every picture of a whole dwell time had the
\* lever up and no light lit, whoever asked for those pictures.
GearUpHeld == shown.gear = "up" => upFor # Never /\ now - upFor >= GearDwell

\* Speeds come from a model clock that runs: its time is usable, has advanced
\* within the health timeout and was not set back since.
SpeedsAreLive ==
    shown.ias # -1 \/ shown.ground # -1
    => still.time # -1 /\ still.at - still.since =< Health /\ ~still.rewound

\* What the adapter derives over time, in fa18c.py and generic.py, stands on a
\* history that is still alive.
DerivedAreHeld == GearUpHeld /\ SpeedsAreLive

\* docs/architecture.md: a new epoch resets the session-memory telemetry state.
\* A confirmed trim and a ground speed are drawn from this cockpit alone.
AdapterIsOfThisCockpit ==
    /\ shown.trim = "yes" => mine.pressed
    /\ shown.ground # -1 => mine.located = 2

==============================================================================

--------------------------- MODULE HornetChecklist ---------------------------
(***************************************************************************)
(* The F/A-18C checklist as shipped: its stages, their items, and what     *)
(* each item reads off the aircraft's state.  A field has its value, or    *)
(* "unknown" when it is not usable; numbers are abstracted to the side of  *)
(* the item's threshold they are on.                                       *)
(***************************************************************************)
EXTENDS Sequences

HornetStages == {"pre-start", "engine-start", "post-start", "before-taxi", "before-takeoff",
                 "carrier-launch"}

HornetDependsOn == [s \in HornetStages |->
    CASE s = "pre-start"      -> <<>>
      [] s = "engine-start"   -> <<"pre-start">>
      [] s = "post-start"     -> <<"engine-start">>
      [] s = "before-taxi"    -> <<"post-start">>
      [] s = "before-takeoff" -> <<"before-taxi">>
      [] s = "carrier-launch" -> <<"before-takeoff">>]

HornetItemsOf == [s \in HornetStages |->
    CASE s = "pre-start"      -> <<"parking_brake", "master_arm_safe", "battery_on">>
      [] s = "engine-start"   -> <<"apu_ready", "left_engine_running", "right_engine_running">>
      [] s = "post-start"     -> <<"obogs_on", "left_generator_normal", "right_generator_normal",
                                   "bleed_air_normal", "ins_alignment_selected",
                                   "master_caution_clear">>
      [] s = "before-taxi"    -> <<"parking_brake_released", "ejection_seat_armed",
                                   "canopy_closed", "takeoff_trim", "ins_navigation_ready",
                                   "hud_on", "taxi_light_on">>
      [] s = "before-takeoff" -> <<"flaps_half", "gear_down", "hook_up", "speedbrake_retracted",
                                   "master_arm_safe_takeoff">>
      [] s = "carrier-launch" -> <<"wings_spread", "launch_bar_down", "carrier_launch_config">>]

ItemsIn(stages) == UNION {{HornetItemsOf[s][k] : k \in DOMAIN HornetItemsOf[s]} : s \in stages}
HornetItems     == ItemsIn(HornetStages)

HornetKind ==
    [i \in HornetItems |-> IF i \in {"apu_ready", "carrier_launch_config"} THEN "derived" ELSE "state"]

HornetLatching == {"parking_brake"}

\* The fields that the items look at, as they are when all is well before taxiing.
TaxiFields ==
    [parking_brake |-> "released", master_arm |-> "SAFE", battery |-> "on", apu |-> "off",
     left_rpm |-> "above", right_rpm |-> "above", obogs |-> "on", left_generator |-> "normal",
     right_generator |-> "normal", bleed_air |-> "normal", ins_mode |-> "NAV",
     master_caution |-> "clear", seat |-> "armed", canopy |-> "CLOSED", trim |-> "confirmed",
     hud |-> "above", taxi_light |-> "on", flaps |-> "HALF", gear |-> "DOWN", hook |-> "up",
     speed_brake |-> "in", wings |-> "spread", launch_bar |-> "up"]

\* An expectation on one field.
OneOf(v, wanted) == IF v = "unknown" THEN "unknown" ELSE IF v \in wanted THEN "good" ELSE "bad"

\* all and any: a condition over an unusable value is not met.
AllOf(readings) ==
    IF "bad" \in readings THEN "bad" ELSE IF "unknown" \in readings THEN "unknown" ELSE "good"
AnyOf(readings) ==
    IF "good" \in readings THEN "good" ELSE IF "unknown" \in readings THEN "unknown" ELSE "bad"

\* Before start and after it.
StartReading(f, i) ==
    CASE i = "parking_brake"          -> OneOf(f.parking_brake, {"set"})
      [] i = "master_arm_safe"        -> OneOf(f.master_arm, {"SAFE"})
      [] i = "battery_on"             -> OneOf(f.battery, {"on"})
      [] i = "apu_ready" ->
            AnyOf({OneOf(f.apu, {"ready"}),
                 AllOf({OneOf(f.left_rpm, {"above"}), OneOf(f.right_rpm, {"above"})})})
      [] i = "left_engine_running"    -> OneOf(f.left_rpm, {"above"})
      [] i = "right_engine_running"   -> OneOf(f.right_rpm, {"above"})
      [] i = "obogs_on"               -> OneOf(f.obogs, {"on"})
      [] i = "left_generator_normal"  -> OneOf(f.left_generator, {"normal"})
      [] i = "right_generator_normal" -> OneOf(f.right_generator, {"normal"})
      [] i = "bleed_air_normal"       -> OneOf(f.bleed_air, {"normal"})
      [] i = "ins_alignment_selected" -> OneOf(f.ins_mode, {"CV", "GND", "NAV", "IFA"})
      [] i = "master_caution_clear"   -> OneOf(f.master_caution, {"clear"})

\* Before taxi.
TaxiReading(f, i) ==
    CASE i = "parking_brake_released" -> OneOf(f.parking_brake, {"released"})
      [] i = "ejection_seat_armed"    -> OneOf(f.seat, {"armed"})
      [] i = "canopy_closed"          -> OneOf(f.canopy, {"CLOSED"})
      [] i = "takeoff_trim"           -> OneOf(f.trim, {"confirmed"})
      [] i = "ins_navigation_ready"   -> OneOf(f.ins_mode, {"NAV", "IFA"})
      [] i = "hud_on"                 -> OneOf(f.hud, {"above"})
      [] i = "taxi_light_on"          -> OneOf(f.taxi_light, {"on"})

\* Before takeoff and on the catapult.
LaunchReading(f, i) ==
    CASE i = "flaps_half"              -> OneOf(f.flaps, {"HALF"})
      [] i = "gear_down"               -> OneOf(f.gear, {"DOWN"})
      [] i = "hook_up"                 -> OneOf(f.hook, {"up"})
      [] i = "speedbrake_retracted"    -> OneOf(f.speed_brake, {"in"})
      [] i = "master_arm_safe_takeoff" -> OneOf(f.master_arm, {"SAFE"})
      [] i = "wings_spread"            -> OneOf(f.wings, {"spread"})
      [] i = "launch_bar_down"         -> OneOf(f.launch_bar, {"down"})
      [] i = "carrier_launch_config" ->
            AllOf({OneOf(f.flaps, {"HALF"}), OneOf(f.gear, {"DOWN"}), OneOf(f.hook, {"up"}),
                 OneOf(f.seat, {"armed"}), OneOf(f.obogs, {"on"}), OneOf(f.wings, {"spread"})})

Reading(f, i) ==
    IF i \in ItemsIn({"pre-start", "engine-start", "post-start"}) THEN StartReading(f, i)
    ELSE IF i \in ItemsIn({"before-taxi"}) THEN TaxiReading(f, i)
    ELSE LaunchReading(f, i)

==============================================================================

-------------------------- MODULE MCCockpitContext --------------------------
(***************************************************************************)
(* Two aircraft, the shipped checklist, pictures of every kind: parked     *)
(* with the brake set, released or not reported, the APU and the engines   *)
(* reported or not, taxiing, on the catapult, and flying.                  *)
(***************************************************************************)
EXTENDS CockpitContext, HornetChecklist

MCDwell == [p \in Phases |-> CASE p = "UNKNOWN" -> 0
                               [] p \in {"REFUELING", "LANDING", "POST_LANDING"} -> 1
                               [] OTHER -> 2]

\* The stages that come before taxiing.
MCStages == HornetStages \ {"before-takeoff", "carrier-launch"}
MCDependsOn == [s \in MCStages |-> HornetDependsOn[s]]
MCItemsOf == [s \in MCStages |-> HornetItemsOf[s]]
MCKind == [i \in Items |-> HornetKind[i]]

Taxi == TaxiFields

\* On the wheels with the fields f.
Parked(f, engines, ground, bar) ==
    [wow |-> "wheels", engines |-> engines, ias |-> 0, ground |-> ground, gear |-> "down",
     climb |-> "level", fuelling |-> FALSE, bar |-> bar, items |-> [i \in Items |-> Reading(f, i)]]
Flying(ias, gear, climb) ==
    [Parked(Taxi, "running", -1, "up") EXCEPT !.wow = "air", !.ias = ias, !.gear = gear,
        !.climb = climb]
MCCockpits ==
    {Parked(Taxi, "running", 0, "up"),
     Parked([Taxi EXCEPT !.parking_brake = "set", !.launch_bar = "down"], "running", 9, "down"),
     Parked([Taxi EXCEPT !.parking_brake = "unknown", !.left_rpm = "unknown"], "none", 0, "up"),
     [Parked(Taxi, "running", 0, "up") EXCEPT !.wow = "none"],
     Flying(300, "up", "level"), Flying(140, "down", "sinking")}

=============================================================================

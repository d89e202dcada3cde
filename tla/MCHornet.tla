------------------------------- MODULE MCHornet -------------------------------
(***************************************************************************)
(* A Hornet ready on the catapult or on a runway, what can be wrong with   *)
(* it, and the flight after it; some of the same images with stale values. *)
(***************************************************************************)
EXTENDS Hornet

Deck ==
    [switches |-> [DarkSwitches EXCEPT !.wow = "yes", !.toTrim = "no", !.bar = "yes",
        !.hook = "no", !.hookLever = "no", !.seat = "yes", !.obogs = "yes", !.wings = "yes",
        !.combat = "no", !.caution = "no", !.park = "no", !.taxiLight = "yes", !.probe = "no",
        !.lever = "down", !.lights = "lit", !.flaps = "half", !.arm = "safe", !.canopy = "closed"],
     numbers |-> [time |-> 1, ias |-> 30, speed |-> 6, brake |-> 5]]
Runway  == [Deck EXCEPT !.switches.bar = "no", !.numbers.ias = 90, !.numbers.time = 2]
Airbase == [Runway EXCEPT !.switches.wow = "no", !.numbers.ias = 260]
Clean   == [Airbase EXCEPT !.switches.lever = "up", !.switches.lights = "out",
                           !.switches.flaps = "auto", !.switches.hook = "yes"]
MCImages ==
    {Deck, Runway, Clean}
    \cup {[Deck EXCEPT !.switches.toTrim = "yes"], [Deck EXCEPT !.switches.wings = "no"],
          [Deck EXCEPT !.numbers.brake = 6], [Deck EXCEPT !.switches.canopy = "open", !.numbers.speed = TopSpeed + 1],
          [Deck EXCEPT !.switches.obogs = "none", !.numbers.speed = -1]}
    \cup {[Airbase EXCEPT !.switches.bar = "yes"], [Clean EXCEPT !.switches.lights = "some"],
          [Clean EXCEPT !.switches.gearFresh = "none"], [Clean EXCEPT !.numbers.time = -1]}

==============================================================================
